-------------------------- MODULE NotificationsProofs --------------------------
(***************************************************************************)
(* Theorems about Notifications, for any number of replicas and events,    *)
(* with or without deaths and broken connections.                          *)
(***************************************************************************)
EXTENDS Notifications, TLAPS

(* A replica that is connected is handling e. *)
Holds(p, e) == handler[p][e] # "none" /\ channel[p] = "live"

(* What a connected replica handles is unacknowledged, and no other connected
   replica handles it; one that lost its connection may still be at it. *)
HeldOnce ==
  \A e \in Events :
    /\ \A p \in Procs : Holds(p, e) => queue[e] = "unacked"
    /\ \A p, q \in Procs : Holds(p, e) /\ Holds(q, e) => p = q

(* A call of consume that is past its INSERT has written a row. *)
SavedIsNoted == \A p \in Procs, e \in Events : handler[p][e] = "saved" => notes[e] > 0

(* The end of a process ends its calls of consume. *)
DeadHandleNothing == \A p \in Procs, e \in Events : channel[p] = "dead" => handler[p][e] = "none"

IInv == TypeOK /\ HeldOnce /\ SavedIsNoted /\ DeadHandleNothing /\ AckedIsRecorded

-----------------------------------------------------------------------------
LEMMA InitIInv == Init => IInv
BY NotificationsAssumption
   DEF Init, IInv, TypeOK, Holds, HeldOnce, SavedIsNoted, DeadHandleNothing, AckedIsRecorded

(* Requests leave consume alone; a publish can only make a new message ready. *)
LEMMA RequestIInv ==
  ASSUME IInv, NEW e \in Events, Commit(e) \/ Publish(e) \/ \E p \in Procs : Begin(p, e)
  PROVE  IInv'
<1> USE DEF IInv, TypeOK
<1>1. UNCHANGED <<channel, handler, notes>>
  BY DEF Commit, Publish, Begin
<1>2. /\ queue' \in [Events -> {"absent", "ready", "unacked", "acked", "dropped"}]
      /\ \A x \in Events : queue'[x] = queue[x] \/ (queue[x] = "absent" /\ queue'[x] = "ready")
  BY DEF Commit, Publish, Begin
<1>3. TypeOK'
  <2>1. /\ tx' \in [Events -> {"idle", "open", "committed", "published", "lost"}]
        /\ home' \in [Events -> Procs \cup {Nobody}]
    BY DEF Commit, Publish, Begin
  <2>2. \A x \in Events :
          queue'[x] = "unacked" => \E p \in Procs : handler'[p][x] # "none" /\ channel'[p] = "live"
    BY <1>1, <1>2
  <2> QED
    BY <1>1, <1>2, <2>1, <2>2
<1>4. HeldOnce' /\ SavedIsNoted' /\ DeadHandleNothing' /\ AckedIsRecorded'
  BY <1>1, <1>2 DEF Holds, HeldOnce, SavedIsNoted, DeadHandleNothing, AckedIsRecorded
<1> QED
  BY <1>3, <1>4

LEMMA DeliverIInv == ASSUME IInv, NEW p \in Procs, NEW e \in Events, Deliver(p, e) PROVE IInv'
<1> USE DEF IInv, TypeOK, Deliver, DeliverIf
<1>1. TypeOK'
  OBVIOUS
<1>2. HeldOnce'
  BY DEF Holds, HeldOnce
<1>3. SavedIsNoted' /\ DeadHandleNothing' /\ AckedIsRecorded'
  BY DEF SavedIsNoted, DeadHandleNothing, AckedIsRecorded
<1> QED
  BY <1>1, <1>2, <1>3

LEMMA SaveIInv == ASSUME IInv, NEW p \in Procs, NEW e \in Events, SaveNote(p, e) PROVE IInv'
<1> USE NotificationsAssumption DEF IInv, TypeOK, SaveNote
<1>1. notes' \in [Events -> 0..MaxNotes] /\ notes'[e] > 0 /\ \A x \in Events : notes'[x] >= notes[x]
  OBVIOUS
<1>2. TypeOK'
  BY <1>1
<1>3. HeldOnce'
  BY DEF Holds, HeldOnce
<1>4. SavedIsNoted' /\ DeadHandleNothing' /\ AckedIsRecorded'
  BY <1>1 DEF SavedIsNoted, DeadHandleNothing, AckedIsRecorded
<1> QED
  BY <1>2, <1>3, <1>4

(* A process ends: what it held goes back to the queue. *)
LEMMA DeadIInv == ASSUME IInv, NEW p \in Procs, Dead(p) PROVE IInv'
<1> USE DEF IInv, TypeOK, Dead
<1>1. \A q \in Procs \ {p}, e \in Events : channel'[q] = channel[q] /\ handler'[q][e] = handler[q][e]
  OBVIOUS
<1>2. \A e \in Events : handler'[p][e] = "none" /\ channel'[p] = "dead"
  OBVIOUS
<1>3. \A e \in Events : queue'[e] = IF Holds(p, e) THEN "ready" ELSE queue[e]
  BY DEF Unacked, Holds, HeldOnce
<1>4. TypeOK'
  <2>1. ASSUME NEW e \in Events, queue'[e] = "unacked"
        PROVE  \E q \in Procs : handler'[q][e] # "none" /\ channel'[q] = "live"
    BY <1>1, <1>3, <2>1 DEF Holds
  <2> QED
    BY <2>1
<1>5. HeldOnce'
  <2> SUFFICES ASSUME NEW e \in Events, NEW q \in Procs, NEW r \in Procs, Holds(q, e)'
               PROVE  queue'[e] = "unacked" /\ (Holds(r, e)' => q = r)
    BY DEF HeldOnce
  <2>1. q # p /\ Holds(q, e) /\ ~Holds(p, e)
    BY <1>1, <1>2 DEF Holds, HeldOnce
  <2> QED
    BY <1>1, <1>2, <1>3, <2>1 DEF Holds, HeldOnce
<1>6. SavedIsNoted' /\ DeadHandleNothing' /\ AckedIsRecorded'
  BY <1>1, <1>2, <1>3 DEF SavedIsNoted, DeadHandleNothing, AckedIsRecorded
<1> QED
  BY <1>4, <1>5, <1>6

(* An answer to the broker takes the message off the queue, if it arrives; an
   ack is sent only when the row is written. *)
LEMMA SettleIInv ==
  ASSUME IInv, NEW p \in Procs, NEW e \in Events, NEW next \in {"acked", "dropped"},
         Settle(p, e, next), next = "acked" => handler[p][e] = "saved", handler[p][e] # "none"
  PROVE  IInv'
<1> USE DEF IInv, TypeOK
<1>1. CASE channel[p] = "none"
  BY <1>1, DeadIInv DEF Settle
<1>2. CASE channel[p] # "none"
  <2>1. /\ UNCHANGED <<channel, tx, home, notes>>
        /\ handler' = [handler EXCEPT ![p][e] = "none"]
        /\ queue' = [queue EXCEPT ![e] = IF e \in Unacked(p) THEN next ELSE @]
    BY <1>2 DEF Settle
  <2>2. /\ handler'[p][e] = "none"
        /\ \A q \in Procs, x \in Events : q # p \/ x # e => handler'[q][x] = handler[q][x]
    BY <2>1
  <2>3. /\ \A x \in Events \ {e} : queue'[x] = queue[x]
        /\ queue'[e] = IF Holds(p, e) THEN next ELSE queue[e]
    BY <2>1 DEF Unacked, Holds, HeldOnce
  <2>4. TypeOK'
    <3>1. ASSUME NEW x \in Events, queue'[x] = "unacked"
          PROVE  \E q \in Procs : handler'[q][x] # "none" /\ channel'[q] = "live"
      BY <2>1, <2>2, <2>3, <3>1 DEF Holds
    <3> QED
      BY <2>1, <3>1
  <2>5. HeldOnce'
    <3> SUFFICES ASSUME NEW x \in Events, NEW q \in Procs, NEW r \in Procs, Holds(q, x)'
                 PROVE  queue'[x] = "unacked" /\ (Holds(r, x)' => q = r)
      BY DEF HeldOnce
    <3>1. Holds(q, x) /\ (x = e => q # p /\ ~Holds(p, e))
      BY <2>1, <2>2 DEF Holds, HeldOnce
    <3> QED
      BY <2>1, <2>2, <2>3, <3>1 DEF Holds, HeldOnce
  <2>6. SavedIsNoted' /\ DeadHandleNothing' /\ AckedIsRecorded'
    BY <2>1, <2>2, <2>3 DEF SavedIsNoted, DeadHandleNothing, AckedIsRecorded
  <2> QED
    BY <2>4, <2>5, <2>6
<1> QED
  BY <1>1, <1>2

(* RabbitMQ takes back what a broken connection held. *)
LEMMA BreakIInv == ASSUME IInv, NEW p \in Procs, Break(p) PROVE IInv'
<1> USE DEF IInv, TypeOK, Break
<1>1. channel'[p] = "broken" /\ \A q \in Procs \ {p} : channel'[q] = channel[q]
  OBVIOUS
<1>2. \A e \in Events : queue'[e] = IF Holds(p, e) THEN "ready" ELSE queue[e]
  BY DEF Unacked, Holds, HeldOnce
<1>3. TypeOK'
  <2>1. ASSUME NEW e \in Events, queue'[e] = "unacked"
        PROVE  \E q \in Procs : handler'[q][e] # "none" /\ channel'[q] = "live"
    BY <1>1, <1>2, <2>1 DEF Holds
  <2> QED
    BY <2>1
<1>4. HeldOnce'
  BY <1>1, <1>2 DEF Holds, HeldOnce
<1>5. SavedIsNoted' /\ DeadHandleNothing' /\ AckedIsRecorded'
  BY <1>1, <1>2 DEF SavedIsNoted, DeadHandleNothing, AckedIsRecorded
<1> QED
  BY <1>3, <1>4, <1>5

(* A close event is noticed, or a dead process starts again: no connection is
   lost by that, and none is gained with a call of consume under way. *)
LEMMA ReconnectIInv ==
  ASSUME IInv, NEW p \in Procs, NoticeClose(p) \/ Restart(p)
  PROVE  IInv'
<1> USE DEF IInv, TypeOK
<1>1. PICK c \in {"live", "none"} : channel' = [channel EXCEPT ![p] = c]
  BY DEF NoticeClose, Restart
<1>2. /\ UNCHANGED <<tx, home, queue, handler, notes>>
      /\ channel[p] # "live"
      /\ c = "live" => \A e \in Events : handler[p][e] = "none"
  BY <1>1 DEF NoticeClose, Restart, Up, DeadHandleNothing
<1>3. \A q \in Procs, e \in Events : Holds(q, e)' <=> Holds(q, e)
  BY <1>1, <1>2 DEF Holds
<1>4. TypeOK'
  <2>1. ASSUME NEW e \in Events, queue'[e] = "unacked"
        PROVE  \E q \in Procs : handler'[q][e] # "none" /\ channel'[q] = "live"
    BY <1>2, <1>3, <2>1 DEF Holds
  <2> QED
    BY <1>1, <1>2, <2>1
<1>5. HeldOnce'
  BY <1>2, <1>3 DEF HeldOnce
<1>6. SavedIsNoted' /\ DeadHandleNothing' /\ AckedIsRecorded'
  BY <1>1, <1>2 DEF SavedIsNoted, DeadHandleNothing, AckedIsRecorded
<1> QED
  BY <1>4, <1>5, <1>6

LEMMA NextIInv == IInv /\ [Next]_vars => IInv'
<1> SUFFICES ASSUME IInv, [Next]_vars PROVE IInv'
  OBVIOUS
<1>1. CASE UNCHANGED vars
  BY <1>1 DEF vars, IInv, TypeOK, Holds, HeldOnce, SavedIsNoted, DeadHandleNothing, AckedIsRecorded
<1>2. ASSUME NEW e \in Events, Commit(e) \/ Publish(e) \/ \E p \in Procs : Begin(p, e) PROVE IInv'
  BY <1>2, RequestIInv
<1>3. ASSUME NEW p \in Procs, NEW e \in Events, Consume(p, e) PROVE IInv'
  <2>1. CASE Ack(p, e)
    BY <2>1, SettleIInv DEF Ack
  <2>2. CASE SaveFails(p, e)
    BY <2>2, SettleIInv DEF SaveFails
  <2> QED
    BY <1>3, <2>1, <2>2, DeliverIInv, SaveIInv DEF Consume
<1>4. ASSUME NEW p \in Procs, Break(p) \/ NoticeClose(p) \/ Die(p) \/ Restart(p) PROVE IInv'
  BY <1>4, BreakIInv, ReconnectIInv, DeadIInv DEF Die
<1> QED
  BY <1>1, <1>2, <1>3, <1>4 DEF Next

(* Every reachable state of the replicas and the queue satisfies the invariant. *)
THEOREM Invariance == Spec => []IInv
BY InitIInv, NextIInv, PTL DEF Spec

-----------------------------------------------------------------------------
(* A message is acknowledged only after a Notification row was written for it,
   whatever dies or disconnects in between. *)
THEOREM AcksAreRecorded == Spec => []AckedIsRecorded
<1>1. IInv => AckedIsRecorded
  BY DEF IInv
<1> QED
  BY <1>1, Invariance, PTL

(* A message that waits for its ack is held by exactly one connected replica, so
   two copies are at work only when one of them has lost its connection. *)
THEOREM UnackedHeldOnce ==
  Spec => [](\A e \in Events :
               /\ queue[e] = "unacked" => \E p \in Procs : Holds(p, e)
               /\ \A p, q \in Procs : Holds(p, e) /\ Holds(q, e) => p = q)
<1>1. IInv => \A e \in Events :
                /\ queue[e] = "unacked" => \E p \in Procs : Holds(p, e)
                /\ \A p, q \in Procs : Holds(p, e) /\ Holds(q, e) => p = q
  BY DEF IInv, TypeOK, HeldOnce, Holds
<1> QED
  BY <1>1, Invariance, PTL

=============================================================================
