----------------------------- MODULE Notifications -----------------------------
(***************************************************************************)
(* BrokerService (backend/src/broker.service.ts) in every replica: domain  *)
(* events of committed transactions go through RabbitMQ's durable queue    *)
(* ticketing.notifications to a consumer in some replica, which saves a    *)
(* Notification row.                                                       *)
(*                                                                         *)
(* Each member of Events is one request that changes the database and then *)
(* publishes one event.  A replica that has lost its channel keeps running *)
(* without one: only a restart connects again.                             *)
(***************************************************************************)
EXTENDS Naturals

CONSTANTS
  Procs, Events,
  Nobody,     \* the replica of a request that was not made
  MaxNotes,   \* bound on the Notification rows that are counted for an event
  MayDie,     \* replicas may be killed
  LinkBreaks  \* connections to RabbitMQ may break, and RabbitMQ may be away at startup

ASSUME NotificationsAssumption ==
  /\ Nobody \notin Procs
  /\ MaxNotes \in Nat \ {0}
  /\ MayDie \in BOOLEAN /\ LinkBreaks \in BOOLEAN

VARIABLES
  channel,  \* channel[p]: "live", "broken" (no close event yet), "none", or "dead" process
  tx,       \* tx[e]: the database transaction of the request
  home,     \* home[e]: the replica that runs it
  queue,    \* queue[e]: the message in RabbitMQ
  handler,  \* handler[p][e]: the call of consume for e in p
  notes     \* notes[e]: Notification rows written for e

vars == <<channel, tx, home, queue, handler, notes>>

TypeOK ==
  /\ channel \in [Procs -> {"live", "broken", "none", "dead"}]
  /\ tx \in [Events -> {"idle", "open", "committed", "published", "lost"}]
  /\ home \in [Events -> Procs \cup {Nobody}]
  /\ queue \in [Events -> {"absent", "ready", "unacked", "acked", "dropped"}]
  /\ handler \in [Procs -> [Events -> {"none", "saving", "saved"}]]
  /\ notes \in [Events -> 0..MaxNotes]
  /\ \A e \in Events :
       queue[e] = "unacked" => \E p \in Procs : handler[p][e] # "none" /\ channel[p] = "live"

Init ==
  /\ channel = [p \in Procs |-> "live"]
  /\ tx = [e \in Events |-> "idle"]
  /\ home = [e \in Events |-> Nobody]
  /\ queue = [e \in Events |-> "absent"]
  /\ handler = [p \in Procs |-> [e \in Events |-> "none"]]
  /\ notes = [e \in Events |-> 0]

Up(p) == channel[p] # "dead"

(* The message that RabbitMQ has handed to p over the connection it has now *)
Unacked(p) == {e \in Events : handler[p][e] # "none" /\ channel[p] = "live" /\ queue[e] = "unacked"}

(***************************************************************************)
(* Requests                                                                *)
(***************************************************************************)
Begin(p, e) ==
  /\ Up(p) /\ tx[e] = "idle"
  /\ tx' = [tx EXCEPT ![e] = "open"]
  /\ home' = [home EXCEPT ![e] = p]
  /\ UNCHANGED <<channel, queue, handler, notes>>

Commit(e) ==
  /\ tx[e] = "open"
  /\ tx' = [tx EXCEPT ![e] = "committed"]
  /\ UNCHANGED <<channel, home, queue, handler, notes>>

(* The message is lost on a broken connection, and logged without a channel. *)
Publish(e) ==
  /\ tx[e] = "committed"
  /\ tx' = [tx EXCEPT ![e] = "published"]
  /\ queue' = [queue EXCEPT ![e] =
                 IF channel[home[e]] = "live" /\ @ = "absent" THEN "ready" ELSE @]
  /\ UNCHANGED <<channel, home, handler, notes>>

(***************************************************************************)
(* consume                                                                 *)
(***************************************************************************)
DeliverIf(p, e, wanted) ==
  /\ channel[p] = "live" /\ queue[e] = "ready" /\ handler[p][e] = "none"
  /\ wanted
  /\ queue' = [queue EXCEPT ![e] = "unacked"]
  /\ handler' = [handler EXCEPT ![p][e] = "saving"]
  /\ UNCHANGED <<channel, tx, home, notes>>

(* Mutant: a message that comes again is left alone. *)
DeliverNew(p, e) == DeliverIf(p, e, notes[e] = 0)

Deliver(p, e) == DeliverIf(p, e, TRUE)

SaveNote(p, e) ==
  /\ handler[p][e] = "saving"
  /\ notes' = [notes EXCEPT ![e] = IF @ < MaxNotes THEN @ + 1 ELSE @]
  /\ handler' = [handler EXCEPT ![p][e] = "saved"]
  /\ UNCHANGED <<channel, tx, home, queue>>

(* What the end of process p leaves: its open transactions roll back, RabbitMQ
   takes back what p had not acknowledged. *)
Dead(p) ==
  /\ channel' = [channel EXCEPT ![p] = "dead"]
  /\ tx' = [e \in Events |-> IF home[e] = p /\ tx[e] \in {"open", "committed"}
                             THEN IF tx[e] = "open" THEN "lost" ELSE "published" ELSE tx[e]]
  /\ queue' = [e \in Events |-> IF e \in Unacked(p) THEN "ready" ELSE queue[e]]
  /\ handler' = [handler EXCEPT ![p] = [e \in Events |-> "none"]]
  /\ UNCHANGED <<home, notes>>

(* ack or nack: over a broken connection nothing arrives, and without a channel
   the call throws, in the catch block too; nothing handles the rejection of
   consume, and Node.js ends the process. *)
Settle(p, e, next) ==
  IF channel[p] = "none" THEN Dead(p)
  ELSE /\ queue' = [queue EXCEPT ![e] = IF e \in Unacked(p) THEN next ELSE @]
       /\ handler' = [handler EXCEPT ![p][e] = "none"]
       /\ UNCHANGED <<channel, tx, home, notes>>

(* Mutant: ack before the row is saved. *)
AckFirst(p, e) == handler[p][e] \in {"saving", "saved"} /\ Settle(p, e, "acked")

Ack(p, e) == handler[p][e] = "saved" /\ Settle(p, e, "acked")

(* The INSERT fails; nothing is bound to the dead-letter exchange. *)
SaveFails(p, e) == handler[p][e] = "saving" /\ Settle(p, e, "dropped")

(***************************************************************************)
(* Outages                                                                 *)
(***************************************************************************)

(* RabbitMQ notices at once, and requeues; its client does not. *)
Break(p) ==
  /\ LinkBreaks /\ channel[p] = "live"
  /\ channel' = [channel EXCEPT ![p] = "broken"]
  /\ queue' = [e \in Events |-> IF e \in Unacked(p) THEN "ready" ELSE queue[e]]
  /\ UNCHANGED <<tx, home, handler, notes>>

(* The close event: this.channel = undefined; running handlers go on. *)
NoticeClose(p) ==
  /\ channel[p] = "broken"
  /\ channel' = [channel EXCEPT ![p] = "none"]
  /\ UNCHANGED <<tx, home, queue, handler, notes>>

Die(p) == MayDie /\ Up(p) /\ Dead(p)

Restart(p) ==
  /\ ~Up(p)
  /\ \E c \in {"live"} \cup (IF LinkBreaks THEN {"none"} ELSE {}) : channel' = [channel EXCEPT ![p] = c]
  /\ UNCHANGED <<tx, home, queue, handler, notes>>

Consume(p, e) == Deliver(p, e) \/ SaveNote(p, e) \/ Ack(p, e) \/ SaveFails(p, e)

Next ==
  \/ \E e \in Events : (\E p \in Procs : Begin(p, e) \/ Consume(p, e)) \/ Commit(e) \/ Publish(e)
  \/ \E p \in Procs : Break(p) \/ NoticeClose(p) \/ Die(p) \/ Restart(p)

(* RabbitMQ delivers, dead replicas are started again, and a step of a handler that
   is possible time and again over a live connection is done so some time: neither
   deaths nor broken connections always come before it.  That any replica is
   connected is not assumed. *)
Fairness ==
  \A p \in Procs :
    /\ WF_vars(Restart(p))
    /\ \A e \in Events :
         /\ SF_vars(Deliver(p, e))
         /\ SF_vars(channel[p] = "live" /\ SaveNote(p, e))
         /\ SF_vars(channel[p] = "live" /\ Ack(p, e))

Spec == Init /\ [][Next]_vars
FairSpec == Spec /\ Fairness

(***************************************************************************)
(* Properties                                                              *)
(***************************************************************************)

(* A message leaves the queue acknowledged only after its Notification row was
   written, whichever replica dies or loses its connection meanwhile. *)
AckedIsRecorded == \A e \in Events : queue[e] = "acked" => notes[e] > 0

(* After a close nothing connects again, and a replica whose start met an outage is
   not connected either: for ever, if nothing restarts them. *)
CutOff == <>[](\A p \in Procs : channel[p] # "live")

(* An event that reached the queue is recorded or dropped by a failed INSERT some day,
   although replicas die and break connections between the save and the ack.  It waits
   for ever in one case only, which the code does not exclude: from some time on no
   replica is connected. *)
EventsAreSettled ==
  CutOff \/ \A e \in Events : queue[e] = "ready" ~> queue[e] \in {"acked", "dropped"}

(* "RabbitMQ outages do not prevent the database transaction from completing" (ADR
   0003): with no other cause of death, no transaction is lost. *)
OutagesSpareTransactions == \A e \in Events : tx[e] # "lost"

=============================================================================
