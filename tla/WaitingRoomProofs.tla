-------------------------- MODULE WaitingRoomProofs --------------------------
(***************************************************************************)
(* Theorems about the waiting room, for any finite number of join calls,   *)
(* any number of users and administrators, any capacity, and any number of *)
(* losses of the sequence.                                                 *)
(***************************************************************************)
EXTENDS WaitingRoom, FiniteSetTheorems, TLAPS

(* The types that the proofs need: TypeOK without its bound on seq. *)
Types ==
  /\ seq \in Nat /\ losses \in Nat
  /\ call \in [Joins -> Stage]
  /\ pos \in [Joins -> Nat] /\ born \in [Joins -> Nat]
  /\ state \in [Joins -> {"Absent", "QUEUED", "ADMITTED"}]
  /\ token \in [Joins -> Joins \cup Admins \cup {NoToken}]
  /\ batch \in [Admins -> SUBSET Joins] /\ left \in [Admins -> SUBSET Joins]

(* Where a join call is says what it has drawn and saved. *)
Stages ==
  \A j \in Joins :
    /\ call[j] \in {"idle", "checked"} => pos[j] = 0
    /\ call[j] \in {"drawn", "inserted"} => pos[j] > 0
    /\ call[j] = "saved" => state[j] # "Absent"
    /\ state[j] # "Absent" => call[j] \in {"saved", "ended"} /\ pos[j] > 0
    /\ state[j] = "Absent" => token[j] = NoToken

At(p) == {j \in Joins : pos[j] = p}

(* A position has been drawn once in every life of the sequence, unless the present
   one has not come to it yet. *)
DrawnOnce ==
  \A p \in Nat \ {0} : Cardinality(At(p)) <= losses + (IF p <= seq THEN 1 ELSE 0)

Low == {j \in Joins : pos[j] \in 1..Capacity}

(* The positions up to Capacity: as many as the lives that are over had, and those
   that the present one has come to. *)
LowCounted ==
  Cardinality(Low) <= Capacity * losses + (IF seq <= Capacity THEN seq ELSE Capacity)

(* Only those admit themselves; the others queue. *)
SelfAdmitted ==
  \A j \in Joins : /\ token[j] = j => j \in Low
                   /\ state[j] = "QUEUED" => pos[j] > Capacity

(* A batch leaves out only entries that stand behind; what comes into the table
   after it was read is not in it. *)
Batches ==
  /\ \A a \in Admins : batch[a] \subseteq Saved /\ left[a] \subseteq Saved
  /\ \A a \in Admins, i \in Queued, j \in Saved :
       j \in batch[a] /\ i \notin batch[a] /\ pos[i] < pos[j] => i \notin left[a]

IInv == Types /\ Stages /\ DrawnOnce /\ LowCounted /\ SelfAdmitted /\ Batches

-----------------------------------------------------------------------------
LEMMA InitIInv == Init => IInv
<1> SUFFICES ASSUME Init PROVE IInv
  OBVIOUS
<1> USE WaitingRoomAssumption DEF Init
<1>1. Types /\ Stages
  BY DEF Types, Stages, Stage
<1>2. Low = {} /\ Saved = {} /\ \A p \in Nat \ {0} : At(p) = {}
  BY DEF Low, Saved, At
<1>3. DrawnOnce /\ LowCounted
  <2>1. Cardinality({}) = 0 /\ Capacity * 0 = 0
    BY FS_EmptySet
  <2> QED
    BY <1>2, <2>1 DEF DrawnOnce, LowCounted
<1>4. SelfAdmitted /\ Batches
  BY <1>2 DEF SelfAdmitted, Batches, Queued
<1> QED
  BY <1>1, <1>3, <1>4 DEF IInv

(* A step that draws no position, though it may give one up *)
LEMMA NothingDrawn ==
  ASSUME IInv, UNCHANGED <<seq, losses>>, pos' \in [Joins -> Nat],
         \A j \in Joins : pos'[j] = pos[j] \/ pos'[j] = 0
  PROVE  DrawnOnce' /\ LowCounted'
<1> USE WaitingRoomAssumption DEF IInv, Types
<1>1. IsFiniteSet(Low) /\ Low' \subseteq Low
  BY FS_Subset DEF Low
<1>2. Cardinality(Low') <= Cardinality(Low) /\ Cardinality(Low') \in Nat /\ Cardinality(Low) \in Nat
  BY <1>1, FS_Subset, FS_CardinalityType
<1>3. LowCounted'
  <2>1. Capacity * losses \in Nat
    OBVIOUS
  <2> QED
    BY <1>2, <2>1 DEF LowCounted
<1>4. DrawnOnce'
  <2> SUFFICES ASSUME NEW p \in Nat \ {0}
               PROVE  Cardinality(At(p)') <= losses + (IF p <= seq THEN 1 ELSE 0)
    BY DEF DrawnOnce
  <2>1. IsFiniteSet(At(p)) /\ At(p)' \subseteq At(p)
    BY FS_Subset DEF At
  <2>2. Cardinality(At(p)') <= Cardinality(At(p)) /\ Cardinality(At(p)') \in Nat
        /\ Cardinality(At(p)) \in Nat
    BY <2>1, FS_Subset, FS_CardinalityType
  <2> QED
    BY <2>2 DEF DrawnOnce
<1> QED
  BY <1>3, <1>4

LEMMA RankTyped ==
  ASSUME NEW u \in Users
  PROVE  /\ IsFiniteSet({i \in Of(u) : born[i] # 0})
         /\ Cardinality({i \in Of(u) : born[i] # 0}) \in Nat
<1>1. \A i \in {i \in Of(u) : born[i] # 0} : i \in Joins
  BY DEF Of
<1>2. {i \in Of(u) : born[i] # 0} \subseteq Joins
  BY <1>1
<1> QED
  BY <1>2, WaitingRoomAssumption, FS_Subset, FS_CardinalityType

(* Calls that look, answer, begin their INSERT or end, and tokens that expire *)
LEMMA IdleIInv ==
  ASSUME IInv, UNCHANGED <<seq, losses, state, token, batch, left>>,
         \/ UNCHANGED <<call, pos, born>>
         \/ \E j \in Joins : \/ JoinCheck(j) \/ JoinInsert(j) \/ JoinAnswer(j)
                             \/ JoinFails(j)
  PROVE  IInv'
<1> USE DEF IInv, Types
<1> DEFINE Moved == /\ call' \in [Joins -> Stage] /\ born' \in [Joins -> Nat]
                    /\ pos' \in [Joins -> Nat]
                    /\ \A j \in Joins : pos'[j] = pos[j] \/ (pos'[j] = 0 /\ state[j] = "Absent")
<1>1. UNCHANGED <<call, pos, born>> => Moved
  OBVIOUS
<1>2. ASSUME NEW j \in Joins, JoinCheck(j) \/ JoinAnswer(j) PROVE Moved
  <2>1. UNCHANGED <<pos, born>> /\ \E at \in Stage : call' = [call EXCEPT ![j] = at]
    BY <1>2 DEF JoinCheck, JoinAnswer, Stage, rowVars
  <2> QED
    BY <2>1
<1>3. ASSUME NEW j \in Joins, JoinInsert(j) PROVE Moved
  <2>1. Cardinality({i \in Of(By[j]) : born[i] # 0}) + 1 \in Nat
    <3>1. By[j] \in Users
      BY WaitingRoomAssumption
    <3>2. PICK u \in Users : u = By[j]
      BY <3>1
    <3>3. Cardinality({i \in Of(u) : born[i] # 0}) \in Nat
      BY RankTyped
    <3> QED
      BY <3>2, <3>3
  <2> QED
    BY <1>3, <2>1 DEF JoinInsert, Stage
<1>4. ASSUME NEW j \in Joins, JoinFails(j) PROVE Moved
  BY <1>4 DEF JoinFails, Stages, Stage, rowVars
<1>5. Moved
  BY <1>1, <1>2, <1>3, <1>4
<1>6. Types'
  BY <1>5
<1>7. Stages'
  <2> USE DEF Stages, Stage
  <2>1. CASE UNCHANGED <<call, pos, born>>
    BY <2>1
  <2>2. ASSUME NEW j \in Joins, JoinCheck(j) \/ JoinInsert(j) \/ JoinAnswer(j) PROVE Stages'
    <3>1. CASE JoinCheck(j)
      BY <3>1 DEF JoinCheck
    <3>2. CASE JoinInsert(j)
      BY <3>2 DEF JoinInsert
    <3>3. CASE JoinAnswer(j)
      BY <3>3 DEF JoinAnswer
    <3> QED
      BY <2>2, <3>1, <3>2, <3>3
  <2>3. ASSUME NEW j \in Joins, JoinFails(j) PROVE Stages'
    BY <2>3 DEF JoinFails
  <2> QED
    BY <2>1, <2>2, <2>3
<1>8. SelfAdmitted'
  BY <1>5, WaitingRoomAssumption DEF SelfAdmitted, Low, Stages
<1>9. Batches'
  <2>1. Saved' = Saved /\ Queued' = Queued /\ \A j \in Saved : pos'[j] = pos[j]
    BY <1>5 DEF Saved, Queued
  <2> QED
    BY <2>1 DEF Batches, Queued, Saved
<1> QED
  BY <1>5, <1>6, <1>7, <1>8, <1>9, NothingDrawn

(* INCR: the present life of the sequence comes to one more position. *)
LEMMA DrawIInv ==
  ASSUME IInv, NEW j \in Joins, JoinDraw(j)
  PROVE  IInv'
<1> USE WaitingRoomAssumption DEF IInv, Types, JoinDraw, Draw, rowVars, adminVars
<1>1. Types' /\ Stages'
  BY DEF Stages, Stage
<1>2. pos[j] = 0 /\ state[j] = "Absent"
  BY DEF Stages
<1>3. DrawnOnce'
  <2> SUFFICES ASSUME NEW p \in Nat \ {0}
               PROVE  Cardinality(At(p)') <= losses + (IF p <= seq' THEN 1 ELSE 0)
    BY DEF DrawnOnce
  <2>1. CASE p = seq + 1
    <3>1. At(p)' = At(p) \cup {j} /\ j \notin At(p)
      BY <1>2, <2>1 DEF At
    <3>2. IsFiniteSet(At(p))
      BY FS_Subset DEF At
    <3>3. Cardinality(At(p)') = Cardinality(At(p)) + 1 /\ Cardinality(At(p)) \in Nat
      BY <3>1, <3>2, FS_AddElement, FS_CardinalityType
    <3> QED
      BY <2>1, <3>3 DEF DrawnOnce
  <2>2. CASE p # seq + 1
    <3>1. At(p)' = At(p)
      BY <1>2, <2>2 DEF At
    <3> QED
      BY <2>2, <3>1 DEF DrawnOnce
  <2> QED
    BY <2>1, <2>2
<1>4. LowCounted'
  <2>1. CASE seq + 1 <= Capacity
    <3>1. Low' = Low \cup {j} /\ j \notin Low
      BY <1>2, <2>1 DEF Low
    <3>2. IsFiniteSet(Low)
      BY FS_Subset DEF Low
    <3>3. Cardinality(Low') = Cardinality(Low) + 1 /\ Cardinality(Low) \in Nat
      BY <3>1, <3>2, FS_AddElement, FS_CardinalityType
    <3>4. Capacity * losses \in Nat
      OBVIOUS
    <3> QED
      BY <2>1, <3>3, <3>4 DEF LowCounted
  <2>2. CASE seq + 1 > Capacity
    <3>1. Low' = Low
      BY <1>2, <2>2 DEF Low
    <3> QED
      BY <2>2, <3>1 DEF LowCounted
  <2> QED
    BY <2>1, <2>2
<1>5. SelfAdmitted'
  BY <1>2 DEF SelfAdmitted, Low, Stages
<1>6. Batches'
  <2>1. Saved' = Saved /\ Queued' = Queued /\ j \notin Saved
    BY <1>2 DEF Saved, Queued
  <2> QED
    BY <2>1 DEF Batches, Queued, Saved
<1> QED
  BY <1>1, <1>3, <1>4, <1>5, <1>6

(* The new entry is in no batch, and none has left it out. *)
LEMMA CommitIInv ==
  ASSUME IInv, NEW j \in Joins, JoinCommit(j)
  PROVE  IInv'
<1> USE WaitingRoomAssumption DEF IInv, Types, JoinCommit, CommitEntry, adminVars
<1>1. state[j] = "Absent" /\ pos[j] > 0
  BY DEF Stages
<1>2. Saved' = Saved \cup {j} /\ j \notin Saved
  BY <1>1 DEF Saved
<1>3. Types' /\ Stages'
  BY <1>1 DEF Stages, Stage
<1>4. SelfAdmitted'
  BY <1>1 DEF SelfAdmitted, Low
<1>5. Batches'
  <2>1. Queued' \ {j} \subseteq Queued
    BY DEF Queued
  <2> QED
    BY <1>2, <2>1 DEF Batches, Saved
<1> QED
  BY <1>3, <1>4, <1>5, NothingDrawn

LEMMA AdmitReadIInv ==
  ASSUME IInv, NEW a \in Admins, AdmitRead(a)
  PROVE  IInv'
<1> USE DEF IInv, Types, AdmitRead, ReadBatch, joinVars, rowVars
<1>1. PICK B \in SUBSET Queued :
        /\ FirstOf(Queued, B) /\ batch' = [batch EXCEPT ![a] = B]
        /\ left' = [left EXCEPT ![a] = IF B = {} THEN {} ELSE Queued \ B]
  OBVIOUS
<1>2. Saved' = Saved /\ Queued' = Queued /\ Queued \subseteq Saved /\ Queued \subseteq Joins
  BY DEF Saved, Queued
<1>3. Types' /\ Stages' /\ SelfAdmitted'
  BY <1>1, <1>2 DEF Stages, SelfAdmitted, Low
<1>4. Batches'
  <2>1. \A b \in Admins : batch'[b] \subseteq Saved /\ left'[b] \subseteq Saved
    BY <1>1, <1>2 DEF Batches
  <2>2. ASSUME NEW b \in Admins, NEW i \in Queued, NEW k \in Saved,
               k \in batch'[b], i \notin batch'[b], pos[i] < pos[k]
        PROVE  i \notin left'[b]
    <3>1. CASE b = a
      <4>1. k \in B /\ i \notin B /\ pos[i] \in Nat /\ pos[k] \in Nat
        BY <1>1, <1>2, <2>2, <3>1
      <4>2. ~(pos[k] <= pos[i])
        BY <2>2, <4>1
      <4> QED
        BY <1>1, <4>1, <4>2 DEF FirstOf
    <3>2. CASE b # a
      BY <1>1, <2>2, <3>2 DEF Batches
    <3> QED
      BY <3>1, <3>2
  <2> QED
    BY <1>2, <2>1, <2>2 DEF Batches
<1> QED
  BY <1>3, <1>4, NothingDrawn

LEMMA AdmitEndsIInv ==
  ASSUME IInv, NEW a \in Admins, AdmitSave(a) \/ AdmitFails(a)
  PROVE  IInv'
<1> USE WaitingRoomAssumption DEF IInv, Types, Close, joinVars, rowVars
<1>1. CASE AdmitSave(a)
  <2> USE <1>1 DEF AdmitSave, SaveBatch
  <2>1. Types' /\ Stages'
    BY DEF Stages, Batches, Saved
  <2>2. SelfAdmitted'
    BY DEF SelfAdmitted, Low
  <2>3. Saved' = Saved /\ Queued' = Queued \ batch[a]
    BY DEF Saved, Queued, Batches
  <2>4. Batches'
    BY <2>3 DEF Batches
  <2> QED
    BY <2>1, <2>2, <2>4, NothingDrawn
<1>2. CASE AdmitFails(a)
  <2> USE <1>2 DEF AdmitFails
  <2>1. Saved' = Saved /\ Queued' = Queued
    BY DEF Saved, Queued
  <2>2. Types' /\ Stages' /\ SelfAdmitted'
    BY DEF Stages, SelfAdmitted, Low
  <2>3. Batches'
    BY <2>1 DEF Batches
  <2> QED
    BY <2>2, <2>3, NothingDrawn
<1> QED
  BY <1>1, <1>2

(* A life of the sequence is over, and counts in full. *)
LEMMA LostIInv == ASSUME IInv, SequenceLost PROVE IInv'
<1> USE WaitingRoomAssumption DEF IInv, Types, SequenceLost, rowVars, adminVars
<1>1. Types' /\ Stages' /\ SelfAdmitted'
  BY DEF Stages, SelfAdmitted, Low
<1>2. Low' = Low /\ \A p \in Nat : At(p)' = At(p)
  BY DEF Low, At
<1>3. IsFiniteSet(Low) /\ \A p \in Nat : IsFiniteSet(At(p))
  BY FS_Subset DEF Low, At
<1>4. Cardinality(Low) \in Nat /\ \A p \in Nat : Cardinality(At(p)) \in Nat
  BY <1>3, FS_CardinalityType
<1>5. DrawnOnce'
  BY <1>2, <1>4 DEF DrawnOnce
<1>6. LowCounted'
  <2>1. Capacity * (losses + 1) = Capacity * losses + Capacity /\ Capacity * losses \in Nat
    OBVIOUS
  <2> QED
    BY <1>2, <1>4, <2>1 DEF LowCounted
<1>7. Batches'
  BY DEF Batches, Queued, Saved
<1> QED
  BY <1>1, <1>5, <1>6, <1>7

LEMMA NextIInv == IInv /\ [Next]_vars => IInv'
<1> SUFFICES ASSUME IInv, [Next]_vars PROVE IInv'
  OBVIOUS
<1> USE DEF joinVars, rowVars, adminVars
<1>1. CASE UNCHANGED vars
  BY <1>1, IdleIInv DEF vars
<1>2. ASSUME NEW u \in Users, Rejoin(u) PROVE IInv'
  BY <1>2, IdleIInv DEF Rejoin
<1>3. ASSUME NEW j \in Joins, JoinStep(j) \/ TokenExpires(j) PROVE IInv'
  <2>1. CASE JoinCheck(j) \/ JoinInsert(j) \/ JoinAnswer(j) \/ JoinFails(j) \/ TokenExpires(j)
    BY <2>1, IdleIInv DEF JoinCheck, JoinInsert, JoinAnswer, JoinFails, TokenExpires
  <2> QED
    BY <1>3, <2>1, DrawIInv, CommitIInv DEF JoinStep
<1>4. ASSUME NEW a \in Admins, AdmitStep(a) PROVE IInv'
  BY <1>4, AdmitReadIInv, AdmitEndsIInv DEF AdmitStep
<1> QED
  BY <1>1, <1>2, <1>3, <1>4, LostIInv DEF Next

(* Every reachable state of the queue and the sequence satisfies the invariant. *)
THEOREM Invariance == Spec => []IInv
BY InitIInv, NextIInv, PTL DEF Spec

-----------------------------------------------------------------------------
(* Two entries share a place in the queue only as often as Redis has lost the
   sequence, however joins interleave. *)
THEOREM PlacesStayDistinct == Spec => []PlacesDistinct
<1>1. ASSUME IInv PROVE PlacesDistinct
  <2> SUFFICES ASSUME NEW i \in Saved
               PROVE  Cardinality({j \in Saved : pos[j] = pos[i]}) <= 1 + losses
    BY DEF PlacesDistinct
  <2> USE <1>1, WaitingRoomAssumption DEF IInv, Types
  <2>1. pos[i] \in Nat \ {0}
    BY DEF Stages, Saved
  <2>2. {j \in Saved : pos[j] = pos[i]} \subseteq At(pos[i]) /\ IsFiniteSet(At(pos[i]))
    BY FS_Subset DEF At, Saved
  <2>3. /\ Cardinality({j \in Saved : pos[j] = pos[i]}) <= Cardinality(At(pos[i]))
        /\ Cardinality({j \in Saved : pos[j] = pos[i]}) \in Nat
        /\ Cardinality(At(pos[i])) \in Nat
    BY <2>2, FS_Subset, FS_CardinalityType
  <2> QED
    BY <2>1, <2>3 DEF DrawnOnce
<1> QED
  BY <1>1, Invariance, PTL

(* No more entries admit themselves than the capacity allows for every life of the
   sequence. *)
THEOREM CapacityStays == Spec => []CapacityKept
<1>1. ASSUME IInv PROVE CapacityKept
  <2> USE <1>1, WaitingRoomAssumption DEF IInv, Types
  <2>1. {j \in Joins : token[j] = j} \subseteq Low /\ IsFiniteSet(Low)
    BY FS_Subset DEF SelfAdmitted, Low
  <2>2. /\ Cardinality({j \in Joins : token[j] = j}) <= Cardinality(Low)
        /\ Cardinality({j \in Joins : token[j] = j}) \in Nat
        /\ Cardinality(Low) \in Nat
    BY <2>1, FS_Subset, FS_CardinalityType
  <2>3. Capacity * (1 + losses) = Capacity * losses + Capacity /\ Capacity * losses \in Nat
    OBVIOUS
  <2> QED
    BY <2>2, <2>3 DEF LowCounted, CapacityKept
<1> QED
  BY <1>1, Invariance, PTL

(* Somebody passed over was not in the table when the batch was read: those who admit
   themselves stand before all who queue, and a batch leaves out only who is behind. *)
THEOREM OrderKept == Spec => AdmittedInOrder
<1>1. ASSUME IInv, [Next]_vars, NEW i \in Joins, NEW j \in Joins,
             state[j] # "ADMITTED", state'[j] = "ADMITTED", state'[i] = "QUEUED", pos[i] < pos[j]
      PROVE  \E a \in Admins : j \in batch[a] /\ i \notin left[a]
  <2> USE <1>1 DEF IInv, Types, joinVars, rowVars
  <2>1. ~UNCHANGED state
    OBVIOUS
  <2>2. ASSUME NEW k \in Joins, JoinCommit(k) PROVE FALSE
    <3>1. k = j /\ i # j
      BY <2>2 DEF JoinCommit, CommitEntry
    <3>2. pos[j] <= Capacity /\ state[i] = "QUEUED"
      BY <2>2, <3>1 DEF JoinCommit, CommitEntry
    <3>3. pos[i] > Capacity
      BY <3>2 DEF SelfAdmitted
    <3> QED
      BY <3>2, <3>3, WaitingRoomAssumption
  <2>3. ASSUME NEW a \in Admins, AdmitSave(a)
        PROVE  j \in batch[a] /\ i \notin left[a]
    <3>1. j \in batch[a] /\ i \notin batch[a] /\ i \in Queued
      BY <2>3 DEF AdmitSave, SaveBatch, Queued
    <3> QED
      BY <3>1 DEF Batches
  <2> QED
    BY <2>1, <2>2, <2>3
    DEF Next, vars, Rejoin, JoinStep, JoinCheck, JoinDraw, Draw, JoinInsert, JoinAnswer, JoinFails,
        TokenExpires, AdmitStep, AdmitRead, ReadBatch, AdmitFails, SequenceLost
<1>2. IInv /\ [Next]_vars =>
        [\A i, j \in Joins :
           state[j] # "ADMITTED" /\ state'[j] = "ADMITTED" /\ state'[i] = "QUEUED" /\ pos[i] < pos[j]
             => \E a \in Admins : j \in batch[a] /\ i \notin left[a]]_vars
  BY <1>1
<1> QED
  BY <1>2, Invariance, PTL DEF Spec, AdmittedInOrder

(* An admission is left alone until it expires, unless an administrator had read the
   entry while it was queued. *)
THEOREM AdmissionKept == Spec => TokenLivesItsTime
<1>1. ASSUME IInv, [Next]_vars, NEW j \in Joins,
             state[j] = "ADMITTED", \A a \in Admins : j \notin batch[a]
      PROVE  token'[j] = token[j] /\ \A a \in Admins : j \notin batch'[a]
  <2> USE <1>1 DEF IInv, Types, Close, rowVars, adminVars
  <2>1. CASE UNCHANGED <<token, batch>>
    BY <2>1
  <2>2. ASSUME NEW i \in Joins, JoinCommit(i)
        PROVE  token'[j] = token[j] /\ \A a \in Admins : j \notin batch'[a]
    <3>1. i # j
      BY <2>2 DEF JoinCommit, CommitEntry, Stages
    <3> QED
      BY <2>2, <3>1 DEF JoinCommit, CommitEntry
  <2>3. ASSUME NEW a \in Admins, AdmitStep(a)
        PROVE  token'[j] = token[j] /\ \A b \in Admins : j \notin batch'[b]
    <3>1. CASE AdmitRead(a)
      <4>1. PICK B \in SUBSET Queued : batch' = [batch EXCEPT ![a] = B]
        BY <3>1 DEF AdmitRead, ReadBatch
      <4> QED
        BY <3>1, <4>1 DEF AdmitRead, ReadBatch, Queued
    <3>2. CASE AdmitSave(a)
      BY <3>2 DEF AdmitSave, SaveBatch
    <3>3. CASE AdmitFails(a)
      BY <3>3 DEF AdmitFails
    <3> QED
      BY <2>3, <3>1, <3>2, <3>3 DEF AdmitStep
  <2>4. CASE UNCHANGED vars
    BY <2>4 DEF vars
  <2> QED
    BY <2>1, <2>2, <2>3, <2>4
    DEF Next, JoinStep, Rejoin, JoinCheck, JoinDraw, Draw, JoinInsert, JoinAnswer, JoinFails, TokenExpires, SequenceLost
<1>2. IInv /\ [Next]_vars =>
        [\A j \in Joins :
           state[j] = "ADMITTED" /\ j \notin expired /\ (\A a \in Admins : j \notin batch[a])
             => token'[j] = token[j] /\ \A a \in Admins : j \notin batch'[a]]_vars
  BY <1>1
<1> QED
  BY <1>2, Invariance, PTL DEF Spec, TokenLivesItsTime

-----------------------------------------------------------------------------
Drawn == {j \in Joins : call[j] \notin {"idle", "checked"}}

(* TypeOK, with what bounds the sequence: each join draws once. *)
TInv ==
  /\ TypeOK
  /\ seq <= Cardinality(Drawn)
  /\ \A j \in expired : state[j] = "ADMITTED"

(* Nobody has joined yet. *)
LEMMA InitTInv == Init => TInv
<1> SUFFICES ASSUME Init PROVE TInv
  OBVIOUS
<1> USE WaitingRoomAssumption DEF Init
<1>1. Drawn = {} /\ Cardinality({}) = 0
  BY FS_EmptySet DEF Drawn
<1>2. Cardinality(Joins) \in Nat
  BY FS_CardinalityType
<1>3. TypeOK
  BY <1>2 DEF TypeOK, Stage
<1> QED
  BY <1>1, <1>3 DEF TInv

(* The sequence counts no further than there are joins. *)
LEMMA DrawnBound ==
  ASSUME seq' \in Nat, seq' <= Cardinality(Drawn')
  PROVE  seq' \in 0..Cardinality(Joins)
<1>1. Cardinality(Drawn') <= Cardinality(Joins) /\ Cardinality(Joins) \in Nat
      /\ Cardinality(Drawn') \in Nat
  BY WaitingRoomAssumption, FS_Subset, FS_CardinalityType DEF Drawn
<1> QED
  BY <1>1

LEMMA DrawTInv == ASSUME IInv, TInv, NEW j \in Joins, JoinDraw(j) PROVE TInv'
<1> USE DEF TInv, JoinDraw, Draw, rowVars, adminVars, answerVars
<1>1. call \in [Joins -> Stage] /\ pos \in [Joins -> Nat] /\ seq \in Nat
  BY DEF IInv, Types
<1>2. Drawn' = Drawn \cup {j} /\ j \notin Drawn
  BY <1>1 DEF Drawn
<1>3. IsFiniteSet(Drawn)
  BY WaitingRoomAssumption, FS_Subset DEF Drawn
<1>4. Cardinality(Drawn') = Cardinality(Drawn) + 1 /\ Cardinality(Drawn) \in Nat
  BY <1>2, <1>3, FS_AddElement, FS_CardinalityType
<1>5. seq' \in Nat /\ seq' <= Cardinality(Drawn')
  BY <1>1, <1>4
<1>6. seq' \in 0..Cardinality(Joins)
  BY <1>5, DrawnBound
<1>7. call' \in [Joins -> Stage] /\ pos' \in [Joins -> Nat]
  BY <1>1 DEF Stage
<1>8. TypeOK'
  BY <1>6, <1>7 DEF TypeOK
<1> QED
  BY <1>5, <1>8

(* Steps that do not draw: the types that IInv has, and the rest *)
LEMMA SilentTInv ==
  ASSUME IInv', TInv, UNCHANGED <<seq, losses>>, Drawn' = Drawn,
         expired' \in SUBSET Joins, \A j \in expired' : state'[j] = "ADMITTED",
         told' \in [Users -> Joins \cup {NoEntry}], unsure' \in SUBSET Users
  PROVE  TInv'
<1>1. TypeOK'
  BY DEF TInv, TypeOK, IInv, Types
<1> QED
  BY <1>1 DEF TInv

(* Every step preserves the types and the bound. *)
LEMMA NextTInv == IInv /\ IInv' /\ TInv /\ [Next]_vars => TInv'
<1> SUFFICES ASSUME IInv, IInv', TInv, [Next]_vars PROVE TInv'
  OBVIOUS
<1> USE DEF joinVars, rowVars, adminVars, answerVars
<1>0. /\ call \in [Joins -> Stage] /\ state \in [Joins -> {"Absent", "QUEUED", "ADMITTED"}]
      /\ told \in [Users -> Joins \cup {NoEntry}] /\ unsure \in SUBSET Users
      /\ expired \in SUBSET Joins /\ \A j \in expired : state[j] = "ADMITTED"
      /\ \A j \in Joins : By[j] \in Users
  BY WaitingRoomAssumption DEF TInv, TypeOK
<1>1. CASE UNCHANGED vars
  BY <1>0, <1>1, SilentTInv DEF vars, Drawn
<1>2. ASSUME NEW u \in Users, Rejoin(u) PROVE TInv'
  <2>1. told' \in [Users -> Joins \cup {NoEntry}]
    BY <1>0, <1>2 DEF Rejoin, Tell, Active, Newest, Saved
  <2>2. Drawn' = Drawn /\ unsure' \in SUBSET Users
    BY <1>0, <1>2 DEF Rejoin, Drawn
  <2> QED
    BY <1>0, <1>2, <2>1, <2>2, SilentTInv DEF Rejoin
<1>3. ASSUME NEW j \in Joins, JoinStep(j) \/ TokenExpires(j) PROVE TInv'
  <2>1. CASE JoinCheck(j)
    <3>1. Drawn' = Drawn /\ unsure' \in SUBSET Users
      BY <1>0, <2>1 DEF JoinCheck, Drawn
    <3> QED
      BY <1>0, <2>1, <3>1, SilentTInv DEF JoinCheck
  <2>2. CASE JoinInsert(j)
    <3>1. Drawn' = Drawn
      BY <1>0, <2>2 DEF JoinInsert, Drawn
    <3> QED
      BY <1>0, <2>2, <3>1, SilentTInv DEF JoinInsert
  <2>3. CASE JoinCommit(j)
    <3>1. Drawn' = Drawn
      BY <1>0, <2>3 DEF JoinCommit, CommitEntry, Drawn
    <3>2. state[j] = "Absent"
      BY <2>3 DEF JoinCommit, CommitEntry, IInv, Types, Stages
    <3>3. \A i \in expired : state'[i] = "ADMITTED"
      BY <1>0, <2>3, <3>2 DEF JoinCommit, CommitEntry
    <3> QED
      BY <1>0, <2>3, <3>1, <3>3, SilentTInv DEF JoinCommit, CommitEntry
  <2>4. CASE JoinAnswer(j)
    <3>1. Drawn' = Drawn /\ told' \in [Users -> Joins \cup {NoEntry}]
      BY <1>0, <2>4 DEF JoinAnswer, Tell, Drawn
    <3> QED
      BY <1>0, <2>4, <3>1, SilentTInv DEF JoinAnswer
  <2>5. CASE JoinFails(j)
    <3>1. Drawn' = Drawn
      BY <1>0, <2>5 DEF JoinFails, Drawn
    <3> QED
      BY <1>0, <2>5, <3>1, SilentTInv DEF JoinFails
  <2>6. CASE TokenExpires(j)
    <3>1. Drawn' = Drawn
      BY <2>6 DEF TokenExpires, Drawn
    <3> QED
      BY <1>0, <2>6, <3>1, SilentTInv DEF TokenExpires
  <2> QED
    BY <1>3, <2>1, <2>2, <2>3, <2>4, <2>5, <2>6, DrawTInv DEF JoinStep
<1>4. ASSUME NEW a \in Admins, AdmitStep(a) PROVE TInv'
  <2>1. CASE AdmitRead(a)
    BY <1>0, <2>1, SilentTInv DEF AdmitRead, ReadBatch, Drawn
  <2>2. CASE AdmitSave(a)
    <3>1. \A j \in expired' : state'[j] = "ADMITTED"
      BY <1>0, <2>2 DEF AdmitSave, SaveBatch
    <3> QED
      BY <1>0, <2>2, <3>1, SilentTInv DEF AdmitSave, SaveBatch, Drawn
  <2>3. CASE AdmitFails(a)
    BY <1>0, <2>3, SilentTInv DEF AdmitFails, Drawn
  <2> QED
    BY <1>4, <2>1, <2>2, <2>3 DEF AdmitStep
<1>5. CASE SequenceLost
  <2>1. Drawn' = Drawn /\ seq' = 0
    BY <1>5 DEF SequenceLost, Drawn
  <2>2. Cardinality(Drawn) \in Nat /\ Cardinality(Joins) \in Nat
    BY WaitingRoomAssumption, FS_Subset, FS_CardinalityType DEF Drawn
  <2>3. losses' \in 0..MaxLosses
    BY <1>5, WaitingRoomAssumption DEF SequenceLost, TInv, TypeOK
  <2>4. TypeOK'
    BY <1>5, <2>1, <2>2, <2>3 DEF SequenceLost, TInv, TypeOK
  <2> QED
    BY <1>0, <1>5, <2>1, <2>2, <2>4 DEF SequenceLost, TInv
<1> QED
  BY <1>1, <1>2, <1>3, <1>4, <1>5 DEF Next

(* Every reachable state has the types and the bound. *)
THEOREM TypeInvariance == Spec => []TInv
<1>1. IInv /\ TInv /\ [Next]_vars => TInv'
  BY NextIInv, NextTInv
<1> QED
  BY <1>1, InitTInv, Invariance, PTL DEF Spec

(* Every variable keeps its type, and the sequence never counts further than there
   are joins: each of them draws once. *)
THEOREM TypeCorrect == Spec => []TypeOK
BY TypeInvariance, PTL DEF TInv

-----------------------------------------------------------------------------
(* createdAt: no two entries of a user have the same rank, and none has a larger one
   than those that have begun. *)
Born(u) == {j \in Of(u) : born[j] # 0}

BornOK ==
  \A u \in Users : \A j \in Of(u) :
    /\ call[j] \in {"idle", "checked", "drawn"} => born[j] = 0
    /\ call[j] = "inserted" \/ state[j] # "Absent" => born[j] # 0
    /\ born[j] <= Cardinality(Born(u))
    /\ \A i \in Born(u) : i # j => born[i] # born[j]

UnderWay(j) == call[j] \in {"checked", "drawn", "inserted", "saved"}

(* A user whose joins do not overlap: what is saved next is the newest, nobody joins
   who has a queued newest entry, and the answer names the newest as long as it is
   queued. *)
InTurn(u) ==
  /\ \A i, k \in Of(u) : UnderWay(i) /\ UnderWay(k) => i = k
  /\ \A k \in Of(u), i \in Saved \cap Of(u) : call[k] = "inserted" => born[i] < born[k]
  /\ \A k \in Of(u) : call[k] = "saved" => k \in Newest(Saved \cap Of(u))
  /\ \A k \in Of(u), i \in Newest(Saved \cap Of(u)) :
       call[k] \in {"checked", "drawn", "inserted"} => i \notin Queued
  /\ told[u] \in Queued => told[u] \in Newest(Saved \cap Of(u))

ToldSaved == \A u \in Users : told[u] \in Joins => told[u] \in Saved \cap Of(u)

UInv == BornOK /\ ToldSaved /\ \A u \in Users \ unsure : InTurn(u)

(* What the steps below need of the other invariants *)
LEMMA Known ==
  ASSUME IInv, TInv
  PROVE  /\ call \in [Joins -> Stage] /\ born \in [Joins -> Nat]
         /\ state \in [Joins -> {"Absent", "QUEUED", "ADMITTED"}]
         /\ told \in [Users -> Joins \cup {NoEntry}]
         /\ \A j \in Joins : By[j] \in Users /\ j \in Of(By[j])
         /\ \A u \in Users : Of(u) \subseteq Joins
         /\ \A j \in Joins : state[j] # "Absent" => call[j] \in {"saved", "ended"}
         /\ \A j \in Joins : call[j] = "saved" => state[j] # "Absent"
         /\ Queued \subseteq Saved /\ Saved \subseteq Joins /\ expired \cap Queued = {}
BY WaitingRoomAssumption DEF IInv, Types, Stages, TInv, TypeOK, Of, Queued, Saved

LEMMA InitUInv == Init => UInv
<1> SUFFICES ASSUME Init PROVE UInv
  OBVIOUS
<1> USE WaitingRoomAssumption DEF Init
<1>1. Saved = {} /\ Queued = {} /\ \A u \in Users : Born(u) = {}
  BY DEF Saved, Queued, Born, Of
<1>2. BornOK
  BY <1>1, FS_EmptySet DEF BornOK, Of
<1>3. ToldSaved /\ \A u \in Users : InTurn(u)
  BY <1>1 DEF ToldSaved, InTurn, UnderWay, Newest, Of
<1> QED
  BY <1>2, <1>3 DEF UInv

(* The newest entry of a user is one. *)
LEMMA OneNewest ==
  ASSUME IInv, TInv, BornOK, NEW u \in Users,
         NEW i \in Newest(Saved \cap Of(u)), NEW k \in Newest(Saved \cap Of(u))
  PROVE  i = k
<1>1. i \in Born(u) /\ k \in Of(u)
  BY Known DEF Newest, Saved, BornOK, Born
<1>2. born[i] <= born[k] /\ born[k] <= born[i] /\ born[i] \in Nat /\ born[k] \in Nat
  BY Known DEF Newest
<1>3. born[i] = born[k]
  BY <1>2
<1> QED
  BY <1>1, <1>3 DEF BornOK

(* Steps after which no more calls are under way, and no more entries are queued *)
LEMMA SilentUInv ==
  ASSUME IInv, TInv, UInv, Saved' = Saved, Queued' \subseteq Queued,
         UNCHANGED <<born, told, unsure>>,
         \A j \in Joins : \/ call'[j] = call[j]
                          \/ call[j] = "checked" /\ call'[j] \in {"idle", "drawn"}
                          \/ call'[j] = "ended"
  PROVE  UInv'
<1>1. Saved \subseteq Joins /\ \A u \in Users : Born(u)' = Born(u) /\ Of(u) \subseteq Joins
  BY Known DEF Born
<1>2. BornOK'
  <2> SUFFICES ASSUME NEW u \in Users, NEW j \in Of(u)
               PROVE  /\ call'[j] \in {"idle", "checked", "drawn"} => born[j] = 0
                      /\ call'[j] = "inserted" \/ state'[j] # "Absent" => born[j] # 0
                      /\ born[j] <= Cardinality(Born(u))
                      /\ \A i \in Born(u) : i # j => born[i] # born[j]
    BY <1>1 DEF BornOK
  <2>1. state'[j] # "Absent" => state[j] # "Absent"
    BY <1>1 DEF Saved
  <2> QED
    BY <1>1, <2>1 DEF UInv, BornOK
<1>3. ToldSaved'
  BY DEF UInv, ToldSaved
<1>4. ASSUME NEW u \in Users \ unsure PROVE InTurn(u)'
  <2>1. Newest(Saved \cap Of(u))' = Newest(Saved \cap Of(u))
    BY DEF Newest
  <2>2. InTurn(u)
    BY <1>4 DEF UInv
  <2>3. \A j \in Joins : UnderWay(j)' => UnderWay(j)
    BY DEF UnderWay
  <2>4. /\ \A k \in Joins : call'[k] \in {"inserted", "saved"} => call'[k] = call[k]
        /\ \A k \in Joins : call'[k] \in {"checked", "drawn", "inserted"}
                            => call[k] \in {"checked", "drawn", "inserted"}
    OBVIOUS
  <2>5. \A i, k \in Of(u) : UnderWay(i)' /\ UnderWay(k)' => i = k
    BY <1>1, <2>2, <2>3 DEF InTurn
  <2>6. \A k \in Of(u), i \in Saved \cap Of(u) : call'[k] = "inserted" => born[i] < born[k]
    BY <1>1, <2>2, <2>4 DEF InTurn
  <2>7. \A k \in Of(u) : call'[k] = "saved" => k \in Newest(Saved \cap Of(u))
    BY <1>1, <2>2, <2>4 DEF InTurn
  <2>8. \A k \in Of(u), i \in Newest(Saved \cap Of(u)) :
          call'[k] \in {"checked", "drawn", "inserted"} => i \notin Queued'
    BY <1>1, <2>2, <2>4 DEF InTurn
  <2>9. told[u] \in Queued' => told[u] \in Newest(Saved \cap Of(u))
    BY <2>2 DEF InTurn
  <2> QED
    BY <2>1, <2>5, <2>6, <2>7, <2>8, <2>9 DEF InTurn
<1> QED
  BY <1>2, <1>3, <1>4 DEF UInv

(* A user who finds an active entry is told the newest one. *)
LEMMA RejoinUInv == ASSUME IInv, TInv, UInv, NEW u \in Users, Rejoin(u) PROVE UInv'
<1> USE DEF joinVars, rowVars
<1>1. PICK j \in Active(u) : told' = [told EXCEPT ![u] = j]
  BY DEF Rejoin, Tell
<1>2. /\ j \in Newest(Saved \cap Of(u)) /\ j \in Saved \cap Of(u)
      /\ told'[u] = j /\ \A v \in Users \ {u} : told'[v] = told[v]
  BY <1>1, Known DEF Active, Newest
<1>3. UNCHANGED <<born, call, state, Saved, Queued>>
  BY DEF Rejoin, Saved, Queued
<1>4. BornOK' /\ ToldSaved'
  <2>1. \A v \in Users : Born(v)' = Born(v)
    BY <1>3 DEF Born
  <2> QED
    BY <1>2, <1>3, <2>1 DEF UInv, BornOK, ToldSaved
<1>5. ASSUME NEW v \in Users \ unsure' PROVE InTurn(v)'
  <2>1. Newest(Saved \cap Of(v))' = Newest(Saved \cap Of(v)) /\ \A k : UnderWay(k)' = UnderWay(k)
    BY <1>3 DEF Newest, UnderWay
  <2>2. CASE v \in unsure
    <3>1. v = u /\ ~Joining(u)
      BY <1>5, <2>2 DEF Rejoin
    <3>2. \A k \in Of(v) : ~UnderWay(k)
      BY <3>1 DEF Joining, UnderWay
    <3> QED
      BY <1>2, <1>3, <2>1, <3>1, <3>2 DEF InTurn, UnderWay
  <2>3. CASE v \notin unsure
    BY <1>2, <1>3, <2>1, <2>3 DEF UInv, InTurn
  <2> QED
    BY <2>2, <2>3
<1> QED
  BY <1>4, <1>5 DEF UInv

(* A join begins: alone, and then no queued entry is the newest; or its user is unsure. *)
LEMMA CheckUInv == ASSUME IInv, TInv, UInv, NEW j \in Joins, JoinCheck(j) PROVE UInv'
<1> USE DEF rowVars
<1>1. UNCHANGED <<born, state, told, Saved, Queued>> /\ call' = [call EXCEPT ![j] = "checked"]
  BY DEF JoinCheck, Saved, Queued
<1>2. BornOK' /\ ToldSaved'
  <2>1. \A v \in Users : Born(v)' = Born(v)
    BY <1>1 DEF Born
  <2> QED
    BY <1>1, <2>1, Known DEF UInv, BornOK, ToldSaved, JoinCheck
<1>3. ASSUME NEW v \in Users \ unsure' PROVE InTurn(v)'
  <2>1. Newest(Saved \cap Of(v))' = Newest(Saved \cap Of(v))
    BY <1>1 DEF Newest
  <2>2. v \notin unsure
    BY <1>3 DEF JoinCheck
  <2>3. CASE By[j] = v
    <3>1. ~Joining(v) /\ Active(v) = {}
      BY <1>3, <2>3 DEF JoinCheck
    <3>2. \A k \in Of(v) \ {j} : ~UnderWay(k)' /\ call'[k] \notin {"checked", "drawn", "inserted", "saved"}
      BY <1>1, <3>1, Known DEF Joining, UnderWay
    <3>3. \A i \in Newest(Saved \cap Of(v)) : i \notin Queued
      BY <3>1, Known DEF Active
    <3>4. call'[j] = "checked"
      BY <1>1, Known
    <3> QED
      BY <1>1, <2>1, <2>2, <3>2, <3>3, <3>4 DEF UInv, InTurn
  <2>4. CASE By[j] # v
    <3>1. \A k \in Of(v) : call'[k] = call[k]
      BY <1>1, <2>4, Known DEF Of
    <3> QED
      BY <1>1, <2>1, <2>2, <3>1 DEF UInv, InTurn, UnderWay
  <2> QED
    BY <2>3, <2>4
<1> QED
  BY <1>2, <1>3 DEF UInv

(* The new row is the youngest of its user, also before it is committed. *)
LEMMA InsertUInv == ASSUME IInv, TInv, UInv, NEW j \in Joins, JoinInsert(j) PROVE UInv'
<1> USE DEF adminVars, answerVars
<1>1. PICK u \in Users : u = By[j] /\ j \in Of(u)
  BY Known
<1>2. /\ UNCHANGED <<state, told, unsure, Saved, Queued>> /\ call' = [call EXCEPT ![j] = "inserted"]
      /\ born' = [born EXCEPT ![j] = Cardinality(Born(u)) + 1] /\ call[j] = "drawn"
  BY <1>1 DEF JoinInsert, Saved, Queued, Born
<1>3. /\ IsFiniteSet(Born(u)) /\ Cardinality(Born(u)) \in Nat
      /\ j \notin Born(u) /\ j \notin Saved
  BY <1>1, <1>2, RankTyped, Known DEF Born, UInv, BornOK, Saved
<1>4. /\ Born(u)' = Born(u) \cup {j} /\ Cardinality(Born(u)') = Cardinality(Born(u)) + 1
      /\ \A v \in Users \ {u} : Born(v)' = Born(v) /\ j \notin Of(v)
      /\ \A i \in Joins \ {j} : born'[i] = born[i] /\ call'[i] = call[i]
      /\ born'[j] = Cardinality(Born(u)) + 1 /\ call'[j] = "inserted"
  <2>1. /\ \A i \in Joins \ {j} : born'[i] = born[i] /\ call'[i] = call[i]
        /\ born'[j] = Cardinality(Born(u)) + 1 /\ call'[j] = "inserted"
    BY <1>2, Known
  <2>2. \A v \in Users \ {u} : Born(v)' = Born(v) /\ j \notin Of(v)
    BY <1>1, <2>1, Known DEF Born, Of
  <2>3. Born(u)' = Born(u) \cup {j}
    BY <1>1, <1>3, <2>1, Known DEF Born
  <2> QED
    BY <1>3, <2>1, <2>2, <2>3, FS_AddElement
<1>5. \A i \in Of(u) \ {j} : born[i] <= Cardinality(Born(u)) /\ born[i] \in Nat /\ born[i] < born'[j]
  BY <1>3, <1>4, Known DEF UInv, BornOK
<1>6. BornOK'
  <2>1. ASSUME NEW v \in Users \ {u}, NEW i \in Of(v)
        PROVE  /\ call'[i] \in {"idle", "checked", "drawn"} => born'[i] = 0
               /\ call'[i] = "inserted" \/ state'[i] # "Absent" => born'[i] # 0
               /\ born'[i] <= Cardinality(Born(v)')
               /\ \A k \in Born(v)' : k # i => born'[k] # born'[i]
    <3>1. i # j /\ \A k \in Born(v) : k # j /\ k \in Joins
      BY <1>4, Known DEF Born
    <3> QED
      BY <1>2, <1>4, <3>1, Known DEF UInv, BornOK
  <2>2. ASSUME NEW i \in Of(u)
        PROVE  /\ call'[i] \in {"idle", "checked", "drawn"} => born'[i] = 0
               /\ call'[i] = "inserted" \/ state'[i] # "Absent" => born'[i] # 0
               /\ born'[i] <= Cardinality(Born(u)')
               /\ \A k \in Born(u)' : k # i => born'[k] # born'[i]
    <3>1. CASE i = j
      <4>1. \A k \in Born(u)' : k # j => born'[k] # born'[j]
        BY <1>4, <1>5, Known DEF Born
      <4> QED
        BY <1>3, <1>4, <3>1, <4>1
    <3>2. CASE i # j
      <4>1. i \in Joins /\ born'[i] = born[i] /\ call'[i] = call[i] /\ state'[i] = state[i]
        BY <1>2, <1>4, <3>2, Known
      <4>2. born[i] <= Cardinality(Born(u)) + 1
        BY <1>3, <1>5, <3>2
      <4>3. \A k \in Born(u) : k # i => born'[k] # born'[i]
        BY <1>3, <1>4, <4>1, Known DEF UInv, BornOK, Born
      <4>4. born'[j] # born'[i]
        BY <1>3, <1>4, <1>5, <3>2, <4>1
      <4> QED
        BY <1>4, <4>1, <4>2, <4>3, <4>4 DEF UInv, BornOK
    <3> QED
      BY <3>1, <3>2
  <2> QED
    BY <2>1, <2>2 DEF BornOK
<1>7. ToldSaved'
  BY <1>2 DEF UInv, ToldSaved
<1>8. ASSUME NEW v \in Users \ unsure PROVE InTurn(v)'
  <2>1. InTurn(v)
    BY <1>8 DEF UInv
  <2>2. Newest(Saved \cap Of(v))' = Newest(Saved \cap Of(v))
    BY <1>2, <1>3, <1>4, Known DEF Newest
  <2>3. \A k \in Joins : UnderWay(k)' <=> UnderWay(k)
    BY <1>2, <1>4 DEF UnderWay
  <2>4. \A k \in Of(v) : k \in Joins /\ (call'[k] = "saved" => call[k] = "saved")
    BY <1>4, Known
  <2>5. \A k \in Of(v) : call'[k] \in {"checked", "drawn", "inserted"}
                        => call[k] \in {"checked", "drawn", "inserted"}
    BY <1>2, <1>4, <2>4
  <2>6. ASSUME NEW k \in Of(v), NEW i \in Saved \cap Of(v), call'[k] = "inserted"
        PROVE  born'[i] < born'[k]
    <3>1. CASE k = j
      BY <1>3, <1>4, <1>5, <2>4, <2>6, <3>1
    <3>2. CASE k # j
      <4>1. k \in Joins /\ i \in Joins /\ i # j /\ call[k] = "inserted"
        BY <1>3, <1>4, <2>4, <2>6, <3>2
      <4> QED
        BY <1>4, <2>1, <3>2, <4>1 DEF InTurn
    <3> QED
      BY <3>1, <3>2
  <2>7. \A i, k \in Of(v) : UnderWay(i)' /\ UnderWay(k)' => i = k
    BY <2>1, <2>3, <2>4 DEF InTurn
  <2>8. \A k \in Of(v) : call'[k] = "saved" => k \in Newest(Saved \cap Of(v))
    BY <2>1, <2>4 DEF InTurn
  <2>9. \A k \in Of(v), i \in Newest(Saved \cap Of(v)) :
          call'[k] \in {"checked", "drawn", "inserted"} => i \notin Queued
    BY <2>1, <2>5 DEF InTurn
  <2>10. told[v] \in Queued => told[v] \in Newest(Saved \cap Of(v))
    BY <2>1 DEF InTurn
  <2> QED
    BY <1>2, <2>2, <2>6, <2>7, <2>8, <2>9, <2>10 DEF InTurn
<1> QED
  BY <1>2, <1>6, <1>7, <1>8 DEF UInv

(* The row of a user whose joins do not overlap is committed as the newest. *)
LEMMA CommitUInv == ASSUME IInv, TInv, UInv, NEW j \in Joins, JoinCommit(j) PROVE UInv'
<1> USE DEF adminVars, answerVars
<1>1. PICK u \in Users : u = By[j] /\ j \in Of(u)
  BY Known
<1>2. /\ UNCHANGED <<born, told, unsure>> /\ call[j] = "inserted"
      /\ call' = [call EXCEPT ![j] = "saved"]
      /\ state'[j] # "Absent" /\ \A i \in Joins \ {j} : state'[i] = state[i]
  BY Known DEF JoinCommit, CommitEntry
<1>3. /\ Saved' = Saved \cup {j} /\ j \notin Saved /\ Queued' \subseteq Queued \cup {j}
      /\ call'[j] = "saved" /\ \A i \in Joins \ {j} : call'[i] = call[i]
      /\ \A v \in Users \ {u} : j \notin Of(v)
  <2>1. call[j] \notin {"saved", "ended"}
    BY <1>2
  <2>2. j \notin Saved
    BY <2>1, Known DEF Saved
  <2>3. Saved' = Saved \cup {j} /\ Queued' \subseteq Queued \cup {j}
    BY <1>2 DEF Saved, Queued
  <2> QED
    BY <1>1, <1>2, <2>2, <2>3, Known DEF Of
<1>4. BornOK'
  <2> SUFFICES ASSUME NEW v \in Users, NEW i \in Of(v)
               PROVE  /\ call'[i] \in {"idle", "checked", "drawn"} => born[i] = 0
                      /\ call'[i] = "inserted" \/ state'[i] # "Absent" => born[i] # 0
                      /\ born[i] <= Cardinality(Born(v))
                      /\ \A k \in Born(v) : k # i => born[k] # born[i]
    BY <1>2 DEF BornOK, Born
  <2>1. i \in Joins /\ (i = j => born[i] # 0)
    BY <1>2, Known DEF UInv, BornOK
  <2> QED
    BY <1>2, <1>3, <2>1 DEF UInv, BornOK
<1>5. ToldSaved'
  BY <1>2, <1>3 DEF UInv, ToldSaved
<1>6. ASSUME NEW v \in Users \ unsure PROVE InTurn(v)'
  <2>1. InTurn(v) /\ Of(v) \subseteq Joins
    BY <1>6, Known DEF UInv
  <2>2. \A k \in Joins : UnderWay(k)' <=> UnderWay(k)
    BY <1>2, <1>3 DEF UnderWay
  <2>3. told[v] # j
    BY <1>3 DEF UInv, ToldSaved
  <2>4. CASE v = u
    <3>1. \A k \in Of(u) \ {j} : ~UnderWay(k)
      BY <1>1, <1>2, <2>1, <2>4 DEF InTurn, UnderWay
    <3>2. \A k \in Of(u) \ {j} : call'[k] \notin {"checked", "drawn", "inserted", "saved"}
      BY <1>3, <2>1, <2>4, <3>1 DEF UnderWay
    <3>3. \A i \in Saved \cap Of(u) : born[i] < born[j] /\ born[i] \in Nat /\ born[j] \in Nat
      BY <1>1, <1>2, <2>1, <2>4, Known DEF InTurn
    <3>4. j \in Newest(Saved \cap Of(u))'
      BY <1>1, <1>2, <1>3, <3>3, Known DEF Newest
    <3>5. told[v] \notin Queued'
      <4>1. told[v] \notin Queued
        BY <1>1, <1>2, <2>1, <2>4 DEF InTurn
      <4> QED
        BY <1>3, <2>3, <4>1
    <3>6. \A k \in Of(v) : call'[k] \notin {"checked", "drawn", "inserted"}
      BY <1>3, <2>4, <3>2
    <3>7. \A k \in Of(v) : call'[k] = "saved" => k = j
      BY <2>4, <3>2
    <3> QED
      BY <1>2, <2>1, <2>2, <2>4, <3>4, <3>5, <3>6, <3>7 DEF InTurn
  <2>5. CASE v # u
    <3>1. j \notin Of(v) /\ (Saved \cap Of(v))' = Saved \cap Of(v)
      BY <1>3, <2>5
    <3>2. Newest(Saved \cap Of(v))' = Newest(Saved \cap Of(v))
      BY <1>2, <3>1 DEF Newest
    <3>3. \A k \in Of(v) : call'[k] = call[k] /\ (k \in Queued' => k \in Queued)
      BY <1>3, <2>1, <3>1
    <3>4. told[v] \in Queued' => told[v] \in Queued
      BY <1>3, <2>3
    <3>5. Newest(Saved \cap Of(v)) \subseteq Of(v)
      BY DEF Newest
    <3>6. \A i, k \in Of(v) : UnderWay(i)' /\ UnderWay(k)' => i = k
      BY <2>1, <2>2 DEF InTurn
    <3>7. \A k \in Of(v), i \in Saved \cap Of(v) : call'[k] = "inserted" => born[i] < born[k]
      BY <2>1, <3>3 DEF InTurn
    <3>8. \A k \in Of(v) : call'[k] = "saved" => k \in Newest(Saved \cap Of(v))
      BY <2>1, <3>3 DEF InTurn
    <3>9. \A k \in Of(v), i \in Newest(Saved \cap Of(v)) :
            call'[k] \in {"checked", "drawn", "inserted"} => i \notin Queued'
      BY <2>1, <3>3, <3>5 DEF InTurn
    <3>10. told[v] \in Queued' => told[v] \in Newest(Saved \cap Of(v))
      BY <2>1, <3>4 DEF InTurn
    <3> QED
      BY <1>2, <3>1, <3>2, <3>6, <3>7, <3>8, <3>9, <3>10 DEF InTurn
  <2> QED
    BY <2>4, <2>5
<1> QED
  BY <1>2, <1>4, <1>5, <1>6 DEF UInv

(* The answer names the entry that was just saved, which still is the newest. *)
LEMMA AnswerUInv == ASSUME IInv, TInv, UInv, NEW j \in Joins, JoinAnswer(j) PROVE UInv'
<1> USE DEF rowVars, adminVars
<1>1. PICK u \in Users : u = By[j] /\ j \in Of(u)
  BY Known
<1>2. /\ UNCHANGED <<born, state, unsure, Saved, Queued>> /\ call[j] = "saved"
      /\ call' = [call EXCEPT ![j] = "ended"] /\ told' = [told EXCEPT ![u] = j]
  BY <1>1 DEF JoinAnswer, Tell, Saved, Queued
<1>3. /\ told'[u] = j /\ \A v \in Users \ {u} : told'[v] = told[v]
      /\ call'[j] = "ended" /\ \A i \in Joins \ {j} : call'[i] = call[i]
      /\ j \in Saved
  BY <1>2, Known DEF Saved
<1>4. BornOK'
  <2>1. \A v \in Users : Born(v)' = Born(v) /\ Of(v) \subseteq Joins
    BY <1>2, Known DEF Born
  <2> QED
    BY <1>2, <1>3, <2>1 DEF UInv, BornOK
<1>5. ToldSaved'
  BY <1>1, <1>2, <1>3 DEF UInv, ToldSaved
<1>6. ASSUME NEW v \in Users \ unsure PROVE InTurn(v)'
  <2>1. InTurn(v) /\ Of(v) \subseteq Joins
    BY <1>6, Known DEF UInv
  <2>2. Newest(Saved \cap Of(v))' = Newest(Saved \cap Of(v))
    BY <1>2 DEF Newest
  <2>3. \A k \in Of(v) : (UnderWay(k)' => UnderWay(k)) /\ (call'[k] # "ended" => call'[k] = call[k])
    BY <1>3, <2>1 DEF UnderWay
  <2>4. told'[v] \in Queued => told'[v] \in Newest(Saved \cap Of(v))
    BY <1>1, <1>2, <1>3, <2>1 DEF InTurn
  <2>5. \A i, k \in Of(v) : UnderWay(i)' /\ UnderWay(k)' => i = k
    BY <2>1, <2>3 DEF InTurn
  <2>6. \A k \in Of(v), i \in Saved \cap Of(v) : call'[k] = "inserted" => born[i] < born[k]
    BY <2>1, <2>3 DEF InTurn
  <2>7. \A k \in Of(v) : call'[k] = "saved" => k \in Newest(Saved \cap Of(v))
    BY <2>1, <2>3 DEF InTurn
  <2>8. \A k \in Of(v), i \in Newest(Saved \cap Of(v)) :
          call'[k] \in {"checked", "drawn", "inserted"} => i \notin Queued
    BY <2>1, <2>3 DEF InTurn
  <2> QED
    BY <1>2, <2>2, <2>4, <2>5, <2>6, <2>7, <2>8 DEF InTurn
<1> QED
  BY <1>2, <1>4, <1>5, <1>6 DEF UInv

(* Every step preserves what is known of the users. *)
LEMMA NextUInv == IInv /\ TInv /\ UInv /\ [Next]_vars => UInv'
<1> SUFFICES ASSUME IInv, TInv, UInv, [Next]_vars PROVE UInv'
  OBVIOUS
<1> USE DEF joinVars, rowVars, adminVars, answerVars
<1>0. call \in [Joins -> Stage]
  BY Known
<1>1. CASE UNCHANGED vars
  <2>1. Saved' = Saved /\ Queued' \subseteq Queued
    BY <1>1 DEF vars, Saved, Queued
  <2>2. UNCHANGED <<born, told, unsure>>
    BY <1>1 DEF vars
  <2>3. \A j \in Joins : call'[j] = call[j]
    BY <1>1 DEF vars
  <2> QED
    BY <2>1, <2>2, <2>3, SilentUInv
<1>2. ASSUME NEW u \in Users, Rejoin(u) PROVE UInv'
  BY <1>2, RejoinUInv
<1>3. ASSUME NEW j \in Joins, JoinStep(j) \/ TokenExpires(j) PROVE UInv'
  <2>1. CASE JoinDraw(j)
    BY <1>0, <2>1, SilentUInv DEF JoinDraw, Draw, Saved, Queued
  <2>2. CASE JoinFails(j)
    BY <1>0, <2>2, SilentUInv DEF JoinFails, Saved, Queued
  <2>3. CASE TokenExpires(j)
    BY <2>3, SilentUInv DEF TokenExpires, Saved, Queued
  <2> QED
    BY <1>3, <2>1, <2>2, <2>3, CheckUInv, InsertUInv, CommitUInv, AnswerUInv DEF JoinStep
<1>4. ASSUME NEW a \in Admins, AdmitStep(a) PROVE UInv'
  <2>1. CASE AdmitRead(a)
    BY <2>1, SilentUInv DEF AdmitRead, ReadBatch, Saved, Queued
  <2>2. CASE AdmitSave(a)
    <3>1. Saved' = Saved /\ Queued' \subseteq Queued
      BY <2>2 DEF AdmitSave, SaveBatch, IInv, Batches, Saved, Queued
    <3> QED
      BY <2>2, <3>1, SilentUInv DEF AdmitSave, SaveBatch
  <2>3. CASE AdmitFails(a)
    BY <2>3, SilentUInv DEF AdmitFails, Saved, Queued
  <2> QED
    BY <1>4, <2>1, <2>2, <2>3 DEF AdmitStep
<1>5. CASE SequenceLost
  BY <1>5, SilentUInv DEF SequenceLost, Saved, Queued
<1> QED
  BY <1>1, <1>2, <1>3, <1>4, <1>5 DEF Next

(* Every reachable state knows its users. *)
THEOREM UserInvariance == Spec => []UInv
BY InitUInv, NextUInv, Invariance, TypeInvariance, PTL DEF Spec

(* A user whose joins did not overlap, or who was answered since, is told the same
   entry as long as it is queued: it is the newest of the user, also when the answer
   to the join that saved it was lost. *)
THEOREM PlaceStays == Spec => PlaceKept
<1>1. ASSUME IInv, TInv, UInv, [Next]_vars, NEW u \in Users \ unsure, told[u] \in Queued
      PROVE  told'[u] = told[u]
  <2> USE <1>1 DEF joinVars, rowVars, adminVars, answerVars
  <2>1. told[u] \in Newest(Saved \cap Of(u)) /\ told \in [Users -> Joins \cup {NoEntry}]
    BY Known DEF UInv, InTurn
  <2>2. ASSUME NEW v \in Users, Rejoin(v) PROVE told'[u] = told[u]
    <3>1. PICK k \in Active(v) : told' = [told EXCEPT ![v] = k]
      BY <2>2 DEF Rejoin, Tell
    <3>2. CASE v = u
      BY <2>1, <3>1, <3>2, OneNewest DEF Active, UInv
    <3> QED
      BY <2>1, <3>1, <3>2
  <2>3. ASSUME NEW j \in Joins, JoinAnswer(j) PROVE told'[u] = told[u]
    <3>1. call[j] = "saved" /\ told' = [told EXCEPT ![By[j]] = j] /\ j \in Of(By[j])
      BY <2>3, Known DEF JoinAnswer, Tell
    <3>2. CASE By[j] = u
      <4>1. j \in Newest(Saved \cap Of(u))
        BY <3>1, <3>2 DEF UInv, InTurn
      <4> QED
        BY <2>1, <3>1, <3>2, <4>1, OneNewest DEF UInv
    <3> QED
      BY <2>1, <3>1, <3>2
  <2>4. CASE UNCHANGED told
    BY <2>4
  <2> QED
    BY <2>2, <2>3, <2>4
    DEF Next, vars, JoinStep, JoinCheck, JoinDraw, Draw, JoinInsert, JoinCommit, CommitEntry, JoinFails,
        TokenExpires, SequenceLost, AdmitStep, AdmitRead, ReadBatch, AdmitSave, SaveBatch, AdmitFails
<1>2. IInv /\ TInv /\ UInv /\ [Next]_vars =>
        [\A u \in Users \ unsure : told[u] \in Queued => told'[u] = told[u]]_vars
  BY <1>1
<1> QED
  BY <1>2, Invariance, TypeInvariance, UserInvariance, PTL DEF Spec, PlaceKept

=============================================================================
