---------------------------- MODULE BookingProofs ----------------------------
(***************************************************************************)
(* Theorems about Booking, for any number of seats, create calls and       *)
(* replicas, with locks that may vanish at any time.                       *)
(***************************************************************************)
EXTENDS Booking, TLAPS

(* What an open create call may have claimed. *)
ClaimsOK ==
  \A r \in Resv :
    /\ claimed[r] \subseteq want[r]
    /\ pc[r] # "inserting" => claimed[r] = {}
    /\ InAttempt(r) => want[r] # {}
    /\ pc[r] # "ended" => resv[r] = "Absent"

ClaimsExclusive ==
  \A q, r \in Resv :
    /\ claimed[q] \cap rows[r] = {}
    /\ q # r => claimed[q] \cap claimed[r] = {}

(* Payments and sweeps only know reservations that exist. *)
KnownExist ==
  /\ \A r \in Resv : pay[r] # "Absent" \/ r \in starting => resv[r] # "Absent"
  /\ \A w \in Sweepers : \A r \in stale[w] : resv[r] # "Absent"
  /\ \A w \in Sweepers : cur[w] # Nobody => resv[cur[w]] # "Absent"

(* The seats that a sweep read before its transaction are still the seats of
   the reservation, as long as it is pending. *)
SnapshotOK ==
  \A w \in Sweepers :
    cur[w] # Nobody /\ resv[cur[w]] = "PENDING" => snap[w] = want[cur[w]]

IInv ==
  /\ TypeOK
  /\ ClaimsOK /\ ClaimsExclusive /\ KnownExist /\ SnapshotOK
  /\ NoDoubleBooking /\ RowsMatchState /\ PaidIffConfirmed /\ DecisionStaysValid

-----------------------------------------------------------------------------
(* The initial state satisfies the invariant. *)
LEMMA InitIInv == Init => IInv
BY DEF Init, LockInit, ResvInit, PayInit, IInv, TypeOK, LockTypeOK, ResvTypeOK,
  PayTypeOK, ClaimsOK, ClaimsExclusive, KnownExist, SnapshotOK, NoDoubleBooking,
  RowsMatchState, PaidIffConfirmed, DecisionStaysValid, InAttempt, States, PayStates, Outcomes

(* The invariant does not look at the locks, at the releases under way or at
   the clocks: whatever they do, it stays. *)
LEMMA LocksClocksIInv ==
  ASSUME IInv, TypeOK',
         UNCHANGED <<pc, want, claimed, resv, rows, booked, tx, sweepVars, payVars>>
  PROVE  IInv'
BY DEF IInv, sweepVars, payVars, ClaimsOK, ClaimsExclusive, KnownExist, SnapshotOK,
  NoDoubleBooking, RowsMatchState, PaidIffConfirmed, DecisionStaysValid, InAttempt

(* A late release, a lost one, a vanished key and the passing of time. *)
LEMMA ReleaseIInv ==
  ASSUME IInv, UNCHANGED payVars,
         \/ \E r \in Resv : RunRelease(r) \/ LoseRelease(r) \/ Elapse(r)
         \/ \E s \in Seats : LockVanishes(s)
  PROVE  IInv'
<1> USE DEF sweepVars, payVars, resvVars, TypeOK, LockTypeOK, ResvTypeOK, PayTypeOK
<1>1. ASSUME NEW r \in Resv, RunRelease(r) PROVE IInv'
  BY <1>1, LocksClocksIInv DEF RunRelease, Release, IInv
<1>2. ASSUME NEW r \in Resv, LoseRelease(r) PROVE IInv'
  BY <1>2, LocksClocksIInv DEF LoseRelease, IInv
<1>3. ASSUME NEW r \in Resv, Elapse(r) PROVE IInv'
  BY <1>3, LocksClocksIInv DEF Elapse, IInv
<1>4. ASSUME NEW s \in Seats, LockVanishes(s) PROVE IInv'
  BY <1>4, LocksClocksIInv DEF LockVanishes, Vanish, IInv
<1> QED
  BY <1>1, <1>2, <1>3, <1>4

(* The locks of a new create call are acquired. *)
LEMMA AcquireIInv ==
  ASSUME IInv, NEW r \in Resv, NEW S \in (SUBSET Seats) \ {{}},
         AcquireLocks(r, S), UNCHANGED payVars
  PROVE  IInv'
<1> USE DEF IInv, InAttempt, sweepVars, payVars, AcquireLocks, Acquire, LockAll
<1>1. TypeOK'
  BY DEF TypeOK, LockTypeOK, ResvTypeOK, PayTypeOK
<1>2. ClaimsOK' /\ ClaimsExclusive'
  BY DEF ClaimsOK, ClaimsExclusive, TypeOK, ResvTypeOK
<1>3. KnownExist' /\ SnapshotOK'
  BY DEF KnownExist, SnapshotOK, TypeOK, ResvTypeOK, ClaimsOK
<1>4. NoDoubleBooking' /\ RowsMatchState'
  BY DEF NoDoubleBooking, RowsMatchState, TypeOK, ResvTypeOK, ClaimsOK
<1>5. PaidIffConfirmed' /\ DecisionStaysValid'
  BY DEF PaidIffConfirmed, DecisionStaysValid, TypeOK, ResvTypeOK, PayTypeOK, ClaimsOK
<1> QED
  BY <1>1, <1>2, <1>3, <1>4, <1>5

(* The answer to an acquire is lost. *)
LEMMA AcquireUnansweredIInv ==
  ASSUME IInv, NEW r \in Resv, NEW S \in (SUBSET Seats) \ {{}},
         AcquireUnanswered(r, S), UNCHANGED payVars
  PROVE  IInv'
<1> USE DEF IInv, InAttempt, sweepVars, payVars, AcquireUnanswered, Acquire, LockAll
<1>1. TypeOK'
  BY DEF TypeOK, LockTypeOK, ResvTypeOK, PayTypeOK
<1>2. ClaimsOK' /\ ClaimsExclusive'
  BY DEF ClaimsOK, ClaimsExclusive, TypeOK, ResvTypeOK
<1>3. KnownExist' /\ SnapshotOK'
  BY DEF KnownExist, SnapshotOK, TypeOK, ResvTypeOK
<1>4. NoDoubleBooking' /\ RowsMatchState'
  BY DEF NoDoubleBooking, RowsMatchState, TypeOK, ResvTypeOK
<1>5. PaidIffConfirmed' /\ DecisionStaysValid'
  BY DEF PaidIffConfirmed, DecisionStaysValid, TypeOK, ResvTypeOK, PayTypeOK
<1> QED
  BY <1>1, <1>2, <1>3, <1>4, <1>5

(* The occupied seats are read, or a seat is inserted. *)
LEMMA CheckInsertIInv ==
  ASSUME IInv, NEW r \in Resv, UNCHANGED payVars,
         CheckOccupied(r) \/ \E s \in Seats : InsertSeat(r, s)
  PROVE  IInv'
<1> USE DEF IInv, InAttempt, sweepVars, payVars, CheckOccupied, InsertSeat, Taken
<1>1. TypeOK'
  BY DEF TypeOK, LockTypeOK, ResvTypeOK, PayTypeOK
<1>2. ClaimsOK' /\ ClaimsExclusive'
  BY DEF ClaimsOK, ClaimsExclusive, TypeOK, ResvTypeOK
<1>3. KnownExist' /\ SnapshotOK'
  BY DEF KnownExist, SnapshotOK, TypeOK, ResvTypeOK
<1>4. NoDoubleBooking' /\ RowsMatchState'
  BY DEF NoDoubleBooking, RowsMatchState, TypeOK, ResvTypeOK
<1>5. PaidIffConfirmed' /\ DecisionStaysValid'
  BY DEF PaidIffConfirmed, DecisionStaysValid, TypeOK, ResvTypeOK, PayTypeOK
<1> QED
  BY <1>1, <1>2, <1>3, <1>4, <1>5

(* The transaction of a create call rolls back. *)
LEMMA RollBackIInv ==
  ASSUME IInv, NEW r \in Resv, UNCHANGED payVars,
         RollBack(r) \/ CreateDies(r), InAttempt(r)
  PROVE  IInv'
<1> USE DEF IInv, InAttempt, sweepVars, payVars, RollBack, CreateDies
<1>1. TypeOK'
  BY DEF TypeOK, LockTypeOK, ResvTypeOK, PayTypeOK
<1>2. ClaimsOK' /\ ClaimsExclusive'
  BY DEF ClaimsOK, ClaimsExclusive, TypeOK, ResvTypeOK
<1>3. KnownExist' /\ SnapshotOK'
  BY DEF KnownExist, SnapshotOK, TypeOK, ResvTypeOK
<1>4. NoDoubleBooking' /\ RowsMatchState'
  BY DEF NoDoubleBooking, RowsMatchState, TypeOK, ResvTypeOK
<1>5. PaidIffConfirmed' /\ DecisionStaysValid'
  BY DEF PaidIffConfirmed, DecisionStaysValid, TypeOK, ResvTypeOK, PayTypeOK
<1> QED
  BY <1>1, <1>2, <1>3, <1>4, <1>5

(* The transaction of a create call commits. *)
LEMMA CommitIInv ==
  ASSUME IInv, NEW r \in Resv, NEW u \in BOOLEAN, CommitCreate(r, u), UNCHANGED payVars
  PROVE  IInv'
<1> USE DEF IInv, InAttempt, sweepVars, payVars, CommitCreate
<1>1. TypeOK'
  BY DEF TypeOK, LockTypeOK, ResvTypeOK, PayTypeOK, States
<1>2. ClaimsOK' /\ ClaimsExclusive'
  BY DEF ClaimsOK, ClaimsExclusive, TypeOK, ResvTypeOK
<1>3. KnownExist' /\ SnapshotOK'
  BY DEF KnownExist, SnapshotOK, TypeOK, ResvTypeOK, ClaimsOK, RowsMatchState
<1>4. NoDoubleBooking' /\ RowsMatchState'
  BY DEF NoDoubleBooking, RowsMatchState, TypeOK, ResvTypeOK, ClaimsOK, ClaimsExclusive
<1>5. PaidIffConfirmed' /\ DecisionStaysValid'
  BY DEF PaidIffConfirmed, DecisionStaysValid, TypeOK, ResvTypeOK, PayTypeOK, ClaimsOK, KnownExist
<1> QED
  BY <1>1, <1>2, <1>3, <1>4, <1>5

(* A customer cancels. *)
LEMMA CancelIInv ==
  ASSUME IInv, NEW r \in Resv, Cancel(r), UNCHANGED payVars
  PROVE  IInv'
<1> USE DEF IInv, InAttempt, sweepVars, payVars, Cancel, CancelRow
<1>1. TypeOK'
  BY DEF TypeOK, LockTypeOK, ResvTypeOK, PayTypeOK, States
<1>2. ClaimsOK' /\ ClaimsExclusive'
  BY DEF ClaimsOK, ClaimsExclusive, TypeOK, ResvTypeOK
<1>3. KnownExist' /\ SnapshotOK'
  BY DEF KnownExist, SnapshotOK, TypeOK, ResvTypeOK
<1>4. NoDoubleBooking' /\ RowsMatchState'
  BY DEF NoDoubleBooking, RowsMatchState, TypeOK, ResvTypeOK
<1>5. PaidIffConfirmed' /\ DecisionStaysValid'
  BY DEF PaidIffConfirmed, DecisionStaysValid, TypeOK, ResvTypeOK, PayTypeOK
<1> QED
  BY <1>1, <1>2, <1>3, <1>4, <1>5

(* Only the invariant's parts on sweeps look at what the sweeps know. *)
LEMMA SweepsOnlyIInv ==
  ASSUME IInv, UNCHANGED <<lock, resvVars, tx, payVars>>,
         TypeOK', KnownExist', SnapshotOK'
  PROVE  IInv'
BY DEF IInv, resvVars, payVars, ClaimsOK, ClaimsExclusive,
  NoDoubleBooking, RowsMatchState, PaidIffConfirmed, DecisionStaysValid, InAttempt

(* A sweep selects, reads, skips or breaks off: the tables stay as they are. *)
LEMMA SweepReadsIInv ==
  ASSUME IInv, NEW w \in Sweepers, UNCHANGED payVars,
         SweepSelect(w) \/ SweepRead(w) \/ SweepSkip(w) \/ SweepFails(w)
  PROVE  IInv'
<1> USE ReservationsAssumption DEF IInv, TypeOK, LockTypeOK, ResvTypeOK, PayTypeOK, resvVars, sweepVars,
  payVars, KnownExist, SnapshotOK
<1>1. CASE SweepSelect(w)
  <2>1. PICK B \in SUBSET {r \in Resv : resv[r] = "PENDING"} :
          stale' = [stale EXCEPT ![w] = B]
    BY <1>1 DEF SweepSelect, SelectFrom
  <2>2. UNCHANGED <<lock, resvVars, tx, cur, snap>>
    BY <1>1 DEF SweepSelect, SelectFrom
  <2>3. TypeOK'
    BY <2>1, <2>2
  <2>4. KnownExist' /\ SnapshotOK'
    BY <2>1, <2>2
  <2> QED
    BY <2>2, <2>3, <2>4, SweepsOnlyIInv
<1>2. CASE SweepRead(w)
  <2>1. PICK r \in stale[w] :
          /\ cur' = [cur EXCEPT ![w] = r]
          /\ snap' = [snap EXCEPT ![w] = rows[r]]
          /\ stale' = [stale EXCEPT ![w] = @ \ {r}]
    BY <1>2 DEF SweepRead
  <2>2. TypeOK' /\ KnownExist'
    BY <1>2, <2>1 DEF SweepRead
  <2>3. SnapshotOK'
    BY <1>2, <2>1 DEF SweepRead, RowsMatchState
  <2> QED
    BY <1>2, <2>2, <2>3, SweepsOnlyIInv DEF SweepRead
<1>3. CASE SweepSkip(w) \/ SweepFails(w)
  <2>1. UNCHANGED <<lock, resvVars, tx>>
    BY <1>3 DEF SweepSkip, SweepFails
  <2>2. /\ cur' = [cur EXCEPT ![w] = Nobody]
        /\ snap' = [snap EXCEPT ![w] = {}]
        /\ stale' = stale \/ stale' = [stale EXCEPT ![w] = {}]
    BY <1>3 DEF SweepSkip, SweepFails, NextInBatch
  <2>3. TypeOK'
    BY <2>1, <2>2
  <2>4. KnownExist' /\ SnapshotOK'
    BY <2>1, <2>2
  <2> QED
    BY <2>1, <2>3, <2>4, SweepsOnlyIInv
<1> QED
  BY <1>1, <1>2, <1>3

(* A sweep expires a reservation. *)
LEMMA SweepExpireIInv ==
  ASSUME IInv, NEW w \in Sweepers, SweepExpire(w), UNCHANGED payVars
  PROVE  IInv'
<1> USE DEF IInv, InAttempt, sweepVars, payVars, SweepExpire, ExpireRow, NextInBatch
<1>1. TypeOK'
  BY DEF TypeOK, LockTypeOK, ResvTypeOK, PayTypeOK, States
<1>2. ClaimsOK' /\ ClaimsExclusive'
  BY DEF ClaimsOK, ClaimsExclusive, TypeOK, ResvTypeOK
<1>3. KnownExist' /\ SnapshotOK'
  BY DEF KnownExist, SnapshotOK, TypeOK, ResvTypeOK
<1>4. NoDoubleBooking' /\ RowsMatchState'
  BY DEF NoDoubleBooking, RowsMatchState, TypeOK, ResvTypeOK, SnapshotOK
<1>5. PaidIffConfirmed' /\ DecisionStaysValid'
  BY DEF PaidIffConfirmed, DecisionStaysValid, TypeOK, ResvTypeOK, PayTypeOK
<1> QED
  BY <1>1, <1>2, <1>3, <1>4, <1>5

(* A payment is started. *)
LEMMA StartIInv ==
  ASSUME IInv, NEW r \in Resv,
         StartCheck(r) \/ StartInsert(r) \/ StartFails(r)
  PROVE  IInv'
<1> USE DEF IInv, InAttempt, sweepVars, resvVars, StartCheck, StartInsert, StartFails, Payable
<1>1. TypeOK'
  BY DEF TypeOK, LockTypeOK, ResvTypeOK, PayTypeOK, PayStates
<1>2. ClaimsOK' /\ ClaimsExclusive'
  BY DEF ClaimsOK, ClaimsExclusive, TypeOK, ResvTypeOK
<1>3. KnownExist' /\ SnapshotOK'
  BY DEF KnownExist, SnapshotOK, TypeOK, ResvTypeOK, PayTypeOK
<1>4. NoDoubleBooking' /\ RowsMatchState'
  BY DEF NoDoubleBooking, RowsMatchState, TypeOK, ResvTypeOK
<1>5. PaidIffConfirmed' /\ DecisionStaysValid'
  <2> SUFFICES ASSUME NEW q \in Resv
      PROVE  /\ pay'[q] = "SUCCESS" <=> resv'[q] = "CONFIRMED"
             /\ tickets'[q] = IF resv'[q] = "CONFIRMED" THEN want'[q] ELSE {}
             /\ tx'[q] # "none" => /\ pay'[q] = "PENDING"
                                   /\ tx'[q] = "success" => resv'[q] = "PENDING" /\ rows'[q] = want'[q]
    BY DEF PaidIffConfirmed, DecisionStaysValid
  <2> USE DEF PaidIffConfirmed, DecisionStaysValid, TypeOK, ResvTypeOK, PayTypeOK, States, PayStates
  <2>1. CASE q # r
    BY <2>1
  <2>2. CASE q = r
    BY <2>2 DEF RowsMatchState, KnownExist, ReservationStateOf, PaymentStateOf
  <2> QED
    BY <2>1, <2>2
<1> QED
  BY <1>1, <1>2, <1>3, <1>4, <1>5

(* A completion decides, or rolls its decision back: only tx changes. *)
LEMMA DecisionOnlyIInv ==
  ASSUME IInv, NEW r \in Resv, NEW d \in Outcomes \cup {"none"},
         tx' = [tx EXCEPT ![r] = d],
         d # "none" => pay[r] = "PENDING",
         d = "success" => rows[r] # {},
         UNCHANGED <<lock, resvVars, sweepVars, payVars>>
  PROVE  IInv'
<1> USE DEF IInv, resvVars, sweepVars, payVars
<1>1. TypeOK' /\ ClaimsOK' /\ ClaimsExclusive' /\ KnownExist' /\ SnapshotOK'
  BY DEF TypeOK, LockTypeOK, ResvTypeOK, PayTypeOK, ClaimsOK, ClaimsExclusive, KnownExist,
    SnapshotOK, InAttempt
<1>2. NoDoubleBooking' /\ RowsMatchState' /\ PaidIffConfirmed'
  BY DEF NoDoubleBooking, RowsMatchState, PaidIffConfirmed
<1>3. d = "success" => resv[r] = "PENDING" /\ rows[r] = want[r]
  BY DEF RowsMatchState, PaidIffConfirmed
<1>4. DecisionStaysValid'
  BY <1>3 DEF DecisionStaysValid, TypeOK, PayTypeOK
<1> QED
  BY <1>1, <1>2, <1>4

LEMMA CompleteDecideIInv ==
  ASSUME IInv, NEW r \in Resv,
         CompleteRollsBack(r) \/ \E o \in Outcomes : CompleteDecide(r, o)
  PROVE  IInv'
<1>1. CASE CompleteRollsBack(r)
  BY <1>1, DecisionOnlyIInv DEF CompleteRollsBack
<1>2. ASSUME NEW o \in Outcomes, CompleteDecide(r, o) PROVE IInv'
  <2>1. PICK expired \in ExpiredReadings(r) :
          /\ EffectiveOutcome(o, expired) = "success" => rows[r] # {}
          /\ tx' = [tx EXCEPT ![r] = EffectiveOutcome(o, expired)]
    BY <1>2 DEF CompleteDecide, Decide
  <2>2. EffectiveOutcome(o, expired) \in Outcomes
    BY DEF EffectiveOutcome, Outcomes
  <2> QED
    BY <1>2, <2>1, <2>2, DecisionOnlyIInv DEF CompleteDecide, Decide
<1> QED
  BY <1>1, <1>2

(* A completion commits. *)
LEMMA CompleteCommitIInv ==
  ASSUME IInv, NEW r \in Resv, CompleteCommit(r)
  PROVE  IInv'
<1> USE DEF IInv, InAttempt, sweepVars, CompleteCommit, Outcomes, PaymentStateOf,
  ReservationStateOf, payVars
<1>1. TypeOK'
  BY DEF TypeOK, LockTypeOK, ResvTypeOK, PayTypeOK, States, PayStates
<1>2. ClaimsOK' /\ ClaimsExclusive'
  BY DEF ClaimsOK, ClaimsExclusive, TypeOK, ResvTypeOK, PayTypeOK, DecisionStaysValid, KnownExist
<1>3. KnownExist' /\ SnapshotOK'
  BY DEF KnownExist, SnapshotOK, TypeOK, ResvTypeOK, PayTypeOK, DecisionStaysValid
<1>4. NoDoubleBooking' /\ RowsMatchState'
  BY DEF NoDoubleBooking, RowsMatchState, TypeOK, ResvTypeOK, PayTypeOK, DecisionStaysValid, PaidIffConfirmed
<1>5. PaidIffConfirmed' /\ DecisionStaysValid'
  <2> SUFFICES ASSUME NEW q \in Resv
      PROVE  /\ pay'[q] = "SUCCESS" <=> resv'[q] = "CONFIRMED"
             /\ tickets'[q] = IF resv'[q] = "CONFIRMED" THEN want'[q] ELSE {}
             /\ tx'[q] # "none" => /\ pay'[q] = "PENDING"
                                   /\ tx'[q] = "success" => resv'[q] = "PENDING" /\ rows'[q] = want'[q]
    BY DEF PaidIffConfirmed, DecisionStaysValid
  <2> USE DEF PaidIffConfirmed, DecisionStaysValid, TypeOK, ResvTypeOK, PayTypeOK, States, PayStates
  <2>1. CASE q # r
    BY <2>1
  <2>2. CASE q = r
    BY <2>2 DEF RowsMatchState, KnownExist, ReservationStateOf, PaymentStateOf
  <2> QED
    BY <2>1, <2>2
<1> QED
  BY <1>1, <1>2, <1>3, <1>4, <1>5

-----------------------------------------------------------------------------
(* Every step preserves the invariant. *)
LEMMA NextIInv == IInv /\ [Next]_vars => IInv'
<1> SUFFICES ASSUME IInv, [Next]_vars PROVE IInv'
  OBVIOUS
<1>1. CASE UNCHANGED vars
  <2>1. TypeOK'
    BY <1>1 DEF vars, resvVars, sweepVars, payVars, IInv, TypeOK, LockTypeOK, ResvTypeOK, PayTypeOK
  <2> QED
    BY <1>1, <2>1, LocksClocksIInv DEF vars, resvVars
<1>2. ASSUME NEW r \in Resv, CreateStep(r), UNCHANGED payVars PROVE IInv'
  <2>1. CASE \E S \in (SUBSET Seats) \ {{}} : AcquireLocks(r, S)
    BY <1>2, <2>1, AcquireIInv
  <2>2. CASE \E S \in (SUBSET Seats) \ {{}} : AcquireUnanswered(r, S)
    BY <1>2, <2>2, AcquireUnansweredIInv
  <2>3. CASE CheckOccupied(r) \/ \E s \in Seats : InsertSeat(r, s)
    BY <1>2, <2>3, CheckInsertIInv
  <2>4. CASE Conflict(r) \/ CreateFails(r) \/ DeadlockVictim(r) \/ CreateDies(r)
    <3>1. InAttempt(r)
      BY <2>4 DEF Conflict, CreateFails, CreateDies, DeadlockVictim, InDeadlock, InAttempt
    <3>2. RollBack(r) \/ CreateDies(r)
      BY <2>4 DEF Conflict, CreateFails, DeadlockVictim
    <3> QED
      BY <1>2, <3>1, <3>2, RollBackIInv
  <2>5. CASE Commit(r) \/ CommitUnanswered(r)
    BY <1>2, <2>5, CommitIInv DEF Commit, CommitUnanswered
  <2> QED
    BY <1>2, <2>1, <2>2, <2>3, <2>4, <2>5 DEF CreateStep
<1>3. ASSUME NEW r \in Resv, ReservationStep(r), UNCHANGED payVars PROVE IInv'
  BY <1>2, <1>3, CancelIInv, ReleaseIInv DEF ReservationStep
<1>4. ASSUME NEW s \in Seats, LockVanishes(s), UNCHANGED payVars PROVE IInv'
  BY <1>4, ReleaseIInv
<1>5. ASSUME NEW w \in Sweepers, SweepStep(w), UNCHANGED payVars PROVE IInv'
  BY <1>5, SweepReadsIInv, SweepExpireIInv DEF SweepStep
<1>6. ASSUME NEW r \in Resv, PaymentStep(r) PROVE IInv'
  BY <1>6, StartIInv, CompleteDecideIInv, CompleteCommitIInv DEF PaymentStep
<1> QED
  BY <1>1, <1>3, <1>4, <1>5, <1>6 DEF Next

(* Every reachable state satisfies the invariant. *)
THEOREM Invariance == Spec => []IInv
BY InitIInv, NextIInv, PTL DEF Spec

(* Every variable keeps its type: in particular a reservation and a payment only
   ever have states that entities.ts declares. *)
THEOREM TypeCorrect == Spec => []TypeOK
<1>1. IInv => TypeOK
  BY DEF IInv
<1> QED
  BY <1>1, Invariance, PTL

(* No seat is ever in the rows of two reservations, however many create calls,
   sweeps and payments run, and although any lock may vanish at any time. *)
THEOREM NoSeatTwice == Spec => []NoDoubleBooking
<1>1. IInv => NoDoubleBooking
  BY DEF IInv
<1> QED
  BY <1>1, Invariance, PTL

(* The seat rows always agree with the state of their reservation. *)
THEOREM RowsAgree == Spec => []RowsMatchState
<1>1. IInv => RowsMatchState
  BY DEF IInv
<1> QED
  BY <1>1, Invariance, PTL

(* A payment succeeds if and only if its reservation is confirmed, and exactly
   then there are tickets, one for each seat. *)
THEOREM PaymentsAgree == Spec => []PaidIffConfirmed
<1>1. IInv => PaidIffConfirmed
  BY DEF IInv
<1> QED
  BY <1>1, Invariance, PTL

(* An outcome that a completion has decided on can still be committed. *)
THEOREM DecisionsHold == Spec => []DecisionStaysValid
<1>1. IInv => DecisionStaysValid
  BY DEF IInv
<1> QED
  BY <1>1, Invariance, PTL

-----------------------------------------------------------------------------
(***************************************************************************)
(* What a step may never do                                                *)
(***************************************************************************)

(* A completion commits only for a payment that is open, and a success only
   for a reservation that still has all its seats. *)
LEMMA CommitFacts ==
  ASSUME IInv, NEW r \in Resv, CompleteCommit(r)
  PROVE  /\ pay[r] = "PENDING" /\ resv[r] \in {"PENDING", "CANCELLED", "EXPIRED"}
         /\ tx[r] = "success" => resv[r] = "PENDING" /\ rows[r] # {}
BY DEF IInv, CompleteCommit, DecisionStaysValid, PaidIffConfirmed, KnownExist, RowsMatchState,
  TypeOK, ResvTypeOK, States

(* The steps that write the tables: a create call commits, a customer cancels,
   a completion commits, a sweep expires a reservation.  Every other step leaves
   them alone, except that the start of a payment inserts its row. *)
LEMMA TableSteps ==
  ASSUME [Next]_vars
  PROVE  \/ \E r \in Resv : \/ \E u \in BOOLEAN : CommitCreate(r, u) /\ UNCHANGED payVars
                            \/ Cancel(r) /\ UNCHANGED payVars
                            \/ CompleteCommit(r)
         \/ \E w \in Sweepers : SweepExpire(w) /\ UNCHANGED payVars
         \/ /\ UNCHANGED <<resv, rows, booked, tickets>>
            /\ UNCHANGED pay \/ \E r \in Resv : StartInsert(r)
<1> USE DEF resvVars, payVars, sweepVars
<1> DEFINE Alone == UNCHANGED <<resv, rows, booked, tickets, pay>>
<1>1. CASE UNCHANGED vars
  BY <1>1 DEF vars
<1>2. ASSUME NEW r \in Resv, CreateStep(r), UNCHANGED payVars
      PROVE  Alone \/ \E u \in BOOLEAN : CommitCreate(r, u)
  BY <1>2 DEF CreateStep, AcquireLocks, AcquireUnanswered, CheckOccupied, InsertSeat, Conflict,
    CreateFails, DeadlockVictim, RollBack, Commit, CommitUnanswered, CreateDies
<1>3. ASSUME NEW r \in Resv, ReservationStep(r), UNCHANGED payVars
      PROVE  Alone \/ Cancel(r) \/ \E u \in BOOLEAN : CommitCreate(r, u)
  BY <1>2, <1>3 DEF ReservationStep, RunRelease, LoseRelease, Elapse
<1>4. ASSUME NEW s \in Seats, LockVanishes(s), UNCHANGED payVars PROVE Alone
  BY <1>4 DEF LockVanishes
<1>5. ASSUME NEW w \in Sweepers, SweepStep(w), UNCHANGED payVars
      PROVE  Alone \/ SweepExpire(w)
  BY <1>5 DEF SweepStep, SweepSelect, SelectFrom, SweepRead, SweepSkip, SweepFails
<1>6. ASSUME NEW r \in Resv, PaymentStep(r), ~CompleteCommit(r)
      PROVE  /\ UNCHANGED <<resv, rows, booked, tickets>>
             /\ UNCHANGED pay \/ StartInsert(r)
  BY <1>6 DEF PaymentStep, StartCheck, StartInsert, StartFails, CompleteDecide, Decide,
    CompleteRollsBack
<1> QED
  BY <1>1, <1>3, <1>4, <1>5, <1>6 DEF Next

(* A sold seat is never released or sold again, and a closed payment never
   changes, in the step of any call, sweep or completion. *)
THEOREM SoldStaysSold == Spec => SoldForGood
<1>1. IInv /\ [Next]_vars =>
        [\A r \in Resv :
           /\ booked[r] \subseteq booked'[r] /\ tickets[r] \subseteq tickets'[r]
           /\ pay[r] \in {"SUCCESS", "FAILED", "TIMEOUT"} => pay'[r] = pay[r]]_vars
  <2> SUFFICES ASSUME IInv, [Next]_vars, NEW r \in Resv
      PROVE  /\ booked[r] \subseteq booked'[r] /\ tickets[r] \subseteq tickets'[r]
             /\ pay[r] \in {"SUCCESS", "FAILED", "TIMEOUT"} => pay'[r] = pay[r]
    OBVIOUS
  <2> USE DEF IInv, TypeOK, ResvTypeOK, PayTypeOK, payVars, RowsMatchState
  <2>1. CASE \E q \in Resv : \E u \in BOOLEAN : CommitCreate(q, u) /\ UNCHANGED payVars
    BY <2>1 DEF CommitCreate
  <2>2. CASE \E q \in Resv : Cancel(q) /\ UNCHANGED payVars
    BY <2>2 DEF Cancel, CancelRow
  <2>3. CASE \E q \in Resv : CompleteCommit(q)
    <3>1. PICK q \in Resv : CompleteCommit(q)
      BY <2>3
    <3>2. pay[q] = "PENDING" /\ booked[q] = {} /\ tickets[q] = {}
      BY <3>1, CommitFacts DEF PaidIffConfirmed
    <3> QED
      BY <3>1, <3>2 DEF CompleteCommit
  <2>4. CASE \E w \in Sweepers : SweepExpire(w) /\ UNCHANGED payVars
    BY <2>4 DEF SweepExpire, ExpireRow
  <2>5. CASE UNCHANGED <<resv, rows, booked, tickets>>
             /\ (UNCHANGED pay \/ \E q \in Resv : StartInsert(q))
    BY <2>5 DEF StartInsert
  <2> QED
    BY <2>1, <2>2, <2>3, <2>4, <2>5, TableSteps
<1> QED
  BY <1>1, Invariance, PTL DEF Spec, SoldForGood

(* A reservation that was cancelled or expired stays so, and stays without
   seats, even when its payment is completed afterwards. *)
THEOREM DeadForGood == Spec => DeadStaysDead
<1>1. IInv /\ [Next]_vars =>
        [\A r \in Resv :
           resv[r] \in {"CANCELLED", "EXPIRED"} =>
             resv'[r] \in {"CANCELLED", "EXPIRED"} /\ rows'[r] = {}]_vars
  <2> SUFFICES ASSUME IInv, [Next]_vars, NEW r \in Resv, resv[r] \in {"CANCELLED", "EXPIRED"}
      PROVE  resv'[r] \in {"CANCELLED", "EXPIRED"} /\ rows'[r] = {}
    OBVIOUS
  <2> USE DEF IInv, TypeOK, ResvTypeOK, PayTypeOK, RowsMatchState
  <2>1. CASE \E q \in Resv : \E u \in BOOLEAN : CommitCreate(q, u) /\ UNCHANGED payVars
    BY <2>1 DEF CommitCreate, ClaimsOK
  <2>2. CASE \E q \in Resv : Cancel(q) /\ UNCHANGED payVars
    BY <2>2 DEF Cancel, CancelRow
  <2>3. CASE \E q \in Resv : CompleteCommit(q)
    <3>1. PICK q \in Resv : CompleteCommit(q)
      BY <2>3
    <3>2. tx[q] \in {"success", "failure", "timeout"}
      BY <3>1 DEF CompleteCommit, Outcomes
    <3>3. tx[q] = "success" => resv[q] = "PENDING"
      BY <3>1, CommitFacts
    <3> QED
      BY <3>1, <3>2, <3>3 DEF CompleteCommit, ReservationStateOf
  <2>4. CASE \E w \in Sweepers : SweepExpire(w) /\ UNCHANGED payVars
    BY <2>4 DEF SweepExpire, ExpireRow
  <2>5. CASE UNCHANGED <<resv, rows, booked, tickets>>
    BY <2>5
  <2> QED
    BY <2>1, <2>2, <2>3, <2>4, <2>5, TableSteps
<1> QED
  BY <1>1, Invariance, PTL DEF Spec, DeadStaysDead

-----------------------------------------------------------------------------
(***************************************************************************)
(* The refinement of SeatInventory, step by step                           *)
(***************************************************************************)

(* The variables of SeatInventory, as Booking maps them. *)
inventoryVars == <<[r \in Resv |-> rows[r] \ booked[r]], booked, {r \in Resv : resv[r] # "Absent"}>>

(* The one commit of a create call holds all its seats. *)
LEMMA CommitHolds ==
  ASSUME IInv, NEW r \in Resv, NEW u \in BOOLEAN, CommitCreate(r, u)
  PROVE  \E S \in SUBSET Seats : Inventory!Hold(r, S)
<1> USE DEF IInv, TypeOK, ResvTypeOK, CommitCreate
<1>1. resv[r] = "Absent" /\ rows[r] = {} /\ booked[r] = {} /\ want[r] # {}
  BY DEF ClaimsOK, RowsMatchState, InAttempt
<1>2. want[r] \subseteq Inventory!Free
  <2> SUFFICES ASSUME NEW s \in want[r], NEW q \in Resv PROVE s \notin rows[q] /\ s \notin booked[q]
    BY DEF Inventory!Free
  <2>1. booked[q] \subseteq rows[q]
    BY DEF RowsMatchState
  <2> QED
    BY <2>1 DEF ClaimsExclusive
<1>3. PICK S \in SUBSET Seats : S = want[r]
  OBVIOUS
<1>4. [q \in Resv |-> rows'[q] \ booked'[q]]
        = [[q \in Resv |-> rows[q] \ booked[q]] EXCEPT ![r] = S]
  BY <1>1, <1>3
<1>5. {q \in Resv : resv'[q] # "Absent"} = {q \in Resv : resv[q] # "Absent"} \cup {r}
  OBVIOUS
<1>6. Inventory!Hold(r, S)
  BY <1>1, <1>2, <1>3, <1>4, <1>5 DEF Inventory!Hold
<1> QED
  BY <1>6

(* A reservation whose rows all go, and none of which was sold, gives back. *)
LEMMA RemovalGivesBack ==
  ASSUME IInv, NEW r \in Resv, resv[r] = "PENDING",
         \A q \in Resv : resv'[q] = "Absent" <=> resv[q] = "Absent",
         rows' = [rows EXCEPT ![r] = {}],
         booked' = [booked EXCEPT ![r] = {}]
  PROVE  Inventory!GiveBack(r)
<1> USE DEF IInv, TypeOK, ResvTypeOK
<1>1. booked[r] = {} /\ rows[r] # {}
  BY DEF RowsMatchState
<1>2. [q \in Resv |-> rows'[q] \ booked'[q]]
        = [[q \in Resv |-> rows[q] \ booked[q]] EXCEPT ![r] = {}]
  OBVIOUS
<1>3. {q \in Resv : resv'[q] # "Absent"} = {q \in Resv : resv[q] # "Absent"}
  OBVIOUS
<1>4. booked' = booked
  BY <1>1
<1> QED
  BY <1>1, <1>2, <1>3, <1>4 DEF Inventory!GiveBack

(* A completion sells the seats of a pending reservation or gives them back;
   of one that was closed before, it changes only which closed state it has. *)
LEMMA CompletionSellsOrGivesBack ==
  ASSUME IInv, NEW r \in Resv, CompleteCommit(r)
  PROVE  Inventory!Sell(r) \/ Inventory!GiveBack(r) \/ UNCHANGED inventoryVars
<1> USE DEF IInv, TypeOK, ResvTypeOK, PayTypeOK
<1>1. tx[r] \in {"success", "failure", "timeout"}
  BY DEF CompleteCommit, Outcomes
<1>2. CASE tx[r] = "success"
  <2>1. resv[r] = "PENDING" /\ rows[r] # {} /\ booked[r] = {}
    BY <1>2, CommitFacts DEF RowsMatchState
  <2>2. /\ rows' = rows /\ booked' = [booked EXCEPT ![r] = rows[r]]
        /\ resv' = [resv EXCEPT ![r] = "CONFIRMED"]
    BY <1>2 DEF CompleteCommit, ReservationStateOf
  <2>3. [q \in Resv |-> rows'[q] \ booked'[q]]
          = [[q \in Resv |-> rows[q] \ booked[q]] EXCEPT ![r] = {}]
    BY <2>1, <2>2
  <2>4. {q \in Resv : resv'[q] # "Absent"} = {q \in Resv : resv[q] # "Absent"}
    BY <2>1, <2>2
  <2>5. rows[r] \ booked[r] = rows[r]
    BY <2>1
  <2> QED
    BY <2>1, <2>2, <2>3, <2>4, <2>5 DEF Inventory!Sell
<1>3. CASE tx[r] # "success"
  <2>1. PICK dead \in {"CANCELLED", "EXPIRED"} : resv' = [resv EXCEPT ![r] = dead]
    BY <1>1, <1>3 DEF CompleteCommit, ReservationStateOf
  <2>2. rows' = [rows EXCEPT ![r] = {}] /\ booked' = [booked EXCEPT ![r] = {}]
    BY <1>3 DEF CompleteCommit
  <2>3. CASE resv[r] = "PENDING"
    <3>1. \A q \in Resv : resv'[q] = "Absent" <=> resv[q] = "Absent"
      BY <2>1, <2>3
    <3> QED
      BY <2>2, <2>3, <3>1, RemovalGivesBack
  <2>4. CASE resv[r] \in {"CANCELLED", "EXPIRED"}
    <3>1. rows[r] = {} /\ booked[r] = {}
      BY <2>4 DEF RowsMatchState
    <3>2. rows' = rows /\ booked' = booked
      BY <2>2, <3>1
    <3>3. {q \in Resv : resv'[q] # "Absent"} = {q \in Resv : resv[q] # "Absent"}
      BY <2>1, <2>4
    <3> QED
      BY <3>2, <3>3 DEF inventoryVars
  <2> QED
    BY <2>3, <2>4, CommitFacts
<1> QED
  BY <1>2, <1>3

(* Every step of Booking is a step of SeatInventory, or leaves it alone. *)
LEMMA StepsRefine ==
  ASSUME IInv, [Next]_vars
  PROVE  [Inventory!Next]_inventoryVars
<1> USE DEF IInv, TypeOK, ResvTypeOK
<1>1. ASSUME NEW r \in Resv, NEW u \in BOOLEAN, CommitCreate(r, u) PROVE Inventory!Next
  <2>1. \E S \in SUBSET Seats : Inventory!Hold(r, S)
    BY <1>1, CommitHolds
  <2> QED
    BY <2>1 DEF Inventory!Next
<1>2. ASSUME NEW r \in Resv, Cancel(r) PROVE Inventory!Next
  <2>1. Inventory!GiveBack(r)
    BY <1>2, RemovalGivesBack DEF Cancel, CancelRow
  <2> QED
    BY <2>1 DEF Inventory!Next
<1>3. ASSUME NEW w \in Sweepers, SweepExpire(w) PROVE Inventory!Next
  <2>1. PICK r \in Resv : r = cur[w] /\ resv[r] = "PENDING" /\ snap[w] = want[r]
    BY <1>3 DEF SweepExpire, SnapshotOK
  <2>2. rows[r] \ snap[w] = {} /\ booked[r] \ snap[w] = {}
    BY <2>1 DEF RowsMatchState
  <2>3. /\ resv' = [resv EXCEPT ![r] = "EXPIRED"]
        /\ rows' = [rows EXCEPT ![r] = {}] /\ booked' = [booked EXCEPT ![r] = {}]
    BY <1>3, <2>1, <2>2 DEF SweepExpire, ExpireRow
  <2>4. \A q \in Resv : resv'[q] = "Absent" <=> resv[q] = "Absent"
    BY <2>1, <2>3
  <2>5. Inventory!GiveBack(r)
    BY <2>1, <2>3, <2>4, RemovalGivesBack
  <2> QED
    BY <2>5 DEF Inventory!Next
<1>4. ASSUME NEW r \in Resv, CompleteCommit(r) PROVE Inventory!Next \/ UNCHANGED inventoryVars
  BY <1>4, CompletionSellsOrGivesBack DEF Inventory!Next
<1>5. UNCHANGED <<resv, rows, booked, tickets>> => UNCHANGED inventoryVars
  BY DEF inventoryVars
<1> QED
  BY <1>1, <1>2, <1>3, <1>4, <1>5, TableSteps

(* The seat rows implement SeatInventory: seats are taken all together, once,
   by one commit, and then sold all together or given back all together. *)
THEOREM Refinement == Spec => SeatsAllOrNothing
<1>1. Init => Inventory!Init
  BY DEF Init, ResvInit, Inventory!Init
<1>2. IInv /\ [Next]_vars => [Inventory!Next]_inventoryVars
  BY StepsRefine
<1> QED
  BY <1>1, <1>2, Invariance, PTL DEF Spec, SeatsAllOrNothing, Inventory!Spec, inventoryVars

-----------------------------------------------------------------------------
(***************************************************************************)
(* The locks of running create calls                                       *)
(***************************************************************************)

(* No release is on its way for a create call that still runs. *)
ReleasesAfterEnd == \A r \in Resv : pc[r] # "ended" => releasing[r] = {}

(* The seats of a reservation are only released when its create call has ended:
   the rows that a cancel, a completion or a sweep finds are committed ones. *)
LEMMA NextReleasesAfterEnd == IInv /\ ReleasesAfterEnd /\ [Next]_vars => ReleasesAfterEnd'
<1> SUFFICES ASSUME IInv, ReleasesAfterEnd, [Next]_vars PROVE ReleasesAfterEnd'
  OBVIOUS
<1> USE DEF ReleasesAfterEnd, IInv, TypeOK, ResvTypeOK, resvVars, ClaimsOK
<1>1. CASE UNCHANGED vars
  BY <1>1 DEF vars
<1>2. ASSUME NEW r \in Resv, CreateStep(r) PROVE ReleasesAfterEnd'
  BY <1>2 DEF CreateStep, AcquireLocks, AcquireUnanswered, CheckOccupied, InsertSeat, Conflict,
    CreateFails, DeadlockVictim, RollBack, Commit, CommitUnanswered, CommitCreate, CreateDies
<1>3. ASSUME NEW r \in Resv, ReservationStep(r) PROVE ReleasesAfterEnd'
  BY <1>2, <1>3 DEF ReservationStep, Cancel, CancelRow, RunRelease, LoseRelease, Elapse
<1>4. ASSUME NEW s \in Seats, LockVanishes(s) PROVE ReleasesAfterEnd'
  BY <1>4 DEF LockVanishes
<1>5. ASSUME NEW w \in Sweepers, SweepStep(w) PROVE ReleasesAfterEnd'
  BY <1>5 DEF SweepStep, SweepSelect, SelectFrom, SweepRead, SweepExpire, ExpireRow, SweepSkip,
    SweepFails
<1>6. ASSUME NEW r \in Resv, PaymentStep(r) PROVE ReleasesAfterEnd'
  <2>1. CASE CompleteCommit(r)
    BY <2>1, CommitFacts DEF CompleteCommit
  <2>2. CASE ~CompleteCommit(r)
    BY <1>6, <2>2 DEF PaymentStep, StartCheck, StartInsert, StartFails, CompleteDecide, Decide,
      CompleteRollsBack
  <2> QED
    BY <2>1, <2>2
<1> QED
  BY <1>1, <1>3, <1>4, <1>5, <1>6 DEF Next

LEMMA ReleasesInvariance == Spec => [](IInv /\ ReleasesAfterEnd)
<1>1. Init => ReleasesAfterEnd
  BY DEF Init, ResvInit, ReleasesAfterEnd
<1> QED
  BY <1>1, InitIInv, NextIInv, NextReleasesAfterEnd, PTL DEF Spec

(* The steps that touch locks: a new call's acquire, a release under way, and
   a key that vanishes. *)
LEMMA LockSteps ==
  ASSUME [Next]_vars
  PROVE  \/ \E r \in Resv : \E S \in SUBSET Seats : pc[r] = "idle" /\ Acquire(S, r)
         \/ \E r \in Resv : RunRelease(r)
         \/ \E s \in Seats : LockVanishes(s)
         \/ UNCHANGED lock
<1> USE DEF resvVars, sweepVars
<1>1. CASE UNCHANGED vars
  BY <1>1 DEF vars
<1>2. ASSUME NEW r \in Resv, CreateStep(r)
      PROVE  \/ \E S \in SUBSET Seats : pc[r] = "idle" /\ Acquire(S, r)
             \/ UNCHANGED lock
  BY <1>2 DEF CreateStep, AcquireLocks, AcquireUnanswered, CheckOccupied, InsertSeat, Conflict,
    CreateFails, DeadlockVictim, RollBack, Commit, CommitUnanswered, CommitCreate, CreateDies
<1>3. ASSUME NEW r \in Resv, ReservationStep(r), ~CreateStep(r)
      PROVE  RunRelease(r) \/ UNCHANGED lock
  BY <1>3 DEF ReservationStep, Cancel, CancelRow, LoseRelease, Elapse
<1>4. ASSUME NEW w \in Sweepers, SweepStep(w) PROVE UNCHANGED lock
  BY <1>4 DEF SweepStep, SweepSelect, SelectFrom, SweepRead, SweepExpire, ExpireRow, SweepSkip,
    SweepFails
<1>5. ASSUME NEW r \in Resv, PaymentStep(r) PROVE UNCHANGED lock
  BY <1>5 DEF PaymentStep, StartCheck, StartInsert, StartFails, CompleteDecide, Decide,
    CompleteCommit, CompleteRollsBack
<1> QED
  BY <1>1, <1>2, <1>3, <1>4, <1>5 DEF Next

(* While a create call runs, nobody takes a lock from it: a late release of
   another reservation, or of this id, and another call's acquire leave its
   locks alone, and only a key that vanishes by itself is lost. *)
THEOREM AttemptKeeps == Spec => AttemptKeepsItsLocks
<1>1. IInv /\ ReleasesAfterEnd /\ [Next]_vars =>
        [\A r \in Resv : InAttempt(r) /\ InAttempt(r)' /\ LockedBy(r)' # LockedBy(r)
           => \E s \in Seats : LockVanishes(s)]_vars
  <2> SUFFICES ASSUME IInv, ReleasesAfterEnd, [Next]_vars, NEW r \in Resv, InAttempt(r),
                      ~ \E s \in Seats : LockVanishes(s)
               PROVE  LockedBy(r)' = LockedBy(r)
    OBVIOUS
  <2> USE DEF LockedBy, IInv, TypeOK, LockTypeOK
  <2>1. r # NoOwner
    BY NoOwnerAssumption
  <2>2. ASSUME NEW q \in Resv, NEW S \in SUBSET Seats, pc[q] = "idle", Acquire(S, q)
        PROVE  LockedBy(r)' = LockedBy(r)
    BY <2>1, <2>2 DEF Acquire, LockAll, InAttempt
  <2>3. ASSUME NEW q \in Resv, RunRelease(q) PROVE LockedBy(r)' = LockedBy(r)
    <3>1. q # r
      BY <2>3 DEF RunRelease, ReleasesAfterEnd, InAttempt
    <3> QED
      BY <2>1, <2>3, <3>1 DEF RunRelease, Release
  <2> QED
    BY <2>2, <2>3, LockSteps
<1> QED
  BY <1>1, ReleasesInvariance, PTL DEF Spec, AttemptKeepsItsLocks

(* The instance with create calls alone is part of Spec, so that AttemptKeeps holds of it. *)
COROLLARY CreateSpecIsSpec == CreateSpec => Spec
<1>1. [CreateNext]_vars => [Next]_vars
  BY DEF CreateNext, Next, ReservationStep
<1> QED
  BY <1>1, PTL DEF CreateSpec, Spec

=============================================================================
