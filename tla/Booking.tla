------------------------------- MODULE Booking -------------------------------
(***************************************************************************)
(* The reservation core as one system: the create, cancel and payment      *)
(* requests of any number of customers on any number of replicas, the      *)
(* expiry sweeps, the Redis locks and the clocks.                          *)
(***************************************************************************)
EXTENDS Payments

vars == <<lock, resvVars, sweepVars, tx, payVars>>

Init == LockInit /\ ResvInit /\ PayInit

CreateStep(r) ==
  \/ \E S \in (SUBSET Seats) \ {{}} : AcquireLocks(r, S)
  \/ \E S \in (SUBSET Seats) \ {{}} : AcquireUnanswered(r, S)
  \/ CheckOccupied(r)
  \/ \E s \in Seats : InsertSeat(r, s)
  \/ Conflict(r)
  \/ CreateFails(r)
  \/ DeadlockVictim(r)
  \/ Commit(r)
  \/ CommitUnanswered(r)
  \/ CreateDies(r)

ReservationStep(r) ==
  \/ CreateStep(r) \/ Cancel(r)
  \/ RunRelease(r) \/ LoseRelease(r) \/ Elapse(r)

SweepStep(w) ==
  \/ SweepSelect(w) \/ SweepRead(w) \/ SweepExpire(w)
  \/ SweepSkip(w) \/ SweepFails(w)

PaymentStep(r) ==
  \/ StartCheck(r) \/ StartInsert(r) \/ StartFails(r)
  \/ \E o \in Outcomes : CompleteDecide(r, o)
  \/ CompleteCommit(r) \/ CompleteRollsBack(r)

Next ==
  \/ \E r \in Resv : ReservationStep(r) /\ UNCHANGED payVars
  \/ \E s \in Seats : LockVanishes(s) /\ UNCHANGED payVars
  \/ \E w \in Sweepers : SweepStep(w) /\ UNCHANGED payVars
  \/ \E r \in Resv : PaymentStep(r)

Spec == Init /\ [][Next]_vars

(***************************************************************************)
(* The create calls alone, for instances with more of them.                *)
(***************************************************************************)
CreateNext ==
  \/ \E r \in Resv : (CreateStep(r) \/ RunRelease(r) \/ LoseRelease(r)) /\ UNCHANGED payVars
  \/ \E s \in Seats : LockVanishes(s) /\ UNCHANGED payVars

(* A running call goes on, the database answers it, PostgreSQL resolves
   deadlocks, and the time of a key (PSETEX) runs out.  Nothing is assumed of
   failures or of the calls that release. *)
CreateFairness ==
  /\ \A r \in Resv : WF_vars(/\ \/ CheckOccupied(r) \/ \E s \in Seats : InsertSeat(r, s)
                                 \/ Conflict(r) \/ DeadlockVictim(r) \/ Commit(r)
                              /\ UNCHANGED payVars)
  /\ \A s \in Seats : WF_vars(LockVanishes(s) /\ UNCHANGED payVars)

CreateSpec == Init /\ [][CreateNext]_vars /\ CreateFairness

(***************************************************************************)
(* The life of reservations that exist: every create call has committed,   *)
(* each reservation with seats of its own; the locks, which nothing in     *)
(* this part of the system looks at, have run out.                         *)
(***************************************************************************)
PendingInit ==
  /\ PayInit
  /\ want \in [Resv -> (SUBSET Seats) \ {{}}]
  /\ \A q, r \in Resv : q # r => want[q] \cap want[r] = {}
  /\ LockInit
  /\ pc = [r \in Resv |-> "ended"]
  /\ claimed = [r \in Resv |-> {}]
  /\ resv = [r \in Resv |-> "PENDING"]
  /\ deadline = [r \in Resv |-> "ahead"]
  /\ rows = want
  /\ booked = [r \in Resv |-> {}]
  /\ releasing = [r \in Resv |-> {}]
  /\ stale = [w \in Sweepers |-> {}]
  /\ cur = [w \in Sweepers |-> Nobody]
  /\ snap = [w \in Sweepers |-> {}]

(* An open transaction ends, and releases its row to the sweep that waits for
   it.  The timer of a replica starts sweeps for ever, and from some time on
   they do not break off (skipping the last of a batch looks the same as
   breaking off, and is allowed).  Clients may complete and roll back for ever. *)
SweepFairness ==
  /\ \A r \in Resv : WF_vars(CompleteCommit(r) \/ CompleteRollsBack(r))
  /\ \A w \in Sweepers :
       /\ WF_vars((SweepSelect(w) \/ SweepRead(w)) /\ UNCHANGED payVars)
       /\ SF_vars((SweepExpire(w) \/ SweepSkip(w)) /\ UNCHANGED payVars)
       /\ <>[][SweepFails(w) => SweepSkip(w)]_vars

TypeOK == LockTypeOK /\ ResvTypeOK /\ PayTypeOK

(***************************************************************************)
(* Safety                                                                  *)
(***************************************************************************)

(* No seat is in the ReservationSeat rows of two reservations, whatever the
   locks do: lost keys, late releases, two create calls between SELECT and
   INSERT (docs/product/vision.md, first guarantee). *)
NoDoubleBooking ==
  \A q, r \in Resv : q # r => rows[q] \cap rows[r] = {}

(* The seat rows say what Reservation.state says: a pending reservation holds
   all and only the seats it asked for, none of them sold; a confirmed one has
   sold them all; a closed or rolled-back one holds nothing. *)
RowsMatchState ==
  \A r \in Resv :
    CASE resv[r] = "PENDING"   -> rows[r] = want[r] /\ rows[r] # {} /\ booked[r] = {}
      [] resv[r] = "CONFIRMED" -> rows[r] = want[r] /\ rows[r] # {} /\ booked[r] = rows[r]
      [] OTHER                 -> rows[r] = {} /\ booked[r] = {}

(* Money, reservation and tickets agree: a payment succeeded iff its
   reservation is confirmed, and then there is a ticket for each of its seats;
   otherwise there is none (completeTransaction against cancel and expire). *)
PaidIffConfirmed ==
  \A r \in Resv :
    /\ pay[r] = "SUCCESS" <=> resv[r] = "CONFIRMED"
    /\ tickets[r] = IF resv[r] = "CONFIRMED" THEN want[r] ELSE {}

(* While an outcome is decided but not committed, what it was decided on stays
   as it was: the payment is open, and a success still has all its seats. *)
DecisionStaysValid ==
  \A r \in Resv : tx[r] # "none" =>
    /\ pay[r] = "PENDING"
    /\ tx[r] = "success" => resv[r] = "PENDING" /\ rows[r] = want[r]

(***************************************************************************)
(* What a step may never do                                                *)
(***************************************************************************)

(* A late release, sent for a reservation that ended long ago, does not remove
   the lock of a create call that is running now (the owner check of
   RELEASE_SCRIPT), and neither does another create call: from the acquire to
   the end of a call its locks stay, unless a key vanishes by itself. *)
AttemptKeepsItsLocks ==
  [][\A r \in Resv : InAttempt(r) /\ InAttempt(r)' /\ LockedBy(r)' # LockedBy(r)
       => \E s \in Seats : LockVanishes(s)]_vars

(* A sold seat is never released or sold again, and a closed payment never
   changes (vision.md: "treats a completed payment as immutable"), although a
   cancel, a sweep or another completion may be under way. *)
SoldForGood ==
  [][\A r \in Resv :
       /\ booked[r] \subseteq booked'[r] /\ tickets[r] \subseteq tickets'[r]
       /\ pay[r] \in {"SUCCESS", "FAILED", "TIMEOUT"} => pay'[r] = pay[r]]_vars

(* A reservation that was cancelled or expired never comes back, and never gets
   a seat again, although its payment may still be open (and then moves it once
   more between the two closed states). *)
DeadStaysDead ==
  [][\A r \in Resv :
       resv[r] \in {"CANCELLED", "EXPIRED"} =>
         resv'[r] \in {"CANCELLED", "EXPIRED"} /\ rows'[r] = {}]_vars

(***************************************************************************)
(* What must happen                                                        *)
(***************************************************************************)

(* Every create call that got its locks comes to an end and leaves no key behind
   for good, though other calls insert the same seats in the opposite order, and
   though nothing releases the keys when the answer of acquire is lost, when a
   process dies or when Redis refuses the release. *)
CreateEnds ==
  \A r \in Resv : InAttempt(r) \/ LockedBy(r) # {} ~> pc[r] = "ended" /\ LockedBy(r) = {}

(* A reservation that is past its deadline does not stay pending, although a
   sweep takes at most Batch reservations, in no order, and may break off. *)
OverdueCloses == \A r \in Resv : Overdue(r) ~> resv[r] # "PENDING"

(***************************************************************************)
(* Refinement                                                              *)
(***************************************************************************)
Inventory == INSTANCE SeatInventory WITH
  held <- [r \in Resv |-> rows[r] \ booked[r]],
  sold <- booked,
  used <- {r \in Resv : resv[r] # "Absent"}

(* The seat rows behave as SeatInventory says: seats are taken all together by
   the one commit of a create call, sold all together, or given back all
   together, and nothing a payment, a cancel or a sweep does is more than that. *)
SeatsAllOrNothing == Inventory!Spec

=============================================================================
