----------------------------- MODULE Reservations -----------------------------
(***************************************************************************)
(* ReservationsController and ExpiryService                                *)
(* (backend/src/reservations.controller.ts) over the PostgreSQL tables     *)
(* Reservation and ReservationSeat and the Redis locks.                    *)
(*                                                                         *)
(* Every member of Resv is the id of one create call.  PostgreSQL runs at  *)
(* READ COMMITTED: a SELECT sees committed rows only, an INSERT of a seat  *)
(* whose unique (eventId, seatId) entry is written by an open transaction  *)
(* waits for it, and a FOR UPDATE row lock is held to the end of its       *)
(* transaction.                                                            *)
(*                                                                         *)
(* What a caller is refused (404, 403, 409 before any write) leaves every  *)
(* variable as it is, and is a stuttering step.                            *)
(***************************************************************************)
EXTENDS SeatLocks, FiniteSets, Naturals

CONSTANTS
  Sweepers,  \* the replicas of the backend; each runs ExpiryService
  Nobody,    \* no reservation is being expired
  Batch      \* take(100) of the expiry query

ASSUME ReservationsAssumption ==
  /\ Nobody \notin Resv
  /\ Batch \in Nat \ {0}

VARIABLES
  pc,        \* pc[r]: where the create call of r is
  want,      \* want[r]: body.seatIds of the create call
  claimed,   \* claimed[r]: seats its open transaction has inserted so far
  resv,      \* resv[r]: Reservation.state, "Absent" before the row is committed
  deadline,  \* deadline[r]: what the replicas' clocks say of expiresAt
  rows,      \* rows[r]: seats with a committed ReservationSeat row of r
  booked,    \* booked[r]: those of them in state BOOKED
  releasing, \* releasing[r]: seats whose release(...) call for r is still to run
  tx,        \* tx[r]: outcome decided by an open completeTransaction, or "none"
  stale,     \* stale[w]: rest of the batch that replica w's sweep selected
  cur,       \* cur[w]: the reservation that the sweep is at
  snap       \* snap[w]: its seats as read before the transaction

resvVars  == <<pc, want, claimed, resv, deadline, rows, booked, releasing>>
sweepVars == <<stale, cur, snap>>

States == {"Absent", "PENDING", "CONFIRMED", "CANCELLED", "EXPIRED"}

ResvTypeOK ==
  /\ pc \in [Resv -> {"idle", "locked", "inserting", "ended"}]
  /\ want \in [Resv -> SUBSET Seats]
  /\ claimed \in [Resv -> SUBSET Seats]
  /\ resv \in [Resv -> States]
  /\ deadline \in [Resv -> {"ahead", "near", "passed"}]
  /\ rows \in [Resv -> SUBSET Seats]
  /\ booked \in [Resv -> SUBSET Seats]
  /\ releasing \in [Resv -> SUBSET Seats]
  /\ stale \in [Sweepers -> SUBSET Resv]
  /\ cur \in [Sweepers -> Resv \cup {Nobody}]
  /\ snap \in [Sweepers -> SUBSET Seats]

ResvInit ==
  /\ pc = [r \in Resv |-> "idle"]
  /\ want = [r \in Resv |-> {}]
  /\ claimed = [r \in Resv |-> {}]
  /\ resv = [r \in Resv |-> "Absent"]
  /\ deadline = [r \in Resv |-> "ahead"]
  /\ rows = [r \in Resv |-> {}]
  /\ booked = [r \in Resv |-> {}]
  /\ releasing = [r \in Resv |-> {}]
  /\ stale = [w \in Sweepers |-> {}]
  /\ cur = [w \in Sweepers |-> Nobody]
  /\ snap = [w \in Sweepers |-> {}]

InAttempt(r) == pc[r] \in {"locked", "inserting"}

(* The values that "expiresAt <= new Date()" can have on some replica: they
   read clocks of their own, which disagree while the deadline is near. *)
ExpiredReadings(r) ==
  CASE deadline[r] = "ahead"  -> {FALSE}
    [] deadline[r] = "near"   -> {FALSE, TRUE}
    [] deadline[r] = "passed" -> {TRUE}

Taken == UNION {rows[r] : r \in Resv}

(***************************************************************************)
(* POST /api/reservations                                                  *)
(***************************************************************************)

(* The locks are acquired; the transaction has not begun. *)
AcquireLocks(r, S) ==
  /\ pc[r] = "idle"
  /\ Acquire(S, r)
  /\ pc' = [pc EXCEPT ![r] = "locked"]
  /\ want' = [want EXCEPT ![r] = S]
  /\ UNCHANGED <<claimed, resv, deadline, rows, booked, releasing, tx, sweepVars>>

(* The script ran but its answer did not arrive: acquire throws, and as the
   call stands before the try block nothing releases what it locked. *)
AcquireUnanswered(r, S) ==
  /\ pc[r] = "idle"
  /\ Acquire(S, r)
  /\ pc' = [pc EXCEPT ![r] = "ended"]
  /\ UNCHANGED <<want, claimed, resv, deadline, rows, booked, releasing, tx, sweepVars>>

(* The SELECT of occupied seats finds none. *)
CheckOccupied(r) ==
  /\ pc[r] = "locked"
  /\ want[r] \cap Taken = {}
  /\ pc' = [pc EXCEPT ![r] = "inserting"]
  /\ UNCHANGED <<lock, want, claimed, resv, deadline, rows, booked, releasing, tx, sweepVars>>

(* Mutant: no unique index on (eventId, seatId). *)
InsertSeatUnindexed(r, s) ==
  /\ pc[r] = "inserting"
  /\ s \in want[r] \ claimed[r]
  /\ claimed' = [claimed EXCEPT ![r] = @ \cup {s}]
  /\ UNCHANGED <<lock, pc, want, resv, deadline, rows, booked, releasing, tx, sweepVars>>

(* The INSERT of the ReservationSeat rows reaches seat s, whose index entry
   is neither committed nor claimed by another open transaction. *)
InsertSeat(r, s) ==
  /\ pc[r] = "inserting"
  /\ s \in want[r] \ claimed[r]
  /\ s \notin Taken
  /\ \A q \in Resv \ {r} : s \notin claimed[q]
  /\ claimed' = [claimed EXCEPT ![r] = @ \cup {s}]
  /\ UNCHANGED <<lock, pc, want, resv, deadline, rows, booked, releasing, tx, sweepVars>>

(* The transaction rolls back and the catch block is about to release. *)
RollBack(r) ==
  /\ pc' = [pc EXCEPT ![r] = "ended"]
  /\ claimed' = [claimed EXCEPT ![r] = {}]
  /\ releasing' = [releasing EXCEPT ![r] = want[r]]
  /\ UNCHANGED <<lock, want, resv, deadline, rows, booked, tx, sweepVars>>

(* Some wanted seat is committed to another reservation: the SELECT finds it,
   or the INSERT fails with "duplicate key". *)
Conflict(r) ==
  /\ InAttempt(r)
  /\ (want[r] \ claimed[r]) \cap Taken # {}
  /\ RollBack(r)

(* Any other error of the transaction: lost connection, statement error. *)
CreateFails(r) == InAttempt(r) /\ RollBack(r)

(* r is one of a set of transactions each of which must still insert a seat
   that another of them has claimed: none of them can ever commit.
   PostgreSQL's deadlock detection makes one of them fail. *)
InDeadlock(r) ==
  \E D \in SUBSET Resv :
    /\ r \in D
    /\ \A x \in D : /\ pc[x] = "inserting"
                    /\ \E y \in D \ {x} : (want[x] \ claimed[x]) \cap claimed[y] # {}

DeadlockVictim(r) == InDeadlock(r) /\ RollBack(r)

CommitCreate(r, unanswered) ==
  /\ pc[r] = "inserting"
  /\ claimed[r] = want[r]
  /\ pc' = [pc EXCEPT ![r] = "ended"]
  /\ claimed' = [claimed EXCEPT ![r] = {}]
  /\ resv' = [resv EXCEPT ![r] = "PENDING"]
  /\ rows' = [rows EXCEPT ![r] = want[r]]
  /\ releasing' = [releasing EXCEPT ![r] = IF unanswered THEN want[r] ELSE {}]
  /\ UNCHANGED <<lock, want, deadline, booked, tx, sweepVars>>

(* COMMIT succeeds and the call answers. *)
Commit(r) == CommitCreate(r, FALSE)

(* COMMIT took effect but its answer was lost: the catch block releases the
   locks of a reservation that exists. *)
CommitUnanswered(r) == CommitCreate(r, TRUE)

(* The process dies during the call: the open transaction rolls back and
   nothing releases the locks. *)
CreateDies(r) ==
  /\ InAttempt(r)
  /\ pc' = [pc EXCEPT ![r] = "ended"]
  /\ claimed' = [claimed EXCEPT ![r] = {}]
  /\ UNCHANGED <<lock, want, resv, deadline, rows, booked, releasing, tx, sweepVars>>

(***************************************************************************)
(* POST /api/reservations/:id/cancel.  The transaction reads and writes    *)
(* under the FOR UPDATE lock of the reservation, so it is one step; it     *)
(* waits for a completion that holds that lock.  The payment is not looked *)
(* at.                                                                     *)
(***************************************************************************)
CancelRow(r) ==
  /\ resv[r] = "PENDING"
  /\ resv' = [resv EXCEPT ![r] = "CANCELLED"]
  /\ rows' = [rows EXCEPT ![r] = {}]
  /\ booked' = [booked EXCEPT ![r] = {}]
  /\ releasing' = [releasing EXCEPT ![r] = @ \cup rows[r]]
  /\ UNCHANGED <<lock, pc, want, claimed, deadline, tx, sweepVars>>

(* Mutant: the reservation is read without FOR UPDATE. *)
CancelUnlocked(r) == CancelRow(r)

Cancel(r) == tx[r] = "none" /\ CancelRow(r)

(***************************************************************************)
(* LockService.release after a transaction has ended.  The call is late    *)
(* by as much as the network likes; or it never runs, when Redis refuses   *)
(* it (the error is only logged) or the process dies first.                *)
(***************************************************************************)
RunRelease(r) ==
  /\ releasing[r] # {}
  /\ Release(releasing[r], r)
  /\ releasing' = [releasing EXCEPT ![r] = {}]
  /\ UNCHANGED <<pc, want, claimed, resv, deadline, rows, booked, tx, sweepVars>>

LoseRelease(r) ==
  /\ releasing[r] # {}
  /\ releasing' = [releasing EXCEPT ![r] = {}]
  /\ UNCHANGED <<lock, pc, want, claimed, resv, deadline, rows, booked, tx, sweepVars>>

LockVanishes(s) ==
  /\ Vanish(s)
  /\ UNCHANGED <<resvVars, tx, sweepVars>>

(***************************************************************************)
(* ExpiryService.  Time passes; a sweep selects a batch, then for each     *)
(* reservation reads the seats, and only then opens the transaction that   *)
(* expires it.                                                             *)
(***************************************************************************)
Elapse(r) ==
  /\ resv[r] # "Absent"
  /\ deadline[r] # "passed"
  /\ deadline' = [deadline EXCEPT ![r] = IF @ = "ahead" THEN "near" ELSE "passed"]
  /\ UNCHANGED <<lock, pc, want, claimed, resv, rows, booked, releasing, tx, sweepVars>>

Overdue(r) == resv[r] = "PENDING" /\ deadline[r] = "passed"

SelectFrom(w, Candidates) ==
  /\ stale[w] = {} /\ cur[w] = Nobody
  /\ \E B \in SUBSET Candidates :
       /\ Cardinality(B) <= Batch
       /\ Cardinality(B) = Batch \/ {r \in Resv : Overdue(r)} \subseteq B
       /\ stale' = [stale EXCEPT ![w] = B]
  /\ UNCHANGED <<lock, resvVars, tx, cur, snap>>

SeenExpired(r) == resv[r] # "Absent" /\ TRUE \in ExpiredReadings(r)

(* Mutant: the query does not ask for the state. *)
SweepSelectAllStates(w) == SelectFrom(w, {r \in Resv : SeenExpired(r)})

(* One SELECT with take(100): all that the replica's clock calls stale, or a
   full batch of them in no order.  runSweep starts it only when the
   previous sweep of this replica is over. *)
SweepSelect(w) == SelectFrom(w, {r \in Resv : SeenExpired(r) /\ resv[r] = "PENDING"})

SweepRead(w) ==
  /\ cur[w] = Nobody
  /\ \E r \in stale[w] :
       /\ cur' = [cur EXCEPT ![w] = r]
       /\ snap' = [snap EXCEPT ![w] = rows[r]]
       /\ stale' = [stale EXCEPT ![w] = @ \ {r}]
  /\ UNCHANGED <<lock, resvVars, tx>>

NextInBatch(w) ==
  /\ cur' = [cur EXCEPT ![w] = Nobody]
  /\ snap' = [snap EXCEPT ![w] = {}]
  /\ UNCHANGED stale

ExpireRow(w, r) ==
  /\ tx[r] = "none"
  /\ resv' = [resv EXCEPT ![r] = "EXPIRED"]
  /\ rows' = [rows EXCEPT ![r] = @ \ snap[w]]
  /\ booked' = [booked EXCEPT ![r] = @ \ snap[w]]
  /\ releasing' = [releasing EXCEPT ![r] = @ \cup snap[w]]
  /\ NextInBatch(w)
  /\ UNCHANGED <<lock, pc, want, claimed, deadline, tx>>

(* UPDATE ... WHERE state = PENDING, which waits for the row lock of an open
   completion, affects the row; the seats read before are deleted. *)
SweepExpire(w) ==
  /\ cur[w] # Nobody
  /\ resv[cur[w]] = "PENDING"
  /\ ExpireRow(w, cur[w])

(* Mutant: the seats are removed whether or not the UPDATE affected a row. *)
SweepSkipDeletes(w) ==
  /\ cur[w] # Nobody
  /\ tx[cur[w]] = "none"
  /\ resv[cur[w]] # "PENDING"
  /\ rows' = [rows EXCEPT ![cur[w]] = @ \ snap[w]]
  /\ booked' = [booked EXCEPT ![cur[w]] = @ \ snap[w]]
  /\ NextInBatch(w)
  /\ UNCHANGED <<lock, pc, want, claimed, resv, deadline, releasing, tx>>

(* It affects nothing: somebody closed the reservation first. *)
SweepSkip(w) ==
  /\ cur[w] # Nobody
  /\ tx[cur[w]] = "none"
  /\ resv[cur[w]] # "PENDING"
  /\ NextInBatch(w)
  /\ UNCHANGED <<lock, resvVars, tx>>

(* An error ends the whole sweep, or the replica restarts. *)
SweepFails(w) ==
  /\ stale[w] # {} \/ cur[w] # Nobody
  /\ stale' = [stale EXCEPT ![w] = {}]
  /\ cur' = [cur EXCEPT ![w] = Nobody]
  /\ snap' = [snap EXCEPT ![w] = {}]
  /\ UNCHANGED <<lock, resvVars, tx>>

=============================================================================
