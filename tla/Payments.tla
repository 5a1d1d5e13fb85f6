------------------------------- MODULE Payments -------------------------------
(***************************************************************************)
(* PaymentsController (backend/src/payments.controller.ts) over the tables *)
(* Payment and Ticket.  Payment.reservationId is unique, so the payment of *)
(* reservation r is pay[r].                                                *)
(***************************************************************************)
EXTENDS Reservations, PaymentPolicy

VARIABLES
  pay,      \* pay[r]: Payment.state, "Absent" when there is no row
  starting, \* reservations for which a start call has passed its checks
  tickets   \* tickets[r]: seats of r with a Ticket row

payVars == <<pay, starting, tickets>>

PayStates == {"Absent", "PENDING", "SUCCESS", "FAILED", "TIMEOUT"}

PayTypeOK ==
  /\ pay \in [Resv -> PayStates]
  /\ starting \in SUBSET Resv
  /\ tickets \in [Resv -> SUBSET Seats]
  /\ tx \in [Resv -> Outcomes \cup {"none"}]

PayInit ==
  /\ pay = [r \in Resv |-> "Absent"]
  /\ starting = {}
  /\ tickets = [r \in Resv |-> {}]
  /\ tx = [r \in Resv |-> "none"]

(***************************************************************************)
(* POST /api/payments: the reservation is read and found payable ...       *)
(***************************************************************************)
Payable(r) == resv[r] = "PENDING" /\ FALSE \in ExpiredReadings(r)

StartCheck(r) ==
  /\ Payable(r)
  /\ starting' = starting \cup {r}
  /\ UNCHANGED <<lock, resvVars, sweepVars, tx, pay, tickets>>

(* ... and later, with no lock and no second look, the row is inserted.  The
   INSERT of a second call ends in "duplicate key", and that call answers
   with the row there is. *)
StartInsert(r) ==
  /\ r \in starting
  /\ starting' = starting \ {r}
  /\ pay' = [pay EXCEPT ![r] = IF @ = "Absent" THEN "PENDING" ELSE @]
  /\ UNCHANGED <<lock, resvVars, sweepVars, tx, tickets>>

StartFails(r) ==
  /\ r \in starting
  /\ starting' = starting \ {r}
  /\ UNCHANGED <<lock, resvVars, sweepVars, tx, pay, tickets>>

(***************************************************************************)
(* POST /api/payments/:id/complete.  The transaction locks the payment and *)
(* the reservation, reads the clock and decides.  It looks at the payment  *)
(* and at the seats, not at Reservation.state.  A closed payment is only   *)
(* read back, and a success without seats is refused: stuttering steps.    *)
(***************************************************************************)
Decide(r, requested, sellable) ==
  /\ tx[r] = "none"
  /\ \E expired \in ExpiredReadings(r) :
       LET outcome == EffectiveOutcome(requested, expired) IN
         /\ outcome = "success" => sellable
         /\ tx' = [tx EXCEPT ![r] = outcome]
  /\ UNCHANGED <<lock, resvVars, sweepVars, payVars>>

(* Mutants: no look at the seats; no look at the state of the payment. *)
CompleteDecideSeatless(r, requested) == pay[r] = "PENDING" /\ Decide(r, requested, TRUE)
CompleteDecideReplayed(r, requested) == pay[r] # "Absent" /\ Decide(r, requested, rows[r] # {})

CompleteDecide(r, requested) == pay[r] = "PENDING" /\ Decide(r, requested, rows[r] # {})

CompleteCommit(r) ==
  /\ tx[r] # "none"
  /\ tx' = [tx EXCEPT ![r] = "none"]
  /\ pay' = [pay EXCEPT ![r] = PaymentStateOf(tx[r])]
  /\ resv' = [resv EXCEPT ![r] = ReservationStateOf(tx[r])]
  /\ IF tx[r] = "success"
     THEN /\ booked' = [booked EXCEPT ![r] = rows[r]]
          /\ tickets' = [tickets EXCEPT ![r] = rows[r]]
          /\ UNCHANGED rows
     ELSE /\ rows' = [rows EXCEPT ![r] = {}]
          /\ booked' = [booked EXCEPT ![r] = {}]
          /\ UNCHANGED tickets
  /\ releasing' = [releasing EXCEPT ![r] = @ \cup rows[r]]
  /\ UNCHANGED <<lock, pc, want, claimed, deadline, sweepVars, starting>>

(* An error, or the death of the process, rolls the transaction back. *)
CompleteRollsBack(r) ==
  /\ tx[r] # "none"
  /\ tx' = [tx EXCEPT ![r] = "none"]
  /\ UNCHANGED <<lock, resvVars, sweepVars, payVars>>

=============================================================================
