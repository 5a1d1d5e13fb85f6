---------------------------- MODULE PaymentPolicy ----------------------------
(***************************************************************************)
(* determinePaymentTransition (backend/src/payment-policy.ts): what the    *)
(* outcome that the client reports, and the clock, make of a payment and   *)
(* of its reservation.                                                     *)
(***************************************************************************)

Outcomes == {"success", "failure", "timeout"}

(* A payment completed after the deadline is a timeout, whatever the client says. *)
EffectiveOutcome(requested, expired) == IF expired THEN "timeout" ELSE requested

PaymentStateOf(outcome) ==
  CASE outcome = "success" -> "SUCCESS"
    [] outcome = "timeout" -> "TIMEOUT"
    [] outcome = "failure" -> "FAILED"

ReservationStateOf(outcome) ==
  CASE outcome = "success" -> "CONFIRMED"
    [] outcome = "timeout" -> "EXPIRED"
    [] outcome = "failure" -> "CANCELLED"

=============================================================================
