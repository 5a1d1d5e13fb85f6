----------------------------- MODULE MCEventPage -----------------------------
(* Values for checking EventPage with TLC. *)
EXTENDS EventPage

=============================================================================
