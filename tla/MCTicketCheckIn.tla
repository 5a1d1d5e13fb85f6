---------------------------- MODULE MCTicketCheckIn ----------------------------
(* Values for checking TicketCheckIn with TLC. *)
EXTENDS TicketCheckIn, TLC

Symmetry == Permutations(Users) \cup Permutations(Devices) \cup Permutations(Tickets)

=============================================================================
