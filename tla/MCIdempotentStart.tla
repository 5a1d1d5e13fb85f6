-------------------------- MODULE MCIdempotentStart --------------------------
(* Values for checking IdempotentStart with TLC. *)
EXTENDS IdempotentStart, TLC

Symmetry ==
  Permutations(Calls) \cup Permutations(Users) \cup Permutations(Resv) \cup Permutations(Keys)

=============================================================================
