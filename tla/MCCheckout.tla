------------------------------ MODULE MCCheckout ------------------------------
(* Values for checking Checkout with TLC. *)
EXTENDS Checkout, TLC

Symmetry == Permutations(Calls)

=============================================================================
