--------------------------- MODULE MCNotifications ---------------------------
(* Values for checking Notifications with TLC. *)
EXTENDS Notifications, TLC

Symmetry == Permutations(Procs) \cup Permutations(Events)

=============================================================================
