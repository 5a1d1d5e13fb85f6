---------------------------- MODULE MCWaitingRoom ----------------------------
(* Values for checking WaitingRoom with TLC. *)
EXTENDS WaitingRoom

CONSTANTS u1, u2, j1, j2, j3

(* One user makes two of the calls. *)
TwiceOnce == [j \in {j1, j2, j3} |-> IF j = j3 THEN u2 ELSE u1]

=============================================================================
