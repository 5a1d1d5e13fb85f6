------------------------------ MODULE MCBooking ------------------------------
(* Values for checking Booking with TLC. *)
EXTENDS Booking, TLC

CONSTANTS r1, r2, r3, s1, s2, s3, w1, w2

Resv2 == {r1, r2}
Resv3 == {r1, r2, r3}
Seats1 == {s1}
Seats2 == {s1, s2}
Seats3 == {s1, s2, s3}
Sweepers1 == {w1}
Sweepers2 == {w1, w2}

(* Two pending reservations, each of one seat.  Symmetry is not sound with
   liveness, so it is fixed which seat is whose. *)
OneEach == PendingInit /\ want = (r1 :> {s1} @@ r2 :> {s2})

PendingOneEach == OneEach /\ [][Next]_vars /\ SweepFairness

Symmetry == Permutations(Resv) \cup Permutations(Seats) \cup Permutations(Sweepers)

=============================================================================
