----------------------------- MODULE SeatInventory -----------------------------
(***************************************************************************)
(* What the booking core promises, without locks, transactions, sweeps or  *)
(* payments: a reservation takes all the seats it asks for or none, once   *)
(* only; it then sells them all, for good, or gives them all back.         *)
(***************************************************************************)
CONSTANTS Seats, Resv

VARIABLES held,  \* held[r]: seats that r holds and has not bought
          sold,  \* sold[r]: seats that r has bought
          used   \* reservations that have taken their seats, now or before

Init ==
  /\ held = [r \in Resv |-> {}]
  /\ sold = [r \in Resv |-> {}]
  /\ used = {}

Free == Seats \ UNION {held[r] \cup sold[r] : r \in Resv}

Hold(r, S) ==
  /\ r \notin used
  /\ S # {} /\ S \subseteq Free
  /\ held' = [held EXCEPT ![r] = S]
  /\ used' = used \cup {r}
  /\ UNCHANGED sold

Sell(r) ==
  /\ held[r] # {}
  /\ sold' = [sold EXCEPT ![r] = held[r]]
  /\ held' = [held EXCEPT ![r] = {}]
  /\ UNCHANGED used

GiveBack(r) ==
  /\ held[r] # {}
  /\ held' = [held EXCEPT ![r] = {}]
  /\ UNCHANGED <<sold, used>>

Next ==
  \E r \in Resv : (\E S \in SUBSET Seats : Hold(r, S)) \/ Sell(r) \/ GiveBack(r)

Spec == Init /\ [][Next]_<<held, sold, used>>

=============================================================================
