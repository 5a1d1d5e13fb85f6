CONSTANTS
  Calls = {c1, c2, c3}
  Users = {u1, u2}
  Resv = {r1, r2}
  Keys = {k1, k2}
  NoKey = NoKey
  NoResv = NoResv
SPECIFICATION Spec
CHECK_DEADLOCK FALSE
SYMMETRY Symmetry
INVARIANTS AnswerIsOwn OnePaymentPerKey
