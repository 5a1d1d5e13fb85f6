CONSTANTS
  Calls = {c1, c2, c3, c4}
  NoCall = NoCall
SPECIFICATION Spec
SYMMETRY Symmetry
INVARIANTS TypeOK ToldPaidHolds ToldReleasedHolds
PROPERTIES PaidRetryAnswered
