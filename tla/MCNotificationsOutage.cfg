CONSTANTS
  Procs = {p1}
  Events = {e1, e2}
  Nobody = Nobody
  MaxNotes = 2
  MayDie = FALSE
  LinkBreaks = TRUE
SPECIFICATION Spec
INVARIANTS OutagesSpareTransactions
