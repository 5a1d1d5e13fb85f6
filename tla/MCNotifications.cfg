CONSTANTS
  Procs = {p1, p2, p3}
  Events = {e1}
  Nobody = Nobody
  MaxNotes = 2
  MayDie = TRUE
  LinkBreaks = TRUE
SPECIFICATION FairSpec
INVARIANTS AckedIsRecorded
PROPERTIES EventsAreSettled
