CONSTANTS
  Seats = {s1}
  MaxFlows = 2
  MaxLogins = 2
  MaxAsks = 2
  MaxHistory = 2
SPECIFICATION Spec
INVARIANTS FlowsOfThePage
PROPERTIES ResumedOnce GoodSessionStays BusyEnds
