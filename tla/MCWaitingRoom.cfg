CONSTANTS
  u1 = u1
  u2 = u2
  j1 = j1
  j2 = j2
  j3 = j3
  Users = {u1, u2}
  Joins = {j1, j2, j3}
  By <- TwiceOnce
  Admins = {a1, a2}
  NoToken = NoToken
  NoEntry = NoEntry
  Capacity = 1
  MaxCount = 2
  MaxLosses = 1
SPECIFICATION Spec
INVARIANTS TypeOK PlacesDistinct CapacityKept
PROPERTIES AdmittedInOrder QueueServed TokenLivesItsTime PlaceKept
