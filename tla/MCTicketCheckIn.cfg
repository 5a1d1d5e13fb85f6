CONSTANTS
  Users = {u1, u2}
  Devices = {g1, g2}
  Tickets = {t1}
  NoClaims = NoClaims
  NoTicket = NoTicket
  Hour = 2
SPECIFICATION Spec
SYMMETRY Symmetry
INVARIANTS TypeOK
PROPERTIES UsedUpForGood RightsEndInTime
