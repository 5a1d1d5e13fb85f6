CONSTANTS
  r1 = r1
  r2 = r2
  r3 = r3
  s1 = s1
  s2 = s2
  s3 = s3
  w1 = w1
  w2 = w2
  NoOwner = NoOwner
  Nobody = Nobody
  Resv <- Resv3
  Seats <- Seats2
  Sweepers <- Sweepers1
  Batch = 1
SPECIFICATION CreateSpec
PROPERTIES CreateEnds AttemptKeepsItsLocks
CHECK_DEADLOCK FALSE
