CONSTANTS
  w1 = w1
  w2 = w2
  Workers = {w1, w2}
  nMap = 1
  nReduce = 2
  Mortal = {w1}
  Limit = 2
  Process = FALSE
SPECIFICATION FairSpec
PROPERTY DoneDespiteFailure
CHECK_DEADLOCK FALSE
