CONSTANTS
  w1 = w1
  w2 = w2
  Workers = {w1, w2}
  nMap = 3
  nReduce = 3
  Mortal = {w1}
  Limit = 3
  Process = TRUE
SPECIFICATION FairSpec
INVARIANTS TypeOK JobsConserved ReduceReadsAll OutputComplete
PROPERTY Finishes
CHECK_DEADLOCK FALSE
