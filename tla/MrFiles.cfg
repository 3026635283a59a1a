CONSTANTS
  nMap = 3
  nReduce = 2
  Keys = {1, 2}
  MaxLines = 6
SPECIFICATION Spec
INVARIANTS Result SplitBound
CHECK_DEADLOCK FALSE
