SPECIFICATION Spec
CONSTANTS
  MaxBatch = 2
  MaxReplies = 3
CHECK_DEADLOCK FALSE
INVARIANTS CleanClose
