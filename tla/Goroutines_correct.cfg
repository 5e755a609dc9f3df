SPECIFICATION FairSpec
CONSTANTS
  MaxBatch = 2
  MaxReplies = 3
CHECK_DEADLOCK FALSE
INVARIANTS TypeOK QuietDisconnect
PROPERTIES WaitIsForGood ReplyForwarded DisconnectEnds InterruptEnds
