SPECIFICATION BotFairSpec
CONSTANTS
  HalfRange = 2
  Alice = Alice
  Engineer = Engineer
  Everyone = Everyone
  Ids = {Alice}
  Names = {Engineer}
  Blacklist = {}
  MaxTime = 2
  Estimates = {1}
  Words = {"start", "stop"}
  MaxBatch = 2
CHECK_DEADLOCK FALSE
INVARIANTS JoinInfoIsStored
PROPERTIES ImplementsGoroutines VoteIsReported
