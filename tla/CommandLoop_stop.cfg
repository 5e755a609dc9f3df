SPECIFICATION Spec
CONSTANTS
  HalfRange = 8
  Alice = Alice
  Bob = Bob
  Engineer = Engineer
  Manager = Manager
  Everyone = Everyone
  Ids = {Alice}
  Names = {Engineer, Manager}
  Blacklist = {Manager}
  MaxTime = 2
  Estimates = {1}
INVARIANTS StoppedMeansClosed
