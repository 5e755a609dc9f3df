SPECIFICATION Spec
CONSTANTS
  HalfRange = 128
  People = {p1, p2, p3}
  VoteRange = {0, 1, 2, 5}
INVARIANTS SkippersDoNotDecide
