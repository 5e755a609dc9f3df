SPECIFICATION Spec
CONSTANTS
  HalfRange = 128
  People = {p1, p2, p3, p4}
  VoteRange <- Votes
INVARIANTS FinalIsHighestMode FinalMeansCloseVotes AverageOfVoters
