SPECIFICATION FairSpec
CONSTANTS
  HalfRange = 8
  Alice = Alice
  Bob = Bob
  Engineer = Engineer
  Manager = Manager
  Everyone = Everyone
  Ids = {Alice, Bob}
  Names = {Engineer, Manager}
  Blacklist = {Manager}
  MaxTime = 3
  Estimates = {5}
INVARIANTS TypeOK ClosedIsBlank TimestampsAgree NoLostUpdate AnnouncedIsTrue
PROPERTIES VotingSpec SaidOnceStays FinalIsTheirs EveryVoteReported
