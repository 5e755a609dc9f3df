SPECIFICATION Spec
CONSTANTS
  HalfRange = 8
  Bot = Bot
  Alice = Alice
  Carol = Carol
  Engineer = Engineer
  Manager = Manager
  Ids = {Bot, Alice, Carol}
  Names = {Engineer, Manager}
  Blacklist = {Manager}
  MaxTime = 1
  Me = Bot
  NoId = NoId
  NameOf <- Name
  Vote = 3
  MaxWire = 2
  MaxFrames = 6
CHECK_DEADLOCK FALSE
INVARIANTS TypeOK RosterFollowsMeeting BotStaysOut VotesAreCounted
PROPERTIES OnlyOwnChatVotes
