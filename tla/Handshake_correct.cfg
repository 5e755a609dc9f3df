SPECIFICATION FairSpec
CONSTANTS
  h1 = h1
  h2 = h2
  Hosts = {h1, h2}
  NoHost = NoHost
  MaxPayload = 2
CHECK_DEADLOCK FALSE
INVARIANTS TypeOK RefusedNeverDials GoodAnswerAccepted
PROPERTIES HandshakeEnds InterruptKept
