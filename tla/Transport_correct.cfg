SPECIFICATION FairSpec
CONSTANTS
  Main = Main
  Listen = Listen
  Nobody = Nobody
  Senders = {Main, Listen}
  SeqModulus = 3
  MaxCalls = 4
CHECK_DEADLOCK FALSE
INVARIANTS TypeOK OnlyCloseOverlaps
PROPERTIES ImplementsWire SendReturns
