SPECIFICATION Spec
CONSTANTS
  book = book
  account = account
  t1 = t1
  t2 = t2
  NoChannel = NoChannel
  Channels <- MCChannels
  Books <- MCBooks
  Callers <- MCCallers
  MaxDelay = 2
  SilentTicks = 1
  MaxGen = 3
  MaxCalls = 3
  MaxOutbound = 1
SYMMETRY CallerSymmetry
INVARIANTS
  TypeOK
  OneWrite
  ListensWhileConnected
  NeverWedged
  PumpNeverStalls
  SubscribesAfterGreeting
  VenueAgrees
  SessionInv
PROPERTIES
  ClosedStaysClosed
  ImplementsLedger
