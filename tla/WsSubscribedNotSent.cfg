SPECIFICATION Spec
CONSTANTS
  book = book
  account = account
  t1 = t1
  t2 = t2
  NoChannel = NoChannel
  Channels <- MCChannels
  Books <- MCBooks
  Callers <- MCOneCaller
  MaxDelay = 2
  SilentTicks = 1
  MaxGen = 2
  MaxCalls = 4
  MaxOutbound = 1
INVARIANT SubscribedMeansSent
