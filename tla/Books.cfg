SPECIFICATION FairSpec
CONSTANTS
  Prices <- MCPrices
  Opening <- MCOpening
  MaxMoves = 2
  MaxLost = 1
  MaxDrops = 1
  MaxCalls = 2
INVARIANTS
  TypeOK
  Converges
  QuoteIsCurrent
  NoPhantomQuote
  NeverForgotten
  RemedyComes
PROPERTIES
  ReliesOnLedger
  
  SubscribedGetsQuotes
