SPECIFICATION Spec
CONSTANTS
  t1 = t1
  t2 = t2
  Threads <- MCThreads
  NoThread = NoThread
  Symbols = {"BTC"}
  MinInterval = 1
  Life = 6
  Margin = 5
  RequestTime = 1
  LastStart = 6
  MaxCalls = 3
SYMMETRY ThreadSymmetry
INVARIANTS
  TypeOK
  FreshToken
  UnknownMeansUnlisted
PROPERTIES
  Paced
  MintsOnce
