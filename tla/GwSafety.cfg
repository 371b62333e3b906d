SPECIFICATION Spec
CONSTANTS
  o1 = o1
  o2 = o2
  t1 = t1
  t2 = t2
  NoOrder = NoOrder
  NoThread = NoThread
  Orders <- MCOrders
  Threads <- MCThreads
  Qty = 2
  MaxCancels = 1
  MaxFaults = 1
  MaxDrops = 1
SYMMETRY NameSymmetry
INVARIANTS
  TypeOK
  Attributed
  GoneIsGone
  NonceInStep
  NonceNeverAhead
  FillsBeforeOver
PROPERTIES
  ImplementsView
