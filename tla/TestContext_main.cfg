SPECIFICATION FairContextSpec
CONSTANTS
  n1 = n1
  n2 = n2
  Nodes <- MCNodes
  Primary = n1
  Attempts = 2
  MaxContexts = 2
  MaxCreations = 2
  MaxDummies = 1
  MaxTroubles = 2
  MaxNonce = 5
INVARIANTS
  NoGap
  PaidOnce
  UniqueWhenSeeded
PROPERTY CallsReturn
CHECK_DEADLOCK FALSE
