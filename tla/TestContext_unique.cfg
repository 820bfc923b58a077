SPECIFICATION ContextSpec
CONSTANTS
  n1 = n1
  n2 = n2
  Nodes <- MCNodes
  Primary = n1
  Attempts = 2
  MaxContexts = 2
  MaxCreations = 4
  MaxDummies = 2
  MaxTroubles = 4
  MaxNonce = 11
INVARIANT AccountsUnique
CHECK_DEADLOCK FALSE
