SPECIFICATION FairSpec
CONSTANTS
  NumAccounts = 1
  NumTiers = 2
  QueueDepth = 1
  MinSuccessPct = 50
  StopAtFailure = FALSE
  MaxDispatch = 1
  MaxBurst = 1
  MaxPolls = 0
  MaxNonce = 3
PROPERTIES WorkersExit CleanSearchEnds
CHECK_DEADLOCK FALSE
