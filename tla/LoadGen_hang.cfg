SPECIFICATION FairSpec
CONSTANTS
  NumAccounts = 1
  NumTiers = 2
  QueueDepth = 1
  MinSuccessPct = 50
  StopAtFailure = TRUE
  MaxDispatch = 2
  MaxBurst = 1
  MaxPolls = 0
  MaxNonce = 3
PROPERTY SearchEnds
CHECK_DEADLOCK FALSE
