SPECIFICATION Spec
CONSTANTS
  NumAccounts = 1
  NumTiers = 2
  QueueDepth = 1
  MinSuccessPct = 50
  StopAtFailure = FALSE
  MaxDispatch = 2
  MaxBurst = 2
  MaxPolls = 0
  MaxNonce = 4
INVARIANT BacklogFailsTier
CHECK_DEADLOCK FALSE
