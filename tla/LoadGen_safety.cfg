SPECIFICATION Spec
CONSTANTS
  NumAccounts = 1
  NumTiers = 2
  QueueDepth = 1
  MinSuccessPct = 50
  StopAtFailure = FALSE
  MaxDispatch = 2
  MaxBurst = 2
  MaxPolls = 1
  MaxNonce = 5
INVARIANTS SentAccounting NoNonceGap ConfirmedIsOwn CleanPassMeansConfirmed
PROPERTY NoDispatchAfterStop
CHECK_DEADLOCK FALSE
