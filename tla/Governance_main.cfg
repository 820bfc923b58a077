SPECIFICATION Spec
CONSTANTS
  N = 3
  Params = 2
  Values = {1, 2}
  Target <- MCTarget
  Default <- MCDefault
  Attempts = 2
  Retries = 2
  MaxStarts = 2
  Limits <- MCLimits
INVARIANTS
  TypeOK
  CleanRunsSucceed
  ReadyMeansInitialised
PROPERTIES
  Verified
  Ends
  StoreSpec
CHECK_DEADLOCK FALSE
