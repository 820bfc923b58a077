SPECIFICATION MCSpec
CONSTANTS
  b1 = b1
  b2 = b2
  References = 2
  Branches = {b1, b2}
  Stable = 2
  SyncHeight = 2
  MaxPolls = 3
  Need = 2
  From = 2
  Until = 3
  Lag = 1
  Streak = 2
  Setups <- MCSetups
INVARIANTS
  Truthful
  NeverBehind
PROPERTIES
  WarmUpReal
  AllReturn
CHECK_DEADLOCK FALSE
