SPECIFICATION Spec
CONSTANTS
  Epoch = 2
  Setups <- MCSetups
INVARIANTS
  SuccessIsReal
  Restartable
  CleanCallSucceeds
PROPERTIES
  Returns
  Seals
CHECK_DEADLOCK FALSE
