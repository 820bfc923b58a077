SPECIFICATION Spec
CONSTANTS
  Setups <- MCSetups
  PerAccount = 2
  FewestSenders = 1
  MostSenders = 2
  MinSuccessPct = 90
  MaxHeightLag = 1
  MaxStall = 2
  Worst = 2
  Word = 64
INVARIANTS ArtifactsExact SearchExact TierTrue SendersFunded
PROPERTIES RunExits
CHECK_DEADLOCK FALSE
