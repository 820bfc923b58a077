SPECIFICATION MCSpec
CONSTANTS
  NoTest = NoTest
  Networks <- MCNetworks
  Parent <- MCParent
  Setups <- MCSetups
  MaxTime = 9
  Retries = 10
  Balances = {0, 1, 2}
  MaxTroubles = 3
  InitTimeout = 7
  ProbeTime = 2
  MaxBackoff = 4
  Fleets <- MCFleets
  MaxFlips = 2
  PortLists <- MCPortLists
  MaxTests = 3
  MaxBreaks = 2
  Urls <- MCUrls
  Cases <- MCCases
  Siblings <- MCSiblings
  Probes = 3
  PostProbes = 4
  MinSplits = 3
  MaxPolls = 2
  MaxErrors = 1
  MaxLines = 2
  MaxRecent = 2
  Layouts <- MCLayouts
  MaxSlips = 4
INVARIANTS
  ForkChecksTrue
  ReportsTrue
  HelpersTrue
CHECK_DEADLOCK FALSE
