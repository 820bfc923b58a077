SPECIFICATION FairSpec
CONSTANTS
  r1 = r1
  r2 = r2
  rewards = rewards
  epoch = epoch
  punish = punish
  NoRun = NoRun
  Runs <- MCRuns
  Items <- MCItems
  Shareable <- MCShareable
  Phases <- MCPhases
  Jobs <- MCJobs
  MaxCrashes = 1
INVARIANTS
  OneRun
  OwnNetwork
  VerdictExact
PROPERTIES
  NetworkStable
  NetworkStopped
  RunEnds
CHECK_DEADLOCK FALSE
