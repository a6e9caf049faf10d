SPECIFICATION FairSpec
CONSTANTS
  Contracts <- AllAddresses
  Scripts <- AllScripts
  FaultyOps <- ResumableOps
  MinDelay = 2
  MaxTime = 4
  MaxGen = 2
  MaxStarts <- Starts
  MaxFaults = 1
INVARIANTS MarkedIsDone CompletedIsWired CoreStaysWired
PROPERTIES HandoverTimelocked DeployCompletes
CHECK_DEADLOCK FALSE
