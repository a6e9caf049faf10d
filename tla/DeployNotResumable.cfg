SPECIFICATION FairSpec
CONSTANTS
  Contracts <- AllAddresses
  Scripts <- AllScripts
  FaultyOps <- AllOps
  MinDelay = 2
  MaxTime = 4
  MaxGen = 2
  MaxStarts <- Starts
  MaxFaults = 1

PROPERTIES DeployCompletes
CHECK_DEADLOCK FALSE
