SPECIFICATION FairSpec
CONSTANTS
  Method = {"SMS"}
  MaxRetry = 0
  LastOccurrence = 3
  Window = 1
  MaxEvent = 7
  MaxOutage = 1
  MaxFaults = 1
  MaxCalls = 4
  MaxPatch = 2
  Env = {"death", "overlap"}
INVARIANT OccurrenceOnce
INVARIANT ChainAlive
CHECK_DEADLOCK FALSE
