SPECIFICATION FairSpec
CONSTANTS
  Process = {p1, p2}
  MaxSection = 3
  MaxGraph = 7
  MaxRequest = 2
  MaxFaults = 1
  Env = {"edit", "delete", "seal", "duplicate", "file", "form", "collect", "crash"}
INVARIANT TypeOK
INVARIANT BranchesClosed
PROPERTY CopyFaithful
PROPERTY RunningPlaysSurvey
CHECK_DEADLOCK FALSE
