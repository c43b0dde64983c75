SPECIFICATION FairSpec
CONSTANTS
  Method = {"CALL", "EMAIL"}
  MaxRetry = 1
  LastOccurrence = 0
  Window = 0
  MaxEvent = 1
  MaxOutage = 0
  MaxFaults = 1
  MaxCalls = 4
  MaxPatch = 0
  Env = {"death", "lost", "duplicate", "bad_number", "early"}
INVARIANT TypeOK
 
INVARIANT MailOnce
 
PROPERTY AlarmSettles
CHECK_DEADLOCK FALSE
