SPECIFICATION FairSpec
CONSTANTS
  Event = {e1, e2}
  Dispatcher = {d1, d2}
  NoDispatcher = NoDispatcher
  BufferLimit = 2
  FetchLimit = 1
  MaxReconnect = 1
  MaxFaults = 2
  Env = {"insert_fails", "stop", "db_down", "crash", "send_fails", "lock_expires"}
INVARIANT TypeOK
INVARIANT DoneMeansSent
PROPERTY HandoverKept
PROPERTY EveryEventHandled
CHECK_DEADLOCK FALSE
