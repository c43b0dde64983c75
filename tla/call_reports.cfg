SPECIFICATION FairSpec
CONSTANTS
  Subscriber = {s1}
  Worker = {w1}
  NoSubscriber = NoSubscriber
  MaxRetry = 1
  UserMaxRetry = 1
  CompletionMaxRetry = 1
  HumanOnly = FALSE
  MaxCallrequest = 2
  CallEnv = {"esl_error", "duplicate"}
  Dispatcher = {d1, d2}
  NoDispatcher = NoDispatcher
  BufferLimit = 2
  FetchLimit = 2
  MaxReconnect = 0
  MaxFaults = 1
  QueueEnv = {"insert_fails", "stop", "crash", "send_fails", "lock_expires"}
INVARIANT ServedOnce
PROPERTY CompletedLeftAlone
PROPERTY ContactSettles
CHECK_DEADLOCK FALSE
