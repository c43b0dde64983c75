SPECIFICATION FairSpec
CONSTANTS
  Subscriber = {s1}
  Worker = {w1, w2}
  NoSubscriber = NoSubscriber
  MaxRetry = 2
  UserMaxRetry = 1
  CompletionMaxRetry = 2
  HumanOnly = TRUE
  MaxCallrequest = 6
  Env = {"esl_error", "time_limit", "machine"}
INVARIANT CompletionRetriesCounted
INVARIANT AttemptsCounted
INVARIANT OneLiveCallrequest
PROPERTY Drains
CHECK_DEADLOCK FALSE
