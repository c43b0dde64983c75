SPECIFICATION Spec
CONSTANTS
  Subscriber = {s1}
  Worker = {w1}
  NoSubscriber = NoSubscriber
  MaxRetry = 1
  UserMaxRetry = 0
  CompletionMaxRetry = 1
  HumanOnly = FALSE
  MaxCallrequest = 2
  Env = {"crash", "lost", "bad_number", "esl_error", "abnormal", "slow_worker", "duplicate", "rejected", "transfer"}
INVARIANT TypeOK
INVARIANT QueuedUndialled
INVARIANT SpooledOnce
 
CHECK_DEADLOCK FALSE
