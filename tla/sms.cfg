SPECIFICATION FairSpec
CONSTANTS
  Contact = {c1, c2}
  Unauthorized = {c2}
  Deletable = {c1}
  MaxRetry = 2
  Frequency = 2
  MaxMessage = 4
  MaxDeaths = 1
  Env = {"death", "no_route", "stop"}
INVARIANT TypeOK
INVARIANT MessagesBounded
PROPERTY CompleteIsFinal
PROPERTY EveryContactSettles
PROPERTY LooseMessageSent
CHECK_DEADLOCK FALSE
