SPECIFICATION FairSpec
CONSTANTS
  b1 = b1
  b2 = b2
  c1 = c1
  c2 = c2
  Contact = {c1, c2}
  Phonebook = {b1}
  PhonebookOf <- OneBook
  Refused = {c2}
  Web = {u1}
  Worker = {w1}
  Nobody = Nobody
  Frequency = 1
  MaxSubscriber = 0
  MaxRequest = 1
  MaxFaults = 0
  MaxSurvey = 1
  Env = {"expire", "stop", "admin", "bulk"}
INVARIANT TypeOK
PROPERTY EveryContactServed
PROPERTY ExpiredEnds
CHECK_DEADLOCK FALSE
