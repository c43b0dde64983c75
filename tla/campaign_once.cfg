SPECIFICATION Spec
CONSTANTS
  b1 = b1
  b2 = b2
  c1 = c1
  c2 = c2
  Contact = {c1, c2}
  Phonebook = {b1}
  PhonebookOf <- OneBook
  Refused = {}
  Web = {u1}
  Worker = {w1, w2}
  Nobody = Nobody
  Frequency = 2
  MaxSubscriber = 0
  MaxRequest = 1
  MaxFaults = 2
  MaxSurvey = 1
  Env = {"admin", "crash", "lock_expires"}
SYMMETRY Symmetry
INVARIANT SpooledOnce
INVARIANT NoContactMissed
CHECK_DEADLOCK FALSE
