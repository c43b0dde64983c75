SPECIFICATION Spec
CONSTANTS
  b1 = b1
  b2 = b2
  c1 = c1
  c2 = c2
  Contact = {c1, c2}
  Phonebook = {b1}
  PhonebookOf <- OneBook
  Refused = {}
  Web = {u1}
  Worker = {w1, w2}
  Nobody = Nobody
  Frequency = 1
  MaxSubscriber = 0
  MaxRequest = 2
  MaxFaults = 0
  MaxSurvey = 1
  Env = {"stop"}
SYMMETRY WorkerSymmetry
PROPERTY StopHolds
CHECK_DEADLOCK FALSE
