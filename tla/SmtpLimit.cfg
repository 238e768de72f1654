\* One client and a network without failures.
SPECIFICATION Spec
CONSTANTS
  Clients = {c1}
  SessionMessages = 2
  TotalMessages = 3
  MaxTries = 1
  MaxFailures = 0
  MaxMessages = 9
INVARIANT TotalLimit
CHECK_DEADLOCK FALSE
