\* Two clients, sessions of two messages, three messages in all.
SPECIFICATION FairSpec
CONSTANTS
  Clients = {c1, c2}
  SessionMessages = 2
  TotalMessages = 3
  MaxTries = 1
  MaxFailures = 2
  MaxMessages = 9
INVARIANTS OneOperation OneCommand LimitsKept SamplesCounted
PROPERTIES Terminates
CHECK_DEADLOCK FALSE
