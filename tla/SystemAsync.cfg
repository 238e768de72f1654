\* The asynchronous server, sessions of two messages, three in all, two connections
\* that break.
SPECIFICATION FairSystemSpec
CONSTANTS
  Kinds = {"async"}
  Client = c1
  SessionMessages = 2
  TotalMessages = 3
  MaxMessages = 9
  Messages = {"good", "bad", "bodyless"}
  MaxBreaks = 2
  MaxSessions = 4
INVARIANTS InStep
PROPERTIES ClientFinishes
CHECK_DEADLOCK FALSE
