\* Three reactors of one thread each; clients come at any time.
SPECIFICATION FairSpec
CONSTANTS
  Reactors = 3
  Threads = 1
  MaxClients = 3
  MaxErrors = 1
INVARIANTS EvenSpread
PROPERTIES ClientsServed StopEnds
CHECK_DEADLOCK FALSE
