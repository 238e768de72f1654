SPECIFICATION Spec
CONSTANTS
  Half = 32
  Delta = 2
  MaxSlots = 3
  Deferred = 2
  Clients = {c1, c2}
  Archives <- MCArchives
  Headers <- MCHeaders
  Limits <- MCLimits
  MaxCut = 1
  MaxTaken = 2
  MaxTime = 8
INVARIANTS MessagesInTurn StatisticsExact
SYMMETRY MCSymmetry
CHECK_DEADLOCK FALSE
