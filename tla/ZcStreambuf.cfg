\* A buffer read through an underflow handler (coro and sync servers) or
\* filled by prepare and commit (async server); fragments of 2 or 3 bytes.
SPECIFICATION Spec
CONSTANTS
  MinFrag = 2
  MaxFrag = 3
  StartFrags = 0
  StartLen = 0
  ReadSize = 2
  WithHandler = TRUE
  HighBytes = {}
  SpanConsume = FALSE
  Requests = {0, 1, 2, 3, 4}
  MaxBytes = 11
INVARIANTS PointersOrdered CountersExact NoByteLost EofOnlyWhenEmpty BuffersExact
PROPERTIES NeverBackwards ImplementsQueue
CHECK_DEADLOCK FALSE
