\* Input that comes in pieces of 0 to 3 bytes, in fragments of 2 or 3.
SPECIFICATION ReaderSpec
CONSTANTS
  MinFrag = 2
  MaxFrag = 3
  StartFrags = 0
  StartLen = 0
  ReadSize = 2
  WithHandler = TRUE
  HighBytes = {}
  SpanConsume = FALSE
  Requests = {0, 1, 2, 3}
  MaxBytes = 9
  MaxParts = 3
INVARIANTS PlacesExact SegmentsExact
CHECK_DEADLOCK FALSE
