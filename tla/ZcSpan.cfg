\* The async server rejects a message: consume with the bytes in two fragments.
SPECIFICATION Spec
CONSTANTS
  MinFrag = 2
  MaxFrag = 3
  StartFrags = 0
  StartLen = 0
  ReadSize = 2
  WithHandler = FALSE
  HighBytes = {}
  SpanConsume = TRUE
  Requests = {0, 1, 2, 3, 4}
  MaxBytes = 9
INVARIANT InterSizeExact

