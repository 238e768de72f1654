\* Messages of up to four header lines, with lists of up to three addresses.
SPECIFICATION Spec
CONSTANTS
  Words <- MCWords
  Messages <- MCMessages
INVARIANTS LinesUnderstood ValuesRecovered BodyFound
CHECK_DEADLOCK FALSE
