CONSTANTS
  Pieces <- MCPieces
  MaxPieces = 6
SPECIFICATION Spec
INVARIANTS
  EndFoundExactly
  Recoverable
  ThreeClasses
  NothingHeldBack
  OutputInOrder
  RepliesUnderstood
CHECK_DEADLOCK FALSE
