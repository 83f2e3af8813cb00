\* Every document of three pieces, every balanced one of six; two calls.
SPECIFICATION MCSpec
CONSTANTS
  White <- Blanks
  Oversized <- Longs
  Unended <- Backslashes
  MaxPieces = 2
  MaxTags = 5
  MaxCalls = 2
CHECK_DEADLOCK FALSE
INVARIANTS
  ReadsWhereAsked
  TreeIsDocument
  ErrorsMeanBroken
  IndexInRange
PROPERTIES
  NoElementSkipped
  AsksKnownOffsets
  CallsReturn
