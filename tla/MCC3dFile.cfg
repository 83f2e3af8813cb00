\* Any two of thirteen files, one after the other.
SPECIFICATION Spec
CONSTANTS
  Text <- MCText
  Validated <- MCValidated
  Files <- MCFiles
  Rate = 60
  MaxParses = 2
  MaxNames = 8
CHECK_DEADLOCK FALSE
INVARIANTS
  FramesAreTheirs
  LocatorsComplete
  NothingLeft
PROPERTIES
  ParseReturns
