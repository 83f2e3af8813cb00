\* Every text of up to five characters, every tag of up to two arguments, and
\* buffers of five.
SPECIFICATION TagSpec
CONSTANTS
  Letters <- MCLetters
  Texts <- MCTexts
  Tags <- MCTags
  Limit = 4
CHECK_DEADLOCK FALSE
INVARIANTS
  InBounds
  TagReturns
