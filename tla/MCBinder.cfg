\* Up to three entries, of two types and up to one word, with NULLs anywhere.
\* Type 0 is that of a line which was never written.
SPECIFICATION Spec
CONSTANTS
  Ids = {0, 1}
  Versions = {3, 4}
  Any = 4
  MaxEntries = 3
  MaxLength = 1
CHECK_DEADLOCK FALSE
INVARIANTS
  RoundTrip
  WrongFileUntouched
