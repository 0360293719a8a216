SPECIFICATION SpecFormat
VIEW MCView
CONSTANTS
  Byte <- MCByte
  NUL = 0
  Text <- MCText
  Charsets <- MCCharsets
  Capacity <- MCCapacity
  SDS_MAX_PREALLOC = 4
  MaxLen = 4
  Formats <- MCFormats
  Joins <- MCJoins
  LLONG_MIN <- MCLeast
INVARIANTS
  WellFormed
  TextsComeBack
PROPERTY ImplementsByteString
\* A failed malloc may end the program.
CHECK_DEADLOCK FALSE
