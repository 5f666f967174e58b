\* Every byte alone, and every string of up to four of eight bytes: two keys
\* and two values, or an escape and a byte; and the same strings as messages.
SPECIFICATION Spec
CONSTANTS
  Alphabet <- UrlBytes
  MaxLen = 4
\* Inputs end at MaxLen.
CHECK_DEADLOCK FALSE
INVARIANTS DecodeUndoesEncode PairsSurvive ParsesSegments BoundariesSurvive
