CONSTANTS
  MaxIndexRK = 2
  MaxArgBx = 4
  MaxArgC = 1
  FieldsPerFlush = 2
  MaxStack = 16
  StackSize = 40
  MaxTrace = 8
  Programs <- MCPrograms
  Compile <- MCCompile
  Mean <- MCMean
SPECIFICATION AllSpec
INVARIANTS SameMeaning WellFormed Balanced HandlerOfInnermost
PROPERTY Promised
\* A program comes to its end.
CHECK_DEADLOCK FALSE
