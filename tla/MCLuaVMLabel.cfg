CONSTANTS
  MaxIndexRK = 2
  MaxArgBx = 4
  MaxArgC = 1
  FieldsPerFlush = 2
  MaxStack = 16
  StackSize = 40
  MaxTrace = 8
  Programs <- LabelProgram
  Compile <- MCCompile
  Mean <- MCMean
SPECIFICATION Spec
INVARIANT SameMeaning
CHECK_DEADLOCK FALSE
