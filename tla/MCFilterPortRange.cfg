CONSTANTS
  WordBits = 16
  MaxOffset = 255
  Tree <- ReadTrees
  Height <- Heights
  Leaves <- AnyRange
  Inputs <- Ranges
SPECIFICATION FilterSpec
INVARIANTS VerdictCorrect
CHECK_DEADLOCK FALSE
