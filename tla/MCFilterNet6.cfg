CONSTANTS
  WordBits = 16
  MaxOffset = 255
  Tree <- ReadTrees
  Height <- Heights
  Leaves <- HostBitsNet
  Inputs <- Networks6
SPECIFICATION FilterSpec
INVARIANTS VerdictCorrect
CHECK_DEADLOCK FALSE
