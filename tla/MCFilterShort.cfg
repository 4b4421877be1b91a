CONSTANTS
  WordBits = 16
  MaxOffset = 255
  Tree <- ReadTrees
  Height <- Heights
  Leaves <- Predicates
  Inputs <- CutOff
SPECIFICATION FilterSpec
INVARIANTS AgreesWithKernel
CHECK_DEADLOCK FALSE
