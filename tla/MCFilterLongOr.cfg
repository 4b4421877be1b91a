CONSTANTS
  WordBits = 16
  MaxOffset = 255
  Tree <- ReadTrees
  Height <- Heights
  Leaves <- Predicates
  Inputs <- LongOr
SPECIFICATION FilterSpec
INVARIANTS NoPanic
CHECK_DEADLOCK FALSE
