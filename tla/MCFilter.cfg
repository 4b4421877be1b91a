CONSTANTS
  WordBits = 16
  MaxOffset = 255
  Tree <- ReadTrees
  Height <- Heights
  Leaves <- Predicates
  Inputs <- Filters
SPECIFICATION FilterSpec
INVARIANTS ReadAsWritten VerdictCorrect Loadable OnlyLongPanics ArmsReachLabels AssemblerInv ReadsCaptured LineTruthful DateOnCalendar LineInv
CHECK_DEADLOCK FALSE
