CONSTANTS
  WordBits = 6
  Programs <- ShortPrograms
  Packets <- SmallPackets
SPECIFICATION FairSpec
INVARIANTS TypeOK EndsInReturn
PROPERTIES OnlyForward Terminates
CHECK_DEADLOCK FALSE
