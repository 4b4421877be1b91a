CONSTANTS
  BlockNr = 2
  BlockCap = 2
  MaxPackets = 4
  NoCursor = NoCursor
SPECIFICATION WeakSpec
INVARIANT HeaderUnshared
CHECK_DEADLOCK TRUE
