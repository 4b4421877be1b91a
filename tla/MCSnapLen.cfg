CONSTANTS
  BlockNr = 3
  BlockCap = 3
  MaxPackets = 3
  NoCursor = NoCursor
  BlockSize = 15
  FirstOffset = 2
  MacOffset = 2
  Alignment = 4
  Lengths = {1, 4}
  AcceptLen = 3
  SnapLen = 2
SPECIFICATION FrameSpec
INVARIANT Snapped
CHECK_DEADLOCK FALSE
