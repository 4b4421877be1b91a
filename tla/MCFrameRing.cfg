CONSTANTS
  BlockNr = 3
  BlockCap = 3
  MaxPackets = 6
  NoCursor = NoCursor
  BlockSize = 15
  FirstOffset = 2
  MacOffset = 2
  Alignment = 4
  Lengths = {1, 4}
  AcceptLen = 3
  SnapLen = 2
SPECIFICATION FrameFairSpec
INVARIANTS TypeOK InOrder BlockOwnership IInv PacketIntact OffsetOnFrame FrameInv
PROPERTIES DropOnlyWhenAllHeld ImplementsQueue ImplementsFairQueue EventuallyDelivered EventuallyThawed
CHECK_DEADLOCK TRUE
