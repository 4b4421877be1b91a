CONSTANTS
  OptionSet <- CommandLines
  PacketKinds <- Kinds
  MaxPackets = 3
  Slack = 2
  Second = 2
SPECIFICATION FairSpec
INVARIANTS TypeOK OutputFaithful FilesKept CountExact LinesConsistent CaptureInv
PROPERTIES CountReached
CHECK_DEADLOCK FALSE
