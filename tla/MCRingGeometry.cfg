CONSTANTS
  Interfaces = {"eth0"}
  OptionSet <- CommandLine
  UintSize = 4194304
  Traffic = {{}}
  MaxArrivals = 0
  Loopback = {}
  Hosts <- OneHost
  MaxIndex = 3
  MaxChanges = 0
SPECIFICATION DefaultSpec
INVARIANT RingAcceptable
CHECK_DEADLOCK FALSE
