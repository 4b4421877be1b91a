CONSTANTS
  Interfaces = {"lo", "eth0", "eth1"}
  OptionSet <- Options
  UintSize = 4194304
  Traffic = {{}, {"opening"}, {"other"}}
  MaxArrivals = 2
  Loopback = {"lo"}
  Hosts <- HostsOf
  MaxIndex = 4
  MaxChanges = 2
SPECIFICATION DefaultSpec
INVARIANTS NoPrefilterLeak Settled WalkInRing NothingLeftBehind OpenInv ListInv
PROPERTY DefaultIsLowest
CHECK_DEADLOCK FALSE
