SPECIFICATION Spec
CONSTANTS
  kWays = 4
  kSetCount = 2
  kLineSize = 2
  Addrs <- MCAddrs
PROPERTY ImplementsLru
