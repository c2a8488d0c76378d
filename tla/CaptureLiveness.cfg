SPECIFICATION BusySpec
CONSTANTS
  Threads = {main, worker}
  Controller = main
  CallStacks = {s1}
  MaxGeneration = 2
  Allowed = {"cancel"}
  Free = Free
  NoChild = NoChild
  EarlyChild = EarlyChild
PROPERTIES EndReturns LockReleased TrapFlagsCleared
