SPECIFICATION Spec
CONSTANTS
  Threads = {main, worker}
  Controller = main
  CallStacks = {s1, s2}
  MaxGeneration = 2
  Allowed = {"straggler", "early"}
  Free = Free
  NoChild = NoChild
  EarlyChild = EarlyChild
PROPERTIES ResetExcludesCommit StartTraces
CHECK_DEADLOCK FALSE
SYMMETRY StackSymmetry
