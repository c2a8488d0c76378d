SPECIFICATION Spec
CONSTANTS
  Threads = {main, worker}
  Controller = main
  CallStacks = {s1, s2}
  MaxGeneration = 2
  Allowed = {}
  Free = Free
  NoChild = NoChild
  EarlyChild = EarlyChild
INVARIANTS NodesNameTheirStack SavesOneCapture
PROPERTY UnmappedNotRecorded
SYMMETRY StackSymmetry
