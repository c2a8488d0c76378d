SPECIFICATION Spec
CONSTANTS
  w1 = w1
  w2 = w2
  Threads = {main, w1, w2}
  Cores = {0, 1}
  Capacity = 2
  NoThread = NoThread
  NoCall = NoCall
  Caller = main
  Scenarios <- MCScenarios
INVARIANTS NobodyLeftStopped ArmedThreadsAreHandled
PROPERTIES LookupIsCurrent ArmedWhenStarted StartReturns
CHECK_DEADLOCK FALSE
