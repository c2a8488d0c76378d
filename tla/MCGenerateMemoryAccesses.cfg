SPECIFICATION CommitFairSpec
CONSTANTS
  kCoreCount = 2
  kD1Ways = 1
  kD1Sets = 2
  kI1Ways = 1
  kI1Sets = 2
  kL2Ways = 2
  kL2Sets = 2
  Lines <- MCLines
  kLineSize = 8
  AddrSpace = 32
  Requests <- MCRequests
  HalfSpace = 8
  ByteSpace = 4
  kPrefetchSize = 8
  kFxSize = 8
  SegmentBase <- MCSegmentBase
  Instructions <- MCInstructions
INVARIANTS TypeOK CoversTheAccess ResultMatchesMode RepeatHits EveryAccessCounted CommitsWhatTheProcessorDoes
PROPERTY Terminates
CHECK_DEADLOCK FALSE
