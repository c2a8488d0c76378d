SPECIFICATION Spec
CONSTANTS
  Keys = {1, 2, 3, 4}
  Hash <- MCHash
  kInitialCapacity = 2
  kBlockElems = 2
  kMaxCount = 4
  kMaxValue = 1
  Null = Null
INVARIANTS IterationIsComplete FillIsBounded
PROPERTY ImplementsMap
