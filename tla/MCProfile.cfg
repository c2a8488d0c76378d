CONSTANTS
  BlockWords = 3
  MaxCalls = 4
  InitialReserve = 4
  Counters <- MCCounters
  CounterRange = 4
  Rips <- MCRips
  Stacks <- MCStacks
  MaxModules = 2
  Executable <- MCExecutable
  NoName <- MCNoName
  Objects <- MCObjects
  Unknown = Unknown
  NoLineNumber = NoLineNumber
  SourceLines <- MCSourceLines
  DefaultPageSize = 256
  NodeSize = 64
  Samples <- MCSamples
  MaxSamples = 2
  LoadedLists <- MCLoadedLists
  Infos <- MCInfos
  JunkLines = {4}
  MaxResolves = 2
  MaxViews = 2
  NoInfo = NoInfo
  NoView = NoView
SPECIFICATION Spec
INVARIANTS
  StoredStacksReadBack
  SavedFileReadsBack
  SymbolsNameTheirAddress
  ViewsAgreeOnTotals
  AnnotationShowsItsLines
  ArenaHoldsTheTree
