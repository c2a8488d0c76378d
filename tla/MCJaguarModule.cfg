SPECIFICATION MCSpec
CONSTANTS
  kCoreCount = 2
  kD1Ways = 2
  kD1Sets = 1
  kI1Ways = 1
  kI1Sets = 2
  kL2Ways = 2
  kL2Sets = 1
  Lines <- MCLines
  Accesses <- MCAccesses
INVARIANTS CachesWellFormed NoStaleHit ModuleTypeOK
