SPECIFICATION FairSpec
CONSTANTS
  Tabs = {a}
  Jobs = {1, 2}
  MaxViews = 2
  MaxMaps = 2
  None = None
INVARIANTS IndexNamesItsView
PROPERTIES TabOutlivesItsTrees TasksFinish ButtonsComeBack
CHECK_DEADLOCK FALSE
