SPECIFICATION FairSpec
CONSTANTS
  a = a
  b = b
  get = get
  post = post
  v1 = v1
  v2 = v2
  Routes <- MCRoutes
  Methods <- MCMethods
  Versions <- MCVersions
  Setups <- SafeSetups
  Documents <- MCDocuments
  Broken = broken
  Edits <- MCEdits
  Missing = missing
  Context = context
  MaxEdits = 2
INVARIANTS HandlersGenerated TypesMerged UserEditsKept
PROPERTIES RegenerationsEnd
CHECK_DEADLOCK FALSE
