SPECIFICATION Spec
CONSTANTS
  m = m
  r = r
  c = c
  w = w
  v1 = v1
  v2 = v2
  bad = bad
  usesM = usesM
  usesR = usesR
  usesPackage = usesPackage
  throwing = throwing
  Package = package
  Override = override
  ErrorModule = errorModule
  Absent = absent
  None = none
  Contents <- MCContents
  Imports <- MCImports
  Broken <- JustBad
  Throwing <- JustThrowing
  Files <- PlainFiles
  Allowed <- PlainAllowed
  Middlewares <- JustW
  ContextFiles <- JustC
  Overridable <- JustR
  MixedCase <- Nothing
  StoreMayActivate = FALSE
  MaxQueue = 2
  MaxEdits = 3
INVARIANTS SavedRoutesServed SavedContextsUsed DeletedRoutesGone
CHECK_DEADLOCK FALSE
