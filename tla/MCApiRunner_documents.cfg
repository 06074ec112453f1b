SPECIFICATION Spec
CONSTANTS
  Source = "source"
  Overlays <- MCOverlays
  References <- MCReferences
  Remote <- JustRemote
  Contents <- MCContents
  Broken <- OneBroken
  Root = "doc"
  Depth = 5
  HeapOf <- MCHeapOf
  ActionsOf <- MCActionsOf
  Modules = {m}
  Codes = {v1, v2}
  Absent = absent
  Runners = {r1, r2}
  Main = r1
  MaxEdits = 2
INVARIANTS DocumentCurrent OverlaysApplied SavedCodeServed UntouchedServed NothingLeftOpen
CHECK_DEADLOCK FALSE
