SPECIFICATION Spec
CONSTANTS
  orders = orders
  users = users
  unset = unset
  v1 = v1
  v2 = v2
  Unset = unset
  Broken = broken
  Absent = absent
  None = none
  Fields <- MCFields
  Values = {1, 2}
  Classes <- MCClasses
  Sources <- MCSources
  MaxQueue = 2
  MaxStores = 2
  MaxEdits = 3
INVARIANTS OneVersion SavedStoreUsed
PROPERTIES KeepsLiveStore
CHECK_DEADLOCK FALSE
