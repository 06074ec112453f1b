SPECIFICATION Spec
CONSTANTS
  root = root
  pets = pets
  stock = stock
  price = price
  unset = unset
  v1 = v1
  v2 = v2
  v3 = v3
  v4 = v4
  plain = plain
  none = none
  Root = root
  Unset = unset
  Plain = plain
  None = none
  Paths <- MCPaths
  Tried <- MCTried
  Fields <- MCFields
  Values = {1, 2}
  Classes <- MCClasses
  Sources <- MCSources
  Bodies <- PartialBody
  Deletable <- BelowRoot
INVARIANTS EveryPathFound
PROPERTIES UpdatesStayLocal PreservesLive
