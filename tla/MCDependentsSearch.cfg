SPECIFICATION SearchSpec
CONSTANTS
  a = a
  b = b
  c = c
  package = package
  Files <- MCFiles
  Package = package
INVARIANTS FindsDependents
PROPERTIES SearchEnds
