SPECIFICATION Spec
CONSTANTS
    Documents <- MCDocuments
    Identifier <- MCIdentifier
    Directories <- MCDirectories
    Root = "/"
    Parent <- MCParent
    Nested = TRUE
    Groups <- MCGroups
    Candidates <- MCCandidates
    Later <- Short
    RouteDirectories <- MCRouteDirectories
    MaxRounds = 2
    MaxChanges = 2
    MaxFailures = 1
INVARIANTS
    ReferencesMean
    TypesComplete
    HelpersCurrent
CHECK_DEADLOCK FALSE
