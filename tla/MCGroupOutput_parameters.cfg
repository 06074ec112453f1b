SPECIFICATION Spec
CONSTANTS
    Documents <- ReferringDocuments
    Identifier <- MCIdentifier
    Directories <- MCDirectories
    Root = "/"
    Parent <- MCParent
    Nested = TRUE
    Groups <- Unversioned
    Candidates <- JustReferring
    Later <- Short
    RouteDirectories <- MCRouteDirectories
    MaxRounds = 1
    MaxChanges = 0
    MaxFailures = 0
INVARIANTS
    ParametersKept
CHECK_DEADLOCK FALSE
