SPECIFICATION ClientSpec
CONSTANTS
    Undefined = Undefined
    WildSegment <- MCWildSegment
    BracedSegment <- MCBracedSegment
    LowerCase <- MCLowerCase
    UpperCase <- MCUpperCase
    DefaultMethods <- MCDefaultMethods
    StartsWith <- MCStartsWith
    DecimalText <- MCDecimalText
    IntegerText <- MCIntegerText
    Pieces <- MCPieces
    JsonObject = {}
    SchemaOf <- MCSchemaOf
    Conforms <- MCConforms
    ValidateRequests = TRUE
    ValidateResponses = TRUE
    InitialRunners <- TwoVersions
    RouteModules <- Changing
    MiddlewarePaths <- MCMiddlewarePaths
    Documents <- MCDocuments
    Requests <- MCRequests
    Replies <- MCReplies
    ProxySettings <- MCProxySettings
    ProxyUrls = {"other"}
    InitialProxyUrl = "upstream"
    EncodedName <- MCEncodedName
    Catalogs <- MCCatalogs
    Inputs <- MCInputs
    Spellings = {"get", "POST"}
    MaxChanges = 2
    ObjectTypes <- MCObjectTypes
    Variables <- MCWildSegment
    FileNames <- MCFileNames
    OperationNames <- MCOperationNames
INVARIANTS PatternAgrees TypedArguments Acceptable
PROPERTIES BestRouteServes DeclaredOnly ServedIfPossible AllowIsServed ReadyIsComplete
