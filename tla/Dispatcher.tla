----------------------------- MODULE Dispatcher -----------------------------
(***************************************************************************)
(* dispatcher.ts: what a request meets at a runner that has a registry, a  *)
(* document and a version, and what becomes of the response of a handler,  *)
(* as operators.                                                           *)
(*                                                                         *)
(* A document is [basePath, paths, securitySchemes, produces]; its paths   *)
(* are a sequence of [path, parameters, operations], in the order of the   *)
(* keys, where operations maps a method, in lower case, or the name of an  *)
(* additional operation to what it declares.                               *)
(***************************************************************************)
EXTENDS ResponseBuilder

CONSTANTS
    StartsWith,                             \* the pairs <<segment, beginning of it>>
    ValidateRequests, ValidateResponses     \* settings of the process

\* Operation-level parameters take the place of those of the path item.
MergeParameters(first, second) == Merged(first \o second)

IsVersioned(runner) == runner.version # Undefined /\ runner.document # Undefined

\* withoutBasePath(): the text of the base path is cut off when the path starts
\* with it, in any case and not only at a slash; what remains of the segment in
\* which it ends stands before the first slash and is lost.
WithoutBasePath(runner, path) ==
    LET base == IF runner.document = Undefined THEN <<>> ELSE KeyOf(runner.document.basePath)
        k == Len(base)
        Starts == /\ k <= Len(path)
                  /\ SubSeq(KeyOf(path), 1, k - 1) = Front(base)
                  /\ <<LowerCase[path[k]], base[k]>> \in StartsWith
    IN IF k > 0 /\ Starts THEN SubSeq(path, k + 1, Len(path)) ELSE path

\* The tree of the patterns of a contract, with one method for all of them.
ContractMethod == "__contract"
ContractTree(paths) ==
    LET Tree[n \in 0 .. Len(paths)] ==
          IF n = 0 THEN NewTree ELSE AddModule(Tree[n - 1], paths[n].path, {ContractMethod})
    IN Tree[Len(paths)]

\* Fault: the tree is built once.
RefreshedOnce(runner) ==
    IF IsVersioned(runner) /\ runner.contract = <<>>
    THEN [runner EXCEPT !.contract = runner.document.paths] ELSE runner

\* The tree is kept, and built anew when the document has other paths.
Refreshed(runner) ==
    IF IsVersioned(runner) /\ runner.contract # runner.document.paths
    THEN [runner EXCEPT !.contract = runner.document.paths] ELSE runner

\* selectedContractPath(): <<>> when no pattern of the contract fits.
SelectedContractPath(runner, path) ==
    Match(ContractTree(runner.contract), path, ContractMethod).matchedPath

FindPathItem(document, path) ==
    LET same == IF document = Undefined THEN {}
                ELSE {i \in DOMAIN document.paths : KeyOf(document.paths[i].path) = KeyOf(path)}
    IN IF same = {} THEN Undefined ELSE document.paths[Min(same)]

ApiKeySecurityParameters(document) ==
    [i \in DOMAIN document.securitySchemes |->
       [name |-> document.securitySchemes[i].name, in |-> document.securitySchemes[i].in,
        required |-> FALSE, type |-> "string", schema |-> Undefined,
        style |-> Undefined, explode |-> Undefined]]

\* operationForPathAndMethod(): the operation under the method's own name, or
\* an additional one, with every parameter that applies to it.
OperationForPathAndMethod(document, path, method) ==
    LET item == FindPathItem(document, path)
        names == {LowerCase[method], method} \cap DOMAIN item.operations
        operation == item.operations[IF LowerCase[method] \in names THEN LowerCase[method] ELSE method]
        own == MergeParameters(item.parameters, operation.parameters)
        all == MergeParameters(own, ApiKeySecurityParameters(document))
    IN IF item = Undefined THEN Undefined
       ELSE IF names = {} THEN Undefined
       ELSE [operation EXCEPT !.parameters = all,
                              !.produces = IF @ = <<>> THEN document.produces ELSE @]

ContractMethods(document, pattern) ==
    LET item == FindPathItem(document, pattern)
    IN IF item = Undefined THEN {} ELSE {UpperCase[name] : name \in DOMAIN item.operations}

\* Fault: any file of the directory that fits counts, whatever the contract.
CanHandleSomehow(runner, url, method) ==
    Exists(runner.registry, method, WithoutBasePath(runner, url))

CanHandleRequest(runner, url, method) ==
    LET path == WithoutBasePath(runner, url)
        Serves(pattern) ==
          /\ pattern # <<>>
          /\ OperationForPathAndMethod(runner.document, pattern, method) # Undefined
          /\ ExistsForPattern(runner.registry, method, path, pattern)
    IN IF IsVersioned(runner) THEN Serves(SelectedContractPath(runner, path))
       ELSE Exists(runner.registry, method, path)

AllowedMethodsForPath(runner, url) ==
    LET path == WithoutBasePath(runner, url)
        Declared(pattern) == IF pattern = <<>> THEN {} ELSE ContractMethods(runner.document, pattern)
    IN IF IsVersioned(runner) THEN Declared(SelectedContractPath(runner, path))
       ELSE MethodsForPath(runner.registry, path)

\* authWithApiKey(): the key of the first scheme that there is, or "".
ApiKey(document, request) ==
    LET scheme == Head(document.securitySchemes)
        values == CASE scheme.in = "query" -> request.query
                    [] scheme.in = "cookie" -> request.cookie
                    [] OTHER -> request.headers
        name == IF scheme.in = "header" THEN LowerCase[scheme.name] ELSE scheme.name
    IN IF document = Undefined THEN Undefined
       ELSE IF document.securitySchemes = <<>> THEN Undefined
       ELSE IF name \in DOMAIN values
            THEN IF values[name].kind = "list" THEN Head(values[name].items) ELSE values[name].of
            ELSE NoSegment

\* $.minVersion(): never true for a version that the group does not have.
MinVersion(runner, versions, minimum) ==
    LET Index(v) == CHOOSE i \in DOMAIN versions : versions[i] = v
    IN /\ {runner.version, minimum} \subseteq ToSet(versions)
       /\ Index(runner.version) >= Index(minimum)

-----------------------------------------------------------------------------
(* request(), up to the call of the handler.                               *)

Answer(status, allow) ==
    [is |-> "answer", status |-> status, allow |-> allow, contentType |-> TextPlain,
     headers |-> <<>>, body |-> "message", errors |-> {}]

\* The arguments of a handler: what its parameters become.
Arguments(runner, operation, request, endpoint) ==
    LET parameters == IF operation = Undefined THEN <<>> ELSE operation.parameters
        ByLowerCase(types) ==
          [name \in {LowerCase[n] : n \in DOMAIN types} |->
             types[CHOOSE n \in DOMAIN types : LowerCase[n] = name]]
    IN [path |-> CastParameters(endpoint.path, ParameterTypes(parameters, "path")),
        query |-> CastParameters(
                    NormalizeArrayQueryParameters(
                      CollectExplodedObjectParams(request.query, parameters), parameters),
                    ParameterTypes(parameters, "query")),
        headers |-> CastParameters(request.headers, ByLowerCase(ParameterTypes(parameters, "header"))),
        cookie |-> request.cookie,
        body |-> request.body,
        apiKey |-> ApiKey(runner.document, request)]

\* A multipart body is decoded by the schema that the operation declares.
WithDecodedBody(operation, request) ==
    LET schema == IF operation = Undefined THEN Undefined
                  ELSE IF operation.requestBody = Undefined THEN Undefined
                  ELSE IF Multipart \notin DOMAIN operation.requestBody.content THEN Undefined
                  ELSE operation.requestBody.content[Multipart]
    IN IF request.contentType = Multipart
       THEN [request EXCEPT !.body = NormalizeMultipartBody(@, schema)] ELSE request

\* What becomes of a request at an endpoint.
Met(runner, matchedPath, operation, request, endpoint) ==
    [is |-> endpoint.is, operation |-> operation,
     matchedPath |-> endpoint.matchedPath, context |-> matchedPath,
     chain |-> endpoint.chain,
     arguments |-> Arguments(runner, operation, request, endpoint)]

\* Only a valid request, its body decoded, gets to an endpoint.
Validated(runner, path, matchedPath, operation, request) ==
    IF ValidateRequests /\ ValidateRequest(operation, request) # {} THEN Answer("400", {})
    ELSE Met(runner, matchedPath, operation, request,
             Endpoint(runner.registry, request.method, path,
                      IF IsVersioned(runner) THEN matchedPath ELSE <<>>))

\* Only a request that the contract, or else the directory, has gets further.
Admitted(runner, path, matchedPath, operation, request) ==
    CASE IsVersioned(runner) /\ operation = Undefined ->
           IF matchedPath = <<>> THEN Answer("404", {})
           ELSE Answer("405", ContractMethods(runner.document, matchedPath))
      [] /\ ~ IsVersioned(runner)
         /\ ~ Exists(runner.registry, request.method, path)
         /\ PathExistsWithAnyMethod(runner.registry, path, request.method) ->
           Answer("405", MethodsForPath(runner.registry, path))
      [] OTHER -> Validated(runner, path, matchedPath, operation, WithDecodedBody(operation, request))

\* A call of the handler, or the answer to a request that has none.
Call(runner, url, request) ==
    LET path == WithoutBasePath(runner, url)
        matchedPath == IF IsVersioned(runner) THEN SelectedContractPath(runner, path)
                       ELSE Handler(runner.registry, request.method, path).matchedPath
    IN Admitted(runner, path, matchedPath,
                OperationForPathAndMethod(runner.document, matchedPath, request.method), request)

-----------------------------------------------------------------------------
(* request(), after the call of the handler.                               *)

\* What stands for the handler when there is none to call.
NoHandlerResponse(call) ==
    [SelectStatus(IF call.is = "ambiguous" THEN "500" ELSE "404", <<>>)
       EXCEPT !.contentType = TextPlain, !.body = "message"]

\* The check of the response uses the operation that the call began with, and
\* is advice: its errors are sent along.  It is left out when the type of the
\* body does not fit the Accept header.
Respond(call, response, accept) ==
    LET sent == NormalizeResponse(response, accept)
    IN IF ~ Fits(sent, accept) THEN [Answer("406", {}) EXCEPT !.contentType = Undefined]
       ELSE [Answer(IF sent.status = Undefined THEN "200" ELSE sent.status, {})
               EXCEPT !.contentType = sent.contentType, !.headers = sent.headers, !.body = sent.body,
                      !.errors = IF ValidateResponses THEN ValidateResponse(call.operation, sent)
                                 ELSE {}]
=============================================================================
