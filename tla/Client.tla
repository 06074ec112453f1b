------------------------------- MODULE Client -------------------------------
(***************************************************************************)
(* The server with someone at the REPL, or a scenario, who builds a        *)
(* request against the document of one of the runners and sends it, while  *)
(* everything else goes on.                                                *)
(*                                                                         *)
(* Builders and requests know nothing of each other, so that a builder is  *)
(* only worked on between two requests, requests of others are only looked *)
(* at when there is none, and one that has been sent is forgotten: to keep *)
(* it is the same as to have made it twice.                                *)
(***************************************************************************)
EXTENDS Server, RouteBuilder

CONSTANTS
    Catalogs,  \* the pairs <<runner, route path>> that builders are made for
    Inputs,    \* for each of them, what is set: [of, values]
    Spellings  \* of the methods that are chosen

VARIABLES
    builder,
    seen       \* history: the document that the builder looked at last

clientVars == <<vars, builder, seen>>

NoBuilder == [catalog |-> 0]

ClientInit == Init /\ builder = NoBuilder /\ seen = Undefined

DocumentOf(b) == runners[b.catalog].document

\* An operation of a builder that yields another one.
Becomes(b) ==
    /\ exchange.stage = "idle"
    /\ builder' = Resolved(b, DocumentOf(b)) /\ seen' = DocumentOf(b)
    /\ UNCHANGED vars

MakeRoute(catalog, routePath) ==
    builder = NoBuilder /\ Becomes(NewBuilder(catalog, routePath))
SetMethod(method) ==
    builder # NoBuilder /\ Becomes(WithMethod(builder, method))
Add(input) ==
    /\ builder # NoBuilder /\ input \in Inputs[builder.catalog, builder.routePath]
    /\ Becomes(With(builder, input))

\* send() throws when something is missing; otherwise the request arrives.
Send ==
    /\ builder # NoBuilder /\ CanSend(builder)
    /\ Arrive(RequestOf(builder))
    /\ builder' = NoBuilder /\ seen' = Undefined

ClientNext ==
    \/ builder = NoBuilder /\ Arrivals /\ UNCHANGED <<builder, seen>>
    \/ Others /\ UNCHANGED <<builder, seen>>
    \/ \E catalog \in Catalogs : MakeRoute(catalog[1], catalog[2])
    \/ \E method \in Spellings : SetMethod(method)
    \/ \E pair \in Catalogs : \E input \in Inputs[pair] : Add(input)
    \/ Send

ClientSpec == ClientInit /\ [][ClientNext]_clientVars

-----------------------------------------------------------------------------
(* Properties.                                                             *)

\* The operation that a runner takes a request for.
OperationOf(r, request) ==
    LET path == PathAt(r, request)
        pattern == IF IsVersioned(runners[r]) THEN SelectedContractPath(Refreshed(runners[r]), path)
                   ELSE Handler(runners[r].registry, request.method, path).matchedPath
    IN [pattern |-> pattern,
        declared |-> OperationForPathAndMethod(runners[r].document, pattern, request.method)]

\* What the server finds missing in a request, but for what a builder cannot
\* see to: objects that are spread over the query, cookies whose names change
\* when they are encoded, and bodies of methods that it sends without one.
FoundMissing(operation, request) ==
    LET IsPlain(p) == /\ ~ IsExplodedObjectQueryParam(p)
                      /\ p.in = "cookie" => EncodedName[p.name] = p.name
        Lacking(place, values) ==
          {<<place, p.name>> : p \in {q \in MissingRequired(operation.parameters, place, values) :
                                       IsPlain(q)}}
    IN Lacking("query", request.query)
       \cup Lacking("header", request.headers)
       \cup Lacking("cookie", request.cookie)
       \cup (IF /\ operation.requestBody # Undefined /\ request.method \in EntityMethods
                /\ operation.requestBody.required /\ request.body = Undefined
             THEN {<<"body", "is required">>} ELSE {})

\* A request that a builder holds for ready is not found to lack anything by
\* the runner that it was built for, when that takes it for the same operation
\* and its document is still the one the builder looked at (RouteBuilder.
\* missing() and send(), validateRequest()).
ReadyIsComplete ==
    [][Arrives /\ builder # NoBuilder =>
         LET r == exchange'.runner
             request == exchange'.request
             operation == OperationOf(r, request)
             meant == /\ r = builder.catalog /\ seen = DocumentOf(builder)
                      /\ operation.declared # Undefined
                      /\ KeyOf(operation.pattern) = KeyOf(builder.routePath)
         IN meant => FoundMissing(operation.declared, request) = {}]_clientVars
=============================================================================
