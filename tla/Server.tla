------------------------------- MODULE Server -------------------------------
(***************************************************************************)
(* The routing of requests by the Koa application: create-koa-app.ts from  *)
(* the body parser on, routes-middleware.ts and is-proxy-enabled-for-      *)
(* path.ts, over the runners, each with its registry and document, while   *)
(* files are loaded, documents change and proxy settings are made.         *)
(*                                                                         *)
(* Everything between the arrival of a request and the call of its handler *)
(* happens in one piece; the handler, with its middleware, is awaited.     *)
(* One request is followed at a time: requests meet only through what the  *)
(* other actions change.                                                   *)
(***************************************************************************)
EXTENDS Dispatcher

CONSTANTS
    InitialRunners,     \* sequence of [prefix, version, document, contract, registry]
    RouteModules,       \* the pairs <<path, module>> that a watcher may report
    MiddlewarePaths,    \* where a middleware may appear
    Documents,          \* what a document may change to
    Requests,           \* the requests that may arrive
    Replies,            \* what handlers and middleware may return
    ProxySettings,      \* the pairs <<path, BOOLEAN>> that users set
    ProxyUrls,
    InitialProxyUrl,
    MaxChanges          \* bound on changes

VARIABLES
    runners,            \* the state of each runner
    proxyPaths,         \* the map that REPL, Admin API and routing share
    proxyUrl,           \* config.proxyUrl
    routedUrl,          \* the copy of it that the application was created with
    exchange,           \* the request at hand and what became of it
    changes

vars == <<runners, proxyPaths, proxyUrl, routedUrl, exchange, changes>>

Idle == [stage |-> "idle"]

Init ==
    /\ runners = InitialRunners
    /\ proxyPaths = <<>>
    /\ proxyUrl = InitialProxyUrl
    /\ routedUrl = InitialProxyUrl
    /\ exchange = Idle
    /\ changes = 0

-----------------------------------------------------------------------------
(* Routing.                                                                *)

\* Slashes at the end of a prefix do not count; the prefix itself is "/".
PathWithinPrefix(url, configured) ==
    LET prefix == SubSeq(configured, 1, Max({0} \cup {i \in DOMAIN configured :
                                                        configured[i] # NoSegment}))
    IN CASE prefix = <<>> -> url
         [] prefix # <<>> /\ url = prefix -> <<NoSegment>>
         [] prefix # <<>> /\ url # prefix /\ IsPrefix(prefix, url) ->
              SubSeq(url, Len(prefix) + 1, Len(url))
         [] OTHER -> Undefined

\* The setting of the longest prefix decides; "" is the root of all paths.
IsProxyEnabledForPath(path) ==
    LET Enabled[n \in 0 .. Len(path)] ==
          LET parent == SubSeq(path, 1, n)
          IN IF parent \in DOMAIN proxyPaths THEN proxyPaths[parent]
             ELSE n > 0 /\ Enabled[n - 1]
    IN Enabled[Len(path)]

IsProxied(path) == routedUrl # Undefined /\ IsProxyEnabledForPath(path)

\* addCors(): the headers of an answer tell which methods are allowed.
AddCors(does, methods) ==
    [field \in DOMAIN does \cup {"cors"} |-> IF field = "cors" THEN methods ELSE does[field]]

\* routesMiddleware(), when the path is within the prefix: what is done with a
\* request, with the allowed methods of all candidates if they were gathered.
Routed(runner, path, request, override) ==
    LET WithAllow(call) ==
          IF /\ call.is = "answer" /\ call.status = "405"
             /\ override # Undefined /\ ~ IsVersioned(runner)
          THEN [call EXCEPT !.allow = override] ELSE call
        Preflight == [Answer("200", {}) EXCEPT !.contentType = Undefined, !.body = Undefined]
        allowed == IF override = Undefined THEN AllowedMethodsForPath(runner, path) ELSE override
    IN IF IsProxied(path) THEN [is |-> "proxied", target |-> routedUrl]
       ELSE AddCors(IF request.method = "OPTIONS" THEN Preflight
                    ELSE WithAllow(Call(runner, path, request)), allowed)

NextMiddleware == AddCors(Answer("404", {}), {})

Candidates(request) ==
    {r \in DOMAIN runners : PathWithinPrefix(request.url, runners[r].prefix) # Undefined}

\* routesMiddlewareForRunners(): the first candidate that takes the request,
\* or else the first that knows the path, on behalf of all: <<the runner, the
\* allowed methods if they were gathered>>, or <<>>.
Select(request, state) ==
    LET Path(r) == PathWithinPrefix(request.url, state[r].prefix)
        Takes(r) == IsProxied(Path(r)) \/ CanHandleRequest(state[r], Path(r), request.method)
        Allowed(r) == AllowedMethodsForPath(state[r], Path(r))
        candidates == Candidates(request)
        takers == IF Len(runners) = 1 THEN candidates ELSE {r \in candidates : Takes(r)}
        owners == {r \in candidates : Allowed(r) # {}}
    IN CASE takers # {} -> <<Min(takers), Undefined>>
         [] takers = {} /\ (candidates = {} \/ (owners = {} /\ request.method # "OPTIONS")) -> <<>>
         [] OTHER -> <<Min(IF owners = {} THEN candidates ELSE owners),
                       UNION {Allowed(r) : r \in owners}>>

Given(choice, request, state) ==
    IF choice = <<>> THEN [runner |-> 0, does |-> NextMiddleware]
    ELSE [runner |-> choice[1],
          does |-> Routed(state[choice[1]], PathWithinPrefix(request.url, state[choice[1]].prefix),
                          request, choice[2])]

\* An object is sent as JSON, whatever type it was given.
Serialized(answer) ==
    IF answer.body = "object" THEN [answer EXCEPT !.contentType = Json] ELSE answer

-----------------------------------------------------------------------------
(* Requests.                                                               *)

\* A request that calls no handler is answered at once.
Exchange(request, given) ==
    [stage |-> IF given.does.is = "handler" THEN "handling" ELSE "answered",
     request |-> request, runner |-> given.runner, call |-> given.does,
     answer |-> IF given.does.is \in {"ambiguous", "missing"}
                THEN Serialized(Respond(given.does, NoHandlerResponse(given.does), request.accept))
                ELSE given.does,
     reply |-> Undefined]

\* A request arrives, and contracts that its selection consults are refreshed.
Arrive(request) ==
    LET state == [r \in DOMAIN runners |->
                    IF r \in Candidates(request) THEN Refreshed(runners[r]) ELSE runners[r]]
    IN /\ exchange.stage = "idle"
       /\ runners' = state
       /\ exchange' = Exchange(request, Given(Select(request, state), request, state))
       /\ UNCHANGED <<proxyPaths, proxyUrl, routedUrl, changes>>

\* What the builder has to go by when no operation is declared.
NoOperation == [parameters |-> <<>>, requestBody |-> Undefined, responses |-> <<>>,
                produces |-> <<>>]

\* What a reply is to the dispatcher.
ResponseOf(reply, call) ==
    LET operation == IF call.operation = Undefined THEN NoOperation ELSE call.operation
    IN CASE reply.by = "text" ->
              [SelectStatus("200", <<>>) EXCEPT !.contentType = TextPlain, !.body = "text"]
         [] reply.by = "nothing" -> [SelectStatus("500", <<>>) EXCEPT !.body = "message"]
         [] reply.by = "object" -> reply.response
         [] reply.by = "json" -> MatchTypes(SelectStatus(reply.status, <<>>), JsonTypes, "object")
         [] reply.by = "match" -> MatchType(SelectStatus(reply.status, <<>>), reply.media, "text")
         [] reply.by = "random" -> Random(operation, SelectStatus(reply.status, <<>>))
         [] reply.by = "example" -> Example(operation, SelectStatus(reply.status, <<>>), reply.name)
         [] reply.by = "stream" -> Stream(operation, SelectStatus(reply.status, <<>>))

\* The handler, or a middleware around it, returns or throws.  A middleware
\* that returns nothing is answered past the negotiation.
Finish(reply) ==
    LET call == exchange.call
    IN /\ exchange.stage = "handling"
       /\ reply.by = "lost" => call.chain # <<>>
       /\ exchange' = [exchange EXCEPT !.stage = "answered", !.reply = reply, !.answer =
            IF reply.by \in {"throw", "lost"} THEN Answer("500", {})
            ELSE Serialized(Respond(call, ResponseOf(reply, call), exchange.request.accept))]
       /\ UNCHANGED <<runners, proxyPaths, proxyUrl, routedUrl, changes>>

\* The answer is sent, and another request may be looked at.
Leave ==
    /\ exchange.stage = "answered"
    /\ exchange' = Idle
    /\ UNCHANGED <<runners, proxyPaths, proxyUrl, routedUrl, changes>>

-----------------------------------------------------------------------------
(* What changes meanwhile.                                                 *)

Change ==
    /\ changes < MaxChanges
    /\ changes' = changes + 1
    /\ UNCHANGED <<routedUrl, exchange>>

LoadRoute(r, path, module) ==
    /\ Change
    /\ runners' = [runners EXCEPT ![r].registry = AddRoute(@, path, module)]
    /\ UNCHANGED <<proxyPaths, proxyUrl>>

DropRoute(r, path) ==
    /\ Change
    /\ runners' = [runners EXCEPT ![r].registry = RemoveRoute(@, path)]
    /\ UNCHANGED <<proxyPaths, proxyUrl>>

LoadMiddleware(r, path) ==
    /\ Change
    /\ runners' = [runners EXCEPT ![r].registry = AddMiddleware(@, path)]
    /\ UNCHANGED <<proxyPaths, proxyUrl>>

ReloadDocument(r, document) ==
    /\ Change
    /\ runners[r].document # Undefined
    /\ runners' = [runners EXCEPT ![r].document = document]
    /\ UNCHANGED <<proxyPaths, proxyUrl>>

\* .proxy on, .proxy off and the Admin API.
SetProxy(path, on) ==
    /\ Change
    /\ proxyPaths' = (path :> on) @@ proxyPaths
    /\ UNCHANGED <<runners, proxyUrl>>

\* .proxy url and the Admin API write the configuration.
SetProxyUrl(url) ==
    /\ Change
    /\ proxyUrl' = url
    /\ UNCHANGED <<runners, proxyPaths>>

Arrivals == \E request \in Requests : Arrive(request)
Others ==
    \/ \E reply \in Replies : Finish(reply)
    \/ Leave
    \/ \E r \in DOMAIN runners :
         \/ \E pair \in RouteModules : \/ LoadRoute(r, pair[1], pair[2])
                                       \/ DropRoute(r, pair[1])
         \/ \E path \in MiddlewarePaths : LoadMiddleware(r, path)
         \/ \E document \in Documents : ReloadDocument(r, document)
    \/ \E setting \in ProxySettings : SetProxy(setting[1], setting[2])
    \/ \E url \in ProxyUrls : SetProxyUrl(url)

Next == Arrivals \/ Others

Spec == Init /\ [][Next]_vars

-----------------------------------------------------------------------------
(* What routing has to do, stated without the tree: a pattern fits a URL   *)
(* segment by segment, and is preferred to another one when it is literal  *)
(* where they first differ.                                                *)

FitsPath(pattern, path) ==
    /\ Len(pattern) = Len(path)
    /\ \A i \in DOMAIN pattern :
         IsWildcard(pattern[i]) \/ LowerCase[pattern[i]] = LowerCase[path[i]]

FitsUrl(pattern, url) == FitsPath(pattern, WithoutLastSlash(url))

Preferred(pattern, other) ==
    \E i \in DOMAIN pattern \cap DOMAIN other :
        /\ ~ IsWildcard(pattern[i]) /\ IsWildcard(other[i])
        /\ \A j \in 1 .. i - 1 : LowerCase[pattern[j]] = LowerCase[other[j]]

\* The route that Match ought to find for a method: no directory on the way
\* that was ever made, and no file, is preferred to it.
Reachable(tree, route, url, method) ==
    LET path == WithoutLastSlash(url)
        OnTheWay(key) == Len(key) < Len(path) /\ FitsPath(key, SubSeq(path, 1, Len(key)))
    IN /\ FitsPath(route.path, path) /\ MethodFromModule(route.module, method)
       /\ \A d \in ToSet(tree.directories) : OnTheWay(d.key) => ~ Preferred(d.key, route.path)
       /\ \A other \in Routes(tree) : FitsPath(other.path, path) => ~ Preferred(other.path, route.path)

PathAt(r, request) == WithoutBasePath(runners[r], PathWithinPrefix(request.url, runners[r].prefix))

\* The pattern of the contract of a runner that fits best, if there is one.
Declared(r, url) ==
    LET patterns == {KeyOf(item.path) : item \in ToSet(runners[r].document.paths)}
        fitting == {p \in patterns : FitsUrl(p, url)}
    IN {p \in fitting : \A q \in fitting : ~ Preferred(q, p)}

Declares(r, pattern, method) ==
    \E item \in ToSet(runners[r].document.paths) :
        KeyOf(item.path) = pattern /\ {method, LowerCase[method]} \cap DOMAIN item.operations # {}

CanServe(r, request) ==
    LET url == PathAt(r, request)
        tree == runners[r].registry.tree
        Has(route) == MethodFromModule(route.module, request.method)
    IN /\ PathWithinPrefix(request.url, runners[r].prefix) # Undefined
       /\ IF IsVersioned(runners[r])
          THEN \E p \in Declared(r, url) : /\ Declares(r, p, request.method)
                                          /\ \E route \in Routes(tree) : KeyOf(route.path) = p /\ Has(route)
          ELSE \E route \in Routes(tree) : Reachable(tree, route, url, request.method)

-----------------------------------------------------------------------------
(* Properties.                                                             *)

Arrives == exchange.stage = "idle" /\ exchange' # exchange
Called == Arrives /\ exchange'.stage = "handling"
Refused == Arrives /\ (exchange'.call.is = "missing"
                        \/ (exchange'.call.is = "answer"
                            /\ exchange'.call.status \in {"404", "405"}))

\* The tree binds every wildcard of a path, the pattern of a contract only what
\* is in braces: {name}.json is a wildcard that a versioned runner leaves unbound.
BoundBy(runner, segment) == IF IsVersioned(runner) THEN IsBraced(segment) ELSE IsWildcard(segment)

\* A handler is called for a URL only when its route fits the URL, has the
\* method, and no route or directory is preferred to it; the path variables that
\* are bound are the segments of the URL in their places (module-tree.ts, registry.ts).
BestRouteServes ==
    [][Called => LET r == exchange'.runner
                     call == exchange'.call
                     url == PathAt(r, exchange'.request)
                     tree == runners[r].registry.tree
                 IN \E route \in Routes(tree) :
                      /\ KeyOf(route.path) = KeyOf(call.matchedPath)
                      /\ FitsUrl(route.path, url) /\ MethodFromModule(route.module, exchange'.request.method)
                      /\ IsVersioned(runners[r]) \/ Reachable(tree, route, url, exchange'.request.method)
                      /\ \A i \in DOMAIN route.path : BoundBy(runners[r], route.path[i]) =>
                           call.arguments.path[route.path[i]].of = url[i]]_vars

\* The two ways to a handler agree but for wildcards that are not in braces: the
\* pattern that a URL matches leads back to the same file, and binds the same
\* variables in braces and no other ones (match() and matchPattern()).
PatternAgrees ==
    exchange.stage # "idle" => \A r \in DOMAIN runners :
        LET registry == runners[r].registry
            url == PathAt(r, exchange.request)
            found == Handler(registry, exchange.request.method, url)
            again == HandlerForPattern(registry, url, found.matchedPath)
        IN /\ PathWithinPrefix(exchange.request.url, runners[r].prefix) # Undefined
           /\ found.matchedPath # <<>>
           => /\ again.module = found.module
              /\ again.pathVariables = RestrictDomain(found.pathVariables, IsBraced)

\* A runner of a version calls a handler only for an operation that its present
\* document declares at the pattern that fits best, in the file of that pattern
\* (selectedContractPath(), handlerForPattern()).
DeclaredOnly ==
    [][Called => LET r == exchange'.runner
                     pattern == KeyOf(exchange'.call.matchedPath)
                 IN IsVersioned(runners[r]) =>
                      /\ pattern \in Declared(r, PathAt(r, exchange'.request))
                      /\ Declares(r, pattern, exchange'.request.method)]_vars

\* A versioned runner alone answers 404 to a URL that no path of its contract
\* fits (docs/api/simulator.md).
AbsentPathIs404 ==
    [][Arrives => LET r == exchange'.runner
                  IN r # 0 => (IsVersioned(runners[r]) /\ Declared(r, PathAt(r, exchange'.request)) = {}
                                 => exchange'.stage # "handling")]_vars

\* What is proxied goes to the URL that was set last (.proxy url, docs/features/
\* proxy.md).
ProxiedToSetting ==
    [][Arrives /\ exchange'.call.is = "proxied" => exchange'.call.target = proxyUrl]_vars

\* No request is refused while some runner could serve it: neither for the sake
\* of another runner with the same prefix, nor because another version has the
\* path (routesMiddlewareForRunners()).
ServedIfPossible ==
    [][Refused => \A r \in DOMAIN runners : ~ CanServe(r, exchange'.request)]_vars

\* The methods that a 405 of an unversioned runner allows, gathered from all
\* runners, are methods that a runner declares or serves (Allow).
AllowIsServed ==
    [][Arrives /\ exchange'.call.is = "answer" =>
         \A method \in exchange'.answer.allow : \E r \in DOMAIN runners :
           \/ CanServe(r, [exchange'.request EXCEPT !.method = method])
           \/ /\ IsVersioned(runners[r])
              /\ PathWithinPrefix(exchange'.request.url, runners[r].prefix) # Undefined
              /\ \E p \in Declared(r, PathAt(r, exchange'.request)) : Declares(r, p, method)]_vars

\* The values of parameters have the types that they are declared with.
HasTypes(query, parameters) ==
    \A p \in {q \in ToSet(parameters) : q.in = "query"} :
        LET type == DeclaredType(p)
        IN /\ p.required => p.name \in DOMAIN query
           /\ p.name \in DOMAIN query =>
                CASE type \in {"integer", "number"} -> query[p.name].kind = "number"
                  [] type \in {"boolean", "array"} -> query[p.name].kind = type
                  [] OTHER -> TRUE

\* When requests are validated, what a handler gets for a parameter of the query
\* has the type that its operation declares, and required ones are there.
TypedArguments ==
    exchange.stage = "handling" /\ exchange.call.operation # Undefined =>
        HasTypes(exchange.call.arguments.query, exchange.call.operation.parameters)

\* What is sent in answer to a handler has a type that the client accepts, or
\* the status is 406; and it is 406 only if nothing on offer was acceptable
\* (selectContent(), isMediaType()).
Acceptable ==
    exchange.stage = "answered" /\ exchange.reply # Undefined
      /\ exchange.reply.by \notin {"throw", "lost"} =>
        LET answer == exchange.answer
            Accepted(media) == \E range \in ToSet(exchange.request.accept) :
                                 \A i \in {1, 2} : range[i] \in {"*", media[i]}
            response == ResponseOf(exchange.reply, exchange.call)
        IN IF answer.status = "406"
           THEN IF response.content = Undefined
                THEN ~ Accepted(NormalizeResponse(response, <<>>).contentType)
                ELSE \A c \in ToSet(response.content) : ~ Accepted(c.type)
           ELSE answer.body = Undefined \/ Accepted(answer.contentType)
=============================================================================
