------------------------------ MODULE MCServer ------------------------------
(***************************************************************************)
(* Instances of Server: two versions of an API in one directory beside an  *)
(* API without versions, under the same and under different prefixes.      *)
(***************************************************************************)
EXTENDS Server_proofs

Segments == {"", "api", "pets", "5", "x", "{id}", "{kind}", "{id}.json"}
Methods == {"GET", "POST", "OPTIONS"}
MCBracedSegment == {"{id}", "{kind}"}
MCWildSegment == MCBracedSegment \cup {"{id}.json"}
MCLowerCase == [s \in Segments \cup {"Pets", "get", "post", "options", "limit", "flag", "ids", "min",
                                      "x-request", "X-Request", "cookie", "Cookie", "__contract"} \cup Methods |->
    CASE s = "Pets" -> "pets" [] s = "GET" -> "get" [] s = "POST" -> "post"
      [] s = "OPTIONS" -> "options" [] s = "X-Request" -> "x-request" [] s = "Cookie" -> "cookie"
      [] OTHER -> s]
MCUpperCase == [s \in Methods \cup {"get", "post"} |->
    CASE s = "get" -> "GET" [] s = "post" -> "POST" [] OTHER -> s]
MCDefaultMethods == Methods
MCStartsWith == {<<s, s>> : s \in Segments} \cup {<<s, "">> : s \in Segments}

MCDecimalText == {"1", "2", "5"}
MCIntegerText == {"1", "2", "5"}
MCPieces == (<<"1,2", ",">> :> <<"1", "2">>)

Plain == [type |-> {}, allOf |-> {}, anyOf |-> {}, items |-> Undefined,
          prefixItems |-> <<>>, properties |-> <<>>]
MCSchemaOf ==
    ("integer" :> [Plain EXCEPT !.type = {"integer"}])
    @@ ("nullable" :> [Plain EXCEPT !.type = {"integer", "null"}])
    @@ ("either" :> [Plain EXCEPT !.anyOf = {"integer", "nullable"}])
    @@ ("boolean" :> [Plain EXCEPT !.type = {"boolean"}])
    @@ ("integers" :> [Plain EXCEPT !.type = {"array"}, !.items = "integer"])
    @@ ("range" :> [Plain EXCEPT !.type = {"object"}, !.properties = ("min" :> "integer")])

Param(name, schema, required) ==
    [name |-> name, in |-> "query", required |-> required, type |-> Undefined, schema |-> schema,
     style |-> Undefined, explode |-> Undefined]
IntegerList == [Param("ids", "integers", FALSE) EXCEPT !.explode = FALSE]

\* One content in two types, one response by default.
Documented ==
    ("200" :> [headers |-> ("x-request" :> [required |-> TRUE, schema |-> "integer"]),
               content |-> <<[type |-> Json, body |-> "object", examples |-> {"one"}],
                             [type |-> EventStream, body |-> "text", examples |-> {}]>>])
Operation(parameters) ==
    [parameters |-> parameters, requestBody |-> Undefined, responses |-> Documented, produces |-> <<>>]
WithBody(operation) ==
    [operation EXCEPT !.requestBody = [required |-> TRUE, content |-> (Json :> "range")]]

Item(path, parameters, operations) ==
    [path |-> path, parameters |-> parameters, operations |-> operations]
Paths(items) ==
    [basePath |-> <<>>, paths |-> items, securitySchemes |-> <<>>, produces |-> <<>>]

V1 == Paths(<<
    Item(<<"pets">>, <<Param("limit", "integer", FALSE)>>,
         ("get" :> Operation(<<Param("limit", "either", TRUE), Param("flag", "boolean", FALSE), IntegerList>>))),
    Item(<<"pets", "{id}.json">>, <<>>, ("get" :> Operation(<<Param("range", "range", FALSE)>>)))>>)
V2 == Paths(<<
    Item(<<"{kind}">>, <<>>, ("post" :> WithBody(Operation(<<>>)))),
    Item(<<"pets", "5">>, <<>>, ("get" :> Operation(<<>>)))>>)
V3 == Paths(<<
    Item(<<"pets">>, <<>>, ("post" :> Operation(<<>>))),
    Item(<<"{kind}">>, <<>>, ("get" :> Operation(<<Param("limit", "integer", FALSE)>>)))>>)
\* What a builder has to see to: parameters of every kind, and a body.
Of(place, p) == [p EXCEPT !.in = place]
V4 == [Paths(<<
    Item(<<"pets", "{id}">>, <<Of("path", Param("{id}", "integer", TRUE)), Param("limit", "integer", TRUE)>>,
         ("get" :> Operation(<<Param("limit", "integer", TRUE), Of("header", Param("x-request", "integer", TRUE)),
                               Of("cookie", Param("sid", "integer", TRUE))>>))),
    Item(<<"x">>, <<>>, ("get" :> Operation(<<Param("range", "range", TRUE),
                                             Of("cookie", Param("my id", "integer", TRUE))>>))
                        @@ ("post" :> WithBody(Operation(<<>>))))>>) EXCEPT !.basePath = <<"api">>]
WithRoot == Paths(<<Item(<<"">>, <<>>, ("get" :> Operation(<<>>))),
                    Item(<<"pets">>, <<>>, ("get" :> Operation(<<>>)))>>)

Load(routes) ==
    FoldLeft(LAMBDA registry, route : AddRoute(registry, route[1], route[2]), NewRegistry, routes)
Runner(prefix, version, document, routes) ==
    [prefix |-> prefix, version |-> version, document |-> document, contract |-> <<>>,
     registry |-> Load(routes)]

PetsRoute == <<<<"pets">>, {"GET"}>>
PetRoute == <<<<"Pets", "{id}">>, {"GET"}>>
JsonRoute == <<<<"Pets", "{id}.json">>, {"GET"}>>
FiveRoute == <<<<"pets", "5">>, {"get"}>>
KindRoute == <<<<"{kind}">>, {"POST", "GET"}>>
NestedRoute == <<<<"{kind}", "x">>, {"GET"}>>
OrderRoute == <<<<"x">>, {"POST", "GET"}>>
RootRoute == <<<<"">>, {"GET"}>>
Group == <<PetsRoute, JsonRoute, KindRoute>>

TwoVersions ==
    <<Runner(<<"api", "">>, "v1", V1, Group), Runner(<<"api">>, "v2", V2, Group),
      Runner(<<>>, Undefined, V4, <<NestedRoute, PetRoute, OrderRoute>>)>>
OneVersion == <<Runner(<<>>, "v1", WithRoot, <<RootRoute, PetsRoute>>)>>
OneRunner == <<Runner(<<>>, Undefined, Undefined, <<PetsRoute, KindRoute>>)>>

Request(method, url) ==
    [method |-> method, url |-> url, accept |-> <<AnyMedia>>, contentType |-> Undefined,
     query |-> ("limit" :> Text("1")), headers |-> <<>>, cookie |-> <<>>, body |-> Undefined]
Pets == Request("GET", <<"api", "pets">>)
Query(query) == [Pets EXCEPT !.query = query]

Queries == {
    Query(<<>>),
    Query("limit" :> Text("x")),
    Query(("limit" :> Text("5")) @@ ("flag" :> Text("true")) @@ ("ids" :> Text("1,2"))),
    Query(("limit" :> List(<<"1", "2">>))),
    Query(("limit" :> Text("5")) @@ ("flag" :> Text("x")))}
Accepting == {
    [Pets EXCEPT !.accept = <<Json>>],
    [Pets EXCEPT !.accept = <<EventStream, TextPlain>>]}
Routings == {
    Request(method, url) : method \in Methods,
    url \in {<<"api", "pets">>, <<"api", "Pets", "5">>, <<"api", "5">>, <<"api", "x", "x", "">>, <<"x">>, <<"api">>}}
RangeBody == ("min" :> Text("1"))
Bodies == {
    [Request("POST", <<"api", "x">>) EXCEPT !.body = RangeBody, !.contentType = Json],
    [Request("GET", <<"api", "pets", "x">>) EXCEPT !.query = ("min" :> Text("1"))]}
MCRequests == Queries \cup Accepting \cup Routings \cup Bodies
RootRequests == {Request(method, url) : method \in {"GET", "POST"},
                                        url \in {<<"">>, <<"pets">>, <<"x">>, <<"x", "x">>}}

MCConforms == {<<RangeBody, "range">>}
MCReplies == {
    [by |-> "text"], [by |-> "nothing"], [by |-> "throw"], [by |-> "lost"],
    [by |-> "object", response |-> SelectStatus(Undefined, <<>>)],
    [by |-> "json", status |-> "200"],
    [by |-> "match", status |-> "200", media |-> <<"text", "html">>],
    [by |-> "random", status |-> "200"],
    [by |-> "example", status |-> "200", name |-> "one"],
    [by |-> "example", status |-> "404", name |-> "one"],
    [by |-> "stream", status |-> "200"]}

\* What is built: requests for the runner without a version.
MCEncodedName == [n \in {"sid", "my id"} |-> IF n = "my id" THEN "my%20id" ELSE n]
MCCatalogs == {<<3, <<"pets", "{id}">>>>, <<3, <<"x">>>>}
Values(of, values) == [of |-> of, values |-> values]
MCInputs ==
    (<<3, <<"pets", "{id}">>>> :>
       {Values("path", ("{id}" :> "5")), Values("query", ("limit" :> Text("1"))),
        Values("headers", ("X-Request" :> Text("1"))),
        Values("headers", ("Cookie" :> [pairs |-> ("sid" :> Text("1"))]))})
    @@ (<<3, <<"x">>>> :>
       {Values("query", ("range" :> Text("1"))), Values("cookies", ("my id" :> Text("1"))),
        Values("body", RangeBody), Values("form", RangeBody)})

AmbiguousRoute == <<<<"{id}.json", "x">>, {"GET"}>>
Changing == {NestedRoute, FiveRoute, AmbiguousRoute}
MCMiddlewarePaths == {<<"pets">>}
MCProxySettings == {<<<<>>, TRUE>>, <<<<"pets">>, FALSE>>}
MCDocuments == {V3}

-----------------------------------------------------------------------------
(* The premises of the theorems hold in this instance.                     *)

MCObjectTypes == {Json, <<"text", "json">>, <<"text", "x-json">>}
MCFileNames == (Segments \ {NoSegment}) \cup {"Pets"}
MCOperationNames == {"get", "post"}

ASSUME AnswersAssumption == WellFormed
ASSUME RoutesAssumption == WellRouted /\ NoSegment \notin FileNames /\ NamesOK
ASSUME TypesAssumption == WellTyped
ASSUME BuildersAssumption == WellBuilt
=============================================================================
