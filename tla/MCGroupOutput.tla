--------------------------- MODULE MCGroupOutput ---------------------------
(***************************************************************************)
(* A group without versions, or with two whose names make one identifier;  *)
(* documents whose names collide with one another, with helper types and   *)
(* with what the index keeps to itself.                                    *)
(***************************************************************************)
EXTENDS GroupOutput

Ref(category, name) == [ref |-> <<category, name>>]
SchemaRef(name) == Ref("schemas", name)
Text == [type |-> <<"string">>]
Json(schema) == <<"application/json", [schema |-> schema]>>
Ok(schema) == <<"200", [content |-> <<Json(schema)>>]>>
Query(name, schema) == [in |-> "query", name |-> name, schema |-> schema]

\* Cycles, aliases, what leads nowhere, and unlucky names.
Plain ==
    [source |-> "plain", security |-> <<[type |-> "apiKey", in |-> "header", name |-> "key"]>>,
     components |->
       <<<<"schemas", "a-b", [properties |-> <<<<"next", SchemaRef("a_b")>>>>]>>,
         <<"schemas", "a_b", [type |-> <<"array">>, items |-> SchemaRef("a-b")]>>,
         <<"schemas", "Context", SchemaRef("Tree")>>,
         <<"schemas", "Routes", [type |-> <<"object">>, additional |-> SchemaRef("Lost")]>>,
         <<"schemas", "Tree", [oneOf |-> <<SchemaRef("Tree"), SchemaRef("HTTP_GET")>>,
                               defaultMapping |-> <<"schemas", "a_b">>]>>,
         <<"schemas", "HTTP_GET", Text>>,
         <<"parameters", "Limit", Query("limit", SchemaRef("a-b"))>>,
         <<"parameters", "Page", Query("page", SchemaRef("a_b"))>>,
         <<"responses", "Error", [headers |-> <<<<"id", [schema |-> SchemaRef("Context")]>>>>,
                                  content |-> <<Json(SchemaRef("Tree"))>>]>>,
         <<"requestBodies", "Body", [content |-> <<<<"multipart/form-data",
                                       [schema |-> SchemaRef("Routes")]>>>>]>>>>,
     paths |->
       <<<<"/a", [parameters |-> <<Ref("parameters", "Limit")>>,
                  operations |->
                    <<<<"get", [parameters |-> <<Query("tree", SchemaRef("Context"))>>,
                                responses |-> <<Ok(SchemaRef("HTTP_GET")),
                                                <<"default", Ref("responses", "Error")>>>>]>>,
                      <<"post", [requestBody |-> Ref("requestBodies", "Body"),
                                 responses |-> <<Ok(SchemaRef("Routes"))>>]>>>>]>>,
         <<"/a/b", [operations |-> <<>>,
                    additionalOperations |->
                      <<<<"query", [responses |-> <<Ok([items |-> SchemaRef("a_b"),
                                       type |-> <<"array", "null">>])>>]>>>>]>>>>]

\* A document of Swagger 2, without components.
Legacy ==
    [source |-> "legacy", security |-> <<>>, components |-> <<>>,
     consumes |-> <<"application/json">>, produces |-> <<"application/json">>,
     paths |->
       <<<<"/a", [operations |->
            <<<<"post", [parameters |-> <<[in |-> "body", name |-> "it",
                                           schema |-> [type |-> <<"object">>]]>>,
                         responses |-> <<<<"200", [schema |-> Text]>>>>]>>>>]>>>>]

\* What the versions declare in common, under the same names.
Versioned(source, methods, more) ==
    [source |-> source, security |-> <<>>,
     components |-> <<<<"schemas", "Pet", more>>, <<"schemas", "Versioned", Text>>>>,
     paths |-> <<<<"/a", [operations |->
       [i \in DOMAIN methods |->
          <<methods[i], [parameters |-> <<Query("q", SchemaRef("Versioned"))>>,
                         responses |-> <<Ok(SchemaRef("Pet"))>>]>>]]>>>>]

MCDocuments ==
    [plain |-> Plain, legacy |-> Legacy,
     first |-> Versioned("one", <<"get">>, Text),
     firstAgain |-> Versioned("one", <<"post", "get">>, [items |-> SchemaRef("Versioned"),
                                                         type |-> <<"array">>]),
     second |-> Versioned("two", <<"get">>, [itemSchema |-> SchemaRef("Versioned")])]

Names == {"a-b", "a_b", "Context", "Routes", "Tree", "Lost", "HTTP_GET", "Limit", "Page", "Error",
          "Body", "Pet", "Versioned", "v-1", "v_1", "/a", "/a/b"}
MCIdentifier == [n \in Names |-> CASE n = "a-b" -> "a_b" [] n = "v-1" -> "v_1"
                                   [] n = "/a" -> "1" [] n = "/a/b" -> "2" [] OTHER -> n]
MCGroups == {<<"">>, <<"v-1", "v_1">>}
MCCandidates == "" :> {"plain", "legacy"} @@ "v-1" :> {"first", "firstAgain"} @@ "v_1" :> {"second"}
Short == {"legacy"}
MCRouteDirectories == "/a" :> {} @@ "/a/b" :> {"/a"}
MCDirectories == <<"/", "/a", "/a/x">>
MCParent == "/a" :> "/" @@ "/a/x" :> "/a"

\* A document whose parameters are references, on the path and on the operation.
Referring ==
    [Plain EXCEPT !.security = <<>>,
       !.paths = <<<<"/a", [parameters |-> <<Ref("parameters", "Limit")>>,
                            operations |-> <<<<"get", [parameters |-> <<Ref("parameters", "Page")>>,
                                                       responses |-> <<Ok(Text)>>]>>>>]>>>>]
ReferringDocuments == [plain |-> Referring, legacy |-> Legacy]
JustReferring == "" :> {"plain", "legacy"}
Unversioned == {<<"">>}
=============================================================================
