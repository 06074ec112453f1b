-------------------------- MODULE OperationCoders --------------------------
(***************************************************************************)
(* The coders of operations, their parameters and responses, and of the    *)
(* components of a document (generator/src): the marks that each leaves.   *)
(***************************************************************************)
EXTENDS Coders

Document(coder) == Documents[coder.doc]
SchemaOf(coder) == ByReference("Schema", coder.version, coder.doc, <<>>)
Schema(coder, node) == WriteSchema(SchemaOf(coder), node)

\* ParametersTypeCoder.writeCode(): the parameters of one place.
In(doc, parameters, place) ==
    SelectSeq(parameters, LAMBDA p : Follow(doc, p).in = place)
SchemaOfParameter(doc, parameter) ==
    LET target == Follow(doc, parameter)
    IN IF Has(target, "schema") THEN target.schema ELSE parameter
WriteParameters(coder, parameters, place) ==
    LET One(p) == Schema(coder, SchemaOfParameter(Document(coder), p))
    IN Concat(One, In(Document(coder), parameters, place))

\* OperationTypeCoder.getEffectiveParameters().  What is merged is merged as
\* the document has it: a reference has neither a name nor a place.
Key(parameter) == IF Has(parameter, "ref") THEN <<>> ELSE <<parameter.in, parameter.name>>
SetParameter(merged, parameter) ==
    LET at == SelectInSeq(merged, LAMBDA p : Key(p) = Key(parameter))
    IN IF at = 0 THEN Append(merged, parameter) ELSE [merged EXCEPT ![at] = parameter]
ApiKeyParameters(doc) ==
    LET apiKeys == SelectSeq(doc.security, LAMBDA s : s.type = "apiKey")
    IN [i \in DOMAIN apiKeys |-> [in |-> apiKeys[i].in, name |-> apiKeys[i].name,
                                  required |-> TRUE, schema |-> [type |-> <<"string">>]]]
EffectiveParameters(doc, pathItem, operation) ==
    LET OfPath == IF Has(pathItem, "parameters") THEN pathItem.parameters ELSE <<>>
        OfOwn == IF Has(operation, "parameters") THEN operation.parameters ELSE <<>>
        apiKeys == ApiKeyParameters(doc)
    IN IF ~ Has(pathItem, "parameters") /\ apiKeys = <<>> THEN OfOwn
       ELSE IF ~ Has(operation, "parameters") /\ apiKeys = <<>> THEN OfPath
       ELSE FoldLeft(SetParameter, <<>>, OfPath \o OfOwn \o apiKeys)

\* ResponseTypeCoder: headers come before the content.
WriteContent(coder, content) ==
    LET One(media) ==
          CASE Has(media[2], "itemSchema") /\ media[1] \in StreamingContentTypes ->
                 Schema(coder, media[2].itemSchema)
            [] Has(media[2], "schema") -> Schema(coder, media[2].schema)
            [] OTHER -> <<>>
    IN Concat(One, content)
WriteResponse(coder, response, mediaTypes) ==
    LET Header(h) == Schema(coder, SchemaOfParameter(Document(coder), h[2]))
        Legacy(media) == Schema(coder, response.schema)
    IN (IF Has(response, "headers") THEN Concat(Header, response.headers) ELSE <<>>) \o
       (CASE Has(response, "content") -> WriteContent(coder, response.content)
          [] Has(response, "schema") -> Concat(Legacy, mediaTypes)
          [] OTHER -> <<>>)

\* ResponsesTypeCoder
WriteResponses(coder, responses, mediaTypes) ==
    LET One(r) == IF Has(r[2], "ref")
                  THEN <<Import(ByReference("Response", coder.version, coder.doc, r[2].ref))>>
                  ELSE WriteResponse(coder, r[2], mediaTypes)
        default == \E i \in DOMAIN responses : responses[i][1] = "default"
    IN <<ImportExternal("ResponseBuilderFactory")>> \o Concat(One, responses) \o
       (IF default THEN <<ImportExternal("HttpStatusCode"), Literally("HttpStatusCode")>>
        ELSE <<>>) \o
       <<Literally("ResponseBuilderFactory")>>
-----------------------------------------------------------------------------
(* OperationTypeCoder and VersionedArgTypeCoder.                           *)

PathItem(doc, path) ==
    Follow(doc, SelectSeq(doc.paths, LAMBDA p : p[1] = path)[1][2])

\* CodeGenerator: operationMethodsForPath(), which yields <<method, operation>>.
OperationMethods(pathItem) ==
    SelectSeq(pathItem.operations, LAMBDA o : o[1] \in HttpVerbs) \o
    (IF Has(pathItem, "additionalOperations") THEN pathItem.additionalOperations ELSE <<>>)
Operation(coder) ==
    LET methods == OperationMethods(PathItem(Document(coder), PathOf(coder)))
    IN SelectSeq(methods, LAMBDA o : o[1] = coder.url[3])[1][2]

\* A setting of Swagger 2, of the operation or of the document.
Setting(doc, operation, name) ==
    CASE Has(operation, name) -> operation[name] [] Has(doc, name) -> doc[name] [] OTHER -> <<>>

WriteBody(coder, doc, operation, parameters) ==
    LET legacy == SelectSeq(parameters,
                    LAMBDA p : Follow(doc, p).in \in {"body", "formData"})
        content == IF Has(operation, "requestBody")
                   THEN Follow(doc, operation.requestBody).content ELSE <<>>
        Media(type) == SelectSeq(content, LAMBDA m : m[1] = type /\ Has(m[2], "schema"))
        Plain(m) == Schema(coder, m[2].schema)
        Multipart(m) ==
          WriteSchema(ByReference("Multipart", coder.version, coder.doc, <<>>), m[2].schema)
        OfLegacy == IF Setting(doc, operation, "consumes") # <<>> /\ legacy # <<>>
                       /\ Has(Follow(doc, legacy[1]), "schema")
                    THEN Schema(coder, Follow(doc, legacy[1]).schema) ELSE <<>>
    IN OfLegacy \o Concat(Plain, Media("application/json")) \o
       Concat(Plain, Media("application/x-www-form-urlencoded")) \o
       Concat(Multipart, Media("multipart/form-data"))

\* exportParameterType(), but for a type that is never.
Places == <<<<"query", "Query">>, <<"path", "Path">>, <<"header", "Headers">>,
            <<"cookie", "Cookie">>>>
ExportParameters(coder, doc, parameters) ==
    LET One(place) == IF In(doc, parameters, place[1]) = <<>> THEN <<>>
                      ELSE <<ExportHere(OfParameters(coder, place[2]))>>
    IN Concat(One, Places)

WriteQuerystring(coder, doc, parameters) ==
    LET found == In(doc, parameters, "querystring")
        target == Follow(doc, found[1])
    IN IF found = <<>> \/ ~ Has(target, "schema") THEN <<>>
       ELSE Schema(coder, target.schema) \o
            (IF target.schema = [always |-> FALSE] THEN <<>>
             ELSE <<ExportHere(OfParameters(coder, "Querystring"))>>)

\* buildDollarArgType()
WriteArgument(coder) ==
    LET doc == Document(coder)
        operation == Operation(coder)
        parameters == EffectiveParameters(doc, PathItem(doc, PathOf(coder)), operation)
        Parameters(place) == WriteParameters(coder, parameters, place[1])
    IN <<ImportExternal("WideOperationArgument"), ImportExternal("COUNTERFACT_RESPONSE"),
         ImportExternal("Context")>> \o
       Concat(Parameters, Places) \o
       WriteBody(coder, doc, operation, parameters) \o
       WriteResponses(coder, operation.responses, Setting(doc, operation, "produces")) \o
       <<Literally("COUNTERFACT_RESPONSE")>> \o
       ExportParameters(coder, doc, parameters) \o WriteQuerystring(coder, doc, parameters)

\* writeCode(), and exportDeclarations() of what has versions.
WriteOperationType(coder) ==
    IF coder.version # ""
    THEN <<ImportExternal("Versioned"), ImportExternal("MaybePromise"),
           ImportExternal("COUNTERFACT_RESPONSE")>>
    ELSE <<ImportExternal("WideOperationArgument"), ImportExternal("MaybePromise"),
           ImportExternal("COUNTERFACT_RESPONSE")>> \o WriteArgument(coder) \o
         <<Literally("MaybePromise"), Literally("COUNTERFACT_RESPONSE")>>
-----------------------------------------------------------------------------
(* ComponentTypeCoder: the structure of a component, in which what is      *)
(* called schema or itemSchema is a type.  `parts` are its other members.  *)

RECURSIVE Structure(_, _)
Structure(coder, node) ==
    LET Part(n) == Structure(coder, n)
        Media(m) == Structure(coder, m[2])
        Typed(field) == IF Has(node, field) THEN Schema(coder, node[field]) ELSE <<>>
    IN IF Has(node, "ref")
       THEN <<Import(ByReference("Component", coder.version, coder.doc, node.ref))>>
       ELSE Typed("schema") \o Typed("itemSchema") \o
            (IF Has(node, "content") THEN Concat(Media, node.content) ELSE <<>>) \o
            (IF Has(node, "parts") THEN Concat(Part, node.parts) ELSE <<>>)

WriteComponent(coder, node) ==
    LET content == IF Has(node, "content") THEN [content |-> node.content] ELSE [none |-> TRUE]
    IN CASE coder.ref[1] \in {"examples", "securitySchemes", "links"} -> <<>>
         [] coder.ref[1] \in {"parameters", "headers"} ->
              IF Has(node, "schema") THEN Schema(coder, node.schema) ELSE Structure(coder, content)
         [] OTHER -> Structure(coder, node)

\* The coder that is used for a component of a category.
ComponentCoder(version, doc, category, name) ==
    ByReference(CASE category = "schemas" -> "Schema" [] category = "responses" -> "Response"
                  [] OTHER -> "Component", version, doc, <<category, name>>)

\* delegate() and write() of what it yields.  What a reference leads to may be
\* a reference, which is then imported; when there is nothing, writing throws.
Throws(coder) == coder.ref # <<>> /\ Component(Document(coder), coder.ref) = Missing
Marks(coder) ==
    LET node == IF coder.ref = <<>> THEN Missing ELSE Component(Document(coder), coder.ref)
    IN CASE Throws(coder) \/ coder.class \in {"Operation", "Parameter"} -> <<>>
         [] coder.class = "OperationType" -> WriteOperationType(coder)
         [] coder.class = "VersionedArg" -> WriteArgument(coder)
         [] Has(node, "ref") -> <<Import([coder EXCEPT !.ref = node.ref])>>
         [] coder.class = "Response" -> WriteResponse(coder, node, <<>>)
         [] coder.class = "Component" -> WriteComponent(coder, node)
         [] OTHER -> WriteSchema(coder, node)
=============================================================================
