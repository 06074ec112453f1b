-------------------------- MODULE RequestValidation --------------------------
(***************************************************************************)
(* What is checked and converted between a request and its handler, and    *)
(* between a handler and its response: request-validator.ts, parameter-    *)
(* type.ts, array-query-parameters.ts, multipart-body.ts, response-        *)
(* validator.ts and collectExplodedObjectParams() of dispatcher.ts.        *)
(*                                                                         *)
(* A schema is a name, described by SchemaOf: its types, the members of    *)
(* allOf and of anyOf or oneOf, the schemas of items, of prefixItems and   *)
(* of properties.  Bodies are checked by ajv, which is external: Conforms  *)
(* says which bodies it accepts for which schemas.  Headers arrive with    *)
(* lower-case names, as Node delivers them.                                *)
(***************************************************************************)
EXTENDS Registry, FiniteSetsExt

CONSTANTS
    SchemaOf,           \* schema |-> [type, allOf, anyOf, items, prefixItems, properties]
    Pieces,             \* <<text, separator>> |-> the texts it splits into
    JsonObject,         \* the texts that spell a JSON object
    Conforms,           \* the pairs <<body, schema>> that ajv accepts
    Undefined

Schemas == DOMAIN SchemaOf

\* A declared type without its null, or Undefined when more than one is left.
SingleType(types) ==
    CASE types \ {"null"} = {} -> "null"
      [] Cardinality(types \ {"null"}) = 1 -> CHOOSE t \in types : t # "null"
      [] OTHER -> Undefined

\* parameterType(): a union has the type on which all its branches agree; a
\* schema that contains itself has none.
ParameterTypeWithin[s \in Schemas, ancestors \in SUBSET Schemas] ==
    LET resolved == {ParameterTypeWithin[b, ancestors \cup {s}] : b \in SchemaOf[s].anyOf}
    IN CASE s \in ancestors -> Undefined
         [] s \notin ancestors /\ SchemaOf[s].type # {} -> SingleType(SchemaOf[s].type)
         [] s \notin ancestors /\ SchemaOf[s].type = {} ->
              IF resolved = {} \/ Undefined \in resolved THEN Undefined ELSE SingleType(resolved)

\* The type of a parameter: its own in Swagger 2, that of its schema later.
DeclaredType(p) ==
    CASE p.type # Undefined -> p.type
      [] p.type = Undefined /\ p.schema # Undefined -> ParameterTypeWithin[p.schema, {}]
      [] OTHER -> Undefined

\* parameterTypes() of the dispatcher.
ParameterTypes(parameters, location) ==
    LET typed == {p \in ToSet(parameters) : p.in = location /\ DeclaredType(p) # Undefined}
    IN [name \in {p.name : p \in typed} |->
          DeclaredType(CHOOSE p \in typed : p.name = name)]

\* Parameters under their places and names: a later one takes the place of an
\* earlier one, where that stands.
SetParameter(merged, p) ==
    LET IsSame(q) == q.in = p.in /\ q.name = p.name
    IN IF \E q \in ToSet(merged) : IsSame(q)
       THEN [i \in DOMAIN merged |-> IF IsSame(merged[i]) THEN p ELSE merged[i]]
       ELSE Append(merged, p)

Merged(parameters) ==
    LET Upto[n \in 0 .. Len(parameters)] ==
          IF n = 0 THEN <<>> ELSE SetParameter(Upto[n - 1], parameters[n])
    IN Upto[Len(parameters)]

PropertiesOf(p) == IF p.schema = Undefined THEN <<>> ELSE SchemaOf[p.schema].properties

IsExplodedObjectQueryParam(p) ==
    /\ p.in = "query"
    /\ p.schema # Undefined
    /\ SchemaOf[p.schema].type = {"object"} \/ DOMAIN PropertiesOf(p) # {}
    /\ p.style \in {Undefined, "form"}
    /\ p.explode # FALSE

-----------------------------------------------------------------------------
(* validateRequest(): the set of errors, empty when the request is valid.  *)

MissingRequired(parameters, location, values) ==
    LET IsMissing(p) ==
          CASE IsExplodedObjectQueryParam(p) ->
                 /\ DOMAIN PropertiesOf(p) # {}
                 /\ DOMAIN PropertiesOf(p) \cap DOMAIN values = {}
            [] location = "header" -> LowerCase[p.name] \notin DOMAIN values
            [] OTHER -> p.name \notin DOMAIN values
    IN {p \in ToSet(parameters) : p.in = location /\ p.required /\ IsMissing(p)}

FindMissingRequired(parameters, location, values) ==
    {<<location, p.name, "is required">> : p \in MissingRequired(parameters, location, values)}

\* Fault: only a declared type that is exactly numeric is checked.
NumericErrorsOfExactTypes(parameters, query) ==
    LET Wrong(p) == /\ p.in = "query" /\ p.name \in DOMAIN query /\ p.schema # Undefined
                    /\ SchemaOf[p.schema].type \in {{"integer"}, {"number"}}
                    /\ query[p.name].kind = "string" /\ query[p.name].of \notin DecimalText
    IN {<<"query", p.name, "must be finite">> : p \in {q \in ToSet(parameters) : Wrong(q)}}

NumericErrors(parameters, query) ==
    LET Wrong(p) == /\ p.in = "query" /\ p.name \in DOMAIN query
                    /\ DeclaredType(p) \in {"integer", "number"}
                    /\ NumericParameterValue(query[p.name], DeclaredType(p)).kind # "number"
    IN {<<"query", p.name, "must be finite">> : p \in {q \in ToSet(parameters) : Wrong(q)}}

\* Only a declared type that is exactly boolean is checked, not a union.
IsBoolean(p) ==
    \/ p.type = "boolean"
    \/ p.type = Undefined /\ p.schema # Undefined /\ SchemaOf[p.schema].type = {"boolean"}

BooleanErrors(parameters, request) ==
    LET Values(p) == CASE p.in = "query" -> request.query
                       [] p.in = "header" -> request.headers
                       [] p.in = "cookie" -> request.cookie
                       [] OTHER -> <<>>
        Name(p) == IF p.in = "header" THEN LowerCase[p.name] ELSE p.name
        Wrong(p) == /\ IsBoolean(p) /\ Name(p) \in DOMAIN Values(p)
                    /\ BooleanParameterValue(Values(p)[Name(p)]).kind # "boolean"
    IN {<<p.in, p.name, "must be true or false">> : p \in {q \in ToSet(parameters) : Wrong(q)}}

BodyErrors(body, schema) ==
    IF schema = Undefined \/ <<body, schema>> \in Conforms THEN {} ELSE {<<"body", "is invalid">>}

FirstIn(candidates, S) ==
    LET declared == SelectSeq(candidates, LAMBDA c : c \in S)
    IN IF declared = <<>> THEN Undefined ELSE Head(declared)

Json == <<"application", "json">>
UrlEncoded == <<"application", "x-www-form-urlencoded">>
Multipart == <<"multipart", "form-data">>
AnyMedia == <<"*", "*">>

\* The schema of a body, by the media type of the request: as it is declared,
\* then with the wild subtype, then wild altogether; without a media type, by
\* the usual three.
RequestBodyErrors(requestBody, request) ==
    LET content == requestBody.content
        media == request.contentType
        declared == IF media = Undefined THEN FirstIn(<<Json, UrlEncoded, Multipart>>, DOMAIN content)
                    ELSE FirstIn(<<media, <<media[1], "*">>, AnyMedia>>, DOMAIN content)
        schema == IF declared = Undefined THEN Undefined ELSE content[declared]
        undeclared == media # Undefined /\ declared = Undefined /\ request.body # Undefined
    IN (IF undeclared THEN {<<"body", "is not declared">>} ELSE {})
       \cup (IF request.body # Undefined THEN BodyErrors(request.body, schema)
             ELSE IF requestBody.required THEN {<<"body", "is required">>} ELSE {})

\* The body parameter of Swagger 2.
BodyParameterErrors(parameters, body) ==
    UNION {IF body = Undefined
           THEN IF p.required THEN {<<"body", "is required">>} ELSE {}
           ELSE BodyErrors(body, p.schema) : p \in {q \in ToSet(parameters) : q.in = "body"}}

ValidateRequest(operation, request) ==
    IF operation = Undefined THEN {}
    ELSE FindMissingRequired(operation.parameters, "query", request.query)
         \cup FindMissingRequired(operation.parameters, "header", request.headers)
         \cup FindMissingRequired(operation.parameters, "cookie", request.cookie)
         \cup NumericErrors(operation.parameters, request.query)
         \cup BooleanErrors(operation.parameters, request)
         \cup (IF operation.requestBody = Undefined THEN {}
               ELSE RequestBodyErrors(operation.requestBody, request))
         \cup BodyParameterErrors(operation.parameters, request.body)

-----------------------------------------------------------------------------
(* The conversion of query parameters that are objects or arrays.          *)

\* An object whose properties came as parameters of their own is gathered
\* under its name, and claims them.
Gathered(query, p) ==
    LET claimed == IF IsExplodedObjectQueryParam(p) THEN DOMAIN PropertiesOf(p) \cap DOMAIN query
                   ELSE {}
        object == [kind |-> "object", fields |-> [key \in claimed |-> query[key]]]
    IN IF claimed = {} THEN query
       ELSE [name \in {p.name} \cup (DOMAIN query \ claimed) |->
               IF name = p.name THEN object ELSE query[name]]

CollectExplodedObjectParams(query, parameters) ==
    LET Collected[n \in 0 .. Len(parameters)] ==
          IF n = 0 THEN query ELSE Gathered(Collected[n - 1], parameters[n])
    IN Collected[Len(parameters)]

Combine(left, right) == {a \cup b : a \in left, b \in right}

\* The combinations of constraints that a value may have to meet: one branch
\* of each union, and all members of allOf.
AlternativesWithin[s \in Schemas, ancestors \in SUBSET Schemas] ==
    LET Of(b) == AlternativesWithin[b, ancestors \cup {s}]
        together == FoldSet(LAMBDA b, result : Combine(result, Of(b)), {{s}}, SchemaOf[s].allOf)
    IN CASE s \in ancestors -> {{}}
         [] s \notin ancestors /\ SchemaOf[s].anyOf = {} -> together
         [] s \notin ancestors /\ SchemaOf[s].anyOf # {} ->
              Combine(together, UNION {Of(b) : b \in SchemaOf[s].anyOf})

\* The type that the constraints of an alternative leave: a number may be an
\* integer; none is left out.
TypeLeft(constraints) ==
    LET typed == {s \in constraints : SchemaOf[s].type # {}}
        Types(s) == (SchemaOf[s].type \ {"null"})
                      \cup IF "number" \in SchemaOf[s].type THEN {"integer"} ELSE {}
        possible == IF typed = {} THEN {} ELSE
                      {t \in UNION {Types(s) : s \in typed} : \A s \in typed : t \in Types(s)}
    IN CASE typed = {} -> Undefined
         [] possible = {"number", "integer"} -> "number"
         [] Cardinality(possible) = 1 /\ typed # {} -> CHOOSE t \in possible : TRUE
         [] possible = {} /\ typed # {} -> "impossible"
         [] OTHER -> Undefined

TypeChoices(alternatives) ==
    {choice \in {[constraints |-> c, type |-> TypeLeft(c)] : c \in alternatives} :
       choice.type # "impossible"}

CommonType(choices) ==
    IF \E t \in {c.type : c \in choices} : \A c \in choices : c.type = t
    THEN (CHOOSE c \in choices : TRUE).type ELSE Undefined

\* The alternatives of the item at a position, under each array.
ItemAlternatives(array, index) ==
    LET Item(s) == IF index <= Len(SchemaOf[s].prefixItems) THEN SchemaOf[s].prefixItems[index]
                   ELSE SchemaOf[s].items
        items == {Item(s) : s \in array.constraints} \ {Undefined}
    IN FoldSet(LAMBDA s, result : Combine(result, AlternativesWithin[s, {}]), {{}}, items)

ItemValue(text, index, arrays) ==
    CastParameter(Text(text),
                  CommonType(UNION {TypeChoices(ItemAlternatives(a, index)) : a \in arrays}))

Split(text, separator) ==
    IF <<text, separator>> \in DOMAIN Pieces THEN Pieces[text, separator] ELSE <<text>>

Arrays(p) == IF p.schema = Undefined THEN {} ELSE TypeChoices(AlternativesWithin[p.schema, {}])
Style(p) == IF p.style = Undefined THEN "form" ELSE p.style

\* A parameter that is an array in every alternative, in one of the styles.
IsArray(p) ==
    /\ p.in = "query" /\ CommonType(Arrays(p)) = "array"
    /\ Style(p) \in {"form", "spaceDelimited", "pipeDelimited"}

\* It becomes one, split as its style says, with the items converted.
NormalizeArrayQueryParameters(query, parameters) ==
    LET Separator(p) == CASE p.explode = TRUE -> Undefined
                          [] p.explode # TRUE /\ Style(p) = "spaceDelimited" -> " "
                          [] p.explode # TRUE /\ Style(p) = "pipeDelimited" -> "|"
                          [] OTHER -> IF p.explode = FALSE THEN "," ELSE Undefined
        Items(p) ==
          LET value == query[p.name]
              texts == IF value.kind = "string" THEN <<value.of>> ELSE value.items
              pieces == FlattenSeq([i \in DOMAIN texts |-> Split(texts[i], Separator(p))])
          IN [i \in DOMAIN pieces |-> ItemValue(pieces[i], i, Arrays(p))]
        arrays == {p \in ToSet(parameters) : /\ IsArray(p) /\ p.name \in DOMAIN query
                                             /\ query[p.name].kind \in {"string", "list"}}
    IN [name \in DOMAIN query |->
          IF \E p \in arrays : p.name = name
          THEN [kind |-> "array", items |-> Items(CHOOSE p \in arrays : p.name = name)]
          ELSE query[name]]

-----------------------------------------------------------------------------
(* normalizeMultipartBody(), for a body of fields that are texts or files. *)

MultipartField(field, schema) ==
    LET type == SingleType(SchemaOf[schema].type)
    IN CASE type \in {"number", "integer"} -> NumericParameterValue(field, "number")
         [] type = "boolean" -> BooleanParameterValue(field)
         [] type = "object" /\ field.kind = "string" /\ field.of \in JsonObject ->
              Typed("object", field.of)
         [] OTHER -> field

\* One value where an array is declared becomes an array of one.
MultipartValue(value, schema) ==
    IF SingleType(SchemaOf[schema].type) # "array" THEN MultipartField(value, schema)
    ELSE LET items == IF value.kind = "list" THEN value.items ELSE <<value>>
         IN [kind |-> "array", items |-> [i \in DOMAIN items |->
              IF SchemaOf[schema].items = Undefined THEN items[i]
              ELSE MultipartField(items[i], SchemaOf[schema].items)]]

NormalizeMultipartBody(body, schema) ==
    IF body = Undefined \/ schema = Undefined THEN body
    ELSE LET properties == SchemaOf[schema].properties
         IN [name \in DOMAIN body |->
               IF name \in DOMAIN properties THEN MultipartValue(body[name], properties[name])
               ELSE body[name]]

-----------------------------------------------------------------------------
(* validateResponse(): the headers that a response lacks or has wrong.     *)

\* coerceHeaderValue(), for the texts of the model.
CoerceHeaderValue(value, type) ==
    CASE type \in {"integer", "number"} -> NumericParameterValue(value, "number")
      [] type = "boolean" -> BooleanParameterValue(value)
      [] OTHER -> value

HeaderConforms(value, type) ==
    CASE type = "integer" -> value.kind = "number" /\ value.of \in IntegerText
      [] type \in {"number", "boolean", "string"} -> value.kind = type
      [] OTHER -> TRUE

\* What a document says of a status, or else by default.
ResponseFor(operation, status) ==
    CASE status \in DOMAIN operation.responses -> operation.responses[status]
      [] status \notin DOMAIN operation.responses /\ "default" \in DOMAIN operation.responses ->
           operation.responses["default"]
      [] OTHER -> Undefined

ValidateResponse(operation, response) ==
    LET status == IF response.status = Undefined THEN "200" ELSE response.status
        spec == ResponseFor(operation, status)
        Actual(name) == response.headers[LowerCase[name]]
        Present(name) == LowerCase[name] \in DOMAIN response.headers
        Type(name) == SingleType(SchemaOf[spec.headers[name].schema].type)
        Wrong(name) == IF Present(name)
                       THEN ~ HeaderConforms(CoerceHeaderValue(Actual(name), Type(name)), Type(name))
                       ELSE spec.headers[name].required
    IN IF operation = Undefined THEN {}
       ELSE IF spec = Undefined THEN {}
       ELSE {name \in DOMAIN spec.headers : Wrong(name)}
=============================================================================
