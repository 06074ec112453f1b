---------------------------- MODULE RouteBuilder ----------------------------
(***************************************************************************)
(* The request builder of the REPL and of scenarios (client/src): route-   *)
(* builder.ts, the catalog of operations that it consults (route-          *)
(* catalog.ts), and the request that it sends (raw-http-client.ts).        *)
(*                                                                         *)
(* A builder is a value: every operation yields a new one, which looks its *)
(* operation up at once and keeps it.  A path is a sequence of segments, a *)
(* path parameter is named by its segment, and a Cookie header holds pairs *)
(* under their names.  Bodies are objects, no Content-Type is given by     *)
(* hand, and what Swagger 2 documents consume is left out.                 *)
(***************************************************************************)
EXTENDS RequestValidation

CONSTANT EncodedName \* of a cookie: its percent-encoding

-----------------------------------------------------------------------------
(* The catalog of a document.                                              *)

MergedParameters(ofItem, ofOperation) ==
    CASE ofItem = <<>> -> ofOperation
      [] ofItem # <<>> /\ ofOperation = <<>> -> ofItem
      [] OTHER -> Merged(ofItem \o ofOperation)

GetOperation(document, routePath, method) ==
    LET same == {i \in DOMAIN document.paths : KeyOf(document.paths[i].path) = KeyOf(routePath)}
        item == document.paths[Min(same)]
    IN IF same = {} THEN Undefined
       ELSE IF LowerCase[method] \notin DOMAIN item.operations THEN Undefined
       ELSE [item.operations[LowerCase[method]] EXCEPT
               !.parameters = MergedParameters(item.parameters, @)]

-----------------------------------------------------------------------------
(* Builders.                                                               *)

NoEntity == [kind |-> "none"]
NewBuilder(catalog, routePath) ==
    [catalog |-> catalog, routePath |-> routePath, method |-> Undefined,
     path |-> <<>>, query |-> <<>>, headers |-> <<>>, cookies |-> <<>>,
     entity |-> NoEntity, operation |-> Undefined]

\* Fault: a builder that has an operation keeps it.
ResolvedOnce(builder, document) ==
    IF builder.operation # Undefined \/ builder.method = Undefined \/ document = Undefined
    THEN builder
    ELSE [builder EXCEPT !.operation = GetOperation(document, builder.routePath, builder.method)]

\* The constructor looks the operation up.
Resolved(builder, document) ==
    [builder EXCEPT !.operation =
       IF document = Undefined \/ builder.method = Undefined THEN Undefined
       ELSE GetOperation(document, builder.routePath, builder.method)]

WithMethod(builder, method) == [builder EXCEPT !.method = UpperCase[method]]

\* path(), query(), headers() and cookies() add to what there is; form() adds
\* to a form; body() takes the place of a form, and a form that of a body.
With(builder, input) ==
    LET fields == IF builder.entity.kind = "form" THEN builder.entity.fields ELSE <<>>
        new == input.values
        Added(old) == [name \in DOMAIN new \cup DOMAIN old |->
                         IF name \in DOMAIN new THEN new[name] ELSE old[name]]
    IN CASE input.of = "path" -> [builder EXCEPT !.path = Added(@)]
         [] input.of = "query" -> [builder EXCEPT !.query = Added(@)]
         [] input.of = "headers" -> [builder EXCEPT !.headers = Added(@)]
         [] input.of = "cookies" -> [builder EXCEPT !.cookies = Added(@)]
         [] input.of = "form" -> [builder EXCEPT !.entity = [kind |-> "form", fields |-> Added(fields)]]
         [] input.of = "body" -> [builder EXCEPT !.entity = [kind |-> "body", value |-> new]]

\* The pairs of a Cookie header, whatever the case of its name.
HeaderCookies(builder) ==
    LET names == {n \in DOMAIN builder.headers : LowerCase[n] = "cookie"}
    IN IF names = {} THEN <<>> ELSE builder.headers[CHOOSE n \in names : TRUE].pairs
HeaderValues(builder) == {LowerCase[n] : n \in DOMAIN builder.headers}
\* Names in a Cookie header are decoded when they are looked for.
CookieNames(builder) ==
    DOMAIN builder.cookies
      \cup {name \in DOMAIN EncodedName : {name, EncodedName[name]} \cap DOMAIN HeaderCookies(builder) # {}}

FormTypes == {UrlEncoded, Multipart}
RequestBodyIsSet(builder) ==
    LET types == DOMAIN builder.operation.requestBody.content
    IN \/ builder.entity.kind = "form" /\ types \cap FormTypes # {}
       \/ builder.entity.kind = "body" /\ (types = {} \/ types \ FormTypes # {})

\* missing(): what is required and has not been set.
Missing(builder) ==
    LET operation == builder.operation
        IsMissing(p) ==
          CASE p.in = "path" -> p.name \notin DOMAIN builder.path
            [] p.in = "query" -> p.name \notin DOMAIN builder.query
            [] p.in = "header" -> LowerCase[p.name] \notin HeaderValues(builder)
            [] p.in = "cookie" -> p.name \notin CookieNames(builder)
            [] p.in = "body" -> builder.entity.kind # "body"
            [] p.in = "formData" -> \/ builder.entity.kind # "form"
                                    \/ p.name \notin DOMAIN builder.entity.fields
        required == {p \in ToSet(operation.parameters) : p.required /\ IsMissing(p)}
        body == /\ operation.requestBody # Undefined
                /\ operation.requestBody.required /\ ~ RequestBodyIsSet(builder)
    IN IF operation = Undefined THEN {}
       ELSE {<<p.in, p.name>> : p \in required} \cup (IF body THEN {<<"body", "requestBody">>} ELSE {})

Ready(builder) == builder.method # Undefined /\ Missing(builder) = {}

-----------------------------------------------------------------------------
(* send()                                                                  *)

EntityMethods == {"POST", "PUT", "PATCH"}
SendableMethods == EntityMethods \cup {"GET", "HEAD", "DELETE", "OPTIONS", "TRACE"}

\* A method that no client function sends is an error, after everything else.
CanSend(builder) == Ready(builder) /\ builder.method \in SendableMethods

FormContentType(operation) ==
    LET declared == IF operation = Undefined THEN {}
                    ELSE IF operation.requestBody = Undefined THEN {}
                    ELSE DOMAIN operation.requestBody.content
    IN IF UrlEncoded \notin declared /\ Multipart \in declared THEN Multipart ELSE UrlEncoded

\* Without a method that carries it an entity is left behind, but for the type
\* of a form.
SentContentType(builder) ==
    CASE builder.entity.kind = "form" -> FormContentType(builder.operation)
      [] builder.entity.kind = "body" /\ builder.method \in EntityMethods -> Json
      [] OTHER -> Undefined
SentBody(builder) ==
    CASE builder.method \notin EntityMethods \/ builder.entity.kind = "none" -> Undefined
      [] builder.method \in EntityMethods /\ builder.entity.kind = "form" -> builder.entity.fields
      [] builder.method \in EntityMethods /\ builder.entity.kind = "body" -> builder.entity.value

\* Cookies come after those of the header, encoded; the first of a name counts.
SentCookies(builder) ==
    LET ofHeader == HeaderCookies(builder)
    IN [sent \in DOMAIN ofHeader \cup {EncodedName[n] : n \in DOMAIN builder.cookies} |->
          IF sent \in DOMAIN ofHeader THEN ofHeader[sent]
          ELSE builder.cookies[CHOOSE n \in DOMAIN builder.cookies : EncodedName[n] = sent]]

\* Each placeholder is a segment of its own, which its value replaces.
RequestOf(builder) ==
    [method |-> builder.method,
     url |-> [i \in DOMAIN builder.routePath |->
                IF builder.routePath[i] \in DOMAIN builder.path
                THEN builder.path[builder.routePath[i]] ELSE builder.routePath[i]],
     accept |-> <<AnyMedia>>,
     contentType |-> SentContentType(builder),
     query |-> builder.query,
     headers |-> [name \in HeaderValues(builder) \ {"cookie"} |->
                    builder.headers[CHOOSE n \in DOMAIN builder.headers : LowerCase[n] = name]],
     cookie |-> SentCookies(builder),
     body |-> SentBody(builder)]
=============================================================================
