--------------------------- MODULE ResponseBuilder ---------------------------
(***************************************************************************)
(* response-builder.ts, the $.response of a handler, and the negotiation   *)
(* of dispatcher.ts: what content a response offers and which of it fits   *)
(* the Accept header.  A media type is a pair of a type and a subtype.  A  *)
(* body is known only as an object, a text, a message or a stream; what is *)
(* documented of a content says which of them its examples and generated   *)
(* values are.  The Accept header is the                                   *)
(* sequence of media ranges that @hapi/accept orders by preference.        *)
(***************************************************************************)
EXTENDS RequestValidation

TextPlain == <<"text", "plain">>
OctetStream == <<"application", "octet-stream">>
EventStream == <<"text", "event-stream">>
UnknownMedia == <<"unknown", "unknown">>

\* STREAMING_CONTENT_TYPES
StreamingTypes == {EventStream, <<"application", "jsonl">>, <<"application", "json-seq">>,
                   <<"application", "x-ndjson">>, <<"application", "ndjson">>}

\* selectStatus(): a response of this status without content.
SelectStatus(status, headers) ==
    [status |-> status, headers |-> headers, content |-> Undefined,
     contentType |-> Undefined, body |-> Undefined]

\* header() of the builder.
WithHeader(response, name, value) == [response EXCEPT !.headers = (name :> value) @@ @]

\* cookie(): a set-cookie header is added to those that are there.
WithCookie(response, cookie) ==
    LET existing == IF "set-cookie" \in DOMAIN response.headers
                    THEN response.headers["set-cookie"].items ELSE <<>>
    IN WithHeader(response, "set-cookie", List(Append(existing, cookie)))

\* What a response offers in other types than these.
Offered(response, medias) ==
    IF response.content = Undefined THEN <<>>
    ELSE SelectSeq(response.content, LAMBDA c : c.type \notin ToSet(medias))

\* A body is written as XML when the type is.
Written(media, body) == [type |-> media, body |-> IF media[2] = "xml" THEN "xml" ELSE body]

\* match(), for one type after the other: offers it besides the others, or the
\* same type again with another body.
MatchTypes(response, medias, body) ==
    [response EXCEPT !.content =
       Offered(response, medias) \o [i \in DOMAIN medias |-> Written(medias[i], body)]]
MatchType(response, media, body) == MatchTypes(response, <<media>>, body)

\* json()
JsonTypes == <<Json, <<"text", "json">>, <<"text", "x-json">>,
               <<"application", "xml">>, <<"text", "xml">>>>

UnknownStatusCodeResponse ==
    [SelectStatus("500", <<>>) EXCEPT !.content = <<[type |-> TextPlain, body |-> "message"]>>]

\* The content of a documented response, or Undefined: as of OpenAPI 3.
ContentFor(operation, status) ==
    LET response == ResponseFor(operation, status)
    IN IF response = Undefined THEN Undefined ELSE response.content

Offer(content, bodies) ==
    [i \in DOMAIN content |-> [type |-> content[i].type, body |-> bodies[i]]]

\* example(): the named example of every type that is documented.
Example(operation, response, name) ==
    LET content == ContentFor(operation, response.status)
        named(c) == IF name \in c.examples THEN c.body ELSE Undefined
    IN CASE operation.produces # <<>> \/ content = Undefined -> UnknownStatusCodeResponse
         [] OTHER -> IF \E c \in ToSet(content) : name \in c.examples
                     THEN [response EXCEPT !.content = Offer(content, [i \in DOMAIN content |-> named(content[i])])]
                     ELSE UnknownStatusCodeResponse

\* randomLegacy(): one body for all the types that Swagger 2 produces.
RandomLegacy(operation, response) ==
    IF ResponseFor(operation, response.status) = Undefined THEN UnknownStatusCodeResponse
    ELSE [response EXCEPT !.content =
            [i \in DOMAIN operation.produces |->
               [type |-> operation.produces[i], body |-> "generated"]]]

\* random(): an example or a generated body for every documented type, and the
\* required headers that are not set yet.
Random(operation, response) ==
    LET spec == ResponseFor(operation, response.status)
        required == {name \in DOMAIN spec.headers : spec.headers[name].required}
        generated == [name \in {LowerCase[n] : n \in required} |-> Typed("generated", name)]
    IN CASE operation.produces # <<>> -> RandomLegacy(operation, response)
         [] operation.produces = <<>> /\ ContentFor(operation, response.status) = Undefined ->
              UnknownStatusCodeResponse
         [] OTHER -> [response EXCEPT !.content = Offer(spec.content, [i \in DOMAIN spec.content |->
                                                                         spec.content[i].body]),
                                      !.headers = @ @@ generated]

\* stream(): the first documented type that streams, else server-sent events.
Stream(operation, response) ==
    LET content == ContentFor(operation, response.status)
        types == IF content = Undefined THEN <<>> ELSE [i \in DOMAIN content |-> content[i].type]
        streaming == SelectSeq(types, LAMBDA t : t \in StreamingTypes)
    IN [response EXCEPT !.body = "stream", !.content = Undefined,
                        !.contentType = IF streaming = <<>> THEN EventStream ELSE Head(streaming)]

-----------------------------------------------------------------------------
(* The negotiation of the dispatcher.                                      *)

IsMediaType(media, range) ==
    \/ range = AnyMedia
    \/ media[1] = range[1] /\ range[2] \in {media[2], "*"}
    \/ media[2] = range[2] /\ range[1] \in {media[1], "*"}

\* selectContent(): by the order of the ranges, then by that of the content; the
\* place of what is selected, or 0.
SelectContent(accept, content) ==
    LET Fitting(range) == {i \in DOMAIN content : IsMediaType(content[i].type, range)}
        met == {r \in DOMAIN accept : Fitting(accept[r]) # {}}
    IN IF met = {} THEN 0 ELSE Min(Fitting(accept[Min(met)]))

NotAcceptable == [SelectStatus("406", <<>>) EXCEPT !.contentType = TextPlain, !.body = "message"]

NormalizeResponse(response, accept) ==
    LET selected == SelectContent(accept, response.content)
        \* a content-type header wins, under exactly that name
        declared == CASE "content-type" \in DOMAIN response.headers -> response.headers["content-type"].media
                      [] "content-type" \notin DOMAIN response.headers
                           /\ response.contentType # Undefined -> response.contentType
                      [] OTHER -> UnknownMedia
    IN CASE response.content = Undefined -> [response EXCEPT !.contentType = declared]
         [] response.content # Undefined /\ selected = 0 -> NotAcceptable
         [] OTHER -> [response EXCEPT !.content = Undefined,
                                      !.body = response.content[selected].body,
                                      !.contentType = response.content[selected].type]

\* Fault: only the range that is preferred most is looked at.
FitsFirst(response, accept) ==
    \/ response.body = Undefined
    \/ IsMediaType(response.contentType, Head(accept))

\* The check of request() that follows: a body must be of an accepted type.
Fits(response, accept) ==
    \/ response.body = Undefined
    \/ \E range \in ToSet(accept) : IsMediaType(response.contentType, range)

\* $.tools.accepts()
Accepts(accept, media) ==
    \/ accept = <<>>
    \/ \E range \in ToSet(accept) : range[1] \in {"*", media[1]} /\ range[2] \in {"*", media[2]}
=============================================================================
