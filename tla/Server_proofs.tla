---------------------------- MODULE Server_proofs ----------------------------
(***************************************************************************)
(* For any runners, documents that change, files that come and go,         *)
(* requests and replies of handlers.  First, what a handler's answer is    *)
(* sent as is what the client accepts: the operation that a response is    *)
(* made from was looked up when the request arrived, and is used when its  *)
(* handler returns, whatever has become of the document meanwhile.  Then   *)
(* the routing: the handler that is called is the one that the URL asks    *)
(* for, the contract declares it, and the methods of an Allow header are   *)
(* served.  That argument is an invariant of the runners' trees of files   *)
(* (RoutingInv) and lemmas about one tree: it stays well formed in any     *)
(* order in which files come and go, the file that a URL finds fits the    *)
(* URL and no other one on its way is preferred to it, and the path of a   *)
(* match leads back to the file and the variables of the match.  Then, the *)
(* types of arguments: what validation lets through the conversions after  *)
(* it turn into the types that are declared (TypesInv), by an induction    *)
(* over the parameters that are gathered one after the other.              *)
(* And the other way round, what a builder holds for complete the server   *)
(* finds to be so (BuiltInv).                                              *)
(***************************************************************************)
EXTENDS Client, WellFoundedInduction, TLAPS

CONSTANTS
    ObjectTypes,    \* the media types under which objects are offered
    Variables,      \* the segments of paths that are variables, as they are spelled
    FileNames,      \* the last segments of paths
    OperationNames  \* the names of the operations of documents
-----------------------------------------------------------------------------
(* Numbers and sequences.                                                  *)

LEMMA MinOf ==
  ASSUME NEW S, S \subseteq Nat, S # {}
  PROVE  Min(S) \in S
<1> DEFINE Less == {ss \in Nat \X Nat : ss[1] < ss[2]}
<1>1. IsWellFoundedOn(Less, Nat)
  BY NatLessThanWellFounded DEF OpToRel
<1>2. \A i, j \in Nat : <<j, i>> \in Less <=> j < i
  OBVIOUS
<1> HIDE DEF Less
<1>3. PICK i \in S : \A j \in S : <<j, i>> \notin Less
  BY <1>1, WFMin
<1>4. \A j \in S : ~ (j < i)
  BY <1>2, <1>3
<1>5. \A j \in S : i <= j
  BY <1>4
<1> QED
  BY <1>3, <1>5 DEF Min

\* A nonempty set of numbers has a least one.
LEMMA Least ==
  ASSUME NEW S, S \subseteq Nat, S # {}
  PROVE  \E i \in S : \A j \in S : i <= j
<1> DEFINE Less == {ss \in Nat \X Nat : ss[1] < ss[2]}
<1>1. IsWellFoundedOn(Less, Nat)
  BY NatLessThanWellFounded DEF OpToRel
<1>2. \A i, j \in Nat : <<j, i>> \in Less <=> j < i
  OBVIOUS
<1> HIDE DEF Less
<1>3. PICK i \in S : \A j \in S : <<j, i>> \notin Less
  BY <1>1, WFMin
<1>4. \A j \in S : ~ (j < i)
  BY <1>2, <1>3
<1> QED
  BY <1>4

\* Natural numbers up to a bound have a greatest one.
LEMMA MaxOf ==
  ASSUME NEW bound \in Nat, NEW S, S \subseteq 0 .. bound, S # {}
  PROVE  Max(S) \in S /\ \A i \in S : i <= Max(S)
<1> DEFINE above == {k \in Nat : \A i \in S : i <= k}
<1>1. PICK k \in above : \A j \in above : k <= j
  <2>1. bound \in above
    OBVIOUS
  <2> HIDE DEF above
  <2> QED
    BY <2>1, Least DEF above
<1>2. k \in S
  <2> SUFFICES ASSUME k \notin S PROVE FALSE
    OBVIOUS
  <2>1. \A i \in S : i <= k - 1 /\ k \in Nat /\ i \in Nat
    BY <1>1
  <2>2. PICK i \in S : TRUE
    OBVIOUS
  <2>3. k - 1 \in Nat
    BY <2>1, <2>2
  <2>4. k - 1 \in above
    BY <2>1, <2>3
  <2>5. ~ k <= k - 1
    BY <1>1
  <2> QED
    BY <1>1, <2>4, <2>5
<1>3. \A i \in S : k >= i /\ i \in Nat /\ k \in Nat
  BY <1>1
<1>4. \E i \in S : \A j \in S : i >= j
  BY <1>2, <1>3
<1>5. Max(S) \in S /\ \A j \in S : Max(S) >= j
  BY <1>4 DEF Max
<1> QED
  BY <1>3, <1>5

\* What holds of 0, and of n + 1 when it holds of n, holds of all n.
LEMMA Induction ==
  ASSUME NEW S, S \subseteq Nat, 0 \in S, \A n \in S : n + 1 \in S
  PROVE  S = Nat
<1> SUFFICES ASSUME S # Nat PROVE FALSE
  OBVIOUS
<1>1. PICK n \in Nat \ S : \A m \in Nat \ S : n <= m
  BY Least
<1>2. n - 1 \in Nat /\ n - 1 \notin Nat \ S
  BY <1>1
<1> QED
  BY <1>1, <1>2

\* Of sequences of numbers that have one length there is a first one.
LEMMA FirstOrder ==
  ASSUME NEW length \in Nat, NEW S, S # {}, NEW order,
         \A s \in S : order[s] \in [1 .. length -> Nat]
  PROVE  \E s \in S : \A t \in S : ~ Before(order[t], order[s])
<1> DEFINE Agree(s, t, n) == \A m \in 1 .. n : order[s][m] = order[t][m]
           Precedes(s, t, n) == \E k \in 1 .. n : order[s][k] < order[t][k] /\ Agree(s, t, k - 1)
           Good(n) == \E s \in S : \A t \in S : Agree(s, t, n) \/ Precedes(s, t, n)
           Depths == {n \in Nat : n <= length => Good(n)}
<1>1. 0 \in Depths
  OBVIOUS
<1>2. ASSUME NEW n \in Nat, n + 1 <= length, Good(n) PROVE Good(n + 1)
  <2> USE <1>2
  <2>1. PICK s \in S : \A t \in S : Agree(s, t, n) \/ Precedes(s, t, n)
    OBVIOUS
  <2> DEFINE same == {t \in S : Agree(s, t, n)}
             values == {order[t][n + 1] : t \in same}
  <2>2. values \subseteq Nat /\ values # {}
    <3>1. s \in same
      OBVIOUS
    <3>2. \A t \in S : order[t][n + 1] \in Nat
      OBVIOUS
    <3> QED
      BY <3>1, <3>2
  <2>3. PICK least \in values : \A v \in values : least <= v
    <3> HIDE DEF values
    <3> QED
      BY <2>2, Least
  <2>4. PICK u \in same : order[u][n + 1] = least
    OBVIOUS
  <2>5. ASSUME NEW t \in S PROVE Agree(u, t, n + 1) \/ Precedes(u, t, n + 1)
    <3>1. CASE t \in same
      <4>1. Agree(u, t, n)
        BY <2>4, <3>1
      <4>2. order[u][n + 1] <= order[t][n + 1] /\ order[u][n + 1] \in Nat /\ order[t][n + 1] \in Nat
        BY <2>3, <2>4, <2>2, <3>1
      <4>3. CASE order[u][n + 1] = order[t][n + 1]
        BY <4>1, <4>3
      <4>4. CASE order[u][n + 1] < order[t][n + 1]
        BY <4>1, <4>4
      <4> QED
        BY <4>2, <4>3, <4>4
    <3>2. CASE t \notin same
      <4>1. PICK k \in 1 .. n : order[s][k] < order[t][k] /\ Agree(s, t, k - 1)
        BY <2>1, <3>2
      <4>2. Agree(s, u, n)
        BY <2>4
      <4>3. order[u][k] < order[t][k]
        BY <4>1, <4>2
      <4>4. Agree(u, t, k - 1)
        BY <4>1, <4>2
      <4> QED
        BY <4>3, <4>4
    <3> QED
      BY <3>1, <3>2
  <2>6. u \in S
    OBVIOUS
  <2> QED
    BY <2>5, <2>6
<1>3. Good(length)
  <2> HIDE DEF Good
  <2>1. \A n \in Depths : n + 1 \in Depths
    BY <1>2
  <2>2. Depths = Nat
    <3> HIDE DEF Depths
    <3>1. Depths \subseteq Nat
      BY DEF Depths
    <3> QED
      BY <1>1, <2>1, <3>1, Induction
  <2> QED
    BY <2>2
<1>4. PICK s \in S : \A t \in S : Agree(s, t, length) \/ Precedes(s, t, length)
  BY <1>3
<1>5. ASSUME NEW t \in S, Before(order[t], order[s]) PROVE FALSE
  <2>1. PICK n \in 1 .. length : /\ order[t][n] < order[s][n]
                                 /\ \A m \in 1 .. n - 1 : order[t][m] = order[s][m]
    BY <1>5 DEF Before
  <2>2. order[s] \in [1 .. length -> Nat] /\ order[t] \in [1 .. length -> Nat]
    OBVIOUS
  <2>3. order[s][n] \in Nat /\ order[t][n] \in Nat
    BY <2>2
  <2>4. ~ Agree(s, t, length)
    BY <2>1, <2>3
  <2>5. PICK k \in 1 .. length : order[s][k] < order[t][k] /\ Agree(s, t, k - 1)
    BY <1>4, <2>4
  <2>6. order[s][k] \in Nat /\ order[t][k] \in Nat
    BY <2>2
  <2>7. ~ k < n
    BY <2>1, <2>5, <2>6
  <2>8. ~ n < k
    BY <2>1, <2>5, <2>3
  <2>9. k = n
    BY <2>7, <2>8
  <2> QED
    BY <2>1, <2>3, <2>5, <2>9
<1> QED
  BY <1>4, <1>5
-----------------------------------------------------------------------------
(* Documents, requests and replies that are well formed.                   *)

IsList(values) == DOMAIN values \subseteq Nat \ {0}

\* A list of contents; an object among them has a type of objects.
ContentOK(content) ==
  /\ IsList(content)
  /\ \A i \in DOMAIN content : content[i].body = "object" => content[i].type \in ObjectTypes

\* An operation lists what it produces, and its contents are lists.
OperationOK(operation) ==
  /\ {"produces", "responses"} \subseteq DOMAIN operation
  /\ IsList(operation.produces)
  /\ \A status \in DOMAIN operation.responses :
       LET content == operation.responses[status].content
       IN content = Undefined \/ ContentOK(content)

\* A document is a list of paths with operations.
DocumentOK(document) ==
  /\ IsList(document.paths) /\ IsList(document.produces)
  /\ \A i \in DOMAIN document.paths :
       LET operations == document.paths[i].operations
       IN \A name \in DOMAIN operations : OperationOK(operations[name])

\* A runner may have no document.
RunnerOK(runner) ==
  /\ "document" \in DOMAIN runner
  /\ runner.document = Undefined \/ DocumentOK(runner.document)

\* Ranges have two parts, and whoever takes an object's type takes JSON too:
\* this is what objects are sent as, whatever they were offered as.
AcceptOK(accept) ==
  LET Accepted(media) == \E range \in ToSet(accept) : \A i \in {1, 2} : range[i] \in {"*", media[i]}
  IN /\ IsList(accept)
     /\ \A range \in ToSet(accept) : range = <<range[1], range[2]>>
     /\ \A media \in ObjectTypes : Accepted(media) => Accepted(Json)

\* A response that was made by hand, or by the builder; an object without
\* content has the type that it declares, or else "unknown".
ResponseOK(response) ==
  /\ {"status", "content", "contentType", "body"} \subseteq DOMAIN response
  /\ response.status # "406"
  /\ response.content = Undefined \/ ContentOK(response.content)
  /\ response.content = Undefined /\ response.body = "object" =>
       NormalizeResponse(response, <<>>).contentType \in ObjectTypes

\* What a handler may reply with.
ReplyKinds == {"text", "nothing", "throw", "lost", "object", "json", "match", "random",
               "example", "stream"}

\* A reply is of one of these kinds; a response that it holds is well formed,
\* and no handler asks for a 406.
ReplyOK(reply) ==
  /\ reply # Undefined /\ reply.by \in ReplyKinds
  /\ reply.by = "object" => ResponseOK(reply.response)
  /\ reply.by \in {"json", "match", "random", "example", "stream"} => reply.status # "406"

\* The constants of the model are well formed.
WellFormed ==
  /\ "406" # Undefined /\ "object" # Undefined
  /\ {Json, <<"text", "json">>, <<"text", "x-json">>} \subseteq ObjectTypes
  /\ IsList(InitialRunners) /\ \A r \in DOMAIN InitialRunners : RunnerOK(InitialRunners[r])
  /\ \A document \in Documents : DocumentOK(document)
  /\ \A request \in Requests : AcceptOK(request.accept)
  /\ \A reply \in Replies : ReplyOK(reply)
-----------------------------------------------------------------------------
(* The negotiation.                                                        *)

\* The client accepts a type when one of its ranges has it.
Accepted(accept, media) ==
  \E range \in ToSet(accept) : \A i \in {1, 2} : range[i] \in {"*", media[i]}

\* A range that matches a type accepts it.
LEMMA RangesAccept ==
  ASSUME NEW accept, AcceptOK(accept), NEW media
  PROVE  Accepted(accept, media) <=> \E range \in ToSet(accept) : IsMediaType(media, range)
<1>1. ASSUME NEW range, range = <<range[1], range[2]>>
      PROVE  IsMediaType(media, range) <=> \A i \in {1, 2} : range[i] \in {"*", media[i]}
  <2>1. range = AnyMedia <=> range[1] = "*" /\ range[2] = "*"
    BY <1>1 DEF AnyMedia
  <2> QED
    BY <2>1 DEF IsMediaType
<1> QED
  BY <1>1 DEF AcceptOK, Accepted

\* What is selected is among the contents and accepted; nothing is selected only
\* when nothing is accepted.
LEMMA Selection ==
  ASSUME NEW accept, NEW content, AcceptOK(accept), ContentOK(content)
  PROVE  LET i == SelectContent(accept, content) IN
         \/ i \in DOMAIN content /\ Accepted(accept, content[i].type)
         \/ i = 0 /\ \A c \in ToSet(content) : ~ Accepted(accept, c.type)
<1> DEFINE Fitting(range) == {i \in DOMAIN content : IsMediaType(content[i].type, range)}
           met == {r \in DOMAIN accept : Fitting(accept[r]) # {}}
<1>1. CASE met = {}
  <2>1. SelectContent(accept, content) = 0
    BY <1>1 DEF SelectContent
  <2>2. ASSUME NEW c \in ToSet(content), Accepted(accept, c.type)
        PROVE  FALSE
    <3>1. PICK range \in ToSet(accept) : IsMediaType(c.type, range)
      BY <2>2, RangesAccept
    <3>2. PICK r \in DOMAIN accept : accept[r] = range
      BY DEF ToSet
    <3>3. PICK i \in DOMAIN content : content[i] = c
      BY DEF ToSet
    <3> QED
      BY <1>1, <3>1, <3>2, <3>3
  <2> QED
    BY <2>1, <2>2
<1>2. CASE met # {}
  <2>1. Min(met) \in met
    BY <1>2, MinOf DEF AcceptOK, IsList
  <2> DEFINE fitting == Fitting(accept[Min(met)])
  <2>2. Min(fitting) \in fitting
    <3>1. fitting # {} /\ fitting \subseteq Nat
      BY <2>1 DEF ContentOK, IsList
    <3> HIDE DEF fitting
    <3> QED
      BY <3>1, MinOf
  <2>3. SelectContent(accept, content) = Min(fitting)
    BY <1>2 DEF SelectContent
  <2>4. accept[Min(met)] \in ToSet(accept)
    BY <2>1 DEF ToSet
  <2>5. IsMediaType(content[Min(fitting)].type, accept[Min(met)]) /\ Min(fitting) \in DOMAIN content
    BY <2>2
  <2> HIDE DEF met, fitting
  <2> QED
    BY <2>3, <2>4, <2>5, RangesAccept
<1> QED
  BY <1>1, <1>2

\* What is offered under an object's type is sent as what the client accepts,
\* or it accepts nothing of what is offered.
\* An answer has a type that the client accepts, or it is a 406 and nothing
\* that was offered is accepted.
Negotiated(response, accept, answer) ==
  IF answer.status = "406"
  THEN IF response.content = Undefined
       THEN ~ Accepted(accept, NormalizeResponse(response, <<>>).contentType)
       ELSE \A c \in ToSet(response.content) : ~ Accepted(accept, c.type)
  ELSE answer.body = Undefined \/ Accepted(accept, answer.contentType)

\* Serialising keeps a type that is accepted accepted.
LEMMA SerializedAccepted ==
  ASSUME NEW accept, AcceptOK(accept), NEW answer,
         {"body", "contentType", "status"} \subseteq DOMAIN answer,
         answer.body = Undefined \/ Accepted(accept, answer.contentType),
         answer.body = "object" => answer.contentType \in ObjectTypes,
         "object" # Undefined
  PROVE  LET sent == Serialized(answer) IN
         /\ sent.body = Undefined \/ Accepted(accept, sent.contentType)
         /\ sent.status = answer.status
<1>1. CASE answer.body = "object"
  <2>1. Accepted(accept, Json)
    BY <1>1 DEF AcceptOK, Accepted
  <2> QED
    BY <1>1, <2>1 DEF Serialized
<1>2. CASE answer.body # "object"
  BY <1>2 DEF Serialized
<1> QED
  BY <1>1, <1>2

\* What Respond() makes of a normalized response.
LEMMA Responded ==
  ASSUME NEW call, NEW response, NEW accept
  PROVE  LET sent == NormalizeResponse(response, accept)
             answer == Respond(call, response, accept)
         IN /\ {"body", "contentType", "status"} \subseteq DOMAIN answer
            /\ ~ Fits(sent, accept) => answer.status = "406" /\ answer.body = "message"
            /\ Fits(sent, accept) =>
                 /\ answer.body = sent.body /\ answer.contentType = sent.contentType
                 /\ answer.status = IF sent.status = Undefined THEN "200" ELSE sent.status
<1> DEFINE sent == NormalizeResponse(response, accept)
<1>1. Respond(call, response, accept) =
        IF ~ Fits(sent, accept) THEN [Answer("406", {}) EXCEPT !.contentType = Undefined]
        ELSE [Answer(IF sent.status = Undefined THEN "200" ELSE sent.status, {})
               EXCEPT !.contentType = sent.contentType, !.headers = sent.headers,
                      !.body = sent.body,
                      !.errors = IF ValidateResponses THEN ValidateResponse(call.operation, sent)
                                 ELSE {}]
  BY DEF Respond
<1> HIDE DEF sent
<1>2. CASE ~ Fits(sent, accept)
  BY <1>1, <1>2 DEF Answer, sent
<1>3. CASE Fits(sent, accept)
  BY <1>1, <1>3 DEF Answer, sent
<1> QED
  BY <1>2, <1>3

\* A response of fitting type is sent with a type that the client accepts.
LEMMA FittingIsAccepted ==
  ASSUME NEW call, NEW response, NEW accept, WellFormed, AcceptOK(accept),
         Fits(NormalizeResponse(response, accept), accept),
         NormalizeResponse(response, accept).body = "object" =>
           NormalizeResponse(response, accept).contentType \in ObjectTypes,
         NormalizeResponse(response, accept).status # "406"
  PROVE  LET sent == Serialized(Respond(call, response, accept)) IN
         /\ sent.body = Undefined \/ Accepted(accept, sent.contentType)
         /\ sent.status # "406"
<1> DEFINE sent == NormalizeResponse(response, accept)
           answer == Respond(call, response, accept)
<1>1. /\ {"body", "contentType", "status"} \subseteq DOMAIN answer
      /\ answer.body = sent.body /\ answer.contentType = sent.contentType
      /\ answer.status = IF sent.status = Undefined THEN "200" ELSE sent.status
  BY Responded
<1>2. sent.body = Undefined \/ Accepted(accept, sent.contentType)
  BY RangesAccept DEF Fits
<1>3. "object" # Undefined /\ sent.status # "406"
  BY DEF WellFormed
<1> HIDE DEF sent, answer
<1>4. answer.body = "object" => answer.contentType \in ObjectTypes
  BY <1>1 DEF sent
<1>5. /\ Serialized(answer).body = Undefined \/ Accepted(accept, Serialized(answer).contentType)
      /\ Serialized(answer).status = answer.status
  BY <1>1, <1>2, <1>3, <1>4, SerializedAccepted
<1> QED
  BY <1>1, <1>3, <1>5 DEF answer

\* A refusal says so, whatever it is sent as.
LEMMA RefusalIsSent ==
  ASSUME NEW answer, answer.status = "406", answer.body = "message"
  PROVE  Serialized(answer).status = "406"
BY DEF Serialized

\* NormalizeResponse(): a response with content becomes one whose body is the
\* content that is selected, if any.
LEMMA Negotiation ==
  ASSUME NEW call, NEW response, NEW accept, WellFormed, ResponseOK(response), AcceptOK(accept)
  PROVE  Negotiated(response, accept, Serialized(Respond(call, response, accept)))
<1> DEFINE sent == NormalizeResponse(response, accept)
           answer == Respond(call, response, accept)
           i == SelectContent(accept, response.content)
<1>1. CASE response.content = Undefined
  <2>1. /\ sent.body = response.body /\ sent.status = response.status
        /\ sent.contentType = NormalizeResponse(response, <<>>).contentType
    BY <1>1 DEF NormalizeResponse, ResponseOK
  <2>2. /\ sent.body = "object" => sent.contentType \in ObjectTypes
        /\ sent.status # "406"
    BY <1>1, <2>1 DEF ResponseOK
  <2>3. CASE Fits(sent, accept)
    BY <2>2, <2>3, FittingIsAccepted DEF Negotiated
  <2>4. CASE ~ Fits(sent, accept)
    <3>1. ~ Accepted(accept, sent.contentType)
      BY <2>4, RangesAccept DEF Fits
    <3>2. answer.status = "406" /\ answer.body = "message"
      BY <2>4, Responded
    <3> QED
      BY <1>1, <2>1, <3>1, <3>2, RefusalIsSent DEF Negotiated
  <2> QED
    BY <2>3, <2>4
<1>2. CASE response.content # Undefined /\ i = 0
  <2>1. \A c \in ToSet(response.content) : ~ Accepted(accept, c.type)
    <3>1. ContentOK(response.content) /\ 0 \notin DOMAIN response.content
      BY <1>2 DEF ResponseOK, ContentOK, IsList
    <3> QED
      BY <1>2, <3>1, Selection
  <2>2. sent = NotAcceptable
    BY <1>2 DEF NormalizeResponse
  <2>3. sent.status = "406" /\ sent.body = "message" /\ "406" # Undefined
    BY <2>2 DEF NotAcceptable, SelectStatus, WellFormed
  <2>4. answer.status = "406" /\ answer.body = "message"
    BY <2>3, Responded
  <2> QED
    BY <1>2, <2>1, <2>4, RefusalIsSent DEF Negotiated
<1>3. CASE response.content # Undefined /\ i # 0
  <2>1. i \in DOMAIN response.content /\ Accepted(accept, response.content[i].type)
    BY <1>3, Selection DEF ResponseOK
  <2>2. /\ sent.body = response.content[i].body /\ sent.status = response.status
        /\ sent.contentType = response.content[i].type
    BY <1>3 DEF NormalizeResponse, ResponseOK
  <2>3. Fits(sent, accept)
    BY <2>1, <2>2, RangesAccept DEF Fits
  <2>4. sent.body = "object" => sent.contentType \in ObjectTypes
    BY <1>3, <2>1, <2>2 DEF ResponseOK, ContentOK
  <2>5. sent.status # "406"
    BY <2>2 DEF ResponseOK
  <2> QED
    BY <2>3, <2>4, <2>5, FittingIsAccepted DEF Negotiated
<1> QED
  BY <1>1, <1>2, <1>3
-----------------------------------------------------------------------------
(* What the builder makes.                                                 *)

\* A response that the builder begins with has no content and no body.
LEMMA StatusAlone ==
  ASSUME NEW status
  PROVE  LET response == SelectStatus(status, <<>>) IN
         /\ DOMAIN response = {"status", "headers", "content", "contentType", "body"}
         /\ response.status = status /\ response.content = Undefined
         /\ response.body = Undefined /\ response.headers = <<>>
BY DEF SelectStatus

\* A response whose body is no object, or that has content of an operation.
LEMMA PlainResponse ==
  ASSUME NEW response, {"status", "content", "contentType", "body"} \subseteq DOMAIN response,
         response.status # "406", response.content = Undefined, response.body # "object"
  PROVE  ResponseOK(response)
BY DEF ResponseOK

\* A response made of documented content.
LEMMA ContentResponse ==
  ASSUME WellFormed, NEW status, NEW content, status # "406", ContentOK(content)
  PROVE  ResponseOK([SelectStatus(status, <<>>) EXCEPT !.content = content])
BY DEF ResponseOK, SelectStatus, WellFormed

\* match() and json() offer objects under types of objects.
LEMMA MatchedContent ==
  ASSUME WellFormed, NEW status, NEW Types, NEW medias \in Seq(Types), NEW body, status # "406",
         body = "object" => \A i \in DOMAIN medias : medias[i][2] # "xml"
           => medias[i] \in ObjectTypes
  PROVE  ResponseOK(MatchTypes(SelectStatus(status, <<>>), medias, body))
<1> DEFINE offers == [i \in DOMAIN medias |-> Written(medias[i], body)]
           response == SelectStatus(status, <<>>)
<1>1. offers \in Seq({offers[i] : i \in DOMAIN medias}) /\ DOMAIN offers = DOMAIN medias
  OBVIOUS
<1>2. IsList(offers)
  BY <1>1 DEF IsList
<1>3. \A i \in DOMAIN offers : offers[i].body = "object" => offers[i].type \in ObjectTypes
  BY DEF Written
<1>4. ContentOK(offers)
  BY <1>2, <1>3 DEF ContentOK
<1>5. Offered(response, medias) = <<>>
  BY StatusAlone DEF Offered
<1>6. MatchTypes(response, medias, body) = [response EXCEPT !.content = <<>> \o offers]
  BY <1>5 DEF MatchTypes
<1> HIDE DEF offers
<1>7. <<>> \o offers = offers
  BY <1>1
<1> QED
  BY <1>4, <1>6, <1>7, ContentResponse

\* json()
LEMMA JsonResponse ==
  ASSUME WellFormed, NEW status, status # "406"
  PROVE  ResponseOK(MatchTypes(SelectStatus(status, <<>>), JsonTypes, "object"))
<1>1. PICK a, b, c, d : JsonTypes = <<Json, a, b, c, d>>
  BY DEF JsonTypes
<1>2. JsonTypes \in Seq({Json, a, b, c, d})
  BY <1>1
<1>3. \A i \in DOMAIN JsonTypes : JsonTypes[i][2] # "xml" => JsonTypes[i] \in ObjectTypes
  BY DEF WellFormed, JsonTypes
<1> QED
  BY <1>2, <1>3, MatchedContent

\* match() with a text
LEMMA TextResponse ==
  ASSUME WellFormed, NEW status, status # "406", NEW media
  PROVE  ResponseOK(MatchType(SelectStatus(status, <<>>), media, "text"))
<1>1. <<media>> \in Seq({media})
  OBVIOUS
<1> QED
  BY <1>1, MatchedContent DEF MatchType

\* Contents that are offered under their documented types, with bodies that are
\* none or those that are documented.
LEMMA OfferedContent ==
  ASSUME WellFormed, NEW content, ContentOK(content), NEW bodies,
         \A i \in DOMAIN content : bodies[i] \in {content[i].body, Undefined}
  PROVE  ContentOK(Offer(content, bodies))
BY DEF ContentOK, Offer, WellFormed, IsList

\* The response for a status that is not documented.
LEMMA UnknownStatus == ASSUME WellFormed PROVE ResponseOK(UnknownStatusCodeResponse)
<1> DEFINE content == <<[type |-> TextPlain, body |-> "message"]>>
<1>1. ContentOK(content)
  BY DEF ContentOK, IsList
<1> HIDE DEF content
<1>2. UnknownStatusCodeResponse = [SelectStatus("500", <<>>) EXCEPT !.content = content]
  BY DEF UnknownStatusCodeResponse, content
<1> QED
  BY <1>1, <1>2, ContentResponse

\* The content that an operation documents for a status is well formed.
LEMMA DocumentedContent ==
  ASSUME NEW operation, OperationOK(operation), NEW status
  PROVE  LET content == ContentFor(operation, status)
         IN /\ content = Undefined \/ ContentOK(content)
            /\ content # Undefined => /\ ResponseFor(operation, status) # Undefined
                                     /\ content = ResponseFor(operation, status).content
BY DEF OperationOK, ContentFor, ResponseFor

\* example()
LEMMA ExampleResponse ==
  ASSUME WellFormed, NEW operation, OperationOK(operation), NEW status, status # "406", NEW name
  PROVE  ResponseOK(Example(operation, SelectStatus(status, <<>>), name))
<1> DEFINE response == SelectStatus(status, <<>>)
           content == ContentFor(operation, status)
           named(c) == IF name \in c.examples THEN c.body ELSE Undefined
           offer == Offer(content, [i \in DOMAIN content |-> named(content[i])])
<1>1. response.status = status
  BY StatusAlone
<1>2. \/ Example(operation, response, name) = UnknownStatusCodeResponse
      \/ /\ content # Undefined
         /\ Example(operation, response, name) = [response EXCEPT !.content = offer]
  BY <1>1 DEF Example
<1>3. ASSUME content # Undefined
      PROVE  ContentOK(offer)
  BY <1>3, DocumentedContent, OfferedContent
<1> HIDE DEF offer
<1> QED
  BY <1>2, <1>3, ContentResponse, UnknownStatus

\* random()
LEMMA RandomResponse ==
  ASSUME WellFormed, NEW operation, OperationOK(operation), NEW status, status # "406"
  PROVE  ResponseOK(Random(operation, SelectStatus(status, <<>>)))
<1> DEFINE response == SelectStatus(status, <<>>)
           spec == ResponseFor(operation, status)
           produced == [i \in DOMAIN operation.produces |->
                          [type |-> operation.produces[i], body |-> "generated"]]
           offer == Offer(spec.content, [i \in DOMAIN spec.content |-> spec.content[i].body])
<1>1. response.status = status
  BY StatusAlone
<1>2. CASE operation.produces # <<>>
  <2>1. \/ Random(operation, response) = UnknownStatusCodeResponse
        \/ Random(operation, response) = [response EXCEPT !.content = produced]
    BY <1>2 DEF Random, RandomLegacy
  <2>2. ContentOK(produced)
    BY DEF OperationOK, ContentOK, IsList
  <2> HIDE DEF produced
  <2> QED
    BY <2>1, <2>2, ContentResponse, UnknownStatus
<1>3. CASE operation.produces = <<>> /\ ContentFor(operation, status) = Undefined
  <2>1. Random(operation, response) = UnknownStatusCodeResponse
    BY <1>1, <1>3 DEF Random
  <2> QED
    BY <2>1, UnknownStatus
<1>4. CASE operation.produces = <<>> /\ ContentFor(operation, status) # Undefined
  <2>1. ContentOK(spec.content)
    BY <1>4, DocumentedContent
  <2>2. ContentOK(offer)
    BY <2>1, OfferedContent
  <2>3. PICK headers : Random(operation, response) =
                         [response EXCEPT !.content = offer, !.headers = headers]
    BY <1>1, <1>4 DEF Random
  <2> HIDE DEF offer
  <2> QED
    BY <2>2, <2>3 DEF ResponseOK, SelectStatus, WellFormed
<1> QED
  BY <1>2, <1>3, <1>4

\* stream()
LEMMA StreamResponse ==
  ASSUME NEW operation, NEW status, status # "406"
  PROVE  ResponseOK(Stream(operation, SelectStatus(status, <<>>)))
BY PlainResponse DEF Stream, SelectStatus

\* What handlers return is well formed, once it is a response.
LEMMA RepliesAreWellFormed ==
  ASSUME WellFormed, NEW reply \in Replies, reply.by \notin {"throw", "lost"},
         NEW call, call.operation = Undefined \/ OperationOK(call.operation)
  PROVE  ResponseOK(ResponseOf(reply, call))
<1> DEFINE operation == IF call.operation = Undefined THEN NoOperation ELSE call.operation
           start == SelectStatus(reply.status, <<>>)
<1>1. ReplyOK(reply)
  BY DEF WellFormed
<1>2. OperationOK(operation)
  BY DEF OperationOK, NoOperation, IsList
<1> HIDE DEF operation
<1>3. CASE reply.by = "text"
  BY <1>3, PlainResponse DEF ResponseOf, SelectStatus
<1>4. CASE reply.by = "nothing"
  BY <1>4, PlainResponse DEF ResponseOf, SelectStatus
<1>5. CASE reply.by = "object"
  BY <1>1, <1>5 DEF ResponseOf, ReplyOK
<1>6. CASE reply.by = "json"
  BY <1>1, <1>6, JsonResponse DEF ResponseOf, ReplyOK
<1>7. CASE reply.by = "match"
  BY <1>1, <1>7, TextResponse DEF ResponseOf, ReplyOK
<1>8. CASE reply.by = "random"
  <2>1. ResponseOf(reply, call) = Random(operation, start)
    BY <1>8 DEF ResponseOf, operation
  <2> QED
    BY <1>1, <1>2, <1>8, <2>1, RandomResponse DEF ReplyOK
<1>9. CASE reply.by = "example"
  <2>1. ResponseOf(reply, call) = Example(operation, start, reply.name)
    BY <1>9 DEF ResponseOf, operation
  <2> QED
    BY <1>1, <1>2, <1>9, <2>1, ExampleResponse DEF ReplyOK
<1>10. CASE reply.by = "stream"
  <2>1. ResponseOf(reply, call) = Stream(operation, start)
    BY <1>10 DEF ResponseOf, operation
  <2> QED
    BY <1>1, <1>10, <2>1, StreamResponse DEF ReplyOK
<1> QED
  BY <1>1, <1>3, <1>4, <1>5, <1>6, <1>7, <1>8, <1>9, <1>10 DEF ReplyOK, ReplyKinds
-----------------------------------------------------------------------------
(* The operation that a handler is called for.                             *)

\* An operation was looked up; it may have been none.
FoundOK(operation) == operation = Undefined \/ OperationOK(operation)

\* An operation that is looked up in a well-formed document is well formed.
LEMMA OperationFound ==
  ASSUME NEW document, document = Undefined \/ DocumentOK(document), NEW path, NEW method
  PROVE  FoundOK(OperationForPathAndMethod(document, path, method))
<1> DEFINE item == FindPathItem(document, path)
           same == {i \in DOMAIN document.paths : KeyOf(document.paths[i].path) = KeyOf(path)}
           found == OperationForPathAndMethod(document, path, method)
<1>1. CASE document = Undefined \/ same = {}
  <2>1. item = Undefined
    BY <1>1 DEF FindPathItem
  <2>2. found = Undefined
    BY <2>1 DEF OperationForPathAndMethod
  <2> QED
    BY <2>2 DEF FoundOK
<1>2. CASE document # Undefined /\ same # {}
  <2>1. DocumentOK(document)
    BY <1>2
  <2>2. Min(same) \in same
    <3>1. same \subseteq Nat
      BY <2>1 DEF DocumentOK, IsList
    <3> HIDE DEF same
    <3> QED
      BY <1>2, <3>1, MinOf
  <2>3. item = document.paths[Min(same)]
    BY <1>2 DEF FindPathItem
  <2>4. \A name \in DOMAIN item.operations : OperationOK(item.operations[name])
    BY <2>1, <2>2, <2>3 DEF DocumentOK
  <2> DEFINE names == {LowerCase[method], method} \cap DOMAIN item.operations
             operation == item.operations[IF LowerCase[method] \in names THEN LowerCase[method]
                                          ELSE method]
  <2>5. names # {} => OperationOK(operation)
    BY <2>4
  <2>6. \/ found = Undefined
        \/ /\ names # {}
           /\ \E all : found = [operation EXCEPT
                                !.parameters = all,
                                !.produces = IF @ = <<>> THEN document.produces ELSE @]
    BY DEF OperationForPathAndMethod
  <2> HIDE DEF operation, names, item, found
  <2> SUFFICES FoundOK(found)
    BY DEF found
  <2>7. CASE found = Undefined
    BY <2>7 DEF FoundOK
  <2>8. CASE found # Undefined
    <3>1. OperationOK(operation)
      BY <2>5, <2>6, <2>8
    <3>2. PICK all : found = [operation EXCEPT
                                !.parameters = all,
                                !.produces = IF @ = <<>> THEN document.produces ELSE @]
      BY <2>6, <2>8
    <3>3. /\ DOMAIN found = DOMAIN operation /\ found.responses = operation.responses
          /\ found.produces = IF operation.produces = <<>> THEN document.produces
                              ELSE operation.produces
      BY <3>1, <3>2 DEF OperationOK
    <3>4. IsList(found.produces)
      BY <2>1, <3>1, <3>3 DEF OperationOK, DocumentOK
    <3> QED
      BY <3>1, <3>3, <3>4 DEF OperationOK, FoundOK
  <2> QED
    BY <2>7, <2>8
<1> QED
  BY <1>1, <1>2

\* Call() goes on to an endpoint with the operation that it found.
\* A call of a handler carries an operation that was looked up.
CallOK(call) ==
  /\ "is" \in DOMAIN call
  /\ call.is = "handler" => "operation" \in DOMAIN call /\ FoundOK(call.operation)

\* A call carries the operation that was looked up for it.
LEMMA CalledOperation ==
  ASSUME NEW runner, RunnerOK(runner), NEW url, NEW request
  PROVE  CallOK(Call(runner, url, request))
<1> DEFINE path == WithoutBasePath(runner, url)
           matched == IF IsVersioned(runner) THEN SelectedContractPath(runner, path)
                      ELSE Handler(runner.registry, request.method, path).matchedPath
           operation == OperationForPathAndMethod(runner.document, matched, request.method)
           decoded == WithDecodedBody(operation, request)
           endpoint == Endpoint(runner.registry, decoded.method, path,
                                IF IsVersioned(runner) THEN matched ELSE <<>>)
<1>1. Call(runner, url, request) = Admitted(runner, path, matched, operation, request)
  BY DEF Call
<1>2. FoundOK(operation)
  BY OperationFound DEF RunnerOK
<1> HIDE DEF path, matched, operation
<1>3. \/ \E status, allow : Call(runner, url, request) = Answer(status, allow)
      \/ Call(runner, url, request) = Validated(runner, path, matched, operation, decoded)
  BY <1>1 DEF Admitted
<1>4. \A status, allow : CallOK(Answer(status, allow))
  BY DEF Answer, CallOK
<1>5. \/ CallOK(Call(runner, url, request))
      \/ Call(runner, url, request) = Met(runner, matched, operation, decoded, endpoint)
  BY <1>3, <1>4 DEF Validated
<1>6. CallOK(Met(runner, matched, operation, decoded, endpoint))
  BY <1>2 DEF Met, CallOK
<1> QED
  BY <1>5, <1>6

\* Routed() adds to a call only what CORS has to know.
LEMMA RoutedOperation ==
  ASSUME NEW runner, RunnerOK(runner), NEW path, NEW request, NEW override
  PROVE  CallOK(Routed(runner, path, request, override))
<1> DEFINE call == Call(runner, path, request)
           routed == Routed(runner, path, request, override)
           allowed == IF override = Undefined THEN AllowedMethodsForPath(runner, path) ELSE override
           Preflight == [Answer("200", {}) EXCEPT !.contentType = Undefined, !.body = Undefined]
           given == IF /\ call.is = "answer" /\ call.status = "405"
                       /\ override # Undefined /\ ~ IsVersioned(runner)
                    THEN [call EXCEPT !.allow = override] ELSE call
<1>1. CASE IsProxied(path)
  <2>1. routed = [is |-> "proxied", target |-> routedUrl]
    BY <1>1 DEF Routed
  <2> QED
    BY <2>1 DEF CallOK
<1>2. ASSUME NEW does, CallOK(does), NEW methods
      PROVE  CallOK(AddCors(does, methods))
  BY <1>2 DEF CallOK, AddCors
<1>3. CASE ~ IsProxied(path) /\ request.method = "OPTIONS"
  <2>1. routed = AddCors(Preflight, allowed)
    BY <1>3 DEF Routed
  <2>2. CallOK(Preflight)
    BY DEF Answer, CallOK
  <2> HIDE DEF Preflight, allowed
  <2> QED
    BY <1>2, <2>1, <2>2
<1>4. CASE ~ IsProxied(path) /\ request.method # "OPTIONS"
  <2>1. routed = AddCors(given, allowed)
    BY <1>4 DEF Routed
  <2>2. CallOK(call)
    BY CalledOperation
  <2> HIDE DEF call
  <2>3. CallOK(given)
    BY <2>2 DEF CallOK
  <2> HIDE DEF given, allowed
  <2> QED
    BY <1>2, <2>1, <2>3
<1> QED
  BY <1>1, <1>3, <1>4

\* Select() chooses among the candidates.
LEMMA Chosen ==
  ASSUME IsList(runners), NEW request, NEW state
  PROVE  \/ Select(request, state) = <<>>
         \/ \E r \in Candidates(request) : \E methods : Select(request, state) = <<r, methods>>
<1> DEFINE Path(r) == PathWithinPrefix(request.url, state[r].prefix)
           Takes(r) == IsProxied(Path(r)) \/ CanHandleRequest(state[r], Path(r), request.method)
           Allowed(r) == AllowedMethodsForPath(state[r], Path(r))
           candidates == Candidates(request)
           takers == IF Len(runners) = 1 THEN candidates ELSE {r \in candidates : Takes(r)}
           owners == {r \in candidates : Allowed(r) # {}}
           all == UNION {Allowed(r) : r \in owners}
<1>1. Select(request, state) =
        CASE takers # {} -> <<Min(takers), Undefined>>
          [] takers = {} /\ (candidates = {} \/ (owners = {} /\ request.method # "OPTIONS")) -> <<>>
          [] OTHER -> <<Min(IF owners = {} THEN candidates ELSE owners), all>>
  BY DEF Select
<1>2. /\ takers \subseteq candidates /\ owners \subseteq candidates
      /\ candidates \subseteq DOMAIN runners /\ candidates \subseteq Nat
  BY DEF Candidates, IsList
<1> HIDE DEF takers, owners, candidates, all
<1>3. \A chosen : chosen \subseteq candidates /\ chosen # {} => Min(chosen) \in candidates
  BY <1>2, MinOf
<1> SUFFICES \/ Select(request, state) = <<>>
             \/ \E r \in candidates : \E methods : Select(request, state) = <<r, methods>>
  BY DEF candidates
<1>4. CASE takers # {}
  BY <1>1, <1>2, <1>3, <1>4
<1>5. CASE takers = {} /\ (candidates = {} \/ (owners = {} /\ request.method # "OPTIONS"))
  BY <1>1, <1>5
<1>6. CASE takers = {} /\ ~ (candidates = {} \/ (owners = {} /\ request.method # "OPTIONS"))
  <2> DEFINE chosen == IF owners = {} THEN candidates ELSE owners
  <2>1. chosen \subseteq candidates /\ chosen # {}
    BY <1>2, <1>6
  <2>2. Select(request, state) = <<Min(chosen), all>>
    BY <1>1, <1>6
  <2> QED
    BY <1>3, <2>1, <2>2
<1> QED
  BY <1>4, <1>5, <1>6

\* Whatever runner is chosen: its call carries its operation.
LEMMA GivenOperation ==
  ASSUME IsList(runners), NEW request, NEW state, \A r \in DOMAIN runners : RunnerOK(state[r])
  PROVE  LET given == Given(Select(request, state), request, state) IN CallOK(given.does)
<1> DEFINE choice == Select(request, state)
<1>1. CASE choice = <<>>
  <2>1. Given(choice, request, state).does = NextMiddleware
    BY <1>1 DEF Given
  <2>2. CallOK(NextMiddleware)
    BY DEF NextMiddleware, AddCors, Answer, CallOK
  <2> QED
    BY <2>1, <2>2
<1>2. CASE choice # <<>>
  <2>1. PICK r \in DOMAIN runners : \E methods : choice = <<r, methods>>
    BY <1>2, Chosen DEF Candidates
  <2>1a. PICK methods : choice = <<r, methods>>
    BY <2>1
  <2> HIDE DEF choice
  <2>2. Given(choice, request, state).does =
          Routed(state[r], PathWithinPrefix(request.url, state[r].prefix), request, methods)
    BY <1>2, <2>1a DEF Given
  <2>3. CallOK(Given(choice, request, state).does)
    BY <2>2, RoutedOperation
  <2> QED
    BY <2>3 DEF choice
<1> QED
  BY <1>1, <1>2
-----------------------------------------------------------------------------
(* The invariant: documents stay well formed, and the request at hand was  *)
(* given the operation that was declared when it arrived.                  *)

\* The documents of the runners.
RunnersOK == IsList(runners) /\ \A r \in DOMAIN runners : RunnerOK(runners[r])

\* The exchange at hand.
ExchangeOK ==
  exchange.stage # "idle" =>
    /\ {"stage", "request", "call", "answer", "reply"} \subseteq DOMAIN exchange
    /\ AcceptOK(exchange.request.accept)
    /\ exchange.stage = "handling" => FoundOK(exchange.call.operation)
    /\ exchange.stage = "answered" /\ exchange.reply # Undefined =>
         \/ exchange.reply.by \in {"throw", "lost"}
         \/ Negotiated(ResponseOf(exchange.reply, exchange.call), exchange.request.accept,
                       exchange.answer)

\* The inductive invariant of the answers.
ServerInv == RunnersOK /\ ExchangeOK

\* It holds initially.
LEMMA ServerInit == ASSUME WellFormed, Init PROVE ServerInv
BY DEF Init, Idle, WellFormed, ServerInv, RunnersOK, ExchangeOK

\* Contracts are refreshed, and a request that arrives has no reply yet.
LEMMA ArriveKeeps ==
  ASSUME ServerInv, NEW request, AcceptOK(request.accept), Arrive(request)
  PROVE  ServerInv'
<1> DEFINE state == [r \in DOMAIN runners |->
                      IF r \in Candidates(request) THEN Refreshed(runners[r]) ELSE runners[r]]
           given == Given(Select(request, state), request, state)
<1>1. \A runner : RunnerOK(runner) => RunnerOK(Refreshed(runner))
  BY DEF Refreshed, RunnerOK
<1>2. runners' = state /\ exchange' = Exchange(request, given)
  BY DEF Arrive
<1>3. \A r \in DOMAIN runners : RunnerOK(state[r])
  BY <1>1 DEF ServerInv, RunnersOK
<1>4. CallOK(given.does)
  <2> HIDE DEF state
  <2> QED
    BY <1>3, GivenOperation DEF ServerInv, RunnersOK
<1>5. RunnersOK'
  BY <1>2, <1>3 DEF ServerInv, RunnersOK, IsList
<1> HIDE DEF given
<1>6. ExchangeOK'
  BY <1>2, <1>4 DEF ExchangeOK, Exchange, CallOK
<1> QED
  BY <1>5, <1>6 DEF ServerInv

\* A handler that returns keeps it.
LEMMA FinishKeeps ==
  ASSUME WellFormed, ServerInv, NEW reply \in Replies, Finish(reply)
  PROVE  ServerInv'
<1> DEFINE call == exchange.call
           accept == exchange.request.accept
           answer == IF reply.by \in {"throw", "lost"} THEN Answer("500", {})
                     ELSE Serialized(Respond(call, ResponseOf(reply, call), accept))
<1>1. /\ exchange.stage = "handling" /\ AcceptOK(accept) /\ FoundOK(call.operation)
      /\ {"stage", "request", "call", "answer", "reply"} \subseteq DOMAIN exchange
  BY DEF Finish, ServerInv, ExchangeOK
<1>2. exchange' = [exchange EXCEPT !.stage = "answered", !.reply = reply, !.answer = answer]
  BY DEF Finish
<1>3. reply.by \in {"throw", "lost"} \/ Negotiated(ResponseOf(reply, call), accept, answer)
  BY <1>1, RepliesAreWellFormed, Negotiation DEF FoundOK
<1>4. /\ exchange'.request = exchange.request /\ exchange'.call = call
      /\ exchange'.reply = reply /\ exchange'.answer = answer /\ exchange'.stage = "answered"
      /\ DOMAIN exchange' = DOMAIN exchange
  BY <1>1, <1>2
<1> HIDE DEF answer
<1>5. ExchangeOK'
  BY <1>1, <1>3, <1>4 DEF ExchangeOK
<1>6. RunnersOK'
  BY DEF Finish, ServerInv, RunnersOK, IsList
<1> QED
  BY <1>5, <1>6 DEF ServerInv

\* Nothing else has to do with the request at hand.
LEMMA ChangesKeep ==
  ASSUME WellFormed, ServerInv, Others, ~ \E reply \in Replies : Finish(reply)
  PROVE  ServerInv'
<1> USE DEF ServerInv
<1>1. RunnersOK /\ ExchangeOK
  OBVIOUS
<1>2. ASSUME Leave
      PROVE  RunnersOK' /\ ExchangeOK'
  BY <1>1, <1>2 DEF Leave, Idle, RunnersOK, ExchangeOK, IsList
<1>3. ASSUME exchange' = exchange
      PROVE  ExchangeOK'
  BY <1>1, <1>3 DEF ExchangeOK
<1>4. ASSUME NEW r \in DOMAIN runners, NEW registry,
             runners' = [runners EXCEPT ![r].registry = registry]
      PROVE  RunnersOK'
  <2>1. DOMAIN runners' = DOMAIN runners
    BY <1>4
  <2>2. \A q \in DOMAIN runners : /\ DOMAIN runners'[q] = DOMAIN runners[q]
                                 /\ runners'[q].document = runners[q].document
    BY <1>4
  <2> QED
    BY <1>1, <2>1, <2>2 DEF RunnersOK, RunnerOK, IsList
<1>5. ASSUME NEW r \in DOMAIN runners, NEW pair \in RouteModules,
             LoadRoute(r, pair[1], pair[2]) \/ DropRoute(r, pair[1])
      PROVE  RunnersOK' /\ ExchangeOK'
  BY <1>3, <1>4, <1>5 DEF LoadRoute, DropRoute, Change
<1>6. ASSUME NEW r \in DOMAIN runners, NEW path \in MiddlewarePaths, LoadMiddleware(r, path)
      PROVE  RunnersOK' /\ ExchangeOK'
  BY <1>3, <1>4, <1>6 DEF LoadMiddleware, Change
<1>7. ASSUME NEW r \in DOMAIN runners, NEW document \in Documents, ReloadDocument(r, document)
      PROVE  RunnersOK' /\ ExchangeOK'
  <2>1. runners' = [runners EXCEPT ![r].document = document] /\ exchange' = exchange
    BY <1>7 DEF ReloadDocument, Change
  <2>2. DOMAIN runners' = DOMAIN runners
    BY <2>1
  <2>3. \A q \in DOMAIN runners : RunnerOK(runners'[q])
    <3> TAKE q \in DOMAIN runners
    <3>1. RunnerOK(runners[q]) /\ DocumentOK(document)
      BY <1>1 DEF RunnersOK, WellFormed
    <3>2. CASE q = r
      <4>1. DOMAIN runners'[q] = DOMAIN runners[q] /\ runners'[q].document = document
        BY <2>1, <3>1, <3>2 DEF RunnerOK
      <4> QED
        BY <3>1, <4>1 DEF RunnerOK
    <3>3. CASE q # r
      BY <2>1, <3>1, <3>3
    <3> QED
      BY <3>2, <3>3
  <2> QED
    BY <1>1, <1>3, <2>1, <2>2, <2>3 DEF RunnersOK, IsList
<1>8. ASSUME UNCHANGED <<runners, exchange>>
      PROVE  RunnersOK' /\ ExchangeOK'
  BY <1>1, <1>3, <1>8 DEF RunnersOK, IsList
<1>9. ASSUME NEW setting \in ProxySettings, SetProxy(setting[1], setting[2])
      PROVE  UNCHANGED <<runners, exchange>>
  BY <1>9 DEF SetProxy, Change
<1>10. ASSUME NEW url \in ProxyUrls, SetProxyUrl(url)
       PROVE  UNCHANGED <<runners, exchange>>
  BY <1>10 DEF SetProxyUrl, Change
<1> QED
  BY <1>2, <1>5, <1>6, <1>7, <1>8, <1>9, <1>10 DEF Others

\* A request that a builder sends accepts everything.
LEMMA SentAccepts ==
  ASSUME NEW b
  PROVE  AcceptOK(RequestOf(b).accept)
<1>1. RequestOf(b).accept = <<AnyMedia>>
  BY DEF RequestOf
<1>2. ToSet(<<AnyMedia>>) = {AnyMedia} /\ IsList(<<AnyMedia>>)
  BY DEF ToSet, IsList
<1>3. AnyMedia = <<AnyMedia[1], AnyMedia[2]>> /\ AnyMedia[1] = "*" /\ AnyMedia[2] = "*"
  BY DEF AnyMedia
<1> HIDE DEF AnyMedia
<1> QED
  BY <1>1, <1>2, <1>3 DEF AcceptOK

\* Every step keeps it.
LEMMA ServerNext ==
  ASSUME WellFormed, ServerInv, [ClientNext]_clientVars
  PROVE  ServerInv'
<1>1. ASSUME UNCHANGED vars
      PROVE  ServerInv'
  BY <1>1 DEF vars, ServerInv, RunnersOK, ExchangeOK, IsList
<1>2. ASSUME Arrivals
      PROVE  ServerInv'
  BY <1>2, ArriveKeeps DEF Arrivals, WellFormed
<1>3. ASSUME Others
      PROVE  ServerInv'
  BY <1>3, FinishKeeps, ChangesKeep
<1>4. ASSUME Send
      PROVE  ServerInv'
  BY <1>4, ArriveKeeps, SentAccepts DEF Send
<1>5. ASSUME NEW b, Becomes(b)
      PROVE  UNCHANGED vars
  BY <1>5 DEF Becomes
<1>6. ASSUME \/ \E catalog \in Catalogs : MakeRoute(catalog[1], catalog[2])
             \/ \E method \in Spellings : SetMethod(method)
             \/ \E pair \in Catalogs : \E input \in Inputs[pair] : Add(input)
      PROVE  UNCHANGED vars
  BY <1>5, <1>6 DEF MakeRoute, SetMethod, Add
<1> QED
  BY <1>1, <1>2, <1>3, <1>4, <1>6 DEF ClientNext, clientVars

\* What the code promises of the answer to a request that a handler was called
\* for: it has a type that the client accepts, or it is 406, and that only when
\* nothing that was offered is acceptable (normalizeResponse(), isMediaType(),
\* and the serialization of create-koa-app.ts), whatever document, registry or
\* setting changes between the call and the return of the handler.
THEOREM AnswersAreAcceptable ==
  ASSUME WellFormed PROVE ClientSpec => []Acceptable
<1>1. ClientInit => ServerInv
  BY ServerInit DEF ClientInit
<1>2. ServerInv /\ [ClientNext]_clientVars => ServerInv'
  BY ServerNext
<1>3. ServerInv => Acceptable
  BY DEF ServerInv, ExchangeOK, Negotiated, Accepted, Acceptable
<1> QED
  BY <1>1, <1>2, <1>3, PTL DEF ClientSpec
-----------------------------------------------------------------------------
(* Trees of routes.                                                        *)

\* The segments there are.
Texts == DOMAIN LowerCase
\* What a module exports: methods, and the mark of a contract.
Exports == Texts \cup {ContractMethod}

\* Lower case is a spelling: it is its own lower case, and it makes no wildcard
\* and no empty segment. Variables are spelled in one way each.
SpellingOK ==
  /\ NoSegment \in Texts
  /\ \A s \in Texts : LowerCase[s] \in Texts /\ LowerCase[LowerCase[s]] = LowerCase[s]
  /\ \A s \in Texts : LowerCase[s] = NoSegment <=> s = NoSegment
  /\ \A s \in Texts : IsWildcard(LowerCase[s]) <=> IsWildcard(s)
  /\ \A s, t \in Variables : LowerCase[s] = LowerCase[t] => s = t

\* Variables are spelled in one way, and none occurs twice in a path.
PathOK(path) ==
  /\ path \in Seq(Texts) /\ path # <<>> /\ path[Len(path)] \in FileNames
  /\ \A n \in DOMAIN path : IsWildcard(path[n]) =>
       /\ path[n] \in Variables
       /\ \A m \in DOMAIN path : LowerCase[path[m]] = LowerCase[path[n]] => m = n

\* The key of a directory: a path in lower case.
IsKey(key) == key \in Seq(Texts) /\ \A n \in DOMAIN key : LowerCase[key[n]] = key[n]

\* A directory has the key of its name, and its ancestors are there.
DirectoryOK(directories, directory) ==
  LET key == directory.key
  IN /\ IsKey(key) /\ key # <<>>
     /\ directory.rawName \in Texts /\ LowerCase[directory.rawName] = key[Len(key)]
     /\ IsWildcard(directory.rawName) => directory.rawName \in Variables
     /\ \A n \in 1 .. Len(key) : IsDirectory(directories, SubSeq(key, 1, n))

\* The directories of a tree: one for each key.
DirectoriesOK(directories) ==
  /\ directories \in Seq([key : Seq(Texts), rawName : Texts])
  /\ \A i \in DOMAIN directories : DirectoryOK(directories, directories[i])
  /\ \A i, j \in DOMAIN directories : directories[i].key = directories[j].key => i = j

\* The key of the path of a file.
PathKey(file) == Append(file.directory, LowerCase[file.rawName])

\* A file is in a directory that is there, and no variable occurs twice on the
\* way to it.
FileOK(directories, file) ==
  /\ IsKey(file.directory)
  /\ \A n \in 1 .. Len(file.directory) : IsDirectory(directories, SubSeq(file.directory, 1, n))
  /\ file.rawName \in Texts /\ file.rawName \in FileNames
  /\ IsWildcard(file.rawName) => file.rawName \in Variables
  /\ \A m, n \in DOMAIN PathKey(file) :
       IsWildcard(PathKey(file)[n]) /\ PathKey(file)[m] = PathKey(file)[n] => m = n

\* The files of a tree: one for each directory and name.
FilesOK(directories, files) ==
  /\ files \in Seq([directory : Seq(Texts), rawName : Texts, module : SUBSET Exports])
  /\ \A i \in DOMAIN files : FileOK(directories, files[i])
  /\ \A i, j \in DOMAIN files :
       files[i].directory = files[j].directory /\ files[i].rawName = files[j].rawName => i = j

\* What a tree of routes always is, however its files came and went.
TreeOK(tree) ==
  /\ tree = [directories |-> tree.directories, files |-> tree.files]
  /\ DirectoriesOK(tree.directories) /\ FilesOK(tree.directories, tree.files)

\* The empty tree.
LEMMA NewTreeOK == TreeOK(NewTree)
BY DEF NewTree, TreeOK, DirectoriesOK, FilesOK

\* The key of a path.
LEMMA KeyOfPath ==
  ASSUME SpellingOK, NEW path \in Seq(Texts)
  PROVE  /\ IsKey(KeyOf(path)) /\ Len(KeyOf(path)) = Len(path)
         /\ \A n \in 1 .. Len(path) : KeyOf(path)[n] = LowerCase[path[n]]
<1>1. KeyOf(path) \in Seq(Texts) /\ Len(KeyOf(path)) = Len(path)
  <2>1. KeyOf(path) \in [1 .. Len(path) -> Texts]
    BY DEF KeyOf, SpellingOK
  <2> QED
    BY <2>1
<1> QED
  BY <1>1 DEF KeyOf, IsKey, SpellingOK

\* The prefixes of a sequence.
LEMMA PrefixOf ==
  ASSUME NEW T, NEW seq \in Seq(T), NEW n \in 0 .. Len(seq)
  PROVE  /\ SubSeq(seq, 1, n) \in Seq(T) /\ Len(SubSeq(seq, 1, n)) = n
         /\ \A m \in 1 .. n : SubSeq(seq, 1, n)[m] = seq[m]
         /\ \A m \in 0 .. n : SubSeq(SubSeq(seq, 1, n), 1, m) = SubSeq(seq, 1, m)
OBVIOUS

\* Sequences with the same elements are the same.
LEMMA SameSequence ==
  ASSUME NEW T, NEW one \in Seq(T), NEW two \in Seq(T), Len(one) = Len(two),
         \A n \in 1 .. Len(one) : one[n] = two[n]
  PROVE  one = two
OBVIOUS

\* A sequence without its last element.
LEMMA FrontOf ==
  ASSUME NEW T, NEW seq \in Seq(T), seq # <<>>
  PROVE  /\ Front(seq) = SubSeq(seq, 1, Len(seq) - 1) /\ Last(seq) = seq[Len(seq)]
         /\ Front(seq) \in Seq(T) /\ Len(Front(seq)) = Len(seq) - 1
         /\ \A m \in 1 .. Len(seq) - 1 : Front(seq)[m] = seq[m]
         /\ Len(seq) \in Nat \ {0}
<1>1. Len(seq) \in Nat \ {0} /\ Len(seq) - 1 \in 0 .. Len(seq)
  OBVIOUS
<1>2. Front(seq) = SubSeq(seq, 1, Len(seq) - 1) /\ Last(seq) = seq[Len(seq)]
  BY DEF Front, Last
<1> DEFINE k == Len(seq) - 1
<1> HIDE DEF k
<1>3. k \in 0 .. Len(seq) /\ Front(seq) = SubSeq(seq, 1, k)
  BY <1>1, <1>2 DEF k
<1>4. /\ SubSeq(seq, 1, k) \in Seq(T) /\ Len(SubSeq(seq, 1, k)) = k
      /\ \A m \in 1 .. k : SubSeq(seq, 1, k)[m] = seq[m]
  BY <1>3, PrefixOf
<1> QED
  BY <1>1, <1>2, <1>3, <1>4 DEF k

\* A sequence that is extended by a list of n elements.
LEMMA Extension ==
  ASSUME NEW T, NEW old \in Seq(T), NEW n \in Nat, NEW new \in [1 .. n -> T]
  PROVE  /\ old \o new \in Seq(T) /\ Len(old) \in Nat
         /\ \A i \in DOMAIN old : (old \o new)[i] = old[i] /\ i \in DOMAIN (old \o new)
         /\ \A m \in 1 .. n : (old \o new)[Len(old) + m] = new[m]
              /\ Len(old) + m \in DOMAIN (old \o new)
         /\ \A i \in DOMAIN (old \o new) : i \in Nat
              /\ (i \notin DOMAIN old => i - Len(old) \in 1 .. n)
<1>1. new \in Seq(T) /\ Len(new) = n
  OBVIOUS
<1>2. old \o new \in Seq(T) /\ Len(old) \in Nat /\ Len(old \o new) = Len(old) + n
  BY <1>1
<1>3. \A i \in DOMAIN old : (old \o new)[i] = old[i] /\ i \in DOMAIN (old \o new)
  BY <1>1, <1>2
<1>4. \A m \in 1 .. n : (old \o new)[Len(old) + m] = new[m] /\ Len(old) + m \in DOMAIN (old \o new)
  BY <1>1, <1>2
<1>5. ASSUME NEW i \in DOMAIN (old \o new), i \notin DOMAIN old PROVE i - Len(old) \in 1 .. n
  BY <1>2, <1>5
<1>6. \A i \in DOMAIN (old \o new) : i \in Nat
  BY <1>2
<1> QED
  BY <1>2, <1>3, <1>4, <1>5, <1>6

\* What PutDirectory() makes.
LEMMA PutDirectoryOK ==
  ASSUME SpellingOK, NEW directories, DirectoriesOK(directories), NEW path, PathOK(path)
  PROVE  LET made == PutDirectory(directories, path)
         IN /\ DirectoriesOK(made)
            /\ \A key : IsDirectory(directories, key) => IsDirectory(made, key)
            /\ \A n \in 1 .. Len(path) - 1 : IsDirectory(made, SubSeq(KeyOf(path), 1, n))
<1> DEFINE Record == [key : Seq(Texts), rawName : Texts]
           depth == Len(path) - 1
           ancestor == [d \in 0 .. depth |-> SubSeq(KeyOf(path), 1, d)]
           known == {0} \cup {d \in 1 .. depth : IsDirectory(directories, ancestor[d])}
           deepest == Max(known)
           missing == depth - deepest
           fresh == [i \in 1 .. missing |->
                       [key |-> ancestor[deepest + i], rawName |-> path[deepest + i]]]
           made == directories \o fresh
<1>1. path \in Seq(Texts) /\ Len(path) \in Nat \ {0} /\ depth \in Nat /\ depth <= Len(path)
  BY DEF PathOK
<1>2. /\ KeyOf(path) \in Seq(Texts) /\ Len(KeyOf(path)) = Len(path) /\ IsKey(KeyOf(path))
      /\ \A n \in 1 .. Len(path) : KeyOf(path)[n] = LowerCase[path[n]]
  BY <1>1, KeyOfPath DEF IsKey
<1>3. ASSUME NEW d \in 0 .. depth
      PROVE  /\ ancestor[d] \in Seq(Texts) /\ Len(ancestor[d]) = d
             /\ \A m \in 1 .. d : ancestor[d][m] = LowerCase[path[m]]
             /\ \A m \in 0 .. d : SubSeq(ancestor[d], 1, m) = ancestor[m]
  <2>1. d \in 0 .. Len(KeyOf(path)) /\ \A m \in 0 .. d : m \in 0 .. depth
    BY <1>1, <1>2
  <2>2. \A m \in 1 .. d : m \in 1 .. Len(path)
    BY <1>1
  <2> DEFINE key == KeyOf(path)
  <2>3. key \in Seq(Texts) /\ d \in 0 .. Len(key)
         /\ \A m \in 1 .. Len(path) : key[m] = LowerCase[path[m]]
    BY <1>2, <2>1
  <2>4. ancestor[d] = SubSeq(key, 1, d) /\ \A m \in 0 .. d : ancestor[m] = SubSeq(key, 1, m)
    BY <2>1
  <2> HIDE DEF key, ancestor
  <2>5. /\ SubSeq(key, 1, d) \in Seq(Texts) /\ Len(SubSeq(key, 1, d)) = d
        /\ \A m \in 1 .. d : SubSeq(key, 1, d)[m] = key[m]
        /\ \A m \in 0 .. d : SubSeq(SubSeq(key, 1, d), 1, m) = SubSeq(key, 1, m)
    BY <2>3, PrefixOf
  <2> QED
    BY <2>2, <2>3, <2>4, <2>5
<1>4. PutDirectory(directories, path) = made
  <2>1. known = {0} \cup {d \in 1 .. Len(path) - 1 :
                            IsDirectory(directories, SubSeq(KeyOf(path), 1, d))}
    OBVIOUS
  <2>2. deepest \in known /\ deepest \in 0 .. depth
    <3> HIDE DEF ancestor, depth
    <3>1. known \subseteq 0 .. depth /\ known # {}
      BY <1>1
    <3> HIDE DEF known
    <3> QED
      BY <1>1, <3>1, MaxOf
  <2> DEFINE raw == [i \in 1 .. Len(path) - 1 - deepest |->
                      [key |-> SubSeq(KeyOf(path), 1, deepest + i), rawName |-> path[deepest + i]]]
  <2>3. PutDirectory(directories, path) = directories \o raw
    BY <2>1 DEF PutDirectory
  <2> HIDE DEF deepest
  <2>4. \A i \in 1 .. missing : deepest + i \in 0 .. depth
    BY <1>1, <2>2
  <2>5. raw = fresh
    BY <2>4
  <2> QED
    BY <2>3, <2>5
<1>5. deepest \in known /\ \A d \in known : d <= deepest
  <2> HIDE DEF ancestor, depth
  <2>1. known \subseteq 0 .. depth /\ known # {}
    BY <1>1
  <2> HIDE DEF known
  <2> QED
    BY <1>1, <2>1, MaxOf
<1>6. deepest \in 0 .. depth /\ missing \in Nat
  BY <1>1, <1>5
<1> HIDE DEF deepest, ancestor
<1>7. \A d \in 1 .. depth : d > deepest => ~ IsDirectory(directories, ancestor[d])
  BY <1>1, <1>5, <1>6
<1>8. \A d \in 1 .. deepest : IsDirectory(directories, ancestor[d])
  <2> SUFFICES ASSUME NEW d \in 1 .. deepest PROVE IsDirectory(directories, ancestor[d])
    OBVIOUS
  <2>1. IsDirectory(directories, ancestor[deepest]) /\ deepest \in 0 .. depth
    BY <1>5, <1>6
  <2>2. PICK i \in DOMAIN directories : directories[i].key = ancestor[deepest]
    BY <2>1 DEF IsDirectory
  <2>3. \A n \in 1 .. Len(ancestor[deepest]) :
         IsDirectory(directories, SubSeq(ancestor[deepest], 1, n))
    BY <2>2 DEF DirectoriesOK, DirectoryOK
  <2>4. Len(ancestor[deepest]) = deepest /\ SubSeq(ancestor[deepest], 1, d) = ancestor[d]
    BY <1>3, <2>1
  <2> QED
    BY <2>3, <2>4
<1>9. \A i \in 1 .. missing : deepest + i \in 1 .. depth /\ deepest + i > deepest
       /\ deepest + i \in 1 .. Len(path)
  BY <1>1, <1>6
<1>10. fresh \in [1 .. missing -> Record]
  <2>1. \A i \in 1 .. missing : ancestor[deepest + i] \in Seq(Texts) /\ path[deepest + i] \in Texts
    BY <1>1, <1>3, <1>9
  <2> QED
    BY <2>1
<1>11. /\ made \in Seq(Record)
       /\ \A i \in DOMAIN directories : made[i] = directories[i] /\ i \in DOMAIN made
       /\ \A m \in 1 .. missing : made[Len(directories) + m] = fresh[m]
            /\ Len(directories) + m \in DOMAIN made
       /\ \A i \in DOMAIN made :
            i \in Nat /\ (i \in DOMAIN directories
                            \/ \E m \in 1 .. missing : i = Len(directories) + m)
       /\ Len(directories) \in Nat
  <2>1. directories \in Seq(Record)
    BY DEF DirectoriesOK
  <2> HIDE DEF fresh, Record, missing, depth, made
  <2>2. /\ directories \o fresh \in Seq(Record) /\ Len(directories) \in Nat
        /\ \A i \in DOMAIN directories :
             (directories \o fresh)[i] = directories[i] /\ i \in DOMAIN (directories \o fresh)
        /\ \A m \in 1 .. missing : /\ (directories \o fresh)[Len(directories) + m] = fresh[m]
                                   /\ Len(directories) + m \in DOMAIN (directories \o fresh)
        /\ \A i \in DOMAIN (directories \o fresh) :
             i \in Nat /\ (i \notin DOMAIN directories
                             => \E m \in 1 .. missing : i = Len(directories) + m)
    <3> DEFINE n == missing
               new == fresh
    <3>1. n \in Nat /\ new \in [1 .. n -> Record]
      BY <1>6, <1>10
    <3> HIDE DEF n, new
    <3> SUFFICES
      /\ directories \o new \in Seq(Record) /\ Len(directories) \in Nat
      /\ \A i \in DOMAIN directories : (directories \o new)[i] = directories[i]
           /\ i \in DOMAIN (directories \o new)
      /\ \A m \in 1 .. n : (directories \o new)[Len(directories) + m] = new[m]
           /\ Len(directories) + m \in DOMAIN (directories \o new)
      /\ \A i \in DOMAIN (directories \o new) : i \in Nat
           /\ (i \notin DOMAIN directories => \E m \in 1 .. n : i = Len(directories) + m)
      BY DEF n, new
    <3>2. directories \o new \in Seq(Record) /\ Len(directories) \in Nat
      BY <2>1, <3>1, Extension
    <3>3. \A i \in DOMAIN directories :
            (directories \o new)[i] = directories[i] /\ i \in DOMAIN (directories \o new)
      BY <2>1, <3>1, Extension
    <3>4. \A m \in 1 .. n : /\ (directories \o new)[Len(directories) + m] = new[m]
                             /\ Len(directories) + m \in DOMAIN (directories \o new)
      BY <2>1, <3>1, Extension
    <3>5. \A i \in DOMAIN (directories \o new) :
            i \in Nat /\ (i \notin DOMAIN directories => \E m \in 1 .. n : i = Len(directories) + m)
      <4> SUFFICES ASSUME NEW i \in DOMAIN (directories \o new)
                   PROVE  i \in Nat /\ (i \notin DOMAIN directories
                                          => \E m \in 1 .. n : i = Len(directories) + m)
        OBVIOUS
      <4>1. i \in Nat
        BY <2>1, <3>1, Extension
      <4>2. ASSUME i \notin DOMAIN directories PROVE \E m \in 1 .. n : i = Len(directories) + m
        <5>1. i - Len(directories) \in 1 .. n
          BY <2>1, <3>1, <4>2, Extension
        <5>2. i = Len(directories) + (i - Len(directories))
          BY <3>2, <4>1
        <5> QED
          BY <5>1, <5>2
      <4> QED
        BY <4>1, <4>2
    <3> QED
      BY <3>2, <3>3, <3>4, <3>5
  <2>3. made = directories \o fresh
    BY DEF made
  <2> QED
    BY <2>2, <2>3
<1>12. \A m \in 1 .. missing : /\ fresh[m].key = ancestor[deepest + m]
                               /\ fresh[m].rawName = path[deepest + m]
  OBVIOUS
<1> HIDE DEF made, fresh, missing, depth
<1>13. \A key : IsDirectory(directories, key) => IsDirectory(made, key)
  BY <1>11 DEF IsDirectory
<1>14. \A n \in 1 .. depth : IsDirectory(made, ancestor[n])
  <2> SUFFICES ASSUME NEW n \in 1 .. depth PROVE IsDirectory(made, ancestor[n])
    OBVIOUS
  <2>1. CASE n <= deepest
    BY <1>1, <1>6, <1>8, <1>13, <2>1
  <2>2. CASE n > deepest
    <3>1. n - deepest \in 1 .. missing /\ deepest + (n - deepest) = n
      BY <1>1, <1>6, <2>2 DEF missing
    <3>2. made[Len(directories) + (n - deepest)].key = ancestor[n]
      BY <1>11, <1>12, <3>1
    <3>3. Len(directories) + (n - deepest) \in DOMAIN made
      BY <1>11, <3>1
    <3> QED
      BY <3>2, <3>3 DEF IsDirectory
  <2> QED
    BY <1>1, <1>6, <2>1, <2>2
<1>15. \A i \in DOMAIN directories : DirectoryOK(made, made[i])
  <2> SUFFICES ASSUME NEW i \in DOMAIN directories PROVE DirectoryOK(made, made[i])
    OBVIOUS
  <2>1. DirectoryOK(directories, directories[i]) /\ made[i] = directories[i]
    BY <1>11 DEF DirectoriesOK
  <2> QED
    BY <1>13, <2>1 DEF DirectoryOK
<1>16. \A m \in 1 .. missing : DirectoryOK(made, fresh[m])
  <2> SUFFICES ASSUME NEW m \in 1 .. missing PROVE DirectoryOK(made, fresh[m])
    OBVIOUS
  <2> DEFINE d == deepest + m
  <2>1. d \in 1 .. depth /\ d \in 0 .. depth /\ d \in 1 .. Len(path) /\ d \in 1 .. d
    BY <1>9, <1>1
  <2>2. fresh[m].key = ancestor[d] /\ fresh[m].rawName = path[d]
    BY <1>12
  <2> HIDE DEF d
  <2>3. /\ ancestor[d] \in Seq(Texts) /\ Len(ancestor[d]) = d
        /\ \A n \in 1 .. d : ancestor[d][n] = LowerCase[path[n]]
        /\ \A n \in 0 .. d : SubSeq(ancestor[d], 1, n) = ancestor[n]
    BY <1>3, <2>1
  <2>4. \A n \in 1 .. d : n \in 1 .. Len(path) /\ n \in 0 .. d /\ n \in 1 .. depth
         /\ path[n] \in Texts
    BY <1>1, <2>1
  <2>5. IsKey(ancestor[d]) /\ ancestor[d] # <<>>
    BY <2>1, <2>3, <2>4 DEF IsKey, SpellingOK
  <2>6. path[d] \in Texts /\ LowerCase[path[d]] = ancestor[d][Len(ancestor[d])]
    BY <2>1, <2>3, <2>4
  <2>7. IsWildcard(path[d]) => path[d] \in Variables
    BY <1>1, <2>1 DEF PathOK
  <2>8. \A n \in 1 .. Len(ancestor[d]) : IsDirectory(made, SubSeq(ancestor[d], 1, n))
    BY <1>14, <2>3, <2>4
  <2> QED
    BY <2>2, <2>5, <2>6, <2>7, <2>8 DEF DirectoryOK
<1>17. \A i \in DOMAIN made : DirectoryOK(made, made[i])
  BY <1>11, <1>15, <1>16
<1>18. \A i \in DOMAIN directories, m \in 1 .. missing : directories[i].key # fresh[m].key
  BY <1>7, <1>9, <1>12 DEF IsDirectory
<1>19. \A m, n \in 1 .. missing : fresh[m].key = fresh[n].key => m = n
  <2> SUFFICES ASSUME NEW m \in 1 .. missing, NEW n \in 1 .. missing, fresh[m].key = fresh[n].key
               PROVE  m = n
    OBVIOUS
  <2>1. Len(ancestor[deepest + m]) = deepest + m /\ Len(ancestor[deepest + n]) = deepest + n
    BY <1>1, <1>3, <1>9
  <2> QED
    BY <1>6, <1>12, <2>1
<1>20. \A i, j \in DOMAIN made : made[i].key = made[j].key => i = j
  <2> SUFFICES ASSUME NEW i \in DOMAIN made, NEW j \in DOMAIN made, made[i].key = made[j].key
               PROVE  i = j
    OBVIOUS
  <2>1. i \in DOMAIN directories \/ \E m \in 1 .. missing : i = Len(directories) + m
    BY <1>11
  <2>2. j \in DOMAIN directories \/ \E m \in 1 .. missing : j = Len(directories) + m
    BY <1>11
  <2>3. CASE i \in DOMAIN directories /\ j \in DOMAIN directories
    BY <1>11, <2>3 DEF DirectoriesOK
  <2>0. /\ \A k \in DOMAIN directories : made[k].key = directories[k].key
        /\ \A m \in 1 .. missing : made[Len(directories) + m].key = fresh[m].key
    BY <1>11
  <2>4. CASE i \in DOMAIN directories /\ j \notin DOMAIN directories
    <3>1. PICK m \in 1 .. missing : j = Len(directories) + m
      BY <2>2, <2>4
    <3> QED
      BY <1>18, <2>0, <2>4, <3>1
  <2>5. CASE i \notin DOMAIN directories /\ j \in DOMAIN directories
    <3>1. PICK m \in 1 .. missing : i = Len(directories) + m
      BY <2>1, <2>5
    <3> QED
      BY <1>18, <2>0, <2>5, <3>1
  <2>6. CASE i \notin DOMAIN directories /\ j \notin DOMAIN directories
    <3>1. PICK m \in 1 .. missing : i = Len(directories) + m
      BY <2>1, <2>6
    <3>2. PICK n \in 1 .. missing : j = Len(directories) + n
      BY <2>2, <2>6
    <3>3. m = n
      BY <1>19, <2>0, <3>1, <3>2
    <3> QED
      BY <3>1, <3>2, <3>3
  <2> QED
    BY <2>3, <2>4, <2>5, <2>6
<1>21. DirectoriesOK(made)
  BY <1>11, <1>17, <1>20 DEF DirectoriesOK
<1>22. \A n \in 1 .. Len(path) - 1 : SubSeq(KeyOf(path), 1, n) = ancestor[n] /\ n \in 1 .. depth
  BY DEF ancestor, depth
<1> QED
  BY <1>4, <1>13, <1>14, <1>21, <1>22

\* The directory and the key of the file of a path.
LEMMA KeyOfFile ==
  ASSUME SpellingOK, NEW path, PathOK(path), NEW file,
         file.directory = KeyOf(Front(path)), file.rawName = Last(path)
  PROVE  /\ IsKey(file.directory) /\ Len(file.directory) = Len(path) - 1
         /\ \A n \in 0 .. Len(path) - 1 : SubSeq(file.directory, 1, n) = SubSeq(KeyOf(path), 1, n)
         /\ PathKey(file) = KeyOf(path) /\ Len(path) \in Nat \ {0}
         /\ file.rawName = path[Len(path)]
<1>1. path \in Seq(Texts) /\ path # <<>>
  BY DEF PathOK
<1> DEFINE k == Len(path) - 1
           front == Front(path)
           dir == KeyOf(front)
           key == KeyOf(path)
<1>2. /\ front \in Seq(Texts) /\ Len(front) = k /\ Last(path) = path[Len(path)]
      /\ \A m \in 1 .. k : front[m] = path[m]
      /\ Len(path) \in Nat \ {0}
  BY <1>1, FrontOf
<1> HIDE DEF front
<1>3. /\ dir \in Seq(Texts) /\ IsKey(dir) /\ Len(dir) = k
      /\ \A m \in 1 .. k : dir[m] = LowerCase[path[m]]
  BY <1>2, KeyOfPath DEF IsKey
<1>4. /\ key \in Seq(Texts) /\ Len(key) = Len(path)
      /\ \A m \in 1 .. Len(path) : key[m] = LowerCase[path[m]]
  BY <1>1, KeyOfPath DEF IsKey
<1> HIDE DEF dir, key
<1>5. \A n \in 0 .. k : SubSeq(dir, 1, n) = SubSeq(key, 1, n)
  <2> SUFFICES ASSUME NEW n \in 0 .. k PROVE SubSeq(dir, 1, n) = SubSeq(key, 1, n)
    OBVIOUS
  <2>1. n \in 0 .. Len(dir) /\ n \in 0 .. Len(key)
    BY <1>2, <1>3, <1>4
  <2>2. SubSeq(dir, 1, n) \in Seq(Texts) /\ Len(SubSeq(dir, 1, n)) = n
    BY <1>3, <2>1, PrefixOf
  <2>3. SubSeq(key, 1, n) \in Seq(Texts) /\ Len(SubSeq(key, 1, n)) = n
    BY <1>4, <2>1, PrefixOf
  <2>4. \A m \in 1 .. n : SubSeq(dir, 1, n)[m] = dir[m]
    BY <1>3, <2>1, PrefixOf
  <2>5. \A m \in 1 .. n : SubSeq(key, 1, n)[m] = key[m]
    BY <1>4, <2>1, PrefixOf
  <2>6. \A m \in 1 .. n : dir[m] = key[m]
    <3> SUFFICES ASSUME NEW m \in 1 .. n PROVE dir[m] = key[m]
      OBVIOUS
    <3>1. m \in 1 .. k /\ m \in 1 .. Len(path)
      BY <1>3, <1>4, <2>1
    <3> QED
      BY <1>3, <1>4, <3>1
  <2> QED
    BY <2>2, <2>3, <2>4, <2>5, <2>6
<1>6. Append(dir, LowerCase[path[Len(path)]]) = key
  <2> DEFINE last == LowerCase[path[Len(path)]]
             all == Append(dir, last)
  <2>1. last \in Texts /\ key[Len(path)] = last
    BY <1>1, <1>2, <1>4 DEF SpellingOK
  <2> HIDE DEF last
  <2>2. all \in Seq(Texts) /\ Len(all) = Len(path)
    BY <1>2, <1>3, <2>1
  <2>3. \A m \in 1 .. Len(path) : all[m] = key[m]
    BY <1>2, <1>3, <1>4, <2>1
  <2> QED
    BY <1>4, <2>2, <2>3 DEF last
<1> QED
  BY <1>2, <1>3, <1>5, <1>6 DEF dir, key, front, PathKey

\* The file that a path stands for.
LEMMA FileOfPath ==
  ASSUME SpellingOK, NEW path, PathOK(path), NEW module \in SUBSET Exports, NEW directories,
         \A n \in 1 .. Len(path) - 1 : IsDirectory(directories, SubSeq(KeyOf(path), 1, n))
  PROVE  LET file == [directory |-> KeyOf(Front(path)), rawName |-> Last(path), module |-> module]
         IN /\ FileOK(directories, file) /\ PathKey(file) = KeyOf(path)
            /\ file \in [directory : Seq(Texts), rawName : Texts, module : SUBSET Exports]
<1> DEFINE file == [directory |-> KeyOf(Front(path)), rawName |-> Last(path), module |-> module]
<1>0. file.directory = KeyOf(Front(path)) /\ file.rawName = Last(path) /\ file.module = module
      /\ file = [directory |-> file.directory, rawName |-> file.rawName, module |-> file.module]
  OBVIOUS
<1> HIDE DEF file
<1>1. /\ IsKey(file.directory) /\ Len(file.directory) = Len(path) - 1
      /\ \A n \in 0 .. Len(path) - 1 : SubSeq(file.directory, 1, n) = SubSeq(KeyOf(path), 1, n)
      /\ PathKey(file) = KeyOf(path) /\ Len(path) \in Nat \ {0}
      /\ file.rawName = path[Len(path)]
  BY <1>0, KeyOfFile
<1>2. path \in Seq(Texts) /\ Len(path) \in DOMAIN path
  BY <1>1 DEF PathOK
<1>3. file.rawName \in Texts /\ file.rawName \in FileNames
      /\ (IsWildcard(file.rawName) => file.rawName \in Variables)
  BY <1>1, <1>2 DEF PathOK
<1>4. \A n \in 1 .. Len(file.directory) : IsDirectory(directories, SubSeq(file.directory, 1, n))
  <2> SUFFICES ASSUME NEW n \in 1 .. Len(file.directory)
               PROVE  IsDirectory(directories, SubSeq(file.directory, 1, n))
    OBVIOUS
  <2>1. n \in 0 .. Len(path) - 1 /\ n \in 1 .. Len(path) - 1
    BY <1>1
  <2>2. SubSeq(file.directory, 1, n) = SubSeq(KeyOf(path), 1, n)
    BY <1>1, <2>1
  <2> QED
    BY <2>1, <2>2
<1>5. \A m, n \in DOMAIN PathKey(file) :
        IsWildcard(PathKey(file)[n]) /\ PathKey(file)[m] = PathKey(file)[n] => m = n
  <2> DEFINE key == KeyOf(path)
  <2>1. DOMAIN key = DOMAIN path /\ \A m \in DOMAIN path : key[m] = LowerCase[path[m]]
         /\ path[m] \in Texts
    BY <1>2 DEF KeyOf
  <2> HIDE DEF key
  <2>2. \A m, n \in DOMAIN key : IsWildcard(key[n]) /\ key[m] = key[n] => m = n
    BY <2>1 DEF PathOK, SpellingOK
  <2> QED
    BY <1>1, <2>2 DEF key
<1>6. FileOK(directories, file)
  BY <1>1, <1>3, <1>4, <1>5 DEF FileOK
<1>7. file \in [directory : Seq(Texts), rawName : Texts, module : SUBSET Exports]
  BY <1>0, <1>1, <1>3 DEF IsKey
<1> QED
  BY <1>1, <1>6, <1>7 DEF file

\* PutFile() sets a file, and leaves every other one as it is.
LEMMA PutFileOK ==
  ASSUME NEW directories, NEW files, FilesOK(directories, files), NEW file,
         FileOK(directories, file),
         file \in [directory : Seq(Texts), rawName : Texts, module : SUBSET Exports]
  PROVE  LET put == PutFile(files, file)
         IN /\ FilesOK(directories, put)
            /\ \A i \in DOMAIN put : PathKey(put[i]) = PathKey(file)
                 \/ \E j \in DOMAIN files : put[i] = files[j]
            /\ \A i \in DOMAIN files : \E j \in DOMAIN put : PathKey(put[j]) = PathKey(files[i])
            /\ \E j \in DOMAIN put : PathKey(put[j]) = PathKey(file)
<1> DEFINE Record == [directory : Seq(Texts), rawName : Texts, module : SUBSET Exports]
           Same(f, g) == f.directory = g.directory /\ f.rawName = g.rawName
           at == {i \in DOMAIN files : Same(files[i], file)}
           put == PutFile(files, file)
<1>0. \A f, g : Same(f, g) => PathKey(f) = PathKey(g)
  BY DEF PathKey
<1>1. files \in Seq(Record) /\ file \in Record /\ Len(files) \in Nat
  BY DEF FilesOK
<1>2. \A i \in DOMAIN files : FileOK(directories, files[i])
  BY DEF FilesOK
<1>3. \A i, j \in DOMAIN files : Same(files[i], files[j]) => i = j
  BY DEF FilesOK
<1> SUFFICES /\ put \in Seq(Record)
             /\ \A i \in DOMAIN put : put[i] = file \/ \E j \in DOMAIN files : put[i] = files[j]
             /\ \A i, j \in DOMAIN put : Same(put[i], put[j]) => i = j
             /\ \A i \in DOMAIN files : \E j \in DOMAIN put : PathKey(put[j]) = PathKey(files[i])
             /\ \E j \in DOMAIN put : PathKey(put[j]) = PathKey(file)
  BY <1>2 DEF FilesOK
<1> HIDE DEF Record
<1>4. CASE at = {}
  <2>1. put = Append(files, file)
    BY <1>4 DEF PutFile
  <2>2. /\ put \in Seq(Record) /\ DOMAIN put = 1 .. Len(files) + 1 /\ DOMAIN files = 1 .. Len(files)
        /\ \A i \in 1 .. Len(files) : put[i] = files[i]
        /\ put[Len(files) + 1] = file
    BY <1>1, <2>1
  <2> HIDE DEF put
  <2>3. \A i \in DOMAIN put : i \in DOMAIN files \/ i = Len(files) + 1
    BY <1>1, <2>2
  <2>4. \A i, j \in DOMAIN put : Same(put[i], put[j]) => i = j
    BY <1>3, <1>4, <2>2, <2>3
  <2>5. \A i \in DOMAIN files : i \in DOMAIN put
    BY <1>1, <2>2
  <2>6. Len(files) + 1 \in DOMAIN put
    BY <1>1, <2>2
  <2> QED
    BY <2>2, <2>3, <2>4, <2>5, <2>6
<1>5. CASE at # {}
  <2>1. put = [i \in DOMAIN files |-> IF i \in at THEN file ELSE files[i]]
    BY <1>5 DEF PutFile
  <2>2. put \in Seq(Record) /\ DOMAIN put = DOMAIN files
    <3>1. put \in [1 .. Len(files) -> Record]
      BY <1>1, <2>1
    <3> QED
      BY <1>1, <3>1
  <2>3. \A i \in DOMAIN files : Same(put[i], files[i])
    BY <2>1
  <2>4. \A i, j \in DOMAIN put : Same(put[i], put[j]) => i = j
    BY <1>3, <2>2, <2>3
  <2>5. \A i \in DOMAIN put : put[i] = file \/ put[i] = files[i]
    BY <2>1
  <2>6. \A i \in at : put[i] = file /\ i \in DOMAIN put
    BY <2>1
  <2> QED
    BY <1>0, <1>5, <2>2, <2>3, <2>4, <2>5, <2>6
<1> QED
  BY <1>4, <1>5

\* Files stay in place when there are more directories.
LEMMA MoreDirectories ==
  ASSUME NEW directories, NEW made, NEW files, FilesOK(directories, files),
         \A key : IsDirectory(directories, key) => IsDirectory(made, key)
  PROVE  FilesOK(made, files)
BY DEF FilesOK, FileOK

\* What there is at a path after AddModule(): the paths that the files of a tree have.
HasPath(tree, key) == \E i \in DOMAIN tree.files : PathKey(tree.files[i]) = key

\* add() keeps the tree well formed and adds one path, or none.
LEMMA AddModuleOK ==
  ASSUME SpellingOK, NEW tree, TreeOK(tree), NEW path, PathOK(path), NEW module \in SUBSET Exports
  PROVE  LET added == AddModule(tree, path, module)
         IN /\ TreeOK(added)
            /\ \A key : HasPath(added, key) <=> HasPath(tree, key) \/ key = KeyOf(path)
            /\ \A key : IsDirectory(tree.directories, key) => IsDirectory(added.directories, key)
            /\ \A n \in 1 .. Len(path) - 1 :
                 IsDirectory(added.directories, SubSeq(KeyOf(path), 1, n))
<1> DEFINE made == PutDirectory(tree.directories, path)
           file == [directory |-> KeyOf(Front(path)), rawName |-> Last(path), module |-> module]
           put == PutFile(tree.files, file)
           added == AddModule(tree, path, module)
<1>1. added = [directories |-> made, files |-> put] /\ added.directories = made /\ added.files = put
  BY DEF AddModule
<1>2. DirectoriesOK(tree.directories) /\ FilesOK(tree.directories, tree.files)
  BY DEF TreeOK
<1>3. /\ DirectoriesOK(made)
      /\ \A key : IsDirectory(tree.directories, key) => IsDirectory(made, key)
      /\ \A n \in 1 .. Len(path) - 1 : IsDirectory(made, SubSeq(KeyOf(path), 1, n))
  BY <1>2, PutDirectoryOK
<1> HIDE DEF made
<1>4. /\ FileOK(made, file) /\ PathKey(file) = KeyOf(path)
      /\ file \in [directory : Seq(Texts), rawName : Texts, module : SUBSET Exports]
  BY <1>3, FileOfPath
<1>5. FilesOK(made, tree.files)
  BY <1>2, <1>3, MoreDirectories
<1> HIDE DEF file
<1>6. /\ FilesOK(made, put)
      /\ \A i \in DOMAIN put : PathKey(put[i]) = PathKey(file)
           \/ \E j \in DOMAIN tree.files : put[i] = tree.files[j]
      /\ \A i \in DOMAIN tree.files : \E j \in DOMAIN put : PathKey(put[j]) = PathKey(tree.files[i])
      /\ \E j \in DOMAIN put : PathKey(put[j]) = PathKey(file)
  BY <1>4, <1>5, PutFileOK
<1> HIDE DEF put, added
<1>7. TreeOK(added)
  BY <1>1, <1>3, <1>6 DEF TreeOK
<1>8. \A key : HasPath(added, key) <=> HasPath(tree, key) \/ key = KeyOf(path)
  BY <1>1, <1>4, <1>6 DEF HasPath
<1> QED
  BY <1>1, <1>3, <1>7, <1>8 DEF added

\* The elements of the second of two sequences in the two together.
LEMMA Joined ==
  ASSUME NEW T, NEW one \in Seq(T), NEW two \in Seq(T)
  PROVE  \A i \in Len(one) + 1 .. Len(one) + Len(two) : (one \o two)[i] = two[i - Len(one)]
OBVIOUS

\* A sequence without the element at a place.
LEMMA RemovedAt ==
  ASSUME NEW T, NEW seq \in Seq(T), NEW k \in DOMAIN seq
  PROVE  /\ RemoveAt(seq, k) \in Seq(T)
         /\ \A i \in DOMAIN RemoveAt(seq, k) : /\ i < k => i \in DOMAIN seq
                                                    /\ RemoveAt(seq, k)[i] = seq[i]
                                               /\ i >= k => i + 1 \in DOMAIN seq
                                                    /\ RemoveAt(seq, k)[i] = seq[i + 1]
                                               /\ i \in Nat
<1> DEFINE left == SubSeq(seq, 1, k - 1)
           right == SubSeq(seq, k + 1, Len(seq))
<1>1. k \in 1 .. Len(seq) /\ Len(seq) \in Nat
  OBVIOUS
<1>2. left \in Seq(T) /\ Len(left) = k - 1 /\ \A i \in 1 .. k - 1 : left[i] = seq[i]
  BY <1>1
<1>3. right \in Seq(T) /\ Len(right) = Len(seq) - k
       /\ \A i \in 1 .. Len(seq) - k : right[i] = seq[k + i]
  BY <1>1
<1>4. RemoveAt(seq, k) = left \o right
  BY DEF RemoveAt
<1> HIDE DEF left, right
<1>5. left \o right \in Seq(T) /\ Len(left \o right) = Len(seq) - 1
  BY <1>1, <1>2, <1>3
<1>6. ASSUME NEW i \in 1 .. Len(seq) - 1
      PROVE  /\ i < k => (left \o right)[i] = seq[i]
             /\ i >= k => (left \o right)[i] = seq[i + 1]
  <2>1. ASSUME i < k PROVE (left \o right)[i] = seq[i]
    <3>1. i \in 1 .. k - 1
      BY <1>1, <2>1
    <3>2. (left \o right)[i] = left[i]
      BY <1>2, <1>3, <3>1
    <3> QED
      BY <1>2, <3>1, <3>2
  <2>2. ASSUME i >= k PROVE (left \o right)[i] = seq[i + 1]
    <3> DEFINE at == i - Len(left)
    <3>1. at \in 1 .. Len(right) /\ k + at = i + 1 /\ at \in 1 .. Len(seq) - k
      BY <1>1, <1>2, <1>3, <2>2
    <3>2. (left \o right)[i] = right[at]
      <4>1. i \in Len(left) + 1 .. Len(left) + Len(right)
        BY <1>2, <1>3, <3>1
      <4> QED
        BY <1>2, <1>3, <4>1, Joined
    <3> HIDE DEF at
    <3>3. right[at] = seq[k + at]
      BY <1>3, <3>1
    <3> QED
      BY <3>1, <3>2, <3>3
  <2> QED
    BY <2>1, <2>2
<1> DEFINE removed == left \o right
<1> HIDE DEF removed
<1>7. DOMAIN removed = 1 .. Len(seq) - 1 /\ removed \in Seq(T)
  BY <1>1, <1>5 DEF removed
<1>8. ASSUME NEW i \in DOMAIN removed
      PROVE  /\ i < k => i \in DOMAIN seq /\ removed[i] = seq[i]
             /\ i >= k => i + 1 \in DOMAIN seq /\ removed[i] = seq[i + 1]
             /\ i \in Nat
  <2>1. i \in 1 .. Len(seq) - 1 /\ i \in DOMAIN seq /\ i + 1 \in DOMAIN seq /\ i \in Nat
    BY <1>1, <1>7
  <2> QED
    BY <1>6, <2>1 DEF removed
<1> QED
  BY <1>4, <1>7, <1>8 DEF removed

\* remove() keeps the tree well formed and adds no path.
LEMMA RemoveModuleOK ==
  ASSUME NEW tree, TreeOK(tree), NEW path
  PROVE  /\ TreeOK(RemoveModule(tree, path))
         /\ \A key : HasPath(RemoveModule(tree, path), key) => HasPath(tree, key)
<1> DEFINE at == {i \in DOMAIN tree.files : /\ tree.files[i].directory = KeyOf(Front(path))
                                            /\ tree.files[i].rawName = LowerCase[Last(path)]}
           k == Min(at)
           left == RemoveAt(tree.files, k)
           Record == [directory : Seq(Texts), rawName : Texts, module : SUBSET Exports]
<1>1. CASE at = {}
  BY <1>1 DEF RemoveModule
<1>2. CASE at # {}
  <2>1. tree.files \in Seq(Record) /\ DOMAIN tree.files \subseteq Nat
    BY DEF TreeOK, FilesOK
  <2>2. k \in DOMAIN tree.files
    <3>1. at \subseteq Nat /\ at \subseteq DOMAIN tree.files
      BY <2>1
    <3> HIDE DEF at
    <3> QED
      BY <1>2, <3>1, MinOf
  <2>3. RemoveModule(tree, path) = [tree EXCEPT !.files = left]
    BY <1>2 DEF RemoveModule
  <2>3a. /\ RemoveModule(tree, path) = [directories |-> tree.directories, files |-> left]
    BY <2>3 DEF TreeOK
  <2> HIDE DEF k, Record
  <2>4. /\ left \in Seq(Record)
        /\ \A i \in DOMAIN left : /\ i < k => i \in DOMAIN tree.files /\ left[i] = tree.files[i]
                                  /\ i >= k => i + 1 \in DOMAIN tree.files
                                       /\ left[i] = tree.files[i + 1]
                                  /\ i \in Nat
    BY <2>1, <2>2, RemovedAt
  <2>5. k \in Nat
    BY <2>1, <2>2
  <2> HIDE DEF left
  <2>6. \A i \in DOMAIN left : \E j \in DOMAIN tree.files : left[i] = tree.files[j]
    BY <2>4, <2>5
  <2>7. \A i, j \in DOMAIN left :
          left[i].directory = left[j].directory /\ left[i].rawName = left[j].rawName => i = j
    <3> SUFFICES ASSUME NEW i \in DOMAIN left, NEW j \in DOMAIN left,
                        left[i].directory = left[j].directory, left[i].rawName = left[j].rawName
                 PROVE  i = j
      OBVIOUS
    <3>1. PICK m \in DOMAIN tree.files : left[i] = tree.files[m] /\ m = IF i < k THEN i ELSE i + 1
      BY <2>4, <2>5
    <3>2. PICK n \in DOMAIN tree.files : left[j] = tree.files[n] /\ n = IF j < k THEN j ELSE j + 1
      BY <2>4, <2>5
    <3>3. m = n
      BY <3>1, <3>2 DEF TreeOK, FilesOK
    <3>4. i \in Nat /\ j \in Nat
      BY <2>4
    <3> QED
      BY <2>5, <3>1, <3>2, <3>3, <3>4
  <2>8. FilesOK(tree.directories, left)
    BY <2>4, <2>6, <2>7 DEF TreeOK, FilesOK, Record
  <2> QED
    BY <2>3a, <2>6, <2>8 DEF TreeOK, HasPath
<1> QED
  BY <1>1, <1>2

-----------------------------------------------------------------------------
(* What the walk finds.                                                    *)

\* A directory that there is.
LEMMA DirectoryAt ==
  ASSUME SpellingOK, NEW tree, TreeOK(tree), NEW key, IsDirectory(tree.directories, key)
  PROVE  /\ Place(tree, key) \in DOMAIN tree.directories /\ Place(tree, key) \in Nat
         /\ tree.directories[Place(tree, key)].key = key
         /\ IsKey(key) /\ key # <<>>
         /\ RawName(tree, key) \in Texts /\ LowerCase[RawName(tree, key)] = key[Len(key)]
         /\ IsWildcard(RawName(tree, key)) => RawName(tree, key) \in Variables
         /\ \A n \in 1 .. Len(key) : IsDirectory(tree.directories, SubSeq(key, 1, n))
<1>1. DirectoriesOK(tree.directories)
  BY DEF TreeOK
<1>2. Place(tree, key) \in DOMAIN tree.directories /\ tree.directories[Place(tree, key)].key = key
  BY DEF IsDirectory, Place
<1>3. Place(tree, key) \in Nat
  BY <1>1, <1>2 DEF DirectoriesOK
<1>4. DirectoryOK(tree.directories, tree.directories[Place(tree, key)])
  BY <1>1, <1>2 DEF DirectoriesOK
<1> QED
  BY <1>2, <1>3, <1>4 DEF DirectoryOK, RawName

\* A directory that the walk enters fits its segment, and is the one of its
\* name if there is one.
LEMMA EntersOne ==
  ASSUME SpellingOK, NEW tree, TreeOK(tree), NEW key \in Seq(Texts), NEW n \in 1 .. Len(key),
         NEW segment \in Texts, Enters(tree, SubSeq(key, 1, n), segment)
  PROVE  /\ IsDirectory(tree.directories, SubSeq(key, 1, n))
         /\ key[n] = LowerCase[segment]
            \/ (IsWildcard(key[n]) /\ IsWildcard(RawName(tree, SubSeq(key, 1, n))))
         /\ IsDirectory(tree.directories, Append(SubSeq(key, 1, n - 1), LowerCase[segment]))
              => key[n] = LowerCase[segment]
<1> DEFINE prefix == SubSeq(key, 1, n)
           front == SubSeq(key, 1, n - 1)
           named == Append(front, LowerCase[segment])
<1>1. /\ prefix \in Seq(Texts) /\ Len(prefix) = n /\ prefix[n] = key[n] /\ n \in Nat \ {0}
      /\ SubSeq(prefix, 1, n - 1) = front
  <2>1. n \in 0 .. Len(key) /\ n - 1 \in 0 .. n /\ n \in 1 .. n
    OBVIOUS
  <2>2. SubSeq(key, 1, n) \in Seq(Texts) /\ Len(SubSeq(key, 1, n)) = n
    BY <2>1, PrefixOf
  <2>3. \A m \in 1 .. n : SubSeq(key, 1, n)[m] = key[m]
    BY <2>1, PrefixOf
  <2>4. \A m \in 0 .. n : SubSeq(SubSeq(key, 1, n), 1, m) = SubSeq(key, 1, m)
    BY <2>1, PrefixOf
  <2> QED
    BY <2>1, <2>2, <2>3, <2>4
<1>2. front \in Seq(Texts) /\ Len(front) = n - 1
  <2>1. n - 1 \in 0 .. Len(key)
    OBVIOUS
  <2> QED
    BY <2>1, PrefixOf
<1>3. Front(prefix) = front
  BY <1>1 DEF Front
<1>4. LowerCase[segment] \in Texts
  BY DEF SpellingOK
<1>5. named[n] = LowerCase[segment]
  <2> DEFINE last == LowerCase[segment]
  <2>1. last \in Texts
    BY <1>4
  <2> HIDE DEF front, last
  <2>2. Append(front, last)[Len(front) + 1] = last
    BY <1>2, <2>1
  <2> QED
    BY <1>1, <1>2, <2>2 DEF last
<1>6. /\ IsDirectory(tree.directories, prefix)
      /\ IF IsDirectory(tree.directories, named) THEN prefix = named
         ELSE IsWildcard(RawName(tree, prefix))
  BY <1>3 DEF Enters
<1> HIDE DEF prefix, front, named
<1>7. LowerCase[RawName(tree, prefix)] = key[n] /\ RawName(tree, prefix) \in Texts
  BY <1>1, <1>6, DirectoryAt
<1>8. IsWildcard(RawName(tree, prefix)) => IsWildcard(key[n])
  BY <1>7 DEF SpellingOK
<1> QED
  BY <1>1, <1>5, <1>6, <1>8 DEF prefix, named, front

\* What buildMatch() takes is the first file of its name, fits its segment, and
\* is no wildcard if there is a literal file of the segment's name.
LEMMA BuildMatchOne ==
  ASSUME SpellingOK, NEW tree, TreeOK(tree), NEW key, NEW segment \in Texts, NEW method,
         NEW i \in BuildMatch(tree, key, segment, method)
  PROVE  /\ i = Min(FilesNamed(tree, key, tree.files[i].rawName))
         /\ \/ IsWildcard(tree.files[i].rawName) \/ tree.files[i].rawName = NoSegment
            \/ LowerCase[tree.files[i].rawName] = LowerCase[segment]
         /\ IsWildcard(tree.files[i].rawName) =>
              \A j \in FilesNamed(tree, key, segment) : IsWildcard(tree.files[j].rawName)
<1> DEFINE files == tree.files
           named == FilesNamed(tree, key, segment)
           exact == IF named # {} THEN named ELSE FilesNamed(tree, key, NoSegment)
           literal == exact # {} /\ ~ IsWildcard(files[Min(exact)].rawName)
           wild == {j \in DOMAIN files : /\ files[j].directory = key
                                         /\ IsWildcard(files[j].rawName)
                                         /\ method \in files[j].module}
           several == \E j, k \in wild : j # k
<1>1. i \in IF exact = {} \/ (~ literal /\ several) THEN wild ELSE {Min(exact)}
  BY DEF BuildMatch
<1>2. /\ \A j \in DOMAIN files : FileOK(tree.directories, files[j])
           /\ files[j].rawName \in Texts /\ j \in Nat
      /\ \A j, k \in DOMAIN files :
           files[j].directory = files[k].directory /\ files[j].rawName = files[k].rawName => j = k
  BY DEF TreeOK, FilesOK, FileOK
<1>3. \A name, j : j \in FilesNamed(tree, key, name) <=>
        /\ j \in DOMAIN files /\ files[j].directory = key
        /\ LowerCase[files[j].rawName] = LowerCase[name]
  BY DEF FilesNamed
<1>4. /\ \A j \in wild : j \in DOMAIN files /\ files[j].directory = key
           /\ IsWildcard(files[j].rawName)
      /\ exact \subseteq DOMAIN files
  BY <1>3
<1>5. exact \subseteq Nat
  BY <1>2, <1>4
<1>6. exact # {} => Min(exact) \in exact
  <2> HIDE DEF exact
  <2> QED
    BY <1>5, MinOf
<1>7. \A name, other : LowerCase[name] = LowerCase[other] =>
        FilesNamed(tree, key, name) = FilesNamed(tree, key, other)
  BY DEF FilesNamed
<1>8. NoSegment = segment => LowerCase[segment] = NoSegment
  BY DEF SpellingOK
<1> HIDE DEF literal, several, wild, exact
<1>9. CASE i \in wild /\ (exact = {} \/ ~ literal)
  <2>1. i \in DOMAIN files /\ files[i].directory = key /\ IsWildcard(files[i].rawName)
    BY <1>4, <1>9
  <2>2. \A j \in FilesNamed(tree, key, files[i].rawName) : j = i
    <3> SUFFICES ASSUME NEW j \in FilesNamed(tree, key, files[i].rawName) PROVE j = i
      OBVIOUS
    <3>1. /\ j \in DOMAIN files /\ files[j].directory = key
          /\ LowerCase[files[j].rawName] = LowerCase[files[i].rawName]
          /\ files[i].rawName \in Texts /\ files[j].rawName \in Texts
      BY <1>2, <1>3, <2>1
    <3>2. IsWildcard(files[j].rawName)
      BY <2>1, <3>1 DEF SpellingOK
    <3>3. files[j].rawName \in Variables /\ files[i].rawName \in Variables
      BY <1>2, <2>1, <3>1, <3>2 DEF FileOK
    <3> QED
      BY <1>2, <2>1, <3>1, <3>3 DEF SpellingOK
  <2>3. FilesNamed(tree, key, files[i].rawName) = {i}
    BY <1>3, <2>1, <2>2
  <2>4. Min({i}) = i
    BY <1>2, <2>1 DEF Min
  <2>5. ASSUME NEW j \in named PROVE IsWildcard(files[j].rawName)
    <3>1. exact = named /\ exact # {}
      BY <2>5 DEF exact
    <3>2. Min(exact) \in named /\ IsWildcard(files[Min(exact)].rawName)
      BY <1>6, <1>9, <3>1 DEF literal
    <3>3. /\ LowerCase[files[j].rawName] = LowerCase[files[Min(exact)].rawName]
          /\ files[j].rawName \in Texts /\ files[Min(exact)].rawName \in Texts
      BY <1>2, <1>3, <2>5, <3>2
    <3> QED
      BY <3>2, <3>3 DEF SpellingOK
  <2> QED
    BY <1>2, <2>1, <2>3, <2>4, <2>5
<1>10. CASE exact # {} /\ i = Min(exact)
  <2>1. i \in exact
    BY <1>6, <1>10
  <2>2. PICK name \in {segment, NoSegment} :
          exact = FilesNamed(tree, key, name) /\ (named # {} => name = segment)
    BY DEF exact
  <2>3. /\ i \in DOMAIN files /\ files[i].directory = key
        /\ LowerCase[files[i].rawName] = LowerCase[name] /\ files[i].rawName \in Texts
    BY <1>2, <1>3, <2>1, <2>2
  <2>4. FilesNamed(tree, key, files[i].rawName) = exact
    BY <1>7, <2>2, <2>3
  <2>5. name = NoSegment => files[i].rawName = NoSegment
    BY <2>3 DEF SpellingOK
  <2>6. ASSUME IsWildcard(files[i].rawName), NEW j \in named PROVE IsWildcard(files[j].rawName)
    <3>1. name = segment
      BY <2>2, <2>6
    <3>2. /\ LowerCase[files[j].rawName] = LowerCase[files[i].rawName]
          /\ files[j].rawName \in Texts
      BY <1>2, <1>3, <2>3, <2>6, <3>1
    <3> QED
      BY <2>3, <2>6, <3>2 DEF SpellingOK
  <2> QED
    BY <1>2, <1>10, <2>2, <2>3, <2>4, <2>5, <2>6
<1> QED
  BY <1>1, <1>9, <1>10

\* A file that is found: every directory on the way to it is entered.
LEMMA FoundOne ==
  ASSUME SpellingOK, NEW tree, TreeOK(tree), NEW path \in Seq(Texts), NEW method,
         NEW i \in Found(tree, path, method)
  PROVE  LET key == tree.files[i].directory
             last == path[Len(path)]
         IN /\ i \in DOMAIN tree.files /\ i \in Nat /\ FileOK(tree.directories, tree.files[i])
            /\ Len(path) \in Nat \ {0} /\ Len(key) = Len(path) - 1
            /\ \A n \in 1 .. Len(path) - 1 : Enters(tree, SubSeq(key, 1, n), path[n])
            /\ last \in Texts /\ i \in BuildMatch(tree, key, last, method)
<1> DEFINE key == tree.files[i].directory
<1>1. /\ i \in DOMAIN tree.files /\ Reached(tree, key, path)
      /\ i \in BuildMatch(tree, key, path[Len(path)], method)
  BY DEF Found, Last
<1>2. FilesOK(tree.directories, tree.files)
  BY DEF TreeOK
<1>3. key \in Seq(Texts) /\ FileOK(tree.directories, tree.files[i]) /\ i \in Nat
  <2>1. FileOK(tree.directories, tree.files[i])
    BY <1>1, <1>2 DEF FilesOK
  <2>2. i \in Nat
    BY <1>1, <1>2 DEF FilesOK
  <2> QED
    BY <2>1, <2>2 DEF FileOK, IsKey
<1> HIDE DEF key
<1>4. Len(key) = Len(path) - 1 /\ \A n \in DOMAIN key : Enters(tree, SubSeq(key, 1, n), path[n])
  BY <1>1 DEF Reached
<1>5. Len(path) \in Nat \ {0} /\ DOMAIN key = 1 .. Len(path) - 1
  BY <1>3, <1>4
<1>6. path[Len(path)] \in Texts
  BY <1>5
<1> QED
  BY <1>1, <1>3, <1>4, <1>5, <1>6 DEF key

\* The segments of the directories and the name of a file are its key.
LEMMA KeyOfDirectories ==
  ASSUME SpellingOK, NEW file, IsKey(file.directory), file.rawName \in Texts,
         NEW matched \in Seq(Texts), Len(matched) = Len(file.directory) + 1,
         \A n \in 1 .. Len(file.directory) : LowerCase[matched[n]] = file.directory[n],
         matched[Len(matched)] = file.rawName
  PROVE  /\ KeyOf(matched) = PathKey(file) /\ matched # <<>>
         /\ Last(matched) = file.rawName /\ KeyOf(Front(matched)) = file.directory
         /\ \A n \in 1 .. Len(file.directory) : PathKey(file)[n] = file.directory[n]
         /\ PathKey(file)[Len(file.directory) + 1] = LowerCase[file.rawName]
         /\ PathKey(file) \in Seq(Texts) /\ Len(PathKey(file)) = Len(file.directory) + 1
<1> DEFINE key == file.directory
           k == Len(key)
           last == LowerCase[file.rawName]
           front == Front(matched)
<1>1. key \in Seq(Texts) /\ k \in Nat /\ last \in Texts /\ Len(matched) = k + 1
  BY DEF IsKey, SpellingOK
<1>2. /\ PathKey(file) \in Seq(Texts) /\ Len(PathKey(file)) = k + 1
      /\ PathKey(file)[k + 1] = last /\ \A n \in 1 .. k : PathKey(file)[n] = key[n]
  <2> HIDE DEF key, last, k
  <2>1. /\ Append(key, last) \in Seq(Texts) /\ Len(Append(key, last)) = k + 1
        /\ Append(key, last)[k + 1] = last /\ \A n \in 1 .. k : Append(key, last)[n] = key[n]
    BY <1>1 DEF k
  <2> QED
    BY <2>1 DEF PathKey, key, last
<1>3. /\ KeyOf(matched) \in Seq(Texts) /\ Len(KeyOf(matched)) = k + 1
      /\ \A n \in 1 .. k + 1 : KeyOf(matched)[n] = LowerCase[matched[n]]
  BY <1>1, KeyOfPath DEF IsKey
<1>4. matched # <<>>
  BY <1>1
<1>5. /\ Last(matched) = matched[k + 1] /\ front \in Seq(Texts) /\ Len(front) = k
      /\ \A n \in 1 .. k : front[n] = matched[n]
  BY <1>1, <1>4, FrontOf
<1> HIDE DEF front
<1>6. /\ KeyOf(front) \in Seq(Texts) /\ Len(KeyOf(front)) = k
      /\ \A n \in 1 .. k : KeyOf(front)[n] = LowerCase[front[n]]
  BY <1>5, KeyOfPath DEF IsKey
<1>7. KeyOf(front) = key
  <2> DEFINE other == KeyOf(front)
  <2>1. other \in Seq(Texts) /\ Len(other) = k /\ \A n \in 1 .. k : other[n] = key[n]
    BY <1>1, <1>5, <1>6
  <2> HIDE DEF other, key
  <2>2. other = key
    BY <1>1, <2>1 DEF k
  <2> QED
    BY <2>2 DEF other
<1>8. KeyOf(matched) = PathKey(file)
  <2> DEFINE one == KeyOf(matched)
             two == PathKey(file)
  <2>1. one \in Seq(Texts) /\ two \in Seq(Texts) /\ Len(one) = k + 1 /\ Len(two) = k + 1
    BY <1>2, <1>3
  <2>2. \A n \in 1 .. k + 1 : one[n] = two[n]
    <3> SUFFICES ASSUME NEW n \in 1 .. k + 1 PROVE one[n] = two[n]
      OBVIOUS
    <3>1. n = k + 1 \/ n \in 1 .. k
      BY <1>1
    <3>2. CASE n = k + 1
      BY <1>1, <1>2, <1>3, <3>2
    <3>3. CASE n \in 1 .. k
      BY <1>1, <1>2, <1>3, <3>3
    <3> QED
      BY <3>1, <3>2, <3>3
  <2> HIDE DEF one, two, k
  <2>3. one = two
    BY <1>1, <2>1, <2>2, SameSequence
  <2> QED
    BY <2>3 DEF one, two
<1> QED
  BY <1>1, <1>2, <1>4, <1>5, <1>7, <1>8 DEF front

\* The matched path of a file that is found.
LEMMA MatchedPath ==
  ASSUME SpellingOK, NEW tree, TreeOK(tree), NEW path \in Seq(Texts), NEW method,
         NEW i \in Found(tree, path, method), NEW ambiguous
  PROVE  LET matched == MatchOf(tree, i, path, ambiguous).matchedPath
             file == tree.files[i]
         IN /\ matched \in Seq(Texts) /\ Len(matched) = Len(path)
            /\ matched[Len(matched)] = file.rawName
            /\ \A n \in 1 .. Len(path) - 1 :
                 /\ LowerCase[matched[n]] = file.directory[n]
                 /\ \/ file.directory[n] = LowerCase[path[n]] /\ matched[n] = path[n]
                    \/ /\ file.directory[n] # LowerCase[path[n]]
                       /\ IsWildcard(matched[n]) /\ matched[n] \in Variables
            /\ KeyOf(matched) = PathKey(file) /\ matched # <<>>
            /\ Last(matched) = file.rawName /\ KeyOf(Front(matched)) = file.directory
<1> DEFINE file == tree.files[i]
           key == file.directory
           raw == [n \in 1 .. Len(path) - 1 |-> RawName(tree, SubSeq(key, 1, n))]
           matched == MatchOf(tree, i, path, ambiguous).matchedPath
<1>1. /\ i \in DOMAIN tree.files /\ FileOK(tree.directories, file)
      /\ Len(path) \in Nat \ {0} /\ Len(key) = Len(path) - 1
      /\ \A n \in 1 .. Len(path) - 1 : Enters(tree, SubSeq(key, 1, n), path[n])
  BY FoundOne
<1>2. key \in Seq(Texts) /\ IsKey(key) /\ file.rawName \in Texts
  BY <1>1 DEF FileOK, IsKey
<1>3. matched = [n \in 1 .. Len(path) |->
                   IF n = Len(path) THEN file.rawName
                   ELSE IF key[n] = LowerCase[path[n]] THEN path[n] ELSE raw[n]]
  <2>1. matched = [n \in DOMAIN path |->
                     CASE n = Len(path) -> file.rawName
                       [] n # Len(path) /\ key[n] = LowerCase[path[n]] -> path[n]
                       [] OTHER -> RawName(tree, SubSeq(key, 1, n))]
    BY DEF MatchOf
  <2>2. DOMAIN path = 1 .. Len(path)
    OBVIOUS
  <2>3. \A n \in DOMAIN path : n # Len(path) => n \in 1 .. Len(path) - 1
    BY <1>1
  <2> HIDE DEF key, file
  <2> QED
    BY <2>1, <2>2, <2>3
<1> HIDE DEF matched
<1>4. ASSUME NEW n \in 1 .. Len(path) - 1
      PROVE  /\ raw[n] \in Texts /\ LowerCase[raw[n]] = key[n] /\ path[n] \in Texts
             /\ key[n] = LowerCase[path[n]] \/ (IsWildcard(raw[n]) /\ raw[n] \in Variables)
  <2>1. n \in 1 .. Len(key) /\ path[n] \in Texts /\ Enters(tree, SubSeq(key, 1, n), path[n])
         /\ n \in 0 .. Len(key)
    BY <1>1
  <2> DEFINE prefix == SubSeq(key, 1, n)
  <2> HIDE DEF key
  <2>2. /\ IsDirectory(tree.directories, prefix)
        /\ key[n] = LowerCase[path[n]] \/ IsWildcard(RawName(tree, prefix))
    BY <1>2, <2>1, EntersOne
  <2>3. Len(prefix) = n /\ prefix[n] = key[n]
    <3>1. n \in 1 .. n
      BY <2>1
    <3> QED
      BY <1>2, <2>1, <3>1, PrefixOf
  <2> HIDE DEF prefix
  <2>4. /\ RawName(tree, prefix) \in Texts /\ LowerCase[RawName(tree, prefix)] = prefix[Len(prefix)]
        /\ IsWildcard(RawName(tree, prefix)) => RawName(tree, prefix) \in Variables
    BY <2>2, DirectoryAt
  <2>5. raw[n] = RawName(tree, prefix)
    BY DEF prefix
  <2> HIDE DEF raw
  <2> QED
    BY <2>1, <2>2, <2>3, <2>4, <2>5
<1> HIDE DEF raw
<1>5. matched \in Seq(Texts) /\ Len(matched) = Len(path)
  <2>1. \A n \in 1 .. Len(path) : n # Len(path) => n \in 1 .. Len(path) - 1
    BY <1>1
  <2>2. matched \in [1 .. Len(path) -> Texts]
    BY <1>2, <1>3, <1>4, <2>1
  <2> QED
    BY <1>1, <2>2
<1>6. matched[Len(matched)] = file.rawName
  <2>1. Len(path) \in 1 .. Len(path)
    BY <1>1
  <2> HIDE DEF file
  <2> QED
    BY <1>3, <1>5, <2>1
<1>7. ASSUME NEW n \in 1 .. Len(path) - 1
      PROVE  /\ LowerCase[matched[n]] = key[n]
             /\ \/ key[n] = LowerCase[path[n]] /\ matched[n] = path[n]
                \/ /\ key[n] # LowerCase[path[n]]
                   /\ IsWildcard(matched[n]) /\ matched[n] \in Variables
  <2>1. n \in 1 .. Len(path) /\ n # Len(path)
    BY <1>1
  <2>2. matched[n] = IF key[n] = LowerCase[path[n]] THEN path[n] ELSE raw[n]
    BY <1>3, <2>1
  <2> QED
    BY <1>4, <2>2
<1>8. /\ KeyOf(matched) = PathKey(file) /\ matched # <<>>
      /\ Last(matched) = file.rawName /\ KeyOf(Front(matched)) = file.directory
  <2>1. Len(matched) = Len(key) + 1 /\ \A n \in 1 .. Len(key) : LowerCase[matched[n]] = key[n]
    BY <1>1, <1>5, <1>7
  <2> HIDE DEF file
  <2> QED
    BY <1>2, <1>5, <1>6, <2>1, KeyOfDirectories
<1> QED
  BY <1>1, <1>5, <1>6, <1>7, <1>8 DEF matched

\* The files that are found have a first one.
LEMMA FirstIsFound ==
  ASSUME SpellingOK, NEW tree, TreeOK(tree), NEW path \in Seq(Texts), NEW method,
         Found(tree, path, method) # {}
  PROVE  First(tree, Found(tree, path, method)) \in Found(tree, path, method)
<1> DEFINE found == Found(tree, path, method)
           order == [i \in found |-> Order(tree, i)]
<1>1. ASSUME NEW i \in found PROVE order[i] \in [1 .. Len(path) -> Nat] /\ Len(path) \in Nat
  <2> DEFINE key == tree.files[i].directory
             places == [depth \in DOMAIN key |-> Place(tree, SubSeq(key, 1, depth))]
  <2>1. /\ i \in Nat /\ FileOK(tree.directories, tree.files[i])
        /\ Len(path) \in Nat \ {0} /\ Len(key) = Len(path) - 1
        /\ \A n \in 1 .. Len(path) - 1 : Enters(tree, SubSeq(key, 1, n), path[n])
    BY FoundOne
  <2>2. order[i] = Append(places, i)
    BY DEF Order
  <2>3. DOMAIN key = 1 .. Len(path) - 1
    BY <2>1 DEF FileOK, IsKey
  <2>4. \A n \in 1 .. Len(path) - 1 : IsDirectory(tree.directories, SubSeq(key, 1, n))
    BY <2>1 DEF Enters
  <2>5. \A n \in 1 .. Len(path) - 1 : Place(tree, SubSeq(key, 1, n)) \in Nat
    BY <2>4, DirectoryAt
  <2>6. places \in [1 .. Len(path) - 1 -> Nat]
    BY <2>3, <2>5
  <2> HIDE DEF places, order
  <2>7. places \in Seq(Nat) /\ Len(places) = Len(path) - 1
    BY <2>1, <2>6
  <2>8. Append(places, i) \in [1 .. Len(path) -> Nat]
    <3> DEFINE k == Len(path)
    <3>1. k \in Nat /\ i \in Nat /\ Len(places) = k - 1
      BY <2>1, <2>7
    <3> HIDE DEF k
    <3> DEFINE all == Append(places, i)
    <3>2. all \in Seq(Nat) /\ Len(all) = k
      BY <2>7, <3>1
    <3> HIDE DEF all
    <3>3. all \in [1 .. k -> Nat]
      BY <3>2
    <3> QED
      BY <3>3 DEF k, all
  <2> QED
    BY <2>1, <2>2, <2>8
<1> HIDE DEF order
<1>2. found # {} /\ Len(path) \in Nat
  BY <1>1
<1>3. PICK i \in found : \A j \in found : ~ Before(order[j], order[i])
  <2> HIDE DEF found
  <2> QED
    BY <1>1, <1>2, FirstOrder
<1>4. \E k \in found : \A j \in found : ~ Before(Order(tree, j), Order(tree, k))
  BY <1>3 DEF order
<1> QED
  BY <1>4 DEF First

\* Match() finds nothing, or a file of Found().
LEMMA MatchFound ==
  ASSUME SpellingOK, NEW tree, TreeOK(tree), NEW url, WithoutLastSlash(url) \in Seq(Texts),
         NEW method
  PROVE  LET path == WithoutLastSlash(url)
             found == Found(tree, path, method)
             first == First(tree, found)
         IN \/ found = {} /\ Match(tree, url, method) = NoMatch
            \/ /\ first \in found
               /\ Match(tree, url, method) = MatchOf(tree, first, path, found # {first})
BY FirstIsFound DEF Match

\* Only the last segment of a URL may look like a variable.
\* A URL without placeholders, but for its last segment.
PlainUrl(url) == url \in Seq(Texts) /\ \A n \in 1 .. Len(url) - 1 : ~ IsWildcard(url[n])

\* The path of a plain URL is plain.
LEMMA UrlPath ==
  ASSUME NEW url \in Seq(Texts)
  PROVE  LET path == WithoutLastSlash(url)
         IN /\ path \in Seq(Texts) /\ Len(path) \in Nat /\ Len(url) \in Nat /\ Len(path) <= Len(url)
            /\ \A n \in 1 .. Len(path) : path[n] = url[n] /\ n \in 1 .. Len(url)
            /\ PlainUrl(url) => \A n \in 1 .. Len(path) - 1 : ~ IsWildcard(path[n])
<1> DEFINE path == WithoutLastSlash(url)
<1>1. CASE path = url
  <2> HIDE DEF path
  <2>1. Len(url) \in Nat
    OBVIOUS
  <2> QED
    BY <1>1, <2>1 DEF PlainUrl, path
<1>2. CASE path # url
  <2>1. path = Front(url) /\ url # <<>>
    BY <1>2 DEF WithoutLastSlash
  <2>2. /\ Front(url) \in Seq(Texts) /\ Len(Front(url)) = Len(url) - 1
        /\ \A m \in 1 .. Len(url) - 1 : Front(url)[m] = url[m]
        /\ Len(url) \in Nat \ {0}
    BY <2>1, FrontOf
  <2> HIDE DEF path
  <2> QED
    BY <2>1, <2>2 DEF PlainUrl, path
<1> QED
  BY <1>1, <1>2

\* Bindings depend on the bound positions only.
LEMMA BindingsOf ==
  ASSUME NEW k \in Nat, NEW bound, bound \subseteq 1 .. k, NEW pattern, NEW path, NEW other,
         \A n \in bound : path[n] = other[n]
  PROVE  Bindings(path, pattern, bound) = Bindings(other, pattern, bound)
<1> DEFINE at(name) == {n \in bound : pattern[n] = name}
           names == {pattern[n] : n \in bound}
<1>1. ASSUME NEW name \in names PROVE Max(at(name)) \in at(name)
  <2> DEFINE here == at(name)
  <2>1. here \subseteq 0 .. k /\ here # {}
    <3>1. PICK n \in bound : pattern[n] = name
      OBVIOUS
    <3>2. n \in here /\ here \subseteq bound
      BY <3>1
    <3> HIDE DEF here
    <3>3. \A m \in here : m \in 1 .. k
      BY <3>2
    <3>4. here \subseteq 0 .. k
      BY <3>3
    <3> QED
      BY <3>2, <3>4
  <2> HIDE DEF here
  <2>2. Max(here) \in here
    BY <2>1, MaxOf
  <2> QED
    BY <2>2 DEF here
<1>2. Bindings(path, pattern, bound) = [name \in names |-> path[Max(at(name))]]
  BY DEF Bindings
<1>3. Bindings(other, pattern, bound) = [name \in names |-> other[Max(at(name))]]
  BY DEF Bindings
<1>4. \A name \in names : path[Max(at(name))] = other[Max(at(name))]
  BY <1>1
<1>5. Bindings(path, pattern, bound) = Bindings(other, pattern, bound)
  BY <1>2, <1>3, <1>4
<1> QED
  BY <1>5

\* The positions of the variables of a path.
Wildcards(path) == {n \in DOMAIN path : IsWildcard(path[n])}

\* What occurs once is bound to what is at its place.
LEMMA BindingAt ==
  ASSUME NEW pattern \in Seq(Texts), NEW path, NEW n, n \in Wildcards(pattern),
         \A m \in Wildcards(pattern) : pattern[m] = pattern[n] => m = n
  PROVE  /\ pattern[n] \in DOMAIN Bindings(path, pattern, Wildcards(pattern))
         /\ Bindings(path, pattern, Wildcards(pattern))[pattern[n]] = path[n]
<1> DEFINE bound == Wildcards(pattern)
           at(name) == {m \in bound : pattern[m] = name}
           names == {pattern[m] : m \in bound}
<1>0. bound \subseteq Nat /\ n \in bound
  BY DEF Wildcards
<1> HIDE DEF bound
<1>1. pattern[n] \in names
  BY <1>0
<1>2. at(pattern[n]) = {n}
  BY <1>0 DEF bound
<1>3. Max({n}) = n
  <2> DEFINE one == {n}
  <2>1. n \in Nat /\ one \subseteq 0 .. n /\ one # {}
    BY <1>0
  <2>2. \A m \in one : m = n
    OBVIOUS
  <2> HIDE DEF one
  <2>3. Max(one) \in one
    BY <2>1, MaxOf
  <2> QED
    BY <2>2, <2>3 DEF one
<1>4. Bindings(path, pattern, bound) = [name \in names |-> path[Max(at(name))]]
  BY DEF Bindings
<1> HIDE DEF names, at
<1> QED
  BY <1>1, <1>2, <1>3, <1>4 DEF bound

\* The positions of the variables in braces: the only ones a pattern binds.
Braced(path) == {n \in DOMAIN path : IsBraced(path[n])}

\* What a pattern binds is what the tree binds, without what is not in braces.
LEMMA BracedBindings ==
  ASSUME NEW path, NEW pattern
  PROVE  Bindings(path, pattern, Braced(pattern))
           = RestrictDomain(Bindings(path, pattern, Wildcards(pattern)), IsBraced)
<1> DEFINE wild == Wildcards(pattern)
           braced == Braced(pattern)
           all == Bindings(path, pattern, wild)
           some == Bindings(path, pattern, braced)
           names == {name \in {pattern[n] : n \in wild} : IsBraced(name)}
<1>1. \A n : n \in braced <=> n \in wild /\ IsBraced(pattern[n])
  BY BracesAssumption DEF Braced, Wildcards, IsBraced, IsWildcard
<1>2. all = [name \in {pattern[n] : n \in wild} |-> path[Max({n \in wild : pattern[n] = name})]]
  BY DEF Bindings
<1>3. some = [name \in {pattern[n] : n \in braced} |-> path[Max({n \in braced : pattern[n] = name})]]
  BY DEF Bindings
<1> HIDE DEF wild, braced, all, some
<1>4. {pattern[n] : n \in braced} = names
  BY <1>1
<1>5. ASSUME NEW name \in names
      PROVE  {n \in braced : pattern[n] = name} = {n \in wild : pattern[n] = name}
  BY <1>1
<1>6. RestrictDomain(all, IsBraced) = [name \in names |-> all[name]]
  BY <1>2 DEF RestrictDomain, Restrict
<1>7. some = [name \in names |-> all[name]]
  BY <1>2, <1>3, <1>4, <1>5
<1> QED
  BY <1>6, <1>7 DEF all, some, wild, braced

\* The variables of a match are the wildcards of its path: a directory that is
\* entered by its name is none of them, as long as the URL looks like no variable.
LEMMA MatchVariables ==
  ASSUME SpellingOK, NEW tree, TreeOK(tree), NEW path \in Seq(Texts), NEW method,
         \A n \in 1 .. Len(path) - 1 : ~ IsWildcard(path[n]),
         NEW i \in Found(tree, path, method), NEW ambiguous
  PROVE  LET match == MatchOf(tree, i, path, ambiguous)
             matched == match.matchedPath
         IN /\ match.module = tree.files[i].module /\ match.ambiguous = ambiguous
            /\ match.pathVariables = Bindings(path, matched, Wildcards(matched))
            /\ \A n \in 1 .. Len(path) : IsWildcard(matched[n]) => matched[n] \in Variables
<1> DEFINE file == tree.files[i]
           key == file.directory
           match == MatchOf(tree, i, path, ambiguous)
           matched == match.matchedPath
           ByName(n) == IF n = Len(path) THEN ~ IsWildcard(file.rawName)
                                         ELSE key[n] = LowerCase[path[n]]
           bound == {n \in DOMAIN path : ~ ByName(n)}
           wild == Wildcards(matched)
<1>1. Len(path) \in Nat \ {0} /\ FileOK(tree.directories, file)
  BY FoundOne
<1>2. /\ matched \in Seq(Texts) /\ Len(matched) = Len(path)
      /\ matched[Len(matched)] = file.rawName
      /\ \A n \in 1 .. Len(path) - 1 :
           \/ key[n] = LowerCase[path[n]] /\ matched[n] = path[n]
           \/ key[n] # LowerCase[path[n]] /\ IsWildcard(matched[n]) /\ matched[n] \in Variables
  BY MatchedPath
<1>3. /\ match.module = file.module /\ match.ambiguous = ambiguous
      /\ match.pathVariables = Bindings(path, matched, bound)
  BY DEF MatchOf
<1> HIDE DEF matched, key
<1>4. DOMAIN path = 1 .. Len(path) /\ DOMAIN matched = 1 .. Len(path)
  BY <1>1, <1>2
<1>5. \A n \in 1 .. Len(path) : n = Len(path) \/ n \in 1 .. Len(path) - 1
  BY <1>1
<1>6. IsWildcard(matched[Len(path)]) <=> ~ ByName(Len(path))
  BY <1>2
<1>7. \A n \in 1 .. Len(path) - 1 : n # Len(path)
  BY <1>1
<1>8. \A n \in 1 .. Len(path) - 1 : IsWildcard(matched[n]) <=> ~ ByName(n)
  BY <1>2, <1>7
<1>9. bound = wild
  BY <1>4, <1>5, <1>6, <1>8 DEF Wildcards
<1>10. IsWildcard(matched[Len(path)]) => matched[Len(path)] \in Variables
  BY <1>1, <1>2 DEF FileOK
<1>11. \A n \in 1 .. Len(path) - 1 : IsWildcard(matched[n]) => matched[n] \in Variables
  BY <1>2
<1>12. \A n \in 1 .. Len(path) : IsWildcard(matched[n]) => matched[n] \in Variables
  BY <1>5, <1>10, <1>11
<1> QED
  BY <1>3, <1>9, <1>12 DEF matched

\* What a URL leads to is found again at the path that was matched, with the
\* variables that are in braces.
LEMMA TwoWays ==
  ASSUME SpellingOK, NEW tree, TreeOK(tree), NEW url, PlainUrl(url), NEW method
  PROVE  LET found == Match(tree, url, method)
             again == MatchPattern(tree, url, found.matchedPath)
         IN found.matchedPath # <<>> => /\ again.module = found.module
                                        /\ again.pathVariables =
                                             RestrictDomain(found.pathVariables, IsBraced)
<1> DEFINE path == WithoutLastSlash(url)
           found == Found(tree, path, method)
           i == First(tree, found)
           file == tree.files[i]
           key == file.directory
           match == MatchOf(tree, i, path, found # {i})
           matched == match.matchedPath
           again == MatchPattern(tree, url, matched)
<1>1. /\ url \in Seq(Texts) /\ path \in Seq(Texts) /\ Len(path) \in Nat
      /\ \A n \in 1 .. Len(path) : path[n] = url[n] /\ n \in DOMAIN url
      /\ \A n \in 1 .. Len(path) - 1 : ~ IsWildcard(path[n])
  <2>1. url \in Seq(Texts)
    BY DEF PlainUrl
  <2> HIDE DEF path
  <2> QED
    BY <2>1, UrlPath DEF path
<1>2. CASE found = {}
  BY <1>1, <1>2, MatchFound DEF NoMatch
<1>3. CASE i \in found /\ Match(tree, url, method) = match
  <2>1. /\ i \in DOMAIN tree.files /\ i \in Nat /\ Len(path) \in Nat \ {0}
        /\ Len(key) = Len(path) - 1
        /\ FileOK(tree.directories, file)
        /\ path[Len(path)] \in Texts /\ i \in BuildMatch(tree, key, path[Len(path)], method)
    <3> HIDE DEF path
    <3> QED
      BY <1>1, <1>3, FoundOne
  <2>2. /\ matched \in Seq(Texts) /\ Len(matched) = Len(path)
        /\ matched[Len(matched)] = file.rawName
        /\ \A n \in 1 .. Len(path) - 1 :
             \/ key[n] = LowerCase[path[n]] /\ matched[n] = path[n]
             \/ key[n] # LowerCase[path[n]] /\ IsWildcard(matched[n])
        /\ Last(matched) = file.rawName /\ KeyOf(Front(matched)) = key
    <3> HIDE DEF path
    <3> QED
      BY <1>1, <1>3, MatchedPath
  <2>3. i = Min(FilesNamed(tree, key, file.rawName))
    <3> DEFINE last == path[Len(path)]
               dir == key
    <3>1. i \in BuildMatch(tree, dir, last, method) /\ last \in Texts
      BY <2>1
    <3> HIDE DEF path, i, last, dir
    <3>2. \A j \in BuildMatch(tree, dir, last, method) :
            j = Min(FilesNamed(tree, dir, tree.files[j].rawName))
      <4> TAKE j \in BuildMatch(tree, dir, last, method)
      <4> QED
        BY <3>1, BuildMatchOne, SMTT(30)
    <3> QED
      BY <3>1, <3>2 DEF dir
  <2>4. i \in FilesNamed(tree, key, file.rawName)
    BY <2>1 DEF FilesNamed
  <2> DEFINE wild == Wildcards(matched)
             values == [n \in DOMAIN matched |-> SegmentAt(url, n)]
  <2>5. match.module = file.module /\ match.pathVariables = Bindings(path, matched, wild)
    <3> DEFINE ambiguous == found # {i}
    <3> HIDE DEF path, i, ambiguous
    <3> QED
      BY <1>1, <1>3, MatchVariables
  <2>6. again.module = file.module /\ again.pathVariables = Bindings(values, matched, Braced(matched))
    BY <2>2, <2>3, <2>4 DEF MatchPattern, Braced
  <2>7. Bindings(values, matched, Braced(matched))
          = RestrictDomain(Bindings(values, matched, wild), IsBraced)
    BY BracedBindings
  <2> HIDE DEF path, matched, key
  <2>8. wild \subseteq 1 .. Len(path) /\ \A n \in wild : path[n] = values[n]
    BY <1>1, <2>2 DEF SegmentAt, Wildcards
  <2> HIDE DEF values, wild
  <2>9. Bindings(path, matched, wild) = Bindings(values, matched, wild)
    BY <1>1, <2>8, BindingsOf
  <2> QED
    BY <1>3, <2>5, <2>6, <2>7, <2>9 DEF matched, wild, values
<1>4. (found = {} /\ Match(tree, url, method) = NoMatch)
       \/ (i \in found /\ Match(tree, url, method) = match)
  BY <1>1, MatchFound
<1> HIDE DEF found, i, match
<1> QED
  BY <1>2, <1>3, <1>4

\* What buildMatch() says of a file that is found.
LEMMA FoundFile ==
  ASSUME SpellingOK, NEW tree, TreeOK(tree), NEW path \in Seq(Texts), NEW method,
         NEW i \in Found(tree, path, method)
  PROVE  LET file == tree.files[i]
             last == path[Len(path)]
         IN /\ i = Min(FilesNamed(tree, file.directory, file.rawName))
            /\ \/ IsWildcard(file.rawName) \/ file.rawName = NoSegment
               \/ LowerCase[file.rawName] = LowerCase[last]
            /\ IsWildcard(file.rawName) =>
                 \A j \in FilesNamed(tree, file.directory, last) : IsWildcard(tree.files[j].rawName)
<1>1. ASSUME NEW key, NEW segment \in Texts, NEW k \in BuildMatch(tree, key, segment, method)
      PROVE  /\ k = Min(FilesNamed(tree, key, tree.files[k].rawName))
             /\ \/ IsWildcard(tree.files[k].rawName) \/ tree.files[k].rawName = NoSegment
                \/ LowerCase[tree.files[k].rawName] = LowerCase[segment]
             /\ IsWildcard(tree.files[k].rawName) =>
                  \A j \in FilesNamed(tree, key, segment) : IsWildcard(tree.files[j].rawName)
  BY BuildMatchOne
<1>2. /\ path[Len(path)] \in Texts
      /\ i \in BuildMatch(tree, tree.files[i].directory, path[Len(path)], method)
  BY FoundOne
<1> QED
  BY <1>1, <1>2

\* The key of a file, segment by segment.
LEMMA PathKeyOf ==
  ASSUME SpellingOK, NEW directories, NEW file, FileOK(directories, file)
  PROVE  /\ file.directory \in Seq(Texts) /\ Len(file.directory) \in Nat /\ file.rawName \in Texts
         /\ PathKey(file) \in Seq(Texts) /\ Len(PathKey(file)) = Len(file.directory) + 1
         /\ \A n \in 1 .. Len(file.directory) : PathKey(file)[n] = file.directory[n]
         /\ PathKey(file)[Len(file.directory) + 1] = LowerCase[file.rawName]
<1> DEFINE key == file.directory
           last == LowerCase[file.rawName]
<1>1. key \in Seq(Texts) /\ Len(key) \in Nat /\ last \in Texts /\ file.rawName \in Texts
  BY DEF FileOK, IsKey, SpellingOK
<1> HIDE DEF key, last
<1>2. /\ Append(key, last) \in Seq(Texts) /\ Len(Append(key, last)) = Len(key) + 1
      /\ Append(key, last)[Len(key) + 1] = last
      /\ \A n \in 1 .. Len(key) : Append(key, last)[n] = key[n]
  BY <1>1
<1> QED
  BY <1>1, <1>2 DEF PathKey, key, last

\* A path with the key of a file that is found, position by position.
LEMMA FoundKey ==
  ASSUME SpellingOK, NEW tree, TreeOK(tree), NEW path \in Seq(Texts), NEW method,
         NEW i \in Found(tree, path, method), NEW p \in Seq(Texts),
         KeyOf(p) = PathKey(tree.files[i])
  PROVE  LET file == tree.files[i]
             key == file.directory
         IN /\ Len(path) \in Nat \ {0} /\ Len(p) = Len(path) /\ Len(key) = Len(path) - 1
            /\ key \in Seq(Texts)
            /\ \A n \in 1 .. Len(path) - 1 : LowerCase[p[n]] = key[n]
            /\ LowerCase[p[Len(path)]] = LowerCase[file.rawName]
            /\ file.rawName \in Texts
            /\ \A n \in 1 .. Len(path) : p[n] \in Texts /\ path[n] \in Texts
<1> DEFINE file == tree.files[i]
           key == file.directory
<1>1. Len(path) \in Nat \ {0} /\ Len(key) = Len(path) - 1 /\ FileOK(tree.directories, file)
  BY FoundOne
<1> HIDE DEF file
<1>2. /\ key \in Seq(Texts) /\ file.rawName \in Texts
      /\ PathKey(file) \in Seq(Texts) /\ Len(PathKey(file)) = Len(key) + 1
      /\ \A n \in 1 .. Len(key) : PathKey(file)[n] = key[n]
      /\ PathKey(file)[Len(key) + 1] = LowerCase[file.rawName]
  BY <1>1, PathKeyOf
<1>3. /\ Len(KeyOf(p)) = Len(p)
      /\ \A n \in 1 .. Len(p) : KeyOf(p)[n] = LowerCase[p[n]]
  BY KeyOfPath
<1>4. KeyOf(p) = PathKey(file)
  BY DEF file
<1>5. Len(p) = Len(path)
  BY <1>1, <1>2, <1>3, <1>4
<1>6. \A n \in 1 .. Len(path) - 1 : LowerCase[p[n]] = key[n]
  BY <1>1, <1>2, <1>3, <1>4, <1>5
<1>7. LowerCase[p[Len(path)]] = LowerCase[file.rawName]
  BY <1>1, <1>2, <1>3, <1>4, <1>5
<1>8. \A n \in 1 .. Len(path) : p[n] \in Texts /\ path[n] \in Texts
  BY <1>1, <1>5
<1> QED
  BY <1>1, <1>2, <1>5, <1>6, <1>7, <1>8 DEF file

\* The file that is found fits the URL.
LEMMA FoundFits ==
  ASSUME SpellingOK, NEW tree, TreeOK(tree), NEW path \in Seq(Texts), NEW method,
         NEW i \in Found(tree, path, method), tree.files[i].rawName # NoSegment,
         NEW p \in Seq(Texts), KeyOf(p) = PathKey(tree.files[i])
  PROVE  FitsPath(p, path)
<1> DEFINE file == tree.files[i]
           key == file.directory
           last == path[Len(path)]
<1>1. /\ Len(path) \in Nat \ {0} /\ Len(p) = Len(path) /\ Len(key) = Len(path) - 1
      /\ key \in Seq(Texts)
      /\ \A n \in 1 .. Len(path) - 1 : LowerCase[p[n]] = key[n]
      /\ LowerCase[p[Len(path)]] = LowerCase[file.rawName]
      /\ file.rawName \in Texts
      /\ \A n \in 1 .. Len(path) : p[n] \in Texts /\ path[n] \in Texts
  BY FoundKey
<1>2. /\ \A n \in 1 .. Len(path) - 1 : Enters(tree, SubSeq(key, 1, n), path[n])
      /\ last \in Texts /\ i \in BuildMatch(tree, key, last, method)
  BY FoundOne
<1>3. \A n \in 1 .. Len(path) - 1 : IsWildcard(p[n]) \/ LowerCase[p[n]] = LowerCase[path[n]]
  <2> SUFFICES ASSUME NEW n \in 1 .. Len(path) - 1
               PROVE  IsWildcard(p[n]) \/ LowerCase[p[n]] = LowerCase[path[n]]
    OBVIOUS
  <2>1. n \in 1 .. Len(key) /\ n \in 1 .. Len(path)
    BY <1>1
  <2> HIDE DEF key
  <2>2. key[n] = LowerCase[path[n]] \/ IsWildcard(key[n])
    BY <1>1, <1>2, <2>1, EntersOne
  <2> QED
    BY <1>1, <2>1, <2>2 DEF SpellingOK
<1>4. IsWildcard(p[Len(path)]) \/ LowerCase[p[Len(path)]] = LowerCase[last]
  <2>1. IsWildcard(file.rawName) \/ LowerCase[file.rawName] = LowerCase[last]
    BY FoundFile
  <2>2. p[Len(path)] \in Texts
    BY <1>1
  <2> QED
    BY <1>1, <2>1, <2>2 DEF SpellingOK
<1>5. \A n \in DOMAIN p : n \in 1 .. Len(path) - 1 \/ n = Len(path)
  BY <1>1
<1> QED
  BY <1>1, <1>3, <1>4, <1>5 DEF FitsPath

\* Nothing that the tree has is preferred to a file that is found: neither a
\* directory on the way nor another file.
LEMMA NoneBetter ==
  ASSUME SpellingOK, NEW tree, TreeOK(tree), NEW path \in Seq(Texts), NEW method,
         NEW i \in Found(tree, path, method),
         NEW p \in Seq(Texts), KeyOf(p) = PathKey(tree.files[i]),
         NEW q \in Seq(Texts), Len(q) <= Len(path), FitsPath(q, SubSeq(path, 1, Len(q))),
         \A n \in 1 .. Len(q) : n < Len(path)
           => IsDirectory(tree.directories, SubSeq(KeyOf(q), 1, n)),
         Len(q) = Len(path) => HasPath(tree, KeyOf(q)),
         Preferred(q, p)
  PROVE  FALSE
<1> DEFINE file == tree.files[i]
           key == file.directory
           k == Len(path)
           last == path[Len(path)]
<1>1. /\ k \in Nat \ {0} /\ Len(p) = k /\ Len(key) = k - 1
      /\ key \in Seq(Texts)
      /\ \A n \in 1 .. k - 1 : LowerCase[p[n]] = key[n]
      /\ LowerCase[p[k]] = LowerCase[file.rawName]
      /\ file.rawName \in Texts
      /\ \A n \in 1 .. k : p[n] \in Texts /\ path[n] \in Texts
  BY FoundKey
<1>2. /\ \A n \in 1 .. k - 1 : Enters(tree, SubSeq(key, 1, n), path[n])
      /\ last \in Texts /\ i \in BuildMatch(tree, key, last, method)
  BY FoundOne
<1>3. PICK n \in DOMAIN q \cap DOMAIN p :
        /\ ~ IsWildcard(q[n]) /\ IsWildcard(p[n])
        /\ \A j \in 1 .. n - 1 : LowerCase[q[j]] = LowerCase[p[j]]
  BY DEF Preferred
<1>4. n \in 1 .. k /\ n \in 1 .. Len(q) /\ q[n] \in Texts /\ n \in Nat \ {0} /\ Len(q) \in Nat
  BY <1>1, <1>3
<1>5. LowerCase[q[n]] = LowerCase[path[n]]
  <2> DEFINE cut == SubSeq(path, 1, Len(q))
  <2>1. cut[n] = path[n]
    <3>1. Len(q) \in 0 .. Len(path) /\ n \in 1 .. Len(q)
      BY <1>1, <1>4
    <3> QED
      BY <3>1, PrefixOf
  <2> HIDE DEF cut
  <2>2. FitsPath(q, cut)
    BY DEF cut
  <2>3. LowerCase[q[n]] = LowerCase[cut[n]]
    BY <1>3, <2>2 DEF FitsPath
  <2> QED
    BY <2>1, <2>3
<1>6. /\ KeyOf(q) \in Seq(Texts) /\ Len(KeyOf(q)) = Len(q)
      /\ \A m \in 1 .. Len(q) : KeyOf(q)[m] = LowerCase[q[m]]
  BY KeyOfPath DEF IsKey
<1>7. ~ IsWildcard(LowerCase[q[n]]) /\ IsWildcard(LowerCase[p[n]])
  BY <1>1, <1>3, <1>4 DEF SpellingOK
<1>8. \A j \in 1 .. n - 1 : KeyOf(q)[j] = key[j] /\ j \in 1 .. Len(q) /\ j \in 1 .. k - 1
  BY <1>1, <1>3, <1>4, <1>6
<1> HIDE DEF key, k
<1>9. CASE n < k
  <2> DEFINE qkey == KeyOf(q)
             prefix == SubSeq(qkey, 1, n)
             front == SubSeq(key, 1, n - 1)
             lower == LowerCase[path[n]]
             named == Append(front, lower)
  <2>1. n \in 1 .. k - 1 /\ n \in 1 .. Len(key) /\ n - 1 \in 0 .. Len(key) /\ n \in 0 .. Len(qkey)
        /\ lower \in Texts /\ qkey \in Seq(Texts)
    BY <1>1, <1>4, <1>6, <1>9 DEF SpellingOK
  <2>2. IsDirectory(tree.directories, prefix)
    BY <1>4, <1>9 DEF k
  <2>3. /\ front \in Seq(Texts) /\ Len(front) = n - 1
        /\ \A m \in 1 .. n - 1 : front[m] = key[m]
    <3> HIDE DEF qkey, prefix, lower, named
    <3>1. key \in Seq(Texts) /\ n - 1 \in 0 .. Len(key)
      BY <1>1, <2>1
    <3> QED
      BY <3>1, PrefixOf
  <2>4. qkey[n] = lower /\ \A m \in 1 .. n - 1 : qkey[m] = key[m]
    BY <1>4, <1>5, <1>6, <1>8
  <2> HIDE DEF qkey
  <2>5. /\ prefix \in Seq(Texts) /\ Len(prefix) = n
        /\ \A m \in 1 .. n : prefix[m] = qkey[m]
    BY <2>1, PrefixOf
  <2> HIDE DEF prefix, front, lower
  <2>6. /\ named \in Seq(Texts) /\ Len(named) = n
        /\ \A m \in 1 .. n - 1 : named[m] = front[m]
        /\ named[n] = lower
    BY <1>4, <2>1, <2>3
  <2> HIDE DEF named
  <2>7. \A m \in 1 .. n : prefix[m] = named[m]
    <3> SUFFICES ASSUME NEW m \in 1 .. n PROVE prefix[m] = named[m]
      OBVIOUS
    <3>1. CASE m = n
      BY <2>4, <2>5, <2>6, <3>1
    <3>2. CASE m \in 1 .. n - 1
      BY <2>3, <2>4, <2>5, <2>6, <3>2
    <3> QED
      BY <1>4, <3>1, <3>2
  <2>8. prefix = named
    <3>1. Len(prefix) = Len(named) /\ \A m \in 1 .. Len(prefix) : prefix[m] = named[m]
      BY <2>5, <2>6, <2>7
    <3> QED
      BY <2>5, <2>6, <3>1, SameSequence
  <2>9. key[n] = lower
    <3>1. Enters(tree, SubSeq(key, 1, n), path[n]) /\ path[n] \in Texts
      BY <1>1, <1>2, <1>4, <2>1
    <3>2. IsDirectory(tree.directories, Append(SubSeq(key, 1, n - 1), LowerCase[path[n]]))
      BY <2>2, <2>8 DEF named, front, lower
    <3>3. key[n] = LowerCase[path[n]]
      <4>1. key \in Seq(Texts) /\ n \in 1 .. Len(key)
        BY <1>1, <2>1
      <4> QED
        BY <3>1, <3>2, <4>1, EntersOne
    <3> QED
      BY <3>3 DEF lower
  <2>10. LowerCase[p[n]] = LowerCase[q[n]]
    BY <1>1, <1>5, <2>1, <2>9 DEF lower
  <2> QED
    BY <1>7, <2>10
<1>10. CASE n = k
  <2>1. Len(q) = Len(path) /\ HasPath(tree, KeyOf(q))
    BY <1>1, <1>4, <1>10 DEF k
  <2>2. PICK j \in DOMAIN tree.files : PathKey(tree.files[j]) = KeyOf(q)
    BY <2>1 DEF HasPath
  <2> DEFINE other == tree.files[j]
             dir == other.directory
  <2>3. FileOK(tree.directories, other)
    BY DEF TreeOK, FilesOK
  <2> HIDE DEF other
  <2>4. /\ dir \in Seq(Texts) /\ Len(dir) \in Nat /\ other.rawName \in Texts
        /\ PathKey(other) \in Seq(Texts) /\ Len(PathKey(other)) = Len(dir) + 1
        /\ \A m \in 1 .. Len(dir) : PathKey(other)[m] = dir[m]
        /\ PathKey(other)[Len(dir) + 1] = LowerCase[other.rawName]
    BY <2>3, PathKeyOf
  <2>5. PathKey(other) = KeyOf(q)
    BY <2>2 DEF other
  <2> HIDE DEF dir
  <2>6. Len(dir) = k - 1 /\ LowerCase[other.rawName] = LowerCase[last]
    BY <1>1, <1>4, <1>5, <1>6, <1>10, <2>1, <2>4, <2>5 DEF k
  <2>7. \A m \in 1 .. k - 1 : dir[m] = key[m]
    BY <1>8, <1>10, <2>4, <2>5, <2>6
  <2>8. dir = key
    <3>1. Len(key) = k - 1 /\ key \in Seq(Texts) /\ k - 1 \in Nat
      BY <1>1
    <3> QED
      BY <2>4, <2>6, <2>7, <3>1
  <2>9. j \in FilesNamed(tree, key, last)
    BY <2>6, <2>8 DEF FilesNamed, other, dir
  <2>10. IsWildcard(file.rawName)
    BY <1>1, <1>7, <1>10 DEF SpellingOK
  <2>11. IsWildcard(tree.files[j].rawName)
    BY <2>9, <2>10, FoundFile DEF key
  <2>12. IsWildcard(LowerCase[other.rawName])
    BY <2>4, <2>11 DEF SpellingOK, other
  <2> QED
    BY <1>5, <1>7, <1>10, <2>6, <2>12 DEF k
<1> QED
  BY <1>1, <1>4, <1>9, <1>10

-----------------------------------------------------------------------------
(* The trees of contracts.                                                 *)

\* Every directory on the way to a file is there.
LEMMA PathDirectories ==
  ASSUME SpellingOK, NEW tree, TreeOK(tree), NEW key, HasPath(tree, key)
  PROVE  /\ key \in Seq(Texts)
         /\ \A n \in 1 .. Len(key) - 1 : IsDirectory(tree.directories, SubSeq(key, 1, n))
<1>1. PICK i \in DOMAIN tree.files : PathKey(tree.files[i]) = key
  BY DEF HasPath
<1> DEFINE file == tree.files[i]
           dir == file.directory
<1>2. FileOK(tree.directories, file)
  BY DEF TreeOK, FilesOK
<1>3. /\ dir \in Seq(Texts) /\ Len(dir) \in Nat
      /\ key \in Seq(Texts) /\ Len(key) = Len(dir) + 1
      /\ \A n \in 1 .. Len(dir) : key[n] = dir[n]
  <2> HIDE DEF file
  <2> QED
    BY <1>1, <1>2, PathKeyOf DEF file
<1>4. \A n \in 1 .. Len(dir) : IsDirectory(tree.directories, SubSeq(dir, 1, n))
  BY <1>2 DEF FileOK
<1> HIDE DEF dir
<1>5. \A n \in 1 .. Len(dir) : SubSeq(dir, 1, n) = SubSeq(key, 1, n)
  <2> SUFFICES ASSUME NEW n \in 1 .. Len(dir) PROVE SubSeq(dir, 1, n) = SubSeq(key, 1, n)
    OBVIOUS
  <2>1. n \in 0 .. Len(dir) /\ n \in 0 .. Len(key)
    BY <1>3
  <2>2. /\ SubSeq(dir, 1, n) \in Seq(Texts) /\ Len(SubSeq(dir, 1, n)) = n
        /\ \A m \in 1 .. n : SubSeq(dir, 1, n)[m] = dir[m]
    BY <1>3, <2>1, PrefixOf
  <2>3. /\ SubSeq(key, 1, n) \in Seq(Texts) /\ Len(SubSeq(key, 1, n)) = n
        /\ \A m \in 1 .. n : SubSeq(key, 1, n)[m] = key[m]
    BY <1>3, <2>1, PrefixOf
  <2>4. \A m \in 1 .. n : m \in 1 .. Len(dir)
    BY <1>3
  <2> QED
    BY <1>3, <2>2, <2>3, <2>4
<1>6. \A n \in 1 .. Len(key) - 1 : n \in 1 .. Len(dir)
  BY <1>3
<1>7. \A n \in 1 .. Len(key) - 1 : IsDirectory(tree.directories, SubSeq(key, 1, n))
  BY <1>4, <1>5, <1>6
<1> QED
  BY <1>3, <1>7

\* The trees of the first paths of a contract are there, one after the other.
LEMMA TreesOfPaths ==
  ASSUME NEW paths, Len(paths) \in Nat
  PROVE  \E trees :
           /\ ContractTree(paths) = trees[Len(paths)]
           /\ trees[0] = NewTree
           /\ \A n \in 1 .. Len(paths) :
                trees[n] = AddModule(trees[n - 1], paths[n].path, {ContractMethod})
<1> DEFINE Body(trees, k) == [n \in 0 .. k |-> IF n = 0 THEN NewTree
                                               ELSE AddModule(trees[n - 1], paths[n].path,
                                                                {ContractMethod})]
           Good(k) == \E trees : trees = Body(trees, k)
           numbers == {k \in Nat : Good(k)}
<1>1. Good(0)
  <2> DEFINE one == [n \in 0 .. 0 |-> NewTree]
  <2>1. one = Body(one, 0)
    OBVIOUS
  <2> QED
    BY <2>1
<1>2. ASSUME NEW k \in Nat, Good(k) PROVE Good(k + 1)
  <2>1. PICK trees : trees = Body(trees, k)
    BY <1>2
  <2> DEFINE longer == [n \in 0 .. k + 1 |-> IF n = k + 1
                          THEN AddModule(trees[k], paths[k + 1].path, {ContractMethod})
                          ELSE trees[n]]
  <2>2. \A n \in 0 .. k : trees[n] = IF n = 0 THEN NewTree
                                     ELSE AddModule(trees[n - 1], paths[n].path, {ContractMethod})
    BY <2>1
  <2>3. \A n \in 0 .. k : n # k + 1 /\ n \in 0 .. k + 1
    OBVIOUS
  <2>4. \A n \in 0 .. k : longer[n] = trees[n]
    BY <2>3
  <2>5. \A n \in 0 .. k + 1 : n \in 0 .. k \/ n = k + 1
    OBVIOUS
  <2>6. \A n \in 0 .. k + 1 : n # 0 => n - 1 \in 0 .. k
    OBVIOUS
  <2>7. longer[k + 1] = AddModule(trees[k], paths[k + 1].path, {ContractMethod}) /\ k + 1 # 0
    OBVIOUS
  <2>8. ASSUME NEW n \in 0 .. k + 1
        PROVE  longer[n] = IF n = 0 THEN NewTree
                           ELSE AddModule(longer[n - 1], paths[n].path, {ContractMethod})
    <3> HIDE DEF longer
    <3>1. CASE n \in 0 .. k
      BY <2>2, <2>4, <2>6, <3>1
    <3>2. CASE n = k + 1
      <4>1. longer[n - 1] = trees[k]
        BY <2>4, <3>2
      <4> QED
        BY <2>7, <3>2, <4>1
    <3> QED
      BY <2>5, <3>1, <3>2
  <2>9. longer = Body(longer, k + 1)
    <3>1. longer = [n \in 0 .. k + 1 |-> longer[n]]
      OBVIOUS
    <3> HIDE DEF longer
    <3> QED
      BY <2>8, <3>1
  <2> HIDE DEF longer, Body
  <2> QED
    BY <2>9
<1>3. Good(Len(paths))
  <2> HIDE DEF Good
  <2>1. 0 \in numbers /\ \A n \in numbers : n + 1 \in numbers
    BY <1>1, <1>2
  <2>2. numbers \subseteq Nat
    OBVIOUS
  <2> HIDE DEF numbers
  <2>3. numbers = Nat
    BY <2>1, <2>2, Induction
  <2> QED
    BY <2>3 DEF numbers
<1> DEFINE trees == CHOOSE t : t = Body(t, Len(paths))
<1>4. trees = Body(trees, Len(paths))
  BY <1>3
<1>5. ContractTree(paths) = trees[Len(paths)]
  BY DEF ContractTree
<1> HIDE DEF trees
<1>6. trees[0] = NewTree
  BY <1>4
<1>7. \A n \in 1 .. Len(paths) : trees[n] = AddModule(trees[n - 1], paths[n].path, {ContractMethod})
  <2> SUFFICES ASSUME NEW n \in 1 .. Len(paths)
               PROVE  trees[n] = AddModule(trees[n - 1], paths[n].path, {ContractMethod})
    OBVIOUS
  <2>1. n \in 0 .. Len(paths) /\ n # 0
    OBVIOUS
  <2> QED
    BY <1>4, <2>1
<1> QED
  BY <1>5, <1>6, <1>7

\* The tree of a contract has its paths.
LEMMA ContractTreeOK ==
  ASSUME SpellingOK, NEW paths, Len(paths) \in Nat, \A n \in 1 .. Len(paths) : PathOK(paths[n].path)
  PROVE  /\ TreeOK(ContractTree(paths))
         /\ \A key : HasPath(ContractTree(paths), key) <=>
                       \E n \in 1 .. Len(paths) : key = KeyOf(paths[n].path)
<1>1. PICK trees : /\ ContractTree(paths) = trees[Len(paths)]
                   /\ trees[0] = NewTree
                   /\ \A n \in 1 .. Len(paths) :
                        trees[n] = AddModule(trees[n - 1], paths[n].path, {ContractMethod})
  BY TreesOfPaths
<1> DEFINE Good(k) == /\ TreeOK(trees[k])
                      /\ \A key : HasPath(trees[k], key)
                           <=> \E n \in 1 .. k : key = KeyOf(paths[n].path)
           numbers == {k \in Nat : k <= Len(paths) => Good(k)}
<1>2. Good(0)
  <2>1. trees[0].files = <<>>
    BY <1>1 DEF NewTree
  <2> QED
    BY <1>1, <2>1, NewTreeOK DEF HasPath
<1>3. ASSUME NEW k \in Nat, k + 1 <= Len(paths), Good(k) PROVE Good(k + 1)
  <2> DEFINE path == paths[k + 1].path
             module == {ContractMethod}
             tree == trees[k]
  <2>1. k + 1 \in 1 .. Len(paths) /\ (k + 1) - 1 = k
    BY <1>3
  <2>2. trees[k + 1] = AddModule(tree, path, module) /\ PathOK(path) /\ TreeOK(tree)
    BY <1>1, <1>3, <2>1
  <2>3. module \in SUBSET Exports
    BY DEF Exports
  <2>4. \A key : HasPath(tree, key) <=> \E n \in 1 .. k : key = KeyOf(paths[n].path)
    BY <1>3
  <2> HIDE DEF path, module, tree
  <2>5. /\ TreeOK(AddModule(tree, path, module))
        /\ \A key : HasPath(AddModule(tree, path, module), key)
             <=> HasPath(tree, key) \/ key = KeyOf(path)
    BY <2>2, <2>3, AddModuleOK
  <2>6. \A n : n \in 1 .. k + 1 <=> n \in 1 .. k \/ n = k + 1
    OBVIOUS
  <2> QED
    BY <2>2, <2>4, <2>5, <2>6 DEF path
<1>4. Good(Len(paths))
  <2> HIDE DEF Good
  <2>1. 0 \in numbers /\ numbers \subseteq Nat
    BY <1>2
  <2>2. \A n \in numbers : n + 1 \in numbers
    BY <1>3
  <2> HIDE DEF numbers
  <2>3. numbers = Nat
    BY <2>1, <2>2, Induction
  <2> QED
    BY <2>3 DEF numbers
<1> QED
  BY <1>1, <1>4

-----------------------------------------------------------------------------
(* The routes of files, and what they serve.                               *)

\* The route of a file.
LEMMA RouteOf ==
  ASSUME SpellingOK, NEW tree, TreeOK(tree), NEW k \in DOMAIN tree.files
  PROVE  LET p == PathOf(tree, tree.files[k])
         IN /\ p \in Seq(Texts) /\ KeyOf(p) = PathKey(tree.files[k])
            /\ \A n \in 1 .. Len(p) : IsWildcard(p[n]) => p[n] \in Variables
            /\ [path |-> p, module |-> tree.files[k].module] \in Routes(tree)
<1> DEFINE file == tree.files[k]
           key == file.directory
           raw == [n \in DOMAIN key |-> RawName(tree, SubSeq(key, 1, n))]
           p == PathOf(tree, file)
<1>1. FileOK(tree.directories, file)
  BY DEF TreeOK, FilesOK
<1>2. [path |-> p, module |-> file.module] \in Routes(tree)
  BY DEF Routes, ToSet
<1>3. p = Append(raw, file.rawName)
  BY DEF PathOf
<1>4. /\ key \in Seq(Texts) /\ IsKey(key) /\ file.rawName \in Texts /\ Len(key) \in Nat
      /\ IsWildcard(file.rawName) => file.rawName \in Variables
      /\ \A n \in 1 .. Len(key) : IsDirectory(tree.directories, SubSeq(key, 1, n))
  BY <1>1 DEF FileOK, IsKey
<1> HIDE DEF key, p
<1>5. ASSUME NEW n \in 1 .. Len(key)
      PROVE  /\ raw[n] \in Texts /\ LowerCase[raw[n]] = key[n]
             /\ IsWildcard(raw[n]) => raw[n] \in Variables
  <2> DEFINE prefix == SubSeq(key, 1, n)
  <2>1. n \in 0 .. Len(key) /\ n \in 1 .. n /\ n \in DOMAIN key
    BY <1>4
  <2>2. Len(prefix) = n /\ prefix[n] = key[n]
    BY <1>4, <2>1, PrefixOf
  <2>3. IsDirectory(tree.directories, prefix) /\ raw[n] = RawName(tree, prefix)
    BY <1>4, <2>1
  <2> HIDE DEF prefix, raw
  <2>4. /\ RawName(tree, prefix) \in Texts /\ LowerCase[RawName(tree, prefix)] = prefix[Len(prefix)]
        /\ IsWildcard(RawName(tree, prefix)) => RawName(tree, prefix) \in Variables
    BY <2>3, DirectoryAt
  <2> QED
    BY <2>2, <2>3, <2>4
<1>6. raw \in [1 .. Len(key) -> Texts]
  <2>1. DOMAIN key = 1 .. Len(key)
    BY <1>4
  <2>2. \A n \in 1 .. Len(key) : raw[n] \in Texts
    BY <1>5
  <2>3. raw = [n \in 1 .. Len(key) |-> RawName(tree, SubSeq(key, 1, n))]
    BY <2>1
  <2>4. \A n \in 1 .. Len(key) : RawName(tree, SubSeq(key, 1, n)) \in Texts
    BY <2>2, <2>3
  <2> QED
    BY <2>3, <2>4
<1> HIDE DEF raw, file
<1>7. raw \in Seq(Texts) /\ Len(raw) = Len(key)
  BY <1>4, <1>6
<1>8. /\ p \in Seq(Texts) /\ Len(p) = Len(key) + 1
      /\ \A n \in 1 .. Len(key) : p[n] = raw[n]
      /\ p[Len(p)] = file.rawName
  BY <1>3, <1>4, <1>7
<1>9. KeyOf(p) = PathKey(file)
  BY <1>4, <1>5, <1>8, KeyOfDirectories DEF key
<1>10. \A n \in 1 .. Len(p) : IsWildcard(p[n]) => p[n] \in Variables
  <2> SUFFICES ASSUME NEW n \in 1 .. Len(p), IsWildcard(p[n]) PROVE p[n] \in Variables
    OBVIOUS
  <2>1. n = Len(p) \/ n \in 1 .. Len(key)
    BY <1>4, <1>8
  <2> QED
    BY <1>4, <1>5, <1>8, <2>1
<1> QED
  BY <1>2, <1>8, <1>9, <1>10 DEF p, file

\* The wildcards of a path are variables.
NamesVariables(path) ==
  path \in Seq(Texts) /\ \A n \in 1 .. Len(path) : IsWildcard(path[n]) => path[n] \in Variables

\* The values that a pattern binds are bound to the variables of a path.
Binds(values, pattern, path) ==
  \A n \in 1 .. Len(path) : IsWildcard(path[n]) =>
    /\ path[n] \in DOMAIN Bindings(values, pattern, Wildcards(pattern))
    /\ Bindings(values, pattern, Wildcards(pattern))[path[n]] = values[n]

\* Whatever spells the path of a file names the same variables.
LEMMA BoundPath ==
  ASSUME SpellingOK, NEW tree, TreeOK(tree), NEW k \in DOMAIN tree.files,
         NEW matched, NamesVariables(matched), KeyOf(matched) = PathKey(tree.files[k]),
         NEW p, NamesVariables(p), KeyOf(p) = KeyOf(matched), NEW values
  PROVE  Binds(values, matched, p)
<1> SUFFICES ASSUME NEW n \in 1 .. Len(p), IsWildcard(p[n])
             PROVE  /\ p[n] \in DOMAIN Bindings(values, matched, Wildcards(matched))
                    /\ Bindings(values, matched, Wildcards(matched))[p[n]] = values[n]
  BY DEF Binds
<1> DEFINE key == KeyOf(matched)
           wild == Wildcards(matched)
<1>0. /\ matched \in Seq(Texts) /\ p \in Seq(Texts) /\ p[n] \in Variables
      /\ \A m \in 1 .. Len(matched) : IsWildcard(matched[m]) => matched[m] \in Variables
  BY DEF NamesVariables
<1>1. /\ Len(key) = Len(matched) /\ \A m \in 1 .. Len(matched) : key[m] = LowerCase[matched[m]]
      /\ key \in Seq(Texts) /\ Len(matched) \in Nat
  BY <1>0, KeyOfPath DEF IsKey
<1>2. Len(key) = Len(p) /\ \A m \in 1 .. Len(p) : key[m] = LowerCase[p[m]]
  <2>1. Len(KeyOf(p)) = Len(p) /\ \A m \in 1 .. Len(p) : KeyOf(p)[m] = LowerCase[p[m]]
    BY <1>0, KeyOfPath
  <2> QED
    BY <2>1
<1>3. \A m, l \in DOMAIN key : IsWildcard(key[l]) /\ key[m] = key[l] => m = l
  <2>1. FileOK(tree.directories, tree.files[k])
    BY DEF TreeOK, FilesOK
  <2> QED
    BY <2>1 DEF FileOK
<1> HIDE DEF key
<1>4. /\ n \in 1 .. Len(matched) /\ p[n] \in Texts /\ matched[n] \in Texts
      /\ LowerCase[p[n]] = LowerCase[matched[n]]
  <2>1. n \in 1 .. Len(matched)
    BY <1>1, <1>2
  <2>2. p[n] \in Texts
    BY <1>0
  <2>3. matched[n] \in Texts
    BY <1>0, <2>1
  <2>4. key[n] = LowerCase[matched[n]]
    BY <1>1, <2>1
  <2>5. key[n] = LowerCase[p[n]]
    BY <1>2
  <2> QED
    BY <2>1, <2>2, <2>3, <2>4, <2>5
<1>5. IsWildcard(matched[n]) /\ IsWildcard(key[n])
  BY <1>1, <1>4 DEF SpellingOK
<1>6. p[n] = matched[n]
  BY <1>0, <1>4, <1>5 DEF SpellingOK
<1>7. n \in wild /\ wild \subseteq 1 .. Len(matched)
  BY <1>0, <1>4, <1>5 DEF Wildcards
<1> HIDE DEF wild
<1>8. \A m \in wild : matched[m] = matched[n] => m = n
  BY <1>1, <1>3, <1>5, <1>7
<1>9. /\ matched[n] \in DOMAIN Bindings(values, matched, wild)
      /\ Bindings(values, matched, wild)[matched[n]] = values[n]
  <2>1. n \in Wildcards(matched)
    BY <1>7 DEF wild
  <2>2. \A m \in Wildcards(matched) : matched[m] = matched[n] => m = n
    BY <1>8 DEF wild
  <2> QED
    BY <1>0, <2>1, <2>2, BindingAt DEF wild
<1> QED
  BY <1>6, <1>9 DEF wild

\* The path that a plain URL is matched by.
LEMMA PlainPath ==
  ASSUME NEW url, PlainUrl(url)
  PROVE  LET path == WithoutLastSlash(url)
         IN /\ url \in Seq(Texts) /\ path \in Seq(Texts) /\ Len(path) \in Nat
            /\ Len(path) <= Len(url)
            /\ \A n \in 1 .. Len(path) : path[n] = url[n] /\ n \in 1 .. Len(url)
            /\ \A n \in 1 .. Len(path) - 1 : ~ IsWildcard(path[n])
<1>1. url \in Seq(Texts)
  BY DEF PlainUrl
<1> QED
  BY <1>1, UrlPath

\* A key is its own key.
LEMMA KeyOfKey ==
  ASSUME SpellingOK, NEW path \in Seq(Texts)
  PROVE  KeyOf(path) \in Seq(Texts) /\ KeyOf(KeyOf(path)) = KeyOf(path)
<1> DEFINE key == KeyOf(path)
<1>1. key \in Seq(Texts) /\ \A n \in DOMAIN key : LowerCase[key[n]] = key[n]
  BY KeyOfPath DEF IsKey
<1>2. key = [n \in DOMAIN key |-> key[n]]
  BY DEF KeyOf
<1> HIDE DEF key
<1>3. KeyOf(key) = key
  BY <1>1, <1>2 DEF KeyOf
<1> QED
  BY <1>1, <1>3 DEF key

\* A file of a path has the path's last segment for a name.
LEMMA NoRoot ==
  ASSUME NoSegment \notin FileNames, NEW tree, TreeOK(tree), NEW k \in DOMAIN tree.files
  PROVE  tree.files[k].rawName # NoSegment
BY DEF TreeOK, FilesOK, FileOK

\* No file is preferred to one that is found.
LEMMA NoFileBetter ==
  ASSUME SpellingOK, NEW tree, TreeOK(tree), NEW path \in Seq(Texts), NEW method,
         NEW i \in Found(tree, path, method),
         NEW p \in Seq(Texts), KeyOf(p) = PathKey(tree.files[i]),
         NEW q \in Seq(Texts), HasPath(tree, KeyOf(q)), FitsPath(q, path)
  PROVE  ~ Preferred(q, p)
<1> SUFFICES ASSUME Preferred(q, p) PROVE FALSE
  OBVIOUS
<1>1. Len(q) = Len(path) /\ Len(path) \in Nat /\ Len(KeyOf(q)) = Len(q)
  BY KeyOfPath DEF FitsPath
<1>2. SubSeq(path, 1, Len(q)) = path
  BY <1>1
<1>3. \A n \in 1 .. Len(KeyOf(q)) - 1 : IsDirectory(tree.directories, SubSeq(KeyOf(q), 1, n))
  BY PathDirectories
<1>4. \A n \in 1 .. Len(q) : n < Len(path) => n \in 1 .. Len(KeyOf(q)) - 1
  BY <1>1
<1>5. \A n \in 1 .. Len(q) : n < Len(path) => IsDirectory(tree.directories, SubSeq(KeyOf(q), 1, n))
  BY <1>3, <1>4
<1>6. FitsPath(q, SubSeq(path, 1, Len(q)))
  BY <1>2
<1>7. Len(q) <= Len(path)
  BY <1>1
<1> QED
  BY <1>5, <1>6, <1>7, NoneBetter

\* No directory on the way to it is.
LEMMA NoDirectoryBetter ==
  ASSUME SpellingOK, NEW tree, TreeOK(tree), NEW path \in Seq(Texts), NEW method,
         NEW i \in Found(tree, path, method),
         NEW p \in Seq(Texts), KeyOf(p) = PathKey(tree.files[i]),
         NEW d \in DOMAIN tree.directories, Len(tree.directories[d].key) < Len(path),
         FitsPath(tree.directories[d].key, SubSeq(path, 1, Len(tree.directories[d].key)))
  PROVE  ~ Preferred(tree.directories[d].key, p)
<1> DEFINE q == tree.directories[d].key
<1> SUFFICES ASSUME Preferred(q, p) PROVE FALSE
  OBVIOUS
<1>1. DirectoryOK(tree.directories, tree.directories[d])
  BY DEF TreeOK, DirectoriesOK
<1>2. /\ IsKey(q) /\ q \in Seq(Texts)
      /\ \A n \in 1 .. Len(q) : IsDirectory(tree.directories, SubSeq(q, 1, n))
  BY <1>1 DEF DirectoryOK, IsKey
<1> HIDE DEF q
<1>3. KeyOf(q) = q
  <2>1. q = [n \in DOMAIN q |-> q[n]]
    BY <1>2
  <2> QED
    BY <1>2, <2>1 DEF KeyOf, IsKey
<1>4. Len(q) < Len(path) /\ Len(q) \in Nat /\ Len(path) \in Nat
       /\ FitsPath(q, SubSeq(path, 1, Len(q)))
  BY <1>2 DEF q
<1>5. Len(q) <= Len(path) /\ ~ Len(q) = Len(path)
  BY <1>4
<1>6. \A n \in 1 .. Len(q) : n < Len(path) => IsDirectory(tree.directories, SubSeq(KeyOf(q), 1, n))
  BY <1>2, <1>3
<1> QED
  BY <1>2, <1>4, <1>5, <1>6, NoneBetter

\* A text stays the same text, whatever type it is cast to.
LEMMA CastText ==
  ASSUME NEW values, NEW types, NEW name \in DOMAIN values
  PROVE  CastParameters([m \in DOMAIN values |-> Text(values[m])], types)[name].of = values[name]
<1> DEFINE texts == [m \in DOMAIN values |-> Text(values[m])]
<1>1. name \in DOMAIN texts /\ texts[name] = [kind |-> "string", of |-> values[name]]
  BY DEF Text
<1>2. CastParameters(texts, types)[name] =
        CastParameter(texts[name], IF name \in DOMAIN types THEN types[name] ELSE "string")
  BY <1>1 DEF CastParameters
<1> HIDE DEF texts
<1>3. \A type : CastParameter(texts[name], type).of = values[name]
  BY <1>1 DEF CastParameter, NumericParameterValue, BooleanParameterValue, Typed
<1> QED
  BY <1>2, <1>3 DEF texts

\* What a directory serves a URL with: the file of the route that is found.
LEMMA FoundServes ==
  ASSUME SpellingOK, NoSegment \notin FileNames, NEW tree, TreeOK(tree),
         NEW url, PlainUrl(url), NEW method,
         MethodFromModule(Match(tree, url, method).module, method)
  PROVE  LET found == Match(tree, url, method)
         IN \E route \in Routes(tree) :
              /\ KeyOf(route.path) = KeyOf(found.matchedPath)
              /\ Reachable(tree, route, url, method)
              /\ \A n \in DOMAIN route.path : IsWildcard(route.path[n]) =>
                   /\ route.path[n] \in DOMAIN found.pathVariables
                   /\ found.pathVariables[route.path[n]] = url[n]
<1> DEFINE path == WithoutLastSlash(url)
           found == Found(tree, path, method)
           i == First(tree, found)
           file == tree.files[i]
           match == MatchOf(tree, i, path, found # {i})
           matched == match.matchedPath
           p == PathOf(tree, file)
<1>1. /\ url \in Seq(Texts) /\ path \in Seq(Texts) /\ Len(path) \in Nat
      /\ \A n \in 1 .. Len(path) : path[n] = url[n] /\ n \in 1 .. Len(url)
      /\ \A n \in 1 .. Len(path) - 1 : ~ IsWildcard(path[n])
  BY PlainPath
<1>2. i \in found /\ Match(tree, url, method) = match
  <2>1. \/ found = {} /\ Match(tree, url, method) = NoMatch
        \/ i \in found /\ Match(tree, url, method) = match
    BY <1>1, MatchFound
  <2>2. ~ MethodFromModule(NoMatch.module, method)
    BY DEF NoMatch, MethodFromModule
  <2> HIDE DEF found, i, match
  <2> QED
    BY <2>1, <2>2
<1>3. i \in DOMAIN tree.files
  BY <1>2 DEF Found
<1>4. /\ p \in Seq(Texts) /\ KeyOf(p) = PathKey(file)
      /\ \A n \in 1 .. Len(p) : IsWildcard(p[n]) => p[n] \in Variables
      /\ [path |-> p, module |-> file.module] \in Routes(tree)
  BY <1>3, RouteOf
<1>5. /\ match.module = file.module
      /\ match.pathVariables = Bindings(path, matched, Wildcards(matched))
      /\ \A n \in 1 .. Len(path) : IsWildcard(matched[n]) => matched[n] \in Variables
  BY <1>1, <1>2, MatchVariables
<1>6. matched \in Seq(Texts) /\ Len(matched) = Len(path) /\ KeyOf(matched) = PathKey(file)
  BY <1>1, <1>2, MatchedPath
<1>7. FitsPath(p, path)
  <2>1. file.rawName # NoSegment
    BY <1>3, NoRoot
  <2> QED
    BY <1>1, <1>2, <1>4, <2>1, FoundFits
<1>8. \A d \in ToSet(tree.directories) :
        Len(d.key) < Len(path) /\ FitsPath(d.key, SubSeq(path, 1, Len(d.key)))
          => ~ Preferred(d.key, p)
  <2> SUFFICES ASSUME NEW k \in DOMAIN tree.directories,
                      Len(tree.directories[k].key) < Len(path),
                      FitsPath(tree.directories[k].key,
                                 SubSeq(path, 1, Len(tree.directories[k].key)))
               PROVE  ~ Preferred(tree.directories[k].key, p)
    BY DEF ToSet
  <2> HIDE DEF p, path, found, i, file
  <2>1. i \in Found(tree, path, method) /\ KeyOf(p) = PathKey(tree.files[i])
    BY <1>2, <1>4 DEF found, file
  <2> QED
    BY <1>1, <1>4, <2>1, NoDirectoryBetter
<1>9. \A other \in Routes(tree) : FitsPath(other.path, path) => ~ Preferred(other.path, p)
  <2> SUFFICES ASSUME NEW other \in Routes(tree), FitsPath(other.path, path)
               PROVE  ~ Preferred(other.path, p)
    OBVIOUS
  <2>1. PICK k \in DOMAIN tree.files : other.path = PathOf(tree, tree.files[k])
    BY DEF Routes, ToSet
  <2>2. other.path \in Seq(Texts) /\ KeyOf(other.path) = PathKey(tree.files[k])
    BY <2>1, RouteOf
  <2>3. HasPath(tree, KeyOf(other.path))
    BY <2>2 DEF HasPath
  <2> HIDE DEF p, path, found, i, file
  <2>4. i \in Found(tree, path, method) /\ KeyOf(p) = PathKey(tree.files[i])
    BY <1>2, <1>4 DEF found, file
  <2> QED
    BY <1>1, <1>4, <2>2, <2>3, <2>4, NoFileBetter
<1>10. Len(p) = Len(path)
  BY <1>7 DEF FitsPath
<1>11. ASSUME NEW n \in 1 .. Len(p), IsWildcard(p[n])
       PROVE  p[n] \in DOMAIN match.pathVariables /\ match.pathVariables[p[n]] = url[n]
  <2> HIDE DEF p, path, found, i, file, matched, match
  <2>1. \A m \in 1 .. Len(matched) : IsWildcard(matched[m]) => matched[m] \in Variables
    BY <1>5, <1>6
  <2>2. KeyOf(matched) = PathKey(tree.files[i]) /\ KeyOf(p) = KeyOf(matched)
    BY <1>4, <1>6 DEF file
  <2>3. /\ p[n] \in DOMAIN Bindings(path, matched, Wildcards(matched))
        /\ Bindings(path, matched, Wildcards(matched))[p[n]] = path[n]
    <3>1. i \in DOMAIN tree.files /\ NamesVariables(matched) /\ NamesVariables(p)
      BY <1>3, <1>4, <1>6, <2>1 DEF NamesVariables
    <3>2. Binds(path, matched, p)
      BY <2>2, <3>1, BoundPath
    <3> QED
      BY <1>11, <3>2 DEF Binds
  <2>4. path[n] = url[n]
    BY <1>1, <1>10
  <2> QED
    BY <1>5, <2>3, <2>4
<1> DEFINE route == [path |-> p, module |-> file.module]
<1>12. route \in Routes(tree) /\ route.path = p /\ route.module = file.module
  BY <1>4
<1>13. DOMAIN p = 1 .. Len(p)
  BY <1>4
<1>14. MethodFromModule(file.module, method)
  BY <1>2, <1>5
<1> HIDE DEF p, path, found, i, file, matched, match, route
<1>15. Reachable(tree, route, url, method)
  BY <1>7, <1>8, <1>9, <1>12, <1>14 DEF Reachable, path
<1>16. KeyOf(route.path) = KeyOf(Match(tree, url, method).matchedPath)
  BY <1>2, <1>4, <1>6, <1>12 DEF matched
<1>17. \A n \in DOMAIN route.path : IsWildcard(route.path[n]) =>
         /\ route.path[n] \in DOMAIN Match(tree, url, method).pathVariables
         /\ Match(tree, url, method).pathVariables[route.path[n]] = url[n]
  BY <1>2, <1>11, <1>12, <1>13
<1> QED
  BY <1>12, <1>15, <1>16, <1>17

\* Paths of one key fit the same URLs.
LEMMA SameFits ==
  ASSUME SpellingOK, NEW p \in Seq(Texts), NEW q \in Seq(Texts), KeyOf(p) = KeyOf(q), NEW path,
         FitsPath(q, path)
  PROVE  FitsPath(p, path)
<1>1. Len(KeyOf(p)) = Len(p) /\ \A n \in 1 .. Len(p) : KeyOf(p)[n] = LowerCase[p[n]]
  BY KeyOfPath
<1>2. Len(KeyOf(q)) = Len(q) /\ \A n \in 1 .. Len(q) : KeyOf(q)[n] = LowerCase[q[n]]
  BY KeyOfPath
<1>3. Len(p) = Len(q) /\ \A n \in 1 .. Len(p) : LowerCase[p[n]] = LowerCase[q[n]]
  BY <1>1, <1>2
<1>4. DOMAIN p = 1 .. Len(p) /\ DOMAIN q = 1 .. Len(q)
  OBVIOUS
<1>5. \A n \in 1 .. Len(p) : p[n] \in Texts /\ q[n] \in Texts
  BY <1>3
<1>6. \A n \in 1 .. Len(p) : IsWildcard(p[n]) <=> IsWildcard(q[n])
  BY <1>3, <1>5 DEF SpellingOK
<1> QED
  BY <1>3, <1>4, <1>6 DEF FitsPath

\* Some route of the path that was found serves the URL and gives the variables
\* that are in braces.
ServesAs(tree, found, url, method) ==
  \E route \in Routes(tree) :
    /\ KeyOf(route.path) = KeyOf(found.matchedPath)
    /\ FitsUrl(route.path, url) /\ MethodFromModule(route.module, method)
    /\ \A n \in DOMAIN route.path : IsBraced(route.path[n]) =>
         /\ route.path[n] \in DOMAIN found.pathVariables
         /\ found.pathVariables[route.path[n]] = url[n]

\* What a directory serves a pattern with: the file that has it.
LEMMA PatternServes ==
  ASSUME SpellingOK, NEW tree, TreeOK(tree), NEW url, PlainUrl(url), NEW method,
         NEW pattern \in Seq(Texts), pattern # <<>>,
         \A n \in 1 .. Len(pattern) : IsWildcard(pattern[n]) => pattern[n] \in Variables,
         FitsUrl(pattern, url),
         MethodFromModule(MatchPattern(tree, url, pattern).module, method)
  PROVE  LET found == MatchPattern(tree, url, pattern)
         IN /\ found.matchedPath = pattern
            /\ ServesAs(tree, found, url, method)
<1> DEFINE path == WithoutLastSlash(url)
           named == FilesNamed(tree, KeyOf(Front(pattern)), Last(pattern))
           k == Min(named)
           file == tree.files[k]
           values == [n \in DOMAIN pattern |-> SegmentAt(url, n)]
           found == MatchPattern(tree, url, pattern)
           p == PathOf(tree, file)
<1>1. named # {}
  <2> SUFFICES ASSUME named = {} PROVE FALSE
    OBVIOUS
  <2>1. found = NoMatch
    BY DEF MatchPattern
  <2> HIDE DEF found, named
  <2>2. found.module = {}
    BY <2>1 DEF NoMatch
  <2> QED
    BY <2>2 DEF MethodFromModule, found
<1>2. /\ found.module = file.module /\ found.matchedPath = pattern
      /\ found.pathVariables = Bindings(values, pattern, Braced(pattern))
  BY <1>1 DEF MatchPattern, Braced
<1>3. named \subseteq DOMAIN tree.files /\ DOMAIN tree.files \subseteq Nat
  BY DEF FilesNamed, TreeOK, FilesOK
<1>4. k \in named
  <2> HIDE DEF named
  <2> QED
    BY <1>1, <1>3, MinOf
<1>5. /\ k \in DOMAIN tree.files /\ file.directory = KeyOf(Front(pattern))
      /\ LowerCase[file.rawName] = LowerCase[Last(pattern)]
  BY <1>4 DEF FilesNamed
<1> HIDE DEF named, k, path
<1>6. PathKey(file) = KeyOf(pattern)
  <2>1. /\ Front(pattern) = SubSeq(pattern, 1, Len(pattern) - 1)
        /\ Last(pattern) = pattern[Len(pattern)]
        /\ Front(pattern) \in Seq(Texts) /\ Len(Front(pattern)) = Len(pattern) - 1
        /\ \A m \in 1 .. Len(pattern) - 1 : Front(pattern)[m] = pattern[m]
        /\ Len(pattern) \in Nat \ {0}
    BY FrontOf
  <2>2. FileOK(tree.directories, file)
    BY <1>5 DEF TreeOK, FilesOK
  <2> HIDE DEF file
  <2>3. /\ PathKey(file) \in Seq(Texts) /\ Len(PathKey(file)) = Len(file.directory) + 1
        /\ \A n \in 1 .. Len(file.directory) : PathKey(file)[n] = file.directory[n]
        /\ PathKey(file)[Len(file.directory) + 1] = LowerCase[file.rawName]
    BY <2>2, PathKeyOf
  <2>4. /\ Len(file.directory) = Len(pattern) - 1
        /\ \A n \in 1 .. Len(pattern) - 1 : file.directory[n] = LowerCase[pattern[n]]
    <3>1. /\ Len(KeyOf(Front(pattern))) = Len(Front(pattern))
          /\ \A n \in 1 .. Len(Front(pattern)) :
               KeyOf(Front(pattern))[n] = LowerCase[Front(pattern)[n]]
      BY <2>1, KeyOfPath
    <3> QED
      BY <1>5, <2>1, <3>1
  <2>5. /\ KeyOf(pattern) \in Seq(Texts) /\ Len(KeyOf(pattern)) = Len(pattern)
        /\ \A n \in 1 .. Len(pattern) : KeyOf(pattern)[n] = LowerCase[pattern[n]]
    BY KeyOfPath DEF IsKey
  <2>6. Len(PathKey(file)) = Len(pattern)
    BY <2>1, <2>3, <2>4
  <2>7. ASSUME NEW n \in 1 .. Len(pattern) PROVE PathKey(file)[n] = LowerCase[pattern[n]]
    <3>1. CASE n = Len(pattern)
      BY <1>5, <2>1, <2>3, <2>4, <3>1
    <3>2. CASE n # Len(pattern)
      <4>1. n \in 1 .. Len(pattern) - 1
        BY <2>1, <3>2
      <4> QED
        BY <2>3, <2>4, <4>1
    <3> QED
      BY <3>1, <3>2
  <2> QED
    BY <2>3, <2>5, <2>6, <2>7
<1>7. /\ p \in Seq(Texts) /\ KeyOf(p) = PathKey(file)
      /\ \A n \in 1 .. Len(p) : IsWildcard(p[n]) => p[n] \in Variables
      /\ [path |-> p, module |-> file.module] \in Routes(tree)
  BY <1>5, RouteOf
<1>8. FitsUrl(p, url)
  BY <1>6, <1>7, SameFits DEF FitsUrl
<1>9. Len(p) = Len(path) /\ Len(p) = Len(pattern)
  BY <1>8 DEF FitsPath, FitsUrl, path
<1>10. url \in Seq(Texts) /\ \A n \in 1 .. Len(path) : n \in 1 .. Len(url)
  BY PlainPath DEF path
<1>11. ASSUME NEW n \in 1 .. Len(p), IsBraced(p[n])
       PROVE  p[n] \in DOMAIN found.pathVariables /\ found.pathVariables[p[n]] = url[n]
  <2>1. values[n] = url[n]
    <3>1. n \in DOMAIN pattern /\ n \in DOMAIN url
      BY <1>9, <1>10
    <3> QED
      BY <3>1 DEF SegmentAt
  <2> HIDE DEF p, values, found
  <2>2. KeyOf(pattern) = PathKey(tree.files[k]) /\ KeyOf(p) = KeyOf(pattern)
    BY <1>6, <1>7
  <2>3. /\ p[n] \in DOMAIN Bindings(values, pattern, Wildcards(pattern))
        /\ Bindings(values, pattern, Wildcards(pattern))[p[n]] = values[n]
    <3>1. NamesVariables(pattern) /\ NamesVariables(p)
      BY <1>7 DEF NamesVariables
    <3>2. Binds(values, pattern, p)
      BY <1>5, <2>2, <3>1, BoundPath
    <3>3. IsWildcard(p[n])
      BY <1>11, BracesAssumption DEF IsBraced, IsWildcard
    <3> QED
      BY <3>2, <3>3 DEF Binds
  <2> DEFINE all == Bindings(values, pattern, Wildcards(pattern))
             braced == {name \in DOMAIN all : IsBraced(name)}
  <2>4. found.pathVariables = [name \in braced |-> all[name]]
    <3>1. found.pathVariables = RestrictDomain(all, IsBraced)
      BY <1>2, BracedBindings
    <3> HIDE DEF all
    <3> QED
      BY <3>1 DEF RestrictDomain, Restrict
  <2>5. p[n] \in DOMAIN all /\ all[p[n]] = values[n]
    BY <2>3
  <2> HIDE DEF all
  <2>6. p[n] \in braced
    BY <1>11, <2>5
  <2> HIDE DEF braced
  <2> QED
    BY <2>1, <2>4, <2>5, <2>6
<1> DEFINE route == [path |-> p, module |-> file.module]
<1>12. route \in Routes(tree) /\ route.path = p /\ route.module = file.module
  BY <1>7
<1>13. DOMAIN p = 1 .. Len(p)
  BY <1>7
<1>14. MethodFromModule(file.module, method)
  BY <1>2
<1> HIDE DEF p, file, found, route
<1>15. KeyOf(route.path) = KeyOf(pattern) /\ FitsUrl(route.path, url)
        /\ MethodFromModule(route.module, method)
  BY <1>6, <1>7, <1>8, <1>12, <1>14
<1>16. \A n \in DOMAIN route.path : IsBraced(route.path[n]) =>
         route.path[n] \in DOMAIN found.pathVariables /\ found.pathVariables[route.path[n]] = url[n]
  BY <1>11, <1>12, <1>13
<1> QED
  BY <1>2, <1>12, <1>15, <1>16 DEF found, ServesAs

\* The pattern that a contract has for a URL: a path of it that fits, and none is preferred.
LEMMA ContractBest ==
  ASSUME SpellingOK, NoSegment \notin FileNames, NEW paths, Len(paths) \in Nat,
         \A n \in 1 .. Len(paths) : PathOK(paths[n].path),
         NEW url, PlainUrl(url),
         Match(ContractTree(paths), url, ContractMethod).matchedPath # <<>>
  PROVE  LET pattern == Match(ContractTree(paths), url, ContractMethod).matchedPath
         IN /\ pattern \in Seq(Texts) /\ FitsUrl(pattern, url)
            /\ \A n \in 1 .. Len(pattern) : IsWildcard(pattern[n]) => pattern[n] \in Variables
            /\ FitsUrl(KeyOf(pattern), url)
            /\ \E n \in 1 .. Len(paths) : KeyOf(paths[n].path) = KeyOf(pattern)
            /\ \A n \in 1 .. Len(paths) :
                 FitsUrl(KeyOf(paths[n].path), url)
                   => ~ Preferred(KeyOf(paths[n].path), KeyOf(pattern))
<1> DEFINE tree == ContractTree(paths)
           path == WithoutLastSlash(url)
           found == Found(tree, path, ContractMethod)
           i == First(tree, found)
           file == tree.files[i]
           match == MatchOf(tree, i, path, found # {i})
           pattern == match.matchedPath
<1>1. /\ TreeOK(tree)
      /\ \A key : HasPath(tree, key) <=> \E n \in 1 .. Len(paths) : key = KeyOf(paths[n].path)
  BY ContractTreeOK
<1> HIDE DEF tree
<1>2. path \in Seq(Texts) /\ \A n \in 1 .. Len(path) - 1 : ~ IsWildcard(path[n])
  BY PlainPath
<1>3. i \in found /\ Match(tree, url, ContractMethod) = match
  <2>1. \/ found = {} /\ Match(tree, url, ContractMethod) = NoMatch
        \/ i \in found /\ Match(tree, url, ContractMethod) = match
    BY <1>1, <1>2, MatchFound
  <2>2. NoMatch.matchedPath = <<>>
    BY DEF NoMatch
  <2> HIDE DEF found, i, match
  <2> QED
    BY <2>1, <2>2 DEF tree
<1>4. i \in DOMAIN tree.files
  BY <1>3 DEF Found
<1>5. \A n \in 1 .. Len(path) : IsWildcard(pattern[n]) => pattern[n] \in Variables
  BY <1>1, <1>2, <1>3, MatchVariables
<1>6. pattern \in Seq(Texts) /\ Len(pattern) = Len(path) /\ KeyOf(pattern) = PathKey(file)
  BY <1>1, <1>2, <1>3, MatchedPath
<1>7. FitsPath(pattern, path)
  <2>1. file.rawName # NoSegment
    BY <1>1, <1>4, NoRoot
  <2> HIDE DEF pattern
  <2> QED
    BY <1>1, <1>2, <1>3, <1>6, <2>1, FoundFits
<1>8. HasPath(tree, KeyOf(pattern))
  BY <1>4, <1>6 DEF HasPath
<1> HIDE DEF path, found, i, file, match, pattern
<1>9. KeyOf(pattern) \in Seq(Texts) /\ KeyOf(KeyOf(pattern)) = KeyOf(pattern)
  BY <1>6, KeyOfKey
<1>10. FitsPath(KeyOf(pattern), path)
  BY <1>6, <1>7, <1>9, SameFits
<1>11. ASSUME NEW n \in 1 .. Len(paths), FitsPath(KeyOf(paths[n].path), path)
       PROVE  ~ Preferred(KeyOf(paths[n].path), KeyOf(pattern))
  <2> DEFINE q == KeyOf(paths[n].path)
             p == KeyOf(pattern)
  <2>1. paths[n].path \in Seq(Texts)
    BY DEF PathOK
  <2>2. q \in Seq(Texts) /\ KeyOf(q) = q
    BY <2>1, KeyOfKey
  <2>3. HasPath(tree, q)
    BY <1>1
  <2>4. FitsPath(q, path)
    BY <1>11
  <2>5. p \in Seq(Texts) /\ KeyOf(p) = PathKey(tree.files[i])
    BY <1>6, <1>9 DEF file
  <2>6. i \in Found(tree, path, ContractMethod)
    BY <1>3 DEF found
  <2> HIDE DEF p, q
  <2>7. ~ Preferred(q, p)
    BY <1>1, <1>2, <2>2, <2>3, <2>4, <2>5, <2>6, NoFileBetter
  <2> QED
    BY <2>7 DEF p, q
<1>12. pattern = Match(ContractTree(paths), url, ContractMethod).matchedPath
  BY <1>3 DEF pattern, tree
<1>13. \A n \in 1 .. Len(pattern) : IsWildcard(pattern[n]) => pattern[n] \in Variables
  BY <1>5, <1>6
<1>14. \E n \in 1 .. Len(paths) : KeyOf(paths[n].path) = KeyOf(pattern)
  BY <1>1, <1>8
<1> QED
  BY <1>6, <1>7, <1>10, <1>11, <1>12, <1>13, <1>14 DEF FitsUrl, path
-----------------------------------------------------------------------------
(* The routing of requests.                                                *)

\* A registry has a well-formed tree.
RegistryOK(registry) == "tree" \in DOMAIN registry /\ TreeOK(registry.tree)

\* A document lists well-formed paths.
PathsOK(document) ==
  /\ Len(document.paths) \in Nat /\ DOMAIN document.paths = 1 .. Len(document.paths)
  /\ \A n \in 1 .. Len(document.paths) :
       /\ PathOK(document.paths[n].path)
       /\ DOMAIN document.paths[n].operations \subseteq OperationNames
  /\ document.basePath \in Seq(Texts)

\* What a runner routes by.
RouterOK(runner) ==
  /\ {"prefix", "version", "document", "contract", "registry"} \subseteq DOMAIN runner
  /\ runner.prefix \in Seq(Texts) /\ RegistryOK(runner.registry)
  /\ runner.document # Undefined => PathsOK(runner.document)

\* What a builder can send: a variable that it leaves out is sent as it is.
SentOK(path) == \A name \in DOMAIN path : path[name] \in Texts /\ ~ IsWildcard(path[name])

\* The constants of the model that routing depends on: paths of files and
\* documents are well formed, and URLs are plain.
WellRouted ==
  /\ SpellingOK
  /\ IsList(InitialRunners) /\ \A r \in DOMAIN InitialRunners : RouterOK(InitialRunners[r])
  /\ \A pair \in RouteModules : PathOK(pair[1]) /\ pair[2] \subseteq Exports
  /\ \A document \in Documents : document # Undefined => PathsOK(document)
  /\ \A request \in Requests : PlainUrl(request.url) /\ {"method", "url"} \subseteq DOMAIN request
  /\ \A pair \in Catalogs : /\ pair[1] # 0 /\ PlainUrl(pair[2])
                            /\ \A input \in Inputs[pair] :
                                 /\ input.of \in {"path", "query", "headers", "cookies", "form",
                                                    "body"}
                                 /\ input.of = "path" => SentOK(input.values)

\* The runners route by well-formed trees and documents.
RoutersOK == IsList(runners) /\ \A r \in DOMAIN runners : RouterOK(runners[r])
\* The URL of the request at hand is plain.
RequestOK ==
  exchange.stage # "idle" => "request" \in DOMAIN exchange /\ PlainUrl(exchange.request.url)
\* So is the URL that a builder would send.
BuilderOK ==
  builder # NoBuilder => /\ {"routePath", "path"} \subseteq DOMAIN builder
                         /\ PlainUrl(builder.routePath) /\ SentOK(builder.path)

\* The inductive invariant of the routing.
RoutingInv == RoutersOK /\ RequestOK /\ BuilderOK

\* It holds initially.
LEMMA RoutingInit == ASSUME WellRouted, ClientInit PROVE RoutingInv
BY DEF ClientInit, Init, Idle, WellRouted, RoutingInv, RoutersOK, RequestOK, BuilderOK

\* What a builder sends is plain: its variables are filled in.
LEMMA SentUrl ==
  ASSUME NEW b, {"routePath", "path"} \subseteq DOMAIN b, PlainUrl(b.routePath), SentOK(b.path)
  PROVE  PlainUrl(RequestOf(b).url)
<1> DEFINE route == b.routePath
           url == [i \in DOMAIN route |->
                     IF route[i] \in DOMAIN b.path THEN b.path[route[i]] ELSE route[i]]
<1>1. route \in Seq(Texts) /\ \A n \in 1 .. Len(route) - 1 : ~ IsWildcard(route[n])
  BY DEF PlainUrl
<1>2. RequestOf(b).url = url
  BY DEF RequestOf
<1> HIDE DEF route
<1>3. DOMAIN route = 1 .. Len(route) /\ Len(route) \in Nat
  BY <1>1
<1>4. \A n \in DOMAIN route : route[n] \in Texts
  BY <1>1
<1>5. \A n \in DOMAIN route : url[n] \in Texts /\ (~ IsWildcard(route[n]) => ~ IsWildcard(url[n]))
  BY <1>4 DEF SentOK
<1>6. url \in [1 .. Len(route) -> Texts]
  BY <1>3, <1>5
<1> HIDE DEF url
<1>7. url \in Seq(Texts) /\ Len(url) = Len(route)
  BY <1>3, <1>6
<1>8. \A n \in 1 .. Len(url) - 1 : ~ IsWildcard(url[n])
  BY <1>1, <1>3, <1>5, <1>7
<1> QED
  BY <1>2, <1>7, <1>8 DEF PlainUrl

\* Looking at the documents again leaves the routers as they are.
LEMMA RoutersAfterArrival ==
  ASSUME RoutersOK, NEW request
  PROVE  \A r \in DOMAIN runners :
           LET state == [q \in DOMAIN runners |->
                           IF q \in Candidates(request) THEN Refreshed(runners[q]) ELSE runners[q]]
           IN RouterOK(state[r])
<1> SUFFICES ASSUME NEW r \in DOMAIN runners PROVE RouterOK(Refreshed(runners[r]))
  BY DEF RoutersOK
<1>1. RouterOK(runners[r])
  BY DEF RoutersOK
<1>2. CASE Refreshed(runners[r]) = runners[r]
  BY <1>1, <1>2
<1>3. CASE Refreshed(runners[r]) # runners[r]
  <2>1. Refreshed(runners[r]) = [runners[r] EXCEPT !.contract = runners[r].document.paths]
    BY <1>3 DEF Refreshed
  <2> QED
    BY <1>1, <2>1 DEF RouterOK
<1> QED
  BY <1>2, <1>3

\* A request that arrives keeps the invariant.
LEMMA ArrivalRoutes ==
  ASSUME RoutingInv, NEW request, PlainUrl(request.url), Arrive(request)
  PROVE  RoutersOK' /\ RequestOK'
<1> DEFINE state == [r \in DOMAIN runners |->
                      IF r \in Candidates(request) THEN Refreshed(runners[r]) ELSE runners[r]]
           given == Given(Select(request, state), request, state)
<1>1. runners' = state /\ exchange' = Exchange(request, given)
  BY DEF Arrive
<1>2. \A r \in DOMAIN runners : RouterOK(state[r])
  BY RoutersAfterArrival DEF RoutingInv
<1>3. RoutersOK'
  BY <1>1, <1>2 DEF RoutingInv, RoutersOK, IsList
<1>4. RequestOK'
  <2> HIDE DEF given
  <2> QED
    BY <1>1 DEF RequestOK, Exchange
<1> QED
  BY <1>3, <1>4

\* So does everything else that happens at the server: files and documents that
\* change, and replies.
LEMMA OthersRoute ==
  ASSUME WellRouted, RoutingInv, Others
  PROVE  RoutersOK' /\ RequestOK'
<1>0. RoutersOK /\ RequestOK
  BY DEF RoutingInv
<1>1. ASSUME exchange' = exchange
      PROVE  RequestOK'
  BY <1>0, <1>1 DEF RequestOK
<1>2. ASSUME runners' = runners
      PROVE  RoutersOK'
  BY <1>0, <1>2 DEF RoutersOK, IsList
<1>3. ASSUME NEW r \in DOMAIN runners, NEW registry, RegistryOK(registry),
             runners' = [runners EXCEPT ![r].registry = registry]
      PROVE  RoutersOK'
  <2>1. DOMAIN runners' = DOMAIN runners
    BY <1>3
  <2>2. ASSUME NEW q \in DOMAIN runners PROVE RouterOK(runners'[q])
    <3>1. RouterOK(runners[q])
      BY <1>0 DEF RoutersOK
    <3>2. CASE q = r
      <4>1. runners'[q] = [runners[q] EXCEPT !.registry = registry]
        BY <1>3, <3>2
      <4> QED
        BY <1>3, <3>1, <4>1 DEF RouterOK
    <3>3. CASE q # r
      BY <1>3, <3>1, <3>3
    <3> QED
      BY <3>2, <3>3
  <2> QED
    BY <1>0, <2>1, <2>2 DEF RoutersOK, IsList
<1>4. ASSUME NEW r \in DOMAIN runners
      PROVE  RegistryOK(runners[r].registry)
  BY <1>0 DEF RoutersOK, RouterOK
<1>5. ASSUME NEW registry, RegistryOK(registry), NEW pair \in RouteModules
      PROVE  /\ RegistryOK(AddRoute(registry, pair[1], pair[2]))
             /\ RegistryOK(RemoveRoute(registry, pair[1]))
  <2>1. TreeOK(AddModule(registry.tree, pair[1], pair[2]))
    <3> DEFINE path == pair[1]
               module == pair[2]
               tree == registry.tree
    <3>1. PathOK(path) /\ module \in SUBSET Exports /\ TreeOK(tree) /\ SpellingOK
      BY <1>5 DEF WellRouted, RegistryOK
    <3> HIDE DEF path, module, tree
    <3>2. TreeOK(AddModule(tree, path, module))
      BY <3>1, AddModuleOK
    <3> QED
      BY <3>2 DEF path, module, tree
  <2>2. TreeOK(RemoveModule(registry.tree, pair[1]))
    BY <1>5, RemoveModuleOK DEF RegistryOK
  <2> QED
    BY <1>5, <2>1, <2>2 DEF RegistryOK, AddRoute, RemoveRoute
<1>6. ASSUME NEW reply \in Replies, Finish(reply)
      PROVE  RoutersOK' /\ RequestOK'
  <2>1. /\ exchange'.request = exchange.request /\ DOMAIN exchange' = DOMAIN exchange
        /\ exchange.stage # "idle" /\ runners' = runners
    <3>1. exchange.stage = "handling" /\ "request" \in DOMAIN exchange
      BY <1>0, <1>6 DEF Finish, RequestOK
    <3>2. PICK answer : exchange' = [exchange EXCEPT !.stage = "answered", !.reply = reply,
                                       !.answer = answer]
      BY <1>6 DEF Finish
    <3> QED
      BY <1>6, <3>1, <3>2 DEF Finish
  <2> QED
    BY <1>0, <1>2, <2>1 DEF RequestOK
<1>7. ASSUME Leave
      PROVE  RoutersOK' /\ RequestOK'
  BY <1>2, <1>7 DEF Leave, Idle, RequestOK
<1>8. ASSUME NEW r \in DOMAIN runners, NEW pair \in RouteModules,
             LoadRoute(r, pair[1], pair[2]) \/ DropRoute(r, pair[1])
      PROVE  RoutersOK' /\ RequestOK'
  <2>1. CASE LoadRoute(r, pair[1], pair[2])
    <3>1. /\ runners' =
             [runners EXCEPT ![r].registry = AddRoute(runners[r].registry, pair[1], pair[2])]
          /\ exchange' = exchange
      BY <2>1 DEF LoadRoute, Change
    <3> QED
      BY <1>1, <1>3, <1>4, <1>5, <3>1
  <2>2. CASE DropRoute(r, pair[1])
    <3>1. /\ runners' = [runners EXCEPT ![r].registry = RemoveRoute(runners[r].registry, pair[1])]
          /\ exchange' = exchange
      BY <2>2 DEF DropRoute, Change
    <3> QED
      BY <1>1, <1>3, <1>4, <1>5, <3>1
  <2> QED
    BY <1>8, <2>1, <2>2
<1>9. ASSUME NEW r \in DOMAIN runners, NEW path \in MiddlewarePaths, LoadMiddleware(r, path)
      PROVE  RoutersOK' /\ RequestOK'
  <2> DEFINE registry == AddMiddleware(runners[r].registry, path)
  <2>1. runners' = [runners EXCEPT ![r].registry = registry] /\ exchange' = exchange
    BY <1>9 DEF LoadMiddleware, Change
  <2>2. RegistryOK(registry)
    BY <1>4 DEF AddMiddleware, RegistryOK
  <2> HIDE DEF registry
  <2> QED
    BY <1>1, <1>3, <2>1, <2>2
<1>10. ASSUME NEW r \in DOMAIN runners, NEW document \in Documents, ReloadDocument(r, document)
       PROVE  RoutersOK' /\ RequestOK'
  <2>1. runners' = [runners EXCEPT ![r].document = document] /\ exchange' = exchange
    BY <1>10 DEF ReloadDocument, Change
  <2>2. DOMAIN runners' = DOMAIN runners
    BY <2>1
  <2>3. ASSUME NEW q \in DOMAIN runners PROVE RouterOK(runners'[q])
    <3>1. RouterOK(runners[q])
      BY <1>0 DEF RoutersOK
    <3>2. CASE q = r
      <4>1. runners'[q] = [runners[q] EXCEPT !.document = document]
        BY <2>1, <3>2
      <4>2. document # Undefined => PathsOK(document)
        BY DEF WellRouted
      <4> QED
        BY <3>1, <4>1, <4>2 DEF RouterOK
    <3>3. CASE q # r
      BY <2>1, <3>1, <3>3
    <3> QED
      BY <3>2, <3>3
  <2> QED
    BY <1>0, <1>1, <2>1, <2>2, <2>3 DEF RoutersOK, IsList
<1>11. ASSUME NEW setting \in ProxySettings, SetProxy(setting[1], setting[2])
       PROVE  RoutersOK' /\ RequestOK'
  BY <1>1, <1>2, <1>11 DEF SetProxy, Change
<1>12. ASSUME NEW url \in ProxyUrls, SetProxyUrl(url)
       PROVE  RoutersOK' /\ RequestOK'
  BY <1>1, <1>2, <1>12 DEF SetProxyUrl, Change
<1> QED
  BY <1>6, <1>7, <1>8, <1>9, <1>10, <1>11, <1>12 DEF Others

\* What a builder sets in a path is what its inputs have.
LEMMA BuilderKeeps ==
  ASSUME WellRouted, RoutingInv, ClientNext
  PROVE  BuilderOK'
<1>0. BuilderOK
  BY DEF RoutingInv
<1>1. ASSUME UNCHANGED builder PROVE BuilderOK'
  BY <1>0, <1>1 DEF BuilderOK
<1>2. ASSUME NEW b, NEW document, {"routePath", "path"} \subseteq DOMAIN b
      PROVE  /\ DOMAIN Resolved(b, document) = DOMAIN b
             /\ Resolved(b, document).routePath = b.routePath
             /\ Resolved(b, document).path = b.path
  BY <1>2 DEF Resolved
<1>3. ASSUME NEW catalog \in Catalogs, MakeRoute(catalog[1], catalog[2])
      PROVE  BuilderOK'
  <2> DEFINE b == NewBuilder(catalog[1], catalog[2])
  <2>1. /\ {"routePath", "path"} \subseteq DOMAIN b /\ b.routePath = catalog[2] /\ b.path = <<>>
    BY DEF NewBuilder
  <2>2. builder' = Resolved(b, DocumentOf(b))
    BY <1>3 DEF MakeRoute, Becomes
  <2>3. PlainUrl(catalog[2]) /\ SentOK(<<>>)
    BY DEF WellRouted, SentOK
  <2> HIDE DEF b
  <2> QED
    BY <1>2, <2>1, <2>2, <2>3 DEF BuilderOK
<1>4. ASSUME NEW method \in Spellings, SetMethod(method)
      PROVE  BuilderOK'
  <2> DEFINE b == WithMethod(builder, method)
  <2>1. /\ {"routePath", "path"} \subseteq DOMAIN builder
        /\ PlainUrl(builder.routePath) /\ SentOK(builder.path)
    BY <1>0, <1>4 DEF SetMethod, BuilderOK
  <2>2. /\ {"routePath", "path"} \subseteq DOMAIN b
        /\ b.routePath = builder.routePath /\ b.path = builder.path
    BY <2>1 DEF WithMethod
  <2>3. builder' = Resolved(b, DocumentOf(b))
    BY <1>4 DEF SetMethod, Becomes
  <2> HIDE DEF b
  <2> QED
    BY <1>2, <2>1, <2>2, <2>3 DEF BuilderOK
<1>5. ASSUME NEW pair \in Catalogs, NEW input \in Inputs[pair], Add(input)
      PROVE  BuilderOK'
  <2> DEFINE b == With(builder, input)
  <2>1. /\ {"routePath", "path"} \subseteq DOMAIN builder
        /\ PlainUrl(builder.routePath) /\ SentOK(builder.path)
    BY <1>0, <1>5 DEF Add, BuilderOK
  <2>2. /\ {"routePath", "path"} \subseteq DOMAIN b
        /\ b.routePath = builder.routePath /\ SentOK(b.path)
    <3> DEFINE new == input.values
               Added(old) == [name \in DOMAIN new \cup DOMAIN old |->
                                IF name \in DOMAIN new THEN new[name] ELSE old[name]]
               added == Added(builder.path)
    <3>1. CASE input.of = "path"
      <4>1. b = [builder EXCEPT !.path = added]
        BY <3>1 DEF With
      <4>2. SentOK(new)
        BY <3>1 DEF WellRouted
      <4>3. SentOK(added)
        <5> SUFFICES ASSUME NEW name \in DOMAIN added
                     PROVE  added[name] \in Texts /\ ~ IsWildcard(added[name])
          BY DEF SentOK
        <5>1. CASE name \in DOMAIN new
          BY <4>2, <5>1 DEF SentOK
        <5>2. CASE name \in DOMAIN builder.path /\ name \notin DOMAIN new
          BY <2>1, <5>2 DEF SentOK
        <5> QED
          BY <5>1, <5>2
      <4> HIDE DEF added, b
      <4> QED
        BY <2>1, <4>1, <4>3
    <3>2. CASE input.of # "path"
      <4>1. PICK field \in {"query", "headers", "cookies", "entity"} :
              \E value : b = [builder EXCEPT ![field] = value]
        <5>1. input.of \in {"query", "headers", "cookies", "form", "body"}
          BY <3>2 DEF WellRouted
        <5> QED
          BY <3>2, <5>1 DEF With
      <4>2. PICK value : b = [builder EXCEPT ![field] = value]
        BY <4>1
      <4> HIDE DEF b
      <4> QED
        BY <2>1, <4>2
    <3> QED
      BY <3>1, <3>2
  <2>3. builder' = Resolved(b, DocumentOf(b))
    BY <1>5 DEF Add, Becomes
  <2> HIDE DEF b
  <2> QED
    BY <1>2, <2>1, <2>2, <2>3 DEF BuilderOK
<1>6. ASSUME Send PROVE BuilderOK'
  BY <1>6 DEF Send, BuilderOK
<1> QED
  BY <1>1, <1>3, <1>4, <1>5, <1>6 DEF ClientNext

\* Every step of the server and of the builder keeps it.
LEMMA RoutingNext ==
  ASSUME WellRouted, RoutingInv, [ClientNext]_clientVars
  PROVE  RoutingInv'
<1>1. ASSUME UNCHANGED vars
      PROVE  RoutersOK' /\ RequestOK'
  BY <1>1 DEF vars, RoutingInv, RoutersOK, RequestOK, IsList
<1>2. ASSUME Arrivals
      PROVE  RoutersOK' /\ RequestOK'
  BY <1>2, ArrivalRoutes DEF Arrivals, WellRouted
<1>3. ASSUME Send
      PROVE  RoutersOK' /\ RequestOK'
  <2>1. /\ {"routePath", "path"} \subseteq DOMAIN builder
        /\ PlainUrl(builder.routePath) /\ SentOK(builder.path)
    BY <1>3 DEF Send, RoutingInv, BuilderOK
  <2>2. PlainUrl(RequestOf(builder).url)
    BY <2>1, SentUrl
  <2> QED
    BY <1>3, <2>2, ArrivalRoutes DEF Send
<1>4. ASSUME NEW b, Becomes(b)
      PROVE  UNCHANGED vars
  BY <1>4 DEF Becomes
<1>5. ASSUME \/ \E catalog \in Catalogs : MakeRoute(catalog[1], catalog[2])
             \/ \E method \in Spellings : SetMethod(method)
             \/ \E pair \in Catalogs : \E input \in Inputs[pair] : Add(input)
      PROVE  UNCHANGED vars
  BY <1>4, <1>5 DEF MakeRoute, SetMethod, Add
<1>6. CASE ClientNext
  <2>1. BuilderOK'
    BY <1>6, BuilderKeeps
  <2>2. RoutersOK' /\ RequestOK'
    BY <1>1, <1>2, <1>3, <1>5, <1>6, OthersRoute DEF ClientNext
  <2> QED
    BY <2>1, <2>2 DEF RoutingInv
<1>7. CASE UNCHANGED clientVars
  BY <1>1, <1>7 DEF clientVars, RoutingInv, BuilderOK
<1> QED
  BY <1>6, <1>7

\* What is left of a plain URL is plain.
LEMMA RestIsPlain ==
  ASSUME NEW url, PlainUrl(url), NEW k \in Nat, k <= Len(url)
  PROVE  PlainUrl(SubSeq(url, k + 1, Len(url)))
<1> DEFINE rest == SubSeq(url, k + 1, Len(url))
<1>1. url \in Seq(Texts) /\ Len(url) \in Nat
  BY DEF PlainUrl
<1>2. /\ rest \in Seq(Texts) /\ Len(rest) = Len(url) - k
      /\ \A n \in 1 .. Len(url) - k : rest[n] = url[n + k]
  BY <1>1
<1> HIDE DEF rest
<1>3. \A n \in 1 .. Len(rest) - 1 : rest[n] = url[n + k] /\ n + k \in 1 .. Len(url) - 1
  BY <1>1, <1>2
<1> QED
  BY <1>2, <1>3 DEF PlainUrl, rest

\* So is what the prefix and the base path of a runner leave of it.
LEMMA PathIsPlain ==
  ASSUME SpellingOK, NEW runner, RouterOK(runner), NEW url, PlainUrl(url),
         PathWithinPrefix(url, runner.prefix) # Undefined
  PROVE  PlainUrl(WithoutBasePath(runner, PathWithinPrefix(url, runner.prefix)))
<1> DEFINE configured == runner.prefix
           within == PathWithinPrefix(url, configured)
           filled == {0} \cup {i \in DOMAIN configured : configured[i] # NoSegment}
           prefix == SubSeq(configured, 1, Max(filled))
<1>1. configured \in Seq(Texts) /\ url \in Seq(Texts)
  BY DEF RouterOK, PlainUrl
<1> HIDE DEF configured
<1>2. Max(filled) \in 0 .. Len(configured)
  <2>1. Len(configured) \in Nat /\ filled \subseteq 0 .. Len(configured) /\ filled # {}
    BY <1>1
  <2> HIDE DEF filled
  <2>2. Max(filled) \in filled
    BY <2>1, MaxOf
  <2> QED
    BY <2>1, <2>2
<1>3. prefix \in Seq(Texts) /\ Len(prefix) \in Nat
  <2> HIDE DEF filled
  <2> QED
    BY <1>1, <1>2
<1>4. PlainUrl(within)
  <2>1. within = CASE prefix = <<>> -> url
                   [] prefix # <<>> /\ url = prefix -> <<NoSegment>>
                   [] prefix # <<>> /\ url # prefix /\ IsPrefix(prefix, url) ->
                        SubSeq(url, Len(prefix) + 1, Len(url))
                   [] OTHER -> Undefined
    BY DEF PathWithinPrefix
  <2>2. within # Undefined
    BY DEF configured
  <2> HIDE DEF within, prefix
  <2>3. PlainUrl(<<NoSegment>>)
    BY DEF PlainUrl, SpellingOK
  <2>4. CASE prefix # <<>> /\ url # prefix /\ IsPrefix(prefix, url)
    <3>1. Len(prefix) <= Len(url)
      BY <2>4 DEF IsPrefix
    <3>2. PlainUrl(SubSeq(url, Len(prefix) + 1, Len(url)))
      BY <1>3, <3>1, RestIsPlain
    <3> QED
      BY <2>1, <2>4, <3>2
  <2> QED
    BY <2>1, <2>2, <2>3, <2>4
<1> HIDE DEF within, prefix
<1> DEFINE base == IF runner.document = Undefined THEN <<>> ELSE KeyOf(runner.document.basePath)
<1>5. Len(base) \in Nat
  <2>1. runner.document # Undefined => runner.document.basePath \in Seq(Texts)
    BY DEF RouterOK, PathsOK
  <2>2. runner.document # Undefined => KeyOf(runner.document.basePath) \in Seq(Texts)
    BY <2>1, KeyOfPath DEF IsKey
  <2> QED
    BY <2>2
<1>6. \/ WithoutBasePath(runner, within) = within
      \/ /\ Len(base) <= Len(within)
         /\ WithoutBasePath(runner, within) = SubSeq(within, Len(base) + 1, Len(within))
  BY DEF WithoutBasePath
<1> HIDE DEF base
<1>7. PlainUrl(WithoutBasePath(runner, within))
  BY <1>4, <1>5, <1>6, RestIsPlain
<1> QED
  BY <1>7 DEF within, configured

\* The two ways to a handler, by URL and by pattern, agree in every tree.
LEMMA PatternsAgree == ASSUME WellRouted, RoutingInv PROVE PatternAgrees
<1> DEFINE request == exchange.request
<1> SUFFICES ASSUME exchange.stage # "idle", NEW r \in DOMAIN runners,
                    PathWithinPrefix(request.url, runners[r].prefix) # Undefined
             PROVE  LET registry == runners[r].registry
                        url == PathAt(r, request)
                        found == Handler(registry, request.method, url)
                        again == HandlerForPattern(registry, url, found.matchedPath)
                    IN found.matchedPath # <<>> =>
                         /\ again.module = found.module
                         /\ again.pathVariables = RestrictDomain(found.pathVariables, IsBraced)
  BY DEF PatternAgrees
<1>1. PlainUrl(request.url) /\ RouterOK(runners[r]) /\ SpellingOK
  BY DEF RoutingInv, RequestOK, RoutersOK, WellRouted
<1>2. TreeOK(runners[r].registry.tree)
  BY <1>1 DEF RouterOK, RegistryOK
<1>3. PlainUrl(PathAt(r, request))
  BY <1>1, PathIsPlain DEF PathAt
<1> DEFINE url == PathAt(r, request)
           method == request.method
<1> HIDE DEF url, method
<1>4. LET found == Match(runners[r].registry.tree, url, method)
          again == MatchPattern(runners[r].registry.tree, url, found.matchedPath)
      IN found.matchedPath # <<>> =>
           /\ again.module = found.module
           /\ again.pathVariables = RestrictDomain(found.pathVariables, IsBraced)
  BY <1>1, <1>2, <1>3, TwoWays DEF url
<1> QED
  BY <1>4 DEF Handler, HandlerForPattern, url, method

(***************************************************************************)
(* The handler of a request is looked up twice: by its URL, and later by   *)
(* the pattern that the first lookup returned                              *)
(* (Registry.handlerForPattern()). For any trees of files, whatever is     *)
(* loaded or dropped, both find the same module, and the second binds the  *)
(* path variables of the first that are in braces, and no other one: what  *)
(* only begins with a brace, as {name}.json does, is wild for the one and  *)
(* literal for the other.                                                  *)
(***************************************************************************)
THEOREM PatternsLeadBack ==
  ASSUME WellRouted PROVE ClientSpec => []PatternAgrees
<1>1. ClientInit => RoutingInv
  BY RoutingInit
<1>2. RoutingInv /\ [ClientNext]_clientVars => RoutingInv'
  BY RoutingNext
<1>3. RoutingInv => PatternAgrees
  BY PatternsAgree
<1> QED
  BY <1>1, <1>2, <1>3, PTL DEF ClientSpec

\* A contract is refreshed, and nothing else.
LEMMA RefreshedRunner ==
  ASSUME NEW runner, RouterOK(runner)
  PROVE  LET fresh == Refreshed(runner)
         IN /\ fresh.prefix = runner.prefix /\ fresh.version = runner.version
            /\ fresh.document = runner.document /\ fresh.registry = runner.registry
            /\ IsVersioned(fresh) <=> IsVersioned(runner)
            /\ \A path : WithoutBasePath(fresh, path) = WithoutBasePath(runner, path)
            /\ IsVersioned(runner) => fresh.contract = runner.document.paths
<1> DEFINE fresh == Refreshed(runner)
<1>1. /\ fresh.prefix = runner.prefix /\ fresh.version = runner.version
      /\ fresh.document = runner.document /\ fresh.registry = runner.registry
      /\ IsVersioned(runner) => fresh.contract = runner.document.paths
  <2>1. CASE IsVersioned(runner) /\ runner.contract # runner.document.paths
    <3>1. fresh = [runner EXCEPT !.contract = runner.document.paths]
      BY <2>1 DEF Refreshed
    <3> HIDE DEF fresh
    <3> QED
      BY <3>1 DEF RouterOK
  <2>2. CASE ~ (IsVersioned(runner) /\ runner.contract # runner.document.paths)
    BY <2>2 DEF Refreshed
  <2> QED
    BY <2>1, <2>2
<1> HIDE DEF fresh
<1>2. IsVersioned(fresh) <=> IsVersioned(runner)
  BY <1>1 DEF IsVersioned
<1>3. \A path : WithoutBasePath(fresh, path) = WithoutBasePath(runner, path)
  BY <1>1 DEF WithoutBasePath
<1> QED
  BY <1>1, <1>2, <1>3 DEF fresh

\* What a handler is found by.
FoundBy(registry, method, url, pattern) ==
  IF pattern = <<>> THEN Handler(registry, method, url)
  ELSE HandlerForPattern(registry, url, pattern)

\* What an endpoint is made of.
LEMMA EndpointOf ==
  ASSUME NEW registry, NEW method, NEW url, NEW pattern
  PROVE  LET endpoint == Endpoint(registry, method, url, pattern)
             found == FoundBy(registry, method, url, pattern)
         IN /\ endpoint.matchedPath = found.matchedPath
            /\ endpoint.path = [name \in DOMAIN found.pathVariables |->
                                  Text(found.pathVariables[name])]
            /\ endpoint.is = "handler" => MethodFromModule(found.module, method)
<1> DEFINE found == FoundBy(registry, method, url, pattern)
           is == CASE found.ambiguous -> "ambiguous"
                   [] ~ found.ambiguous /\ ~ MethodFromModule(found.module, method) -> "missing"
                   [] OTHER -> "handler"
<1>1. Endpoint(registry, method, url, pattern) =
        [is |-> is, matchedPath |-> found.matchedPath,
         path |-> [name \in DOMAIN found.pathVariables |-> Text(found.pathVariables[name])],
         chain |-> MiddlewareChain(registry, found.matchedPath)]
  BY DEF Endpoint, FoundBy
<1>2. is = "handler" => MethodFromModule(found.module, method)
  <2> HIDE DEF found
  <2> QED
    OBVIOUS
<1> HIDE DEF found, is
<1> QED
  BY <1>1, <1>2 DEF found

\* A call of a handler: what it was found by, what it is given, and that a
\* contract declares it.
CalledAs(call, runner, path, method) ==
  LET pattern == IF IsVersioned(runner) THEN SelectedContractPath(runner, path) ELSE <<>>
      endpoint == Endpoint(runner.registry, method, path, pattern)
  IN /\ {"is", "matchedPath", "arguments"} \subseteq DOMAIN call
     /\ endpoint.is = "handler" /\ call.matchedPath = endpoint.matchedPath
     /\ \E types : call.arguments.path = CastParameters(endpoint.path, types)
     /\ IsVersioned(runner) =>
          OperationForPathAndMethod(runner.document, pattern, method) # Undefined

\* A call of a handler is made by Call().
LEMMA CalledHandler ==
  ASSUME NEW runner, NEW url, NEW request, "method" \in DOMAIN request,
         Call(runner, url, request).is = "handler"
  PROVE  CalledAs(Call(runner, url, request), runner, WithoutBasePath(runner, url), request.method)
<1> DEFINE path == WithoutBasePath(runner, url)
           matched == IF IsVersioned(runner) THEN SelectedContractPath(runner, path)
                      ELSE Handler(runner.registry, request.method, path).matchedPath
           pattern == IF IsVersioned(runner) THEN matched ELSE <<>>
           operation == OperationForPathAndMethod(runner.document, matched, request.method)
           decoded == WithDecodedBody(operation, request)
           endpoint == Endpoint(runner.registry, decoded.method, path, pattern)
           call == Call(runner, url, request)
<1>1. call = Admitted(runner, path, matched, operation, request)
  BY DEF Call
<1>2. decoded.method = request.method
  <2> HIDE DEF operation
  <2>1. decoded = request \/ \E body : decoded = [request EXCEPT !.body = body]
    BY DEF WithDecodedBody
  <2> HIDE DEF decoded
  <2> QED
    BY <2>1
<1>3. pattern = IF IsVersioned(runner) THEN SelectedContractPath(runner, path) ELSE <<>>
  OBVIOUS
<1>3a. call.is = "handler"
  OBVIOUS
<1> HIDE DEF path, matched, operation, pattern, call
<1>4. \A status, allow : Answer(status, allow).is # "handler"
  BY DEF Answer
<1>5. /\ call = Validated(runner, path, matched, operation, decoded)
      /\ IsVersioned(runner) => operation # Undefined
  BY <1>1, <1>3a, <1>4 DEF Admitted
<1>6. call = Met(runner, matched, operation, decoded, endpoint)
  BY <1>3a, <1>4, <1>5 DEF Validated, pattern
<1> HIDE DEF decoded
<1>7. /\ call.is = endpoint.is /\ call.matchedPath = endpoint.matchedPath
      /\ {"is", "matchedPath", "arguments"} \subseteq DOMAIN call
      /\ call.arguments = Arguments(runner, operation, decoded, endpoint)
  <2> HIDE DEF endpoint
  <2> QED
    BY <1>6 DEF Met
<1>8. \E types : call.arguments.path = CastParameters(endpoint.path, types)
  <2> HIDE DEF endpoint
  <2>1. call.arguments.path =
          CastParameters(endpoint.path, ParameterTypes(IF operation = Undefined THEN <<>>
                                                       ELSE operation.parameters, "path"))
    BY <1>7 DEF Arguments
  <2> QED
    BY <2>1
<1>9. endpoint = Endpoint(runner.registry, request.method, path, pattern)
  BY <1>2
<1>10. IsVersioned(runner) => pattern = matched
  BY DEF pattern
<1> HIDE DEF endpoint
<1> QED
  BY <1>3, <1>3a, <1>5, <1>7, <1>8, <1>9, <1>10 DEF CalledAs, call, path, operation

\* An operation that is found is declared at the path, under the method's name.
LEMMA DeclaredOperation ==
  ASSUME NEW document, document # Undefined, PathsOK(document), NEW path, NEW method,
         OperationForPathAndMethod(document, path, method) # Undefined
  PROVE  \E n \in 1 .. Len(document.paths) :
           /\ KeyOf(document.paths[n].path) = KeyOf(path)
           /\ {method, LowerCase[method]} \cap DOMAIN document.paths[n].operations # {}
<1> DEFINE item == FindPathItem(document, path)
           same == {i \in DOMAIN document.paths : KeyOf(document.paths[i].path) = KeyOf(path)}
           names == {LowerCase[method], method} \cap DOMAIN item.operations
<1>1. item # Undefined /\ names # {}
  BY DEF OperationForPathAndMethod
<1>2. same # {} /\ item = document.paths[Min(same)]
  BY <1>1 DEF FindPathItem
<1>3. Min(same) \in same
  <2>1. same \subseteq Nat
    BY DEF PathsOK
  <2> HIDE DEF same
  <2> QED
    BY <1>2, <2>1, MinOf
<1>4. Min(same) \in 1 .. Len(document.paths) /\ KeyOf(document.paths[Min(same)].path) = KeyOf(path)
  BY <1>3 DEF PathsOK
<1> HIDE DEF same, item
<1> QED
  BY <1>1, <1>2, <1>4

\* A call says what it is.
LEMMA CallIs ==
  ASSUME NEW runner, NEW url, NEW request
  PROVE  "is" \in DOMAIN Call(runner, url, request)
<1>1. \A status, allow : "is" \in DOMAIN Answer(status, allow)
  BY DEF Answer
<1>2. \A path, matched, operation, decoded, endpoint :
        "is" \in DOMAIN Met(runner, matched, operation, decoded, endpoint)
  BY DEF Met
<1>3. \A path, matched, operation, decoded :
        "is" \in DOMAIN Validated(runner, path, matched, operation, decoded)
  BY <1>1, <1>2 DEF Validated
<1>4. \A path, matched, operation :
       "is" \in DOMAIN Admitted(runner, path, matched, operation, request)
  BY <1>1, <1>3 DEF Admitted
<1> QED
  BY <1>4 DEF Call

\* Routed() calls a handler as Call() does.
LEMMA RoutedCall ==
  ASSUME NEW runner, NEW path, NEW request, "method" \in DOMAIN request, NEW override,
         Routed(runner, path, request, override).is = "handler"
  PROVE  CalledAs(Routed(runner, path, request, override), runner, WithoutBasePath(runner, path),
                  request.method)
<1> DEFINE call == Call(runner, path, request)
           routed == Routed(runner, path, request, override)
           allowed == IF override = Undefined THEN AllowedMethodsForPath(runner, path) ELSE override
           Preflight == [Answer("200", {}) EXCEPT !.contentType = Undefined, !.body = Undefined]
           given == IF /\ call.is = "answer" /\ call.status = "405"
                       /\ override # Undefined /\ ~ IsVersioned(runner)
                    THEN [call EXCEPT !.allow = override] ELSE call
<1>1. routed.is = "handler"
  OBVIOUS
<1>2. ~ IsProxied(path)
  BY <1>1 DEF Routed
<1>3. routed = AddCors(IF request.method = "OPTIONS" THEN Preflight ELSE given, allowed)
  BY <1>2 DEF Routed
<1>4. ASSUME NEW does, NEW methods
      PROVE  /\ "is" \in DOMAIN does => AddCors(does, methods).is = does.is
             /\ "matchedPath" \in DOMAIN does
                  => AddCors(does, methods).matchedPath = does.matchedPath
             /\ "arguments" \in DOMAIN does => AddCors(does, methods).arguments = does.arguments
             /\ DOMAIN does \subseteq DOMAIN AddCors(does, methods)
  BY DEF AddCors
<1>5. "is" \in DOMAIN Preflight /\ Preflight.is # "handler"
  BY DEF Answer
<1> HIDE DEF Preflight, allowed, routed
<1>6. request.method # "OPTIONS" /\ routed = AddCors(given, allowed)
  BY <1>1, <1>3, <1>4, <1>5
<1>7. "is" \in DOMAIN call
  BY CallIs
<1>8. call.is = "handler" /\ given = call
  <2> HIDE DEF call
  <2>1. "is" \in DOMAIN given /\ given.is = call.is
    BY <1>7
  <2> HIDE DEF given
  <2>2. call.is = "handler"
    BY <1>1, <1>4, <1>6, <2>1
  <2> QED
    BY <2>2 DEF given
<1>9. CalledAs(call, runner, WithoutBasePath(runner, path), request.method)
  BY <1>8, CalledHandler
<1> HIDE DEF call, given
<1>10. /\ routed.matchedPath = call.matchedPath /\ routed.arguments = call.arguments
       /\ {"is", "matchedPath", "arguments"} \subseteq DOMAIN routed
  BY <1>4, <1>6, <1>8, <1>9 DEF CalledAs
<1> QED
  BY <1>9, <1>10 DEF CalledAs, routed

\* So does the first of the candidates that takes a request.
LEMMA GivenCall ==
  ASSUME IsList(runners), NEW request, "method" \in DOMAIN request, NEW state,
         Given(Select(request, state), request, state).does.is = "handler"
  PROVE  LET given == Given(Select(request, state), request, state)
             r == given.runner
         IN /\ r \in Candidates(request)
            /\ CalledAs(given.does, state[r],
                        WithoutBasePath(state[r], PathWithinPrefix(request.url, state[r].prefix)),
                        request.method)
<1> DEFINE choice == Select(request, state)
           given == Given(choice, request, state)
<1>1. NextMiddleware.is # "handler"
  BY DEF NextMiddleware, AddCors, Answer
<1>2. choice # <<>>
  <2> SUFFICES ASSUME choice = <<>> PROVE FALSE
    OBVIOUS
  <2>1. given.does = NextMiddleware
    BY DEF Given
  <2> QED
    BY <1>1, <2>1
<1>3. PICK r \in Candidates(request) : \E methods : choice = <<r, methods>>
  BY <1>2, Chosen
<1>4. PICK methods : choice = <<r, methods>>
  BY <1>3
<1>4a. given.does.is = "handler"
  OBVIOUS
<1> DEFINE path == PathWithinPrefix(request.url, state[r].prefix)
           runner == state[r]
<1> HIDE DEF choice
<1>5. given.runner = r /\ given.does = Routed(runner, path, request, methods)
  BY <1>2, <1>4 DEF Given
<1> HIDE DEF given, path, runner
<1>6. CalledAs(given.does, runner, WithoutBasePath(runner, path), request.method)
  BY <1>4a, <1>5, RoutedCall
<1> QED
  BY <1>5, <1>6 DEF given, choice, path, runner

\* The pattern that a runner selects from its present document.
LEMMA SelectedPattern ==
  ASSUME SpellingOK, NoSegment \notin FileNames, NEW runner, RouterOK(runner), IsVersioned(runner),
         NEW path, PlainUrl(path), NEW method,
         OperationForPathAndMethod(runner.document,
                                     SelectedContractPath(Refreshed(runner), path), method)
           # Undefined
  PROVE  LET pattern == SelectedContractPath(Refreshed(runner), path)
             paths == runner.document.paths
         IN /\ pattern \in Seq(Texts) /\ pattern # <<>> /\ FitsUrl(pattern, path)
            /\ \A n \in 1 .. Len(pattern) : IsWildcard(pattern[n]) => pattern[n] \in Variables
            /\ FitsUrl(KeyOf(pattern), path)
            /\ \E n \in 1 .. Len(paths) :
                 /\ KeyOf(paths[n].path) = KeyOf(pattern)
                 /\ {method, LowerCase[method]} \cap DOMAIN paths[n].operations # {}
            /\ \A n \in 1 .. Len(paths) :
                 FitsUrl(KeyOf(paths[n].path), path)
                   => ~ Preferred(KeyOf(paths[n].path), KeyOf(pattern))
<1> DEFINE pattern == SelectedContractPath(Refreshed(runner), path)
           paths == runner.document.paths
<1>1. runner.document # Undefined /\ PathsOK(runner.document)
  BY DEF IsVersioned, RouterOK
<1>2. pattern = Match(ContractTree(paths), path, ContractMethod).matchedPath
  BY RefreshedRunner DEF SelectedContractPath
<1>2a. OperationForPathAndMethod(runner.document, pattern, method) # Undefined
  OBVIOUS
<1> HIDE DEF pattern
<1>3. \E n \in 1 .. Len(paths) : /\ KeyOf(paths[n].path) = KeyOf(pattern)
                                 /\ {method, LowerCase[method]} \cap DOMAIN paths[n].operations # {}
  BY <1>1, <1>2a, DeclaredOperation
<1>4. Len(paths) \in Nat /\ \A n \in 1 .. Len(paths) : PathOK(paths[n].path)
  BY <1>1 DEF PathsOK
<1> HIDE DEF paths
<1>5. pattern # <<>>
  <2> SUFFICES ASSUME pattern = <<>> PROVE FALSE
    OBVIOUS
  <2>1. PICK n \in 1 .. Len(paths) : KeyOf(paths[n].path) = KeyOf(pattern)
    BY <1>3
  <2> DEFINE p == paths[n].path
  <2>2. p \in Seq(Texts) /\ p # <<>>
    BY <1>4 DEF PathOK
  <2> HIDE DEF p
  <2>3. Len(KeyOf(p)) = Len(p)
    BY <2>2, KeyOfPath
  <2>4. pattern \in Seq(Texts) /\ Len(pattern) = 0
    OBVIOUS
  <2>5. Len(KeyOf(pattern)) = Len(pattern)
    BY <2>4, KeyOfPath
  <2> QED
    BY <2>1, <2>2, <2>3, <2>4, <2>5 DEF p
<1>6. /\ pattern \in Seq(Texts) /\ FitsUrl(pattern, path)
      /\ \A n \in 1 .. Len(pattern) : IsWildcard(pattern[n]) => pattern[n] \in Variables
      /\ FitsUrl(KeyOf(pattern), path)
      /\ \A n \in 1 .. Len(paths) :
           FitsUrl(KeyOf(paths[n].path), path) => ~ Preferred(KeyOf(paths[n].path), KeyOf(pattern))
  BY <1>2, <1>4, <1>5, ContractBest
<1> QED
  BY <1>3, <1>5, <1>6 DEF pattern, paths

\* The variables that a handler is given are those it was found with.
LEMMA GivenVariables ==
  ASSUME NEW found, NEW call, NEW types,
         call.arguments.path =
           CastParameters([name \in DOMAIN found.pathVariables |->
                             Text(found.pathVariables[name])], types)
  PROVE  \A name \in DOMAIN found.pathVariables :
           call.arguments.path[name].of = found.pathVariables[name]
BY CastText

\* Who calls a handler when a request arrives, and how.
LEMMA HandlerCalled ==
  ASSUME RoutersOK, NEW request, "method" \in DOMAIN request, Arrive(request), Called
  PROVE  LET r == exchange'.runner
         IN /\ r \in DOMAIN runners /\ exchange'.request = request
            /\ PathWithinPrefix(request.url, runners[r].prefix) # Undefined
            /\ CalledAs(exchange'.call, Refreshed(runners[r]), PathAt(r, request), request.method)
<1> DEFINE state == [r \in DOMAIN runners |->
                      IF r \in Candidates(request) THEN Refreshed(runners[r]) ELSE runners[r]]
           given == Given(Select(request, state), request, state)
           r == given.runner
<1>1. exchange' = Exchange(request, given)
  BY DEF Arrive
<1>2. exchange'.stage = "handling"
  BY DEF Called
<1>3. /\ exchange'.runner = given.runner /\ exchange'.request = request
      /\ exchange'.call = given.does
      /\ given.does.is = "handler"
  <2> HIDE DEF given
  <2> QED
    BY <1>1, <1>2 DEF Exchange
<1>4. /\ r \in Candidates(request)
      /\ CalledAs(given.does, state[r],
                  WithoutBasePath(state[r], PathWithinPrefix(request.url, state[r].prefix)),
                    request.method)
  <2> HIDE DEF state
  <2> QED
    BY <1>3, GivenCall DEF RoutersOK
<1> HIDE DEF given, r
<1>5. r \in DOMAIN runners /\ PathWithinPrefix(request.url, runners[r].prefix) # Undefined
  BY <1>4 DEF Candidates
<1>6. state[r] = Refreshed(runners[r])
  BY <1>4, <1>5
<1>7. RouterOK(runners[r])
  BY <1>5 DEF RoutersOK
<1> HIDE DEF state
<1>8. /\ state[r].prefix = runners[r].prefix
      /\ \A path : WithoutBasePath(state[r], path) = WithoutBasePath(runners[r], path)
  BY <1>6, <1>7, RefreshedRunner
<1>9. WithoutBasePath(state[r], PathWithinPrefix(request.url, state[r].prefix)) = PathAt(r, request)
  BY <1>8 DEF PathAt
<1> QED
  BY <1>3, <1>4, <1>5, <1>6, <1>9 DEF r

\* What a handler that is called was found by, in a runner as it is.
LEMMA CalledInPlace ==
  ASSUME SpellingOK, NoSegment \notin FileNames, NEW runner, RouterOK(runner),
         NEW path, PlainUrl(path), NEW method, NEW call,
         CalledAs(call, Refreshed(runner), path, method)
  PROVE  LET tree == runner.registry.tree
         IN /\ \E route \in Routes(tree) :
                 /\ KeyOf(route.path) = KeyOf(call.matchedPath)
                 /\ FitsUrl(route.path, path) /\ MethodFromModule(route.module, method)
                 /\ IsVersioned(runner) \/ Reachable(tree, route, path, method)
                 /\ \A i \in DOMAIN route.path : BoundBy(runner, route.path[i]) =>
                      call.arguments.path[route.path[i]].of = path[i]
            /\ IsVersioned(runner) =>
                 /\ call.matchedPath = SelectedContractPath(Refreshed(runner), path)
                 /\ OperationForPathAndMethod(runner.document, call.matchedPath, method) # Undefined
<1> DEFINE fresh == Refreshed(runner)
           tree == runner.registry.tree
           versioned == IsVersioned(runner)
           pattern == IF versioned THEN SelectedContractPath(fresh, path) ELSE <<>>
           endpoint == Endpoint(runner.registry, method, path, pattern)
           found == FoundBy(runner.registry, method, path, pattern)
<1>1. /\ fresh.document = runner.document /\ fresh.registry = runner.registry
      /\ IsVersioned(fresh) <=> versioned
  BY RefreshedRunner
<1>2. /\ endpoint.is = "handler" /\ call.matchedPath = endpoint.matchedPath
      /\ \E types : call.arguments.path = CastParameters(endpoint.path, types)
      /\ versioned => OperationForPathAndMethod(runner.document, pattern, method) # Undefined
  <2> HIDE DEF fresh, versioned
  <2> QED
    BY <1>1 DEF CalledAs, fresh
<1>3. /\ endpoint.matchedPath = found.matchedPath
      /\ endpoint.path = [name \in DOMAIN found.pathVariables |-> Text(found.pathVariables[name])]
      /\ endpoint.is = "handler" => MethodFromModule(found.module, method)
  BY EndpointOf
<1> HIDE DEF endpoint, found
<1>4. \A name \in DOMAIN found.pathVariables :
       call.arguments.path[name].of = found.pathVariables[name]
  <2>1. PICK types : call.arguments.path =
          CastParameters([name \in DOMAIN found.pathVariables |->
                            Text(found.pathVariables[name])], types)
    BY <1>2, <1>3
  <2> QED
    BY <2>1, GivenVariables
<1>5. TreeOK(tree)
  BY DEF RouterOK, RegistryOK
<1>6. call.matchedPath = found.matchedPath /\ MethodFromModule(found.module, method)
  BY <1>2, <1>3
<1> DEFINE Serves(route) ==
             /\ KeyOf(route.path) = KeyOf(found.matchedPath)
             /\ FitsUrl(route.path, path) /\ MethodFromModule(route.module, method)
             /\ versioned \/ Reachable(tree, route, path, method)
             /\ \A i \in DOMAIN route.path : BoundBy(runner, route.path[i]) =>
                  /\ route.path[i] \in DOMAIN found.pathVariables
                  /\ found.pathVariables[route.path[i]] = path[i]
<1>7. CASE ~ versioned
  <2>1. found = Match(tree, path, method)
    BY <1>7 DEF found, FoundBy, Handler
  <2>2. PICK route \in Routes(tree) :
          /\ KeyOf(route.path) = KeyOf(found.matchedPath)
          /\ Reachable(tree, route, path, method)
          /\ \A i \in DOMAIN route.path : IsWildcard(route.path[i]) =>
               /\ route.path[i] \in DOMAIN found.pathVariables
               /\ found.pathVariables[route.path[i]] = path[i]
    BY <1>5, <1>6, <2>1, FoundServes
  <2>3. FitsUrl(route.path, path) /\ MethodFromModule(route.module, method)
    BY <2>2 DEF Reachable, FitsUrl
  <2>4. Serves(route)
    BY <1>7, <2>2, <2>3 DEF BoundBy
  <2> HIDE DEF Serves
  <2>5. \E s \in Routes(tree) : Serves(s)
    BY <2>4
  <2> HIDE DEF versioned
  <2> QED
    BY <1>4, <1>6, <1>7, <2>5 DEF Serves, versioned
<1>8. CASE versioned
  <2> DEFINE selected == SelectedContractPath(fresh, path)
  <2>1. OperationForPathAndMethod(runner.document, selected, method) # Undefined
    BY <1>2, <1>8
  <2>2. /\ selected \in Seq(Texts) /\ selected # <<>> /\ FitsUrl(selected, path)
        /\ \A n \in 1 .. Len(selected) : IsWildcard(selected[n]) => selected[n] \in Variables
    BY <1>8, <2>1, SelectedPattern
  <2>3. found = MatchPattern(tree, path, selected)
    BY <1>8, <2>2 DEF found, FoundBy, HandlerForPattern
  <2> HIDE DEF selected
  <2>4. found.matchedPath = selected /\ ServesAs(tree, found, path, method)
    <3>1. MethodFromModule(MatchPattern(tree, path, selected).module, method)
      BY <1>6, <2>3
    <3> HIDE DEF tree, versioned, Serves, fresh
    <3> QED
      BY <1>5, <2>2, <2>3, <3>1, PatternServes
  <2>5. \E s \in Routes(tree) : Serves(s)
    BY <1>8, <2>4 DEF ServesAs, BoundBy
  <2>6. call.matchedPath = SelectedContractPath(fresh, path)
    BY <1>6, <2>4 DEF selected
  <2> QED
    BY <1>4, <1>6, <1>8, <2>1, <2>4, <2>5, <2>6 DEF selected
<1> QED
  BY <1>7, <1>8

\* An exchange begins when a request arrives, and at no other step.
LEMMA Arrival ==
  ASSUME WellRouted, RoutingInv, [ClientNext]_clientVars, Arrives
  PROVE  \E request : Arrive(request) /\ PlainUrl(request.url)
           /\ {"method", "url"} \subseteq DOMAIN request
<1>1. exchange.stage = "idle" /\ exchange' # exchange
  BY DEF Arrives
<1>2. ~ Others
  <2>1. ASSUME NEW reply \in Replies, Finish(reply) PROVE FALSE
    BY <1>1, <2>1 DEF Finish
  <2>2. ASSUME Leave PROVE FALSE
    BY <1>1, <2>2 DEF Leave
  <2>3. ASSUME NEW r \in DOMAIN runners, NEW pair \in RouteModules,
               LoadRoute(r, pair[1], pair[2]) \/ DropRoute(r, pair[1])
        PROVE  FALSE
    BY <1>1, <2>3 DEF LoadRoute, DropRoute, Change
  <2>4. ASSUME NEW r \in DOMAIN runners, NEW path \in MiddlewarePaths, LoadMiddleware(r, path)
        PROVE  FALSE
    BY <1>1, <2>4 DEF LoadMiddleware, Change
  <2>5. ASSUME NEW r \in DOMAIN runners, NEW document \in Documents, ReloadDocument(r, document)
        PROVE  FALSE
    BY <1>1, <2>5 DEF ReloadDocument, Change
  <2>6. ASSUME NEW setting \in ProxySettings, SetProxy(setting[1], setting[2]) PROVE FALSE
    BY <1>1, <2>6 DEF SetProxy, Change
  <2>7. ASSUME NEW url \in ProxyUrls, SetProxyUrl(url) PROVE FALSE
    BY <1>1, <2>7 DEF SetProxyUrl, Change
  <2> QED
    BY <2>1, <2>2, <2>3, <2>4, <2>5, <2>6, <2>7 DEF Others
<1>3. \A b : ~ Becomes(b)
  BY <1>1 DEF Becomes, vars
<1>4. CASE Arrivals
  <2>1. PICK request \in Requests : Arrive(request)
    BY <1>4 DEF Arrivals
  <2>2. PlainUrl(request.url) /\ {"method", "url"} \subseteq DOMAIN request
    BY DEF WellRouted
  <2> QED
    BY <2>1, <2>2
<1>5. CASE Send
  <2>1. /\ {"routePath", "path"} \subseteq DOMAIN builder
        /\ PlainUrl(builder.routePath) /\ SentOK(builder.path)
    BY <1>5 DEF Send, RoutingInv, BuilderOK
  <2>2. PlainUrl(RequestOf(builder).url)
    BY <2>1, SentUrl
  <2>3. {"method", "url"} \subseteq DOMAIN RequestOf(builder)
    BY DEF RequestOf
  <2>4. Arrive(RequestOf(builder))
    BY <1>5 DEF Send
  <2> QED
    BY <2>2, <2>3, <2>4
<1>6. ClientNext
  BY <1>1 DEF clientVars, vars
<1> QED
  BY <1>2, <1>3, <1>4, <1>5, <1>6 DEF ClientNext, MakeRoute, SetMethod, Add

\* Where the handler that is called was looked for.
LEMMA HandlerPlace ==
  ASSUME WellRouted, NoSegment \notin FileNames, RoutingInv, [ClientNext]_clientVars, Called
  PROVE  LET r == exchange'.runner
             request == exchange'.request
         IN /\ r \in DOMAIN runners /\ RouterOK(runners[r]) /\ SpellingOK
            /\ PlainUrl(PathAt(r, request))
            /\ CalledAs(exchange'.call, Refreshed(runners[r]), PathAt(r, request), request.method)
<1>1. PICK request : Arrive(request) /\ PlainUrl(request.url) /\ "method" \in DOMAIN request
  BY Arrival DEF Called
<1>2. RoutersOK /\ SpellingOK
  BY DEF RoutingInv, WellRouted
<1> DEFINE r == exchange'.runner
<1>3. /\ r \in DOMAIN runners /\ exchange'.request = request
      /\ PathWithinPrefix(request.url, runners[r].prefix) # Undefined
      /\ CalledAs(exchange'.call, Refreshed(runners[r]), PathAt(r, request), request.method)
  BY <1>1, <1>2, HandlerCalled
<1>4. RouterOK(runners[r])
  BY <1>2, <1>3 DEF RoutersOK
<1> HIDE DEF r
<1>5. PlainUrl(PathAt(r, request))
  BY <1>1, <1>2, <1>3, <1>4, PathIsPlain DEF PathAt
<1> QED
  BY <1>2, <1>3, <1>4, <1>5 DEF r

\* The handler that is called is the best one for its URL.
LEMMA CalledBest ==
  ASSUME WellRouted, NoSegment \notin FileNames, RoutingInv, [ClientNext]_clientVars, Called
  PROVE  LET r == exchange'.runner
             call == exchange'.call
             url == PathAt(r, exchange'.request)
             tree == runners[r].registry.tree
         IN \E route \in Routes(tree) :
              /\ KeyOf(route.path) = KeyOf(call.matchedPath)
              /\ FitsUrl(route.path, url)
              /\ MethodFromModule(route.module, exchange'.request.method)
              /\ IsVersioned(runners[r]) \/ Reachable(tree, route, url, exchange'.request.method)
              /\ \A i \in DOMAIN route.path : BoundBy(runners[r], route.path[i]) =>
                   call.arguments.path[route.path[i]].of = url[i]
<1> DEFINE r == exchange'.runner
           call == exchange'.call
           url == PathAt(r, exchange'.request)
           runner == runners[r]
           method == exchange'.request.method
<1>1. /\ RouterOK(runner) /\ SpellingOK /\ PlainUrl(url)
      /\ CalledAs(call, Refreshed(runner), url, method)
  BY HandlerPlace
<1> HIDE DEF r, call, url, runner, method
<1>2. \E route \in Routes(runner.registry.tree) :
        /\ KeyOf(route.path) = KeyOf(call.matchedPath)
        /\ FitsUrl(route.path, url) /\ MethodFromModule(route.module, method)
        /\ IsVersioned(runner) \/ Reachable(runner.registry.tree, route, url, method)
        /\ \A i \in DOMAIN route.path : BoundBy(runner, route.path[i]) =>
             call.arguments.path[route.path[i]].of = url[i]
  BY <1>1, CalledInPlace
<1> QED
  BY <1>2 DEF r, call, url, runner, method

\* The contract declares what is called.
LEMMA CalledDeclared ==
  ASSUME WellRouted, NoSegment \notin FileNames, RoutingInv, [ClientNext]_clientVars, Called
  PROVE  LET r == exchange'.runner
             pattern == KeyOf(exchange'.call.matchedPath)
         IN IsVersioned(runners[r]) =>
              /\ pattern \in Declared(r, PathAt(r, exchange'.request))
              /\ Declares(r, pattern, exchange'.request.method)
<1> DEFINE r == exchange'.runner
           call == exchange'.call
           url == PathAt(r, exchange'.request)
           runner == runners[r]
           method == exchange'.request.method
           paths == runner.document.paths
           pattern == KeyOf(call.matchedPath)
<1> SUFFICES ASSUME IsVersioned(runner)
             PROVE  pattern \in Declared(r, url) /\ Declares(r, pattern, method)
  OBVIOUS
<1>1. /\ RouterOK(runner) /\ SpellingOK /\ PlainUrl(url)
      /\ CalledAs(call, Refreshed(runner), url, method)
  BY HandlerPlace
<1> HIDE DEF r, call, url, runner, method
<1>2. /\ call.matchedPath = SelectedContractPath(Refreshed(runner), url)
      /\ OperationForPathAndMethod(runner.document, call.matchedPath, method) # Undefined
  BY <1>1, CalledInPlace
<1>3. /\ FitsUrl(pattern, url)
      /\ \E n \in 1 .. Len(paths) :
           /\ KeyOf(paths[n].path) = pattern
           /\ {method, LowerCase[method]} \cap DOMAIN paths[n].operations # {}
      /\ \A n \in 1 .. Len(paths) :
           FitsUrl(KeyOf(paths[n].path), url) => ~ Preferred(KeyOf(paths[n].path), pattern)
  BY <1>1, <1>2, SelectedPattern
<1>4. ToSet(paths) = {paths[n] : n \in 1 .. Len(paths)}
  BY <1>1 DEF ToSet, RouterOK, PathsOK, IsVersioned
<1> HIDE DEF paths, pattern
<1>5. pattern \in {p \in {q \in {KeyOf(item.path) : item \in ToSet(paths)} : FitsUrl(q, url)} :
                     \A q \in {q \in {KeyOf(item.path) : item \in ToSet(paths)} : FitsUrl(q, url)} :
                       ~ Preferred(q, p)}
  BY <1>3, <1>4
<1>6. \E item \in ToSet(paths) :
        KeyOf(item.path) = pattern /\ {method, LowerCase[method]} \cap DOMAIN item.operations # {}
  BY <1>3, <1>4
<1> QED
  BY <1>5, <1>6 DEF Declared, Declares, paths, runner

(***************************************************************************)
(* The handler that is called belongs to a file whose path fits the URL,   *)
(* serves the method, and is not passed over for a better one: among the   *)
(* files that the walk of module-tree.ts reaches, names come before        *)
(* variables; its arguments are the segments at its variables. No path may *)
(* end in an empty segment: a file of that name stands in for any last     *)
(* segment.                                                                *)
(***************************************************************************)
THEOREM BestRouteIsCalled ==
  ASSUME WellRouted, NoSegment \notin FileNames PROVE ClientSpec => BestRouteServes
<1>1. ClientInit => RoutingInv
  BY RoutingInit
<1>2. RoutingInv /\ [ClientNext]_clientVars => RoutingInv'
  BY RoutingNext
<1>3. RoutingInv /\ [ClientNext]_clientVars =>
        [Called => LET r == exchange'.runner
                       call == exchange'.call
                       url == PathAt(r, exchange'.request)
                       tree == runners[r].registry.tree
                   IN \E route \in Routes(tree) :
                        /\ KeyOf(route.path) = KeyOf(call.matchedPath)
                        /\ FitsUrl(route.path, url)
                           /\ MethodFromModule(route.module, exchange'.request.method)
                        /\ IsVersioned(runners[r])
                             \/ Reachable(tree, route, url, exchange'.request.method)
                        /\ \A i \in DOMAIN route.path : BoundBy(runners[r], route.path[i]) =>
                             call.arguments.path[route.path[i]].of = url[i]]_vars
  BY CalledBest
<1> QED
  BY <1>1, <1>2, <1>3, PTL DEF ClientSpec, BestRouteServes

(***************************************************************************)
(* A runner with a contract calls no handler that its present document     *)
(* does not declare, and only under the best of the declared paths that    *)
(* fit the URL, even if a file for it is there (Dispatcher.request()).     *)
(***************************************************************************)
THEOREM OnlyDeclaredIsCalled ==
  ASSUME WellRouted, NoSegment \notin FileNames PROVE ClientSpec => DeclaredOnly
<1>1. ClientInit => RoutingInv
  BY RoutingInit
<1>2. RoutingInv /\ [ClientNext]_clientVars => RoutingInv'
  BY RoutingNext
<1>3. RoutingInv /\ [ClientNext]_clientVars =>
        [Called => LET r == exchange'.runner
                       pattern == KeyOf(exchange'.call.matchedPath)
                   IN IsVersioned(runners[r]) =>
                        /\ pattern \in Declared(r, PathAt(r, exchange'.request))
                        /\ Declares(r, pattern, exchange'.request.method)]_vars
  BY CalledDeclared
<1> QED
  BY <1>1, <1>2, <1>3, PTL DEF ClientSpec, DeclaredOnly

\* The methods that are gathered are methods that candidates allow.
LEMMA ChosenMethods ==
  ASSUME NEW request, NEW state, NEW r, NEW methods, Select(request, state) = <<r, methods>>
  PROVE  \/ methods = Undefined
         \/ \A method \in methods : \E q \in Candidates(request) :
              method \in AllowedMethodsForPath(state[q],
                                                 PathWithinPrefix(request.url, state[q].prefix))
<1> DEFINE Path(q) == PathWithinPrefix(request.url, state[q].prefix)
           Takes(q) == IsProxied(Path(q)) \/ CanHandleRequest(state[q], Path(q), request.method)
           Allowed(q) == AllowedMethodsForPath(state[q], Path(q))
           candidates == Candidates(request)
           takers == IF Len(runners) = 1 THEN candidates ELSE {q \in candidates : Takes(q)}
           owners == {q \in candidates : Allowed(q) # {}}
           all == UNION {Allowed(q) : q \in owners}
<1>1. Select(request, state) =
        CASE takers # {} -> <<Min(takers), Undefined>>
          [] takers = {} /\ (candidates = {} \/ (owners = {} /\ request.method # "OPTIONS")) -> <<>>
          [] OTHER -> <<Min(IF owners = {} THEN candidates ELSE owners), all>>
  BY DEF Select
<1>2. \A method \in all : \E q \in candidates : method \in Allowed(q)
  OBVIOUS
<1> SUFFICES methods = Undefined \/ methods = all
  BY <1>2
<1> HIDE DEF takers, owners, candidates, all
<1> QED
  BY <1>1

\* Call() answers with methods that the runner allows.
LEMMA AnsweredCall ==
  ASSUME NEW runner, NEW url, NEW request, Call(runner, url, request).is = "answer"
  PROVE  /\ {"is", "allow"} \subseteq DOMAIN Call(runner, url, request)
         /\ Call(runner, url, request).allow \subseteq AllowedMethodsForPath(runner, url)
<1> DEFINE path == WithoutBasePath(runner, url)
           matched == IF IsVersioned(runner) THEN SelectedContractPath(runner, path)
                      ELSE Handler(runner.registry, request.method, path).matchedPath
           operation == OperationForPathAndMethod(runner.document, matched, request.method)
           decoded == WithDecodedBody(operation, request)
           call == Call(runner, url, request)
           allowed == AllowedMethodsForPath(runner, url)
<1>1. call = Admitted(runner, path, matched, operation, request) /\ call.is = "answer"
  BY DEF Call
<1>2. /\ IsVersioned(runner) /\ matched # <<>>
           => allowed = ContractMethods(runner.document, matched)
      /\ ~ IsVersioned(runner) => allowed = MethodsForPath(runner.registry, path)
  BY DEF AllowedMethodsForPath
<1> HIDE DEF path, matched, operation, call, allowed
<1>3. \A status, allow : Answer(status, allow).allow = allow
       /\ {"is", "allow"} \subseteq DOMAIN Answer(status, allow)
  BY DEF Answer
<1>4. CASE call = Validated(runner, path, matched, operation, decoded)
  <2> DEFINE endpoint == Endpoint(runner.registry, decoded.method, path,
                                  IF IsVersioned(runner) THEN matched ELSE <<>>)
  <2>1. call = Answer("400", {}) \/ call = Met(runner, matched, operation, decoded, endpoint)
    BY <1>4 DEF Validated
  <2>2. endpoint.is \in {"ambiguous", "missing", "handler"}
    BY DEF Endpoint
  <2> HIDE DEF endpoint
  <2>3. call = Answer("400", {})
    BY <1>1, <2>1, <2>2 DEF Met
  <2> QED
    BY <1>3, <2>3 DEF call
<1>5. CASE call = Answer("404", {})
  BY <1>3, <1>5 DEF call
<1>6. CASE /\ IsVersioned(runner) /\ matched # <<>>
           /\ call = Answer("405", ContractMethods(runner.document, matched))
  BY <1>2, <1>3, <1>6 DEF call, allowed
<1>7. CASE ~ IsVersioned(runner) /\ call = Answer("405", MethodsForPath(runner.registry, path))
  BY <1>2, <1>3, <1>7 DEF call, allowed
<1> QED
  BY <1>1, <1>4, <1>5, <1>6, <1>7 DEF Admitted

\* An answer without a handler allows what its runner allows, or what was
\* gathered.
LEMMA RoutedAnswer ==
  ASSUME NEW runner, NEW path, NEW request, NEW override,
         Routed(runner, path, request, override).is = "answer"
  PROVE  LET allow == Routed(runner, path, request, override).allow
         IN allow \subseteq AllowedMethodsForPath(runner, path)
              \/ (override # Undefined /\ allow = override)
<1> DEFINE call == Call(runner, path, request)
           routed == Routed(runner, path, request, override)
           allowed == IF override = Undefined THEN AllowedMethodsForPath(runner, path) ELSE override
           Preflight == [Answer("200", {}) EXCEPT !.contentType = Undefined, !.body = Undefined]
           given == IF /\ call.is = "answer" /\ call.status = "405"
                       /\ override # Undefined /\ ~ IsVersioned(runner)
                    THEN [call EXCEPT !.allow = override] ELSE call
<1>1. routed.is = "answer"
  OBVIOUS
<1>2. ~ IsProxied(path)
  BY <1>1 DEF Routed
<1>3. routed = AddCors(IF request.method = "OPTIONS" THEN Preflight ELSE given, allowed)
  BY <1>2 DEF Routed
<1>4. ASSUME NEW does, NEW methods
      PROVE  /\ "is" \in DOMAIN does => AddCors(does, methods).is = does.is
             /\ "allow" \in DOMAIN does => AddCors(does, methods).allow = does.allow
  BY DEF AddCors
<1>5. "allow" \in DOMAIN Preflight /\ Preflight.allow = {}
  BY DEF Answer
<1> HIDE DEF Preflight, allowed, routed
<1>6. CASE request.method = "OPTIONS"
  <2>1. routed.allow = {}
    BY <1>3, <1>4, <1>5, <1>6
  <2> QED
    BY <2>1 DEF routed
<1>7. CASE request.method # "OPTIONS"
  <2>1. "is" \in DOMAIN call
    BY CallIs
  <2> HIDE DEF call
  <2>2. "is" \in DOMAIN given /\ given.is = call.is
    BY <2>1
  <2>3. call.is = "answer"
    <3> HIDE DEF given
    <3> QED
      BY <1>1, <1>3, <1>4, <1>7, <2>2
  <2>4. {"is", "allow"} \subseteq DOMAIN call
         /\ call.allow \subseteq AllowedMethodsForPath(runner, path)
    BY <2>3, AnsweredCall DEF call
  <2>5. /\ "allow" \in DOMAIN given
        /\ given.allow = call.allow \/ (override # Undefined /\ given.allow = override)
    BY <2>4
  <2> HIDE DEF given
  <2>6. routed.allow = given.allow
    BY <1>3, <1>4, <1>7, <2>5
  <2> QED
    BY <2>4, <2>5, <2>6 DEF routed
<1> QED
  BY <1>6, <1>7

\* What an answer allows, some candidate allows.
LEMMA GivenAnswer ==
  ASSUME IsList(runners), NEW request, NEW state,
         Given(Select(request, state), request, state).does.is = "answer",
         NEW method \in Given(Select(request, state), request, state).does.allow
  PROVE  \E q \in Candidates(request) :
           method \in AllowedMethodsForPath(state[q],
                                              PathWithinPrefix(request.url, state[q].prefix))
<1> DEFINE choice == Select(request, state)
           given == Given(choice, request, state)
<1>1. NextMiddleware.allow = {}
  BY DEF NextMiddleware, AddCors, Answer
<1>2. choice # <<>>
  <2> SUFFICES ASSUME choice = <<>> PROVE FALSE
    OBVIOUS
  <2>1. given.does = NextMiddleware
    BY DEF Given
  <2> QED
    BY <1>1, <2>1
<1>3. PICK r \in Candidates(request) : \E methods : choice = <<r, methods>>
  BY <1>2, Chosen
<1>4. PICK methods : choice = <<r, methods>>
  BY <1>3
<1>5. \/ methods = Undefined
      \/ \A m \in methods : \E q \in Candidates(request) :
           m \in AllowedMethodsForPath(state[q], PathWithinPrefix(request.url, state[q].prefix))
  BY <1>4, ChosenMethods
<1>6. given.does.is = "answer" /\ method \in given.does.allow
  OBVIOUS
<1> DEFINE path == PathWithinPrefix(request.url, state[r].prefix)
<1> HIDE DEF choice
<1>7. given.does = Routed(state[r], path, request, methods)
  BY <1>2, <1>4 DEF Given
<1> HIDE DEF given, path
<1>8. \/ given.does.allow \subseteq AllowedMethodsForPath(state[r], path)
      \/ methods # Undefined /\ given.does.allow = methods
  BY <1>6, <1>7, RoutedAnswer
<1> QED
  BY <1>3, <1>5, <1>6, <1>8 DEF path

\* Methods are declared, and allowed, in upper case.
NamesOK ==
  \A name \in OperationNames : UpperCase[name] = name \/ LowerCase[UpperCase[name]] = name

\* What a runner allows is declared by its document or served by its files.
LEMMA AllowedIsServed ==
  ASSUME SpellingOK, NoSegment \notin FileNames, NamesOK, NEW r \in DOMAIN runners,
         RouterOK(runners[r]),
         NEW request, {"method", "url"} \subseteq DOMAIN request, PlainUrl(request.url),
         PathWithinPrefix(request.url, runners[r].prefix) # Undefined,
         NEW method,
         method \in AllowedMethodsForPath(Refreshed(runners[r]),
                                          PathWithinPrefix(request.url, runners[r].prefix))
  PROVE  \/ CanServe(r, [request EXCEPT !.method = method])
         \/ /\ IsVersioned(runners[r])
            /\ \E p \in Declared(r, PathAt(r, request)) : Declares(r, p, method)
<1> DEFINE runner == runners[r]
           fresh == Refreshed(runner)
           path == PathAt(r, request)
           tree == runner.registry.tree
           asked == [request EXCEPT !.method = method]
<1>1. /\ fresh.document = runner.document /\ fresh.registry = runner.registry
      /\ IsVersioned(fresh) <=> IsVersioned(runner)
      /\ \A p : WithoutBasePath(fresh, p) = WithoutBasePath(runner, p)
      /\ IsVersioned(runner) => fresh.contract = runner.document.paths
  BY RefreshedRunner
<1> HIDE DEF fresh
<1>2. PlainUrl(path) /\ path = WithoutBasePath(runner, PathWithinPrefix(request.url, runner.prefix))
  BY PathIsPlain DEF PathAt
<1> HIDE DEF path
<1>3. method \in IF IsVersioned(runner)
                 THEN IF SelectedContractPath(fresh, path) = <<>> THEN {}
                      ELSE ContractMethods(runner.document, SelectedContractPath(fresh, path))
                 ELSE MethodsForPath(runner.registry, path)
  BY <1>1, <1>2 DEF AllowedMethodsForPath, fresh
<1>4. CASE ~ IsVersioned(runner)
  <2>1. Exists(runner.registry, method, path) /\ TreeOK(tree)
    BY <1>3, <1>4 DEF MethodsForPath, RouterOK, RegistryOK
  <2>2. \E route \in Routes(tree) : Reachable(tree, route, path, method)
    <3> HIDE DEF tree
    <3>1. MethodFromModule(Match(tree, path, method).module, method)
      BY <2>1 DEF Exists, Handler, tree
    <3>2. PICK route \in Routes(tree) :
            /\ KeyOf(route.path) = KeyOf(Match(tree, path, method).matchedPath)
            /\ Reachable(tree, route, path, method)
            /\ \A n \in DOMAIN route.path : IsWildcard(route.path[n]) =>
                 /\ route.path[n] \in DOMAIN Match(tree, path, method).pathVariables
                 /\ Match(tree, path, method).pathVariables[route.path[n]] = path[n]
      BY <1>2, <2>1, <3>1, FoundServes
    <3> QED
      BY <3>2
  <2>3. asked.url = request.url /\ asked.method = method
    OBVIOUS
  <2> HIDE DEF asked
  <2>4. PathAt(r, asked) = path
    BY <2>3 DEF PathAt, path
  <2>5. CanServe(r, asked)
    BY <1>4, <2>2, <2>3, <2>4 DEF CanServe
  <2> QED
    BY <2>5 DEF asked
<1>5. CASE IsVersioned(runner)
  <2> DEFINE pattern == SelectedContractPath(fresh, path)
             paths == runner.document.paths
             item == FindPathItem(runner.document, pattern)
             same == {i \in DOMAIN paths : KeyOf(paths[i].path) = KeyOf(pattern)}
  <2>1. pattern # <<>> /\ method \in ContractMethods(runner.document, pattern)
    BY <1>3, <1>5
  <2>2. pattern = Match(ContractTree(paths), path, ContractMethod).matchedPath
    BY <1>1, <1>5 DEF SelectedContractPath
  <2>3. runner.document # Undefined /\ PathsOK(runner.document)
    BY <1>5 DEF IsVersioned, RouterOK
  <2>4. Len(paths) \in Nat /\ DOMAIN paths = 1 .. Len(paths)
         /\ \A n \in 1 .. Len(paths) : PathOK(paths[n].path)
    BY <2>3 DEF PathsOK
  <2> HIDE DEF pattern
  <2>5. /\ FitsUrl(KeyOf(pattern), path)
        /\ \E n \in 1 .. Len(paths) : KeyOf(paths[n].path) = KeyOf(pattern)
        /\ \A n \in 1 .. Len(paths) :
             FitsUrl(KeyOf(paths[n].path), path)
               => ~ Preferred(KeyOf(paths[n].path), KeyOf(pattern))
    <3> HIDE DEF paths
    <3> QED
      BY <1>2, <2>1, <2>2, <2>4, ContractBest
  <2>6. item # Undefined /\ \E name \in DOMAIN item.operations : method = UpperCase[name]
    BY <2>1 DEF ContractMethods
  <2>7. same # {} /\ item = paths[Min(same)]
    BY <2>6 DEF FindPathItem
  <2>8. Min(same) \in same
    <3>1. same \subseteq Nat
      BY <2>4
    <3> HIDE DEF same
    <3> QED
      BY <2>7, <3>1, MinOf
  <2>9. /\ Min(same) \in 1 .. Len(paths) /\ KeyOf(item.path) = KeyOf(pattern)
        /\ DOMAIN item.operations \subseteq OperationNames
    BY <2>3, <2>4, <2>7, <2>8 DEF PathsOK
  <2>10. ToSet(paths) = {paths[n] : n \in 1 .. Len(paths)}
    BY <2>4 DEF ToSet
  <2> HIDE DEF same, item, paths
  <2>11. {method, LowerCase[method]} \cap DOMAIN item.operations # {}
    BY <2>6, <2>9 DEF NamesOK
  <2>12. Declares(r, KeyOf(pattern), method)
    BY <2>7, <2>9, <2>10, <2>11 DEF Declares, paths
  <2>13. KeyOf(pattern) \in
          {p \in {q \in {KeyOf(i.path) : i \in ToSet(paths)} : FitsUrl(q, path)} :
             \A q \in {q \in {KeyOf(i.path) : i \in ToSet(paths)} : FitsUrl(q, path)} :
               ~ Preferred(q, p)}
    BY <2>5, <2>10
  <2>14. KeyOf(pattern) \in Declared(r, path)
    BY <2>13 DEF Declared, paths
  <2> QED
    BY <1>5, <2>12, <2>14 DEF path
<1> QED
  BY <1>4, <1>5

\* What an answer allows, some runner serves.
LEMMA AnsweredAllows ==
  ASSUME WellRouted, NoSegment \notin FileNames, NamesOK, RoutingInv, [ClientNext]_clientVars,
         Arrives, exchange'.call.is = "answer"
  PROVE  \A method \in exchange'.answer.allow : \E r \in DOMAIN runners :
           \/ CanServe(r, [exchange'.request EXCEPT !.method = method])
           \/ /\ IsVersioned(runners[r])
              /\ PathWithinPrefix(exchange'.request.url, runners[r].prefix) # Undefined
              /\ \E p \in Declared(r, PathAt(r, exchange'.request)) : Declares(r, p, method)
<1>1. PICK request : Arrive(request) /\ PlainUrl(request.url)
       /\ {"method", "url"} \subseteq DOMAIN request
  BY Arrival
<1>2. RoutersOK /\ SpellingOK
  BY DEF RoutingInv, WellRouted
<1> DEFINE state == [r \in DOMAIN runners |->
                      IF r \in Candidates(request) THEN Refreshed(runners[r]) ELSE runners[r]]
           given == Given(Select(request, state), request, state)
<1>3. exchange' = Exchange(request, given)
  BY <1>1 DEF Arrive
<1>4. /\ exchange'.request = request /\ exchange'.answer = given.does /\ given.does.is = "answer"
  <2> HIDE DEF given
  <2>1. exchange'.request = request /\ exchange'.call = given.does
    BY <1>3 DEF Exchange
  <2>2. given.does.is = "answer"
    BY <2>1
  <2> QED
    BY <1>3, <2>1, <2>2 DEF Exchange
<1>5. ASSUME NEW method \in given.does.allow
      PROVE  \E r \in DOMAIN runners :
               \/ CanServe(r, [request EXCEPT !.method = method])
               \/ /\ IsVersioned(runners[r])
                  /\ PathWithinPrefix(request.url, runners[r].prefix) # Undefined
                  /\ \E p \in Declared(r, PathAt(r, request)) : Declares(r, p, method)
  <2>1. PICK r \in Candidates(request) :
          method \in AllowedMethodsForPath(state[r], PathWithinPrefix(request.url, state[r].prefix))
    <3> HIDE DEF state
    <3>1. given.does.is = "answer" /\ method \in given.does.allow /\ IsList(runners)
      BY <1>2, <1>4, <1>5 DEF RoutersOK
    <3> QED
      BY <3>1, GivenAnswer DEF given
  <2> HIDE DEF given
  <2>2. r \in DOMAIN runners /\ PathWithinPrefix(request.url, runners[r].prefix) # Undefined
    BY DEF Candidates
  <2>3. state[r] = Refreshed(runners[r]) /\ RouterOK(runners[r])
    BY <1>2, <2>2 DEF RoutersOK
  <2> HIDE DEF state
  <2>4. state[r].prefix = runners[r].prefix
    BY <2>3, RefreshedRunner
  <2>5. method \in AllowedMethodsForPath(Refreshed(runners[r]),
                                         PathWithinPrefix(request.url, runners[r].prefix))
    BY <2>1, <2>3, <2>4
  <2>6. \/ CanServe(r, [request EXCEPT !.method = method])
        \/ /\ IsVersioned(runners[r])
           /\ \E p \in Declared(r, PathAt(r, request)) : Declares(r, p, method)
    BY <1>1, <1>2, <2>2, <2>3, <2>5, AllowedIsServed
  <2> QED
    BY <2>2, <2>6
<1> HIDE DEF given
<1> QED
  BY <1>4, <1>5

(***************************************************************************)
(* Every method in an Allow header is one that some runner at this URL     *)
(* serves or declares, whichever runner answered and whatever was gathered *)
(* from the others (405 and OPTIONS).                                      *)
(***************************************************************************)
THEOREM AllowedMethodsAreServed ==
  ASSUME WellRouted, NoSegment \notin FileNames, NamesOK PROVE ClientSpec => AllowIsServed
<1>1. ClientInit => RoutingInv
  BY RoutingInit
<1>2. RoutingInv /\ [ClientNext]_clientVars => RoutingInv'
  BY RoutingNext
<1>3. RoutingInv /\ [ClientNext]_clientVars =>
        [Arrives /\ exchange'.call.is = "answer" =>
           \A method \in exchange'.answer.allow : \E r \in DOMAIN runners :
             \/ CanServe(r, [exchange'.request EXCEPT !.method = method])
             \/ /\ IsVersioned(runners[r])
                /\ PathWithinPrefix(exchange'.request.url, runners[r].prefix) # Undefined
                /\ \E p \in Declared(r, PathAt(r, exchange'.request)) : Declares(r, p, method)]_vars
  BY AnsweredAllows
<1> QED
  BY <1>1, <1>2, <1>3, PTL DEF ClientSpec, AllowIsServed
-----------------------------------------------------------------------------
(* The types of arguments.                                                 *)

QueryParameters(parameters) == {p \in ToSet(parameters) : p.in = "query"}

\* Parameters of the query that are told apart, claim nothing that belongs to
\* others, and whose types are read alike wherever they are read.
PlainParameters(parameters) ==
  /\ Len(parameters) \in Nat /\ DOMAIN parameters = 1 .. Len(parameters)
  /\ \A p, q \in QueryParameters(parameters) : p.name = q.name => p = q
  /\ \A p, q \in QueryParameters(parameters) : IsExplodedObjectQueryParam(p) =>
       /\ q.name \notin DOMAIN PropertiesOf(p)
       /\ p # q /\ IsExplodedObjectQueryParam(q)
            => DOMAIN PropertiesOf(p) \cap DOMAIN PropertiesOf(q) = {}
  /\ \A p \in QueryParameters(parameters) :
       /\ IsExplodedObjectQueryParam(p) =>
            /\ DeclaredType(p) \notin {"integer", "number", "boolean", "array"}
            /\ p.required => DOMAIN PropertiesOf(p) # {}
       /\ DeclaredType(p) = "boolean" => IsBoolean(p)
       /\ IsArray(p) <=> DeclaredType(p) = "array"

\* The gathering of one object.
LEMMA GatheredOne ==
  ASSUME NEW query, NEW p
  PROVE  LET after == Gathered(query, p)
             claimed == IF IsExplodedObjectQueryParam(p)
                        THEN DOMAIN PropertiesOf(p) \cap DOMAIN query ELSE {}
         IN /\ claimed = {} => after = query
            /\ claimed # {} => p.name \in DOMAIN after
            /\ \A name : name # p.name =>
                 /\ name \in DOMAIN after <=> name \in DOMAIN query \ claimed
                 /\ name \in DOMAIN after => after[name] = query[name]
<1> DEFINE after == Gathered(query, p)
           claimed == IF IsExplodedObjectQueryParam(p)
                      THEN DOMAIN PropertiesOf(p) \cap DOMAIN query ELSE {}
           object == [kind |-> "object", fields |-> [key \in claimed |-> query[key]]]
<1>1. after = IF claimed = {} THEN query
              ELSE [name \in {p.name} \cup (DOMAIN query \ claimed) |->
                      IF name = p.name THEN object ELSE query[name]]
  BY DEF Gathered
<1> HIDE DEF after, claimed, object
<1>2. CASE claimed = {}
  BY <1>1, <1>2 DEF after, claimed
<1>3. CASE claimed # {}
  <2>1. DOMAIN after = {p.name} \cup (DOMAIN query \ claimed)
    BY <1>1, <1>3
  <2>2. \A name \in DOMAIN after : name # p.name => after[name] = query[name]
    BY <1>1, <1>3
  <2> QED
    BY <1>3, <2>1, <2>2 DEF after, claimed
<1> QED
  BY <1>2, <1>3

\* The stages of the gathering of all objects, one parameter after the other.
LEMMA Stages ==
  ASSUME NEW query, NEW parameters, Len(parameters) \in Nat
  PROVE  \E stages :
           /\ CollectExplodedObjectParams(query, parameters) = stages[Len(parameters)]
           /\ stages[0] = query
           /\ \A n \in 1 .. Len(parameters) : stages[n] = Gathered(stages[n - 1], parameters[n])
<1> DEFINE Body(stages, k) == [n \in 0 .. k |-> IF n = 0 THEN query
                                                ELSE Gathered(stages[n - 1], parameters[n])]
           Good(k) == \E stages : stages = Body(stages, k)
           numbers == {k \in Nat : Good(k)}
<1>1. Good(0)
  <2> DEFINE one == [n \in 0 .. 0 |-> query]
  <2>1. one = Body(one, 0)
    OBVIOUS
  <2> QED
    BY <2>1
<1>2. ASSUME NEW k \in Nat, Good(k) PROVE Good(k + 1)
  <2>1. PICK stages : stages = Body(stages, k)
    BY <1>2
  <2> DEFINE longer == [n \in 0 .. k + 1 |-> IF n = k + 1
                          THEN Gathered(stages[k], parameters[k + 1]) ELSE stages[n]]
  <2>2. \A n \in 0 .. k : stages[n] = IF n = 0 THEN query
                                      ELSE Gathered(stages[n - 1], parameters[n])
    BY <2>1
  <2>3. \A n \in 0 .. k : n # k + 1 /\ n \in 0 .. k + 1
    OBVIOUS
  <2>4. \A n \in 0 .. k : longer[n] = stages[n]
    BY <2>3
  <2>5. \A n \in 0 .. k + 1 : n \in 0 .. k \/ n = k + 1
    OBVIOUS
  <2>6. \A n \in 0 .. k + 1 : n # 0 => n - 1 \in 0 .. k
    OBVIOUS
  <2>7. longer[k + 1] = Gathered(stages[k], parameters[k + 1]) /\ k + 1 # 0
    OBVIOUS
  <2>8. ASSUME NEW n \in 0 .. k + 1
        PROVE  longer[n] = IF n = 0 THEN query ELSE Gathered(longer[n - 1], parameters[n])
    <3> HIDE DEF longer
    <3>1. CASE n \in 0 .. k
      BY <2>2, <2>4, <2>6, <3>1
    <3>2. CASE n = k + 1
      <4>1. longer[n - 1] = stages[k]
        BY <2>4, <3>2
      <4> QED
        BY <2>7, <3>2, <4>1
    <3> QED
      BY <2>5, <3>1, <3>2
  <2>9. longer = Body(longer, k + 1)
    <3>1. longer = [n \in 0 .. k + 1 |-> longer[n]]
      OBVIOUS
    <3> HIDE DEF longer
    <3> QED
      BY <2>8, <3>1
  <2> HIDE DEF longer, Body
  <2> QED
    BY <2>9
<1>3. Good(Len(parameters))
  <2> HIDE DEF Good
  <2>1. 0 \in numbers /\ \A n \in numbers : n + 1 \in numbers
    BY <1>1, <1>2
  <2>2. numbers \subseteq Nat
    OBVIOUS
  <2> HIDE DEF numbers
  <2>3. numbers = Nat
    BY <2>1, <2>2, Induction
  <2> QED
    BY <2>3 DEF numbers
<1> DEFINE stages == CHOOSE s : s = Body(s, Len(parameters))
<1>4. stages = Body(stages, Len(parameters))
  BY <1>3
<1>5. CollectExplodedObjectParams(query, parameters) = stages[Len(parameters)]
  BY DEF CollectExplodedObjectParams
<1> HIDE DEF stages
<1>6. stages[0] = query
  BY <1>4
<1>7. \A n \in 1 .. Len(parameters) : stages[n] = Gathered(stages[n - 1], parameters[n])
  <2> SUFFICES ASSUME NEW n \in 1 .. Len(parameters)
               PROVE  stages[n] = Gathered(stages[n - 1], parameters[n])
    OBVIOUS
  <2>1. n \in 0 .. Len(parameters) /\ n # 0
    OBVIOUS
  <2> QED
    BY <1>4, <2>1
<1> QED
  BY <1>5, <1>6, <1>7

\* What the gathering does to the parameters: one that is no object is left as
\* it is, and an object of which some property came is there.
LEMMA Collected ==
  ASSUME NEW query, NEW parameters, PlainParameters(parameters),
         NEW p \in QueryParameters(parameters)
  PROVE  LET result == CollectExplodedObjectParams(query, parameters)
         IN /\ ~ IsExplodedObjectQueryParam(p) =>
                 /\ p.name \in DOMAIN result <=> p.name \in DOMAIN query
                 /\ p.name \in DOMAIN result => result[p.name] = query[p.name]
            /\ /\ IsExplodedObjectQueryParam(p)
               /\ DOMAIN PropertiesOf(p) \cap DOMAIN query # {}
               => p.name \in DOMAIN result
<1> DEFINE length == Len(parameters)
           result == CollectExplodedObjectParams(query, parameters)
           keys == DOMAIN PropertiesOf(p) \cap DOMAIN query
           Claimed(values, q) == IF IsExplodedObjectQueryParam(q)
                                 THEN DOMAIN PropertiesOf(q) \cap DOMAIN values ELSE {}
<1>1. length \in Nat /\ DOMAIN parameters = 1 .. length
  BY DEF PlainParameters
<1>2. PICK stages : /\ result = stages[length] /\ stages[0] = query
                    /\ \A n \in 1 .. length : stages[n] = Gathered(stages[n - 1], parameters[n])
  <2>1. Len(parameters) \in Nat
    BY <1>1
  <2> HIDE DEF keys, Claimed
  <2>2. \E stages :
          /\ CollectExplodedObjectParams(query, parameters) = stages[Len(parameters)]
          /\ stages[0] = query
          /\ \A n \in 1 .. Len(parameters) : stages[n] = Gathered(stages[n - 1], parameters[n])
    BY <2>1, Stages
  <2> QED
    BY <2>2
<1>3. PICK k \in 1 .. length : parameters[k] = p
  BY <1>1 DEF QueryParameters, ToSet
<1>4. \A q : IsExplodedObjectQueryParam(q) => q.in = "query"
  BY DEF IsExplodedObjectQueryParam
<1>5. \A n \in 1 .. length : /\ parameters[n] \in ToSet(parameters)
                             /\ IsExplodedObjectQueryParam(parameters[n])
                                  => parameters[n] \in QueryParameters(parameters)
  BY <1>1, <1>4 DEF QueryParameters, ToSet
<1>6. ASSUME NEW n \in 1 .. length
      PROVE  LET q == parameters[n]
                 claimed == Claimed(stages[n - 1], q)
             IN /\ claimed = {} => stages[n] = stages[n - 1]
                /\ claimed # {} => q.name \in DOMAIN stages[n]
                /\ \A name : name # q.name =>
                     /\ name \in DOMAIN stages[n] <=> name \in DOMAIN stages[n - 1] \ claimed
                     /\ name \in DOMAIN stages[n] => stages[n][name] = stages[n - 1][name]
  BY <1>2, GatheredOne
<1>7. \A q, r \in QueryParameters(parameters) :
        /\ q.name = r.name => q = r
        /\ IsExplodedObjectQueryParam(q) =>
             /\ r.name \notin DOMAIN PropertiesOf(q)
             /\ q # r /\ IsExplodedObjectQueryParam(r)
                  => DOMAIN PropertiesOf(q) \cap DOMAIN PropertiesOf(r) = {}
  BY DEF PlainParameters
<1> HIDE DEF length, result, Claimed
<1>8. ASSUME ~ IsExplodedObjectQueryParam(p)
      PROVE  /\ p.name \in DOMAIN result <=> p.name \in DOMAIN query
             /\ p.name \in DOMAIN result => result[p.name] = query[p.name]
  <2> DEFINE Same(n) == /\ p.name \in DOMAIN stages[n] <=> p.name \in DOMAIN query
                        /\ p.name \in DOMAIN stages[n] => stages[n][p.name] = query[p.name]
             numbers == {n \in Nat : n <= length => Same(n)}
  <2>1. Same(0)
    BY <1>2
  <2>2. ASSUME NEW n \in Nat, n + 1 <= length, Same(n) PROVE Same(n + 1)
    <3> DEFINE q == parameters[n + 1]
    <3>1. n + 1 \in 1 .. length /\ (n + 1) - 1 = n
      BY <1>1, <2>2
    <3>2. CASE Claimed(stages[n], q) = {}
      <4>1. stages[n + 1] = stages[n]
        BY <1>6, <3>1, <3>2
      <4> QED
        BY <2>2, <4>1
    <3>3. CASE Claimed(stages[n], q) # {}
      <4>1. IsExplodedObjectQueryParam(q) /\ q \in QueryParameters(parameters)
        BY <1>5, <3>1, <3>3 DEF Claimed
      <4>2. p # q
        BY <1>8, <4>1
      <4>3. p.name # q.name /\ p.name \notin Claimed(stages[n], q)
        BY <1>7, <4>1, <4>2 DEF Claimed
      <4> HIDE DEF q
      <4>4. /\ p.name \in DOMAIN stages[n + 1] <=> p.name \in DOMAIN stages[n]
            /\ p.name \in DOMAIN stages[n + 1] => stages[n + 1][p.name] = stages[n][p.name]
        BY <1>6, <3>1, <4>3 DEF q
      <4> QED
        BY <2>2, <4>4
    <3> QED
      BY <3>2, <3>3
  <2> HIDE DEF Same
  <2>3. 0 \in numbers /\ \A n \in numbers : n + 1 \in numbers
    BY <1>1, <2>1, <2>2
  <2>4. numbers \subseteq Nat
    OBVIOUS
  <2> HIDE DEF numbers
  <2>5. numbers = Nat
    BY <2>3, <2>4, Induction
  <2>6. Same(length)
    BY <1>1, <2>5 DEF numbers, length
  <2> QED
    BY <1>2, <2>6 DEF Same
<1>9. ASSUME IsExplodedObjectQueryParam(p), keys # {}
      PROVE  p.name \in DOMAIN result
  <2> HIDE DEF keys
  <2> DEFINE There(n) == \/ p.name \in DOMAIN stages[n]
                         \/ n < k /\ keys \subseteq DOMAIN stages[n]
             numbers == {n \in Nat : n <= length => There(n)}
  <2>1. There(0)
    BY <1>2, <1>3 DEF keys
  <2>2. ASSUME NEW n \in Nat, n + 1 <= length, There(n) PROVE There(n + 1)
    <3> DEFINE q == parameters[n + 1]
               claimed == Claimed(stages[n], q)
    <3>1. n + 1 \in 1 .. length /\ (n + 1) - 1 = n
      BY <1>1, <2>2
    <3>2. /\ claimed = {} => stages[n + 1] = stages[n]
          /\ claimed # {} => q.name \in DOMAIN stages[n + 1]
          /\ \A name : name # q.name =>
               name \in DOMAIN stages[n + 1] <=> name \in DOMAIN stages[n] \ claimed
      BY <1>6, <3>1
    <3>3. claimed # {} => IsExplodedObjectQueryParam(q) /\ q \in QueryParameters(parameters)
      BY <1>5, <3>1 DEF Claimed
    <3>4. p.name \notin claimed
      BY <1>7, <3>3 DEF Claimed
    <3> HIDE DEF claimed, q
    <3>5. CASE p.name \in DOMAIN stages[n]
      BY <3>2, <3>4, <3>5
    <3>6. CASE p.name \notin DOMAIN stages[n]
      <4>1. n < k /\ keys \subseteq DOMAIN stages[n]
        BY <2>2, <3>6
      <4>2. CASE n + 1 = k
        <5>1. q = p
          BY <1>3, <4>2 DEF q
        <5>2. claimed = DOMAIN PropertiesOf(p) \cap DOMAIN stages[n]
          BY <1>9, <5>1 DEF claimed, Claimed
        <5>3. claimed # {}
          BY <1>9, <4>1, <5>2 DEF keys
        <5> QED
          BY <3>2, <5>1, <5>3
      <4>3. CASE n + 1 # k
        <5>1. n + 1 < k
          BY <1>1, <1>3, <4>1, <4>3
        <5>2. CASE claimed = {}
          BY <3>2, <4>1, <5>1, <5>2
        <5>3. CASE claimed # {} /\ q = p
          BY <3>2, <5>3
        <5>4. CASE claimed # {} /\ q # p
          <6>1. claimed \subseteq DOMAIN PropertiesOf(q)
            BY DEF claimed, Claimed
          <6>2. DOMAIN PropertiesOf(q) \cap DOMAIN PropertiesOf(p) = {}
            BY <1>7, <1>9, <3>3, <5>4
          <6>3. keys \cap claimed = {}
            BY <6>1, <6>2 DEF keys
          <6>4. keys \subseteq DOMAIN stages[n + 1]
            BY <3>2, <4>1, <5>4, <6>3
          <6> QED
            BY <5>1, <6>4
        <5> QED
          BY <5>2, <5>3, <5>4
      <4> QED
        BY <4>2, <4>3
    <3> QED
      BY <3>5, <3>6
  <2> HIDE DEF There
  <2>3. 0 \in numbers /\ \A n \in numbers : n + 1 \in numbers
    BY <1>1, <2>1, <2>2
  <2>4. numbers \subseteq Nat
    OBVIOUS
  <2> HIDE DEF numbers
  <2>5. numbers = Nat
    BY <2>3, <2>4, Induction
  <2>6. There(length)
    BY <1>1, <2>5 DEF numbers, length
  <2>7. ~ length < k
    BY <1>1, <1>3
  <2> QED
    BY <1>2, <2>6, <2>7 DEF There
<1> QED
  BY <1>8, <1>9 DEF result

\* Arrays are told from the rest by their kind.
LEMMA ArraysAreMade ==
  ASSUME NEW query, NEW parameters
  PROVE  LET normal == NormalizeArrayQueryParameters(query, parameters)
             arrays == {p \in ToSet(parameters) : /\ IsArray(p) /\ p.name \in DOMAIN query
                                                  /\ query[p.name].kind \in {"string", "list"}}
         IN /\ DOMAIN normal = DOMAIN query
            /\ \A name \in DOMAIN query :
                 /\ (\E p \in arrays : p.name = name) => normal[name].kind = "array"
                 /\ ~ (\E p \in arrays : p.name = name) => normal[name] = query[name]
<1> DEFINE normal == NormalizeArrayQueryParameters(query, parameters)
           arrays == {p \in ToSet(parameters) : /\ IsArray(p) /\ p.name \in DOMAIN query
                                                /\ query[p.name].kind \in {"string", "list"}}
<1>1. \E items : normal = [name \in DOMAIN query |->
                             IF \E p \in arrays : p.name = name
                             THEN [kind |-> "array", items |-> items[name]] ELSE query[name]]
  <2> DEFINE Separator(p) == CASE p.explode = TRUE -> Undefined
                               [] p.explode # TRUE /\ Style(p) = "spaceDelimited" -> " "
                               [] p.explode # TRUE /\ Style(p) = "pipeDelimited" -> "|"
                               [] OTHER -> IF p.explode = FALSE THEN "," ELSE Undefined
             Items(p) ==
               LET value == query[p.name]
                   texts == IF value.kind = "string" THEN <<value.of>> ELSE value.items
                   pieces == FlattenSeq([i \in DOMAIN texts |-> Split(texts[i], Separator(p))])
               IN [i \in DOMAIN pieces |-> ItemValue(pieces[i], i, Arrays(p))]
             items == [name \in DOMAIN query |-> Items(CHOOSE p \in arrays : p.name = name)]
  <2>1. normal = [name \in DOMAIN query |->
                    IF \E p \in arrays : p.name = name
                    THEN [kind |-> "array", items |-> Items(CHOOSE p \in arrays : p.name = name)]
                    ELSE query[name]]
    BY DEF NormalizeArrayQueryParameters
  <2> HIDE DEF normal, arrays, Items
  <2>2. \A name \in DOMAIN query : items[name] = Items(CHOOSE p \in arrays : p.name = name)
    OBVIOUS
  <2> HIDE DEF items
  <2>3. normal = [name \in DOMAIN query |->
                    IF \E p \in arrays : p.name = name
                    THEN [kind |-> "array", items |-> items[name]] ELSE query[name]]
    BY <2>1, <2>2
  <2> QED
    BY <2>3
<1> HIDE DEF normal, arrays
<1>2. /\ DOMAIN normal = DOMAIN query
      /\ \A name \in DOMAIN query :
           /\ (\E p \in arrays : p.name = name) => normal[name].kind = "array"
           /\ ~ (\E p \in arrays : p.name = name) => normal[name] = query[name]
  BY <1>1
<1> QED
  BY <1>2 DEF normal, arrays

\* The type that a parameter is converted to is the one that it declares.
LEMMA TypeOfParameter ==
  ASSUME NEW parameters, PlainParameters(parameters), NEW p \in QueryParameters(parameters)
  PROVE  LET types == ParameterTypes(parameters, "query")
         IN DeclaredType(p) # Undefined =>
              p.name \in DOMAIN types /\ types[p.name] = DeclaredType(p)
<1> SUFFICES ASSUME DeclaredType(p) # Undefined
             PROVE  /\ p.name \in DOMAIN ParameterTypes(parameters, "query")
                    /\ ParameterTypes(parameters, "query")[p.name] = DeclaredType(p)
  OBVIOUS
<1> DEFINE typed == {q \in ToSet(parameters) : q.in = "query" /\ DeclaredType(q) # Undefined}
<1>1. p \in typed /\ typed \subseteq QueryParameters(parameters)
  BY DEF QueryParameters
<1>2. ParameterTypes(parameters, "query") =
        [name \in {q.name : q \in typed} |-> DeclaredType(CHOOSE q \in typed : q.name = name)]
  BY DEF ParameterTypes
<1>3. \A q \in typed : q.name = p.name => q = p
  BY <1>1 DEF PlainParameters
<1> HIDE DEF typed
<1>4. (CHOOSE q \in typed : q.name = p.name) = p
  BY <1>1, <1>3
<1> QED
  BY <1>1, <1>2, <1>4

\* Values of a query as they arrive: a text, or a list of texts.
QueryOK(query) == \A name \in DOMAIN query : query[name].kind \in {"string", "list"}

\* The types that are checked are types.
TypesAreKnown == Undefined \notin {"integer", "number", "boolean", "array"}

\* What a request without errors tells of a parameter of the query.
LEMMA NothingMissing ==
  ASSUME NEW parameters, NEW query, FindMissingRequired(parameters, "query", query) = {},
         NEW p \in QueryParameters(parameters), p.required
  PROVE  IF IsExplodedObjectQueryParam(p)
         THEN DOMAIN PropertiesOf(p) = {} \/ DOMAIN PropertiesOf(p) \cap DOMAIN query # {}
         ELSE p.name \in DOMAIN query
<1>1. {<<"query", q.name, "is required">> : q \in MissingRequired(parameters, "query", query)} = {}
  BY DEF FindMissingRequired
<1>2. p \notin MissingRequired(parameters, "query", query)
  BY <1>1
<1>3. \/ p \in MissingRequired(parameters, "query", query)
      \/ ~ CASE IsExplodedObjectQueryParam(p) ->
                  /\ DOMAIN PropertiesOf(p) # {}
                  /\ DOMAIN PropertiesOf(p) \cap DOMAIN query = {}
             [] "query" = "header" -> LowerCase[p.name] \notin DOMAIN query
             [] OTHER -> p.name \notin DOMAIN query
  BY DEF MissingRequired, QueryParameters
<1> QED
  BY <1>2, <1>3

LEMMA NumbersAreFinite ==
  ASSUME NEW parameters, NEW query, NumericErrors(parameters, query) = {},
         NEW p \in QueryParameters(parameters), p.name \in DOMAIN query,
         DeclaredType(p) \in {"integer", "number"}
  PROVE  NumericParameterValue(query[p.name], DeclaredType(p)).kind = "number"
<1> DEFINE Wrong(q) == /\ q.in = "query" /\ q.name \in DOMAIN query
                       /\ DeclaredType(q) \in {"integer", "number"}
                       /\ NumericParameterValue(query[q.name], DeclaredType(q)).kind # "number"
           wrong == {q \in ToSet(parameters) : Wrong(q)}
<1>1. {<<"query", q.name, "must be finite">> : q \in wrong} = {}
  BY DEF NumericErrors
<1> HIDE DEF wrong
<1>2. wrong = {}
  BY <1>1
<1> QED
  BY <1>2 DEF wrong, QueryParameters

LEMMA BooleansAreTrueOrFalse ==
  ASSUME NEW parameters, NEW request, BooleanErrors(parameters, request) = {},
         NEW p \in QueryParameters(parameters), p.name \in DOMAIN request.query, IsBoolean(p)
  PROVE  BooleanParameterValue(request.query[p.name]).kind = "boolean"
<1> DEFINE Values(q) == CASE q.in = "query" -> request.query
                          [] q.in = "header" -> request.headers
                          [] q.in = "cookie" -> request.cookie
                          [] OTHER -> <<>>
           Name(q) == IF q.in = "header" THEN LowerCase[q.name] ELSE q.name
           Wrong(q) == /\ IsBoolean(q) /\ Name(q) \in DOMAIN Values(q)
                       /\ BooleanParameterValue(Values(q)[Name(q)]).kind # "boolean"
           wrong == {q \in ToSet(parameters) : Wrong(q)}
<1>1. {<<q.in, q.name, "must be true or false">> : q \in wrong} = {}
  BY DEF BooleanErrors
<1>2. p.in = "query" /\ p \in ToSet(parameters)
  BY DEF QueryParameters
<1>3. Values(p) = request.query /\ Name(p) = p.name
  BY <1>2
<1> HIDE DEF Values, Name
<1> HIDE DEF wrong
<1>4. wrong = {}
  BY <1>1
<1>5. ~ Wrong(p)
  BY <1>2, <1>4 DEF wrong
<1> QED
  BY <1>3, <1>5

\* What is found valid has its types after the conversions.
LEMMA ConvertedQuery ==
  ASSUME TypesAreKnown, NEW parameters, PlainParameters(parameters),
         NEW request, QueryOK(request.query),
         FindMissingRequired(parameters, "query", request.query) = {},
         NumericErrors(parameters, request.query) = {}, BooleanErrors(parameters, request) = {}
  PROVE  HasTypes(CastParameters(
                    NormalizeArrayQueryParameters(
                      CollectExplodedObjectParams(request.query, parameters), parameters),
                    ParameterTypes(parameters, "query")),
                  parameters)
<1> DEFINE query == request.query
           result == CollectExplodedObjectParams(query, parameters)
           normal == NormalizeArrayQueryParameters(result, parameters)
           types == ParameterTypes(parameters, "query")
           values == CastParameters(normal, types)
           arrays == {q \in ToSet(parameters) : /\ IsArray(q) /\ q.name \in DOMAIN result
                                                /\ result[q.name].kind \in {"string", "list"}}
<1>1. /\ DOMAIN normal = DOMAIN result
      /\ \A name \in DOMAIN result :
           /\ (\E q \in arrays : q.name = name) => normal[name].kind = "array"
           /\ ~ (\E q \in arrays : q.name = name) => normal[name] = result[name]
  <2> HIDE DEF result
  <2> QED
    BY ArraysAreMade
<1>2. /\ DOMAIN values = DOMAIN normal
      /\ \A name \in DOMAIN normal : values[name] =
           CastParameter(normal[name], IF name \in DOMAIN types THEN types[name] ELSE "string")
  <2> HIDE DEF normal, types
  <2> QED
    BY DEF CastParameters
<1> HIDE DEF result, normal, types, values, arrays
<1> SUFFICES ASSUME NEW p \in QueryParameters(parameters)
             PROVE  LET type == DeclaredType(p)
                    IN /\ p.required => p.name \in DOMAIN values
                       /\ p.name \in DOMAIN values =>
                            CASE type \in {"integer", "number"} -> values[p.name].kind = "number"
                              [] type \in {"boolean", "array"} -> values[p.name].kind = type
                              [] OTHER -> TRUE
  BY DEF HasTypes, QueryParameters, values, normal, types, result
<1> DEFINE name == p.name
           type == DeclaredType(p)
<1>3. p.in = "query" /\ p \in ToSet(parameters)
  BY DEF QueryParameters
<1>4. /\ ~ IsExplodedObjectQueryParam(p) =>
           /\ name \in DOMAIN result <=> name \in DOMAIN query
           /\ name \in DOMAIN result => result[name] = query[name]
      /\ IsExplodedObjectQueryParam(p) /\ DOMAIN PropertiesOf(p) \cap DOMAIN query # {}
           => name \in DOMAIN result
  <2> HIDE DEF query
  <2> QED
    BY Collected DEF result
<1>5. type # Undefined => name \in DOMAIN types /\ types[name] = type
  BY TypeOfParameter DEF types
<1>6. /\ IsExplodedObjectQueryParam(p) =>
           /\ type \notin {"integer", "number", "boolean", "array"}
           /\ p.required => DOMAIN PropertiesOf(p) # {}
      /\ type = "boolean" => IsBoolean(p)
      /\ IsArray(p) <=> type = "array"
  BY DEF PlainParameters
<1>7. \A q \in arrays : q.name = name => q = p /\ IsArray(p)
  <2>1. \A q \in arrays : q \in QueryParameters(parameters) /\ IsArray(q)
    BY DEF arrays, QueryParameters, IsArray
  <2>2. \A q \in QueryParameters(parameters) : q.name = name => q = p
    BY DEF PlainParameters
  <2> QED
    BY <2>1, <2>2
<1>8. p.required => name \in DOMAIN values
  <2> SUFFICES ASSUME p.required PROVE name \in DOMAIN result
    BY <1>1, <1>2
  <2>1. CASE IsExplodedObjectQueryParam(p)
    <3>1. DOMAIN PropertiesOf(p) # {}
      BY <1>6, <2>1
    <3>2. DOMAIN PropertiesOf(p) \cap DOMAIN query # {}
      BY <2>1, <3>1, NothingMissing
    <3> QED
      BY <1>4, <2>1, <3>2
  <2>2. CASE ~ IsExplodedObjectQueryParam(p)
    <3>1. name \in DOMAIN query
      BY <2>2, NothingMissing
    <3> QED
      BY <1>4, <2>2, <3>1
  <2> QED
    BY <2>1, <2>2
<1>9. ASSUME name \in DOMAIN result, type \in {"integer", "number", "boolean"}
      PROVE  name \in DOMAIN query /\ values[name] = CastParameter(query[name], type)
  <2>1. ~ IsExplodedObjectQueryParam(p) /\ ~ IsArray(p) /\ type # Undefined
    BY <1>6, <1>9 DEF TypesAreKnown
  <2>2. name \in DOMAIN query /\ result[name] = query[name]
    BY <1>4, <1>9, <2>1
  <2>3. normal[name] = result[name]
    BY <1>1, <1>7, <1>9, <2>1
  <2> QED
    BY <1>1, <1>2, <1>5, <1>9, <2>1, <2>2, <2>3
<1>10. ASSUME name \in DOMAIN result, type \in {"integer", "number"}
       PROVE  values[name].kind = "number"
  <2>1. name \in DOMAIN query /\ values[name] = NumericParameterValue(query[name], type)
    BY <1>9, <1>10 DEF CastParameter
  <2>2. NumericParameterValue(query[name], type).kind = "number"
    BY <1>10, <2>1, NumbersAreFinite
  <2> QED
    BY <2>1, <2>2
<1>11. ASSUME name \in DOMAIN result, type = "boolean"
       PROVE  values[name].kind = "boolean"
  <2>1. name \in DOMAIN query /\ values[name] = BooleanParameterValue(query[name])
    BY <1>9, <1>11 DEF CastParameter
  <2>2. BooleanParameterValue(query[name]).kind = "boolean"
    <3>1. IsBoolean(p)
      BY <1>6, <1>11
    <3> QED
      BY <2>1, <3>1, BooleansAreTrueOrFalse
  <2> QED
    BY <2>1, <2>2
<1>12. ASSUME name \in DOMAIN result, type = "array"
       PROVE  values[name].kind = "array"
  <2>1. ~ IsExplodedObjectQueryParam(p) /\ IsArray(p) /\ type # Undefined
    BY <1>6, <1>12 DEF TypesAreKnown
  <2>2. name \in DOMAIN query /\ result[name] = query[name]
    BY <1>4, <1>12, <2>1
  <2>3. result[name].kind \in {"string", "list"}
    BY <2>2 DEF QueryOK
  <2>4. p \in arrays
    BY <1>3, <1>12, <2>1, <2>3 DEF arrays
  <2>5. normal[name].kind = "array"
    BY <1>1, <1>12, <2>4
  <2>6. values[name] = normal[name]
    BY <1>1, <1>2, <1>5, <1>12, <2>1 DEF CastParameter
  <2> QED
    BY <2>5, <2>6
<1> HIDE DEF name, type
<1>13. name \in DOMAIN values =>
         CASE type \in {"integer", "number"} -> values[name].kind = "number"
           [] type \in {"boolean", "array"} -> values[name].kind = type
           [] OTHER -> TRUE
  BY <1>1, <1>2, <1>10, <1>11, <1>12
<1> QED
  BY <1>8, <1>13 DEF name, type

\* The operations of a document have plain parameters, with those of their
\* paths and of the API keys.
DocumentTyped(document) ==
  /\ IsList(document.paths)
  /\ \A i \in DOMAIN document.paths : LET item == document.paths[i] IN
       \A name \in DOMAIN item.operations : LET operation == item.operations[name] IN
         /\ "parameters" \in DOMAIN operation
         /\ PlainParameters(MergeParameters(MergeParameters(item.parameters, operation.parameters),
                                            ApiKeySecurityParameters(document)))

RunnerTyped(runner) ==
  "document" \in DOMAIN runner /\ (runner.document # Undefined => DocumentTyped(runner.document))

\* The constants that the types of arguments depend on.
WellTyped ==
  /\ ValidateRequests /\ TypesAreKnown
  /\ IsList(InitialRunners) /\ \A r \in DOMAIN InitialRunners : RunnerTyped(InitialRunners[r])
  /\ \A document \in Documents : document # Undefined => DocumentTyped(document)
  /\ \A request \in Requests : "query" \in DOMAIN request /\ QueryOK(request.query)
  /\ \A pair \in Catalogs : /\ pair[1] # 0
                            /\ \A input \in Inputs[pair] :
                                 /\ input.of \in {"path", "query", "headers", "cookies", "form",
                                                    "body"}
                                 /\ input.of = "query" => QueryOK(input.values)

\* An operation that is looked up has plain parameters.
LEMMA FoundPlain ==
  ASSUME NEW document, document # Undefined => DocumentTyped(document), NEW path, NEW method,
         OperationForPathAndMethod(document, path, method) # Undefined
  PROVE  PlainParameters(OperationForPathAndMethod(document, path, method).parameters)
<1> DEFINE item == FindPathItem(document, path)
           same == {i \in DOMAIN document.paths : KeyOf(document.paths[i].path) = KeyOf(path)}
           names == {LowerCase[method], method} \cap DOMAIN item.operations
           name == IF LowerCase[method] \in names THEN LowerCase[method] ELSE method
           operation == item.operations[name]
           all == MergeParameters(MergeParameters(item.parameters, operation.parameters),
                                  ApiKeySecurityParameters(document))
           found == OperationForPathAndMethod(document, path, method)
<1>1. /\ item # Undefined /\ names # {}
      /\ found = [operation EXCEPT !.parameters = all,
                                   !.produces = IF @ = <<>> THEN document.produces ELSE @]
  BY DEF OperationForPathAndMethod
<1>2. document # Undefined /\ same # {} /\ item = document.paths[Min(same)]
  BY <1>1 DEF FindPathItem
<1>3. Min(same) \in same
  <2>1. same \subseteq Nat
    BY <1>2 DEF DocumentTyped, IsList
  <2> HIDE DEF same
  <2> QED
    BY <1>2, <2>1, MinOf
<1>4. name \in DOMAIN item.operations
  BY <1>1
<1>5. Min(same) \in DOMAIN document.paths
  BY <1>3
<1> HIDE DEF same, names, name, item
<1>6. "parameters" \in DOMAIN operation /\ PlainParameters(all)
  BY <1>2, <1>4, <1>5 DEF DocumentTyped
<1> HIDE DEF all, operation
<1>7. found.parameters = all
  BY <1>1, <1>6
<1> QED
  BY <1>6, <1>7

\* The arguments of a call have the types that its operation declares.
TypedCall(call) ==
  /\ "is" \in DOMAIN call
  /\ call.is = "handler" =>
       /\ {"operation", "arguments"} \subseteq DOMAIN call
       /\ call.operation # Undefined => HasTypes(call.arguments.query, call.operation.parameters)

\* A call is made of a request that was found valid.
LEMMA CallTyped ==
  ASSUME WellTyped, NEW runner, RunnerTyped(runner), NEW url, NEW request, QueryOK(request.query),
         "query" \in DOMAIN request
  PROVE  TypedCall(Call(runner, url, request))
<1> DEFINE path == WithoutBasePath(runner, url)
           matched == IF IsVersioned(runner) THEN SelectedContractPath(runner, path)
                      ELSE Handler(runner.registry, request.method, path).matchedPath
           operation == OperationForPathAndMethod(runner.document, matched, request.method)
           decoded == WithDecodedBody(operation, request)
           endpoint == Endpoint(runner.registry, decoded.method, path,
                                IF IsVersioned(runner) THEN matched ELSE <<>>)
           call == Call(runner, url, request)
<1>1. call = Admitted(runner, path, matched, operation, request)
  BY DEF Call
<1>2. operation # Undefined => PlainParameters(operation.parameters)
  BY FoundPlain DEF RunnerTyped
<1>3. decoded.query = request.query
  <2> HIDE DEF operation
  <2>1. decoded = request \/ \E body : decoded = [request EXCEPT !.body = body]
    BY DEF WithDecodedBody
  <2> HIDE DEF decoded
  <2> QED
    BY <2>1
<1> HIDE DEF path, matched, operation
<1>4. \A status, allow : TypedCall(Answer(status, allow))
  BY DEF Answer, TypedCall
<1>5. TypedCall(call) \/ call = Validated(runner, path, matched, operation, decoded)
  BY <1>1, <1>4 DEF Admitted
<1>6. \/ TypedCall(call)
      \/ /\ call = Met(runner, matched, operation, decoded, endpoint)
         /\ ValidateRequest(operation, decoded) = {}
  BY <1>4, <1>5 DEF Validated, WellTyped
<1> HIDE DEF decoded, endpoint
<1>7. ASSUME ValidateRequest(operation, decoded) = {}
      PROVE  TypedCall(Met(runner, matched, operation, decoded, endpoint))
  <2> DEFINE met == Met(runner, matched, operation, decoded, endpoint)
             parameters == operation.parameters
  <2>1. /\ {"is", "operation", "arguments"} \subseteq DOMAIN met /\ met.operation = operation
        /\ met.arguments = Arguments(runner, operation, decoded, endpoint)
    BY DEF Met
  <2> HIDE DEF met
  <2>2. ASSUME operation # Undefined PROVE HasTypes(met.arguments.query, parameters)
    <3>1. met.arguments.query =
            CastParameters(NormalizeArrayQueryParameters(
                             CollectExplodedObjectParams(decoded.query, parameters), parameters),
                           ParameterTypes(parameters, "query"))
      BY <2>1, <2>2 DEF Arguments
    <3>2. /\ FindMissingRequired(parameters, "query", decoded.query) = {}
          /\ NumericErrors(parameters, decoded.query) = {}
          /\ BooleanErrors(parameters, decoded) = {}
      BY <1>7, <2>2 DEF ValidateRequest
    <3>3. PlainParameters(parameters) /\ QueryOK(decoded.query) /\ TypesAreKnown
      BY <1>2, <1>3, <2>2 DEF WellTyped
    <3> HIDE DEF parameters
    <3> QED
      BY <3>1, <3>2, <3>3, ConvertedQuery
  <2>3. TypedCall(met)
    BY <2>1, <2>2 DEF TypedCall
  <2> QED
    BY <2>3 DEF met
<1> QED
  BY <1>6, <1>7 DEF call

\* Routed() adds nothing to the arguments.
LEMMA RoutedTyped ==
  ASSUME WellTyped, NEW runner, RunnerTyped(runner), NEW path, NEW request,
         QueryOK(request.query), "query" \in DOMAIN request, NEW override
  PROVE  TypedCall(Routed(runner, path, request, override))
<1> DEFINE call == Call(runner, path, request)
           routed == Routed(runner, path, request, override)
           allowed == IF override = Undefined THEN AllowedMethodsForPath(runner, path) ELSE override
           Preflight == [Answer("200", {}) EXCEPT !.contentType = Undefined, !.body = Undefined]
           given == IF /\ call.is = "answer" /\ call.status = "405"
                       /\ override # Undefined /\ ~ IsVersioned(runner)
                    THEN [call EXCEPT !.allow = override] ELSE call
<1>1. CASE IsProxied(path)
  <2>1. routed = [is |-> "proxied", target |-> routedUrl]
    BY <1>1 DEF Routed
  <2> QED
    BY <2>1 DEF TypedCall
<1>2. ASSUME NEW does, TypedCall(does), NEW methods
      PROVE  TypedCall(AddCors(does, methods))
  <2>1. /\ DOMAIN does \subseteq DOMAIN AddCors(does, methods)
        /\ AddCors(does, methods).is = does.is
        /\ "operation" \in DOMAIN does => AddCors(does, methods).operation = does.operation
        /\ "arguments" \in DOMAIN does => AddCors(does, methods).arguments = does.arguments
    BY <1>2 DEF TypedCall, AddCors
  <2> QED
    BY <1>2, <2>1 DEF TypedCall
<1>3. CASE ~ IsProxied(path) /\ request.method = "OPTIONS"
  <2>1. routed = AddCors(Preflight, allowed)
    BY <1>3 DEF Routed
  <2>2. TypedCall(Preflight)
    BY DEF Answer, TypedCall
  <2> HIDE DEF Preflight, allowed
  <2> QED
    BY <1>2, <2>1, <2>2
<1>4. CASE ~ IsProxied(path) /\ request.method # "OPTIONS"
  <2>1. routed = AddCors(given, allowed)
    BY <1>4 DEF Routed
  <2>2. TypedCall(call)
    BY CallTyped
  <2> HIDE DEF call
  <2>3. TypedCall(given)
    BY <2>2 DEF TypedCall
  <2> HIDE DEF given, allowed
  <2> QED
    BY <1>2, <2>1, <2>3
<1> QED
  BY <1>1, <1>3, <1>4

\* Whatever runner is chosen, its call is typed.
LEMMA GivenTyped ==
  ASSUME WellTyped, IsList(runners), NEW request, QueryOK(request.query),
         "query" \in DOMAIN request, NEW state, \A r \in DOMAIN runners : RunnerTyped(state[r])
  PROVE  TypedCall(Given(Select(request, state), request, state).does)
<1> DEFINE choice == Select(request, state)
<1>1. CASE choice = <<>>
  <2>1. Given(choice, request, state).does = NextMiddleware
    BY <1>1 DEF Given
  <2>2. TypedCall(NextMiddleware)
    BY DEF NextMiddleware, AddCors, Answer, TypedCall
  <2> QED
    BY <2>1, <2>2
<1>2. CASE choice # <<>>
  <2>1. PICK r \in DOMAIN runners : \E methods : choice = <<r, methods>>
    BY <1>2, Chosen DEF Candidates
  <2>2. PICK methods : choice = <<r, methods>>
    BY <2>1
  <2> HIDE DEF choice
  <2>3. Given(choice, request, state).does =
          Routed(state[r], PathWithinPrefix(request.url, state[r].prefix), request, methods)
    BY <1>2, <2>2 DEF Given
  <2>4. TypedCall(Given(choice, request, state).does)
    BY <2>3, RoutedTyped
  <2> QED
    BY <2>4 DEF choice
<1> QED
  BY <1>1, <1>2

\* The documents of the runners, the call at hand, and what a builder would send.
RunnersTyped == IsList(runners) /\ \A r \in DOMAIN runners : RunnerTyped(runners[r])
CallIsTyped ==
  exchange.stage = "handling" => {"stage", "call"} \subseteq DOMAIN exchange /\ TypedArguments
BuilderTyped == builder # NoBuilder => "query" \in DOMAIN builder /\ QueryOK(builder.query)

\* The inductive invariant of the types of arguments.
TypesInv == RunnersTyped /\ CallIsTyped /\ BuilderTyped

\* It holds initially.
LEMMA TypesInit == ASSUME WellTyped, ClientInit PROVE TypesInv
BY DEF ClientInit, Init, Idle, WellTyped, TypesInv, RunnersTyped, CallIsTyped, BuilderTyped

\* A request that arrives is converted as its operation says.
LEMMA ArriveTypes ==
  ASSUME WellTyped, RunnersTyped, NEW request, QueryOK(request.query), "query" \in DOMAIN request,
         Arrive(request)
  PROVE  RunnersTyped' /\ CallIsTyped'
<1> DEFINE state == [r \in DOMAIN runners |->
                      IF r \in Candidates(request) THEN Refreshed(runners[r]) ELSE runners[r]]
           given == Given(Select(request, state), request, state)
<1>1. \A runner : RunnerTyped(runner) => RunnerTyped(Refreshed(runner))
  BY DEF Refreshed, RunnerTyped
<1>2. runners' = state /\ exchange' = Exchange(request, given)
  BY DEF Arrive
<1>3. \A r \in DOMAIN runners : RunnerTyped(state[r])
  BY <1>1 DEF RunnersTyped
<1>4. TypedCall(given.does)
  <2> HIDE DEF state
  <2> QED
    BY <1>3, GivenTyped DEF RunnersTyped
<1>5. RunnersTyped'
  BY <1>2, <1>3 DEF RunnersTyped, IsList
<1> HIDE DEF given
<1>6. CallIsTyped'
  BY <1>2, <1>4 DEF CallIsTyped, TypedArguments, Exchange, TypedCall
<1> QED
  BY <1>5, <1>6

\* The call at hand stays as it is, whatever becomes of the documents.
LEMMA OthersType ==
  ASSUME WellTyped, RunnersTyped, CallIsTyped, Others
  PROVE  RunnersTyped' /\ CallIsTyped'
<1>1. ASSUME exchange' = exchange PROVE CallIsTyped'
  BY <1>1 DEF CallIsTyped, TypedArguments
<1>2. ASSUME runners' = runners PROVE RunnersTyped'
  BY <1>2 DEF RunnersTyped, IsList
<1>3. ASSUME NEW r \in DOMAIN runners, NEW registry,
             runners' = [runners EXCEPT ![r].registry = registry]
      PROVE  RunnersTyped'
  <2>1. DOMAIN runners' = DOMAIN runners
    BY <1>3
  <2>2. \A q \in DOMAIN runners : /\ DOMAIN runners'[q] = DOMAIN runners[q]
                                 /\ runners'[q].document = runners[q].document
    BY <1>3
  <2> QED
    BY <2>1, <2>2 DEF RunnersTyped, RunnerTyped, IsList
<1>4. ASSUME NEW reply \in Replies, Finish(reply)
      PROVE  RunnersTyped' /\ CallIsTyped'
  <2>1. exchange.stage = "handling" /\ "stage" \in DOMAIN exchange
    BY <1>4 DEF Finish, CallIsTyped
  <2>2. PICK answer : exchange' = [exchange EXCEPT !.stage = "answered", !.reply = reply,
                                     !.answer = answer]
    BY <1>4 DEF Finish
  <2>3. exchange'.stage = "answered"
    BY <2>1, <2>2
  <2> QED
    BY <1>2, <1>4, <2>3 DEF Finish, CallIsTyped
<1>5. ASSUME Leave
      PROVE  RunnersTyped' /\ CallIsTyped'
  BY <1>2, <1>5 DEF Leave, Idle, CallIsTyped
<1>6. ASSUME NEW r \in DOMAIN runners, NEW pair \in RouteModules,
             LoadRoute(r, pair[1], pair[2]) \/ DropRoute(r, pair[1])
      PROVE  RunnersTyped' /\ CallIsTyped'
  BY <1>1, <1>3, <1>6 DEF LoadRoute, DropRoute, Change
<1>7. ASSUME NEW r \in DOMAIN runners, NEW path \in MiddlewarePaths, LoadMiddleware(r, path)
      PROVE  RunnersTyped' /\ CallIsTyped'
  BY <1>1, <1>3, <1>7 DEF LoadMiddleware, Change
<1>8. ASSUME NEW r \in DOMAIN runners, NEW document \in Documents, ReloadDocument(r, document)
      PROVE  RunnersTyped' /\ CallIsTyped'
  <2>1. runners' = [runners EXCEPT ![r].document = document] /\ exchange' = exchange
    BY <1>8 DEF ReloadDocument, Change
  <2>2. DOMAIN runners' = DOMAIN runners
    BY <2>1
  <2>3. ASSUME NEW q \in DOMAIN runners PROVE RunnerTyped(runners'[q])
    <3>1. RunnerTyped(runners[q]) /\ (document # Undefined => DocumentTyped(document))
      BY DEF RunnersTyped, WellTyped
    <3>2. CASE q = r
      <4>1. DOMAIN runners'[q] = DOMAIN runners[q] /\ runners'[q].document = document
        BY <2>1, <3>1, <3>2 DEF RunnerTyped
      <4> QED
        BY <3>1, <4>1 DEF RunnerTyped
    <3>3. CASE q # r
      BY <2>1, <3>1, <3>3
    <3> QED
      BY <3>2, <3>3
  <2> QED
    BY <1>1, <2>1, <2>2, <2>3 DEF RunnersTyped, IsList
<1>9. ASSUME NEW setting \in ProxySettings, SetProxy(setting[1], setting[2])
      PROVE  RunnersTyped' /\ CallIsTyped'
  BY <1>1, <1>2, <1>9 DEF SetProxy, Change
<1>10. ASSUME NEW url \in ProxyUrls, SetProxyUrl(url)
       PROVE  RunnersTyped' /\ CallIsTyped'
  BY <1>1, <1>2, <1>10 DEF SetProxyUrl, Change
<1> QED
  BY <1>4, <1>5, <1>6, <1>7, <1>8, <1>9, <1>10 DEF Others

\* What a builder sets in a query is what its inputs have.
LEMMA BuilderTypes ==
  ASSUME WellTyped, BuilderTyped, ClientNext
  PROVE  BuilderTyped'
<1>1. ASSUME UNCHANGED builder PROVE BuilderTyped'
  BY <1>1 DEF BuilderTyped
<1>2. ASSUME NEW b, NEW document, "query" \in DOMAIN b, QueryOK(b.query)
      PROVE  /\ "query" \in DOMAIN Resolved(b, document)
             /\ QueryOK(Resolved(b, document).query)
  BY <1>2 DEF Resolved
<1>3. ASSUME NEW catalog \in Catalogs, MakeRoute(catalog[1], catalog[2])
      PROVE  BuilderTyped'
  <2> DEFINE b == NewBuilder(catalog[1], catalog[2])
  <2>1. "query" \in DOMAIN b /\ b.query = <<>> /\ QueryOK(<<>>)
    BY DEF NewBuilder, QueryOK
  <2>2. builder' = Resolved(b, DocumentOf(b))
    BY <1>3 DEF MakeRoute, Becomes
  <2> HIDE DEF b
  <2> QED
    BY <1>2, <2>1, <2>2 DEF BuilderTyped
<1>4. ASSUME NEW method \in Spellings, SetMethod(method)
      PROVE  BuilderTyped'
  <2> DEFINE b == WithMethod(builder, method)
  <2>1. "query" \in DOMAIN builder /\ QueryOK(builder.query)
    BY <1>4 DEF SetMethod, BuilderTyped
  <2>2. "query" \in DOMAIN b /\ b.query = builder.query
    BY <2>1 DEF WithMethod
  <2>3. builder' = Resolved(b, DocumentOf(b))
    BY <1>4 DEF SetMethod, Becomes
  <2> HIDE DEF b
  <2> QED
    BY <1>2, <2>1, <2>2, <2>3 DEF BuilderTyped
<1>5. ASSUME NEW pair \in Catalogs, NEW input \in Inputs[pair], Add(input)
      PROVE  BuilderTyped'
  <2> DEFINE b == With(builder, input)
  <2>1. "query" \in DOMAIN builder /\ QueryOK(builder.query)
    BY <1>5 DEF Add, BuilderTyped
  <2>2. "query" \in DOMAIN b /\ QueryOK(b.query)
    <3> DEFINE new == input.values
               Added(old) == [name \in DOMAIN new \cup DOMAIN old |->
                                IF name \in DOMAIN new THEN new[name] ELSE old[name]]
               added == Added(builder.query)
    <3>1. CASE input.of = "query"
      <4>1. b = [builder EXCEPT !.query = added]
        BY <3>1 DEF With
      <4>2. QueryOK(new)
        BY <3>1 DEF WellTyped
      <4>3. QueryOK(added)
        <5> SUFFICES ASSUME NEW name \in DOMAIN added
                     PROVE  added[name].kind \in {"string", "list"}
          BY DEF QueryOK
        <5>1. CASE name \in DOMAIN new
          BY <4>2, <5>1 DEF QueryOK
        <5>2. CASE name \in DOMAIN builder.query /\ name \notin DOMAIN new
          BY <2>1, <5>2 DEF QueryOK
        <5> QED
          BY <5>1, <5>2
      <4> HIDE DEF added, b
      <4> QED
        BY <2>1, <4>1, <4>3
    <3>2. CASE input.of # "query"
      <4>1. PICK field \in {"path", "headers", "cookies", "entity"} :
              \E value : b = [builder EXCEPT ![field] = value]
        <5>1. input.of \in {"path", "headers", "cookies", "form", "body"}
          BY <3>2 DEF WellTyped
        <5> QED
          BY <3>2, <5>1 DEF With
      <4>2. PICK value : b = [builder EXCEPT ![field] = value]
        BY <4>1
      <4> HIDE DEF b
      <4> QED
        BY <2>1, <4>2
    <3> QED
      BY <3>1, <3>2
  <2>3. builder' = Resolved(b, DocumentOf(b))
    BY <1>5 DEF Add, Becomes
  <2> HIDE DEF b
  <2> QED
    BY <1>2, <2>1, <2>2, <2>3 DEF BuilderTyped
<1>6. ASSUME Send PROVE BuilderTyped'
  BY <1>6 DEF Send, BuilderTyped
<1> QED
  BY <1>1, <1>3, <1>4, <1>5, <1>6 DEF ClientNext

\* Every step keeps it.
LEMMA TypesNext ==
  ASSUME WellTyped, TypesInv, [ClientNext]_clientVars
  PROVE  TypesInv'
<1> USE DEF TypesInv
<1>1. ASSUME UNCHANGED vars
      PROVE  RunnersTyped' /\ CallIsTyped'
  BY <1>1 DEF vars, RunnersTyped, CallIsTyped, TypedArguments, IsList
<1>2. ASSUME Arrivals
      PROVE  RunnersTyped' /\ CallIsTyped'
  BY <1>2, ArriveTypes DEF Arrivals, WellTyped
<1>3. ASSUME Send
      PROVE  RunnersTyped' /\ CallIsTyped'
  <2>1. QueryOK(builder.query)
    BY <1>3 DEF Send, BuilderTyped
  <2>2. RequestOf(builder).query = builder.query /\ "query" \in DOMAIN RequestOf(builder)
    BY DEF RequestOf
  <2> QED
    BY <1>3, <2>1, <2>2, ArriveTypes DEF Send
<1>4. ASSUME NEW b, Becomes(b)
      PROVE  UNCHANGED vars
  BY <1>4 DEF Becomes
<1>5. ASSUME \/ \E catalog \in Catalogs : MakeRoute(catalog[1], catalog[2])
             \/ \E method \in Spellings : SetMethod(method)
             \/ \E pair \in Catalogs : \E input \in Inputs[pair] : Add(input)
      PROVE  UNCHANGED vars
  BY <1>4, <1>5 DEF MakeRoute, SetMethod, Add
<1>6. CASE ClientNext
  <2>1. BuilderTyped'
    BY <1>6, BuilderTypes
  <2>2. RunnersTyped' /\ CallIsTyped'
    BY <1>1, <1>2, <1>3, <1>5, <1>6, OthersType DEF ClientNext
  <2> QED
    BY <2>1, <2>2
<1>7. CASE UNCHANGED clientVars
  BY <1>1, <1>7 DEF clientVars, BuilderTyped
<1> QED
  BY <1>6, <1>7

(***************************************************************************)
(* While a handler runs, its arguments of the query are of the types that  *)
(* its operation declares, and what it requires is there, whatever         *)
(* documents changed since: validation and the conversions after it, which *)
(* read the types of parameters in ways of their own, agree                *)
(* (validateRequest(), collectExplodedObjectParams(),                      *)
(* normalizeArrayQueryParameters(), castParameters()).                     *)
(***************************************************************************)
THEOREM ArgumentsAreTyped ==
  ASSUME WellTyped PROVE ClientSpec => []TypedArguments
<1>1. ClientInit => TypesInv
  BY TypesInit
<1>2. TypesInv /\ [ClientNext]_clientVars => TypesInv'
  BY TypesNext
<1>3. TypesInv => TypedArguments
  BY DEF TypesInv, CallIsTyped, TypedArguments
<1> QED
  BY <1>1, <1>2, <1>3, PTL DEF ClientSpec
-----------------------------------------------------------------------------
(* Requests that are built.                                                *)

IsSequence(values) ==
  /\ Len(values) \in Nat /\ DOMAIN values = 1 .. Len(values)
  /\ values = [i \in DOMAIN values |-> values[i]]

\* A sequence is one of its elements.
LEMMA Sequence ==
  ASSUME NEW values, IsSequence(values), NEW T, ToSet(values) \subseteq T
  PROVE  values \in Seq(T)
<1>1. values \in [1 .. Len(values) -> T]
  <2>1. \A i \in 1 .. Len(values) : values[i] \in T
    BY DEF IsSequence, ToSet
  <2> QED
    BY <2>1 DEF IsSequence
<1> QED
  BY <1>1 DEF IsSequence

LEMMA OneSet ==
  ASSUME NEW T, NEW parameters \in Seq(T), NEW p \in T
  PROVE  SetParameter(parameters, p) \in Seq(T)
<1> DEFINE IsSame(q) == q.in = p.in /\ q.name = p.name
           replaced == [i \in DOMAIN parameters |->
                          IF IsSame(parameters[i]) THEN p ELSE parameters[i]]
<1>1. Append(parameters, p) \in Seq(T)
  OBVIOUS
<1>2. replaced \in Seq(T)
  <2>1. Len(parameters) \in Nat /\ DOMAIN parameters = 1 .. Len(parameters)
    OBVIOUS
  <2>2. \A i \in DOMAIN parameters : parameters[i] \in T
    OBVIOUS
  <2> HIDE DEF IsSame
  <2>3. replaced \in [1 .. Len(parameters) -> T]
    BY <2>1, <2>2
  <2> HIDE DEF replaced
  <2> QED
    BY <2>1, <2>3
<1> QED
  BY <1>1, <1>2 DEF SetParameter

\* The stages of the merging of parameters.
LEMMA MergedStages ==
  ASSUME NEW parameters, Len(parameters) \in Nat
  PROVE  \E upto :
           /\ Merged(parameters) = upto[Len(parameters)]
           /\ upto[0] = <<>>
           /\ \A n \in 1 .. Len(parameters) : upto[n] = SetParameter(upto[n - 1], parameters[n])
<1> DEFINE Body(upto, k) == [n \in 0 .. k |-> IF n = 0 THEN <<>>
                                              ELSE SetParameter(upto[n - 1], parameters[n])]
           Good(k) == \E upto : upto = Body(upto, k)
           numbers == {k \in Nat : Good(k)}
<1>1. Good(0)
  <2> DEFINE one == [n \in 0 .. 0 |-> <<>>]
  <2>1. one = Body(one, 0)
    OBVIOUS
  <2> QED
    BY <2>1
<1>2. ASSUME NEW k \in Nat, Good(k) PROVE Good(k + 1)
  <2>1. PICK upto : upto = Body(upto, k)
    BY <1>2
  <2> DEFINE longer == [n \in 0 .. k + 1 |-> IF n = k + 1
                          THEN SetParameter(upto[k], parameters[k + 1]) ELSE upto[n]]
  <2>2. \A n \in 0 .. k : upto[n] = IF n = 0 THEN <<>>
                                    ELSE SetParameter(upto[n - 1], parameters[n])
    BY <2>1
  <2>3. \A n \in 0 .. k : n # k + 1 /\ n \in 0 .. k + 1
    OBVIOUS
  <2>4. \A n \in 0 .. k : longer[n] = upto[n]
    BY <2>3
  <2>5. \A n \in 0 .. k + 1 : n \in 0 .. k \/ n = k + 1
    OBVIOUS
  <2>6. \A n \in 0 .. k + 1 : n # 0 => n - 1 \in 0 .. k
    OBVIOUS
  <2>7. longer[k + 1] = SetParameter(upto[k], parameters[k + 1]) /\ k + 1 # 0
    OBVIOUS
  <2>8. ASSUME NEW n \in 0 .. k + 1
        PROVE  longer[n] = IF n = 0 THEN <<>> ELSE SetParameter(longer[n - 1], parameters[n])
    <3> HIDE DEF longer
    <3>1. CASE n \in 0 .. k
      BY <2>2, <2>4, <2>6, <3>1
    <3>2. CASE n = k + 1
      <4>1. longer[n - 1] = upto[k]
        BY <2>4, <3>2
      <4> QED
        BY <2>7, <3>2, <4>1
    <3> QED
      BY <2>5, <3>1, <3>2
  <2>9. longer = Body(longer, k + 1)
    <3>1. longer = [n \in 0 .. k + 1 |-> longer[n]]
      OBVIOUS
    <3> HIDE DEF longer
    <3> QED
      BY <2>8, <3>1
  <2> HIDE DEF longer, Body
  <2> QED
    BY <2>9
<1>3. Good(Len(parameters))
  <2> HIDE DEF Good
  <2>1. 0 \in numbers /\ \A n \in numbers : n + 1 \in numbers
    BY <1>1, <1>2
  <2>2. numbers \subseteq Nat
    OBVIOUS
  <2> HIDE DEF numbers
  <2>3. numbers = Nat
    BY <2>1, <2>2, Induction
  <2> QED
    BY <2>3 DEF numbers
<1> DEFINE upto == CHOOSE s : s = Body(s, Len(parameters))
<1>4. upto = Body(upto, Len(parameters))
  BY <1>3
<1>5. Merged(parameters) = upto[Len(parameters)]
  BY DEF Merged
<1> HIDE DEF upto
<1>6. upto[0] = <<>>
  BY <1>4
<1>7. \A n \in 1 .. Len(parameters) : upto[n] = SetParameter(upto[n - 1], parameters[n])
  <2> SUFFICES ASSUME NEW n \in 1 .. Len(parameters)
               PROVE  upto[n] = SetParameter(upto[n - 1], parameters[n])
    OBVIOUS
  <2>1. n \in 0 .. Len(parameters) /\ n # 0
    OBVIOUS
  <2> QED
    BY <1>4, <2>1
<1> QED
  BY <1>5, <1>6, <1>7

\* Merging makes no parameters up.
LEMMA MergedOnly ==
  ASSUME NEW T, NEW parameters \in Seq(T)
  PROVE  Merged(parameters) \in Seq(T)
<1> DEFINE length == Len(parameters)
<1>1. length \in Nat /\ \A n \in 1 .. length : parameters[n] \in T
  OBVIOUS
<1>2. PICK upto : /\ Merged(parameters) = upto[length]
                  /\ upto[0] = <<>>
                  /\ \A n \in 1 .. length : upto[n] = SetParameter(upto[n - 1], parameters[n])
  BY <1>1, MergedStages
<1> DEFINE numbers == {n \in Nat : n <= length => upto[n] \in Seq(T)}
<1> HIDE DEF length
<1>3. 0 \in numbers
  <2>1. upto[0] = <<>> /\ <<>> \in Seq(T)
    BY <1>2
  <2> QED
    BY <2>1
<1>4. ASSUME NEW n \in numbers PROVE n + 1 \in numbers
  <2> SUFFICES ASSUME n + 1 <= length PROVE upto[n + 1] \in Seq(T)
    OBVIOUS
  <2>1. n + 1 \in 1 .. length /\ (n + 1) - 1 = n /\ upto[n] \in Seq(T)
    BY <1>1
  <2>2. upto[n + 1] = SetParameter(upto[n], parameters[n + 1]) /\ parameters[n + 1] \in T
    BY <1>1, <1>2, <2>1
  <2> QED
    BY <2>1, <2>2, OneSet
<1>5. numbers \subseteq Nat
  OBVIOUS
<1> HIDE DEF numbers
<1>6. numbers = Nat
  BY <1>3, <1>4, <1>5, Induction
<1> QED
  BY <1>1, <1>2, <1>6 DEF numbers

\* What the server requires, the client's catalog lists.
LEMMA RequiredIsListed ==
  ASSUME NEW ofItem, IsSequence(ofItem), NEW ofOperation, IsSequence(ofOperation),
         NEW keys, IsSequence(keys), \A i \in DOMAIN keys : ~ keys[i].required,
         NEW p \in ToSet(MergeParameters(MergeParameters(ofItem, ofOperation), keys)), p.required
  PROVE  p \in ToSet(MergedParameters(ofItem, ofOperation))
<1> DEFINE own == Merged(ofItem \o ofOperation)
           T == ToSet(ofItem) \cup ToSet(ofOperation)
           U == ToSet(own) \cup ToSet(keys)
<1>1. own \in Seq(T)
  <2>1. ofItem \in Seq(T) /\ ofOperation \in Seq(T)
    BY Sequence
  <2> HIDE DEF T
  <2>2. ofItem \o ofOperation \in Seq(T)
    BY <2>1
  <2> QED
    BY <2>2, MergedOnly
<1>2. own \in Seq(U)
  <2>1. Len(own) \in Nat /\ DOMAIN own = 1 .. Len(own) /\ own \in [1 .. Len(own) -> T]
    BY <1>1
  <2> HIDE DEF T, own
  <2>2. \A i \in DOMAIN own : own[i] \in U
    BY DEF ToSet
  <2> HIDE DEF U
  <2>3. own \in [1 .. Len(own) -> U]
    BY <2>1, <2>2
  <2> QED
    BY <2>1, <2>3
<1>3. p \in U
  <2>1. keys \in Seq(U)
    BY Sequence
  <2> HIDE DEF U, own
  <2>2. own \o keys \in Seq(U)
    BY <1>2, <2>1
  <2>3. Merged(own \o keys) \in Seq(U)
    BY <2>2, MergedOnly
  <2>4. p \in ToSet(Merged(own \o keys))
    BY DEF MergeParameters, own
  <2> QED
    BY <2>3, <2>4 DEF ToSet
<1>4. p \in ToSet(own)
  <2>1. p \notin ToSet(keys)
    BY DEF ToSet
  <2> QED
    BY <1>3, <2>1
<1>5. p \in T
  <2> HIDE DEF T, own
  <2> QED
    BY <1>1, <1>4 DEF ToSet
<1>6. CASE ofItem = <<>>
  <2>1. ToSet(ofItem) = {}
    BY <1>6 DEF ToSet
  <2> QED
    BY <1>5, <1>6, <2>1 DEF MergedParameters
<1>7. CASE ofItem # <<>> /\ ofOperation = <<>>
  <2>1. ToSet(ofOperation) = {}
    BY <1>7 DEF ToSet
  <2> QED
    BY <1>5, <1>7, <2>1 DEF MergedParameters
<1>8. CASE ofItem # <<>> /\ ofOperation # <<>>
  BY <1>4, <1>8 DEF MergedParameters
<1> QED
  BY <1>6, <1>7, <1>8

\* Documents in which client and server read the same.
DocumentListed(document) ==
  /\ IsList(document.paths) /\ IsSequence(document.securitySchemes)
  /\ \A i \in DOMAIN document.paths : LET item == document.paths[i] IN
       /\ IsSequence(item.parameters)
       /\ DOMAIN item.operations \cap SendableMethods = {}
       /\ \A name \in DOMAIN item.operations : LET operation == item.operations[name] IN
            /\ {"parameters", "requestBody"} \subseteq DOMAIN operation
            /\ IsSequence(operation.parameters)
            /\ \A p \in ToSet(MergedParameters(item.parameters, operation.parameters)) :
                 p.in = "header" => LowerCase[p.name] # "cookie"
            /\ [operation EXCEPT !.parameters = MergedParameters(item.parameters, @)] # Undefined

RunnerListed(runner) ==
  "document" \in DOMAIN runner /\ (runner.document # Undefined => DocumentListed(runner.document))

\* The forms that can be filled in.
FormInputs == {input \in UNION {Inputs[pair] : pair \in Catalogs} : input.of = "form"}
FormNames == UNION {DOMAIN input.values : input \in FormInputs}
FormValues == UNION {{input.values[name] : name \in DOMAIN input.values} : input \in FormInputs}
Forms == UNION {[names -> FormValues] : names \in SUBSET FormNames}

\* The constants that the requests of builders depend on.
WellBuilt ==
  /\ Undefined \notin Forms
  /\ \A r \in DOMAIN InitialRunners : RunnerListed(InitialRunners[r])
  /\ \A document \in Documents : document # Undefined => DocumentListed(document)
  /\ \A pair \in Catalogs : /\ pair[1] \in DOMAIN InitialRunners
                            /\ \A input \in Inputs[pair] :
                                 /\ input.of \in {"path", "query", "headers", "cookies", "form",
                                                    "body"}
                                 /\ input.of = "body" => input.values # Undefined

RunnersListed ==
  /\ DOMAIN runners = DOMAIN InitialRunners
  /\ \A r \in DOMAIN runners : RunnerListed(runners[r])

EntityOK(entity) ==
  /\ entity.kind = "form" => entity.fields \in Forms
  /\ entity.kind = "body" => entity.value # Undefined

\* A builder has the operation that was declared when it was looked up.
BuilderFields == {"catalog", "routePath", "method", "query", "headers", "cookies", "entity",
                  "operation"}
BuilderFresh ==
  builder # NoBuilder =>
    /\ BuilderFields \subseteq DOMAIN builder
    /\ builder.catalog \in DOMAIN InitialRunners
    /\ EntityOK(builder.entity)
    /\ seen # Undefined => DocumentListed(seen)
    /\ builder.operation = IF seen = Undefined \/ builder.method = Undefined THEN Undefined
                           ELSE GetOperation(seen, builder.routePath, builder.method)

\* The inductive invariant of the requests that are built.
BuiltInv == RunnersListed /\ BuilderFresh

\* It holds initially.
LEMMA BuiltInit == ASSUME WellBuilt, ClientInit PROVE BuiltInv
BY DEF ClientInit, Init, WellBuilt, BuiltInv, RunnersListed, BuilderFresh

\* Contracts that are refreshed have the documents that they had.
LEMMA ArriveListed ==
  ASSUME RunnersListed, NEW request, Arrive(request)
  PROVE  RunnersListed'
<1>1. \A runner : RunnerListed(runner) => RunnerListed(Refreshed(runner))
  BY DEF Refreshed, RunnerListed
<1>2. runners' = [r \in DOMAIN runners |->
                    IF r \in Candidates(request) THEN Refreshed(runners[r]) ELSE runners[r]]
  BY DEF Arrive
<1>3. DOMAIN runners' = DOMAIN runners
  BY <1>2
<1>4. \A r \in DOMAIN runners : RunnerListed(runners'[r])
  BY <1>1, <1>2 DEF RunnersListed
<1> QED
  BY <1>3, <1>4 DEF RunnersListed

\* Documents are replaced by such as client and server read the same.
LEMMA OthersListed ==
  ASSUME WellBuilt, RunnersListed, Others
  PROVE  RunnersListed'
<1>1. ASSUME runners' = runners PROVE RunnersListed'
  BY <1>1 DEF RunnersListed
<1>2. ASSUME NEW r \in DOMAIN runners, NEW registry,
             runners' = [runners EXCEPT ![r].registry = registry]
      PROVE  RunnersListed'
  <2>1. DOMAIN runners' = DOMAIN runners
    BY <1>2
  <2>2. \A q \in DOMAIN runners : /\ DOMAIN runners'[q] = DOMAIN runners[q]
                                 /\ runners'[q].document = runners[q].document
    BY <1>2
  <2> QED
    BY <2>1, <2>2 DEF RunnersListed, RunnerListed
<1>3. ASSUME \E reply \in Replies : Finish(reply) PROVE RunnersListed'
  BY <1>1, <1>3 DEF Finish
<1>4. ASSUME Leave PROVE RunnersListed'
  BY <1>1, <1>4 DEF Leave
<1>5. ASSUME NEW r \in DOMAIN runners, NEW pair \in RouteModules,
             LoadRoute(r, pair[1], pair[2]) \/ DropRoute(r, pair[1])
      PROVE  RunnersListed'
  BY <1>2, <1>5 DEF LoadRoute, DropRoute
<1>6. ASSUME NEW r \in DOMAIN runners, NEW path \in MiddlewarePaths, LoadMiddleware(r, path)
      PROVE  RunnersListed'
  BY <1>2, <1>6 DEF LoadMiddleware
<1>7. ASSUME NEW r \in DOMAIN runners, NEW document \in Documents, ReloadDocument(r, document)
      PROVE  RunnersListed'
  <2>1. runners' = [runners EXCEPT ![r].document = document]
    BY <1>7 DEF ReloadDocument
  <2>2. DOMAIN runners' = DOMAIN runners
    BY <2>1
  <2>3. ASSUME NEW q \in DOMAIN runners PROVE RunnerListed(runners'[q])
    <3>1. RunnerListed(runners[q]) /\ (document # Undefined => DocumentListed(document))
      BY DEF RunnersListed, WellBuilt
    <3>2. CASE q = r
      <4>1. DOMAIN runners'[q] = DOMAIN runners[q] /\ runners'[q].document = document
        BY <2>1, <3>1, <3>2 DEF RunnerListed
      <4> QED
        BY <3>1, <4>1 DEF RunnerListed
    <3>3. CASE q # r
      BY <2>1, <3>1, <3>3
    <3> QED
      BY <3>2, <3>3
  <2> QED
    BY <2>2, <2>3 DEF RunnersListed
<1>8. ASSUME \E setting \in ProxySettings : SetProxy(setting[1], setting[2]) PROVE RunnersListed'
  BY <1>1, <1>8 DEF SetProxy
<1>9. ASSUME \E url \in ProxyUrls : SetProxyUrl(url) PROVE RunnersListed'
  BY <1>1, <1>9 DEF SetProxyUrl
<1> QED
  BY <1>3, <1>4, <1>5, <1>6, <1>7, <1>8, <1>9 DEF Others

\* Every operation of a builder looks its operation up anew.
LEMMA BuilderIsFresh ==
  ASSUME WellBuilt, RunnersListed, BuilderFresh, ClientNext
  PROVE  BuilderFresh'
<1>1. ASSUME UNCHANGED <<builder, seen>> PROVE BuilderFresh'
  BY <1>1 DEF BuilderFresh
<1>2. ASSUME NEW b, BuilderFields \subseteq DOMAIN b, b.catalog \in DOMAIN InitialRunners,
             EntityOK(b.entity), Becomes(b)
      PROVE  BuilderFresh'
  <2> DEFINE document == DocumentOf(b)
             looked == IF document = Undefined \/ b.method = Undefined THEN Undefined
                       ELSE GetOperation(document, b.routePath, b.method)
  <2>1. builder' = [b EXCEPT !.operation = looked] /\ seen' = document
    BY <1>2 DEF Becomes, Resolved
  <2>2. document # Undefined => DocumentListed(document)
    BY <1>2 DEF DocumentOf, RunnersListed, RunnerListed
  <2> HIDE DEF document
  <2>3. builder'.operation = looked
    BY <1>2, <2>1 DEF BuilderFields
  <2> HIDE DEF looked
  <2>4. /\ DOMAIN builder' = DOMAIN b
        /\ builder'.catalog = b.catalog /\ builder'.entity = b.entity
        /\ builder'.method = b.method /\ builder'.routePath = b.routePath
    BY <1>2, <2>1 DEF BuilderFields
  <2> QED
    BY <1>2, <2>1, <2>2, <2>3, <2>4 DEF BuilderFresh, looked
<1>3. ASSUME NEW catalog \in Catalogs, MakeRoute(catalog[1], catalog[2])
      PROVE  BuilderFresh'
  <2> DEFINE b == NewBuilder(catalog[1], catalog[2])
  <2>1. Becomes(b)
    BY <1>3 DEF MakeRoute
  <2>2. /\ BuilderFields \subseteq DOMAIN b /\ b.catalog = catalog[1]
        /\ b.entity = NoEntity /\ EntityOK(NoEntity)
    BY DEF NewBuilder, NoEntity, EntityOK, BuilderFields
  <2>3. catalog[1] \in DOMAIN InitialRunners
    BY DEF WellBuilt
  <2> HIDE DEF b
  <2> QED
    BY <1>2, <2>1, <2>2, <2>3
<1>4. ASSUME NEW method \in Spellings, SetMethod(method)
      PROVE  BuilderFresh'
  <2> DEFINE b == WithMethod(builder, method)
  <2>1. /\ BuilderFields \subseteq DOMAIN builder /\ builder.catalog \in DOMAIN InitialRunners
        /\ EntityOK(builder.entity)
    BY <1>4 DEF SetMethod, BuilderFresh
  <2>2. /\ DOMAIN b = DOMAIN builder /\ b.catalog = builder.catalog
        /\ b.entity = builder.entity
    BY <2>1 DEF WithMethod, BuilderFields
  <2>3. Becomes(b)
    BY <1>4 DEF SetMethod
  <2> HIDE DEF b
  <2> QED
    BY <1>2, <2>1, <2>2, <2>3
<1>5. ASSUME NEW pair \in Catalogs, NEW input \in Inputs[pair], Add(input)
      PROVE  BuilderFresh'
  <2> DEFINE b == With(builder, input)
             new == input.values
             Added(old) == [name \in DOMAIN new \cup DOMAIN old |->
                              IF name \in DOMAIN new THEN new[name] ELSE old[name]]
             fields == IF builder.entity.kind = "form" THEN builder.entity.fields ELSE <<>>
  <2>1. /\ BuilderFields \subseteq DOMAIN builder /\ builder.catalog \in DOMAIN InitialRunners
        /\ EntityOK(builder.entity)
    BY <1>5 DEF Add, BuilderFresh
  <2>2. Becomes(b)
    BY <1>5 DEF Add
  <2>3. CASE input.of \in {"path", "query", "headers", "cookies"}
    <3>1. PICK field \in {"path", "query", "headers", "cookies"} :
            \E value : b = [builder EXCEPT ![field] = value]
      BY <2>3 DEF With
    <3>2. PICK value : b = [builder EXCEPT ![field] = value]
      BY <3>1
    <3> HIDE DEF b
    <3>3. /\ DOMAIN b = DOMAIN builder /\ b.catalog = builder.catalog
          /\ b.entity = builder.entity
      BY <2>1, <3>2 DEF BuilderFields
    <3> QED
      BY <1>2, <2>1, <2>2, <3>3
  <2>4. CASE input.of = "form"
    <3>1. b = [builder EXCEPT !.entity = [kind |-> "form", fields |-> Added(fields)]]
      BY <2>4 DEF With
    <3>2. fields \in Forms \/ fields = <<>>
      BY <2>1 DEF EntityOK
    <3>3. input \in FormInputs
      BY <2>4 DEF FormInputs
    <3>4. DOMAIN new \subseteq FormNames /\ \A name \in DOMAIN new : new[name] \in FormValues
      BY <3>3 DEF FormNames, FormValues
    <3> HIDE DEF b, fields, new
    <3>5. /\ DOMAIN fields \subseteq FormNames
          /\ \A name \in DOMAIN fields : fields[name] \in FormValues
      <4>1. CASE fields = <<>>
        <5>1. DOMAIN <<>> = {}
          OBVIOUS
        <5> QED
          BY <4>1, <5>1
      <4>2. CASE fields \in Forms
        BY <4>2 DEF Forms
      <4> QED
        BY <3>2, <4>1, <4>2
    <3>6. Added(fields) \in Forms
      <4>1. DOMAIN new \cup DOMAIN fields \subseteq FormNames
        BY <3>4, <3>5
      <4>2. Added(fields) \in [DOMAIN new \cup DOMAIN fields -> FormValues]
        BY <3>4, <3>5
      <4> HIDE DEF Added
      <4> QED
        BY <4>1, <4>2 DEF Forms
    <3> HIDE DEF Added
    <3>7. /\ DOMAIN b = DOMAIN builder /\ b.catalog = builder.catalog
          /\ b.entity = [kind |-> "form", fields |-> Added(fields)]
      BY <2>1, <3>1 DEF BuilderFields
    <3>8. EntityOK(b.entity)
      BY <3>6, <3>7 DEF EntityOK
    <3> QED
      BY <1>2, <2>1, <2>2, <3>7, <3>8
  <2>5. CASE input.of = "body"
    <3>1. b = [builder EXCEPT !.entity = [kind |-> "body", value |-> new]]
      BY <2>5 DEF With
    <3>2. new # Undefined
      BY <2>5 DEF WellBuilt
    <3> HIDE DEF b, new
    <3>3. /\ DOMAIN b = DOMAIN builder /\ b.catalog = builder.catalog
          /\ b.entity = [kind |-> "body", value |-> new]
      BY <2>1, <3>1 DEF BuilderFields
    <3>4. EntityOK(b.entity)
      BY <3>2, <3>3 DEF EntityOK
    <3> QED
      BY <1>2, <2>1, <2>2, <3>3, <3>4
  <2> QED
    BY <2>3, <2>4, <2>5 DEF WellBuilt
<1>6. ASSUME Send PROVE BuilderFresh'
  BY <1>6 DEF Send, BuilderFresh
<1> QED
  BY <1>1, <1>3, <1>4, <1>5, <1>6 DEF ClientNext

\* Every step keeps it.
LEMMA BuiltNext ==
  ASSUME WellBuilt, BuiltInv, [ClientNext]_clientVars
  PROVE  BuiltInv'
<1> USE DEF BuiltInv
<1>1. ASSUME UNCHANGED vars PROVE RunnersListed'
  BY <1>1 DEF vars, RunnersListed
<1>2. ASSUME Arrivals \/ Send PROVE RunnersListed'
  BY <1>2, ArriveListed DEF Arrivals, Send
<1>3. ASSUME \/ \E catalog \in Catalogs : MakeRoute(catalog[1], catalog[2])
             \/ \E method \in Spellings : SetMethod(method)
             \/ \E pair \in Catalogs : \E input \in Inputs[pair] : Add(input)
      PROVE  UNCHANGED vars
  BY <1>3 DEF MakeRoute, SetMethod, Add, Becomes
<1>4. CASE ClientNext
  <2>1. BuilderFresh'
    BY <1>4, BuilderIsFresh
  <2>2. RunnersListed'
    BY <1>1, <1>2, <1>3, <1>4, OthersListed DEF ClientNext
  <2> QED
    BY <2>1, <2>2
<1>5. CASE UNCHANGED clientVars
  BY <1>1, <1>5 DEF clientVars, BuilderFresh
<1> QED
  BY <1>4, <1>5

\* Client and server mean one operation, and the client's lists what is required.
LEMMA SameOperation ==
  ASSUME NEW document, DocumentListed(document), NEW routePath, NEW pattern,
         KeyOf(pattern) = KeyOf(routePath), NEW method \in SendableMethods,
         OperationForPathAndMethod(document, pattern, method) # Undefined
  PROVE  LET declared == OperationForPathAndMethod(document, pattern, method)
             operation == GetOperation(document, routePath, method)
         IN /\ operation # Undefined
            /\ operation.requestBody = declared.requestBody
            /\ \A p \in ToSet(declared.parameters) : p.required =>
                 p \in ToSet(operation.parameters)
            /\ \A p \in ToSet(operation.parameters) :
                 p.in = "header" => LowerCase[p.name] # "cookie"
<1> DEFINE same == {i \in DOMAIN document.paths : KeyOf(document.paths[i].path) = KeyOf(pattern)}
           item == document.paths[Min(same)]
           names == {LowerCase[method], method} \cap DOMAIN item.operations
           own == item.operations[LowerCase[method]]
           keys == ApiKeySecurityParameters(document)
           all == MergeParameters(MergeParameters(item.parameters, own.parameters), keys)
           merged == MergedParameters(item.parameters, own.parameters)
           declared == OperationForPathAndMethod(document, pattern, method)
           operation == GetOperation(document, routePath, method)
<1>1. FindPathItem(document, pattern) # Undefined
  BY DEF OperationForPathAndMethod
<1>2. same # {} /\ FindPathItem(document, pattern) = item
  BY <1>1 DEF FindPathItem
<1>3. Min(same) \in DOMAIN document.paths
  <2>1. same \subseteq Nat
    BY DEF DocumentListed, IsList
  <2> HIDE DEF same
  <2>2. Min(same) \in same
    BY <1>2, <2>1, MinOf
  <2> QED
    BY <2>2 DEF same
<1> HIDE DEF item
<1>4. names # {} /\ method \notin DOMAIN item.operations
  <2>1. names # {}
    BY <1>2 DEF OperationForPathAndMethod
  <2>2. DOMAIN item.operations \cap SendableMethods = {}
    BY <1>3 DEF DocumentListed, item
  <2> QED
    BY <2>1, <2>2
<1>5. LowerCase[method] \in DOMAIN item.operations /\ LowerCase[method] \in names
  BY <1>4
<1> HIDE DEF names
<1>6. declared = [own EXCEPT !.parameters = all,
                             !.produces = IF @ = <<>> THEN document.produces ELSE @]
  <2>1. /\ LowerCase[method] \in names
        /\ names = {LowerCase[method], method} \cap DOMAIN item.operations
    BY <1>5 DEF names
  <2> QED
    BY <1>2, <1>4, <2>1 DEF OperationForPathAndMethod
<1>7. operation = [own EXCEPT !.parameters = merged]
  <2>1. GetOperation(document, routePath, method)
          = [own EXCEPT !.parameters = MergedParameters(item.parameters, @)]
    BY <1>2, <1>5 DEF GetOperation, item
  <2> QED
    BY <2>1
<1>8. /\ IsSequence(item.parameters) /\ IsSequence(document.securitySchemes)
      /\ {"parameters", "requestBody"} \subseteq DOMAIN own /\ IsSequence(own.parameters)
      /\ \A p \in ToSet(merged) : p.in = "header" => LowerCase[p.name] # "cookie"
      /\ [own EXCEPT !.parameters = MergedParameters(item.parameters, @)] # Undefined
  BY <1>3, <1>5 DEF DocumentListed, item
<1>9. IsSequence(keys) /\ \A i \in DOMAIN keys : ~ keys[i].required
  <2>1. DOMAIN keys = DOMAIN document.securitySchemes
    BY DEF ApiKeySecurityParameters
  <2>2. \A i \in DOMAIN keys : keys[i].required = FALSE
    BY DEF ApiKeySecurityParameters
  <2>3. keys = [i \in DOMAIN keys |-> keys[i]]
    BY DEF ApiKeySecurityParameters
  <2>4. Len(keys) = Len(document.securitySchemes)
    <3>1. DOMAIN keys = 1 .. Len(document.securitySchemes) /\ Len(document.securitySchemes) \in Nat
      BY <1>8, <2>1 DEF IsSequence
    <3> HIDE DEF keys
    <3> QED
      BY <3>1, <2>3
  <2> HIDE DEF keys
  <2> QED
    BY <1>8, <2>1, <2>2, <2>3, <2>4 DEF IsSequence
<1>10. \A p \in ToSet(all) : p.required => p \in ToSet(merged)
  BY <1>8, <1>9, RequiredIsListed
<1> HIDE DEF own, all, merged, declared, operation, keys
<1>11. declared.parameters = all /\ declared.requestBody = own.requestBody
  BY <1>6, <1>8
<1>12. operation.parameters = merged /\ operation.requestBody = own.requestBody
  BY <1>7, <1>8
<1>13. operation # Undefined
  BY <1>7, <1>8 DEF merged
<1> QED
  BY <1>8, <1>10, <1>11, <1>12, <1>13 DEF declared, operation

\* What is sent has what a builder that is ready was found to have.
LEMMA SentHasAll ==
  ASSUME NEW b, EntityOK(b.entity), Undefined \notin Forms, CanSend(b), b.operation # Undefined,
         \A p \in ToSet(b.operation.parameters) : p.in = "header" => LowerCase[p.name] # "cookie",
         NEW declared, declared.requestBody = b.operation.requestBody,
         \A p \in ToSet(declared.parameters) : p.required => p \in ToSet(b.operation.parameters)
  PROVE  FoundMissing(declared, RequestOf(b)) = {}
<1> DEFINE request == RequestOf(b)
           IsPlain(p) == /\ ~ IsExplodedObjectQueryParam(p)
                         /\ p.in = "cookie" => EncodedName[p.name] = p.name
           Lacked(place, values) == {q \in MissingRequired(declared.parameters, place, values) :
                                       IsPlain(q)}
<1>1. /\ request.method = b.method /\ request.query = b.query
      /\ DOMAIN request.headers = HeaderValues(b) \ {"cookie"}
      /\ request.cookie = SentCookies(b) /\ request.body = SentBody(b)
  BY DEF RequestOf
<1>2. Missing(b) = {}
  BY DEF CanSend, Ready
<1>3. ASSUME NEW p \in ToSet(declared.parameters), p.required
      PROVE  /\ p.in = "query" => p.name \in DOMAIN b.query
             /\ p.in = "header" => LowerCase[p.name] \in HeaderValues(b) \ {"cookie"}
             /\ p.in = "cookie" => p.name \in CookieNames(b)
  <2> DEFINE IsMissing(q) ==
               CASE q.in = "path" -> q.name \notin DOMAIN b.path
                 [] q.in = "query" -> q.name \notin DOMAIN b.query
                 [] q.in = "header" -> LowerCase[q.name] \notin HeaderValues(b)
                 [] q.in = "cookie" -> q.name \notin CookieNames(b)
                 [] q.in = "body" -> b.entity.kind # "body"
                 [] q.in = "formData" -> \/ b.entity.kind # "form"
                                         \/ q.name \notin DOMAIN b.entity.fields
             required == {q \in ToSet(b.operation.parameters) : q.required /\ IsMissing(q)}
  <2>1. {<<q.in, q.name>> : q \in required} = {}
    BY <1>2 DEF Missing
  <2>2. p \in ToSet(b.operation.parameters)
    BY <1>3
  <2>3. ~ IsMissing(p)
    <3> HIDE DEF IsMissing
    <3>1. p \notin required
      <4> HIDE DEF required
      <4> QED
        BY <2>1
    <3> QED
      BY <1>3, <2>2, <3>1
  <2> QED
    BY <2>2, <2>3
<1>4. Lacked("query", request.query) = {}
  <2> SUFFICES ASSUME NEW p \in Lacked("query", request.query) PROVE FALSE
    OBVIOUS
  <2>1. p \in ToSet(declared.parameters) /\ p.in = "query" /\ p.required
        /\ ~ IsExplodedObjectQueryParam(p)
    BY DEF MissingRequired
  <2>2. p.name \notin DOMAIN request.query
    BY <2>1 DEF MissingRequired
  <2> QED
    BY <1>1, <1>3, <2>1, <2>2
<1>5. Lacked("header", request.headers) = {}
  <2> SUFFICES ASSUME NEW p \in Lacked("header", request.headers) PROVE FALSE
    OBVIOUS
  <2>1. p \in ToSet(declared.parameters) /\ p.in = "header" /\ p.required
        /\ ~ IsExplodedObjectQueryParam(p)
    BY DEF MissingRequired
  <2>2. LowerCase[p.name] \notin DOMAIN request.headers
    BY <2>1 DEF MissingRequired
  <2> QED
    BY <1>1, <1>3, <2>1, <2>2
<1>6. Lacked("cookie", request.cookie) = {}
  <2> SUFFICES ASSUME NEW p \in Lacked("cookie", request.cookie) PROVE FALSE
    OBVIOUS
  <2>1. p \in ToSet(declared.parameters) /\ p.in = "cookie" /\ p.required
        /\ ~ IsExplodedObjectQueryParam(p) /\ EncodedName[p.name] = p.name
    BY DEF MissingRequired
  <2>2. p.name \notin DOMAIN request.cookie
    BY <2>1 DEF MissingRequired
  <2>3. p.name \in CookieNames(b)
    BY <1>3, <2>1
  <2>4. DOMAIN SentCookies(b) = DOMAIN HeaderCookies(b)
                                  \cup {EncodedName[n] : n \in DOMAIN b.cookies}
    BY DEF SentCookies
  <2>5. CASE p.name \in DOMAIN b.cookies
    BY <1>1, <2>1, <2>2, <2>4, <2>5
  <2>6. CASE {p.name, EncodedName[p.name]} \cap DOMAIN HeaderCookies(b) # {}
    BY <1>1, <2>1, <2>2, <2>4, <2>6
  <2> QED
    BY <2>3, <2>5, <2>6 DEF CookieNames
<1>7. ~ (/\ declared.requestBody # Undefined /\ request.method \in EntityMethods
         /\ declared.requestBody.required /\ request.body = Undefined)
  <2> SUFFICES ASSUME declared.requestBody # Undefined, request.method \in EntityMethods,
                      declared.requestBody.required, request.body = Undefined
               PROVE  FALSE
    OBVIOUS
  <2>1. RequestBodyIsSet(b)
    <3>1. b.operation.requestBody # Undefined /\ b.operation.requestBody.required
      OBVIOUS
    <3>2. RequestBodyIsSet(b) \/ <<"body", "requestBody">> \in Missing(b)
      BY <3>1 DEF Missing
    <3> QED
      BY <1>2, <3>2
  <2>2. b.entity.kind \in {"form", "body"}
    BY <2>1 DEF RequestBodyIsSet
  <2>3. b.method \in EntityMethods
    BY <1>1
  <2>4. CASE b.entity.kind = "form"
    <3>1. SentBody(b) = b.entity.fields
      BY <2>3, <2>4 DEF SentBody
    <3> QED
      BY <1>1, <2>4, <3>1 DEF EntityOK
  <2>5. CASE b.entity.kind = "body"
    <3>1. SentBody(b) = b.entity.value
      BY <2>3, <2>5 DEF SentBody
    <3> QED
      BY <1>1, <2>5, <3>1 DEF EntityOK
  <2> QED
    BY <2>2, <2>4, <2>5
<1> HIDE DEF request
<1> QED
  BY <1>4, <1>5, <1>6, <1>7 DEF FoundMissing, request

\* The step in which a request arrives.
ReadyStep ==
  Arrives /\ builder # NoBuilder =>
    LET r == exchange'.runner
        request == exchange'.request
        operation == OperationOf(r, request)
        meant == /\ r = builder.catalog /\ seen = DocumentOf(builder)
                 /\ operation.declared # Undefined
                 /\ KeyOf(operation.pattern) = KeyOf(builder.routePath)
    IN meant => FoundMissing(operation.declared, request) = {}

LEMMA SentIsComplete ==
  ASSUME WellBuilt, BuiltInv, Send
  PROVE  ReadyStep
<1> DEFINE r == exchange'.runner
           request == exchange'.request
           operation == OperationOf(r, request)
<1> SUFFICES ASSUME r = builder.catalog, seen = DocumentOf(builder),
                    operation.declared # Undefined,
                    KeyOf(operation.pattern) = KeyOf(builder.routePath)
             PROVE  FoundMissing(operation.declared, request) = {}
  BY DEF ReadyStep
<1>1. builder # NoBuilder /\ CanSend(builder) /\ request = RequestOf(builder)
  BY DEF Send, Arrive, Exchange
<1>2. request.method = builder.method /\ builder.method \in SendableMethods
      /\ builder.method # Undefined
  BY <1>1 DEF RequestOf, CanSend, Ready
<1> HIDE DEF r, request
<1>3. operation.declared = OperationForPathAndMethod(seen, operation.pattern, builder.method)
  BY <1>2 DEF OperationOf, DocumentOf
<1> DEFINE pattern == operation.pattern
           declared == operation.declared
<1> HIDE DEF operation
<1>4. seen # Undefined
  BY <1>3 DEF OperationForPathAndMethod, FindPathItem
<1>5. /\ DocumentListed(seen) /\ EntityOK(builder.entity)
      /\ builder.operation = GetOperation(seen, builder.routePath, builder.method)
  BY <1>1, <1>2, <1>4 DEF BuiltInv, BuilderFresh
<1>6. /\ builder.operation # Undefined
      /\ builder.operation.requestBody = declared.requestBody
      /\ \A p \in ToSet(declared.parameters) : p.required =>
           p \in ToSet(builder.operation.parameters)
      /\ \A p \in ToSet(builder.operation.parameters) :
           p.in = "header" => LowerCase[p.name] # "cookie"
  BY <1>2, <1>3, <1>5, SameOperation
<1> HIDE DEF declared
<1>7. FoundMissing(declared, RequestOf(builder)) = {}
  BY <1>1, <1>5, <1>6, SentHasAll DEF WellBuilt
<1> QED
  BY <1>1, <1>7 DEF declared

LEMMA StepsAreReady ==
  ASSUME WellBuilt, BuiltInv, [ClientNext]_clientVars
  PROVE  [ReadyStep]_clientVars
<1>1. ASSUME exchange' = exchange \/ exchange.stage # "idle" \/ builder = NoBuilder
      PROVE  ReadyStep
  BY <1>1 DEF ReadyStep, Arrives
<1>2. ASSUME Others PROVE exchange' = exchange \/ exchange.stage # "idle"
  BY <1>2 DEF Others, Finish, Leave, LoadRoute, DropRoute, LoadMiddleware, ReloadDocument,
              SetProxy, SetProxyUrl, Change
<1>3. ASSUME \/ \E catalog \in Catalogs : MakeRoute(catalog[1], catalog[2])
             \/ \E method \in Spellings : SetMethod(method)
             \/ \E pair \in Catalogs : \E input \in Inputs[pair] : Add(input)
      PROVE  exchange' = exchange
  BY <1>3 DEF MakeRoute, SetMethod, Add, Becomes, vars
<1>4. ASSUME ClientNext PROVE ReadyStep
  BY <1>1, <1>2, <1>3, <1>4, SentIsComplete DEF ClientNext
<1> QED
  BY <1>4

(***************************************************************************)
(* A request that a builder holds for ready lacks nothing that its runner  *)
(* requires, when both mean the same operation of a document that did not  *)
(* change since the builder looked: client and server look an operation up *)
(* and merge its parameters each in a way of its own, a path and its       *)
(* variables are spelled in any case, and a form takes the place of a body *)
(* (RouteBuilder.missing(), createOpenApiRouteCatalog(), validateRequest()).*)
(***************************************************************************)
THEOREM ReadyLacksNothing ==
  ASSUME WellBuilt PROVE ClientSpec => ReadyIsComplete
<1>1. ClientInit => BuiltInv
  BY BuiltInit
<1>2. BuiltInv /\ [ClientNext]_clientVars => BuiltInv'
  BY BuiltNext
<1>3. BuiltInv /\ [ClientNext]_clientVars =>
        [Arrives /\ builder # NoBuilder =>
           LET r == exchange'.runner
               request == exchange'.request
               operation == OperationOf(r, request)
               meant == /\ r = builder.catalog /\ seen = DocumentOf(builder)
                        /\ operation.declared # Undefined
                        /\ KeyOf(operation.pattern) = KeyOf(builder.routePath)
           IN meant => FoundMissing(operation.declared, request) = {}]_clientVars
  BY StepsAreReady DEF ReadyStep
<1> QED
  BY <1>1, <1>2, <1>3, PTL DEF ClientSpec, ReadyIsComplete
=============================================================================
