------------------------------ MODULE Registry ------------------------------
(***************************************************************************)
(* registry.ts: the routes and middleware of one runner, and the choice    *)
(* and invocation of a handler, as operators on a registry value.  A       *)
(* middleware is installed at a path, of which "/" is stored as "" (here   *)
(* the empty path); the identity that stands there first is left out.      *)
(* Wire values are texts, or sequences of texts when a key is repeated.    *)
(***************************************************************************)
EXTENDS ModuleTree

CONSTANTS
    DefaultMethods,     \* DEFAULT_HTTP_METHODS
    UpperCase,          \* export |-> its upper-case spelling
    DecimalText,        \* the texts that spell a finite decimal number
    IntegerText         \* those among them that spell an integer

ASSUME TextAssumption == IntegerText \subseteq DecimalText

NewRegistry == [tree |-> NewTree, methodNames |-> DefaultMethods, middlewares |-> {}]

AddRoute(registry, path, module) ==
    [registry EXCEPT !.tree = AddModule(@, path, module),
                     !.methodNames = @ \cup {UpperCase[export] : export \in module}]

RemoveRoute(registry, path) == [registry EXCEPT !.tree = RemoveModule(@, path)]

AddMiddleware(registry, path) ==
    [registry EXCEPT !.middlewares = @ \cup {IF path = <<NoSegment>> THEN <<>> ELSE path}]

\* The export is found under the method's name, or under that name in upper
\* or lower case.
MethodFromModule(module, method) ==
    {method, UpperCase[method], LowerCase[method]} \cap module # {}

Handler(registry, method, url) == Match(registry.tree, url, method)

HandlerForPattern(registry, url, pattern) == MatchPattern(registry.tree, url, pattern)

Exists(registry, method, url) ==
    MethodFromModule(Handler(registry, method, url).module, method)

ExistsForPattern(registry, method, url, pattern) ==
    MethodFromModule(HandlerForPattern(registry, url, pattern).module, method)

\* Fault: the methods of all routes are taken.
MethodsOfRegistry(registry, url) ==
    IF \E method \in registry.methodNames : Exists(registry, method, url)
    THEN registry.methodNames ELSE {}

MethodsForPath(registry, url) ==
    {method \in registry.methodNames : Exists(registry, method, url)}

PathExistsWithAnyMethod(registry, url, excluded) ==
    MethodsForPath(registry, url) \ {excluded} # {}

-----------------------------------------------------------------------------
(* The conversion of parameters.                                           *)

Text(value) == [kind |-> "string", of |-> value]
Typed(kind, value) == [kind |-> kind, of |-> value]
List(texts) == [kind |-> "list", items |-> texts]

\* numericParameterValue(): only a complete finite decimal spelling is
\* converted; anything else is kept as it came.
NumericParameterValue(value, type) ==
    IF value.kind = "string" /\ value.of \in (IF type = "integer" THEN IntegerText ELSE DecimalText)
    THEN Typed("number", value.of) ELSE value

BooleanParameterValue(value) ==
    IF value.kind = "string" /\ value.of \in {"true", "false"}
    THEN Typed("boolean", value.of) ELSE value

CastParameter(value, type) ==
    CASE type \in {"integer", "number"} -> NumericParameterValue(value, type)
      [] type = "boolean" -> BooleanParameterValue(value)
      [] OTHER -> value

\* types maps the names that have a declared type.
CastParameters(values, types) ==
    [name \in DOMAIN values |->
       CastParameter(values[name], IF name \in DOMAIN types THEN types[name] ELSE "string")]

-----------------------------------------------------------------------------
(* Invoking a handler.                                                     *)

\* recurse(): the middleware of every prefix of the matched path, as it is
\* spelled, with that of the root outermost.
MiddlewareChain(registry, matchedPath) ==
    LET prefixes == [i \in 1 .. Len(matchedPath) + 1 |-> SubSeq(matchedPath, 1, i - 1)]
    IN SelectSeq(prefixes, LAMBDA p : p \in registry.middlewares)

\* endpoint(): what a request meets: "ambiguous" and "missing" are answered
\* at once, "handler" runs the chain of middleware around the handler.
Endpoint(registry, method, url, pattern) ==
    LET Meets(found) ==
          [is |-> CASE found.ambiguous -> "ambiguous"
                    [] ~ found.ambiguous /\ ~ MethodFromModule(found.module, method) -> "missing"
                    [] OTHER -> "handler",
           matchedPath |-> found.matchedPath,
           path |-> [name \in DOMAIN found.pathVariables |-> Text(found.pathVariables[name])],
           chain |-> MiddlewareChain(registry, found.matchedPath)]
    IN Meets(IF pattern = <<>> THEN Handler(registry, method, url)
             ELSE HandlerForPattern(registry, url, pattern))
=============================================================================
