---------------------------- MODULE MCGeneration ----------------------------
(***************************************************************************)
(* Two routes and two methods; a version may have both routes or lack one. *)
(***************************************************************************)
EXTENDS Generation, TLC
CONSTANTS a, b, get, post, v1, v2
MCRoutes == {a, b}
MCMethods == {get, post}
MCVersions == {v1, v2}
OnlyA == a :> {get} @@ b :> Missing
Both == a :> {get} @@ b :> {get, post}
OnlyB == a :> Missing @@ b :> {post}
MCDocuments == {OnlyA, Both, Broken}
MoreDocuments == {OnlyA, OnlyB, Broken}
Config(versions, prune) ==
  [versions |-> versions, prune |-> prune, routes |-> TRUE, types |-> TRUE]

\* Two versions; one version with pruning, of all files or of types alone.
SafeSetups == {Config(<<v1, v2>>, FALSE), Config(<<v1>>, TRUE),
               [Config(<<v1>>, TRUE) EXCEPT !.routes = FALSE]}
PrunedGroup == {Config(<<v1, v2>>, TRUE)}
MCEdits == {"custom", "local"}
=============================================================================
