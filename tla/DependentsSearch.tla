-------------------------- MODULE DependentsSearch --------------------------
(***************************************************************************)
(* The breadth-first search of dependentsOf() in                           *)
(* packages/runtime/src/server/module-dependency-graph.ts, one turn of its *)
(* loop at a time, from any graph and any file.                            *)
(***************************************************************************)
EXTENDS ModuleDependencyGraph, SequencesExt

VARIABLES edges, asked,   \* the graph and the file asked for
          toVisit, marked, importers  \* of the search; importers is its result

searchVars == <<edges, asked, toVisit, marked, importers>>

SearchType ==
  /\ edges \in Graph
  /\ asked \in Files
  /\ toVisit \in Seq(Files)
  /\ marked \in SUBSET Files
  /\ importers \in SUBSET Files

SearchInit ==
  /\ edges \in Graph
  /\ asked \in Files
  /\ toVisit = <<asked>>
  /\ marked = {}
  /\ importers = {}

\* Fault: only the dependents of the file that was asked for are queued.
PushDirect(file) == IF file = asked THEN edges[file] ELSE {}

\* Fault: a file's imports of packages are queued with its dependents.
PushPackages(file) == edges[file] \cup {Package}

\* The files that are queued when a file is marked: all its dependents.
Pushed(file) == edges[file]

\* Fault: a marked file is looked at and not taken from the queue.
ShiftUnlessMarked == IF Head(toVisit) \in marked THEN toVisit ELSE Tail(toVisit)

\* queue.shift()
Shifted == Tail(toVisit)

\* The next file leaves the queue.  Unless it is marked, it is marked now, and
\* its dependents are found and queued, in the order of their Set.
Visit ==
  /\ toVisit # <<>>
  /\ IF Head(toVisit) \in marked
     THEN /\ toVisit' = Shifted
          /\ UNCHANGED <<marked, importers>>
     ELSE /\ marked' = marked \cup {Head(toVisit)}
          /\ importers' = importers \cup edges[Head(toVisit)]
          /\ \E order \in SetToSeqs(Pushed(Head(toVisit))) : toVisit' = Shifted \o order
  /\ UNCHANGED <<edges, asked>>

\* The Set of dependents is returned.
Return == toVisit = <<>> /\ UNCHANGED searchVars

SearchNext == Visit \/ Return

SearchSpec == SearchInit /\ [][SearchNext]_searchVars /\ WF_searchVars(Visit)

-----------------------------------------------------------------------------
(***************************************************************************)
(* dependentsOf() returns "the transitive set of files that (directly or   *)
(* indirectly) import path", also when imports form a cycle.               *)
(***************************************************************************)
FindsDependents == toVisit = <<>> => importers = DependentsOf(edges, asked)

\* The search ends, also when imports form a cycle.
SearchEnds == <>(toVisit = <<>>)
=============================================================================
