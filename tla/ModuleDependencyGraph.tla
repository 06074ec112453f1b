------------------------ MODULE ModuleDependencyGraph -----------------------
(***************************************************************************)
(* packages/runtime/src/server/module-dependency-graph.ts: which files     *)
(* import which, as a map `dependents` from a file to those importing it.  *)
(* An import is a file (a relative specifier) or Package (any other one).  *)
(***************************************************************************)
EXTENDS Naturals, Sequences, FiniteSets

CONSTANTS Files, Package

ASSUME GraphAssumption == IsFiniteSet(Files) /\ Package \notin Files

Graph == [Files -> SUBSET Files]

NoDependents == [f \in Files |-> {}]

\* Fault: load() returns after the first import, whatever it is.
FirstImportOnly(imports) == {f \in Files : imports # <<>> /\ imports[1] = f}

\* The files load() comes to: it returns at the first import of a package.
Indexed(imports) ==
  {f \in Files : \E i \in DOMAIN imports : /\ imports[i] = f
                                           /\ \A j \in 1 .. i : imports[j] # Package}

\* load(path): clearDependents(path), then an edge for each indexed import.
Reindex(dependents, path, imports) ==
  [f \in Files |-> IF f \in Indexed(imports) THEN dependents[f] \cup {path}
                                             ELSE dependents[f] \ {path}]

(***************************************************************************)
(* What dependentsOf(path) returns, stated without the search: the files   *)
(* of the smallest set that contains the dependents of path and of each of *)
(* its own members.  A file of an import cycle depends on itself.          *)
(***************************************************************************)
ClosedFrom(dependents, path, S) == \A f \in S \cup {path} : dependents[f] \subseteq S

DependentsOf(dependents, path) ==
  {f \in Files : \A S \in SUBSET Files : ClosedFrom(dependents, path, S) => f \in S}
=============================================================================
