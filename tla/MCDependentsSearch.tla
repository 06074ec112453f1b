------------------------- MODULE MCDependentsSearch -------------------------
(***************************************************************************)
(* All graphs over three files, with cycles, loops and diamonds, and every *)
(* order in which a Set of dependents can be walked.                       *)
(***************************************************************************)
EXTENDS DependentsSearch
CONSTANTS a, b, c, package
MCFiles == {a, b, c}
=============================================================================
