--------------------------- MODULE MCUpdateQueue ----------------------------
(***************************************************************************)
(* Three watch updates and two overlapping pauses: enough for an update    *)
(* ahead of, between and behind two holds, in every order of calls.        *)
(***************************************************************************)
EXTENDS UpdateQueue
CONSTANTS u1, u2, u3, p1, p2
MCOperations == {u1, u2, u3}
MCPauses     == {p1, p2}
=============================================================================
