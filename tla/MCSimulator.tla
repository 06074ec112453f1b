---------------------------- MODULE MCSimulator -----------------------------
(***************************************************************************)
(* Two requests, so that one can leave while the other holds a reset back; *)
(* two queues, the store's and one runner's, so that an update can reach   *)
(* the second while the first is paused; one or two overlapping stops.     *)
(***************************************************************************)
EXTENDS Simulator
CONSTANTS r1, r2, s1, s2
MCRequests  == {r1, r2}
OneStop     == {s1}
TwoStops    == {s1, s2}
=============================================================================
