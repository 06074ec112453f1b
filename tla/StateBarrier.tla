---------------------------- MODULE StateBarrier ----------------------------
(***************************************************************************)
(* What a simulator promises about its application state (store, contexts, *)
(* routes): requests work on state that is complete, and while it is taken *)
(* apart and built again nobody is at work on it.  A readers-writer lock   *)
(* with requests for readers and reconstruction for the writer.            *)
(***************************************************************************)
CONSTANT Requests

VARIABLES working,  \* requests whose handler or body may still touch state
          whole     \* the state is complete: constructed and seeded

vars == <<working, whole>>

Init == working = {} /\ whole = TRUE

Admit(r) == /\ whole
            /\ r \notin working
            /\ working' = working \cup {r}
            /\ whole' = whole

Release(r) == /\ r \in working
              /\ working' = working \ {r}
              /\ whole' = whole

TakeApart == /\ working = {}
             /\ whole' = FALSE
             /\ working' = working

Complete == /\ ~whole
            /\ whole' = TRUE
            /\ working' = working

Next == \/ \E r \in Requests : Admit(r) \/ Release(r)
        \/ TakeApart
        \/ Complete

Spec == Init /\ [][Next]_vars
=============================================================================
