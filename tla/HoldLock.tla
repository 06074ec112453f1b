------------------------------ MODULE HoldLock ------------------------------
(***************************************************************************)
(* What an update queue promises: watch updates and resets take turns.     *)
(* A turn belongs to one caller at a time; a caller asks for it, gets it   *)
(* once the previous turn is over, and gives it back for good.  Nothing    *)
(* here says in which order the callers get their turns.                   *)
(***************************************************************************)
CONSTANT Callers

VARIABLES waiting,  \* callers that have asked and have not had their turn
          turn      \* the set of callers whose turn it is

vars == <<waiting, turn>>

Init == waiting = {} /\ turn = {}

\* A caller asks for a turn.
Ask(c) == /\ c \notin waiting \cup turn
          /\ waiting' = waiting \cup {c}
          /\ turn' = turn

\* A waiting caller gets the turn, which nobody has.
Begin(c) == /\ c \in waiting
            /\ turn = {}
            /\ turn' = {c}
            /\ waiting' = waiting \ {c}

\* The caller whose turn it is gives it back.
End(c) == /\ turn = {c}
          /\ turn' = {}
          /\ waiting' = waiting

Next == \E c \in Callers : Ask(c) \/ Begin(c) \/ End(c)

Spec == Init /\ [][Next]_vars
=============================================================================
