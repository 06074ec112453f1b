------------------------- MODULE MCContextRegistry --------------------------
(***************************************************************************)
(* The root and one directory below it, which shares the root's context    *)
(* while it has none.  Two fields; four versions of the source, of which   *)
(* one changes a field, one drops it, and one changes methods alone; and a *)
(* body that names one field only.                                         *)
(***************************************************************************)
EXTENDS ContextRegistry, TLC
CONSTANTS root, pets, stock, price, unset, v1, v2, v3, v4, plain, none
MCPaths  == {root, pets}
MCTried  == root :> <<root>> @@ pets :> <<pets, root>>
MCFields == {stock, price}
MCClasses == {v1, v2, v3, v4}
Object(class, s, p) == [fields |-> stock :> s @@ price :> p, class |-> class]
MCSources == {Object(v1, 1, 1), Object(v2, 2, 1), Object(v3, unset, 1), Object(v4, 1, 1)}
PartialBody == {Object(plain, unset, 2)}
BelowRoot == MCPaths \ {root}
=============================================================================
