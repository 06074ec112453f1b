---------------------------- MODULE MCStoreLoader ---------------------------
(***************************************************************************)
(* Two versions of the store: the second changes the initial value of one  *)
(* field and adds the other.                                               *)
(***************************************************************************)
EXTENDS StoreLoader, TLC
CONSTANTS orders, users, unset, v1, v2
MCFields == {orders, users}
MCClasses == {v1, v2}
Object(class, o, u) == [fields |-> orders :> o @@ users :> u, class |-> class]
MCSources == {Object(v1, 1, unset), Object(v2, 2, 1)}
=============================================================================
