------------------------------ MODULE Overlay ------------------------------
(***************************************************************************)
(* apply-overlay.ts: what the actions of an overlay do to a parsed         *)
(* document.  Both are values of JavaScript, so a document is a heap: each *)
(* node is an object, with a value per key, or an array, with a sequence   *)
(* of values; a value is a text or a node.  Merging stores the nodes of    *)
(* the overlay in the document and copies nothing.                         *)
(*                                                                         *)
(* JSONPath is external: a target is a sequence of steps from the root,    *)
(* each the set of the keys that it leads through in an object, or of the  *)
(* items that its filter lets pass in an array.                            *)
(***************************************************************************)
EXTENDS Sequences, Integers, SequencesExt, TLC

CONSTANTS
    Root,       \* the node that stands for the whole document
    Depth       \* a bound on how deep objects are nested

\* A fold over a sequence, written as a function: TLC evaluates what is made
\* of constants with it once, and what is made with FoldLeft in every state.
FoldSteps(Op(_, _), start, steps) ==
    LET after[n \in 0 .. Len(steps)] == IF n = 0 THEN start ELSE Op(after[n - 1], steps[n])
    IN after[Len(steps)]

Levels == [d \in 1 .. Depth |-> d]

IsNode(heap, value) == value \in DOMAIN heap
IsObject(heap, value) == IsNode(heap, value) /\ heap[value].kind = "object"
IsArray(heap, value) == IsNode(heap, value) /\ heap[value].kind = "array"

\* The children of a node that a step of a target leads to, in their order.
Children(heap, node, step) ==
    LET at == heap[node].at
        properties == IF IsObject(heap, node) THEN SetToSeq(DOMAIN at \cap step)
                      ELSE SelectSeq([i \in DOMAIN at |-> i], LAMBDA i : at[i] \in step)
    IN [i \in DOMAIN properties |->
          [parent |-> node, property |-> properties[i], value |-> at[properties[i]]]]

\* The results of JSONPath({path: target, json: document, resultType: "all"}).
Results(heap, target) ==
    LET Step(found, step) ==
          FlattenSeq([i \in DOMAIN found |->
            IF IsNode(heap, found[i].value) THEN Children(heap, found[i].value, step) ELSE <<>>])
    IN FoldSteps(Step, <<[parent |-> Root, property |-> Root, value |-> Root]>>, target)

\* deepMerge(): objects are merged key by key, anything else is overwritten.
\* `todo` are the pairs of objects that are left to merge.
RECURSIVE MergeAll(_, _)
MergeAll(heap, todo) ==
    IF todo = <<>> THEN heap
    ELSE LET old == heap[todo[1][1]].at
             new == heap[todo[1][2]].at
             both == {key \in DOMAIN old \cap DOMAIN new :
                        IsObject(heap, old[key]) /\ IsObject(heap, new[key])}
             merged == [key \in DOMAIN new \ both |-> new[key]] @@ old
         IN MergeAll([heap EXCEPT ![todo[1][1]].at = merged],
                     Tail(todo) \o SetToSeq({<<old[key], new[key]>> : key \in both}))

DeepMerge(heap, target, update) == MergeAll(heap, <<<<target, update>>>>)

\* One match is taken out of its parent: splice() or delete.
TakeOut(heap, result) ==
    IF IsArray(heap, result.parent)
    THEN [heap EXCEPT ![result.parent].at =
            IF result.property \in DOMAIN @ THEN RemoveAt(@, result.property) ELSE @]
    ELSE [heap EXCEPT ![result.parent].at =
            [key \in DOMAIN @ \ {result.property} |-> @[key]]]

\* Fault: matches are removed from the first to the last.
RemoveAllForward(heap, results) == FoldSteps(TakeOut, heap, results)

RemoveAll(heap, results) == FoldSteps(TakeOut, heap, Reverse(results))

\* applyOverlayActions(), for one action; an update is the node of an object.
ApplyAction(heap, action) ==
    LET results == Results(heap, action.target)
        Update(h, result) ==
          IF IsObject(heap, result.value) THEN DeepMerge(h, result.value, action.update) ELSE h
    IN IF action.remove THEN RemoveAll(heap, results) ELSE FoldSteps(Update, heap, results)

-----------------------------------------------------------------------------
(* What an action ought to do, as docs/manual/overlays.md has it: on the    *)
(* document as a tree, a map from the paths that end in a text or an array *)
(* to what stands there.                                                   *)

\* The paths below a value, each with what it leads to.
Places(heap, value) ==
    LET Below(place) == IF ~ IsObject(heap, place[2]) THEN {}
                        ELSE {<<Append(place[1], key), heap[place[2]].at[key]>> :
                                key \in DOMAIN heap[place[2]].at}
        Level(places, d) == places \cup UNION {Below(p) : p \in places}
    IN FoldSteps(Level, {<<<<>>, value>>}, Levels)

TreeBelow(heap, value) ==
    LET Leaf(v) == CASE IsObject(heap, v) -> <<"object">>
                     [] IsArray(heap, v) -> <<"array">> \o heap[v].at
                     [] OTHER -> <<"text", v>>
    IN {<<p[1], Leaf(p[2])>> : p \in Places(heap, value)}

Tree(heap) == TreeBelow(heap, Root)

Fits(path, target) ==
    /\ Len(path) = Len(target)
    /\ \A i \in DOMAIN path : path[i] \in target[i]

\* An update puts its own leaves below every object that the target fits, in
\* place of what stood there, and touches nothing else.
Updated(tree, target, update) ==
    LET matched == {leaf[1] : leaf \in {l \in tree : l[2] = <<"object">> /\ Fits(l[1], target)}}
        Covers(u, path) == u[1] = path \/ (u[2] # <<"object">> /\ IsPrefix(u[1], path))
        Covered(leaf) == \E p \in matched : \E u \in update :
                           IsPrefix(p, leaf[1]) /\ Covers(u, SubSeq(leaf[1], Len(p) + 1, Len(leaf[1])))
    IN {leaf \in tree : ~ Covered(leaf)} \cup
       UNION {{<<p \o u[1], u[2]>> : u \in update} : p \in matched}

\* A removal takes what the target fits, and nothing else: an array keeps the
\* items that it did not fit, in their order.
Removed(tree, target) ==
    LET Inside(leaf) == \E n \in DOMAIN leaf[1] : Fits(SubSeq(leaf[1], 1, n), target)
        Kept(leaf) == IF leaf[2][1] = "array" /\ Fits(leaf[1], Front(target))
                      THEN SelectSeq(leaf[2], LAMBDA item : item \notin Last(target))
                      ELSE leaf[2]
    IN {<<leaf[1], Kept(leaf)>> : leaf \in {l \in tree : ~ Inside(l)}}

IntendedAction(tree, action, heap) ==
    IF action.remove THEN Removed(tree, action.target)
    ELSE Updated(tree, action.target, TreeBelow(heap, action.update))
=============================================================================
