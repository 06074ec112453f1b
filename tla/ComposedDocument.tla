-------------------------- MODULE ComposedDocument --------------------------
(***************************************************************************)
(* load-openapi-document.ts and applyOverlays(): what the contents that a  *)
(* load has read amount to.  The source and its references are             *)
(* dereferenced into one heap, in which a part that is referred to twice   *)
(* is one node; the overlays are parsed afresh for each load, and applied  *)
(* to that heap in their order.                                            *)
(***************************************************************************)
EXTENDS ApiRunner, Overlay

CONSTANTS
    HeapOf,         \* content |-> the nodes that parsing it makes
    ActionsOf       \* content of an overlay |-> its actions

FirstOverlay == Len(Reads) - Len(Overlays) + 1

\* dereference()
Dereferenced(read) ==
    FoldSteps(LAMBDA heap, content : HeapOf[content] @@ heap, <<>>,
             SubSeq(read, 1, FirstOverlay - 1))

\* The actions of the chain, each with the nodes of the overlay it is from.
Chain(read) ==
    LET Of(content) == [k \in DOMAIN ActionsOf[content] |->
                          [content |-> content, action |-> ActionsOf[content][k]]]
    IN FlattenSeq([i \in 1 .. Len(Overlays) |-> Of(read[FirstOverlay + i - 1])])

\* applyOverlays(), up to the action of some number.
Applied(read, count) ==
    LET Apply(heap, step) == ApplyAction(heap @@ HeapOf[step.content], step.action)
    IN FoldSteps(Apply, Dereferenced(read), SubSeq(Chain(read), 1, count))

\* Some node stands at two places of the document.
Shared(heap) == \E p, q \in Places(heap, Root) : p # q /\ p[2] = q[2] /\ IsNode(heap, p[2])

\* What a load may read without an error, each with whether every action of its
\* overlays does to the document what an overlay is documented to do, and nothing
\* else, as long as no part of the document stands at two places.
Chains == {read \in [DOMAIN Reads -> DOMAIN HeapOf] :
              \A n \in DOMAIN Reads : read[n] \in Contents[Reads[n]]}

Intended(read) ==
    \A k \in DOMAIN Chain(read) :
        LET before == Applied(read, k - 1)
            step == Chain(read)[k]
        IN \/ Shared(before)
           \/ Tree(Applied(read, k)) = IntendedAction(Tree(before), step.action, HeapOf[step.content])

Outcomes == {<<read, Intended(read)>> : read \in Chains}

\* The document that is served is what its overlays are documented to make of
\* its source, in their order (apply-overlay.ts, docs/manual/overlays.md).
OverlaysApplied == published # 0 => <<Document, TRUE>> \in Outcomes
=============================================================================
