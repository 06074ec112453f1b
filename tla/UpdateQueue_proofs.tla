------------------------- MODULE UpdateQueue_proofs -------------------------
(***************************************************************************)
(* The queue's guarantees for any number of updates and pauses.  The       *)
(* argument is about the order on the chain: whoever has had a turn has    *)
(* everyone before it settled (InOrder), and no two calls share a place    *)
(* (OwnPlace).  Two calls with the turn would each have to be settled.     *)
(***************************************************************************)
EXTENDS UpdateQueue, TLAPS

Begun == {"active", "done", "failed"}

\* A call has a place on the chain, at most the tail, exactly when it was made.
HasPlace == \A c \in Calls : /\ link[c] <= tail
                             /\ status[c] = "idle" <=> link[c] = 0

\* No two calls have the same place.
OwnPlace == \A c, d \in Calls : link[c] = link[d] /\ link[c] # 0 => c = d

\* Whoever has begun has only settled calls before it.
InOrder == \A c, d \in Calls :
             status[c] \in Begun /\ link[d] # 0 /\ link[d] < link[c]
               => status[d] \in Settled

IInv == TypeOK /\ HasPlace /\ OwnPlace /\ InOrder

LEMMA InitIInv == Init => IInv
  BY DEF Init, IInv, TypeOK, HasPlace, OwnPlace, InOrder, Status, Begun

\* A call chains behind everyone: nothing before it changes.
LEMMA EnqueueIInv == ASSUME IInv, NEW c \in Calls, Enqueue(c) PROVE IInv'
<1> USE DEF IInv, Enqueue, Previous
<1>1. TypeOK'
  BY DEF TypeOK, Status
<1>2. HasPlace'
  BY DEF TypeOK, HasPlace
<1>3. OwnPlace'
  BY DEF TypeOK, HasPlace, OwnPlace
<1>4. InOrder'
  BY DEF TypeOK, HasPlace, InOrder, Begun, Settled
<1> QED BY <1>1, <1>2, <1>3, <1>4

\* The promise before c has resolved, so everyone before c has settled.
LEMMA StartIInv == ASSUME IInv, NEW c \in Calls, Start(c) PROVE IInv'
<1> USE DEF IInv
<1>1. TypeOK' /\ HasPlace' /\ OwnPlace'
  BY DEF Start, TypeOK, Status, HasPlace, OwnPlace
<1>2. ASSUME NEW d \in Calls, link[d] # 0, link[d] < link[c]
      PROVE  status[d] \in Settled
  <2>1. PICK e \in Calls : link[e] = link[c] - 1 /\ status[e] \in Settled
    BY <1>2 DEF Start, Resolved, TypeOK
  <2>2. link[d] = link[e] \/ link[d] < link[e]
    BY <1>2, <2>1 DEF TypeOK
  <2> QED BY <1>2, <2>1, <2>2 DEF TypeOK, OwnPlace, InOrder, Begun, Settled
<1>3. InOrder'
  BY <1>2 DEF Start, TypeOK, InOrder, Begun, Settled
<1> QED BY <1>1, <1>3

\* A turn that ends stays settled.
LEMMA EndIInv == ASSUME IInv, NEW c \in Calls, Finish(c) \/ Resume(c) PROVE IInv'
<1> USE DEF IInv
<1>1. PICK s \in Settled : status' = [status EXCEPT ![c] = s]
  BY DEF Finish, Resume, Settled
<1>2. status[c] = "active" /\ UNCHANGED <<tail, link>>
  BY DEF Finish, Resume
<1>3. TypeOK' /\ HasPlace' /\ OwnPlace'
  BY <1>1, <1>2 DEF TypeOK, Status, Settled, HasPlace, OwnPlace
<1>4. InOrder'
  BY <1>1, <1>2 DEF TypeOK, InOrder, Begun, Settled
<1> QED BY <1>3, <1>4

LEMMA StepIInv == IInv /\ [Next]_vars => IInv'
<1> SUFFICES ASSUME IInv, [Next]_vars PROVE IInv'
  OBVIOUS
<1>1. CASE Next
  BY <1>1, EnqueueIInv, StartIInv, EndIInv DEF Next, Run, Pause
<1>2. CASE UNCHANGED vars
  BY <1>2 DEF vars, IInv, TypeOK, HasPlace, OwnPlace, InOrder
<1> QED BY <1>1, <1>2

LEMMA SpecIInv == Spec => []IInv
  BY InitIInv, StepIInv, PTL DEF Spec

LEMMA IInvBarrier == IInv => Barrier
<1> SUFFICES ASSUME IInv, NEW c \in Turn, NEW d \in Called
             PROVE  /\ link[d] < link[c] => status[d] \in Settled
                    /\ link[d] > link[c] => status[d] = "queued"
  BY DEF Barrier
<1>1. c \in Calls /\ d \in Calls /\ status[c] = "active" /\ link[c] # 0 /\ link[d] # 0
  BY DEF Turn, Called, IInv, HasPlace
<1>2. link[d] < link[c] => status[d] \in Settled
  BY <1>1 DEF IInv, InOrder, Begun
<1>3. ASSUME link[d] > link[c], status[d] # "queued" PROVE FALSE
  <2>1. status[d] \in Begun
    BY <1>1, <1>3 DEF Called, IInv, TypeOK, Status, Begun
  <2> QED BY <1>1, <1>3, <2>1 DEF IInv, InOrder, TypeOK, Settled
<1> QED BY <1>2, <1>3

LEMMA IInvExclusive == IInv => Exclusive
<1> SUFFICES ASSUME IInv, NEW c \in Turn, NEW d \in Turn PROVE c = d
  BY DEF Exclusive
<1>1. c \in Calls /\ d \in Calls /\ status[c] = "active" /\ status[d] = "active"
  BY DEF Turn
<1>2. link[c] # 0 /\ link[d] # 0 /\ link[c] \in Nat /\ link[d] \in Nat
  BY <1>1 DEF IInv, HasPlace, TypeOK
<1>3. ~(link[c] < link[d]) /\ ~(link[d] < link[c])
  BY <1>1, <1>2 DEF IInv, InOrder, Begun, Settled
<1> QED BY <1>1, <1>2, <1>3 DEF IInv, OwnPlace

(***************************************************************************)
(* The queue's state keeps its shape: every call is in one of the five     *)
(* stages update-queue.ts takes it through.                                *)
(***************************************************************************)
THEOREM TypeCorrect == Spec => []TypeOK
  BY SpecIInv, PTL DEF IInv

(***************************************************************************)
(* However many updates and resets there are, one of them at a time has    *)
(* the turn: a reset that holds the queue runs alone (update-queue.ts).    *)
(***************************************************************************)
THEOREM QueueExclusive == Spec => []Exclusive
  BY SpecIInv, IInvExclusive, PTL

(***************************************************************************)
(* pause() drains what was received before it and holds what comes after   *)
(* it, for any calls in any order.                                         *)
(***************************************************************************)
THEOREM QueueBarrier == Spec => []Barrier
  BY SpecIInv, IInvBarrier, PTL

\* A call that begins finds nobody with the turn: all before it have settled.
LEMMA StartFindsNoTurn == ASSUME IInv, NEW c \in Calls, Start(c) PROVE Turn = {}
<1> SUFFICES ASSUME NEW d \in Turn PROVE FALSE
  OBVIOUS
<1>1. IInv' /\ Exclusive'
  BY StartIInv, IInvExclusive, PTL
<1>2. d \in Turn' /\ c \in Turn'
  BY DEF Turn, Start, IInv, TypeOK
<1> QED BY <1>1, <1>2 DEF Exclusive, Turn, Start

(***************************************************************************)
(* The promise chain implements the lock that a reset relies on: every     *)
(* step of the queue is a step of HoldLock, or changes nothing there.      *)
(***************************************************************************)
THEOREM QueueTakesTurns == Spec => TakesTurns
<1> DEFINE Waiting == {c \in Calls : status[c] = "queued"}
<1>1. Init => Lock!Init
  BY DEF Init, Lock!Init, Turn
<1>2. ASSUME IInv, IInv', [Next]_vars PROVE [Lock!Next]_(Lock!vars)
  <2>1. ASSUME NEW c \in Calls, Enqueue(c) PROVE Lock!Ask(c)
    BY <1>2, <2>1 DEF Enqueue, Lock!Ask, Turn, IInv, TypeOK
  <2>2. ASSUME NEW c \in Calls, Start(c) PROVE Lock!Begin(c)
    <3>1. Turn = {}
      BY <1>2, <2>2, StartFindsNoTurn
    <3>2. Turn' = {c} /\ Waiting' = Waiting \ {c} /\ c \in Waiting
      BY <1>2, <2>2, <3>1 DEF Start, Turn, IInv, TypeOK
    <3> QED BY <3>1, <3>2 DEF Lock!Begin
  <2>3. ASSUME NEW c \in Calls, Finish(c) \/ Resume(c) PROVE Lock!End(c)
    <3>1. Exclusive /\ c \in Turn
      BY <1>2, <2>3, IInvExclusive DEF Turn, Finish, Resume
    <3>2. Turn = {c}
      BY <3>1 DEF Exclusive
    <3>3. Turn' = {} /\ Waiting' = Waiting
      BY <1>2, <2>3, <3>2 DEF Turn, Finish, Resume, Settled, IInv, TypeOK
    <3> QED BY <3>2, <3>3 DEF Lock!End
  <2>4. CASE UNCHANGED vars
    BY <2>4 DEF vars, Lock!vars, Turn
  <2> QED BY <1>2, <2>1, <2>2, <2>3, <2>4 DEF Next, Run, Pause, Lock!Next
<1> QED BY <1>1, <1>2, SpecIInv, PTL DEF Spec, TakesTurns, Lock!Spec
=============================================================================
