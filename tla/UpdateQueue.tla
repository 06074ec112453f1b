----------------------------- MODULE UpdateQueue ----------------------------
(***************************************************************************)
(* packages/runtime/src/server/update-queue.ts: a chain of promises that   *)
(* serialises watch updates and lets an explicit reset hold them back.     *)
(*                                                                         *)
(* The k-th call of run() or pause() hangs one promise, the k-th, on the   *)
(* chain, and `tail` names the last one; promise 0 is the resolved promise *)
(* the queue starts with.  A call is made once, so a call is a constant:   *)
(* Operations are the calls of run() and Pauses the calls of pause().      *)
(***************************************************************************)
EXTENDS Naturals

CONSTANTS Operations,  \* calls of run(operation)
          Pauses       \* calls of pause()

ASSUME CallsAssumption == Operations \cap Pauses = {}

Calls == Operations \cup Pauses

VARIABLES tail,    \* index of the promise in this.tail
          link,    \* the index of the promise a call hung on the chain
          status   \* how far a call has come

vars == <<tail, link, status>>

(***************************************************************************)
(* "idle": not called yet.  "queued": called, the promise before it is     *)
(* pending.  "active": the operation runs, or pause() returned and holds.  *)
(* "done": the operation fulfilled, or the hold was resumed.  "failed":    *)
(* the operation rejected.                                                 *)
(***************************************************************************)
Status == {"idle", "queued", "active", "done", "failed"}

TypeOK == /\ tail \in Nat
          /\ link \in [Calls -> Nat]
          /\ status \in [Calls -> Status]

Init == /\ tail = 0
        /\ link = [c \in Calls |-> 0]
        /\ status = [c \in Calls |-> "idle"]

\* Fault: an operation that takes too long is given up, and is neither.
SettledOrGivenUp == {"done", "failed", "given up"}

\* tail is result.catch(() => undefined): it resolves after a rejection too.
Settled == {"done", "failed"}

\* Fault: tail is the operation's own promise, so a rejection ends the chain.
ResolvedOnSuccess(k) == k = 0 \/ \E c \in Calls : link[c] = k /\ status[c] = "done"

\* The promise at position k of the chain has resolved.
Resolved(k) == k = 0 \/ \E c \in Calls : link[c] = k /\ status[c] \in Settled

\* The promise that the next call chains to.
Previous == tail

\* Fault: pause() leaves the tail alone, so later calls chain beside its hold.
EnqueueBesideHold(c) ==
  /\ status[c] = "idle"
  /\ tail' = IF c \in Pauses THEN tail ELSE Previous + 1
  /\ link' = [link EXCEPT ![c] = Previous + 1]
  /\ status' = [status EXCEPT ![c] = "queued"]

\* run() and the synchronous part of pause(): chain to the tail, become it.
Enqueue(c) ==
  /\ status[c] = "idle"
  /\ tail' = Previous + 1
  /\ link' = [link EXCEPT ![c] = Previous + 1]
  /\ status' = [status EXCEPT ![c] = "queued"]

Run(o) == o \in Operations /\ Enqueue(o)
Pause(p) == p \in Pauses /\ Enqueue(p)

\* Fault: the operation is called at once instead of in a reaction of the tail.
StartAtOnce(c) ==
  /\ status[c] = "queued"
  /\ c \in Pauses => Resolved(link[c] - 1)
  /\ status' = [status EXCEPT ![c] = "active"]
  /\ UNCHANGED <<tail, link>>

\* The promise before c resolves: the operation starts, pause() returns.
Start(c) ==
  /\ status[c] = "queued"
  /\ Resolved(link[c] - 1)
  /\ status' = [status EXCEPT ![c] = "active"]
  /\ UNCHANGED <<tail, link>>

\* The operation ends, one way or the other; its failure is run()'s caller's.
Finish(o) ==
  /\ o \in Operations
  /\ status[o] = "active"
  /\ \E outcome \in Settled : status' = [status EXCEPT ![o] = outcome]
  /\ UNCHANGED <<tail, link>>

\* The caller of pause() calls the resume function it was given.
Resume(p) ==
  /\ p \in Pauses
  /\ status[p] = "active"
  /\ status' = [status EXCEPT ![p] = "done"]
  /\ UNCHANGED <<tail, link>>

Next == \E c \in Calls : \/ Run(c)
                         \/ Pause(c)
                         \/ Start(c)
                         \/ Finish(c)
                         \/ Resume(c)

Spec == Init /\ [][Next]_vars

(***************************************************************************)
(* A promise reaction that is due runs (the event loop), an operation ends *)
(* (module import and callbacks), and a reset resumes what it paused (the  *)
(* finally of reset()).  Nobody has to call anything.                      *)
(***************************************************************************)
FairSpec == Spec /\ \A c \in Calls : WF_vars(Start(c) \/ Finish(c) \/ Resume(c))

-----------------------------------------------------------------------------
Called == {c \in Calls : status[c] # "idle"}
Turn   == {c \in Calls : status[c] = "active"}

(***************************************************************************)
(* A reset that holds the queue runs alone: no operation runs while a      *)
(* pause holds, no two operations run at once, no two pauses hold at once. *)
(***************************************************************************)
Exclusive == \A c, d \in Turn : c = d

(***************************************************************************)
(* pause() "drains received events, then holds subsequent updates": while  *)
(* a call has its turn, all calls made before it are over and none of      *)
(* those made after it has started.                                        *)
(***************************************************************************)
Barrier == \A c \in Turn, d \in Called :
             /\ link[d] < link[c] => status[d] \in Settled
             /\ link[d] > link[c] => status[d] = "queued"

(***************************************************************************)
(* Every update that was queued runs, and every pause is granted, whatever *)
(* the operations before it did: a failed update must not stop the queue.  *)
(***************************************************************************)
EveryCallRuns == \A c \in Calls : status[c] = "queued" ~> status[c] \in Settled

\* The queue takes turns: it implements the lock that a reset relies on.
Lock == INSTANCE HoldLock WITH Callers <- Calls,
                               waiting <- {c \in Calls : status[c] = "queued"},
                               turn    <- Turn
TakesTurns == Lock!Spec
=============================================================================
