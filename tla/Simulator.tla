------------------------------ MODULE Simulator -----------------------------
(***************************************************************************)
(* The lifecycle of a simulator: packages/counterfact/src/app.ts, the      *)
(* closure counterfact() returns, with the request gate of                 *)
(* packages/runtime/src/server/web-server/create-koa-app.ts.               *)
(*                                                                         *)
(* The program is single-threaded: what runs between two awaits is one     *)
(* action.  The callers of start(), reset(), scenario() and stop(), the    *)
(* HTTP clients, the handlers and the file watchers act in any order, with *)
(* one exception: start() is called when the simulator is not started and  *)
(* no start() or stop() is under way, and stop() after start() returned,   *)
(* as docs/api/simulator.md does.                                          *)
(***************************************************************************)
EXTENDS Naturals, FiniteSets

CONSTANTS Requests,    \* HTTP requests; each arrives at most once
          QueueCount,  \* update queues: the store's, then one per runner
          StopCalls,   \* calls of stop() that may overlap
          MaxStarts,   \* bound: calls of start()
          MaxUpdates   \* bound: file events waiting in one queue

ASSUME SimulatorAssumption ==
  /\ IsFiniteSet(Requests)
  /\ QueueCount \in Nat \ {0}
  /\ MaxStarts \in Nat
  /\ MaxUpdates \in Nat

Queues == 1 .. QueueCount

VARIABLES
  phase,             \* the variables of the closure, by their names
  stateUnavailable,
  activeRequests,
  drained,           \* "unset", "waiting" (a resolver), "released" (it was called)
  resetStage,        \* how far the reset behind resetPromise has come
  holding,           \* pauses that the reset has placed: on queues 1..holding
  scenarioPromise,   \* is a named scenario running?
  startStage,        \* how far the call of start() has come
  starts,            \* calls of start() so far
  handle,            \* has a start() returned, and stop() with it?
  stop,              \* how far each call of stop() has come
  watching,          \* the file watchers of the loaders are open
  ahead, behind,     \* file events of a queue ahead of, and behind, a hold
  whole,             \* no reset has taken the state apart and not completed it
  admitted,          \* requests that lifecycle.enter() let in,
  refused,           \* and those answered with 503
  responseDone, handlerDone, streaming, left  \* requests by their gate flags

closure  == <<phase, stateUnavailable, whole>>
resetting == <<resetStage, holding>>
gate     == <<admitted, refused, responseDone, handlerDone, streaming, left>>
calls    == <<startStage, starts, handle, stop, watching>>
updates  == <<ahead, behind>>
vars == <<closure, activeRequests, drained, resetting, scenarioPromise, calls,
          updates, gate>>

Phase == {"idle", "running", "resetting", "failed", "stopping", "stopped"}
\* "none": resetPromise is undefined.  "finally": the outcome is known.
ResetStage == {"none", "called", "pausing", "draining", "seeding", "finally"}
StartStage == {"none", "preparing", "starting", "binding", "settling", "closing"}
StopStage  == {"idle", "settling", "closing"}

TypeOK ==
  /\ phase \in Phase
  /\ stateUnavailable \in BOOLEAN
  /\ whole \in BOOLEAN
  /\ activeRequests \in Nat
  /\ drained \in {"unset", "waiting", "released"}
  /\ resetStage \in ResetStage
  /\ holding \in 0 .. QueueCount
  /\ scenarioPromise \in BOOLEAN
  /\ startStage \in StartStage
  /\ starts \in 0 .. MaxStarts
  /\ handle \in BOOLEAN
  /\ stop \in [StopCalls -> StopStage]
  /\ watching \in BOOLEAN
  /\ ahead \in [Queues -> Nat]
  /\ behind \in [Queues -> Nat]
  /\ admitted \in SUBSET Requests
  /\ refused \in SUBSET Requests
  /\ responseDone \in SUBSET Requests
  /\ handlerDone \in SUBSET Requests
  /\ streaming \in SUBSET Requests
  /\ left \in SUBSET Requests

Init ==
  /\ phase = "idle"
  /\ stateUnavailable = FALSE
  /\ whole = TRUE
  /\ activeRequests = 0
  /\ drained = "unset"
  /\ resetStage = "none"
  /\ holding = 0
  /\ scenarioPromise = FALSE
  /\ startStage = "none"
  /\ starts = 0
  /\ handle = FALSE
  /\ stop = [s \in StopCalls |-> "idle"]
  /\ watching = FALSE
  /\ ahead = [q \in Queues |-> 0]
  /\ behind = [q \in Queues |-> 0]
  /\ admitted = {} /\ refused = {}
  /\ responseDone = {} /\ handlerDone = {} /\ streaming = {} /\ left = {}

-----------------------------------------------------------------------------
(* The request gate.                                                       *)

\* Fault: the gate only closes when the simulator stops.
MayEnterUntilStopped == phase \notin {"idle", "stopping", "stopped"}

\* lifecycle.enter() lets requests in while the simulator is running only.
MayEnter == phase = "running"

\* A request reaches the Koa application.
Arrive(r) ==
  /\ r \notin admitted \cup refused
  /\ IF MayEnter
     THEN /\ admitted' = admitted \cup {r}
          /\ activeRequests' = activeRequests + 1
          /\ UNCHANGED refused
     ELSE /\ refused' = refused \cup {r}
          /\ UNCHANGED <<admitted, activeRequests>>
  /\ UNCHANGED <<closure, drained, resetting, scenarioPromise, calls, updates,
                 responseDone, handlerDone, streaming, left>>

\* Fault: a closed connection is taken for the end of the body's producer.
MayLeaveBeforeBody(r) == r \notin left /\ r \in responseDone' /\ r \in handlerDone'

\* Fault: the second of "finish" and "close" leaves again.
MayLeaveTwice(r) == r \in responseDone' /\ r \in handlerDone' /\ r \notin streaming'

\* left is still false and the response, the handler and the body are done.
MayLeave(r) == /\ r \notin left
               /\ r \in responseDone'
               /\ r \in handlerDone'
               /\ r \notin streaming'

\* Fault: the last request to leave does not call drained().
LeaveSilently(r) ==
  IF MayLeave(r)
  THEN /\ left' = left \cup {r}
       /\ activeRequests' = activeRequests - 1
       /\ UNCHANGED drained
  ELSE UNCHANGED <<left, activeRequests, drained>>

\* leave(): the request counts no more; the last one wakes a waiting reset.
Leave(r) ==
  IF MayLeave(r)
  THEN /\ left' = left \cup {r}
       /\ activeRequests' = activeRequests - 1
       /\ drained' = IF activeRequests' = 0 /\ drained = "waiting"
                     THEN "released" ELSE drained
  ELSE UNCHANGED <<left, activeRequests, drained>>

UnchangedByRequest ==
  UNCHANGED <<closure, resetting, scenarioPromise, calls, updates, admitted, refused>>

\* The middleware below the gate returns, with a plain or a Readable body.
HandlerEnds(r) ==
  /\ r \in admitted \ handlerDone
  /\ handlerDone' = handlerDone \cup {r}
  /\ \E body \in {{}, {r}} : streaming' = streaming \cup body
  /\ UNCHANGED responseDone
  /\ Leave(r)
  /\ UnchangedByRequest

\* finished() reports that a Readable body has ended and cleaned up.
BodyEnds(r) ==
  /\ r \in streaming
  /\ streaming' = streaming \ {r}
  /\ UNCHANGED <<responseDone, handlerDone>>
  /\ Leave(r)
  /\ UnchangedByRequest

ResponseDone(r) ==
  /\ r \in admitted
  /\ responseDone' = responseDone \cup {r}
  /\ UNCHANGED <<handlerDone, streaming>>
  /\ Leave(r)
  /\ UnchangedByRequest

\* "finish": everything the handler and its body produced has been sent.
ResponseFinishes(r) ==
  /\ r \in (handlerDone \ streaming) \ responseDone
  /\ ResponseDone(r)

\* "close": after "finish", or because the client or the terminator of the
\* server drops the connection at any time.
ResponseCloses(r) == ResponseDone(r)

-----------------------------------------------------------------------------
(* File events: the queues are UpdateQueue's, seen as the lock they are.   *)

\* A watcher queues an update; a hold that was placed keeps it behind.
FileEvent(q) ==
  /\ watching
  /\ ahead[q] + behind[q] < MaxUpdates
  /\ IF q <= holding
     THEN behind' = [behind EXCEPT ![q] = @ + 1] /\ UNCHANGED ahead
     ELSE ahead' = [ahead EXCEPT ![q] = @ + 1] /\ UNCHANGED behind
  /\ UNCHANGED <<closure, activeRequests, drained, resetting, scenarioPromise,
                 calls, gate>>

\* The update at the head of a queue comes to its end.
Update(q) ==
  /\ ahead[q] > 0
  /\ ahead' = [ahead EXCEPT ![q] = @ - 1]
  /\ UNCHANGED <<behind, closure, activeRequests, drained, resetting,
                 scenarioPromise, calls, gate>>
-----------------------------------------------------------------------------
(* reset()                                                                 *)

UnchangedByReset ==
  UNCHANGED <<activeRequests, scenarioPromise, calls, gate>>

\* Fault: reset() does not look at scenarioPromise.
MayResetDuringScenario == resetStage = "none" /\ phase \in {"running", "failed"}

\* reset() starts an operation, unless it joins a pending one or rejects.
MayReset == /\ resetStage = "none"
            /\ phase \in {"running", "failed"}
            /\ ~scenarioPromise

\* Fault: public access stays open until the old state is taken apart.
ResetWithoutGuard ==
  /\ MayReset
  /\ phase' = "resetting"
  /\ resetStage' = "called"
  /\ UNCHANGED <<stateUnavailable, whole, drained, holding, updates>>
  /\ UnchangedByReset

Reset ==
  /\ MayReset
  /\ phase' = "resetting"
  /\ stateUnavailable' = TRUE
  /\ resetStage' = "called"
  /\ UNCHANGED <<whole, drained, holding, updates>>
  /\ UnchangedByReset

\* The operation runs up to its first await: it pauses the store's queue.
BeginPausing ==
  /\ resetStage = "called"
  /\ resetStage' = "pausing"
  /\ holding' = 1
  /\ UNCHANGED <<closure, drained, updates>>
  /\ UnchangedByReset

(***************************************************************************)
(* storeLoader.reset(), resetRoutes(), resetContexts() and the new maps of *)
(* named routes, with no await between them; a constructor may throw.      *)
(***************************************************************************)
Rebuild ==
  /\ drained' = "unset"
  /\ whole' = FALSE
  /\ stateUnavailable' = stateUnavailable
  /\ \/ resetStage' = "seeding" /\ phase' = phase
     \/ /\ resetStage' = "finally"
        /\ phase' = IF phase = "resetting" THEN "failed" ELSE phase

\* Fault: only the store's queue is paused.
NoMoreQueues == FALSE

\* Runners whose queue is not paused yet.
MoreQueues == holding < QueueCount

\* The reset has to wait for requests that are still in the gate.
MustDrain == activeRequests > 0

\* A pause is granted, and the next queue is paused; after the last one the
\* reset waits for the requests to leave, or rebuilds at once.
PauseGranted ==
  /\ resetStage = "pausing"
  /\ ahead[holding] = 0
  /\ IF MoreQueues
     THEN /\ holding' = holding + 1
          /\ UNCHANGED <<closure, resetStage, drained>>
     ELSE /\ UNCHANGED holding
          /\ IF MustDrain
             THEN /\ resetStage' = "draining"
                  /\ drained' = "waiting"
                  /\ UNCHANGED closure
             ELSE Rebuild
  /\ UNCHANGED updates
  /\ UnchangedByReset

\* drained() was called, and the reset goes on.
Drained ==
  /\ resetStage = "draining"
  /\ drained = "released"
  /\ Rebuild
  /\ UNCHANGED <<holding, updates>>
  /\ UnchangedByReset

\* The startup scenarios of all groups have run: the state is complete.
SeedingSucceeds ==
  /\ resetStage = "seeding"
  /\ resetStage' = "finally"
  /\ whole' = TRUE
  /\ stateUnavailable' = FALSE
  /\ phase' = IF phase = "resetting" THEN "running" ELSE phase
  /\ UNCHANGED <<drained, holding, updates>>
  /\ UnchangedByReset

\* Fault: the guard of the public accessors is lifted after a failure too.
SeedingFailsOpen ==
  /\ resetStage = "seeding"
  /\ resetStage' = "finally"
  /\ stateUnavailable' = FALSE
  /\ phase' = IF phase = "resetting" THEN "failed" ELSE phase
  /\ UNCHANGED <<whole, drained, holding, updates>>
  /\ UnchangedByReset

\* A startup scenario throws.
SeedingFails ==
  /\ resetStage = "seeding"
  /\ resetStage' = "finally"
  /\ phase' = IF phase = "resetting" THEN "failed" ELSE phase
  /\ UNCHANGED <<stateUnavailable, whole, drained, holding, updates>>
  /\ UnchangedByReset

\* Fault: the promise is forgotten and the queues stay paused.
FinallyWithoutResume ==
  /\ resetStage = "finally"
  /\ resetStage' = "none"
  /\ UNCHANGED <<closure, drained, holding, updates>>
  /\ UnchangedByReset

\* The finally reaction: resume the queues and forget the promise.
Finally ==
  /\ resetStage = "finally"
  /\ resetStage' = "none"
  /\ holding' = 0
  /\ ahead' = [q \in Queues |-> ahead[q] + behind[q]]
  /\ behind' = [q \in Queues |-> 0]
  /\ UNCHANGED <<closure, drained>>
  /\ UnchangedByReset

-----------------------------------------------------------------------------
(* scenario()                                                              *)

UnchangedByScenario ==
  UNCHANGED <<closure, activeRequests, drained, resetting, calls, updates, gate>>

\* scenario() rejects unless the simulator runs and no other scenario does.
MayRunScenario == phase = "running" /\ ~scenarioPromise

Scenario ==
  /\ MayRunScenario
  /\ scenarioPromise' = TRUE
  /\ UnchangedByScenario

\* The scenario returned or threw.
ScenarioEnds ==
  /\ scenarioPromise
  /\ scenarioPromise' = FALSE
  /\ UnchangedByScenario

-----------------------------------------------------------------------------
(* start() and stop()                                                      *)

UnchangedByCall ==
  UNCHANGED <<whole, activeRequests, drained, resetting, scenarioPromise,
              updates, gate>>

\* What stopResources() waits for: the reset and the scenario it captured.
\* While it waits the phase lets neither begin, so the promises that are
\* pending are the captured ones.
Settled == resetStage = "none" /\ ~scenarioPromise

\* start() is called: code generation, then the watchers and the loaders.
Start ==
  /\ starts < MaxStarts
  /\ startStage = "none" /\ phase \in {"idle", "stopped"}
  /\ \A s \in StopCalls : stop[s] = "idle"
  /\ starts' = starts + 1
  /\ startStage' = "preparing"
  /\ UNCHANGED <<phase, stateUnavailable, handle, stop, watching>>
  /\ UnchangedByCall

\* Generation throws before the try block: start() rejects and cleans nothing.
GenerationFails ==
  /\ startStage = "preparing"
  /\ startStage' = "none"
  /\ UNCHANGED <<phase, stateUnavailable, starts, handle, stop, watching>>
  /\ UnchangedByCall

\* Modules and store are loaded and watched; without a server that is all.
StartLoaded ==
  /\ startStage = "preparing"
  /\ \/ startStage' = "starting" /\ watching' = TRUE /\ UNCHANGED handle
     \/ startStage' = "none" /\ handle' = TRUE /\ UNCHANGED watching
  /\ UNCHANGED <<phase, stateUnavailable, starts, stop>>
  /\ UnchangedByCall

\* The startup scenarios have run: the simulator is running, and binds.
Publish ==
  /\ startStage = "starting"
  /\ startStage' = "binding"
  /\ stateUnavailable' = FALSE
  /\ phase' = "running"
  /\ UNCHANGED <<starts, handle, stop, watching>>
  /\ UnchangedByCall

\* The listener is up and start() returns.
Listening ==
  /\ startStage = "binding"
  /\ startStage' = "none"
  /\ handle' = TRUE
  /\ UNCHANGED <<phase, stateUnavailable, starts, stop, watching>>
  /\ UnchangedByCall

\* Loading, a startup scenario or the bind fails: start() stops what it started.
\* "failed" lasts until the first line of stopResources(), in the same step.
StartFails ==
  /\ startStage \in {"preparing", "starting", "binding"}
  /\ startStage' = "settling"
  /\ phase' = "stopping"
  /\ UNCHANGED <<stateUnavailable, starts, handle, stop, watching>>
  /\ UnchangedByCall

\* The captured promises have settled: close the watchers and the listener.
StartSettles ==
  /\ startStage = "settling"
  /\ Settled
  /\ startStage' = "closing"
  /\ phase' = "stopped"
  /\ watching' = FALSE
  /\ UNCHANGED <<stateUnavailable, starts, handle, stop>>
  /\ UnchangedByCall

\* stopWatching() also waits for the updates that were already received.
QueuesEmpty == holding = 0 /\ \A q \in Queues : ahead[q] = 0

StartCloses ==
  /\ startStage = "closing"
  /\ QueuesEmpty
  /\ startStage' = "none"
  /\ UNCHANGED <<phase, stateUnavailable, starts, handle, stop, watching>>
  /\ UnchangedByCall

\* stop() of the last start() is called, once or more often.
Stop(s) ==
  /\ stop[s] = "idle"
  /\ startStage = "none" /\ handle
  /\ stop' = [stop EXCEPT ![s] = "settling"]
  /\ phase' = "stopping"
  /\ UNCHANGED <<stateUnavailable, startStage, starts, handle, watching>>
  /\ UnchangedByCall

StopSettles(s) ==
  /\ stop[s] = "settling"
  /\ Settled
  /\ stop' = [stop EXCEPT ![s] = "closing"]
  /\ phase' = "stopped"
  /\ watching' = FALSE
  /\ UNCHANGED <<stateUnavailable, startStage, starts, handle>>
  /\ UnchangedByCall

StopReturns(s) ==
  /\ stop[s] = "closing"
  /\ QueuesEmpty
  /\ stop' = [stop EXCEPT ![s] = "idle"]
  /\ UNCHANGED <<phase, stateUnavailable, startStage, starts, handle, watching>>
  /\ UnchangedByCall

-----------------------------------------------------------------------------
ResetStep == \/ Reset \/ BeginPausing \/ PauseGranted \/ Drained
             \/ SeedingSucceeds \/ SeedingFails \/ Finally
ScenarioStep == Scenario \/ ScenarioEnds
StartStep == \/ Start \/ GenerationFails \/ StartLoaded \/ Publish \/ Listening
             \/ StartFails \/ StartSettles \/ StartCloses
StopStep(s) == Stop(s) \/ StopSettles(s) \/ StopReturns(s)
RequestStep(r) == \/ Arrive(r) \/ HandlerEnds(r) \/ BodyEnds(r)
                  \/ ResponseFinishes(r) \/ ResponseCloses(r)
UpdateStep(q) == FileEvent(q) \/ Update(q)

Next == \/ ResetStep
        \/ ScenarioStep
        \/ StartStep
        \/ \E s \in StopCalls : StopStep(s)
        \/ \E r \in Requests : RequestStep(r)
        \/ \E q \in Queues : UpdateStep(q)

Spec == Init /\ [][Next]_vars

(***************************************************************************)
(* Nothing but the program's own progress is fair: promise reactions that  *)
(* are due, and the user code, streams and responses it waits for, which   *)
(* are taken to end (a handler that awaits reset() does not).  Callers,    *)
(* clients that hang up, and files that change are under no obligation.    *)
(***************************************************************************)
ResetWork == \/ BeginPausing \/ PauseGranted \/ Drained
             \/ SeedingSucceeds \/ SeedingFails \/ Finally
StartWork == StartLoaded \/ Publish \/ Listening \/ StartSettles \/ StartCloses

FairSpec ==
  /\ Spec
  /\ WF_vars(ResetWork) /\ WF_vars(ScenarioEnds) /\ WF_vars(StartWork)
  /\ \A s \in StopCalls : WF_vars(StopSettles(s) \/ StopReturns(s))
  /\ \A r \in Requests : /\ WF_vars(HandlerEnds(r))
                         /\ WF_vars(BodyEnds(r))
                         /\ WF_vars(ResponseFinishes(r))
  /\ \A q \in Queues : WF_vars(Update(q))

-----------------------------------------------------------------------------
(* Properties                                                              *)

\* Requests whose handler or body producer may still read and write state.
Working == admitted \ (handlerDone \ streaming)

(***************************************************************************)
(* The counter behind enter() and leave() is the number of requests in the *)
(* gate: no request leaves twice or is forgotten, in whatever order its    *)
(* response, handler and body come to their end (create-koa-app.ts).       *)
(***************************************************************************)
GateCounts == activeRequests = Cardinality(admitted \ left)

(***************************************************************************)
(* "A disconnected response is not producer completion": no handler and no *)
(* body producer is at work while a reset seeds the state it rebuilt.      *)
(***************************************************************************)
DrainedBeforeRebuild == resetStage = "seeding" => Working = {}

(***************************************************************************)
(* "Reset cannot run during a scenario": a named scenario and the work of  *)
(* a reset never overlap (simulator.md, reset() and scenario()).           *)
(***************************************************************************)
ResetWorks == resetStage \in {"called", "pausing", "draining", "seeding"}
NoScenarioDuringReset == ~(scenarioPromise /\ ResetWorks)

(***************************************************************************)
(* "File events received during reset wait until it finishes": no update   *)
(* of any loader runs between reconstruction and the end of the startup    *)
(* scenarios.                                                              *)
(***************************************************************************)
UpdatesHeld == resetStage = "seeding" => \A q \in Queues : ahead[q] = 0

(***************************************************************************)
(* "Public store and loadContext() access throws during reset", also when  *)
(* stop() was called and waits for the reset.                              *)
(***************************************************************************)
UnavailableDuringReset == ResetWorks => stateUnavailable

(***************************************************************************)
(* A reset has the state to itself: requests admitted earlier have left,   *)
(* with the bodies they streamed, no named scenario runs, the update       *)
(* queues of all runners are held, and the public accessors are closed     *)
(* (app.ts, reset() and pauseUpdates(); create-koa-app.ts, the gate).      *)
(***************************************************************************)
ResetExcludes ==
  DrainedBeforeRebuild /\ NoScenarioDuringReset /\ UpdatesHeld /\ UnavailableDuringReset

(***************************************************************************)
(* "A failed reset leaves state unavailable until a successful reset":     *)
(* only startup scenarios of a reset that succeed lift the guard.          *)
(***************************************************************************)
OnlyResetReveals ==
  [][stateUnavailable /\ ~stateUnavailable' => resetStage = "seeding" /\ whole']_vars

(***************************************************************************)
(* Requests and reconstruction exclude each other: the phases, the counter *)
(* and the drain implement the readers-writer lock of StateBarrier.        *)
(***************************************************************************)
Barrier == INSTANCE StateBarrier WITH working <- Working
KeepsBarrier == Barrier!Spec

\* A reset comes to an end: no wake-up of the drain is lost, no pause is stuck.
ResetEnds == resetStage # "none" ~> resetStage = "none"

\* stop() returns, also when it is called during a reset or a scenario.
StopEnds == \A s \in StopCalls : stop[s] # "idle" ~> stop[s] = "idle"

\* Updates that a reset held back run when it is over.
HeldUpdatesResume == \A q \in Queues : behind[q] > 0 ~> behind[q] = 0
=============================================================================
