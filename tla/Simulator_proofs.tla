-------------------------- MODULE Simulator_proofs --------------------------
(***************************************************************************)
(* The guarantees of the simulator's lifecycle for any number of requests, *)
(* update queues, overlapping stops and restarts.  What carries them:      *)
(* the counter of the gate counts (GateOrder, GateCounts), the pauses are  *)
(* placed and granted in order (HoldsInOrder), and the phase tells how far *)
(* reset, start and stop may have come (PhaseTells).                       *)
(***************************************************************************)
EXTENDS Simulator, FiniteSetTheorems, TLAPS

\* What the flags of a request in the gate say of one another.
GateOrder ==
  /\ left \subseteq handlerDone \ streaming
  /\ streaming \subseteq handlerDone
  /\ handlerDone \subseteq admitted

\* Queues are paused one after the other, and drained before the next is.
HoldsInOrder ==
  /\ resetStage \in {"none", "called"} => holding = 0
  /\ resetStage \in {"pausing", "draining", "seeding", "finally"} => holding > 0
  /\ resetStage = "pausing" => \A q \in Queues : q < holding => ahead[q] = 0
  /\ resetStage \in {"draining", "seeding"} =>
       /\ holding = QueueCount
       /\ \A q \in Queues : ahead[q] = 0
  /\ resetStage = "draining" /\ drained = "released" => activeRequests = 0
  /\ resetStage = "seeding" => activeRequests = 0

\* What the phase says of the operations under way.
PhaseTells ==
  /\ phase = "running" => ~ResetWorks
  /\ phase \in {"idle", "stopped"} => resetStage = "none" /\ ~scenarioPromise
  /\ startStage \in {"preparing", "starting"} =>
       /\ phase \in {"idle", "stopped"}
       /\ \A s \in StopCalls : stop[s] = "idle"

IInv == /\ TypeOK
        /\ GateOrder
        /\ GateCounts
        /\ HoldsInOrder
        /\ PhaseTells
        /\ NoScenarioDuringReset
        /\ UnavailableDuringReset

LEMMA InitIInv == Init => IInv
<1> SUFFICES ASSUME Init PROVE IInv
  OBVIOUS
<1> USE SimulatorAssumption DEF Init
<1>1. TypeOK
  <2>1. /\ stateUnavailable \in BOOLEAN /\ whole \in BOOLEAN /\ scenarioPromise \in BOOLEAN
        /\ handle \in BOOLEAN /\ watching \in BOOLEAN
    BY Zenon
  <2>2. stop \in [StopCalls -> StopStage] /\ ahead \in [Queues -> Nat] /\ behind \in [Queues -> Nat]
    BY DEF StopStage
  <2>3. holding \in 0 .. QueueCount /\ starts \in 0 .. MaxStarts
    OBVIOUS
  <2> QED BY <2>1, <2>2, <2>3 DEF TypeOK, Phase, ResetStage, StartStage
<1>2. GateCounts
  BY FS_EmptySet DEF GateCounts
<1> QED
  BY <1>1, <1>2 DEF IInv, GateOrder, HoldsInOrder, PhaseTells, ResetWorks,
                    NoScenarioDuringReset, UnavailableDuringReset

-----------------------------------------------------------------------------
(* The gate's counter                                                      *)

LEMMA InGateFinite == TypeOK => /\ IsFiniteSet(admitted \ left)
                                /\ Cardinality(admitted \ left) \in Nat
  BY SimulatorAssumption, FS_Subset, FS_CardinalityType DEF TypeOK

\* One more request in the gate.
LEMMA ArriveCounts ==
  ASSUME TypeOK, GateOrder, GateCounts, NEW r \in Requests, Arrive(r)
  PROVE  GateCounts'
<1>1. CASE MayEnter
  <2>1. (admitted \ left)' = (admitted \ left) \cup {r} /\ r \notin admitted \ left
    BY <1>1 DEF Arrive, GateOrder
  <2> QED BY <1>1, <2>1, InGateFinite, FS_AddElement DEF GateCounts, Arrive
<1>2. CASE ~MayEnter
  BY <1>2 DEF GateCounts, Arrive
<1> QED BY <1>1, <1>2

\* One request less, if it leaves, and the same requests otherwise.
LEMMA LeaveCounts ==
  ASSUME TypeOK, GateOrder, GateCounts, NEW r \in admitted, Leave(r), admitted' = admitted
  PROVE  GateCounts' /\ activeRequests' \in Nat
<1>1. CASE MayLeave(r)
  <2>1. (admitted \ left)' = (admitted \ left) \ {r} /\ r \in admitted \ left
    BY <1>1 DEF Leave, MayLeave
  <2>2. Cardinality((admitted \ left) \ {r}) = Cardinality(admitted \ left) - 1
    BY <2>1, InGateFinite, FS_RemoveElement
  <2>3. Cardinality((admitted \ left) \ {r}) \in Nat
    BY InGateFinite, FS_RemoveElement, FS_CardinalityType
  <2> QED BY <1>1, <2>1, <2>2, <2>3 DEF GateCounts, Leave
<1>2. CASE ~MayLeave(r)
  BY <1>2 DEF GateCounts, Leave, TypeOK
<1> QED BY <1>1, <1>2

\* An empty gate means that nobody is at work.
LEMMA EmptyGate == TypeOK /\ GateOrder /\ GateCounts /\ activeRequests = 0 => Working = {}
<1> SUFFICES ASSUME TypeOK, GateOrder, GateCounts, activeRequests = 0 PROVE Working = {}
  OBVIOUS
<1>1. admitted \ left = {}
  BY InGateFinite, FS_EmptySet DEF GateCounts
<1> QED BY <1>1 DEF Working, GateOrder

-----------------------------------------------------------------------------
(* One lemma per group of actions                                          *)

LEMMA ArriveIInv == ASSUME IInv, NEW r \in Requests, Arrive(r) PROVE IInv'
<1> USE DEF IInv, Arrive, closure, resetting, calls, updates
<1>1. GateCounts'
  BY ArriveCounts
<1>2. TypeOK'
  BY DEF TypeOK
<1>3. GateOrder'
  BY DEF GateOrder, TypeOK
<1>4. HoldsInOrder' /\ PhaseTells'
  BY DEF HoldsInOrder, PhaseTells, MayEnter, ResetWorks
<1>5. NoScenarioDuringReset' /\ UnavailableDuringReset'
  BY DEF NoScenarioDuringReset, UnavailableDuringReset, ResetWorks
<1> QED BY <1>1, <1>2, <1>3, <1>4, <1>5

LEMMA GateIInv ==
  ASSUME IInv, NEW r \in Requests, HandlerEnds(r) \/ BodyEnds(r) \/ ResponseDone(r)
  PROVE  IInv'
<1> USE DEF IInv, UnchangedByRequest, closure, resetting, calls, updates
<1>1. Leave(r) /\ r \in admitted /\ UnchangedByRequest
  BY DEF HandlerEnds, BodyEnds, ResponseDone, GateOrder
<1>2. GateCounts' /\ activeRequests' \in Nat
  BY <1>1, LeaveCounts
<1>3. /\ responseDone' \subseteq Requests /\ handlerDone' \subseteq admitted
      /\ streaming' \subseteq handlerDone'
      /\ handlerDone \subseteq handlerDone'
      /\ left \cap streaming' = {}
  BY DEF HandlerEnds, BodyEnds, ResponseDone, GateOrder, TypeOK
<1>4. left' = left \/ (MayLeave(r) /\ left' = left \cup {r})
  BY <1>1 DEF Leave
<1>5. GateOrder'
  BY <1>1, <1>3, <1>4 DEF GateOrder, MayLeave
<1>6. TypeOK'
  BY <1>1, <1>2, <1>3, <1>4 DEF TypeOK, Leave
<1>7. activeRequests = 0 => activeRequests' = 0
  <2> SUFFICES ASSUME activeRequests = 0 PROVE ~MayLeave(r)
    BY <1>1 DEF Leave
  <2>1. admitted \ left = {}
    BY InGateFinite, FS_EmptySet DEF GateCounts
  <2> QED BY <1>1, <2>1 DEF MayLeave
<1>8. HoldsInOrder'
  BY <1>1, <1>7 DEF HoldsInOrder, Leave
<1>9. PhaseTells' /\ NoScenarioDuringReset' /\ UnavailableDuringReset'
  BY <1>1 DEF PhaseTells, NoScenarioDuringReset, UnavailableDuringReset, ResetWorks
<1> QED BY <1>2, <1>5, <1>6, <1>8, <1>9

LEMMA UpdateIInv == ASSUME IInv, NEW q \in Queues, UpdateStep(q) PROVE IInv'
<1> USE DEF IInv, UpdateStep, FileEvent, Update, closure, resetting, calls, gate
<1>1. TypeOK'
  BY DEF TypeOK
<1>2. HoldsInOrder'
  <2>1. UNCHANGED <<resetStage, holding, drained, activeRequests>>
    OBVIOUS
  <2>2. \A p \in Queues : p <= holding /\ ahead[p] = 0 => ahead'[p] = 0
    <3>1. ahead \in [Queues -> Nat]
      BY DEF TypeOK
    <3>2. UNCHANGED ahead \/ \E n \in {ahead[q] + 1, ahead[q] - 1} :
                               ahead' = [ahead EXCEPT ![q] = n]
      BY <3>1
    <3>3. q <= holding /\ ahead[q] = 0 => UNCHANGED ahead
      BY <3>1
    <3> HIDE DEF IInv, UpdateStep, FileEvent, Update
    <3> QED BY <3>1, <3>2, <3>3
  <2>3. \A p \in Queues : p <= QueueCount /\ (p < holding => p <= holding)
    BY SimulatorAssumption DEF TypeOK, Queues
  <2> QED BY <2>1, <2>2, <2>3 DEF HoldsInOrder
<1>3. GateOrder' /\ GateCounts'
  BY DEF GateOrder, GateCounts
<1>4. PhaseTells' /\ NoScenarioDuringReset' /\ UnavailableDuringReset'
  BY DEF PhaseTells, NoScenarioDuringReset, UnavailableDuringReset, ResetWorks
<1> QED BY <1>1, <1>2, <1>3, <1>4

\* Reset, Finally and the steps between, except those that rebuild.
LEMMA ResetIInv ==
  ASSUME IInv, \/ Reset \/ BeginPausing \/ PauseGranted \/ Drained
               \/ SeedingSucceeds \/ SeedingFails \/ Finally
  PROVE  IInv'
<1> USE SimulatorAssumption
    DEF IInv, UnchangedByReset, calls, gate, closure, resetting, updates
<1>1. GateOrder' /\ GateCounts'
  BY DEF GateOrder, GateCounts, Reset, BeginPausing, PauseGranted, Drained,
         SeedingSucceeds, SeedingFails, Finally
<1>2. CASE Reset
  BY <1>1, <1>2 DEF Reset, MayReset, TypeOK, Phase, ResetStage, HoldsInOrder,
     PhaseTells, ResetWorks, NoScenarioDuringReset, UnavailableDuringReset
<1>3. CASE BeginPausing
  BY <1>1, <1>3 DEF BeginPausing, TypeOK, ResetStage, HoldsInOrder, Queues,
     PhaseTells, ResetWorks, NoScenarioDuringReset, UnavailableDuringReset
<1>4. ASSUME Rebuild, resetStage \in {"pausing", "draining"}, activeRequests = 0,
             holding = QueueCount, \A q \in Queues : ahead[q] = 0,
             UNCHANGED <<holding, updates>>, UnchangedByReset
      PROVE  IInv'
  BY <1>1, <1>4 DEF Rebuild, TypeOK, Phase, ResetStage, HoldsInOrder, PhaseTells,
     ResetWorks, NoScenarioDuringReset, UnavailableDuringReset
<1>5. CASE PauseGranted
  <2>1. CASE MoreQueues
    BY <1>1, <1>5, <2>1, SMTT(30) DEF PauseGranted, MoreQueues, TypeOK, HoldsInOrder, Queues,
       PhaseTells, ResetWorks, NoScenarioDuringReset, UnavailableDuringReset
  <2>2. ASSUME ~MoreQueues
        PROVE  holding = QueueCount /\ \A q \in Queues : ahead[q] = 0
    BY <1>5, <2>2 DEF PauseGranted, MoreQueues, TypeOK, HoldsInOrder, Queues
  <2>3. CASE ~MoreQueues /\ MustDrain
    BY <1>1, <1>5, <2>2, <2>3 DEF PauseGranted, TypeOK, ResetStage, HoldsInOrder,
       PhaseTells, ResetWorks, NoScenarioDuringReset, UnavailableDuringReset
  <2>4. CASE ~MoreQueues /\ ~MustDrain
    BY <1>4, <1>5, <2>2, <2>4 DEF PauseGranted, MustDrain, TypeOK
  <2> QED BY <2>1, <2>3, <2>4
<1>6. CASE Drained
  BY <1>4, <1>6 DEF Drained, HoldsInOrder
<1>7. CASE SeedingSucceeds \/ SeedingFails
  BY <1>1, <1>7, ZenonT(40)
  DEF SeedingSucceeds, SeedingFails, TypeOK, Phase, ResetStage,
     HoldsInOrder, PhaseTells, ResetWorks, NoScenarioDuringReset, UnavailableDuringReset
<1>8. CASE Finally
  BY <1>1, <1>8 DEF Finally, TypeOK, ResetStage, HoldsInOrder,
     PhaseTells, ResetWorks, NoScenarioDuringReset, UnavailableDuringReset
<1> QED BY <1>2, <1>3, <1>5, <1>6, <1>7, <1>8

LEMMA ScenarioIInv == ASSUME IInv, ScenarioStep PROVE IInv'
<1> USE DEF IInv, ScenarioStep, UnchangedByScenario, closure, resetting, calls, updates, gate
<1>1. scenarioPromise' \in BOOLEAN /\ UnchangedByScenario
  BY Zenon DEF Scenario, ScenarioEnds
<1>2. TypeOK' /\ GateOrder' /\ GateCounts' /\ HoldsInOrder'
  BY <1>1 DEF TypeOK, GateOrder, GateCounts, HoldsInOrder
<1>3. PhaseTells' /\ NoScenarioDuringReset' /\ UnavailableDuringReset'
  BY DEF PhaseTells, NoScenarioDuringReset, UnavailableDuringReset, ResetWorks,
         Scenario, ScenarioEnds, MayRunScenario
<1> QED BY <1>2, <1>3

LEMMA StartIInv == ASSUME IInv, StartStep PROVE IInv'
<1> USE DEF IInv, UnchangedByCall, resetting, updates, gate
<1>1. UnchangedByCall
  BY DEF StartStep, Start, GenerationFails, StartLoaded, Publish, Listening,
         StartFails, StartSettles, StartCloses
<1>2. TypeOK'
  <2>1. /\ stateUnavailable' \in BOOLEAN /\ handle' \in BOOLEAN /\ watching' \in BOOLEAN
    BY Zenon DEF TypeOK, StartStep, Start, GenerationFails, StartLoaded, Publish,
                 Listening, StartFails, StartSettles, StartCloses
  <2>2. phase' \in Phase /\ startStage' \in StartStage /\ UNCHANGED stop
    BY DEF TypeOK, Phase, StartStage, StartStep, Start, GenerationFails, StartLoaded,
           Publish, Listening, StartFails, StartSettles, StartCloses
  <2>3. starts' \in 0 .. MaxStarts
    BY SimulatorAssumption
       DEF TypeOK, StartStep, Start, GenerationFails, StartLoaded, Publish, Listening,
           StartFails, StartSettles, StartCloses
  <2> QED BY <1>1, <2>1, <2>2, <2>3 DEF TypeOK
<1>3. GateOrder' /\ GateCounts' /\ HoldsInOrder'
  BY <1>1 DEF GateOrder, GateCounts, HoldsInOrder
<1>4. PhaseTells' /\ NoScenarioDuringReset' /\ UnavailableDuringReset'
  BY <1>1 DEF PhaseTells, NoScenarioDuringReset, UnavailableDuringReset, ResetWorks, Settled,
     StartStep, Start, GenerationFails, StartLoaded, Publish, Listening, StartFails,
     StartSettles, StartCloses
<1> QED BY <1>2, <1>3, <1>4

LEMMA StopIInv == ASSUME IInv, NEW s \in StopCalls, StopStep(s) PROVE IInv'
<1> USE DEF IInv, UnchangedByCall, resetting, updates, gate, StopStep, Stop, StopSettles,
            StopReturns
<1>1. TypeOK'
  BY ZenonT(40) DEF TypeOK, Phase, StopStage
<1>2. GateOrder' /\ GateCounts' /\ HoldsInOrder'
  BY DEF GateOrder, GateCounts, HoldsInOrder
<1>3. PhaseTells' /\ NoScenarioDuringReset' /\ UnavailableDuringReset'
  BY DEF PhaseTells, NoScenarioDuringReset, UnavailableDuringReset, ResetWorks, Settled, TypeOK
<1> QED BY <1>1, <1>2, <1>3

LEMMA StepIInv == IInv /\ [Next]_vars => IInv'
<1> SUFFICES ASSUME IInv, [Next]_vars PROVE IInv'
  OBVIOUS
<1>1. ASSUME NEW r \in Requests, RequestStep(r) PROVE IInv'
  BY <1>1, ArriveIInv, GateIInv DEF RequestStep, ResponseFinishes, ResponseCloses
<1>2. CASE ResetStep
  BY <1>2, ResetIInv DEF ResetStep
<1>3. CASE UNCHANGED vars
  BY <1>3 DEF vars, closure, resetting, calls, updates, gate, IInv, TypeOK, GateOrder,
     GateCounts, HoldsInOrder, PhaseTells, ResetWorks, NoScenarioDuringReset,
     UnavailableDuringReset
<1> QED BY <1>1, <1>2, <1>3, ScenarioIInv, StartIInv, StopIInv, UpdateIInv DEF Next

LEMMA SpecIInv == Spec => []IInv
  BY InitIInv, StepIInv, PTL DEF Spec

-----------------------------------------------------------------------------
(* The guarantees, for every number of starts                              *)

(***************************************************************************)
(* The variables of the closure and of the gate keep their types: the      *)
(* counter of active requests in particular never becomes negative.        *)
(***************************************************************************)
THEOREM SimulatorTypeCorrect == Spec => []TypeOK
  BY SpecIInv, PTL DEF IInv

(***************************************************************************)
(* activeRequests is the number of requests in the gate, in whatever order *)
(* responses, handlers and bodies end (create-koa-app.ts).                 *)
(***************************************************************************)
THEOREM GateCountsRequests == Spec => []GateCounts
  BY SpecIInv, PTL DEF IInv

(***************************************************************************)
(* While startup scenarios seed the state that a reset rebuilt, nobody     *)
(* admitted earlier is at work on the old state (app.ts, reset()).         *)
(***************************************************************************)
THEOREM ResetDrainsRequests == Spec => []DrainedBeforeRebuild
<1>1. IInv => DrainedBeforeRebuild
  BY EmptyGate DEF IInv, HoldsInOrder, DrainedBeforeRebuild
<1> QED BY <1>1, SpecIInv, PTL

(***************************************************************************)
(* A named scenario and the work of a reset exclude each other: app.ts     *)
(* checks phase and scenarioPromise in reset() and in scenario().          *)
(***************************************************************************)
THEOREM ResetExcludesScenarios == Spec => []NoScenarioDuringReset
  BY SpecIInv, PTL DEF IInv

(***************************************************************************)
(* No file update runs between the reconstruction and the end of the       *)
(* startup scenarios, for any number of runners (app.ts, pauseUpdates).    *)
(***************************************************************************)
THEOREM ResetHoldsUpdates == Spec => []UpdatesHeld
<1>1. IInv => UpdatesHeld
  BY DEF IInv, HoldsInOrder, UpdatesHeld
<1> QED BY <1>1, SpecIInv, PTL

(***************************************************************************)
(* loadContext() and store throw for as long as a reset works, also when   *)
(* stop() changed the phase meanwhile (app.ts, stateUnavailable).          *)
(***************************************************************************)
THEOREM ResetGuardsState == Spec => []UnavailableDuringReset
  BY SpecIInv, PTL DEF IInv

(***************************************************************************)
(* A reset has the state to itself, for any number of requests, runners,   *)
(* stops and starts (app.ts, reset(); create-koa-app.ts, the gate).        *)
(***************************************************************************)
THEOREM ResetHasStateToItself == Spec => []ResetExcludes
  BY ResetDrainsRequests, ResetExcludesScenarios, ResetHoldsUpdates, ResetGuardsState, PTL
     DEF ResetExcludes

-----------------------------------------------------------------------------
(***************************************************************************)
(* One run: start() is called once.  Then state that is not whole stays    *)
(* out of reach, which a second start() does not respect.                  *)
(***************************************************************************)
OneRun ==
  /\ starts = 0 => /\ startStage = "none" /\ phase = "idle" /\ ~handle
                    /\ \A s \in StopCalls : stop[s] = "idle"
  /\ starts = 0 \/ startStage \in {"preparing", "starting"} =>
       whole /\ ~stateUnavailable
  /\ phase = "running" => whole
  /\ resetStage = "seeding" => ~whole
  /\ ~whole => Working = {}

\* The work of a reset changes what OneRun speaks of in two places.
LEMMA RebuildOneRun ==
  ASSUME IInv, OneRun, Rebuild, activeRequests = 0, resetStage \in {"pausing", "draining"},
         UnchangedByReset
  PROVE  OneRun' /\ Barrier!TakeApart
<1>1. Working = {} /\ Working' = Working
  BY EmptyGate DEF IInv, UnchangedByReset, gate, Working
<1>2. starts # 0 /\ startStage \notin {"preparing", "starting"} /\ UNCHANGED calls
  BY DEF OneRun, UnchangedByReset, IInv, PhaseTells
<1>3. phase # "running" /\ phase' # "running"
  BY DEF IInv, PhaseTells, ResetWorks, Rebuild
<1> QED BY <1>1, <1>2, <1>3 DEF OneRun, Rebuild, Barrier!TakeApart, calls

\* A reset step takes the state apart, completes it, or does neither.
LEMMA ResetOneRun ==
  ASSUME IInv, OneRun, ResetStep
  PROVE  OneRun' /\ [Barrier!Next]_(Barrier!vars)
<1> USE DEF ResetStep, UnchangedByReset, calls, gate, closure, resetting, updates
<1>1. UnchangedByReset /\ Working' = Working
  BY DEF Reset, BeginPausing, PauseGranted, Drained, SeedingSucceeds, SeedingFails,
         Finally, Working
<1>2. ASSUME Rebuild, activeRequests = 0, resetStage \in {"pausing", "draining"}
      PROVE  OneRun' /\ [Barrier!Next]_(Barrier!vars)
  BY <1>1, <1>2, RebuildOneRun DEF Barrier!Next
<1>3. CASE SeedingSucceeds
  BY <1>1, <1>3 DEF SeedingSucceeds, OneRun, IInv, PhaseTells, ResetWorks, Barrier!Next,
                    Barrier!Complete
<1>4. ASSUME resetStage # "none", UNCHANGED <<whole, stateUnavailable>>,
             phase' = phase \/ phase' = "failed",
             resetStage' = "seeding" => resetStage = "seeding"
      PROVE  OneRun' /\ [Barrier!Next]_(Barrier!vars)
  BY <1>1, <1>4 DEF OneRun, IInv, PhaseTells, Barrier!vars
<1>5. CASE Reset
  BY <1>1, <1>5 DEF Reset, MayReset, OneRun, IInv, PhaseTells, Barrier!vars
<1>6. CASE BeginPausing \/ SeedingFails \/ Finally
  BY <1>4, <1>6 DEF BeginPausing, SeedingFails, Finally
<1>7. CASE PauseGranted
  <2>1. CASE MoreQueues \/ MustDrain
    BY <1>4, <1>7, <2>1 DEF PauseGranted
  <2>2. CASE ~MoreQueues /\ ~MustDrain
    BY <1>2, <1>7, <2>2 DEF PauseGranted, MustDrain, IInv, TypeOK
  <2> QED BY <2>1, <2>2
<1>8. CASE Drained
  BY <1>2, <1>8 DEF Drained, IInv, HoldsInOrder
<1> QED BY <1>3, <1>5, <1>6, <1>7, <1>8

\* A request is admitted to whole state, and releases it once.
LEMMA RequestOneRun ==
  ASSUME IInv, OneRun, NEW r \in Requests, RequestStep(r)
  PROVE  OneRun' /\ [Barrier!Next]_(Barrier!vars)
<1> USE DEF closure, resetting, calls, updates
<1>1. UNCHANGED <<phase, stateUnavailable, whole, resetStage, startStage, starts,
                  handle, stop>>
  BY DEF RequestStep, Arrive, HandlerEnds, BodyEnds, ResponseFinishes, ResponseCloses,
         ResponseDone, UnchangedByRequest
<1>2. \/ Working' = Working
      \/ Working' = Working \ {r} /\ r \in Working
      \/ Working' = Working \cup {r} /\ r \notin Working /\ phase = "running"
  <2>1. CASE Arrive(r)
    BY <2>1 DEF Arrive, MayEnter, Working, IInv, GateOrder
  <2>2. CASE HandlerEnds(r)
    BY <2>2 DEF HandlerEnds, UnchangedByRequest, Working, IInv, GateOrder
  <2>3. CASE BodyEnds(r)
    BY <2>3 DEF BodyEnds, UnchangedByRequest, Working, IInv, GateOrder
  <2>4. CASE ResponseDone(r)
    BY <2>4 DEF ResponseDone, UnchangedByRequest, Working
  <2> QED BY <2>1, <2>2, <2>3, <2>4 DEF RequestStep, ResponseFinishes, ResponseCloses
<1>3. OneRun'
  BY <1>1, <1>2 DEF OneRun
<1>4. [Barrier!Next]_(Barrier!vars)
  BY <1>1, <1>2 DEF OneRun, Barrier!Next, Barrier!vars, Barrier!Admit, Barrier!Release
<1> QED BY <1>3, <1>4

\* start(), stop(), scenario() and updates leave state and requests alone.
LEMMA OtherOneRun ==
  ASSUME MaxStarts = 1, IInv, OneRun,
         \/ ScenarioStep \/ StartStep \/ (\E s \in StopCalls : StopStep(s))
         \/ (\E q \in Queues : UpdateStep(q)) \/ UNCHANGED vars
  PROVE  OneRun' /\ [Barrier!Next]_(Barrier!vars)
<1> USE DEF closure, resetting, calls, updates, gate
<1>1. UNCHANGED <<whole, resetStage, Working>>
  BY DEF ScenarioStep, Scenario, ScenarioEnds, UnchangedByScenario, UpdateStep, FileEvent,
         Update, vars, StartStep, Start, GenerationFails, StartLoaded, Publish, Listening,
         StartFails, StartSettles, StartCloses, StopStep, Stop, StopSettles, StopReturns,
         UnchangedByCall, Working
<1>2. ASSUME StartStep PROVE OneRun'
  BY <1>1, <1>2 DEF OneRun, IInv, TypeOK, StartStep, Start, GenerationFails, StartLoaded,
     Publish, Listening, StartFails, StartSettles, StartCloses
<1>3. ASSUME NEW s \in StopCalls, StopStep(s) PROVE OneRun'
  <2>1. /\ starts # 0 /\ UNCHANGED <<startStage, starts, stateUnavailable>>
        /\ phase' = phase \/ phase' # "running"
    BY <1>3 DEF StopStep, Stop, StopSettles, StopReturns, OneRun
  <2>2. starts' # 0
    BY <2>1
  <2> QED BY <1>1, <2>1, <2>2 DEF OneRun
<1>4. ASSUME \/ ScenarioStep \/ (\E q \in Queues : UpdateStep(q)) \/ UNCHANGED vars
      PROVE  OneRun'
  <2>1. UNCHANGED <<phase, stateUnavailable, startStage, starts, handle, stop>>
    BY <1>4 DEF ScenarioStep, Scenario, ScenarioEnds, UnchangedByScenario, UpdateStep,
                FileEvent, Update, vars
  <2> QED BY <1>1, <2>1 DEF OneRun
<1> QED BY <1>1, <1>2, <1>3, <1>4 DEF Barrier!vars

LEMMA SpecOneRun ==
  ASSUME MaxStarts = 1
  PROVE  Spec => [](IInv /\ OneRun)
<1>1. Init => IInv /\ OneRun
  BY InitIInv DEF Init, OneRun, Working
<1>2. IInv /\ OneRun /\ [Next]_vars => IInv' /\ OneRun'
  BY StepIInv, ResetOneRun, RequestOneRun, OtherOneRun DEF Next
<1> QED BY <1>1, <1>2, PTL DEF Spec

(***************************************************************************)
(* When start() is called once, "a failed reset leaves state unavailable   *)
(* until a successful reset" holds of every behaviour of app.ts.           *)
(***************************************************************************)
THEOREM FailedResetStaysClosed ==
  ASSUME MaxStarts = 1
  PROVE  Spec => OnlyResetReveals
<1>1. ASSUME IInv, OneRun, [Next]_vars,
             stateUnavailable, ~stateUnavailable'
      PROVE  resetStage = "seeding" /\ whole'
  <2>1. CASE ResetStep
    BY <1>1, <2>1 DEF ResetStep, Reset, BeginPausing, PauseGranted, Drained, Rebuild,
       SeedingSucceeds, SeedingFails, Finally, closure
  <2>2. CASE StartStep
    BY <1>1, <2>2 DEF StartStep, Start, GenerationFails, StartLoaded, Publish, Listening,
       StartFails, StartSettles, StartCloses, OneRun
  <2>3. CASE \/ ScenarioStep \/ (\E s \in StopCalls : StopStep(s))
             \/ (\E r \in Requests : RequestStep(r)) \/ (\E q \in Queues : UpdateStep(q))
             \/ UNCHANGED vars
    <3>1. UNCHANGED stateUnavailable
      BY <2>3 DEF vars, closure, ScenarioStep, Scenario, ScenarioEnds, UnchangedByScenario,
         StopStep, Stop, StopSettles, StopReturns, UpdateStep, FileEvent, Update,
         RequestStep, Arrive, HandlerEnds, BodyEnds, ResponseFinishes, ResponseCloses,
         ResponseDone, UnchangedByRequest
    <3> QED BY <1>1, <3>1
  <2> QED BY <1>1, <2>1, <2>2, <2>3 DEF Next
<1>2. IInv /\ OneRun /\ [Next]_vars
        => [stateUnavailable /\ ~stateUnavailable' => resetStage = "seeding" /\ whole']_vars
  BY <1>1
<1> QED BY <1>2, SpecOneRun, PTL DEF Spec, OnlyResetReveals

(***************************************************************************)
(* When start() is called once, the phases, the counter of active requests *)
(* and the drain of app.ts implement the readers-writer lock: requests     *)
(* work on whole state only, and nobody works while it is rebuilt.         *)
(***************************************************************************)
THEOREM RequestsSeeWholeState ==
  ASSUME MaxStarts = 1
  PROVE  Spec => KeepsBarrier
<1>1. Init => Barrier!Init
  BY DEF Init, Barrier!Init, Working
<1>2. IInv /\ OneRun /\ [Next]_vars => [Barrier!Next]_(Barrier!vars)
  BY ResetOneRun, RequestOneRun, OtherOneRun DEF Next
<1> QED BY <1>1, <1>2, SpecOneRun, PTL DEF Spec, KeepsBarrier, Barrier!Spec
=============================================================================
