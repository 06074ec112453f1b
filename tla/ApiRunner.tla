----------------------------- MODULE ApiRunner -----------------------------
(***************************************************************************)
(* api-runner.ts and the stages of start() in app.ts that drive it: the    *)
(* runners open their watchers in two stages, each of which is over when   *)
(* every runner has come to an end of it, and are closed together.  One of *)
(* the runners, Main, is taken with its document and its modules, which    *)
(* are compiled, loaded and watched; of the others only the watchers.      *)
(*                                                                         *)
(* What the module loader does in detail is the subject of ModuleLoader;   *)
(* here it loads what it finds, and what its watcher reports.              *)
(***************************************************************************)
EXTENDS OpenApiDocument, Transpiler

CONSTANTS
    Runners, Main,
    MaxEdits            \* how many times users edit inputs and sources

ASSUME MainAssumption == Main \in Runners

VARIABLES
    nativeTs,       \* Node executes TypeScript itself
    options,        \* "serve", "cache" or "neither": startServer and buildCache
    app,            \* the stage that start() is in
    stage,          \* runner |-> how far it is in that stage
    open,           \* runner |-> its open watchers
    stuck,          \* history: the <<runner, watcher>> that failed to close
    served,         \* module |-> the code that Main serves, or Absent
    toLoad,         \* the modules that Main's module loader has to load again
    missed,         \* history: modules that changed between load() and watch()
    touched,        \* history: modules that changed since the first scan
    edits

runner_vars == <<nativeTs, options, app, stage, open, stuck>>
loader_vars == <<served, toLoad, missed>>
vars == <<document_vars, transpiler_vars, runner_vars, loader_vars, touched, edits>>

Watchers == {"generator", "types", "document", "transpiler", "modules"}

\* Where the module loader finds modules: the routes, or the cache.
Code(m) == IF nativeTs THEN source[m] ELSE output[m]

Init ==
    /\ InitDocument /\ InitTranspiler
    /\ nativeTs \in BOOLEAN /\ options \in {"serve", "cache", "neither"}
    /\ app = "creating"
    /\ stage = [r \in Runners |-> "created"]
    /\ open = [r \in Runners |-> {}]
    /\ stuck = {}
    /\ served = [m \in Modules |-> Absent]
    /\ toLoad = {} /\ missed = {} /\ touched = {}
    /\ edits = 0

Alive == app \notin {"crashed", "stopped", "rejected"}

-----------------------------------------------------------------------------
(* Users.                                                                  *)

Edited == /\ Alive /\ edits < MaxEdits /\ edits' = edits + 1

UserEditsInput(f, content) ==
    /\ Edited
    /\ EditInput(f, content)
    /\ UNCHANGED <<transpiler_vars, runner_vars, loader_vars, touched>>

\* What the module loader's watcher makes of a change in its directory.
Found(m) ==
    IF "modules" \in open[Main] THEN toLoad' = toLoad \cup {m} /\ UNCHANGED <<served, missed>>
    ELSE missed' = missed \cup {m} /\ UNCHANGED <<served, toLoad>>

UserEditsModule(m, code) ==
    /\ Edited
    /\ EditModule(m, code)
    /\ touched' = touched \cup {m}
    /\ IF nativeTs THEN Found(m) ELSE UNCHANGED loader_vars
    /\ UNCHANGED <<document_vars, runner_vars>>

-----------------------------------------------------------------------------
(* The runners.                                                            *)

\* create() of every runner, which ends with the first load of the document.
Created ==
    /\ app = "creating"
    /\ loads[1].stage # "reading"
    /\ app' = IF loads[1].stage = "loaded" THEN "watching" ELSE "rejected"
    /\ UNCHANGED <<document_vars, transpiler_vars, loader_vars, nativeTs, options, stage, open,
                   stuck, touched, edits>>

Advance(r, from, to, opened) ==
    /\ stage[r] = from
    /\ stage' = [stage EXCEPT ![r] = to]
    /\ open' = [open EXCEPT ![r] = @ \cup opened]
    /\ UNCHANGED <<nativeTs, options, app, stuck, touched, edits>>

Elsewhere == UNCHANGED <<document_vars, transpiler_vars, loader_vars>>

\* watch(): the generators of code and of the types of scenarios.
WatchGenerator(r) ==
    /\ app = "watching" /\ Advance(r, "created", "generating", {"generator"}) /\ Elsewhere

WatchTypes(r) ==
    /\ app = "watching" /\ Advance(r, "generating", "watched", {"types"}) /\ Elsewhere

Begins == app \in {"starting", "closing"}

\* start() without startServer: the cache is built, or nothing is done.
Skip(r) ==
    /\ Begins /\ options = "neither" /\ Advance(r, "watched", "started", {}) /\ Elsewhere

BuildCache(r) ==
    /\ Begins /\ options = "cache" /\ Advance(r, "watched", "compiling", {"transpiler"})
    /\ IF r = Main THEN Scan ELSE UNCHANGED transpiler_vars
    /\ UNCHANGED <<document_vars, loader_vars>>

\* start() with startServer, await by await.
StartDocument(r) ==
    /\ Begins /\ options = "serve" /\ Advance(r, "watched", "documented", {"document"})
    /\ IF r = Main THEN WatchDocument ELSE UNCHANGED document_vars
    /\ UNCHANGED <<transpiler_vars, loader_vars>>

StartTranspiler(r) ==
    /\ Begins
    /\ IF nativeTs THEN Advance(r, "documented", "compiled", {}) /\ UNCHANGED transpiler_vars
       ELSE /\ Advance(r, "documented", "compiling", {"transpiler"})
            /\ IF r = Main THEN Scan ELSE UNCHANGED transpiler_vars
    /\ UNCHANGED <<document_vars, loader_vars>>

AwaitCompilers ==
    /\ AwaitTranspiles
    /\ UNCHANGED <<document_vars, runner_vars, loader_vars, touched, edits>>

Transpiled(r) ==
    /\ Begins /\ stage[r] = "compiling"
    /\ \/ /\ Advance(r, "compiling", IF options = "cache" THEN "cached" ELSE "compiled", {})
          /\ IF r = Main THEN TranspilesDone ELSE UNCHANGED transpiler_vars
       \/ /\ Advance(r, "compiling", "rejected", {})
          /\ IF r = Main THEN TranspilesFail ELSE UNCHANGED transpiler_vars
    /\ UNCHANGED <<document_vars, loader_vars>>

\* The watcher is closed again once the cache is built.
Cached(r) ==
    /\ Begins /\ stage[r] = "cached"
    /\ stage' = [stage EXCEPT ![r] = "started"]
    /\ open' = [open EXCEPT ![r] = @ \ {"transpiler"}]
    /\ IF r = Main THEN CloseTranspiler ELSE UNCHANGED transpiler_vars
    /\ UNCHANGED <<document_vars, loader_vars, nativeTs, options, app, stuck, touched, edits>>

LoadModules(r) ==
    /\ Begins /\ Advance(r, "compiled", "loaded", {})
    /\ IF r = Main THEN /\ served' = [m \in Modules |-> Code(m)]
                        /\ missed' = {}
                        /\ UNCHANGED toLoad
       ELSE UNCHANGED loader_vars
    /\ UNCHANGED <<document_vars, transpiler_vars>>

\* A context cannot be built.
LoadFails(r) ==
    /\ Begins /\ Advance(r, "compiled", "rejected", {}) /\ Elsewhere

WatchModules(r) ==
    /\ Begins /\ Advance(r, "loaded", "started", {"modules"}) /\ Elsewhere

-----------------------------------------------------------------------------
(* The stages of start(), and the end.                                     *)

\* Fault: the first failure ends a stage.
FirstFailure(end) == \/ \A r \in Runners : stage[r] = end
                     \/ \E r \in Runners : stage[r] = "rejected"

\* completeStage()
AllSettled(end) == \A r \in Runners : stage[r] \in {end, "rejected"}

EverythingOpen == {pair \in Runners \X Watchers : pair[2] \in open[pair[1]]}

\* A stage is over: the next one begins, or what was opened is closed.
StageOver(from, end, next) ==
    LET failed == \E r \in Runners : stage[r] = "rejected"
    IN /\ app = from /\ AllSettled(end)
       /\ app' = IF failed THEN "closing" ELSE next
       /\ UNCHANGED <<nativeTs, options, stage, open, stuck, touched, edits>>
       /\ Elsewhere

Stop ==
    /\ app = "running"
    /\ app' = "closing"
    /\ UNCHANGED <<nativeTs, options, stage, open, stuck, touched, edits>>
    /\ Elsewhere

\* stopWatching(): a watcher that fails to close does not keep the others from
\* it.  One failure at most is looked at.
Close(failing) ==
    /\ app = "closing"
    /\ app' = "stopped"
    /\ failing \subseteq EverythingOpen
    /\ stuck' = failing
    /\ open' = [r \in Runners |-> {w \in open[r] : <<r, w>> \in failing}]
    /\ IF <<Main, "document">> \in failing THEN UNCHANGED document_vars ELSE CloseDocument
    /\ IF <<Main, "transpiler">> \in failing THEN UNCHANGED transpiler_vars ELSE CloseTranspiler
    /\ UNCHANGED <<nativeTs, options, stage, loader_vars, touched, edits>>

-----------------------------------------------------------------------------
(* What goes on at any time.                                               *)

DocumentStep ==
    /\ Alive
    /\ \/ \E i \in DOMAIN loads : ReadInput(i)
       \/ \E f \in Inputs : ReportInput(f)
    /\ UNCHANGED <<transpiler_vars, runner_vars, loader_vars, touched, edits>>

TranspilerStep ==
    /\ Alive
    /\ \/ \E m \in Modules : ReportModule(m) /\ UNCHANGED <<app, loader_vars>>
       \/ \E j \in DOMAIN jobs :
            \/ /\ ReadModule(j)
               /\ app' = IF EndsProcess(j) THEN "crashed" ELSE app
               /\ UNCHANGED loader_vars
            \/ /\ WriteModule(j) \/ RemoveOutput(j)
               /\ Found(jobs[j].module)
               /\ UNCHANGED app
    /\ UNCHANGED <<document_vars, nativeTs, options, stage, open, stuck, touched, edits>>

ReloadModule(m) ==
    /\ Alive /\ "modules" \in open[Main] /\ m \in toLoad
    /\ toLoad' = toLoad \ {m}
    /\ served' = [served EXCEPT ![m] = Code(m)]
    /\ UNCHANGED <<document_vars, transpiler_vars, runner_vars, missed, touched, edits>>

Next ==
    \/ \E f \in Inputs : \E content \in Contents[f] : UserEditsInput(f, content)
    \/ \E m \in Modules, code \in Codes \cup {Absent} : UserEditsModule(m, code)
    \/ Created
    \/ \E r \in Runners : \/ WatchGenerator(r) \/ WatchTypes(r) \/ Skip(r) \/ BuildCache(r)
                          \/ StartDocument(r) \/ StartTranspiler(r) \/ Transpiled(r) \/ Cached(r)
                          \/ LoadModules(r) \/ LoadFails(r) \/ WatchModules(r)
    \/ AwaitCompilers
    \/ StageOver("watching", "watched", "starting")
    \/ StageOver("starting", "started", "running")
    \/ Stop \/ Close({})
    \/ \E r \in Runners, w \in Watchers : Close({<<r, w>>})
    \/ DocumentStep \/ TranspilerStep
    \/ \E m \in Modules : ReloadModule(m)

Spec == Init /\ [][Next]_vars

-----------------------------------------------------------------------------
Settled == /\ app = "running" /\ options = "serve"
           /\ changed = {} /\ toLoad = {} /\ \A j \in DOMAIN jobs : ~ Busy(j)

\* What users saved or deleted while the server ran is what it serves once the
\* compiler and the loader have come to rest, unless two compilations of one
\* file overlapped (transpiler.ts, module-loader.ts).
SavedCodeServed ==
    Settled => \A m \in Modules \ (overlapped \cup missed) : served[m] = source[m]

\* A server never runs without a module that was there when it started: what
\* the loader loads was compiled before (api-runner.ts, "resolves once the
\* initial scan and all pending transpiles are complete").
UntouchedServed ==
    app = "running" /\ options = "serve" =>
        \A m \in Modules \ touched : served[m] = source[m]

\* After a start that failed, or a stop, no watcher of any runner is open but
\* those that failed to close, and none is still about to open (app.ts).
NothingLeftOpen ==
    app = "stopped" => \A r \in Runners :
        /\ \A w \in open[r] : <<r, w>> \in stuck
        /\ stage[r] \in {"watched", "started", "rejected"}
=============================================================================
