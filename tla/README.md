# Counterfact in TLA+

This directory holds formal models of Counterfact (the packages under `src/packages`):
the lifecycle of a simulator, its update queues, the hot reload of routes, contexts,
the store, documents and compiled modules, the way of a request from the client's
builder through routing, validation, handler and negotiation, and the generation of
route files and types. TLC checks them on small instances; theorems about ten of them
are proved with TLAPS for every value of their constants. Paths below are relative to
`src/packages/`; `runtime/` stands for `runtime/src/server/`, `generator/` for
`generator/src/`.

## 1. Inventory of the system

Counterfact turns an OpenAPI document into a running simulator of the API: it
generates TypeScript files, loads them, serves HTTP requests with them, and takes up
edits while it runs. It is one Node process: JavaScript runs to the next `await`
without interruption, so all concurrency is between the pieces of asynchronous
functions, promise reactions, file-watcher events, HTTP requests and user code.

| Component | State | Operations | Hard part |
|---|---|---|---|
| Simulator (`counterfact/src/app.ts`) | `phase`, `stateUnavailable`, `activeRequests`, `drained`, `resetPromise`, `scenarioPromise` | `start`, `reset`, `scenario`, `stop`, guarded accessors | A reset takes the state apart under live traffic and watchers, and may fail halfway |
| Request gate (`runtime/web-server/create-koa-app.ts`) | three flags per request | `enter`, `leave` on handler end, body end, "finish"/"close" | Streams outlive responses, clients hang up |
| Update queue (`runtime/update-queue.ts`) | tail of a promise chain | `run`, `pause` | Order and exclusion from nothing but chained promises; rejections |
| API runner (`counterfact/src/api-runner.ts`) | the watchers of one API | `create`, `watch`, `start`, `stopWatching` | Stages that several runners share, failures in the middle of one |
| OpenAPI document (`runtime/openapi-document.ts`, `openapi-watcher.ts`) | the fields of the document | `load`, `watch`, `stopWatching` | Loads that overlap, fail, and finish out of order |
| Overlays (`openapi/src`) | none | `applyOverlays`, `loadOpenApiDocument` | Order of actions and removals, parts that are shared |
| Transpiler (`runtime/transpiler.ts`) | the cache directory | `watch`, `stopWatching` | A save or deletion during a compilation; what a start waits for |
| Module loader (`runtime/module-loader.ts`) | sources of routes, middleware, contexts; the watcher | `load`, `watch`, `reloadContexts`, `resetRoutes`, `resetContexts` | A save during an import; dependents; deletions; failing modules |
| Module dependency graph (`runtime/module-dependency-graph.ts`) | reverse map of imports | `load`, `dependentsOf` | Cycles, diamonds, stale edges |
| Registry and module tree (`runtime/registry.ts`, `module-tree.ts`) | modules by URL, middleware by path | `add`, `remove`, `match`, `matchPattern`, `endpoint` | Wildcards, letter case, directories that a removal leaves behind |
| Context registry (`runtime/context-registry.ts`) | live contexts, snapshots of their sources | `add`, `remove`, `find`, `update`, `clear` | Hot reload must keep what handlers changed |
| Store loader (`runtime/store-loader.ts`) | the live store, its constructor | `load`, `watch`, `reset` | All-or-nothing merge into a live object; events and resets in any order |
| Dispatcher, validators, response builder (`runtime/dispatcher.ts`, `request-validator.ts`, `response-validator.ts`, `response-builder.ts`, `tools.ts`) | the contract of the last document | dispatch, convert, validate, negotiate | Contract, registry and request change apart from each other; many small conversions |
| Routes middleware (`runtime/web-server/routes-middleware.ts`) | none | choice among runners, proxying, 405 | Versions that share a directory and prefixes that overlap |
| Admin API, REPL | none of their own | read and change the registries and the proxy settings | Change state while requests run |
| Client (`client/src`) | immutable builders | build, `ready`, `missing`, `send` | A builder keeps the operation that it was made with |
| Code generator (`generator/`) | scripts, a repository of files | generate, watch, prune | Versions of one group write one directory, users edit the files meanwhile, a failed round leaves writers behind |
| Type and operation coders (`generator/`) | none: what they export goes to the scripts | `write`, `export`, `import` | Exports that settle while others import them; names that collide |
| Helper types (`generator/scenario-file-generator.ts`) | the chain of calls | `writeHelperTypes`, `watch` | Calls of several parties, files that change during one |
| CLI, MSW adapter, scenario registry, migrations, XML and multipart text | none that is shared | | |

How they interact. `start()` generates code, starts the watcher of the store and of
each runner, runs the startup scenarios and binds the listener. A runner compiles,
loads and then watches its modules; its document is loaded at creation and again when a
local input changes. Each loader owns an update queue; a watcher event becomes a call of
`run()`. `reset()` closes the gate by its phase, pauses all queues in order, waits for
the requests that were admitted, rebuilds store, routes and contexts in one synchronous
piece, runs the startup scenarios, and resumes the queues. A request is given to one
of the runners, whose dispatcher takes the document and the registry as they are at
that moment. Handlers, the Admin API, the REPL and scenarios share the live contexts
and the live store with the loaders; REPL and scenarios send requests with the client,
which reads the documents of the runners. When a store appears for the first time, the
store loader's queue makes the module loader reload its contexts. A change of a
document also begins a round of generation, and a change of files one of helper types.

What makes each part correct is stated as the properties in section 4; the hazards,
each at its line and with the properties that cover it, are listed in `PROJECT.json`.

## 2. Modules

| Module | Models | State and actions against the code |
|---|---|---|
| `HoldLock` | abstract: what a queue promises | a turn that callers ask for, get, and give back |
| `UpdateQueue` | `update-queue.ts`, complete | `tail` and `link` are positions on the promise chain; `Run`/`Pause` are the synchronous part of a call, `Start` the reaction to the promise before it, `Finish` and `Resume` its end |
| `StateBarrier` | abstract: requests and reconstruction exclude each other | `Admit`, `Release`, `TakeApart`, `Complete` |
| `Simulator` | `app.ts` lifecycle and the gate of `create-koa-app.ts` | the variables of the closure by their names; one action per piece of code between two awaits (`resetStage`, `startStage` and `stop` are the program counters of the asynchronous functions); queues enter as the locks that `UpdateQueue` is shown to be: `ahead`/`behind` count events before and after a hold |
| `ContextRegistry` | `context-registry.ts`, complete, and its callers | `entries`, `cache`, `seen` by their names; every operation is synchronous and one action. `initialized` and `posted` are history |
| `ModuleDependencyGraph` | `load()` and the result of `dependentsOf()` | operators on the reverse map, stated without the search |
| `DependentsSearch` | the loop of `dependentsOf()` | one action per turn of the loop; `toVisit` (its `queue`), `marked` (its `visited`), `importers` (its `result`) |
| `ModuleLoader` | `module-loader.ts` for routes, middleware and contexts | the running update is `first`, `rest`, `importing`: `Import` is the piece of `loadEndpoint()` up to `await import`, `Loaded` the piece after it; `Report` is a watcher event, `Begin`/`Unlink` the start of its update; `ActivateStore`/`ReloadContext` are `reloadContexts()`, called from another queue. `missed` and `stale` are history |
| `StoreLoader` | `store-loader.ts`, complete | its fields by their names; `queue` and `turn` are the update queue; `Import` and `Apply` are the two sides of the await. `missed` and `refused` are history |
| `OpenApiDocument` | `openapi-document.ts`, `openapi-watcher.ts` | each element of `loads` is a call of `load()`, which reads one input after the other (`ReadInput`); `published` is the load that assigned the fields last; `ReportInput` is the watcher's event. `unnoticed` is history |
| `Transpiler` | `transpiler.ts`, complete | each element of `jobs` is a call of `transpileFile()` or of the removal; `ReadModule` and `WriteModule` are the pieces around the await; `Scan`, `AwaitTranspiles`, `TranspilesDone`, `TranspilesFail` are `watch()`. `overlapped` is history |
| `ApiRunner` | `api-runner.ts` and the stages of `start()` in `app.ts` | `app` is the stage, `stage[r]` how far a runner is in it, `open[r]` its watchers; one action per await of a runner. One runner, Main, has `OpenApiDocument` and `Transpiler` inside and a loader reduced to what it serves (`served`, `toLoad`). `missed`, `touched`, `stuck` are history |
| `Overlay` | `apply-overlay.ts`, complete | operators on a heap of objects and arrays: `ApplyAction` for one after the other, removals from the back, merges that store the nodes of the overlay |
| `ComposedDocument` | `load-openapi-document.ts` and `applyOverlays()` over `ApiRunner` | what the contents that a load has read amount to |
| `ModuleTree` | `module-tree.ts`, complete | the trie as a value, its nested maps kept flat in the order of their entries: `AddModule`, `RemoveModule`, `Match` (what the walk enters, the files it finds, and which of them comes first), `MatchPattern`, `Routes` |
| `Registry` | `registry.ts` | `AddRoute`, `RemoveRoute`, `AddMiddleware`, `Handler`, `HandlerForPattern`, `Exists`, `MethodsForPath`, `Endpoint` with the chain of middleware, the conversion of parameters |
| `RequestValidation` | `request-validator.ts`, `response-validator.ts`, `parameter-type.ts`, `array-query-parameters.ts` | conversion and validation of values, as operators |
| `ResponseBuilder` | `response-builder.ts` and the negotiation of `dispatcher.ts` | each method of `$.response`, as an operator on a response |
| `Dispatcher` | `dispatcher.ts` | `Refreshed` (the contract follows the document), `CanHandleRequest`, `AllowedMethodsForPath`, `Call` (`request()` up to the handler: admission, decoding, validation, endpoint), `Respond` (what follows the handler) |
| `Server` | `create-koa-app.ts` from the body parser on, `routes-middleware.ts`, `is-proxy-enabled-for-path.ts` | `Arrive` is everything up to the call of the handler, which runs in one piece: `Select` chooses the runner, `Routed` proxies, answers or calls; `Finish` the end of the handler; `LoadRoute`, `DropRoute`, `LoadMiddleware`, `ReloadDocument`, `SetProxy`, `SetProxyUrl` happen before, between and after |
| `RouteBuilder` | `client/src` | a builder is a value; `Resolved`, `WithMethod`, `With` (every other setter), `Missing`, `Ready`, and `RequestOf`, what `send()` makes of it |
| `Client` | someone at the REPL, or a scenario, with `Server` | `MakeRoute`, `SetMethod`, `Add`, `Send` on one builder; `seen` is history |
| `Generation` | `generate()` for the versions of a group, the chain of regenerations in `start()`, `prune.ts`, `writeFiles()`, `appendNewHandlers()` | `stage` and `turn` are where `generate()` is, and for which version; `repository` is what the scripts export; each element of `writers` is one call within `writeFiles()`, whose `step` says which await it is at. `PruneRoute`, `Write`, `WriteContext` are the accesses to the disk; `SaveHandler`, `DeleteRoute`, `SaveContext`, `SaveDocument` are users. `loaded`, `unseen`, `touched`, `kept`, `overlapped` are history |
| `Coders`, `OperationCoders` | the coders of schemas, parameters, responses, operations and components | what a coder writes is the sequence of its marks: what it imports, exports and takes from outside, in the order of the walk |
| `Scripts` | `script.ts`, `repository.ts` | `scripts`: exports (pending, then done), imports and their names; `jobs`: the microtasks that finish exports; names are made free in each script |
| `HelperTypes` | `scenario-file-generator.ts` | `tree`, `contexts`, `store` are the user's files, `contextTypes`, `middlewareTypes`, `helpers`, `index` the generated ones; `calls` is the chain, each with the step it is at; `FilesWritten`, `RunnerCalls` and `Noticed` (a report of a watcher) make calls, `UserChanges` are users. `behind` is history. `HelperSpec` is the module by itself, every action of which `GroupOutput` takes with others |
| `GroupOutput` | a group's rounds over `OperationCoders`, `Scripts` and `HelperTypes` | `BeginRound`, `Load` for each version, `ScriptStep`, `AwaitMore` and `Finish` (`Repository.finished()`), `WriteFiles`, `GenerateHelpers`, `EndTurn`, and the users' `Change` |
| `*_proofs` | theorems | see section 6 |
| `MC*` | instances for TLC | give the constants their values, nothing else |

Composition: `Client` > `Server` > `Dispatcher` > `ResponseBuilder` > `RequestValidation`
> `Registry` > `ModuleTree`, with `RouteBuilder` beside `Server`; `ComposedDocument` >
`ApiRunner` > `OpenApiDocument`, `Transpiler`, with `Overlay` beside `ApiRunner`;
`GroupOutput` > `OperationCoders` > `Coders`, with `HelperTypes` by EXTENDS and `Scripts`
by INSTANCE. `Simulator` implements `StateBarrier`, `UpdateQueue` implements `HoldLock`.

Operators whose comment begins with "Fault:" are mutated forms of the definition that
follows. Nothing of the specifications uses them: they are what the properties are
tried against (`PROJECT.json`, "mutants"), to see that each property can tell the
code from a plausible error in it.

## 3. Abstractions

* Modules are not text: the content of a file is a value that says which files it
  imports, whether its import fails, and whether its constructor throws.
* A context or store is its fields and its prototype. Nested values are values;
  what matters of cloning is that the snapshot is not the live object (the mutated
  form `LiveBaseline` shares them).
* The watcher (chokidar) may report changes late, and several changes of one file as
  one; it reports the last of them. It may report files in any order.
* Failures of user code (imports, constructors, scenarios, handlers that throw) are
  nondeterministic choices at the point where the code calls it.
* In `Generation` a document is the methods it declares for each route; a route file
  is, for each method, whether nothing, a stub, a user's handler, or a declaration that
  is not exported is there. Type files are the pairs of version and method they know.
* Node's module cache is not modelled: reloading a file is importing it again.
* In `OpenApiDocument` an input has a content, of which some are broken; a network
  input is not watched and may change too. Compilation cannot fail, as it does not check
  types; a source that has gone makes it fail.
* Requests are records of a method, segments of a URL, and values that are texts of
  which some read as numbers. A segment of a route is a literal, a variable in braces, or
  one that only begins with a brace, `{id}.json`; the tree takes both of the latter for
  wildcards and `matchPattern()` the braced ones alone (`WildSegment`, `BracedSegment`).
  The placeholders of a builder are segments of their own. Whether a body conforms to a schema is decided by ajv,
  which is external (`Conforms`); the order in which media ranges are preferred is
  @hapi/accept's. Of a body it is known whether it is an object, a text, a message or
  a stream, and of what is documented which of those it has.
* One request is followed at a time, since requests meet only in the registries,
  documents and settings that other actions change. For the same reason `Client` works
  on a builder only between two requests, looks at requests of others only when none
  is in the making, and forgets a builder that was sent. Bodies are objects, no
  Content-Type is given by hand, and `consumes` of Swagger 2 is left out.
* Types are not text either: a file is the names that it binds and what they refer to.
  The order of keys that `ComponentTypeCoder` sorts, and the number of a route in a
  preferred name, are left to `Identifier`. Exports settle in the order in which
  microtasks do, with one more turn for a reference. A walk over the directories
  reads them at one moment, and reports of one kind may coalesce.

Callers. `start()` has no guard of its own, and the documents call it once. The model
lets `start()` be called when no `start()` or `stop()` is under way and the simulator
is idle or stopped, and `stop()` through the last handle, any number of times at once.

## 4. Runs

| Run | Question | Bounds and why they suffice |
|---|---|---|
| `queue` | Does each call of `run` and `pause` get its turn? Does the chain implement `HoldLock`? | 3 updates, 2 pauses: an update before, between and behind two holds, in all orders, with rejections |
| `lifecycle` | Does a reset have the state to itself? Does the lifecycle implement `StateBarrier`, does a failed reset stay closed, do resets and stops end, are held updates resumed? | one start, 2 requests (one leaves while one holds the reset back), 2 queues, 2 overlapping stops, 2 waiting events |
| `contexts` | Is a context found for every path, do updates stay with their path, are live values kept by reloads? | a root and one directory; 4 versions of the source: one changes a field, one drops one, one changes methods alone; partial bodies posted to the Admin API. Finite without bounds on steps |
| `dependents` | Does the search end with exactly the dependents? | all graphs over 3 files with a package, all orders of walking a set |
| `modules_saved` | Is what is served, and what a reset goes back to, what the files hold? | a route that may fail to import, a middleware, a context; 3 changes of files, 2 waiting updates: a save before, during and after an import |
| `modules_imports` | Is every dependent of a changed file imported again? | chains and cycles of 3 files, contexts reloaded from the store's queue; 3 changes |
| `store` | Does the live store keep its identity and fields, are constructor and methods of one version, is what was saved in use? | 2 versions and a broken one; 2 constructions, 3 changes, 2 waiting turns; saves, deletions, resets, frozen stores, restarts of the watcher |
| `generation` | Does every regeneration end, do the files say what the documents say, is what users wrote kept? | 2 routes, 2 methods; two versions that share a directory, one version with pruning, one that generates types alone; 3 documents (one cannot be loaded); any files left by an earlier run; 2 edits by users, of documents or files, at any step |
| `requests` | Is each request served by the best route that can serve it, refused only when nobody can, given values of the declared types, and answered with what it accepts; is a builder that is ready taken? | two versions over one set of files with prefixes of which one ends in a slash, and an API without versions and prefix; routes that differ by literals, wildcards with and without a suffix, case and an ambiguity; every kind of parameter, a body, every kind of reply; builders for the third API; 2 changes of routes, middleware, documents or proxy settings: one may happen before a request, one while it is handled |
| `documents` | Is the document served what its files say, with the overlays in order; is the code served the code saved; is all closed after a failed start or a stop? | 2 runners of which one may fail, a source with a shared reference, a local overlay that may be broken and a remote one, one module with two codes, native TypeScript or a cache; 2 edits: an overlap of two loads, or of three jobs, takes two |
| `types` | Do imports refer to what they mean, is nothing missing when files are written, do helpers describe the directories? | documents with names that collide with one another, with helpers and with the index, cycles, aliases, dangling references, components of four kinds; two versions whose names make one identifier; 2 rounds, 2 changes of files, 1 failure, 3 nested directories |
| `types_parameters` | Are all declared parameters typed? Violated, section 5 | one operation with one reference on the path and one on itself |

Deadlock is not checked where the system may rightly stop: all calls made, all
requests served, or the bound on changes reached. It is checked in `contexts`,
`dependents` and `requests`. Bounds on counters (`MaxStarts`, `MaxUpdates`, `MaxQueue`,
`MaxEdits`, `MaxStores`, `MaxChanges`, `MaxRounds`, `MaxFailures`) are guards of the
actions that count; beyond them the environment does less, and the program is never cut
short, except that a second construction of the store is the last one, and that a second
round of `types` goes to its end for the short document only (a versioned group stops
at its `Load`, once the first round of both versions was written).

The passing runs of the module loader leave out what section 5 says is broken:
contexts that throw, deletion of files with imports, mixed-case names, imports of
packages ahead of local ones, and the store's reload next to saves of contexts. That
of the generator leaves out groups of several versions that are pruned. `types` has no
two versions with the same source and no parameters by reference, `requests` no
prefixless runner of a version with a root file. Exceptions within properties:
`DocumentCurrent` leaves out loads that finish after one that began later, and inputs
that changed unnoticed; `SavedCodeServed` modules whose jobs overlapped or that changed
between `load()` and `watch()`; `ReadyIsComplete` objects spread over the query, cookies
whose names change under percent-encoding, and bodies of methods that are sent without
one (section 5).

Fairness. `FairSpec` of `UpdateQueue` and `Simulator` is weak fairness of the
program's own steps: promise reactions that are due (the event loop runs them),
finally blocks, updates, and the user code the program waits for: handlers, body
streams, responses and scenarios are taken to end, which the code needs as well (a
handler that awaits `reset()`, or an endless stream, blocks a reset for ever). In
`Generation`, it is that the event loop and the file system answer, and that the
watcher reports a save in the end. In `DependentsSearch` it is the loop itself. No
caller, client or file is under any obligation.

## 5. Where the code does not do what it says

One run is spent on a counterexample, `types_parameters`: `getEffectiveParameters()`
(`generator/operation-type-coder.ts:298`) merges the parameters of a path and of its
operation by the `in` and `name` of the raw object. A `$ref` has neither, so all
references have one key and the last one wins: the handler's types lack parameters
that the server validates.

What follows shows when what is named is changed in a configuration, a property or a
guard. Each starts from the configuration of a passing run.

Lifecycle and hot reload:

* `start()` sets `stateUnavailable = false` (`counterfact/src/app.ts:617`) whatever the
  last reset did, so a stop and a start after a failed reset serve the half-built state:
  `MaxStarts = 2`, `StopCalls <- OneStop` and `MaxUpdates = 0` in
  `MCSimulator_lifecycle.cfg` violate `OnlyResetReveals`.
* `update()` takes a body posted to the Admin API as the snapshot of the source
  (`runtime/context-registry.ts:188`), so the next save overwrites live fields that the
  source did not change: the property `PreservesPosted` in `MCContextRegistry_safety.cfg`.
* "unlink" leaves the edges of a deleted file in the dependency graph
  (`runtime/module-loader.ts:239`); a change of what it imported registers it again, as a
  route that answers 500: `Files <- PairFiles`, `Allowed <- PairAllowed`, no contexts or
  middleware, and `DeletedRoutesGone` in `MCModuleLoader_imports.cfg`.
* `reloadContexts()` runs outside the module loader's queue, and can put back the
  constructor from before a save: `StoreMayActivate = TRUE`, `Files <- OneContext`,
  `Allowed <- ContextAllowed`, no middleware or overrides and `MaxEdits = 4` in
  `MCModuleLoader_saves.cfg` violate `SavedContextsUsed`.
* `runtime/module-tree.ts:164` removes the lower-case name of a file that
  `add()` stored as written: `MixedCase <- JustR` in `MCModuleLoader_saves.cfg`
  violates `DeletedRoutesGone`.
* A deleted middleware stays in the registry until the next reset
  (`runtime/module-loader.ts:242`; `Unlink` leaves `middlewares` alone).
* `runtime/module-dependency-graph.ts:47` returns at the first import of a package, so
  that later relative imports are not indexed: `Allowed <- PackageAllowed` with
  `Files <- PairFiles` and no contexts in `MCModuleLoader_imports.cfg` violates
  `DependentsReloaded`.
* A context whose constructor throws ends the loop over the dependents
  (`runtime/module-loader.ts:566`): `Allowed <- ThrowingAllowed` violates it too.
* Deleting `routes/_.context.ts` removes the root context, and `find()` then recurses
  without end: `Deletable <- MCPaths` in `MCContextRegistry_safety.cfg` violates
  `EveryPathFound`; `RootIsKept` is therefore proved under `Root \notin Deletable`.
* A save of the store between `load()` and "ready" is not noticed, because
  reconciliation compares presence only (`runtime/store-loader.ts:160`):
  `SavedStoreUsed` without `~missed` is violated.

Documents and modules:

* Files that the source refers to are not watched
  (`runtime/openapi-document.ts:117`), though `counterfact/docs/faq.md:275` says that
  "every local file that contributes" is: give "schema" a second content in
  `MCApiRunner.tla`, and `LocalFilesServed` is violated.
* Two loads may overlap, and the older one assigns last
  (`runtime/openapi-document.ts:131`): `DocumentCurrent` without `~ Overtaken`. A change
  between the load of `create()` and `watch()` is missed: without `unnoticed = {}`.
* A deletion during a compilation loses to it or ends the process, since nothing awaits
  the rejected transpile (`runtime/transpiler.ts:99`): `SavedCodeServed` without
  `overlapped` is violated by one edit (the compilation that the scan began writes
  after that of the save), and one deletion reaches `app = "crashed"`.
* A module that changes between `load()` and `watch()` is served as it was
  (`counterfact/src/api-runner.ts:349`): `SavedCodeServed` without `missed`.
* An overlay that is applied in several places puts one node into all of them
  (`openapi/src/apply-overlay.ts`), and parts that references made one stay one, so that
  a later update of one place changes the others; `OverlaysApplied` says what holds when
  nothing that is merged into is `Shared`.

Requests:

* An unknown path of one segment is served by the file of "/"
  (`runtime/module-tree.ts:198`, `normalizedSegment()` yields "" for what is not there),
  against `counterfact/docs/api/simulator.md:60`: `InitialRunners <- OneVersion`,
  `Requests <- RootRequests` and the property `AbsentPathIs404` in
  `MCServer_requests.cfg`.
* The proxy URL is copied when the application is made
  (`runtime/web-server/create-koa-app.ts:206`), so `.proxy <url>` does not redirect
  anything (`counterfact/docs/features/proxy.md:40`): the property `ProxiedToSetting`.
* `$.response.json()` chosen as another type is still sent as application/json
  (`create-koa-app.ts:188`), and `Allow` lists operations of versions that have no
  handler (`AllowIsServed` allows what is declared only).
* A segment such as `{Sid}.json` is a wildcard for `match()`, which looks at its first
  character alone and binds it under its whole text (`runtime/module-tree.ts:75`, `120`),
  and literal for `matchPattern()` (`:381`), although wildcards are those "wrapped in curly
  braces" (`:38`). A runner with versions is routed by it and binds nothing there, so its handler
  gets no argument for it. `PatternAgrees` and `BestRouteServes` say what is bound by
  which of the two; the run holds such routes, and with `again.pathVariables =
  found.pathVariables` in the one, or `IsWildcard` for `BoundBy` in the other, it fails.
* Where two wildcard directories fit, 405 is answered although the second one has the
  method; directories that a deletion left empty still hide wildcards (`Reachable` in
  `BestRouteServes` and `ServedIfPossible` counts every directory that was ever made).
* The server does not decode the names of cookies (`runtime/dispatcher.ts:85`), so one
  that the client encodes is not found; an object spread over the query
  (`counterfact/docs/features/route-builder.md:57`) and a body of a method that is sent
  without one (`client/src/raw-http-client.ts:106`) are ready for the builder and refused
  by the server. Its operation is that of its last call, not of the live document that
  `client/src/route-catalog.ts:82` speaks of.

Generated files:

* `generate()` is called for one version after the other and prunes the shared routes
  directory by the paths of that version alone (`generator/code-generator.ts:179`),
  so route files that only a sibling has are removed, users' handlers with them, and
  written again as stubs: `Setups <- PrunedGroup` and `Documents <- MoreDocuments` in
  `MCGeneration_safe.cfg` violate `UserEditsKept`.
* `Promise.all()` of `writeFiles()` rejects with the first writer that fails
  (`generator/repository.ts:229`) and the next regeneration begins while the others
  write, although calls are serialised "to avoid concurrent writes"
  (`counterfact/src/app.ts:491`): without `~overlapped` and with `MaxEdits = 3`,
  `MCGeneration_safe.cfg` violates `TypesMerged`. With `~overlapped` the properties
  hold with three edits too (2.9 million states, longer than the run that is kept).
* `appendNewHandlers()` reads a file, formats, and writes it
  (`generator/repository.ts:315`): a save in between is lost. `kept` leaves such
  saves out; without `~Open(r)` in `SaveHandler`, `UserEditsKept` is violated.
* Versions of one group with the same source have one identity for their coders, so
  the second is never declared: give `first` and `second` one source in
  `MCGroupOutput.tla`, and `TypesComplete` is violated.
* `importSharedType()` returns the name under which a helper type was imported, and
  `generator/responses-type-coder.ts:33` and `:87` write `HttpStatusCode` and
  `ResponseBuilderFactory` whatever it returned (`Literally` in `OperationCoders`). A schema of
  such a name that the module imported first is meant by mistake: add one to
  `Plain` in `MCGroupOutput.tla` and to `Names`, let the parameter `tree` refer to it, and
  `ReferencesMean` is violated. `MaybePromise` and `COUNTERFACT_RESPONSE`
  (`operation-type-coder.ts:552`) are imported before any schema and keep their names.

## 6. Theorems

All are proved for every value of the constants that satisfies the named assumptions
of the modules (finite sets, naturals, disjointness of sentinel values).

`UpdateQueue_proofs`: `TypeCorrect`, `QueueExclusive`, `QueueBarrier`, `QueueTakesTurns`
(refinement of `HoldLock`). Exclusion is not inductive: two calls have the turn only
if two promises resolved, which needs the order on the chain. The invariant adds
`HasPlace` (a call has a place exactly when it was made), `OwnPlace` (no two share
one) and `InOrder` (whoever has begun has only settled calls before it).

`Simulator_proofs`: `SimulatorTypeCorrect`, `GateCountsRequests`, `ResetDrainsRequests`,
`ResetExcludesScenarios`, `ResetHoldsUpdates`, `ResetGuardsState`, and `ResetHasStateToItself`
that sums up the last four as the run checks them, for any numbers of
requests, queues, stops and starts. That the counter never becomes negative already
needs the set it counts, hence `GateCounts` and `GateOrder`; that a drain is complete
needs `HoldsInOrder` (queues are paused and drained one after the other; a released
drain means no active request); that scenarios and resets exclude each other needs
`PhaseTells`. `FailedResetStaysClosed` and `RequestsSeeWholeState` (refinement of
`StateBarrier`) assume `MaxStarts = 1`; section 5 shows why they have to.

`ContextRegistry_proofs`: `RegistryTypeCorrect`, `ReloadsStayLocal`, `ReloadPreservesLive`,
and `RootIsKept` under `Root \notin Deletable`. The invariant is `SeenRegistered` (a
path that was seen has a context, so `find()` within `update()` does not go up), and
`Stems` (the snapshot of a context is what its source made, unless a body was posted).

`StoreLoader_proofs`: `StoreTypeCorrect`, `StoreOfOneVersion`, `SavedStoreIsUsed`,
`ReloadKeepsStore`. That a saved version is in use at rest is not inductive: between the
save and the rest it is on its way, as a change that the watcher has yet to report, a
turn in the queue, or a candidate being imported, and an import that began before the
save has a change or a turn behind it. The invariant says on which of these ways it is (`OnItsWay`), and that nothing newer than
the disk is anywhere (`NothingNewer`).

`ModuleLoader_proofs`: `LoaderTypeCorrect`, `SavedRoutesAreServed`, and `SavedContextsAreUsed`
under `~StoreMayActivate`, which section 5 shows to be needed. A save is followed in the
same way: a file that the watcher has reported has a save in the queue, is the one the
running update loads first, is being imported as it is on disk, or is applied (`Coming`,
`RoutesComing`, `ContextsComing`). The invariant adds that a deletion still queued for a
file that exists again has a save behind it (`UnlinkOutdated`), and so has an import that
read an older content (`ImportOutdated`).

`DependentsAreReloaded` follows something else: not one file but each way of imports.
That a file which is stale is on the list of the running update is not inductive, since
the list was made from the graph when the update began, and saves change imports after
that. The invariant says that a file whose imports on disk are not in the graph has a
save on its way (`EdgesIndexed`), and that whatever is stale and imports the changed file
by a way on which no file has one is listed (`StaleFollowed`): an update that begins
finds all of these in the graph, and a file that becomes stale in between is cut off by
a save that will find it. Both premises are divergences of section 5: `PackagesLast`
(the graph loses imports behind a package) and `NothingThrows` (a constructor that
throws ends the update before its list is done).

`DeletedLeavesAreGone` and `DeletedRoutesAreGone`: after a deletion the removal is queued or
done (`Removed`); a save that is queued for a file that is gone has the deletion behind
it (`SaveOutdated`), and so has an import of it that is under way (`LoadOutdated`). The
first is for the files that import no other (`Leaves`) and are registered under their name
(not `MixedCase`), whatever the other files are; the second is the property of the runs, for a
directory of such files. Section 5 shows why neither can be left out: the edges of a
deleted file outlive it, and put it on the list of an update for what it imported.

In the same module, `SearchTypeCorrect` and `SearchIsCorrect` of `DependentsSearch`: on
any finite graph the search can only end with the least set that is closed under
dependents. The invariant: everything marked is needed, and what a marked file needs is
marked or waiting in the queue.

`ApiRunner_proofs`: `DocumentIsCurrent`, `SavedCodeIsServed`, `StartServesEverything`,
`NothingStaysOpen`, for any runners, inputs, overlays, modules and edits. Three parts
keep invariants that know nothing of each other, and every step of the whole is a step
or a stutter of each (`NextChanges`): `LatestLoad` (what the load that began last has
read is there still, or a change of it is pending: only this load can be spoken for,
hence the exemption of loads that finish out of order); `Compiles` (a module whose jobs
do not overlap has at most one under way, which carries its source unless a change is
to be reported, or else its output is its source) and `Untouched` (a module that nobody
edited has a job among those that `watch()` waits for); `StageFits`, `MainFits` and
`Loads` (how far the runners are tells what the compiler is doing when modules are
loaded, and what is not served as it is in the cache is listed to be loaded again).

`Generation_proofs`, for any routes, methods, versions, documents and edits:
`GenerationTypeCorrect`; `GenerationKeepsEdits`, under the premise `OnePruned` (no group of
several versions is pruned), which section 5 shows to be needed; `GeneratedHandlers` and
`GeneratedTypes`, which need no premise. That a user's handler survives a write is not
inductive, since a write stores what was decided steps before: the invariant adds
`OpenKeeps` (a writer that is about to write holds every handler that is kept in its
file), `ContextOpen` (nothing is kept of a context file that is being written) and
`PruneAim` (what is listed for removal is in no path of the document whose turn it is, so
with one version nobody wants it). That the files agree with the documents at the end of
a round is not inductive either: `LoadedCurrent` (a document that was loaded this round
is the one saved, or a change is to be reported), `CollectedSoFar` (the scripts of the
versions that had their turn export all operations), `OwnWriters` (unless rounds overlapped,
writers belong to this round, and one file has one writer), `TypesWritten` and
`HandlersWritten` (what a script exports is in its file, or a writer of it is under way
that will put it there), `ContextMade`. Both properties leave out a round that began
while writers of a failed one were at work (section 5). `VersionsAssumption`, that no version is in a group twice,
is what `validateSpecGroups()` (`counterfact/src/app.ts:204`) refuses to start without.

In the same module, `HelpersAtRest`, of `HelperTypes`: for any directories, when no call and
no report is left, the helper types agree with the directories, context files and store
of the user. The invariant looks at the first call alone: unless something is still due
(a change to be reported, a failure to be made up for, or a call behind it that has read
nothing and reads everything), what it has read and written agrees with what the user
has, at each of its steps (`MadeUp`). The watchers may be closed and started again any number of
times, as by `stop()` and `start()`: what changes while there are none, and what they had
yet to report when they were closed, is due until a later call reads everything. It is a theorem of `HelperSpec`, which is the module by
itself; `GroupOutput`, whose run checks the same property, changes its variables by these
actions alone, but reaches recursive operators and can have no theorems. TLC agrees:
`PROPERTY HelperSpec` added to `MCGroupOutput_types.cfg` holds.

`Server_proofs`: `AnswersAreAcceptable`, for any runners, documents that change, requests and
replies of handlers that are well formed (`WellFormed`, an assumption of `MCServer`, so that TLC evaluates
it on the instance of the run): contents are lists; objects are offered only under types of a set,
`ObjectTypes`, and whoever accepts one of these accepts `application/json`, which objects
are sent as whatever they were offered as (`create-koa-app.ts:188`, section 5); media
ranges have two parts; no handler answers 406 by itself, since that is taken for the
refusal. The invariant is `RunnersOK` and `ExchangeOK`: the operation that a call began with is
well formed, although the document it was found in may be replaced before the handler
returns, and an answer is what the negotiation made of a reply. The lemmas follow the
response from each way to build it (`RepliesAreWellFormed`) through the choice of a content
(`Negotiation`), and the operation from the document to the call (`OperationFound`,
`CalledOperation`).

In the same module, the routing, for any runners, files that are loaded and dropped in any order,
documents that change, requests, and what builders send: `PatternsLeadBack` (the path
that a match returns leads back to the same file, and to those of its variables that are in
braces), `BestRouteIsCalled` (the
handler that is called is of a file that fits the URL, no better one that the walk reaches
serves the request, and the segments at the variables that are bound, `BoundBy`, are its arguments),
`OnlyDeclaredIsCalled` (a contract calls what its present document declares, under the best of
its paths) and `AllowedMethodsAreServed` (what an answer allows, some runner serves or
declares). None is inductive: each speaks of what one walk through a tree finds, and a tree is
what all loads and deletions before made of it. The invariant, `RoutingInv`, says that each
tree is well formed (`TreeOK`: the directories above a directory or file are there, one
for each key, under a name of that key; one file for each directory and name; no variable
twice on a way), that documents list such paths, and that the URL at hand is plain. The
lemmas then go from the tree (`AddModuleOK`, `RemoveModuleOK`) through the walk (`EntersOne`: it
enters the directory of the name or fitting wildcards; `BuildMatchOne`: what it takes there; `FirstIsFound`; `MatchedPath`:
the path of a match has the key of its file) to what is preferred (`NoneBetter`: where a
better path differs first it has a name, and that would have been entered), from
the paths of a document to the tree made of them (`ContractTreeOK`), and from the two
ways to a handler (`TwoWays`, by URL and by pattern; `BracedBindings`: the latter binds what
the former does, without what is not in braces, by `BracesAssumption`) to a call and to its arguments. The premises:

* `WellRouted`: lower case is a spelling (`SpellingOK`), and a variable has one spelling
  (with `{id}` and `{ID}` the directory keeps the first and the contract may have the other);
  no variable occurs twice in a path (the second value replaces the first); URLs hold no
  segment that begins with a brace before the last (a literal `/{kind}/x` enters the directory by its name and
  binds nothing); what a builder leaves out of its path is the last segment at most, since it
  is sent as it is.
* `NoSegment \notin FileNames`, for all but the first theorem: no file is named "", since that
  of "/" serves every path of one segment (section 5, `AbsentPathIs404`).
* `NamesOK`, for the last one: the name of an operation is written in upper case, or all of it is in
  lower case. `Allow` lists names in upper case, and one in mixed case is found under neither.

They too are assumptions of `MCServer`, and TLC finds `RoutingInv` to hold in all states of
the run (`INVARIANT RoutingInv` in `MCServer_requests.cfg`). The proof corrected a property:
`Reachable` had asked that no directory that fits be preferred, and with the routes
`pets/{id}` and `pets/5/x` that is false of the code, rightly: the walk looks for the last
segment of a URL among files only, so just the directories of shorter paths count.

`ArgumentsAreTyped`, in the same module: while a handler runs, its arguments of the query have
the types that its operation declares, and those it requires are there. Types are read in three
ways (`parameterType()` for numbers, the declaration itself for booleans, `choices()` for
arrays), and values are converted in three steps, after a validation that saw none of them; the
theorem is that these agree. The invariant, `TypesInv`, says of each runner that its
document is such that they can (`DocumentTyped`), of a call that is running that it is typed,
and of a builder that its query is made of texts and lists. The argument: an invalid request is not
called, so numbers are finite, booleans are `true` or `false`, and nothing required is missing
(`NumbersAreFinite`, `BooleansAreTrueOrFalse`, `NothingMissing`); gathering
objects, parameter by parameter, leaves every other parameter as it was (`Collected`, an
induction over the stages of a recursive function, `Stages`); arrays become lists
(`ArraysAreMade`), and the casts leave objects and lists alone (`ConvertedQuery`).
The operation is that of the call: the document may change while the handler runs. Its
premises, `WellTyped`, also evaluated by TLC on `MCServer`, exclude what the code does not promise:

* requests are validated (`ValidateRequests`; with validation off a handler gets any text), and
  what arrives is a text or a list of texts;
* parameters of the query have names of their own, none has the name of a property of an object
  that is spread over the query, and no two such objects share a property: `collectExplodedObjectParams()`
  takes a property from whoever else declares it;
* an object that is required and spread declares properties (`findMissingRequired()` skips one
  that declares none), and no parameter of another type is spread;
* a boolean is declared directly: a union of booleans is cast, yet its text is not checked
  (`request-validator.ts:150`);
* what `parameterType()` takes for an array, `choices()` does too, and conversely, and it has a
  style that is split: an array of Swagger 2, without a schema, stays a text.

`ReadyLacksNothing`, in the same module: what a builder of requests holds for complete, its
runner finds to lack nothing, as long as both mean one operation of a document that did not
change since the builder looked. Client and server each look the operation up, merge the parameters
of path and operation, fold the case of names and decide what a body is, in code of their own.
The invariant, `BuiltInv`: a builder holds the operation that the document it saw last
declares, whatever it was told since. The argument: both take the first path that is equal in lower case
(`SameOperation`); what the server requires after two merges, the second with the parameters of API keys,
the catalog of the client lists (`RequiredIsListed`, from an induction over the parameters, `MergedOnly`);
and what is sent has whatever `missing()` looked for (`SentHasAll`). The premises, `WellBuilt`: no
additional operation has the name of a standard method as it is sent (the server would find it, the
client would not look for it); no header parameter is called `Cookie`, which requests of the model
keep apart; and `Undefined` stands for no form, body or operation. The proof corrected the model: the server too keeps the last of
two parameters of one place and name within one list (`dispatcher.ts:36`), where
`MergeParameters` had kept both. Now both sides use `Merged`, since both are the same loop over a map.

Model-checked only: liveness (`EveryCallRuns`, `ResetEnds`, `StopEnds`,
`HeldUpdatesResume`, `RegenerationsEnd`, `SearchEnds`), which like ENABLED is outside the
prover's reach; what recursive definitions and folds compute (`Overlay`, `Coders`, the folds of
`RequestValidation`), hence `OverlaysApplied` and `TypesComplete`. `ServedIfPossible`
would need premises of its own (one file for each name in lower case, wildcard files that export
methods as requests spell them, no two paths of a document of one shape and, since the walk does
not come back from a directory it entered by name, no such directory beside a wildcard one): each
is a way in which the code answers 404 or 405 although some file fits. `ReferencesMean` would
need premises on all coders (equal identities in a
script export under one identity, names of declared coders differ, no import is refused)
that are the substance of the property; it stays with TLC.

## 7. Not modelled, and the plan

Not modelled, as text or I/O without shared state: the terminal side of CLI and REPL,
`discover-openapi.ts` (a bounded search of a directory that is read once), the MSW
adapter, the migrations, the conversions of `json-to-xml.ts` and `multipart-body.ts`,
the printing of the AST, the scenario registry (a map, filled by the loader's watcher),
the JSONPath and YAML libraries, ajv, and examples, site and scripts. Within modelled
components: Node's module cache, contexts built on demand while they are reset, delays
and authentication headers of the dispatcher, the help texts of the client.

Planned, in this order:

1. `ServedIfPossible` under the premises that section 6 names, from the lemmas about the
   tree.
2. Rebuilding contexts on demand (`module-loader.ts`, `resetContexts()`): order of
   construction, cycles that must be reported; then `ResetContexts` of
   `ContextRegistry` becomes its abstract form.
3. Several requests at a time, and their composition with the gate of `Simulator`.
4. The scenario registry with its watcher and `.scenario` of the REPL, which resets do
   not wait for; the bounded search of `discover-openapi.ts`.
