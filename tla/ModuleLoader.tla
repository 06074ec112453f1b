---------------------------- MODULE ModuleLoader ----------------------------
(***************************************************************************)
(* Hot reload of one runner's modules:                                     *)
(* packages/runtime/src/server/module-loader.ts, with the dependency graph *)
(* of module-dependency-graph.ts and the maps of registry.ts.              *)
(*                                                                         *)
(* A file is named by itself: the URL, the middleware path and the context *)
(* directory that the loader computes from its name are told apart by the  *)
(* map they are keys of.  (index.* is also registered at the URL of its    *)
(* directory, in the same steps.)  The content of a file stands for what   *)
(* importing it yields.  Whether Node hands an importer a new instance of  *)
(* an imported module is not modelled: "reloaded" is imported again.       *)
(***************************************************************************)
EXTENDS ModuleDependencyGraph

CONSTANTS
  Middlewares, ContextFiles,  \* _.middleware.* and _.context.* files
  MixedCase,   \* files whose name has an upper-case letter
  Contents,    \* what can be in a file
  Allowed,     \* the contents a file may get
  Imports,     \* the imports of a content, in order
  Broken,      \* contents whose import fails
  Throwing,    \* contents whose Context constructor throws
  Overridable, \* the routes that may be replaced at run time
  Override,    \* what replaces them
  ErrorModule, \* answers every method with 500
  Absent, None,
  StoreMayActivate,  \* may _.store.ts appear while the simulator runs?
  MaxQueue,    \* bound: updates waiting in the queue
  MaxEdits     \* bound: changes of the files

ASSUME LoaderAssumption ==
  /\ Middlewares \subseteq Files /\ ContextFiles \subseteq Files
  /\ Middlewares \cap ContextFiles = {}
  /\ MixedCase \subseteq Files /\ Overridable \subseteq Files \ ContextFiles
  /\ Allowed \in [Files -> SUBSET Contents]
  /\ \A f \in Files : \A x \in Allowed[f] : Imports[x] \in Seq(Files \cup {Package})
  /\ StoreMayActivate \in BOOLEAN
  /\ MaxQueue \in Nat /\ MaxEdits \in Nat

\* None is no file and no import.
ASSUME NoneAssumption ==
  /\ None \notin Files
  /\ None \notin [file : Files, content : Contents \cup {Absent}]

\* A file that is not there has no content.
ASSUME AbsentAssumption == Absent \notin Contents /\ Throwing \subseteq Contents

VARIABLES
  disk,        \* the files
  edits,       \* how often they changed
  unreported,  \* files that changed since the watcher last reported them
  unloaded,    \* files that load() has found and not loaded yet
  watching,    \* watch() has returned
  queue,       \* updates that wait for their turn
  first, rest, \* files that the running update has to load
  importing,   \* the import it waits for
  dependents,  \* of the dependency graph
  sourceRoutes, sourceMiddlewares, contextFactories,  \* of the loader
  routes, middlewares,  \* of the registry
  storeActive, reloading, \* a store appeared; contexts it makes reload
  missed,      \* history: changes after load() that no watcher reported
  stale        \* history: <<f, g>> when f was not imported since g, which it imports, changed

files   == <<disk, edits, unreported>>
update  == <<queue, first, rest, importing>>
sources == <<sourceRoutes, sourceMiddlewares, contextFactories>>
served  == <<routes, middlewares>>
store   == <<storeActive, reloading>>
history == <<missed, stale>>
vars == <<files, unloaded, watching, update, dependents, sources, served, store, history>>

Disk   == Contents \cup {Absent}
Module == Contents \cup {ErrorModule, Override}

TypeOK ==
  /\ disk \in [Files -> Disk] /\ unreported \in SUBSET Files
  /\ edits \in 0..MaxEdits
  /\ unloaded \in SUBSET Files
  /\ watching \in BOOLEAN
  /\ queue \in Seq([file : Files, unlink : BOOLEAN])
  /\ first \in Files \cup {None} /\ rest \in SUBSET Files
  /\ importing \in [file : Files, content : Disk] \cup {None}
  /\ dependents \in Graph
  /\ sourceRoutes \in [Files -> Module \cup {None}]
  /\ routes \in [Files -> Module \cup {None}]
  /\ sourceMiddlewares \in [Middlewares -> Contents \cup {None}]
  /\ middlewares \in [Middlewares -> Contents \cup {None}]
  /\ contextFactories \in [ContextFiles -> Contents \cup {None}]
  /\ storeActive \in BOOLEAN
  /\ reloading \in [ContextFiles -> Disk \cup {None}]
  /\ missed \in SUBSET Files /\ stale \in SUBSET (Files \X Files)

Init ==
  /\ disk \in {d \in [Files -> Disk] : \A f \in Files : d[f] \in Allowed[f] \cup {Absent}}
  /\ edits = 0 /\ unreported = {}
  /\ unloaded = {f \in Files : disk[f] # Absent}
  /\ watching = FALSE
  /\ queue = <<>> /\ first = None /\ rest = {} /\ importing = None
  /\ dependents = NoDependents
  /\ sourceRoutes = [f \in Files |-> None]
  /\ routes = sourceRoutes
  /\ sourceMiddlewares = [f \in Middlewares |-> None]
  /\ middlewares = sourceMiddlewares
  /\ contextFactories = [f \in ContextFiles |-> None]
  /\ storeActive = FALSE
  /\ reloading = [f \in ContextFiles |-> None]
  /\ missed = {} /\ stale = {}

-----------------------------------------------------------------------------
(* loadEndpoint()                                                          *)

\* What precinct finds in a file; nothing when it cannot be read.
ImportsOf(content) == IF content = Absent THEN <<>> ELSE Imports[content]

Fails(content) == content = Absent \/ content \in Broken

\* Fault: a module that cannot be imported leaves the old one registered.
KeepOnError(file, content) == IF Fails(content) THEN sourceRoutes[file] ELSE content

\* Fault: the result of an import is registered whether it failed or not.
ErrorIgnored(file, content) == content

\* A module that cannot be imported is replaced by one that says so.
Imported(file, content) == IF Fails(content) THEN ErrorModule ELSE content

\* Its constructor returns, so a context file becomes a factory.
Constructs(content) == ~Fails(content) /\ content \notin Throwing

\* Fault: a reload changes the registry and not what a reset goes back to.
RegisterOnly(file, module) ==
  /\ routes' = [routes EXCEPT ![file] = module]
  /\ UNCHANGED sourceRoutes

\* Every module that is not a context is registered as a route.
RegisterRoute(file, module) ==
  /\ routes' = [routes EXCEPT ![file] = module]
  /\ sourceRoutes' = [sourceRoutes EXCEPT ![file] = module]

\* Fault: a reset goes back to the constructor of the first load.
KeepFactory(file, content) ==
  contextFactories' = IF contextFactories[file] = None
                      THEN [contextFactories EXCEPT ![file] = content] ELSE contextFactories

\* A reset constructs the context again, from what was last imported.
RegisterContext(file, content) ==
  contextFactories' = [contextFactories EXCEPT ![file] = content]

\* loadEndpoint(), once the import has come to its end.
Register(file, content, constructed) ==
  IF file \in ContextFiles
  THEN /\ IF constructed THEN RegisterContext(file, content) ELSE UNCHANGED contextFactories
       /\ UNCHANGED <<sourceRoutes, sourceMiddlewares, served>>
  ELSE /\ RegisterRoute(file, Imported(file, content))
       /\ IF file \in Middlewares /\ ~Fails(content)
          THEN /\ sourceMiddlewares' = [sourceMiddlewares EXCEPT ![file] = content]
               /\ middlewares' = [middlewares EXCEPT ![file] = content]
          ELSE UNCHANGED <<sourceMiddlewares, middlewares>>
       /\ UNCHANGED contextFactories

-----------------------------------------------------------------------------
(* The files and load()                                                    *)

\* A file is created, saved or deleted.
Edit(f) ==
  /\ edits < MaxEdits /\ edits' = edits + 1
  /\ \E c \in (Allowed[f] \cup {Absent}) \ {disk[f]} : disk' = [disk EXCEPT ![f] = c]
  /\ unreported' = IF watching THEN unreported \cup {f} ELSE unreported
  /\ missed' = IF watching \/ f \in unloaded THEN missed ELSE missed \cup {f}
  /\ UNCHANGED <<unloaded, watching, update, dependents, sources, served,
                 store, stale>>

\* load() loads a file it has found.  A context becomes a factory unbuilt.
Load(f) ==
  /\ f \in unloaded
  /\ unloaded' = unloaded \ {f}
  /\ dependents' = Reindex(dependents, f, ImportsOf(disk[f]))
  /\ Register(f, disk[f], ~Fails(disk[f]))
  /\ missed' = IF disk[f] = Absent THEN missed \cup {f} ELSE missed
  /\ UNCHANGED <<files, watching, update, store, stale>>

\* The contexts are built, and the watcher is ready, after load().
Watch ==
  /\ ~watching /\ unloaded = {}
  /\ \A f \in ContextFiles : contextFactories[f] \notin Throwing
  /\ watching' = TRUE
  /\ UNCHANGED <<files, unloaded, update, dependents, sources, served, store, history>>

-----------------------------------------------------------------------------
(* Updates                                                                 *)

\* The files that import f now, directly or indirectly.
Importers(f) ==
  DependentsOf([g \in Files |->
                  {h \in Files : \E i \in DOMAIN ImportsOf(disk[h]) : ImportsOf(disk[h])[i] = g}],
               f)

\* The watcher notices a change, and an update is queued for it.
Report(f) ==
  /\ f \in unreported
  /\ Len(queue) < MaxQueue
  /\ unreported' = unreported \ {f}
  /\ queue' = Append(queue, [file |-> f, unlink |-> disk[f] = Absent])
  /\ stale' = IF disk[f] = Absent THEN stale ELSE stale \cup (Importers(f) \X {f})
  /\ UNCHANGED <<disk, edits, unloaded, watching, first, rest, importing, dependents, sources,
                 served, store, missed>>

Idle == first = None /\ rest = {} /\ importing = None

\* Fault: the registry is not told of a deleted file.
StillServed(f) == TRUE

\* registry.remove() looks for the lower-case name of the file.
StaysServed(f) == f \in MixedCase

\* "unlink": the file is deregistered.  Its edges stay in the dependency graph,
\* and its middleware in the registry.
Unlink ==
  /\ Idle /\ queue # <<>> /\ Head(queue).unlink
  /\ queue' = Tail(queue)
  /\ LET f == Head(queue).file IN
     /\ routes' = IF StaysServed(f) THEN routes ELSE [routes EXCEPT ![f] = None]
     /\ sourceRoutes' = [sourceRoutes EXCEPT ![f] = None]
     /\ sourceMiddlewares' = [g \in Middlewares |->
                                IF g = f THEN None ELSE sourceMiddlewares[g]]
     /\ contextFactories' = [g \in ContextFiles |->
                               IF g = f THEN None ELSE contextFactories[g]]
  /\ UNCHANGED <<files, unloaded, watching, first, rest, importing, dependents,
                 middlewares, store, history>>

\* Fault: the dependents are looked up in the map, one level deep.
DirectDependents(f) == dependents[f]

Dependents(f) == DependentsOf(dependents, f)

\* "add" and "change": load the file, then all that depends on it.
Begin ==
  /\ Idle /\ queue # <<>> /\ ~Head(queue).unlink
  /\ queue' = Tail(queue)
  /\ first' = Head(queue).file
  /\ rest' = Dependents(Head(queue).file)
  /\ UNCHANGED <<files, unloaded, watching, importing, dependents, sources, served,
                 store, history>>

\* loadEndpoint() indexes the imports and starts to import the file.
Import(f) ==
  /\ importing = None
  /\ \/ first = f /\ first' = None /\ UNCHANGED rest
     \/ first = None /\ f \in rest /\ rest' = rest \ {f} /\ UNCHANGED first
  /\ importing' = [file |-> f, content |-> disk[f]]
  /\ dependents' = Reindex(dependents, f, ImportsOf(disk[f]))
  /\ stale' = stale \ ({f} \X Files)
  /\ UNCHANGED <<files, unloaded, watching, queue, sources, served, store, missed>>

\* The import ends.  When the constructor of a context throws, the update ends.
Loaded ==
  /\ importing # None
  /\ importing' = None
  /\ Register(importing.file, importing.content, Constructs(importing.content))
  /\ rest' = IF importing.file \in ContextFiles /\ importing.content \in Throwing
             THEN {} ELSE rest
  /\ UNCHANGED <<files, unloaded, watching, queue, first, dependents, store, history>>

-----------------------------------------------------------------------------
(* Others who load and register modules                                    *)

\* _.store.ts appears, and reloadContexts() starts to import all contexts.  It
\* is called from the store's queue of updates, not from the loader's.
ActivateStore ==
  /\ StoreMayActivate /\ watching /\ ~storeActive
  /\ storeActive' = TRUE
  /\ LET found == {f \in ContextFiles : disk[f] # Absent} IN
     /\ reloading' = [f \in ContextFiles |-> IF f \in found THEN disk[f] ELSE None]
     /\ dependents' = [g \in Files |->
          (dependents[g] \ found) \cup {f \in found : g \in Indexed(ImportsOf(disk[f]))}]
     /\ stale' = stale \ (found \X Files)
  /\ UNCHANGED <<files, unloaded, watching, update, sources, served, missed>>

\* One of these imports comes to its end.
ReloadContext(f) ==
  /\ reloading[f] # None
  /\ reloading' = [reloading EXCEPT ![f] = None]
  /\ Register(f, reloading[f], Constructs(reloading[f]))
  /\ UNCHANGED <<files, unloaded, watching, update, dependents, storeActive, history>>

NotReloading == \A f \in ContextFiles : reloading[f] = None

\* The program that embeds the simulator registers a module of its own.
AddOverride(f) ==
  /\ f \in Overridable
  /\ routes' = [routes EXCEPT ![f] = Override]
  /\ UNCHANGED <<files, unloaded, watching, update, dependents, sources, middlewares,
                 store, history>>

\* reset(), which holds the queues: resetRoutes() reinstalls the sources.
ResetRoutes ==
  /\ watching /\ Idle /\ NotReloading
  /\ routes' = sourceRoutes
  /\ middlewares' = sourceMiddlewares
  /\ UNCHANGED <<files, unloaded, watching, update, dependents, sources, store, history>>

Next ==
  \/ \E f \in Files : Edit(f) \/ Load(f) \/ Report(f) \/ Import(f) \/ AddOverride(f)
  \/ Watch \/ Unlink \/ Begin \/ Loaded
  \/ ActivateStore \/ \E f \in ContextFiles : ReloadContext(f)
  \/ ResetRoutes

Spec == Init /\ [][Next]_vars

-----------------------------------------------------------------------------
\* Every change was reported, and every reload that it caused is over.
Settled == watching /\ unreported = {} /\ queue = <<>> /\ Idle /\ NotReloading

(***************************************************************************)
(* "Save a route or context file and the running server picks it up": once *)
(* the watcher and the queue come to rest, the modules that are served and *)
(* those a reset goes back to are what the files hold, in whatever order   *)
(* files were saved while others were being imported.                      *)
(***************************************************************************)
SavedRoutesServed ==
  Settled => \A f \in Files \ (ContextFiles \cup missed) : disk[f] # Absent =>
    /\ sourceRoutes[f] = IF Fails(disk[f]) THEN ErrorModule ELSE disk[f]
    /\ routes[f] \in {sourceRoutes[f], Override}
    /\ f \in Middlewares /\ ~Fails(disk[f]) => middlewares[f] = disk[f]

\* The same of contexts: new instances are made by the constructor on disk.
SavedContextsUsed ==
  Settled => \A f \in ContextFiles \ missed : disk[f] # Absent /\ Constructs(disk[f]) =>
    contextFactories[f] = disk[f]

(***************************************************************************)
(* watch() loads modules "on add and change events", "deregistering them   *)
(* on unlink": no module of a deleted file is served.                      *)
(***************************************************************************)
DeletedRoutesGone ==
  Settled => \A f \in Files \ missed : disk[f] = Absent => routes[f] \in {None, Override}

(***************************************************************************)
(* "when a shared module changes, all dependent route files can be         *)
(* reloaded": no file is left that imports a module, directly or not, and  *)
(* was not imported again after that module changed.                       *)
(***************************************************************************)
DependentsReloaded ==
  Settled /\ missed = {} => \A f, g \in Files : f \in Importers(g) => <<f, g>> \notin stale
=============================================================================
