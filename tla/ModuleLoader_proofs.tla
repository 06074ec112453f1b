------------------------- MODULE ModuleLoader_proofs ------------------------
(***************************************************************************)
(* Theorems about ModuleLoader, for any files and imports, any edits and   *)
(* any length of the queue: what is served, and what a reset goes back to, *)
(* is what was saved; what was deleted is gone; and whatever imports what  *)
(* changed was imported again.                                             *)
(*                                                                         *)
(* None of this is inductive.  A save has to be followed through the       *)
(* watcher, the queue and the import (Coming), past deletions of the file  *)
(* that are still queued (UnlinkOutdated) and past imports that have read  *)
(* it before it was saved (ImportOutdated).  That a file is a dependent    *)
(* the running update has yet to load is of no use: when the constructor   *)
(* of a context throws, those are given up.                                *)
(***************************************************************************)
EXTENDS ModuleLoader, DependentsSearch, FiniteSetTheorems, TLAPS

\* The update for a save of f waits in the queue.
SaveWaits(f) == \E i \in 1..Len(queue) : queue[i].file = f /\ ~queue[i].unlink

\* f is there, and the watcher, or load(), has nothing more to say of it.
Noticed(f) == disk[f] # Absent /\ f \notin missed \cup unreported \cup unloaded

\* An update will import what f holds, or has imported it.
Coming(f) == SaveWaits(f) \/ first = f \/ importing = [file |-> f, content |-> disk[f]]

\* What f holds is served, and reinstalled by a reset.
RouteApplied(f) ==
  /\ sourceRoutes[f] = Imported(f, disk[f])
  /\ routes[f] \in {sourceRoutes[f], Override}
  /\ f \in Middlewares /\ ~Fails(disk[f]) =>
       sourceMiddlewares[f] = disk[f] /\ middlewares[f] = disk[f]

RoutesComing == \A f \in Files \ ContextFiles : Noticed(f) => Coming(f) \/ RouteApplied(f)

ContextsComing ==
  \A f \in ContextFiles : Noticed(f) /\ Constructs(disk[f]) =>
    Coming(f) \/ contextFactories[f] = disk[f]

\* After a deletion of a file that exists again, a save of it is queued.
UnlinkOutdated ==
  \A f \in Files : Noticed(f) =>
    \A i \in 1..Len(queue) : queue[i].file = f /\ queue[i].unlink =>
      \E j \in i + 1 .. Len(queue) : queue[j].file = f /\ ~queue[j].unlink

\* When an import has read an older content, a save is queued.
ImportOutdated ==
  \A f \in Files : importing # None /\ importing.file = f /\ Noticed(f) =>
    SaveWaits(f) \/ importing.content = disk[f]

\* Updates begin when load() and watch() are over.
LoadedFirst ==
  /\ ~watching => queue = <<>> /\ Idle /\ unreported = {}
  /\ watching => unloaded = {}


-----------------------------------------------------------------------------
(* What single steps do.                                                   *)

\* Indexing a file keeps the dependency graph a graph.
LEMMA ReindexType ==
  ASSUME NEW graph \in Graph, NEW path \in Files, NEW imports
  PROVE  Reindex(graph, path, imports) \in Graph
  BY DEF Reindex, Graph

\* What can be imported has no sentinel for a module.
LEMMA ImportableContent ==
  ASSUME NEW content \in Disk, ~Fails(content)
  PROVE  content \in Contents
  BY DEF Disk, Fails

(***************************************************************************)
(* Register(): what becomes of the file, and that no other file is         *)
(* touched.                                                                *)
(***************************************************************************)
LEMMA Registered ==
  ASSUME TypeOK, NEW f \in Files, NEW content \in Disk, NEW constructed \in BOOLEAN,
         constructed => ~Fails(content), Register(f, content, constructed)
  PROVE  /\ sourceRoutes' \in [Files -> Module \cup {None}]
         /\ routes' \in [Files -> Module \cup {None}]
         /\ sourceMiddlewares' \in [Middlewares -> Contents \cup {None}]
         /\ middlewares' \in [Middlewares -> Contents \cup {None}]
         /\ contextFactories' \in [ContextFiles -> Contents \cup {None}]
         /\ \A g \in Files : g # f \/ f \in ContextFiles =>
              /\ sourceRoutes'[g] = sourceRoutes[g] /\ routes'[g] = routes[g]
              /\ g \in Middlewares => /\ sourceMiddlewares'[g] = sourceMiddlewares[g]
                                      /\ middlewares'[g] = middlewares[g]
         /\ \A g \in ContextFiles : g # f => contextFactories'[g] = contextFactories[g]
         /\ f \notin ContextFiles =>
              /\ sourceRoutes'[f] = Imported(f, content) /\ routes'[f] = Imported(f, content)
              /\ f \in Middlewares /\ ~Fails(content) =>
                   sourceMiddlewares'[f] = content /\ middlewares'[f] = content
         /\ f \in ContextFiles /\ constructed => contextFactories'[f] = content
<1>1. CASE f \in ContextFiles
  <2>1. /\ UNCHANGED <<sourceRoutes, sourceMiddlewares, routes, middlewares>>
        /\ IF constructed THEN RegisterContext(f, content) ELSE UNCHANGED contextFactories
    BY <1>1 DEF Register, served
  <2>2. CASE constructed
    <3>1. content \in Contents
      BY <2>2, ImportableContent
    <3> QED BY <1>1, <2>1, <2>2, <3>1 DEF TypeOK, RegisterContext
  <2>3. CASE ~constructed
    BY <1>1, <2>1, <2>3 DEF TypeOK
  <2> QED BY <2>2, <2>3
<1>2. CASE f \notin ContextFiles
  <2> DEFINE module == Imported(f, content)
  <2>1. /\ routes' = [routes EXCEPT ![f] = module]
        /\ sourceRoutes' = [sourceRoutes EXCEPT ![f] = module]
        /\ UNCHANGED contextFactories
    BY <1>2 DEF Register, RegisterRoute
  <2>2. module \in Module
    BY ImportableContent DEF Imported, Module
  <2>3. CASE f \in Middlewares /\ ~Fails(content)
    <3>1. /\ sourceMiddlewares' = [sourceMiddlewares EXCEPT ![f] = content]
          /\ middlewares' = [middlewares EXCEPT ![f] = content]
      BY <1>2, <2>3 DEF Register
    <3>2. content \in Contents
      BY <2>3, ImportableContent
    <3> HIDE DEF module
    <3>3. /\ sourceRoutes' \in [Files -> Module \cup {None}]
          /\ routes' \in [Files -> Module \cup {None}]
          /\ sourceRoutes'[f] = module /\ routes'[f] = module
          /\ \A g \in Files : g # f => sourceRoutes'[g] = sourceRoutes[g] /\ routes'[g] = routes[g]
      BY <2>1, <2>2 DEF TypeOK
    <3>4. /\ sourceMiddlewares' \in [Middlewares -> Contents \cup {None}]
          /\ middlewares' \in [Middlewares -> Contents \cup {None}]
          /\ sourceMiddlewares'[f] = content /\ middlewares'[f] = content
          /\ \A g \in Middlewares : g # f => /\ sourceMiddlewares'[g] = sourceMiddlewares[g]
                                             /\ middlewares'[g] = middlewares[g]
      BY <2>3, <3>1, <3>2 DEF TypeOK
    <3> QED BY <1>2, <2>1, <3>3, <3>4 DEF TypeOK, module
  <2>4. CASE ~(f \in Middlewares /\ ~Fails(content))
    <3>1. UNCHANGED <<sourceMiddlewares, middlewares>>
      BY <1>2, <2>4 DEF Register
    <3> HIDE DEF module
    <3>3. /\ sourceRoutes' \in [Files -> Module \cup {None}]
          /\ routes' \in [Files -> Module \cup {None}]
          /\ sourceRoutes'[f] = module /\ routes'[f] = module
          /\ \A g \in Files : g # f => sourceRoutes'[g] = sourceRoutes[g] /\ routes'[g] = routes[g]
      BY <2>1, <2>2 DEF TypeOK
    <3> QED BY <1>2, <2>1, <2>4, <3>1, <3>3 DEF TypeOK, module
  <2> QED BY <2>3, <2>4
<1> QED BY <1>1, <1>2

Update == [file : Files, unlink : BOOLEAN]

\* A change that is reported waits behind all others.
LEMMA QueueGrows ==
  ASSUME queue \in Seq(Update), NEW e \in Update, queue' = Append(queue, e)
  PROVE  /\ queue' \in Seq(Update)
         /\ Len(queue') = Len(queue) + 1 /\ queue'[Len(queue) + 1] = e
         /\ \A i \in 1..Len(queue) : queue'[i] = queue[i]
         /\ \A f \in Files : SaveWaits(f) => SaveWaits(f)'
         /\ ~e.unlink => SaveWaits(e.file)'
<1>1. /\ queue' \in Seq(Update)
      /\ Len(queue) \in Nat /\ Len(queue') = Len(queue) + 1 /\ queue'[Len(queue) + 1] = e
      /\ \A i \in 1..Len(queue) : queue'[i] = queue[i]
  BY DEF Update
<1>2. ASSUME NEW f \in Files, SaveWaits(f) PROVE SaveWaits(f)'
  BY <1>1, <1>2 DEF SaveWaits
<1>3. ~e.unlink => SaveWaits(e.file)'
  BY <1>1 DEF SaveWaits
<1> QED BY <1>1, <1>2, <1>3

\* The update at the head begins.
LEMMA QueueShrinks ==
  ASSUME queue \in Seq(Update), queue # <<>>, queue' = Tail(queue)
  PROVE  /\ queue' \in Seq(Update) /\ Head(queue) \in Update /\ Head(queue) = queue[1]
         /\ Len(queue) \in Nat /\ Len(queue') = Len(queue) - 1
         /\ \A i \in 1..Len(queue') : queue'[i] = queue[i + 1]
         /\ \A f \in Files : SaveWaits(f) =>
              SaveWaits(f)' \/ (f = Head(queue).file /\ ~Head(queue).unlink)
<1>1. /\ queue' \in Seq(Update) /\ Head(queue) \in Update /\ Head(queue) = queue[1]
      /\ Len(queue) \in Nat /\ Len(queue') = Len(queue) - 1
      /\ \A i \in 1..Len(queue') : queue'[i] = queue[i + 1]
  OBVIOUS
<1>2. ASSUME NEW f \in Files, SaveWaits(f), ~(f = Head(queue).file /\ ~Head(queue).unlink)
      PROVE  SaveWaits(f)'
  <2>1. PICK i \in 1..Len(queue) : queue[i].file = f /\ ~queue[i].unlink
    BY <1>2 DEF SaveWaits
  <2>2. i # 1
    BY <1>1, <1>2, <2>1
  <2>3. i - 1 \in 1..Len(queue') /\ queue'[i - 1] = queue[i]
    BY <1>1, <2>1, <2>2
  <2> QED BY <2>1, <2>3 DEF SaveWaits
<1> QED BY <1>1, <1>2

\* A deletion that begins leaves a queue that still ends with the save.
LEMMA HeadOutdated ==
  ASSUME queue \in Seq(Update), queue # <<>>, queue' = Tail(queue), UnlinkOutdated,
         \A f \in Files : Noticed(f)' => Noticed(f)
  PROVE  /\ UnlinkOutdated'
         /\ \A f \in Files :
              Noticed(f) /\ f = Head(queue).file /\ Head(queue).unlink => SaveWaits(f)'
<1>1. /\ Head(queue) = queue[1] /\ Len(queue) \in Nat /\ Len(queue') = Len(queue) - 1
      /\ \A i \in 1..Len(queue') : queue'[i] = queue[i + 1]
  BY QueueShrinks
<1>2. ASSUME NEW f \in Files, Noticed(f),
             NEW i \in 1..Len(queue), queue[i].file = f, queue[i].unlink
      PROVE  \E j \in i..Len(queue') : queue'[j].file = f /\ ~queue'[j].unlink
  <2>1. PICK j \in i + 1 .. Len(queue) : queue[j].file = f /\ ~queue[j].unlink
    BY <1>2 DEF UnlinkOutdated
  <2>2. j - 1 \in i..Len(queue') /\ queue'[j - 1] = queue[j]
    BY <1>1, <2>1
  <2> QED BY <2>1, <2>2
<1>3. UnlinkOutdated'
  <2> SUFFICES ASSUME NEW f \in Files, Noticed(f)', NEW i \in 1..Len(queue'),
                      queue'[i].file = f, queue'[i].unlink
               PROVE  \E j \in i + 1 .. Len(queue') : queue'[j].file = f /\ ~queue'[j].unlink
    BY DEF UnlinkOutdated
  <2>1. Noticed(f)
    OBVIOUS
  <2>2. i + 1 \in 1..Len(queue) /\ queue[i + 1] = queue'[i]
    BY <1>1
  <2> QED BY <1>2, <2>1, <2>2
<1>4. ASSUME NEW f \in Files, Noticed(f), f = Head(queue).file, Head(queue).unlink
      PROVE  SaveWaits(f)'
  <2>1. 1 \in 1..Len(queue) /\ queue[1].file = f /\ queue[1].unlink
    BY <1>1, <1>4
  <2>2. \E j \in 1..Len(queue') : queue'[j].file = f /\ ~queue'[j].unlink
    BY <1>2, <1>4, <2>1
  <2> QED BY <2>2 DEF SaveWaits
<1> QED BY <1>3, <1>4
-----------------------------------------------------------------------------
(* Types.                                                                  *)

LEMMA InitType == Init => TypeOK
<1> SUFFICES ASSUME Init PROVE TypeOK
  OBVIOUS
<1>1. disk \in [Files -> Disk] /\ unloaded \in SUBSET Files
  BY DEF Init
<1>2. edits \in 0..MaxEdits
  BY LoaderAssumption DEF Init
<1>3. queue \in Seq([file : Files, unlink : BOOLEAN])
  BY DEF Init
<1>4. dependents \in Graph
  BY DEF Init, Graph, NoDependents
<1>5. /\ sourceRoutes \in [Files -> Module \cup {None}] /\ routes \in [Files -> Module \cup {None}]
      /\ sourceMiddlewares \in [Middlewares -> Contents \cup {None}]
      /\ middlewares \in [Middlewares -> Contents \cup {None}]
      /\ contextFactories \in [ContextFiles -> Contents \cup {None}]
      /\ reloading \in [ContextFiles -> Disk \cup {None}]
  BY DEF Init
<1>6. watching \in BOOLEAN /\ storeActive \in BOOLEAN
  BY Zenon DEF Init
<1> QED BY <1>1, <1>2, <1>3, <1>4, <1>5, <1>6 DEF Init, TypeOK

LEMMA TypeStep == TypeOK /\ [Next]_vars => TypeOK'
<1> SUFFICES ASSUME TypeOK, [Next]_vars PROVE TypeOK'
  OBVIOUS
<1> USE DEF TypeOK, files, update, sources, served, store, history
<1>1. ASSUME NEW f \in Files, Edit(f) PROVE TypeOK'
  <2>1. PICK c \in Allowed[f] \cup {Absent} : disk' = [disk EXCEPT ![f] = c]
    BY <1>1 DEF Edit
  <2>2. c \in Disk
    BY LoaderAssumption DEF Disk
  <2>3. disk' \in [Files -> Disk]
    BY <2>1, <2>2
  <2>4. edits' \in 0..MaxEdits
    BY <1>1, LoaderAssumption DEF Edit
  <2> QED BY <1>1, <2>3, <2>4 DEF Edit
<1>2. ASSUME NEW f \in Files, Load(f) PROVE TypeOK'
  <2>1. disk[f] \in Disk /\ Register(f, disk[f], ~Fails(disk[f]))
    BY <1>2 DEF Load
  <2>2. /\ sourceRoutes' \in [Files -> Module \cup {None}]
        /\ routes' \in [Files -> Module \cup {None}]
        /\ sourceMiddlewares' \in [Middlewares -> Contents \cup {None}]
        /\ middlewares' \in [Middlewares -> Contents \cup {None}]
        /\ contextFactories' \in [ContextFiles -> Contents \cup {None}]
    BY <2>1, Registered
  <2>3. dependents' \in Graph
    BY <1>2, ReindexType DEF Load
  <2> QED BY <1>2, <2>2, <2>3 DEF Load
<1>3. CASE Watch
  BY <1>3 DEF Watch
<1>4. ASSUME NEW f \in Files, Report(f) PROVE TypeOK'
  <2>1. [file |-> f, unlink |-> disk[f] = Absent] \in [file : Files, unlink : BOOLEAN]
    BY Zenon
  <2>2. queue' \in Seq([file : Files, unlink : BOOLEAN])
    BY <1>4, <2>1, QueueGrows DEF Report, Update
  <2>3. stale' \in SUBSET (Files \X Files)
    BY <1>4 DEF Report, Importers, DependentsOf
  <2> QED BY <1>4, <2>2, <2>3 DEF Report
<1>5. CASE Unlink
  <2>1. /\ queue' \in Seq([file : Files, unlink : BOOLEAN])
        /\ Head(queue) \in [file : Files, unlink : BOOLEAN]
    BY <1>5, QueueShrinks DEF Unlink, Update
  <2>2. /\ sourceRoutes' \in [Files -> Module \cup {None}]
        /\ routes' \in [Files -> Module \cup {None}]
        /\ sourceMiddlewares' \in [Middlewares -> Contents \cup {None}]
        /\ contextFactories' \in [ContextFiles -> Contents \cup {None}]
    BY <1>5, <2>1 DEF Unlink
  <2> QED BY <1>5, <2>1, <2>2 DEF Unlink
<1>6. CASE Begin
  <2>1. /\ queue' \in Seq([file : Files, unlink : BOOLEAN])
        /\ Head(queue) \in [file : Files, unlink : BOOLEAN]
    BY <1>6, QueueShrinks DEF Begin, Update
  <2>2. first' \in Files /\ rest' \in SUBSET Files
    BY <1>6, <2>1 DEF Begin, Dependents, DependentsOf
  <2> QED BY <1>6, <2>1, <2>2 DEF Begin
<1>7. ASSUME NEW f \in Files, Import(f) PROVE TypeOK'
  <2>1. dependents' \in Graph
    BY <1>7, ReindexType DEF Import
  <2>2. importing' \in [file : Files, content : Disk] /\ stale' \in SUBSET (Files \X Files)
    BY <1>7 DEF Import
  <2>3. first' \in Files \cup {None} /\ rest' \in SUBSET Files
    BY <1>7 DEF Import
  <2> QED BY <1>7, <2>1, <2>2, <2>3 DEF Import
<1>8. CASE Loaded
  <2>1. importing.file \in Files /\ importing.content \in Disk
    BY <1>8 DEF Loaded
  <2>2. /\ Register(importing.file, importing.content, Constructs(importing.content))
        /\ Constructs(importing.content) \in BOOLEAN
        /\ Constructs(importing.content) => ~Fails(importing.content)
    BY <1>8 DEF Loaded, Constructs
  <2>3. /\ sourceRoutes' \in [Files -> Module \cup {None}]
        /\ routes' \in [Files -> Module \cup {None}]
        /\ sourceMiddlewares' \in [Middlewares -> Contents \cup {None}]
        /\ middlewares' \in [Middlewares -> Contents \cup {None}]
        /\ contextFactories' \in [ContextFiles -> Contents \cup {None}]
    BY <2>1, <2>2, Registered
  <2> QED BY <1>8, <2>3 DEF Loaded
<1>9. CASE ActivateStore
  <2> DEFINE found == {f \in ContextFiles : disk[f] # Absent}
  <2>1. found \subseteq Files
    BY LoaderAssumption
  <2>2. dependents' \in Graph
    BY <1>9, <2>1 DEF ActivateStore, Graph
  <2>3. reloading' \in [ContextFiles -> Disk \cup {None}]
    BY <1>9, <2>1 DEF ActivateStore
  <2>4. stale' \in SUBSET (Files \X Files)
    BY <1>9 DEF ActivateStore
  <2> QED BY <1>9, <2>2, <2>3, <2>4 DEF ActivateStore
<1>10. ASSUME NEW f \in ContextFiles, ReloadContext(f) PROVE TypeOK'
  <2>1. f \in Files /\ reloading[f] \in Disk
    BY <1>10, LoaderAssumption DEF ReloadContext
  <2>2. /\ Register(f, reloading[f], Constructs(reloading[f]))
        /\ Constructs(reloading[f]) \in BOOLEAN
        /\ Constructs(reloading[f]) => ~Fails(reloading[f])
    BY <1>10 DEF ReloadContext, Constructs
  <2>3. /\ sourceRoutes' \in [Files -> Module \cup {None}]
        /\ routes' \in [Files -> Module \cup {None}]
        /\ sourceMiddlewares' \in [Middlewares -> Contents \cup {None}]
        /\ middlewares' \in [Middlewares -> Contents \cup {None}]
        /\ contextFactories' \in [ContextFiles -> Contents \cup {None}]
    BY <2>1, <2>2, Registered
  <2>4. reloading' \in [ContextFiles -> Disk \cup {None}]
    BY <1>10 DEF ReloadContext
  <2> QED BY <1>10, <2>3, <2>4 DEF ReloadContext
<1>11. ASSUME NEW f \in Files, AddOverride(f) PROVE TypeOK'
  BY <1>11 DEF AddOverride, Module
<1>12. CASE ResetRoutes
  BY <1>12 DEF ResetRoutes
<1>13. CASE UNCHANGED vars
  BY <1>13 DEF vars
<1> QED
  BY <1>1, <1>2, <1>3, <1>4, <1>5, <1>6, <1>7, <1>8, <1>9, <1>10, <1>11, <1>12, <1>13 DEF Next

\* The variables of the loader keep their types, for any files and imports.
THEOREM LoaderTypeCorrect == Spec => []TypeOK
  BY InitType, TypeStep, PTL DEF Spec

-----------------------------------------------------------------------------
(* Saves are followed.                                                     *)

\* No step loses f while it is coming, unless it imports what f holds.
Followed(f) == Noticed(f)' => \/ Coming(f)'
                              \/ Noticed(f) /\ ~Coming(f) /\ disk'[f] = disk[f]
                              \/ Load(f)
                              \/ Loaded /\ importing = [file |-> f, content |-> disk[f]]

SInv == LoadedFirst /\ UnlinkOutdated /\ ImportOutdated

LEMMA InitSInv == Init => SInv
  BY DEF Init, SInv, LoadedFirst, Idle, UnlinkOutdated, ImportOutdated

(***************************************************************************)
(* Steps that leave the queue, the files and the import as they are.       *)
(***************************************************************************)
LEMMA Untouched ==
  ASSUME SInv, UNCHANGED <<disk, unreported, unloaded, missed, watching, queue, first, importing>>,
         Idle => Idle'
  PROVE  SInv' /\ \A f \in Files : Followed(f)
<1>1. \A f : (Noticed(f)' <=> Noticed(f)) /\ (SaveWaits(f)' <=> SaveWaits(f))
             /\ (Coming(f)' <=> Coming(f))
  BY DEF Noticed, SaveWaits, Coming
<1>2. LoadedFirst'
  BY DEF SInv, LoadedFirst
<1>3. UnlinkOutdated'
  BY <1>1 DEF SInv, UnlinkOutdated
<1>4. ImportOutdated'
  BY <1>1 DEF SInv, ImportOutdated
<1> QED BY <1>1, <1>2, <1>3, <1>4 DEF SInv, Followed

LEMMA SavesFollowed ==
  ASSUME TypeOK, SInv, [Next]_vars
  PROVE  SInv' /\ \A f \in Files : Followed(f)
<1> USE DEF files, update, sources, served, store, history
<1>0. queue \in Seq(Update) /\ Update = [file : Files, unlink : BOOLEAN]
  BY DEF TypeOK, Update
<1>1. ASSUME NEW g \in Files, Edit(g) PROVE SInv' /\ \A f \in Files : Followed(f)
  <2>1. /\ UNCHANGED <<unloaded, watching, queue, first, rest, importing>>
        /\ \A f \in Files : f # g => disk'[f] = disk[f]
        /\ unreported' = IF watching THEN unreported \cup {g} ELSE unreported
        /\ missed' = IF watching \/ g \in unloaded THEN missed ELSE missed \cup {g}
    BY <1>1 DEF Edit, TypeOK
  <2>2. ~Noticed(g)'
    BY <2>1 DEF Noticed
  <2>3. \A f \in Files : f # g => /\ Noticed(f)' <=> Noticed(f)
                                  /\ SaveWaits(f)' <=> SaveWaits(f)
                                  /\ Coming(f)' <=> Coming(f)
    BY <2>1 DEF Noticed, SaveWaits, Coming
  <2>4. LoadedFirst'
    BY <2>1 DEF SInv, LoadedFirst, Idle
  <2>5. UnlinkOutdated'
    BY <2>1, <2>2, <2>3 DEF SInv, UnlinkOutdated
  <2>6. ImportOutdated'
    BY <2>1, <2>2, <2>3 DEF SInv, ImportOutdated
  <2> QED BY <2>1, <2>2, <2>3, <2>4, <2>5, <2>6 DEF SInv, Followed
<1>2. ASSUME NEW g \in Files, Load(g) PROVE SInv' /\ \A f \in Files : Followed(f)
  <2>1. /\ UNCHANGED <<disk, unreported, watching, queue, first, rest, importing>>
        /\ \A f \in Files : f # g /\ Noticed(f)' => Noticed(f)
    BY <1>2 DEF Load, Noticed
  <2>2. ~watching /\ queue = <<>> /\ Idle
    BY <1>2 DEF SInv, LoadedFirst, Load
  <2>3. LoadedFirst' /\ UnlinkOutdated' /\ ImportOutdated'
    BY <2>1, <2>2 DEF SInv, LoadedFirst, UnlinkOutdated, ImportOutdated, Idle
  <2>4. \A f \in Files : Coming(f)' <=> Coming(f)
    BY <2>1 DEF Coming, SaveWaits
  <2> QED BY <1>2, <2>1, <2>3, <2>4 DEF SInv, Followed
<1>3. CASE Watch
  <2>1. /\ UNCHANGED <<disk, unreported, unloaded, missed, queue, first, rest, importing>>
        /\ watching' /\ unloaded = {}
    BY <1>3 DEF Watch
  <2>2. \A f \in Files : /\ Noticed(f)' <=> Noticed(f)
                         /\ SaveWaits(f)' <=> SaveWaits(f)
                         /\ Coming(f)' <=> Coming(f)
    BY <2>1 DEF Noticed, SaveWaits, Coming
  <2>3. LoadedFirst' /\ UnlinkOutdated'
    BY <2>1, <2>2 DEF SInv, LoadedFirst, UnlinkOutdated
  <2>4. ImportOutdated'
    BY <2>1, <2>2 DEF SInv, ImportOutdated
  <2> QED BY <2>1, <2>2, <2>3, <2>4 DEF SInv, Followed
<1>4. ASSUME NEW g \in Files, Report(g) PROVE SInv' /\ \A f \in Files : Followed(f)
  <2> DEFINE e == [file |-> g, unlink |-> disk[g] = Absent]
  <2>1. /\ UNCHANGED <<disk, unloaded, missed, watching, first, rest, importing>>
        /\ g \in unreported /\ unreported' = unreported \ {g}
        /\ queue' = Append(queue, e)
    BY <1>4 DEF Report
  <2>2. e \in Update /\ e.file = g /\ (e.unlink <=> disk[g] = Absent)
    BY Zenon DEF Update
  <2> HIDE DEF e
  <2>3. /\ Len(queue) \in Nat /\ Len(queue') = Len(queue) + 1 /\ queue'[Len(queue) + 1] = e
        /\ \A i \in 1..Len(queue) : queue'[i] = queue[i]
        /\ \A f \in Files : SaveWaits(f) => SaveWaits(f)'
        /\ ~e.unlink => SaveWaits(g)'
    BY <1>0, <2>1, <2>2, QueueGrows
  <2>4. /\ Noticed(g)' => ~e.unlink
        /\ \A f \in Files : f # g /\ Noticed(f)' => Noticed(f)
    BY <2>1, <2>2 DEF Noticed
  <2>5. LoadedFirst'
    BY <2>1 DEF SInv, LoadedFirst, Idle
  <2>6. UnlinkOutdated'
    <3> SUFFICES ASSUME NEW f \in Files, Noticed(f)', NEW i \in 1..Len(queue'),
                        queue'[i].file = f, queue'[i].unlink
                 PROVE  \E j \in i + 1 .. Len(queue') : queue'[j].file = f /\ ~queue'[j].unlink
      BY DEF UnlinkOutdated
    <3>1. i \in 1..Len(queue)
      BY <2>2, <2>3, <2>4
    <3>2. CASE f = g
      <4>1. Len(queue) + 1 \in i + 1 .. Len(queue')
        BY <2>3, <3>1
      <4> QED BY <2>2, <2>3, <2>4, <3>2, <4>1
    <3>3. CASE f # g
      <4>1. PICK j \in i + 1 .. Len(queue) : queue[j].file = f /\ ~queue[j].unlink
        BY <2>3, <2>4, <3>1, <3>3 DEF SInv, UnlinkOutdated
      <4>2. j \in i + 1 .. Len(queue') /\ queue'[j] = queue[j]
        BY <2>3, <3>1, <4>1
      <4> QED BY <4>1, <4>2
    <3> QED BY <3>2, <3>3
  <2>7. ImportOutdated'
    BY <2>1, <2>3, <2>4 DEF SInv, ImportOutdated
  <2>8. \A f \in Files : Coming(f) => Coming(f)'
    BY <2>1, <2>3 DEF Coming
  <2>9. Noticed(g)' => Coming(g)'
    BY <2>3, <2>4 DEF Coming
  <2> QED BY <2>1, <2>4, <2>5, <2>6, <2>7, <2>8, <2>9 DEF SInv, Followed
<1>5. CASE Unlink
  <2>1. /\ UNCHANGED <<disk, unreported, unloaded, missed, watching, first, rest, importing>>
        /\ queue # <<>> /\ queue' = Tail(queue) /\ Head(queue).unlink
        /\ Idle
    BY <1>5 DEF Unlink
  <2>2. \A f \in Files : SaveWaits(f) => SaveWaits(f)'
    BY <1>0, <2>1, QueueShrinks
  <2>3. \A f : Noticed(f)' <=> Noticed(f)
    BY <2>1 DEF Noticed
  <2>4. UnlinkOutdated'
    BY <1>0, <2>1, <2>3, HeadOutdated DEF SInv
  <2>5. LoadedFirst' /\ ImportOutdated'
    BY <2>1 DEF SInv, LoadedFirst, ImportOutdated, Idle
  <2>6. \A f \in Files : Coming(f) => Coming(f)'
    BY <2>1, <2>2 DEF Coming
  <2> QED BY <2>1, <2>3, <2>4, <2>5, <2>6 DEF SInv, Followed
<1>6. CASE Begin
  <2>1. /\ UNCHANGED <<disk, unreported, unloaded, missed, watching, importing>>
        /\ queue # <<>> /\ queue' = Tail(queue) /\ first' = Head(queue).file
        /\ Idle
    BY <1>6 DEF Begin
  <2>2. \A f \in Files : SaveWaits(f) => SaveWaits(f)' \/ first' = f
    BY <1>0, <2>1, QueueShrinks
  <2>3. \A f : Noticed(f)' <=> Noticed(f)
    BY <2>1 DEF Noticed
  <2>4. UnlinkOutdated'
    BY <1>0, <2>1, <2>3, HeadOutdated DEF SInv
  <2>5. LoadedFirst' /\ ImportOutdated'
    BY <2>1 DEF SInv, LoadedFirst, ImportOutdated, Idle
  <2>6. \A f \in Files : Coming(f) => Coming(f)'
    BY <2>1, <2>2, NoneAssumption DEF Coming, Idle
  <2> QED BY <2>1, <2>3, <2>4, <2>5, <2>6 DEF SInv, Followed
<1>7. ASSUME NEW g \in Files, Import(g) PROVE SInv' /\ \A f \in Files : Followed(f)
  <2>1. /\ UNCHANGED <<disk, unreported, unloaded, missed, watching, queue>>
        /\ importing = None /\ importing' = [file |-> g, content |-> disk[g]]
        /\ first \in {g, None} /\ (first = g \/ g \in rest)
    BY <1>7 DEF Import
  <2>2. \A f : (Noticed(f)' <=> Noticed(f)) /\ (SaveWaits(f)' <=> SaveWaits(f))
    BY <2>1 DEF Noticed, SaveWaits
  <2>3. ~Idle
    BY <2>1, NoneAssumption DEF Idle
  <2>4. LoadedFirst' /\ UnlinkOutdated'
    BY <2>1, <2>2, <2>3 DEF SInv, LoadedFirst, UnlinkOutdated
  <2>5. ImportOutdated'
    BY <2>1 DEF ImportOutdated
  <2>6. \A f \in Files : f # g /\ Coming(f) => Coming(f)'
    <3> SUFFICES ASSUME NEW f \in Files, f # g, Coming(f) PROVE SaveWaits(f)
      BY <2>2 DEF Coming
    <3>1. [file |-> f, content |-> disk[f]] # None
      BY NoneAssumption DEF TypeOK, Disk
    <3> QED BY <2>1, <3>1, NoneAssumption DEF Coming
  <2>7. Coming(g)'
    BY <2>1 DEF Coming
  <2> QED BY <2>1, <2>2, <2>4, <2>5, <2>6, <2>7 DEF SInv, Followed
<1>8. CASE Loaded
  <2>1. /\ UNCHANGED <<disk, unreported, unloaded, missed, watching, queue, first>>
        /\ importing # None /\ importing' = None
    BY <1>8 DEF Loaded
  <2>2. \A f : (Noticed(f)' <=> Noticed(f)) /\ (SaveWaits(f)' <=> SaveWaits(f))
    BY <2>1 DEF Noticed, SaveWaits
  <2>3. LoadedFirst' /\ UnlinkOutdated' /\ ImportOutdated'
    BY <2>1, <2>2 DEF SInv, LoadedFirst, UnlinkOutdated, ImportOutdated, Idle
  <2>4. ASSUME NEW f \in Files, Coming(f), importing # [file |-> f, content |-> disk[f]]
        PROVE  Coming(f)'
    BY <2>1, <2>2, <2>4 DEF Coming
  <2> QED BY <1>8, <2>1, <2>2, <2>3, <2>4 DEF SInv, Followed
<1>9. CASE ActivateStore
  BY <1>9, Untouched DEF ActivateStore, Idle
<1>10. ASSUME NEW g \in ContextFiles, ReloadContext(g) PROVE SInv' /\ \A f \in Files : Followed(f)
  BY <1>10, Untouched DEF ReloadContext, Idle
<1>11. ASSUME NEW g \in Files, AddOverride(g) PROVE SInv' /\ \A f \in Files : Followed(f)
  BY <1>11, Untouched DEF AddOverride, Idle
<1>12. CASE ResetRoutes
  BY <1>12, Untouched DEF ResetRoutes, Idle
<1>13. CASE UNCHANGED vars
  BY <1>13, Untouched DEF vars, Idle
<1> QED
  BY <1>1, <1>2, <1>3, <1>4, <1>5, <1>6, <1>7, <1>8, <1>9, <1>10, <1>11, <1>12, <1>13 DEF Next

-----------------------------------------------------------------------------
(* What was followed is served.                                            *)

\* A file that is not coming was not being imported.
LEMMA NotImported ==
  ASSUME TypeOK, SInv, NEW f \in Files, Noticed(f), ~Coming(f)
  PROVE  ~(importing # None /\ importing.file = f)
<1>1. importing # [file |-> f, content |-> disk[f]] /\ ~SaveWaits(f)
  BY DEF Coming
<1> QED BY <1>1 DEF TypeOK, SInv, ImportOutdated

\* Nor is a deletion of it the next update.
LEMMA NotUnlinked ==
  ASSUME TypeOK, SInv, Unlink, NEW f \in Files, Noticed(f), ~Coming(f)
  PROVE  Head(queue).file # f
<1>1. /\ queue \in Seq(Update) /\ queue # <<>> /\ queue' = Tail(queue) /\ Head(queue).unlink
      /\ \A g \in Files : Noticed(g)' => Noticed(g)
  BY DEF TypeOK, Update, Unlink, Noticed, files, history
<1>2. ASSUME Head(queue).file = f PROVE SaveWaits(f)
  <2>1. Head(queue) = queue[1] /\ Len(queue) \in Nat /\ 1 \in 1..Len(queue)
    BY <1>1
  <2>2. \E j \in 2..Len(queue) : queue[j].file = f /\ ~queue[j].unlink
    BY <1>1, <1>2, <2>1 DEF SInv, UnlinkOutdated
  <2> QED BY <2>1, <2>2 DEF SaveWaits
<1> QED BY <1>2 DEF Coming

\* What is served of a file that is not a context is kept, reset or replaced.
RouteKept(f) ==
  /\ sourceRoutes'[f] = sourceRoutes[f]
  /\ routes'[f] \in {routes[f], sourceRoutes[f], Override}
  /\ f \in Middlewares => /\ sourceMiddlewares'[f] = sourceMiddlewares[f]
                          /\ middlewares'[f] \in {middlewares[f], sourceMiddlewares[f]}

LEMMA RoutesStep ==
  ASSUME TypeOK, SInv, RoutesComing, [Next]_vars
  PROVE  RoutesComing'
<1> SUFFICES ASSUME NEW f \in Files \ ContextFiles, Noticed(f)', ~Coming(f)'
             PROVE  RouteApplied(f)'
  BY DEF RoutesComing
<1> USE DEF files, update, sources, served, store, history
<1>1. CASE Load(f)
  <2>1. disk[f] \in Disk /\ Register(f, disk[f], ~Fails(disk[f])) /\ UNCHANGED disk
    BY <1>1 DEF Load, TypeOK
  <2>2. /\ sourceRoutes'[f] = Imported(f, disk[f]) /\ routes'[f] = Imported(f, disk[f])
        /\ f \in Middlewares /\ ~Fails(disk[f]) =>
             sourceMiddlewares'[f] = disk[f] /\ middlewares'[f] = disk[f]
    BY <2>1, Registered
  <2> QED BY <2>1, <2>2 DEF RouteApplied
<1>2. CASE Loaded /\ importing = [file |-> f, content |-> disk[f]]
  <2>1. /\ disk[f] \in Disk /\ Register(f, disk[f], Constructs(disk[f])) /\ UNCHANGED disk
        /\ Constructs(disk[f]) \in BOOLEAN /\ (Constructs(disk[f]) => ~Fails(disk[f]))
    BY <1>2 DEF Loaded, TypeOK, Constructs
  <2>2. /\ sourceRoutes'[f] = Imported(f, disk[f]) /\ routes'[f] = Imported(f, disk[f])
        /\ f \in Middlewares /\ ~Fails(disk[f]) =>
             sourceMiddlewares'[f] = disk[f] /\ middlewares'[f] = disk[f]
    BY <2>1, Registered
  <2> QED BY <2>1, <2>2 DEF RouteApplied
<1>3. CASE ~Load(f) /\ ~(Loaded /\ importing = [file |-> f, content |-> disk[f]])
  <2>1. Noticed(f) /\ ~Coming(f) /\ disk'[f] = disk[f]
    BY <1>3, SavesFollowed DEF Followed
  <2>2. RouteApplied(f)
    BY <2>1 DEF RoutesComing
  <2>3. RouteKept(f)
    <3>1. ASSUME NEW g \in Files, Load(g) PROVE RouteKept(f)
      <4>1. g # f /\ disk[g] \in Disk /\ Register(g, disk[g], ~Fails(disk[g]))
        BY <1>3, <3>1 DEF Load, TypeOK
      <4> QED BY <4>1, Registered, ZenonT(40) DEF RouteKept
    <3>2. CASE Unlink
      <4>1. Head(queue).file # f
        BY <2>1, <3>2, NotUnlinked
      <4> QED BY <3>2, <4>1 DEF Unlink, RouteKept, TypeOK
    <3>3. CASE Loaded
      <4>1. /\ importing # None /\ importing.file \in Files /\ importing.content \in Disk
            /\ Register(importing.file, importing.content, Constructs(importing.content))
            /\ Constructs(importing.content) \in BOOLEAN
            /\ Constructs(importing.content) => ~Fails(importing.content)
        BY <3>3 DEF Loaded, TypeOK, Constructs
      <4>2. importing.file # f
        BY <2>1, <4>1, NotImported
      <4> QED BY <4>1, <4>2, Registered DEF RouteKept
    <3>4. ASSUME NEW g \in ContextFiles, ReloadContext(g) PROVE RouteKept(f)
      <4>1. /\ g \in Files /\ g # f /\ reloading[g] \in Disk
            /\ Register(g, reloading[g], Constructs(reloading[g]))
            /\ Constructs(reloading[g]) \in BOOLEAN
            /\ Constructs(reloading[g]) => ~Fails(reloading[g])
        BY <3>4, LoaderAssumption DEF ReloadContext, TypeOK, Constructs
      <4> QED BY <4>1, Registered DEF RouteKept
    <3>5. ASSUME NEW g \in Files, AddOverride(g) PROVE RouteKept(f)
      BY <3>5 DEF AddOverride, RouteKept, TypeOK
    <3>6. CASE ResetRoutes
      BY <3>6 DEF ResetRoutes, RouteKept
    <3>7. ASSUME UNCHANGED <<sources, served>> PROVE RouteKept(f)
      BY <3>7 DEF RouteKept
    <3>8. ASSUME NEW g \in Files, Edit(g) \/ Report(g) \/ Import(g) PROVE RouteKept(f)
      BY <3>7, <3>8 DEF Edit, Report, Import
    <3>9. ASSUME Watch \/ Begin \/ ActivateStore \/ UNCHANGED vars PROVE RouteKept(f)
      BY <3>7, <3>9 DEF Watch, Begin, ActivateStore, vars
    <3> QED BY <3>1, <3>2, <3>3, <3>4, <3>5, <3>6, <3>8, <3>9 DEF Next
  <2> QED BY <2>1, <2>2, <2>3 DEF RouteApplied, RouteKept
<1> QED BY <1>1, <1>2, <1>3

(***************************************************************************)
(* Contexts need that no store appears while the simulator runs:           *)
(* reloadContexts() is not ordered with the updates of the loader.         *)
(***************************************************************************)
LEMMA ContextsStep ==
  ASSUME TypeOK, SInv, NotReloading, ContextsComing, ~StoreMayActivate, [Next]_vars
  PROVE  NotReloading' /\ ContextsComing'
<1> USE DEF files, update, sources, served, store, history
<1>1. ~ActivateStore /\ \A g \in ContextFiles : ~ReloadContext(g)
  BY DEF ActivateStore, ReloadContext, NotReloading
<1>2. UNCHANGED reloading
  BY <1>1 DEF Next, Edit, Load, Report, Import, AddOverride, Watch, Unlink, Begin, Loaded,
              ResetRoutes, vars
<1>3. SUFFICES ASSUME NEW f \in ContextFiles, Noticed(f)', Constructs(disk'[f]), ~Coming(f)'
               PROVE  contextFactories'[f] = disk'[f]
  BY <1>2 DEF NotReloading, ContextsComing, Constructs, Fails
<1>4. f \in Files
  BY LoaderAssumption
<1>5. CASE Load(f)
  <2>1. disk[f] \in Disk /\ Register(f, disk[f], ~Fails(disk[f])) /\ UNCHANGED disk
    BY <1>4, <1>5 DEF Load, TypeOK
  <2>2. ~Fails(disk[f])
    BY <1>3, <2>1 DEF Constructs
  <2> QED BY <1>4, <2>1, <2>2, Registered
<1>6. CASE Loaded /\ importing = [file |-> f, content |-> disk[f]]
  <2>1. disk[f] \in Disk /\ Register(f, disk[f], Constructs(disk[f])) /\ UNCHANGED disk
    BY <1>4, <1>6 DEF Loaded, TypeOK
  <2>2. Constructs(disk[f]) /\ ~Fails(disk[f])
    BY <1>3, <2>1 DEF Constructs
  <2> QED BY <1>4, <2>1, <2>2, Registered
<1>7. CASE ~Load(f) /\ ~(Loaded /\ importing = [file |-> f, content |-> disk[f]])
  <2>1. Noticed(f) /\ ~Coming(f) /\ disk'[f] = disk[f]
    BY <1>3, <1>4, <1>7, SavesFollowed DEF Followed
  <2>2. contextFactories[f] = disk[f]
    BY <1>3, <2>1 DEF ContextsComing
  <2>3. contextFactories'[f] = contextFactories[f]
    <3>1. ASSUME NEW g \in Files, Load(g) PROVE contextFactories'[f] = contextFactories[f]
      <4>1. g # f /\ disk[g] \in Disk /\ Register(g, disk[g], ~Fails(disk[g]))
        BY <1>7, <3>1 DEF Load, TypeOK
      <4> QED BY <4>1, Registered
    <3>2. CASE Unlink
      <4>1. Head(queue).file # f
        BY <1>4, <2>1, <3>2, NotUnlinked
      <4> QED BY <3>2, <4>1 DEF Unlink
    <3>3. CASE Loaded
      <4>1. /\ importing # None /\ importing.file \in Files /\ importing.content \in Disk
            /\ Register(importing.file, importing.content, Constructs(importing.content))
            /\ Constructs(importing.content) \in BOOLEAN
            /\ Constructs(importing.content) => ~Fails(importing.content)
        BY <3>3 DEF Loaded, TypeOK, Constructs
      <4>2. importing.file # f
        BY <1>4, <2>1, <4>1, NotImported
      <4> QED BY <4>1, <4>2, Registered
    <3>4. ASSUME UNCHANGED contextFactories PROVE contextFactories'[f] = contextFactories[f]
      BY <3>4
    <3>5. ASSUME NEW g \in Files, Edit(g) \/ Report(g) \/ Import(g) \/ AddOverride(g)
          PROVE  contextFactories'[f] = contextFactories[f]
      BY <3>4, <3>5 DEF Edit, Report, Import, AddOverride
    <3>6. ASSUME Watch \/ Begin \/ ResetRoutes \/ UNCHANGED vars
          PROVE  contextFactories'[f] = contextFactories[f]
      BY <3>4, <3>6 DEF Watch, Begin, ResetRoutes, vars
    <3> QED BY <1>1, <3>1, <3>2, <3>3, <3>5, <3>6 DEF Next
  <2> QED BY <2>1, <2>2, <2>3
<1> QED BY <1>5, <1>6, <1>7

-----------------------------------------------------------------------------
(* Theorems.                                                               *)

RInv == TypeOK /\ SInv /\ RoutesComing

CInv == TypeOK /\ SInv /\ NotReloading /\ ContextsComing

LEMMA InitFollowed == Init => RoutesComing /\ ContextsComing /\ NotReloading
<1> SUFFICES ASSUME Init PROVE RoutesComing /\ ContextsComing /\ NotReloading
  OBVIOUS
<1>1. \A f \in Files : ~Noticed(f)
  BY DEF Init, Noticed
<1>2. NotReloading
  BY DEF Init, NotReloading
<1> QED BY <1>1, <1>2, LoaderAssumption DEF RoutesComing, ContextsComing

\* At rest nothing is coming.
LEMMA NothingComing ==
  ASSUME TypeOK, SInv, Settled, NEW f \in Files
  PROVE  ~Coming(f) /\ (disk[f] # Absent /\ f \notin missed => Noticed(f))
<1>1. ~SaveWaits(f) /\ first = None /\ importing = None
  BY DEF Settled, Idle, SaveWaits
<1>2. [file |-> f, content |-> disk[f]] # None
  BY NoneAssumption DEF TypeOK, Disk
<1>3. unreported = {} /\ unloaded = {}
  BY DEF Settled, SInv, LoadedFirst
<1> QED BY <1>1, <1>2, <1>3, NoneAssumption DEF Coming, Noticed

(***************************************************************************)
(* Saving a route or a middleware changes what is served, and what a reset *)
(* goes back to, for any files, imports, edits and length of the queue,    *)
(* with or without a store that makes the contexts reload.                 *)
(***************************************************************************)
THEOREM SavedRoutesAreServed == Spec => []SavedRoutesServed
<1>1. Init => RInv
  BY InitType, InitSInv, InitFollowed DEF RInv
<1>2. RInv /\ [Next]_vars => RInv'
  BY TypeStep, SavesFollowed, RoutesStep DEF RInv
<1>3. RInv => SavedRoutesServed
  <2> SUFFICES ASSUME RInv, Settled, NEW f \in Files \ (ContextFiles \cup missed), disk[f] # Absent
               PROVE  /\ sourceRoutes[f] = IF Fails(disk[f]) THEN ErrorModule ELSE disk[f]
                      /\ routes[f] \in {sourceRoutes[f], Override}
                      /\ f \in Middlewares /\ ~Fails(disk[f]) => middlewares[f] = disk[f]
    BY DEF SavedRoutesServed
  <2>1. ~Coming(f) /\ Noticed(f)
    BY NothingComing DEF RInv
  <2>2. RouteApplied(f)
    BY <2>1 DEF RInv, RoutesComing
  <2> QED BY <2>2 DEF RouteApplied, Imported
<1> QED BY <1>1, <1>2, <1>3, PTL DEF Spec

(***************************************************************************)
(* A saved context is the one that new instances are made of, for any      *)
(* files and edits, when no store appears while the simulator runs.        *)
(***************************************************************************)
THEOREM SavedContextsAreUsed ==
  ASSUME ~StoreMayActivate
  PROVE  Spec => []SavedContextsUsed
<1>1. Init => CInv
  BY InitType, InitSInv, InitFollowed DEF CInv
<1>2. CInv /\ [Next]_vars => CInv'
  BY TypeStep, SavesFollowed, ContextsStep DEF CInv
<1>3. CInv => SavedContextsUsed
  <2> SUFFICES ASSUME CInv, Settled, NEW f \in ContextFiles \ missed,
                      disk[f] # Absent, Constructs(disk[f])
               PROVE  contextFactories[f] = disk[f]
    BY DEF SavedContextsUsed
  <2>1. ~Coming(f) /\ Noticed(f)
    BY NothingComing, LoaderAssumption DEF CInv
  <2> QED BY <2>1 DEF CInv, ContextsComing
<1> QED BY <1>1, <1>2, <1>3, PTL DEF Spec

-----------------------------------------------------------------------------
(***************************************************************************)
(* Dependents.  When a file changes, those who import it have to be        *)
(* imported again, and may be about to be: as dependents of this file, or  *)
(* of another on the way, whose own change was not indexed yet.  So what   *)
(* is followed is not one file but each way of imports on disk: a file     *)
(* that is stale and on no list imports the changed one only through files *)
(* that are announced (StaleFollowed), and what is not announced has its   *)
(* imports in the graph (EdgesIndexed).                                    *)
(***************************************************************************)

\* Imports of packages come after those of files: dependents behind a package
\* are not indexed.
PackagesLast ==
  \A f \in Files : \A x \in Allowed[f] : \A i \in DOMAIN Imports[x] : Imports[x][i] # Package =>
    \A j \in 1 .. i : Imports[x][j] # Package

\* The constructors of contexts return: one that throws ends its update.
NothingThrows == \A f \in ContextFiles : Allowed[f] \cap Throwing = {}

ContentsAllowed ==
  /\ \A f \in Files : disk[f] \in Allowed[f] \cup {Absent}
  /\ importing # None => importing.content \in Allowed[importing.file] \cup {Absent}

ImportsFile(f, g) == \E i \in DOMAIN ImportsOf(disk[f]) : ImportsOf(disk[f])[i] = g

\* A save of f is queued, or will be.
Announced(f) == SaveWaits(f) \/ (f \in unreported /\ disk[f] # Absent)

\* What is not about to be imported as it is on disk has its edges.
EdgesIndexed ==
  \A f \in Files \ (unloaded \cup missed) : ~Announced(f) /\ first # f =>
    \A g \in Files : ImportsFile(f, g) => f \in dependents[g]

\* The files that import g now, by ways on which nothing is announced.
QuietGraph == [g \in Files |-> {f \in Files : ImportsFile(f, g) /\ ~Announced(f)}]
QuietImporters(g) == DependentsOf(QuietGraph, g)

StaleFollowed ==
  missed = {} => \A g \in Files : SaveWaits(g) \/
    \A f \in QuietImporters(g) : <<f, g>> \in stale => first = f \/ f \in rest

DInv ==
  /\ TypeOK /\ SInv /\ ContentsAllowed /\ EdgesIndexed /\ StaleFollowed
  /\ ~watching => stale = {}

\* No file gets a content that it may not have.
LEMMA ContentsStayAllowed == TypeOK /\ ContentsAllowed /\ [Next]_vars => ContentsAllowed'
<1> SUFFICES ASSUME TypeOK, ContentsAllowed, [Next]_vars PROVE ContentsAllowed'
  OBVIOUS
<1> USE DEF files, update, sources, served, store, history
<1>1. ASSUME NEW f \in Files, Edit(f) PROVE ContentsAllowed'
  BY <1>1 DEF TypeOK, ContentsAllowed, Edit
<1>2. ASSUME NEW f \in Files, Import(f) PROVE ContentsAllowed'
  BY <1>2 DEF ContentsAllowed, Import
<1>3. ASSUME UNCHANGED disk, importing' \in {importing, None} PROVE ContentsAllowed'
  BY <1>3 DEF ContentsAllowed
<1>4. \/ UNCHANGED disk /\ importing' \in {importing, None}
      \/ \E f \in Files : Edit(f) \/ Import(f)
  BY DEF Next, Load, Report, AddOverride, Watch, Unlink, Begin, Loaded, ActivateStore,
         ReloadContext, ResetRoutes, vars
<1> QED BY <1>1, <1>2, <1>3, <1>4

\* DependentsOf() is closed under dependents, and in every set that is.
LEMMA DependentsClosed ==
  ASSUME NEW graph \in Graph, NEW path \in Files
  PROVE  /\ DependentsOf(graph, path) \in SUBSET Files
         /\ ClosedFrom(graph, path, DependentsOf(graph, path))
<1>0. DependentsOf(graph, path) \in SUBSET Files
  BY DEF DependentsOf
<1>1. ASSUME NEW f \in DependentsOf(graph, path) \cup {path}, NEW g \in graph[f]
      PROVE  g \in DependentsOf(graph, path)
  <2>1. g \in Files
    BY <1>0, <1>1 DEF Graph
  <2>2. ASSUME NEW S \in SUBSET Files, ClosedFrom(graph, path, S) PROVE g \in S
    <3>1. f \in S \cup {path}
      BY <1>1, <2>2 DEF DependentsOf
    <3> QED BY <1>1, <2>2, <3>1 DEF ClosedFrom
  <2> QED BY <2>1, <2>2 DEF DependentsOf
<1> QED BY <1>0, <1>1 DEF ClosedFrom

LEMMA DependentsLeast ==
  ASSUME NEW graph, NEW path, NEW S \in SUBSET Files, ClosedFrom(graph, path, S)
  PROVE  DependentsOf(graph, path) \subseteq S
BY DEF DependentsOf

LEMMA DependentsMonotone ==
  ASSUME NEW small \in Graph, NEW large \in Graph, NEW path \in Files,
         \A f \in Files : small[f] \subseteq large[f]
  PROVE  DependentsOf(small, path) \subseteq DependentsOf(large, path)
<1>1. ClosedFrom(small, path, DependentsOf(large, path))
  BY DependentsClosed DEF ClosedFrom
<1> QED BY <1>1, DependentsClosed, DependentsLeast

\* With packages last, every import of a file is indexed.
LEMMA AllIndexed ==
  ASSUME PackagesLast, ContentsAllowed, NEW f \in Files, NEW g \in Files, ImportsFile(f, g)
  PROVE  g \in Indexed(ImportsOf(disk[f]))
<1>1. PICK i \in DOMAIN ImportsOf(disk[f]) : ImportsOf(disk[f])[i] = g
  BY DEF ImportsFile
<1>2. disk[f] # Absent
  BY <1>1 DEF ImportsOf
<1>3. ImportsOf(disk[f]) = Imports[disk[f]] /\ disk[f] \in Allowed[f]
  BY <1>2 DEF ImportsOf, ContentsAllowed
<1>4. \A j \in 1 .. i : Imports[disk[f]][j] # Package
  BY <1>1, <1>3, GraphAssumption DEF PackagesLast
<1> QED BY <1>1, <1>3, <1>4 DEF Indexed

\* Indexing a file changes its own edges alone.
LEMMA ReindexEdges ==
  ASSUME NEW graph \in Graph, NEW f \in Files, NEW imports, NEW g \in Files
  PROVE  /\ g \in Indexed(imports) => f \in Reindex(graph, f, imports)[g]
         /\ f \in Reindex(graph, f, imports)[g] => g \in Indexed(imports)
         /\ \A h : h # f => (h \in Reindex(graph, f, imports)[g] <=> h \in graph[g])
BY DEF Reindex

LEMMA QuietIsGraph == QuietGraph \in Graph
BY DEF QuietGraph, Graph

\* A step that makes no way of imports quiet, and loses no file that an update
\* has to import.
LEMMA StaleKept ==
  ASSUME StaleFollowed, missed' = {} => missed = {},
         \A f, g \in Files : (ImportsFile(f, g) /\ ~Announced(f))' =>
           ImportsFile(f, g) /\ ~Announced(f),
         \A g \in Files : SaveWaits(g) => SaveWaits(g)',
         \A f, g \in Files : <<f, g>> \in stale' /\ ~SaveWaits(g)' =>
           /\ <<f, g>> \in stale
           /\ first = f \/ f \in rest => first' = f \/ f \in rest'
  PROVE  StaleFollowed'
<1>1. \A g \in Files : QuietGraph'[g] \subseteq QuietGraph[g]
  BY DEF QuietGraph
<1>2. QuietGraph \in Graph /\ QuietGraph' \in Graph
  BY QuietIsGraph DEF QuietGraph, Graph
<1>3. \A g \in Files : QuietImporters(g)' \subseteq QuietImporters(g)
  BY <1>1, <1>2, DependentsMonotone DEF QuietImporters
<1>4. \A g : QuietImporters(g)' \subseteq Files
  BY DEF QuietImporters, DependentsOf
<1> QED BY <1>3, <1>4 DEF StaleFollowed

\* A step that indexes what it makes due, and leaves other edges.
LEMMA EdgesKept ==
  ASSUME EdgesIndexed,
         \A f \in Files \ (unloaded' \cup missed') : ~Announced(f)' /\ first' # f =>
           \/ \A g \in Files : ImportsFile(f, g)' => f \in dependents'[g]
           \/ /\ f \notin unloaded \cup missed /\ ~Announced(f) /\ first # f
              /\ disk'[f] = disk[f]
              /\ \A g \in Files : f \in dependents[g] => f \in dependents'[g]
  PROVE  EdgesIndexed'
<1> SUFFICES ASSUME NEW f \in Files \ (unloaded' \cup missed'), ~Announced(f)', first' # f,
                    NEW g \in Files, ImportsFile(f, g)'
             PROVE  f \in dependents'[g]
  BY DEF EdgesIndexed
<1>1. CASE /\ f \notin unloaded \cup missed /\ ~Announced(f) /\ first # f
           /\ disk'[f] = disk[f]
           /\ \A k \in Files : f \in dependents[k] => f \in dependents'[k]
  <2>1. ImportsFile(f, g)
    BY <1>1 DEF ImportsFile
  <2> QED BY <1>1, <2>1 DEF EdgesIndexed
<1> QED BY <1>1

\* When the update of a save begins, all that import the file by quiet ways are
\* in the graph, and so are those that import it by ways that it made quiet.
LEMMA BeginFollowed ==
  ASSUME DInv, Begin
  PROVE  StaleFollowed' /\ EdgesIndexed'
<1> USE DEF files, update, sources, served, store, history
<1> DEFINE h == Head(queue).file
<1>1. /\ UNCHANGED <<disk, unreported, unloaded, watching, dependents, missed, stale>>
      /\ queue # <<>> /\ queue' = Tail(queue) /\ first' = h /\ rest' = Dependents(h)
      /\ first = None /\ rest = {} /\ ~Head(queue).unlink
  BY DEF Begin, Idle
<1>2. /\ h \in Files /\ queue \in Seq(Update) /\ unloaded = {}
  <2>1. queue \in Seq(Update)
    BY DEF DInv, TypeOK, Update
  <2>2. h \in Files
    BY <1>1, <2>1, QueueShrinks DEF Update
  <2> QED BY <1>1, <2>1, <2>2 DEF DInv, SInv, LoadedFirst
<1> HIDE DEF h
<1>3. /\ \A f \in Files : SaveWaits(f) => SaveWaits(f)' \/ f = h
      /\ \A f \in Files : Announced(f) => Announced(f)' \/ f = h
  BY <1>1, <1>2, QueueShrinks DEF Announced, h
<1>4. EdgesIndexed'
  BY <1>1, <1>2, <1>3, NoneAssumption, EdgesKept DEF DInv
<1>5. StaleFollowed'
  <2> SUFFICES ASSUME missed = {}, NEW g \in Files, ~SaveWaits(g)', NEW f \in QuietImporters(g)',
                      <<f, g>> \in stale
               PROVE  f = h \/ f \in rest'
    BY <1>1 DEF StaleFollowed
  <2> DEFINE S == rest' \cup {h}
  <2>1. rest' \in SUBSET Files /\ \A k \in S : dependents[k] \subseteq rest'
    BY <1>1, <1>2, DependentsClosed DEF DInv, TypeOK, Dependents, ClosedFrom
  <2>2. ASSUME NEW x \in Files, NEW k \in S, x \in QuietGraph'[k]
        PROVE  x \in S
    <3>1. k \in Files
      BY <1>2, <2>1
    <3>2. ImportsFile(x, k)' /\ ~Announced(x)'
      BY <2>2, <3>1 DEF QuietGraph
    <3>3. ImportsFile(x, k)
      BY <1>1, <3>2 DEF ImportsFile
    <3>4. CASE x # h
      <4>1. ~Announced(x) /\ first # x
        BY <1>1, <1>3, <3>2, <3>4, NoneAssumption
      <4>2. x \in dependents[k]
        BY <1>2, <3>1, <3>3, <4>1 DEF DInv, EdgesIndexed
      <4> QED BY <2>1, <4>2
    <3> QED BY <3>4
  <2>3. CASE g = h
    <3>1. ClosedFrom(QuietGraph', g, S)
      <4>1. \A k \in S : QuietGraph'[k] \subseteq S
        <5>1. \A k \in S : QuietGraph'[k] \subseteq Files
          BY <1>2, <2>1 DEF QuietGraph
        <5> QED BY <2>2, <5>1
      <4> QED BY <2>3, <4>1 DEF ClosedFrom
    <3>2. f \in S
      BY <1>2, <2>1, <3>1, DependentsLeast DEF QuietImporters
    <3> QED BY <3>2
  <2>4. CASE g # h
    <3> DEFINE T == QuietImporters(g) \cup S
    <3>1. ~SaveWaits(g) /\ QuietImporters(g) \in SUBSET Files
          /\ ClosedFrom(QuietGraph, g, QuietImporters(g))
      BY <1>3, <2>4, QuietIsGraph, DependentsClosed DEF QuietImporters
    <3>2. ASSUME NEW k \in T \cup {g}, NEW x \in QuietGraph'[k] PROVE x \in T
      <4>1. k \in Files
        BY <1>2, <2>1, <3>1
      <4>2. x \in Files /\ ImportsFile(x, k)' /\ ~Announced(x)'
        BY <3>2, <4>1 DEF QuietGraph
      <4>3. CASE x # h /\ k \notin S
        <5>1. ImportsFile(x, k) /\ ~Announced(x)
          BY <1>1, <1>3, <4>2, <4>3 DEF ImportsFile
        <5>2. x \in QuietGraph[k]
          BY <4>1, <4>2, <5>1 DEF QuietGraph
        <5>3. k \in QuietImporters(g) \cup {g}
          BY <3>2, <4>3
        <5> QED BY <3>1, <5>2, <5>3 DEF ClosedFrom
      <4>4. CASE k \in S
        BY <2>2, <3>2, <4>2, <4>4
      <4> QED BY <4>3, <4>4
    <3>3. T \in SUBSET Files /\ ClosedFrom(QuietGraph', g, T)
      BY <1>2, <2>1, <3>1, <3>2 DEF ClosedFrom
    <3>4. f \in T
      <4> HIDE DEF T
      <4> QED BY <3>3, DependentsLeast DEF QuietImporters
    <3>5. f \notin QuietImporters(g)
      <4>1. f \in Files /\ f # None
        BY <1>2, <2>1, <3>1, <3>4, NoneAssumption
      <4> QED BY <1>1, <3>1, <4>1 DEF DInv, StaleFollowed
    <3> QED BY <3>4, <3>5
  <2> QED BY <2>3, <2>4
<1> QED BY <1>4, <1>5

LEMMA DependentsFollowed ==
  ASSUME PackagesLast, NothingThrows, DInv, [Next]_vars
  PROVE  DInv'
<1> USE DEF files, update, sources, served, store, history
<1>0. TypeOK' /\ SInv'
  BY TypeStep, SavesFollowed DEF DInv
<1>1. ContentsAllowed'
  BY ContentsStayAllowed DEF DInv
<1>2. ~watching' => stale' = {}
  <2>1. ASSUME NEW f \in Files, Report(f) PROVE watching'
    BY <2>1 DEF Report, DInv, SInv, LoadedFirst
  <2>2. (stale' \subseteq stale /\ (watching' \/ ~watching)) \/ \E f \in Files : Report(f)
    BY DEF Next, Edit, Load, Import, AddOverride, Watch, Unlink, Begin, Loaded, ActivateStore,
           ReloadContext, ResetRoutes, vars
  <2> QED BY <2>1, <2>2 DEF DInv
<1>3. StaleFollowed' /\ EdgesIndexed'
  <2>0. stale' = {} => StaleFollowed'
    BY DEF StaleFollowed
  <2>1. ASSUME NEW h \in Files, Edit(h) PROVE StaleFollowed' /\ EdgesIndexed'
    <3>1. /\ UNCHANGED <<unloaded, watching, queue, first, rest, dependents, stale>>
          /\ \A f \in Files : f # h => disk'[f] = disk[f]
          /\ unreported' = IF watching THEN unreported \cup {h} ELSE unreported
          /\ missed' = IF watching \/ h \in unloaded THEN missed ELSE missed \cup {h}
      BY <2>1 DEF Edit, DInv, TypeOK
    <3>2. \A f : SaveWaits(f)' <=> SaveWaits(f)
      BY <3>1 DEF SaveWaits
    <3>3. \A f \in Files : f # h => (Announced(f)' <=> Announced(f))
      BY <3>1, <3>2 DEF Announced
    <3>4. watching => \A g \in Files : ~(ImportsFile(h, g) /\ ~Announced(h))'
      BY <3>1 DEF ImportsFile, ImportsOf, Announced
    <3>5. EdgesIndexed'
      <4>1. ASSUME NEW f \in Files \ (unloaded' \cup missed'), ~Announced(f)', first' # f
            PROVE  \/ \A g \in Files : ImportsFile(f, g)' => f \in dependents'[g]
                   \/ /\ f \notin unloaded \cup missed /\ ~Announced(f) /\ first # f
                      /\ disk'[f] = disk[f]
                      /\ \A g \in Files : f \in dependents[g] => f \in dependents'[g]
        <5>1. CASE f # h
          BY <3>1, <3>3, <4>1, <5>1
        <5>2. CASE f = h
          <6>1. watching
            BY <3>1, <4>1, <5>2
          <6> QED BY <3>4, <4>1, <5>2, <6>1
        <5> QED BY <5>1, <5>2
      <4> QED BY <4>1, EdgesKept DEF DInv
    <3>6. CASE watching
      <4>1. \A f, g \in Files : (ImportsFile(f, g) /\ ~Announced(f))' =>
              ImportsFile(f, g) /\ ~Announced(f)
        <5> SUFFICES ASSUME NEW f \in Files, NEW g \in Files,
                            (ImportsFile(f, g) /\ ~Announced(f))'
                     PROVE  ImportsFile(f, g) /\ ~Announced(f)
          OBVIOUS
        <5>1. f # h
          BY <3>4, <3>6
        <5>2. ImportsFile(f, g)
          BY <3>1, <5>1 DEF ImportsFile
        <5> QED BY <3>3, <5>1, <5>2
      <4> QED BY <3>1, <3>2, <3>5, <3>6, <4>1, StaleKept DEF DInv
    <3>7. CASE ~watching
      BY <2>0, <3>1, <3>5, <3>7 DEF DInv
    <3> QED BY <3>6, <3>7
  <2>2. ASSUME NEW h \in Files, Load(h) PROVE StaleFollowed' /\ EdgesIndexed'
    <3>1. /\ UNCHANGED <<disk, unreported, queue, first, rest, stale>>
          /\ unloaded' = unloaded \ {h} /\ missed \subseteq missed'
          /\ dependents' = Reindex(dependents, h, ImportsOf(disk[h]))
      BY <2>2 DEF Load
    <3>2. \A f : Announced(f)' <=> Announced(f)
      BY <3>1 DEF Announced, SaveWaits
    <3>3. \A g \in Files : ImportsFile(h, g)' => h \in dependents'[g]
      BY <3>1, AllIndexed, ReindexEdges DEF DInv, TypeOK, ImportsFile
    <3>4. \A f, g \in Files : f # h /\ f \in dependents[g] => f \in dependents'[g]
      BY <3>1, ReindexEdges DEF DInv, TypeOK
    <3>5. EdgesIndexed'
      BY <3>1, <3>2, <3>3, <3>4, EdgesKept DEF DInv
    <3>6. stale = {}
      BY <2>2 DEF Load, DInv, SInv, LoadedFirst
    <3> QED BY <2>0, <3>1, <3>5, <3>6
  <2>3. ASSUME NEW h \in Files, Report(h) PROVE StaleFollowed' /\ EdgesIndexed'
    <3> DEFINE e == [file |-> h, unlink |-> disk[h] = Absent]
    <3>1. /\ UNCHANGED <<disk, unloaded, missed, first, rest, dependents>>
          /\ h \in unreported /\ unreported' = unreported \ {h}
          /\ queue' = Append(queue, e)
          /\ disk[h] = Absent => stale' = stale
          /\ stale' \subseteq stale \cup (Files \X {h})
      BY <2>3 DEF Report, Importers, DependentsOf
    <3>2. e \in Update /\ e.file = h /\ (e.unlink <=> disk[h] = Absent)
      BY Zenon DEF Update
    <3> HIDE DEF e
    <3>3. queue \in Seq(Update)
      BY DEF DInv, TypeOK, Update
    <3>4. /\ \A f \in Files : SaveWaits(f) => SaveWaits(f)'
          /\ disk[h] # Absent => SaveWaits(h)'
      BY <3>1, <3>2, <3>3, QueueGrows
    <3>5. \A f \in Files : Announced(f) => Announced(f)'
      BY <3>1, <3>4 DEF Announced
    <3>6. \A f, g : ImportsFile(f, g)' <=> ImportsFile(f, g)
      BY <3>1 DEF ImportsFile
    <3>7. EdgesIndexed'
      BY <3>1, <3>5, EdgesKept DEF DInv
    <3>8. \A f, g \in Files : <<f, g>> \in stale' /\ ~SaveWaits(g)' => <<f, g>> \in stale
      BY <3>1, <3>4
    <3> QED BY <3>1, <3>4, <3>5, <3>6, <3>7, <3>8, StaleKept DEF DInv
  <2>4. CASE Unlink
    <3>1. /\ UNCHANGED <<disk, unreported, unloaded, missed, first, rest, dependents, stale>>
          /\ queue # <<>> /\ queue' = Tail(queue) /\ Head(queue).unlink
      BY <2>4 DEF Unlink
    <3>2. \A f \in Files : SaveWaits(f) => SaveWaits(f)'
      BY <3>1, QueueShrinks DEF DInv, TypeOK, Update
    <3>3. \A f \in Files : Announced(f) => Announced(f)'
      BY <3>1, <3>2 DEF Announced
    <3>4. \A f, g : ImportsFile(f, g)' <=> ImportsFile(f, g)
      BY <3>1 DEF ImportsFile
    <3>5. EdgesIndexed'
      BY <3>1, <3>3, EdgesKept DEF DInv
    <3> QED BY <3>1, <3>2, <3>3, <3>4, <3>5, StaleKept DEF DInv
  <2>5. CASE Begin
    BY <2>5, BeginFollowed
  <2>6. ASSUME NEW h \in Files, Import(h) PROVE StaleFollowed' /\ EdgesIndexed'
    <3>1. /\ UNCHANGED <<disk, unreported, unloaded, missed, queue>>
          /\ stale' = stale \ ({h} \X Files)
          /\ dependents' = Reindex(dependents, h, ImportsOf(disk[h]))
          /\ \A f \in Files : f # h /\ (first = f \/ f \in rest) => first' = f \/ f \in rest'
          /\ \A f \in Files : f # h /\ first' # f => first # f
      BY <2>6 DEF Import
    <3>2. \A f : (SaveWaits(f)' <=> SaveWaits(f)) /\ (Announced(f)' <=> Announced(f))
      BY <3>1 DEF Announced, SaveWaits
    <3>3. \A g \in Files : ImportsFile(h, g)' => h \in dependents'[g]
      BY <3>1, AllIndexed, ReindexEdges DEF DInv, TypeOK, ImportsFile
    <3>4. \A f, g \in Files : f # h /\ f \in dependents[g] => f \in dependents'[g]
      BY <3>1, ReindexEdges DEF DInv, TypeOK
    <3>5. EdgesIndexed'
      BY <3>1, <3>2, <3>3, <3>4, EdgesKept DEF DInv
    <3>6. \A f, g : ImportsFile(f, g)' <=> ImportsFile(f, g)
      BY <3>1 DEF ImportsFile
    <3>7. StaleFollowed'
      BY <3>1, <3>2, <3>6, StaleKept DEF DInv
    <3> QED BY <3>5, <3>7
  <2>7. CASE ActivateStore
    <3> DEFINE found == {f \in ContextFiles : disk[f] # Absent}
    <3>1. /\ UNCHANGED <<disk, unreported, unloaded, missed, queue, first, rest>>
          /\ stale' \subseteq stale
          /\ dependents' = [g \in Files |->
               (dependents[g] \ found) \cup {f \in found : g \in Indexed(ImportsOf(disk[f]))}]
      BY <2>7 DEF ActivateStore
    <3>2. \A f : (SaveWaits(f)' <=> SaveWaits(f)) /\ (Announced(f)' <=> Announced(f))
      BY <3>1 DEF Announced, SaveWaits
    <3>3. \A f, g : ImportsFile(f, g)' <=> ImportsFile(f, g)
      BY <3>1 DEF ImportsFile
    <3>4. \A f, g \in Files : f \in found /\ ImportsFile(f, g)' => f \in dependents'[g]
      <4>1. \A f, g \in Files : ImportsFile(f, g)' => g \in Indexed(ImportsOf(disk[f]))
        BY <3>3, AllIndexed DEF DInv
      <4> QED BY <3>1, <4>1
    <3>5. \A f, g \in Files : f \notin found /\ f \in dependents[g] => f \in dependents'[g]
      BY <3>1
    <3> HIDE DEF found
    <3>6. EdgesIndexed'
      BY <3>1, <3>2, <3>4, <3>5, EdgesKept DEF DInv
    <3> QED BY <3>1, <3>2, <3>3, <3>6, StaleKept DEF DInv
  <2>8. ASSUME UNCHANGED <<disk, unreported, unloaded, missed, queue>>,
               UNCHANGED <<first, rest, dependents, stale>>
        PROVE  StaleFollowed' /\ EdgesIndexed'
    <3>1. \A f : (SaveWaits(f)' <=> SaveWaits(f)) /\ (Announced(f)' <=> Announced(f))
      BY <2>8 DEF Announced, SaveWaits
    <3>2. \A f, g : ImportsFile(f, g)' <=> ImportsFile(f, g)
      BY <2>8 DEF ImportsFile
    <3>3. EdgesIndexed'
      BY <2>8, <3>1, EdgesKept DEF DInv
    <3> QED BY <2>8, <3>1, <3>2, <3>3, StaleKept DEF DInv
  <2>9. CASE Loaded
    <3>1. ~(importing.file \in ContextFiles /\ importing.content \in Throwing)
      <4>1. importing.content \in Allowed[importing.file] \cup {Absent}
        BY <2>9 DEF Loaded, DInv, ContentsAllowed
      <4> QED BY <4>1, AbsentAssumption DEF NothingThrows
    <3> QED BY <2>8, <2>9, <3>1 DEF Loaded
  <2>10. CASE Watch \/ ResetRoutes \/ (\E f \in Files : AddOverride(f))
           \/ (\E f \in ContextFiles : ReloadContext(f)) \/ UNCHANGED vars
    BY <2>8, <2>10 DEF Watch, ResetRoutes, AddOverride, ReloadContext, vars
  <2> QED BY <2>1, <2>2, <2>3, <2>4, <2>5, <2>6, <2>7, <2>9, <2>10 DEF Next
<1> QED BY <1>0, <1>1, <1>2, <1>3 DEF DInv

(***************************************************************************)
(* A change of a module reaches everything that imports it, directly or    *)
(* not: through cycles, imports that change while the update waits or      *)
(* runs, and contexts that a store reloads next to it.  Needed are imports *)
(* of packages that come last, and contexts whose constructors return.     *)
(***************************************************************************)
THEOREM DependentsAreReloaded ==
  ASSUME PackagesLast, NothingThrows
  PROVE  Spec => []DependentsReloaded
<1>1. Init => DInv
  <2> SUFFICES ASSUME Init PROVE DInv
    OBVIOUS
  <2>1. ContentsAllowed
    BY DEF Init, ContentsAllowed
  <2>2. EdgesIndexed
    BY DEF Init, EdgesIndexed, ImportsFile, ImportsOf
  <2>3. StaleFollowed /\ stale = {}
    BY DEF Init, StaleFollowed
  <2> QED BY <2>1, <2>2, <2>3, InitType, InitSInv DEF DInv
<1>2. DInv /\ [Next]_vars => DInv'
  BY DependentsFollowed
<1>3. DInv => DependentsReloaded
  <2> SUFFICES ASSUME DInv, Settled, missed = {}, NEW f \in Files, NEW g \in Files,
                      f \in Importers(g), <<f, g>> \in stale
               PROVE  FALSE
    BY DEF DependentsReloaded
  <2>1. \A h : ~SaveWaits(h) /\ ~Announced(h)
    BY DEF Settled, SaveWaits, Announced
  <2>2. f \in QuietImporters(g)
    BY <2>1 DEF Importers, QuietImporters, QuietGraph, ImportsFile
  <2> QED BY <2>1, <2>2, NoneAssumption DEF DInv, StaleFollowed, Settled, Idle
<1> QED BY <1>1, <1>2, <1>3, PTL DEF Spec

-----------------------------------------------------------------------------
(***************************************************************************)
(* Deletions.  A file that is gone stays served until its deletion is the  *)
(* update that runs (DeleteWaits).  What could bring it back after that is *)
(* a save of it that was queued before (SaveOutdated), or a load of it     *)
(* that is under way (LoadOutdated): each has the deletion behind it.  A   *)
(* load as the dependent of another file has not, since the edges of a     *)
(* deleted file stay in the graph, so the theorem is about the files that  *)
(* never import one (Leaves).                                              *)
(***************************************************************************)

\* The update for the deletion of f waits in the queue.
DeleteWaits(f) == \E i \in 1..Len(queue) : queue[i].file = f /\ queue[i].unlink

\* f is gone, and the watcher has nothing more to say of it.
Deleted(f) == disk[f] = Absent /\ f \notin missed \cup unreported \cup unloaded

\* Whatever is saved in them, it imports packages alone.
Leaves ==
  {f \in Files : \A x \in Allowed[f] : \A i \in DOMAIN Imports[x] : Imports[x][i] \notin Files}

LeavesLoose == \A f \in Leaves : f \notin rest /\ \A g \in Files : f \notin dependents[g]

SaveOutdated ==
  \A f \in Files : Deleted(f) =>
    \A i \in 1..Len(queue) : queue[i].file = f /\ ~queue[i].unlink =>
      \E j \in i + 1 .. Len(queue) : queue[j].file = f /\ queue[j].unlink

LoadOutdated ==
  \A f \in Leaves : Deleted(f) /\ (first = f \/ (importing # None /\ importing.file = f)) =>
    DeleteWaits(f)

Removed ==
  \A f \in Leaves \ MixedCase : Deleted(f) =>
    DeleteWaits(f) \/ (routes[f] \in {None, Override} /\ sourceRoutes[f] = None)

GInv ==
  /\ TypeOK /\ SInv /\ ContentsAllowed
  /\ LeavesLoose /\ SaveOutdated /\ LoadOutdated /\ Removed

\* What a leaf holds adds no edge.
LEMMA LeafIndexesNothing ==
  ASSUME ContentsAllowed, NEW f \in Leaves
  PROVE  \A g \in Files : g \notin Indexed(ImportsOf(disk[f]))
<1>1. disk[f] # Absent => disk[f] \in Allowed[f]
  BY DEF ContentsAllowed, Leaves
<1> QED BY <1>1 DEF Leaves, Indexed, ImportsOf

\* The dependency graph is closed without the leaves.
LEMMA LeavesStayLoose ==
  ASSUME TypeOK, ContentsAllowed, LeavesLoose, [Next]_vars,
         Begin => Head(queue).file \in Files
  PROVE  LeavesLoose'
<1> USE DEF files, update, sources, served, store, history
<1>1. ASSUME NEW h \in Files, dependents' = Reindex(dependents, h, ImportsOf(disk[h])),
             rest' \subseteq rest
      PROVE  LeavesLoose'
  <2> SUFFICES ASSUME NEW f \in Leaves
               PROVE  f \notin rest' /\ \A g \in Files : f \notin dependents'[g]
    BY DEF LeavesLoose
  <2> SUFFICES ASSUME NEW g \in Files PROVE f \notin dependents'[g]
    BY <1>1 DEF LeavesLoose
  <2>1. f \notin dependents[g] /\ f \notin rest
    BY DEF LeavesLoose
  <2>2. f = h => g \notin Indexed(ImportsOf(disk[h]))
    BY LeafIndexesNothing
  <2>3. f \notin Reindex(dependents, h, ImportsOf(disk[h]))[g]
    BY <2>1, <2>2, ReindexEdges DEF TypeOK
  <2> QED BY <1>1, <2>1, <2>3
<1>2. CASE Begin
  <2> DEFINE h == Head(queue).file
             S == Files \ Leaves
  <2>1. UNCHANGED dependents /\ rest' = DependentsOf(dependents, h)
    BY <1>2 DEF Begin, Dependents
  <2>2. ClosedFrom(dependents, h, S)
    <3>1. \A g \in Files : dependents[g] \subseteq S
      BY DEF TypeOK, Graph, LeavesLoose
    <3> QED BY <1>2, <3>1 DEF ClosedFrom
  <2>3. rest' \subseteq S
    BY <2>1, <2>2, DependentsLeast
  <2> QED BY <2>1, <2>3 DEF LeavesLoose
<1>3. CASE ActivateStore
  <2> DEFINE found == {f \in ContextFiles : disk[f] # Absent}
  <2>1. /\ UNCHANGED rest
        /\ dependents' = [g \in Files |->
             (dependents[g] \ found) \cup {f \in found : g \in Indexed(ImportsOf(disk[f]))}]
    BY <1>3 DEF ActivateStore
  <2> HIDE DEF found
  <2>2. \A f \in Leaves : \A g \in Files : f \notin dependents'[g]
    BY <2>1, LeafIndexesNothing DEF LeavesLoose
  <2> QED BY <2>1, <2>2 DEF LeavesLoose
<1>4. ASSUME UNCHANGED dependents, rest' \subseteq rest PROVE LeavesLoose'
  BY <1>4 DEF LeavesLoose
<1>5. ASSUME NEW f \in Files, Load(f) \/ Import(f) PROVE LeavesLoose'
  BY <1>1, <1>5 DEF Load, Import
<1>6. \/ UNCHANGED dependents /\ rest' \subseteq rest
      \/ Begin \/ ActivateStore \/ \E f \in Files : Load(f) \/ Import(f)
  BY DEF Next, Edit, Report, AddOverride, Watch, Unlink, Loaded, ReloadContext, ResetRoutes, vars
<1> QED BY <1>2, <1>3, <1>4, <1>5, <1>6

\* Steps that delete nothing and leave the queue, the imports and the routes of
\* what is deleted.
LEMMA GoneKept ==
  ASSUME SaveOutdated, LoadOutdated, Removed, UNCHANGED queue,
         \A f \in Files : Deleted(f)' =>
           /\ Deleted(f)
           /\ \/ DeleteWaits(f) /\ f \in Leaves
              \/ /\ routes'[f] \in {routes[f], sourceRoutes[f], Override}
                 /\ sourceRoutes'[f] = sourceRoutes[f]
           /\ f \in Leaves /\ first' = f => first = f
           /\ f \in Leaves /\ importing' # None /\ importing'.file = f =>
                first = f \/ (importing # None /\ importing.file = f)
  PROVE  SaveOutdated' /\ LoadOutdated' /\ Removed'
<1>1. \A f : DeleteWaits(f)' <=> DeleteWaits(f)
  BY DEF DeleteWaits
<1>2. Leaves \subseteq Files
  BY DEF Leaves
<1>3. SaveOutdated'
  BY DEF SaveOutdated
<1>4. LoadOutdated'
  BY <1>1, <1>2 DEF LoadOutdated
<1>5. Removed'
  BY <1>1, <1>2 DEF Removed
<1> QED BY <1>3, <1>4, <1>5

\* What load() loads and what an edit changes are not deleted.
LEMMA EditGone ==
  ASSUME GInv, NEW h \in Files, Edit(h)
  PROVE  SaveOutdated' /\ LoadOutdated' /\ Removed'
<1> USE DEF files, update, sources, served, store, history
<1>1. /\ UNCHANGED <<unloaded, watching, queue, first, importing, routes, sourceRoutes>>
      /\ \A f \in Files : f # h => disk'[f] = disk[f]
      /\ unreported' = IF watching THEN unreported \cup {h} ELSE unreported
      /\ missed' = IF watching \/ h \in unloaded THEN missed ELSE missed \cup {h}
  BY DEF Edit, GInv, TypeOK
<1>2. \A f \in Files : Deleted(f)' => f # h /\ Deleted(f)
  BY <1>1 DEF Deleted
<1> QED BY <1>1, <1>2, GoneKept DEF GInv

LEMMA LoadGone ==
  ASSUME GInv, NEW h \in Files, Load(h)
  PROVE  SaveOutdated' /\ LoadOutdated' /\ Removed'
<1> USE DEF files, update, sources, served, store, history
<1>1. /\ UNCHANGED <<disk, unreported, queue, first, importing>>
      /\ unloaded' = unloaded \ {h}
      /\ missed' = IF disk[h] = Absent THEN missed \cup {h} ELSE missed
      /\ Register(h, disk[h], ~Fails(disk[h]))
  BY DEF Load
<1>2. disk[h] \in Disk
  BY DEF GInv, TypeOK
<1>3. \A f \in Files : f # h => sourceRoutes'[f] = sourceRoutes[f] /\ routes'[f] = routes[f]
  BY <1>1, <1>2, Registered, ZenonT(40) DEF GInv
<1>4. \A f \in Files : Deleted(f)' => f # h /\ Deleted(f)
  BY <1>1 DEF Deleted
<1> QED BY <1>1, <1>3, <1>4, GoneKept DEF GInv

\* A deletion that is reported waits behind every save of the file.
LEMMA ReportGone ==
  ASSUME GInv, NEW h \in Files, Report(h)
  PROVE  SaveOutdated' /\ LoadOutdated' /\ Removed'
<1> USE DEF files, update, sources, served, store, history
<1> DEFINE e == [file |-> h, unlink |-> disk[h] = Absent]
<1>1. /\ UNCHANGED <<disk, unloaded, missed, first, importing, routes, sourceRoutes>>
      /\ unreported' = unreported \ {h}
      /\ queue' = Append(queue, e)
  BY DEF Report
<1>2. e \in Update /\ e.file = h /\ (e.unlink <=> disk[h] = Absent)
  BY Zenon DEF Update
<1> HIDE DEF e
<1>3. queue \in Seq(Update)
  BY DEF GInv, TypeOK, Update
<1>4. /\ Len(queue) \in Nat /\ Len(queue') = Len(queue) + 1 /\ queue'[Len(queue) + 1] = e
      /\ \A i \in 1..Len(queue) : queue'[i] = queue[i]
  BY <1>1, <1>2, <1>3, QueueGrows
<1>5. \A f : DeleteWaits(f) => DeleteWaits(f)'
  BY <1>4 DEF DeleteWaits
<1>6. disk[h] = Absent => DeleteWaits(h)'
  BY <1>2, <1>4 DEF DeleteWaits
<1>7. \A f \in Files : Deleted(f)' => (Deleted(f) /\ f # h) \/ (f = h /\ disk[h] = Absent)
  BY <1>1 DEF Deleted
<1>8. SaveOutdated'
  <2> SUFFICES ASSUME NEW f \in Files, Deleted(f)', NEW i \in 1..Len(queue'),
                      queue'[i].file = f, ~queue'[i].unlink
               PROVE  \E j \in i + 1 .. Len(queue') : queue'[j].file = f /\ queue'[j].unlink
    BY DEF SaveOutdated
  <2>1. CASE f = h /\ disk[h] = Absent
    <3>1. i \in 1..Len(queue)
      BY <1>2, <1>4, <2>1
    <3>2. Len(queue) + 1 \in i + 1 .. Len(queue')
      BY <1>4, <3>1
    <3> QED BY <1>2, <1>4, <2>1, <3>2
  <2>2. CASE Deleted(f) /\ f # h
    <3>1. i \in 1..Len(queue)
      BY <1>2, <1>4, <2>2
    <3>2. PICK j \in i + 1 .. Len(queue) : queue[j].file = f /\ queue[j].unlink
      BY <1>4, <2>2, <3>1 DEF GInv, SaveOutdated
    <3>3. j \in i + 1 .. Len(queue') /\ queue'[j] = queue[j]
      BY <1>4, <3>1, <3>2
    <3> QED BY <3>2, <3>3
  <2> QED BY <1>7, <2>1, <2>2
<1>9. LoadOutdated'
  BY <1>1, <1>5, <1>6, <1>7 DEF GInv, LoadOutdated, Leaves
<1>10. Removed'
  BY <1>1, <1>5, <1>6, <1>7 DEF GInv, Removed, Leaves
<1> QED BY <1>8, <1>9, <1>10

\* The update at the head begins: a deletion removes the file, and a save of
\* one that is gone has the deletion behind it.
LEMMA HeadGone ==
  ASSUME GInv, Unlink \/ Begin
  PROVE  SaveOutdated' /\ LoadOutdated' /\ Removed'
<1> USE DEF files, update, sources, served, store, history
<1> DEFINE h == Head(queue).file
<1>1. /\ UNCHANGED <<disk, unreported, unloaded, missed, importing>>
      /\ queue # <<>> /\ queue' = Tail(queue) /\ importing = None /\ first = None
      /\ first' = IF Head(queue).unlink THEN None ELSE h
  BY DEF Unlink, Begin, Idle
<1>2. queue \in Seq(Update)
  BY DEF GInv, TypeOK, Update
<1>3. /\ Head(queue) = queue[1] /\ h \in Files
      /\ Len(queue) \in Nat /\ Len(queue') = Len(queue) - 1 /\ Len(queue) >= 1
      /\ \A i \in 1..Len(queue') : queue'[i] = queue[i + 1]
  <2>1. /\ Head(queue) = queue[1] /\ Head(queue) \in Update
        /\ Len(queue) \in Nat /\ Len(queue') = Len(queue) - 1
        /\ \A i \in 1..Len(queue') : queue'[i] = queue[i + 1]
    BY <1>1, <1>2, QueueShrinks
  <2>2. Len(queue) >= 1
    BY <1>1, <1>2
  <2>3. h \in Files
    BY <2>1 DEF Update
  <2> QED BY <2>1, <2>2, <2>3
<1> HIDE DEF h
<1>4. \A f : Deleted(f)' <=> Deleted(f)
  BY <1>1 DEF Deleted
<1>5. ASSUME NEW f \in Files, DeleteWaits(f), f # h \/ ~Head(queue).unlink
      PROVE  DeleteWaits(f)'
  <2>1. PICK i \in 1..Len(queue) : queue[i].file = f /\ queue[i].unlink
    BY <1>5 DEF DeleteWaits
  <2>2. i # 1
    BY <1>3, <1>5, <2>1 DEF h
  <2>3. i - 1 \in 1..Len(queue') /\ queue'[i - 1] = queue[i]
    BY <1>3, <2>1, <2>2
  <2> QED BY <2>1, <2>3 DEF DeleteWaits
<1>6. ASSUME NEW f \in Files, Deleted(f),
             NEW i \in 1..Len(queue), queue[i].file = f, ~queue[i].unlink
      PROVE  \E j \in i..Len(queue') : queue'[j].file = f /\ queue'[j].unlink
  <2>1. PICK j \in i + 1 .. Len(queue) : queue[j].file = f /\ queue[j].unlink
    BY <1>6 DEF GInv, SaveOutdated
  <2>2. j - 1 \in i..Len(queue') /\ queue'[j - 1] = queue[j]
    BY <1>3, <2>1
  <2> QED BY <2>1, <2>2
<1>7. SaveOutdated'
  <2> SUFFICES ASSUME NEW f \in Files, Deleted(f)', NEW i \in 1..Len(queue'),
                      queue'[i].file = f, ~queue'[i].unlink
               PROVE  \E j \in i + 1 .. Len(queue') : queue'[j].file = f /\ queue'[j].unlink
    BY DEF SaveOutdated
  <2>1. i + 1 \in 1..Len(queue) /\ queue[i + 1] = queue'[i]
    BY <1>3
  <2> QED BY <1>4, <1>6, <2>1
<1>8. ASSUME NEW f \in Files, f = h, Deleted(f), ~Head(queue).unlink PROVE DeleteWaits(f)'
  <2>1. 1 \in 1..Len(queue) /\ queue[1].file = f /\ ~queue[1].unlink
    BY <1>3, <1>8 DEF h
  <2>2. \E j \in 1..Len(queue') : queue'[j].file = f /\ queue'[j].unlink
    BY <1>6, <1>8, <2>1
  <2> QED BY <2>2 DEF DeleteWaits
<1>9. LoadOutdated'
  <2>1. \A f \in Leaves : f \in Files /\ f # None
    BY NoneAssumption DEF Leaves
  <2> QED BY <1>1, <1>4, <1>8, <2>1 DEF LoadOutdated
<1>10. Removed'
  <2> SUFFICES ASSUME NEW f \in Leaves \ MixedCase, Deleted(f), ~DeleteWaits(f)'
               PROVE  routes'[f] \in {None, Override} /\ sourceRoutes'[f] = None
    BY <1>4 DEF Removed
  <2>1. f \in Files
    BY DEF Leaves
  <2>2. CASE Begin
    <3>1. UNCHANGED <<routes, sourceRoutes>> /\ ~Head(queue).unlink
      BY <2>2 DEF Begin
    <3>2. ~DeleteWaits(f)
      BY <1>5, <2>1, <3>1
    <3> QED BY <3>1, <3>2 DEF GInv, Removed
  <2>3. CASE Unlink
    <3>1. /\ routes' = IF StaysServed(h) THEN routes ELSE [routes EXCEPT ![h] = None]
          /\ sourceRoutes' = [sourceRoutes EXCEPT ![h] = None]
      BY <2>3 DEF Unlink, h
    <3>2. CASE f = h
      BY <1>3, <2>1, <3>1, <3>2 DEF GInv, TypeOK, StaysServed
    <3>3. CASE f # h
      <4>1. ~DeleteWaits(f)
        BY <1>5, <2>1, <3>3
      <4>2. routes'[f] = routes[f] /\ sourceRoutes'[f] = sourceRoutes[f]
        BY <1>3, <2>1, <3>1, <3>3 DEF GInv, TypeOK
      <4> QED BY <4>1, <4>2 DEF GInv, Removed
    <3> QED BY <3>2, <3>3
  <2> QED BY <2>2, <2>3
<1> QED BY <1>7, <1>9, <1>10

LEMMA DeletionsFollowed ==
  ASSUME GInv, [Next]_vars
  PROVE  GInv'
<1> USE DEF files, update, sources, served, store, history
<1>0. TypeOK' /\ SInv' /\ ContentsAllowed'
  BY TypeStep, SavesFollowed, ContentsStayAllowed DEF GInv
<1>1. LeavesLoose'
  <2>1. Begin => Head(queue).file \in Files
    <3> SUFFICES ASSUME Begin PROVE Head(queue).file \in Files
      OBVIOUS
    <3>1. Head(queue) \in Update
      BY QueueShrinks DEF Begin, GInv, TypeOK, Update
    <3> QED BY <3>1 DEF Update
  <2> QED BY <2>1, LeavesStayLoose DEF GInv
<1>2. SaveOutdated' /\ LoadOutdated' /\ Removed'
  <2>1. ASSUME NEW h \in Files, Import(h) PROVE SaveOutdated' /\ LoadOutdated' /\ Removed'
    <3>1. /\ UNCHANGED <<disk, unreported, unloaded, missed, queue, routes, sourceRoutes>>
          /\ importing'.file = h /\ first' \in {first, None}
          /\ first = h \/ h \in rest
      BY <2>1 DEF Import
    <3>2. \A f : Deleted(f)' <=> Deleted(f)
      BY <3>1 DEF Deleted
    <3>3. h \in Leaves => first = h
      BY <3>1 DEF GInv, LeavesLoose
    <3>4. \A f \in Leaves : f # None
      BY NoneAssumption DEF Leaves
    <3> QED BY <3>1, <3>2, <3>3, <3>4, GoneKept DEF GInv
  <2>2. CASE Loaded
    <3> DEFINE h == importing.file
    <3>1. /\ UNCHANGED <<disk, unreported, unloaded, missed, queue, first>>
          /\ importing' = None /\ importing # None
          /\ Register(h, importing.content, Constructs(importing.content))
      BY <2>2 DEF Loaded
    <3>2. h \in Files /\ importing.content \in Disk
      BY <3>1 DEF GInv, TypeOK
    <3>3. Constructs(importing.content) \in BOOLEAN
          /\ (Constructs(importing.content) => ~Fails(importing.content))
      BY DEF Constructs
    <3>4. \A f \in Files : f # h => sourceRoutes'[f] = sourceRoutes[f] /\ routes'[f] = routes[f]
      BY <3>1, <3>2, <3>3, Registered DEF GInv
    <3>5. \A f : (Deleted(f)' <=> Deleted(f)) /\ (DeleteWaits(f)' <=> DeleteWaits(f))
      BY <3>1 DEF Deleted, DeleteWaits
    <3>6. h \in Leaves /\ Deleted(h) => DeleteWaits(h)
      BY <3>1 DEF GInv, LoadOutdated
    <3> HIDE DEF h
    <3>7. SaveOutdated'
      BY <3>1, <3>5 DEF GInv, SaveOutdated
    <3>8. LoadOutdated'
      BY <3>1, <3>5 DEF GInv, LoadOutdated
    <3>9. Removed'
      BY <3>4, <3>5, <3>6 DEF GInv, Removed, Leaves
    <3> QED BY <3>7, <3>8, <3>9
  <2>3. ASSUME NEW h \in ContextFiles, ReloadContext(h)
        PROVE  SaveOutdated' /\ LoadOutdated' /\ Removed'
    <3>1. /\ UNCHANGED <<disk, unreported, unloaded, missed, queue, first, importing>>
          /\ UNCHANGED <<routes, sourceRoutes>>
      BY <2>3 DEF ReloadContext, Register
    <3>2. \A f : Deleted(f)' <=> Deleted(f)
      BY <3>1 DEF Deleted
    <3> QED BY <3>1, <3>2, GoneKept DEF GInv
  <2>4. ASSUME NEW h \in Files, AddOverride(h) PROVE SaveOutdated' /\ LoadOutdated' /\ Removed'
    <3>1. /\ UNCHANGED <<disk, unreported, unloaded, missed, queue, first, importing>>
          /\ UNCHANGED sourceRoutes
          /\ \A f \in Files : routes'[f] \in {routes[f], Override}
      BY <2>4 DEF AddOverride, GInv, TypeOK
    <3>2. \A f : Deleted(f)' <=> Deleted(f)
      BY <3>1 DEF Deleted
    <3> QED BY <3>1, <3>2, GoneKept DEF GInv
  <2>5. CASE Watch \/ ActivateStore \/ ResetRoutes \/ UNCHANGED vars
    <3>1. /\ UNCHANGED <<disk, unreported, unloaded, missed, queue, first, importing>>
          /\ UNCHANGED sourceRoutes /\ routes' \in {routes, sourceRoutes}
      BY <2>5 DEF Watch, ActivateStore, ResetRoutes, vars
    <3>2. \A f : Deleted(f)' <=> Deleted(f)
      BY <3>1 DEF Deleted
    <3> QED BY <3>1, <3>2, GoneKept DEF GInv
  <2> QED BY <2>1, <2>2, <2>3, <2>4, <2>5, EditGone, LoadGone, ReportGone, HeadGone DEF Next
<1> QED BY <1>0, <1>1, <1>2 DEF GInv

LEMMA DeletionsFollowedAlways == Spec => []GInv
<1>1. Init => GInv
  <2> SUFFICES ASSUME Init PROVE GInv
    OBVIOUS
  <2>1. ContentsAllowed
    BY DEF Init, ContentsAllowed
  <2>2. LeavesLoose
    BY DEF Init, LeavesLoose, NoDependents
  <2>3. SaveOutdated /\ LoadOutdated
    BY NoneAssumption DEF Init, SaveOutdated, LoadOutdated, Leaves
  <2>4. Removed
    BY DEF Init, Removed, Leaves
  <2> QED BY <2>1, <2>2, <2>3, <2>4, InitType, InitSInv DEF GInv
<1> QED BY <1>1, DeletionsFollowed, PTL DEF Spec

\* DeletedRoutesGone, of the files that import no other and are found in the
\* registry under their name.
DeletedLeavesGone ==
  Settled => \A f \in Leaves \ (MixedCase \cup missed) : disk[f] = Absent =>
    routes[f] \in {None, Override} /\ sourceRoutes[f] = None

LEMMA NothingWaits ==
  ASSUME GInv
  PROVE  DeletedLeavesGone
<1> SUFFICES ASSUME Settled, NEW f \in Leaves \ (MixedCase \cup missed), disk[f] = Absent
             PROVE  routes[f] \in {None, Override} /\ sourceRoutes[f] = None
  BY DEF DeletedLeavesGone
<1>1. ~DeleteWaits(f) /\ Deleted(f)
  BY DEF Settled, DeleteWaits, Deleted, GInv, SInv, LoadedFirst
<1> QED BY <1>1 DEF GInv, Removed

(***************************************************************************)
(* A deleted file is served no more, and a reset does not bring it back,   *)
(* whatever else is edited, and in the middle of its own reload: for each  *)
(* file that imports packages alone and has a lower-case name, next to     *)
(* files of any kind.                                                      *)
(***************************************************************************)
THEOREM DeletedLeavesAreGone == Spec => []DeletedLeavesGone
  BY DeletionsFollowedAlways, NothingWaits, PTL

\* So nothing that is deleted is served, where all files are like this.
THEOREM DeletedRoutesAreGone ==
  ASSUME Leaves = Files, MixedCase = {}
  PROVE  Spec => []DeletedRoutesGone
<1>1. GInv => DeletedRoutesGone
  BY NothingWaits DEF DeletedLeavesGone, DeletedRoutesGone
<1> QED BY <1>1, DeletionsFollowedAlways, PTL
-----------------------------------------------------------------------------
(***************************************************************************)
(* dependentsOf() is correct on every finite graph: when its loop is over, *)
(* it has found exactly the transitive dependents.  The invariant says     *)
(* that what was found is searched or queued (nothing is missed), and that *)
(* all of it belongs to every closed set (nothing is made up).             *)
(***************************************************************************)
Queued == {toVisit[i] : i \in DOMAIN toVisit}

\* What was found, and the file itself, is searched or will be.
NothingMissed ==
  /\ importers \cup {asked} \subseteq marked \cup Queued
  /\ \A f \in marked : edges[f] \subseteq importers

\* The search stays within each closed set.
NothingMadeUp ==
  \A S \in SUBSET Files : ClosedFrom(edges, asked, S) =>
    /\ importers \subseteq S
    /\ marked \cup Queued \subseteq S \cup {asked}

SearchInv == SearchType /\ NothingMissed /\ NothingMadeUp

(***************************************************************************)
(* SetToSeqs(S) are the orders of S: sequences that hold each member.      *)
(***************************************************************************)
LEMMA OrderHoldsSet ==
  ASSUME NEW S \in SUBSET Files, NEW order \in SetToSeqs(S)
  PROVE  order \in Seq(Files) /\ {order[i] : i \in DOMAIN order} = S
<1> DEFINE n == Cardinality(S)
           D == 1 .. n
<1>1. IsFiniteSet(S) /\ n \in Nat
  BY GraphAssumption, FS_Subset, FS_CardinalityType
<1>2. IsFiniteSet(D) /\ Cardinality(D) = n
  BY <1>1, FS_Interval
<1>3. order \in Injection(D, S)
  BY DEF SetToSeqs, Injection, IsInjective
<1>4. order \in Surjection(D, S)
  BY <1>1, <1>2, <1>3, FS_Injection
<1>5. order \in [D -> S] /\ \A f \in S : \E i \in D : order[i] = f
  BY <1>4 DEF Surjection
<1> QED BY <1>1, <1>5

\* What the queue holds after one turn of the loop.
LEMMA ShiftedQueue ==
  ASSUME SearchType, toVisit # <<>>
  PROVE  /\ Head(toVisit) \in Files /\ Tail(toVisit) \in Seq(Files)
         /\ Queued = {Head(toVisit)} \cup {Tail(toVisit)[i] : i \in DOMAIN Tail(toVisit)}
<1>1. toVisit \in Seq(Files) /\ Head(toVisit) = toVisit[1]
  BY DEF SearchType
<1>2. /\ Tail(toVisit) \in Seq(Files) /\ Len(Tail(toVisit)) = Len(toVisit) - 1
      /\ \A i \in 1 .. Len(toVisit) - 1 : Tail(toVisit)[i] = toVisit[i + 1]
  BY <1>1
<1>3. \A i \in 2 .. Len(toVisit) : toVisit[i] = Tail(toVisit)[i - 1]
  BY <1>1, <1>2
<1>4. DOMAIN toVisit = {1} \cup 2 .. Len(toVisit) /\ DOMAIN Tail(toVisit) = 1 .. Len(toVisit) - 1
  BY <1>1, <1>2
<1>5. Queued \subseteq {Head(toVisit)} \cup {Tail(toVisit)[i] : i \in DOMAIN Tail(toVisit)}
  <2> SUFFICES ASSUME NEW i \in DOMAIN toVisit, i # 1
               PROVE  toVisit[i] \in {Tail(toVisit)[k] : k \in DOMAIN Tail(toVisit)}
    BY <1>1 DEF Queued
  <2>1. i \in 2 .. Len(toVisit) /\ i - 1 \in 1 .. Len(toVisit) - 1
    BY <1>1, <1>4
  <2> QED BY <1>3, <1>4, <2>1
<1>6. {Tail(toVisit)[i] : i \in DOMAIN Tail(toVisit)} \subseteq Queued
  BY <1>1, <1>2, <1>4 DEF Queued
<1>7. Head(toVisit) \in Queued
  BY <1>1, <1>4 DEF Queued
<1>8. Head(toVisit) \in Files
  BY <1>1
<1> QED BY <1>2, <1>5, <1>6, <1>7, <1>8

LEMMA JoinedQueue ==
  ASSUME NEW s \in Seq(Files), NEW t \in Seq(Files)
  PROVE  /\ s \o t \in Seq(Files)
         /\ {(s \o t)[i] : i \in DOMAIN (s \o t)}
              = {s[i] : i \in DOMAIN s} \cup {t[i] : i \in DOMAIN t}
<1>1. /\ s \o t \in Seq(Files) /\ Len(s \o t) = Len(s) + Len(t)
      /\ DOMAIN (s \o t) = 1 .. Len(s) + Len(t)
      /\ \A i \in 1 .. Len(s) + Len(t) :
           (s \o t)[i] = IF i <= Len(s) THEN s[i] ELSE t[i - Len(s)]
  OBVIOUS
<1>2. \A i \in 1 .. Len(s) : (s \o t)[i] = s[i] /\ i \in DOMAIN (s \o t)
  BY <1>1
<1>3. \A i \in 1 .. Len(t) : (s \o t)[i + Len(s)] = t[i] /\ i + Len(s) \in DOMAIN (s \o t)
  BY <1>1
<1>4. \A i \in DOMAIN (s \o t) : \/ i \in DOMAIN s /\ (s \o t)[i] = s[i]
                                 \/ i - Len(s) \in DOMAIN t /\ (s \o t)[i] = t[i - Len(s)]
  BY <1>1
<1>5. DOMAIN s = 1 .. Len(s) /\ DOMAIN t = 1 .. Len(t)
  OBVIOUS
<1>6. ASSUME NEW i \in DOMAIN (s \o t)
      PROVE  (s \o t)[i] \in {s[k] : k \in DOMAIN s} \cup {t[k] : k \in DOMAIN t}
  BY <1>4
<1>7. ASSUME NEW k \in DOMAIN s PROVE s[k] \in {(s \o t)[i] : i \in DOMAIN (s \o t)}
  BY <1>2, <1>5
<1>8. ASSUME NEW k \in DOMAIN t PROVE t[k] \in {(s \o t)[i] : i \in DOMAIN (s \o t)}
  BY <1>3, <1>5
<1> QED BY <1>1, <1>6, <1>7, <1>8

LEMMA SearchInitInv == SearchInit => SearchInv
  BY DEF SearchInit, SearchInv, SearchType, NothingMissed, NothingMadeUp, Queued

LEMMA VisitInv == SearchInv /\ Visit => SearchInv'
<1> SUFFICES ASSUME SearchInv, Visit PROVE SearchInv'
  OBVIOUS
<1> DEFINE file == Head(toVisit)
           left == {Tail(toVisit)[i] : i \in DOMAIN Tail(toVisit)}
<1>1. file \in Files /\ Tail(toVisit) \in Seq(Files) /\ Queued = {file} \cup left
  BY ShiftedQueue DEF SearchInv, Visit
<1>2. UNCHANGED <<edges, asked>>
  BY DEF Visit
<1>3. CASE file \in marked
  <2>1. toVisit' = Tail(toVisit) /\ UNCHANGED <<marked, importers>>
    BY <1>3 DEF Visit, Shifted
  <2>2. Queued' = left
    BY <2>1 DEF Queued
  <2> HIDE DEF file, left
  <2>3. SearchType'
    BY <1>1, <1>2, <2>1 DEF SearchInv, SearchType
  <2>4. NothingMissed'
    BY <1>1, <1>2, <1>3, <2>1, <2>2 DEF SearchInv, NothingMissed
  <2>5. NothingMadeUp'
    BY <1>1, <1>2, <2>1, <2>2 DEF SearchInv, NothingMadeUp
  <2> QED BY <2>3, <2>4, <2>5 DEF SearchInv
<1>4. CASE file \notin marked
  <2> DEFINE new == edges[file]
  <2>1. marked' = marked \cup {file} /\ importers' = importers \cup new
    BY <1>4 DEF Visit
  <2>2. new \in SUBSET Files
    BY <1>1 DEF SearchInv, SearchType, Graph
  <2>3. PICK order \in SetToSeqs(new) : toVisit' = Tail(toVisit) \o order
    BY <1>4 DEF Visit, Pushed, Shifted
  <2>4. order \in Seq(Files) /\ {order[i] : i \in DOMAIN order} = new
    BY <2>2, OrderHoldsSet
  <2> DEFINE joined == Tail(toVisit) \o order
  <2>5. toVisit' \in Seq(Files) /\ Queued' = left \cup new
    <3>1. joined \in Seq(Files) /\ {joined[i] : i \in DOMAIN joined} = left \cup new
      BY <1>1, <2>4, JoinedQueue
    <3> HIDE DEF joined
    <3>2. toVisit' = joined
      BY <2>3 DEF joined
    <3> QED BY <3>1, <3>2 DEF Queued
  <2>6. file \in Queued /\ left \subseteq Queued
    BY <1>1
  <2> HIDE DEF file, left
  <2>7. SearchType'
    BY <1>1, <1>2, <2>1, <2>2, <2>5 DEF SearchInv, SearchType
  <2>8. NothingMissed'
    BY <1>1, <1>2, <2>1, <2>5 DEF SearchInv, NothingMissed
  <2>9. ASSUME NEW S \in SUBSET Files, ClosedFrom(edges, asked, S)
        PROVE  importers' \subseteq S /\ marked' \cup Queued' \subseteq S \cup {asked}
    <3>1. importers \subseteq S /\ marked \cup Queued \subseteq S \cup {asked}
      BY <2>9 DEF SearchInv, NothingMadeUp
    <3>2. new \subseteq S
      BY <2>6, <2>9, <3>1 DEF ClosedFrom
    <3> QED BY <2>1, <2>5, <2>6, <3>1, <3>2
  <2>10. NothingMadeUp'
    BY <1>2, <2>9 DEF NothingMadeUp, ClosedFrom
  <2> QED BY <2>7, <2>8, <2>10 DEF SearchInv
<1> QED BY <1>3, <1>4

LEMMA SearchSpecInv == SearchSpec => []SearchInv
<1>1. SearchInv /\ [SearchNext]_searchVars => SearchInv'
  <2>1. SearchInv /\ UNCHANGED searchVars => SearchInv'
    BY DEF searchVars, SearchInv, SearchType, NothingMissed, NothingMadeUp, Queued
  <2> QED BY <2>1, VisitInv DEF SearchNext, Return
<1> QED BY <1>1, SearchInitInv, PTL DEF SearchSpec

(***************************************************************************)
(* What dependentsOf() returns is the smallest set that contains the       *)
(* dependents of path and of its members, whatever graph the loads built.  *)
(***************************************************************************)
THEOREM SearchIsCorrect == SearchSpec => []FindsDependents
<1>1. SearchInv => FindsDependents
  <2> SUFFICES ASSUME SearchInv, toVisit = <<>> PROVE importers = DependentsOf(edges, asked)
    BY DEF FindsDependents
  <2>1. Queued = {}
    BY DEF Queued
  <2>2. importers \in SUBSET Files /\ ClosedFrom(edges, asked, importers)
    BY <2>1 DEF SearchInv, SearchType, NothingMissed, ClosedFrom
  <2>3. DependentsOf(edges, asked) \subseteq importers
    BY <2>2 DEF DependentsOf
  <2>4. importers \subseteq DependentsOf(edges, asked)
    BY DEF DependentsOf, SearchInv, SearchType, NothingMadeUp
  <2> QED BY <2>3, <2>4
<1> QED BY <1>1, SearchSpecInv, PTL

\* The queue, the marks and the result name files only (dependentsOf()).
THEOREM SearchTypeCorrect == SearchSpec => []SearchType
  BY SearchSpecInv, PTL DEF SearchInv
=============================================================================
