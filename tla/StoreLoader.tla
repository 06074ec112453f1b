----------------------------- MODULE StoreLoader ----------------------------
(***************************************************************************)
(* The application's store: packages/runtime/src/server/store-loader.ts,   *)
(* with the handlers that write to the store and the reset that constructs *)
(* it again.  It starts when load() has returned.                          *)
(*                                                                         *)
(* A version of _.store.ts is what it constructs: a class and the fields   *)
(* of a new store.  The promise chain of UpdateQueue is `queue`: a turn is *)
(* taken by an event of the watcher, by the reconciliation that follows    *)
(* "ready", or by the pause of a reset.                                    *)
(***************************************************************************)
EXTENDS Naturals, Sequences

CONSTANTS
  Fields, Values, Unset,
  Classes,
  Sources,    \* what a version of _.store.ts constructs
  Broken,     \* a version that fails: to import, or in its constructor
  Absent, None,
  MaxQueue,   \* bound: turns that wait in the queue
  MaxStores,  \* bound: stores that are constructed
  MaxEdits    \* bound: changes of _.store.ts

Construction == [fields : [Fields -> Values \cup {Unset}], class : Classes]
Store == [id : 1..MaxStores, fields : [Fields -> Values \cup {Unset}],
          class : Classes, extensible : BOOLEAN]

ASSUME StoreAssumption ==
  /\ Sources \subseteq Construction
  /\ {Broken, Absent, None} \cap Construction = {}
  /\ Broken \notin {Absent, None} /\ Absent # None
  /\ Unset \notin Values
  /\ None \notin Store \cup {"import", "apply", "paused"}
  /\ MaxQueue \in Nat /\ MaxStores \in Nat \ {0} /\ MaxEdits \in Nat

VARIABLES
  disk,       \* the version in the file
  edits,      \* how often it changed
  watching,   \* the watcher is open and ready
  unreported, \* the file changed since the watcher last reported it
  queue,      \* turns that wait
  turn,       \* the turn that is being taken
  candidate,  \* what the import of this turn has read
  sourcePresent, store, createStore,  \* of the loader, by their names
  stores,     \* how many stores there have been
  missed,     \* history: the version on disk was saved while nobody watched
  refused     \* history: the last good version could not be applied

file    == <<disk, edits>>
watcher == <<watching, unreported>>
loader  == <<sourcePresent, store, createStore, stores>>
history == <<missed, refused>>
vars == <<file, watcher, queue, turn, candidate, loader, history>>

Version == Sources \cup {Broken, Absent}

TypeOK ==
  /\ disk \in Version /\ edits \in 0..MaxEdits
  /\ watching \in BOOLEAN /\ unreported \in BOOLEAN
  /\ queue \in Seq({"saved", "unlink", "reconcile", "pause"})
  /\ turn \in {None, "import", "apply", "paused"}
  /\ candidate \in Version
  /\ sourcePresent \in BOOLEAN
  /\ store \in Store \cup {None}
  /\ createStore \in Sources \cup {None}
  /\ stores \in 0..MaxStores
  /\ missed \in BOOLEAN /\ refused \in BOOLEAN

\* new Store(), the n-th.
NewStore(n, source) ==
  [id |-> n, fields |-> source.fields, class |-> source.class, extensible |-> TRUE]

\* load() has found a good version, or none at all; it throws at a broken one.
Init ==
  /\ disk \in Sources \cup {Absent} /\ edits = 0
  /\ watching = FALSE /\ unreported = FALSE
  /\ queue = <<>> /\ turn = None /\ candidate = Absent
  /\ sourcePresent = (disk # Absent)
  /\ IF disk = Absent THEN store = None /\ createStore = None /\ stores = 0
                      ELSE store = NewStore(1, disk) /\ createStore = disk /\ stores = 1
  /\ missed = FALSE /\ refused = FALSE

-----------------------------------------------------------------------------
\* _.store.ts is created, saved or deleted.
Edit ==
  /\ edits < MaxEdits /\ edits' = edits + 1
  /\ disk' \in Version \ {disk}
  /\ unreported' = watching
  /\ missed' = ~watching
  /\ UNCHANGED <<watching, queue, turn, candidate, loader, refused>>

\* watch() is ready and reconciles; it does so again after each stopWatching().
Watch ==
  /\ ~watching /\ Len(queue) < MaxQueue
  /\ watching' = TRUE
  /\ queue' = Append(queue, "reconcile")
  /\ UNCHANGED <<file, unreported, turn, candidate, loader, history>>

\* stopWatching() closes the watcher, and waits for the queue.
StopWatching ==
  /\ watching
  /\ watching' = FALSE /\ unreported' = FALSE
  /\ missed' = (missed \/ unreported)
  /\ UNCHANGED <<file, queue, turn, candidate, loader, refused>>

\* The watcher reports the file once writing has finished.
Report ==
  /\ unreported /\ Len(queue) < MaxQueue
  /\ unreported' = FALSE
  /\ queue' = Append(queue, IF disk = Absent THEN "unlink" ELSE "saved")
  /\ UNCHANGED <<file, watching, turn, candidate, loader, history>>

-----------------------------------------------------------------------------
NextTurn(kind) == turn = None /\ queue # <<>> /\ Head(queue) = kind /\ queue' = Tail(queue)

\* handleWatchEvent("add") or ("change"), up to the import.
Saved ==
  /\ NextTurn("saved")
  /\ turn' = "import"
  /\ sourcePresent' = TRUE
  /\ UNCHANGED <<file, watcher, candidate, store, createStore, stores, history>>

\* Fault: the deletion of the source deletes the store.
UnlinkDeletes ==
  /\ NextTurn("unlink")
  /\ sourcePresent' = FALSE
  /\ store' = None
  /\ UNCHANGED <<file, watcher, turn, candidate, createStore, stores, history>>

\* handleWatchEvent("unlink"): a store there is stays, and a diagnostic is written.
Unlink ==
  /\ NextTurn("unlink")
  /\ sourcePresent' = FALSE
  /\ UNCHANGED <<file, watcher, turn, candidate, store, createStore, stores, history>>

\* reconcileAfterReady(), up to the import: only when the file came or went.
Reconcile ==
  /\ NextTurn("reconcile")
  /\ LET present == disk # Absent IN
     /\ turn' = IF present /\ present # sourcePresent THEN "import" ELSE None
     /\ sourcePresent' = present
  /\ UNCHANGED <<file, watcher, candidate, store, createStore, stores, history>>

\* Fault: the module comes from Node's cache when it was imported before.
ReadCached == IF createStore = None THEN disk ELSE createStore

\* importCandidate() imports the file as it is now.
Read == disk

\* It fails later, in Apply, if it does.
Import ==
  /\ turn = "import"
  /\ turn' = "apply"
  /\ candidate' = Read
  /\ missed' = FALSE
  /\ UNCHANGED <<file, watcher, queue, loader, refused>>

\* Fault: a field that the live store does not have is defined without a value.
AddedWithoutValue(live, new) ==
  [f \in Fields |-> IF live[f] = Unset /\ new[f] # Unset THEN None ELSE live[f]]

\* The live store keeps its own fields and gets those it does not have.
MergedFields(live, new) == [f \in Fields |-> IF live[f] = Unset THEN new[f] ELSE live[f]]

\* Fault: the constructor is taken over before the live store has been changed.
FactoryFirst(source) ==
  /\ createStore' = source
  /\ store' = IF store.extensible
              THEN [store EXCEPT !.class = source.class,
                                 !.fields = MergedFields(@, source.fields)]
              ELSE store
  /\ stores' = stores
  /\ refused' = ~store.extensible

(***************************************************************************)
(* applyCandidate() on a live store.  One that is not extensible takes     *)
(* neither new fields nor a new prototype: the error comes before anything *)
(* has changed, or what was changed is put back.                           *)
(***************************************************************************)
MergeCandidate(source) ==
  /\ IF store.extensible
     THEN /\ store' = [store EXCEPT !.class = source.class,
                                    !.fields = MergedFields(@, source.fields)]
          /\ createStore' = source
     ELSE UNCHANGED <<store, createStore>>
  /\ stores' = stores
  /\ refused' = ~store.extensible

\* The import ends, and the candidate is applied if there is one.
Apply ==
  /\ turn = "apply"
  /\ turn' = None
  /\ CASE candidate \notin Sources -> UNCHANGED <<store, createStore, stores, refused>>
       [] candidate \in Sources /\ store # None -> MergeCandidate(candidate)
       [] candidate \in Sources /\ store = None ->
            /\ stores < MaxStores /\ stores' = stores + 1
            /\ store' = NewStore(stores', candidate)
            /\ createStore' = candidate
            /\ refused' = FALSE
  /\ UNCHANGED <<file, watcher, queue, candidate, sourcePresent, missed>>

-----------------------------------------------------------------------------
\* reset() asks for its turn, and gets it.
Pause ==
  /\ Len(queue) < MaxQueue
  /\ queue' = Append(queue, "pause")
  /\ UNCHANGED <<file, watcher, turn, candidate, loader, history>>

PauseGranted ==
  /\ NextTurn("pause")
  /\ turn' = "paused"
  /\ UNCHANGED <<file, watcher, candidate, loader, history>>

\* storeLoader.reset()
ResetStore ==
  /\ IF createStore = None
     THEN store' = None /\ stores' = stores
     ELSE /\ stores < MaxStores /\ stores' = stores + 1
          /\ store' = NewStore(stores', createStore)
  /\ UNCHANGED createStore

\* The reset constructs the store, unless its constructor throws, and resumes.
Reset ==
  /\ turn = "paused"
  /\ turn' = None
  /\ ResetStore \/ UNCHANGED <<store, createStore, stores>>
  /\ UNCHANGED <<file, watcher, queue, candidate, sourcePresent, history>>

\* A handler, a scenario or the REPL changes the store.
Mutate ==
  /\ store # None
  /\ \/ \E f \in Fields, v \in Values \cup {Unset} :
          /\ store.extensible \/ store.fields[f] # Unset
          /\ store' = [store EXCEPT !.fields[f] = v]
     \/ store' = [store EXCEPT !.extensible = FALSE]
  /\ UNCHANGED <<file, watcher, queue, turn, candidate, sourcePresent, createStore,
                 stores, history>>

LoaderStep == Saved \/ Unlink \/ Reconcile \/ Import \/ Apply

Next == \/ Edit \/ Watch \/ StopWatching \/ Report
        \/ LoaderStep
        \/ Pause \/ PauseGranted \/ Reset
        \/ Mutate

Spec == Init /\ [][Next]_vars

-----------------------------------------------------------------------------
(***************************************************************************)
(* "Hot reload preserves identity": no event replaces or removes the store *)
(* that handlers hold, or touches the value of a field it has.             *)
(***************************************************************************)
KeepsLiveStore ==
  [][LoaderStep /\ store # None =>
       /\ store' # None /\ store'.id = store.id
       /\ \A f \in Fields : store.fields[f] # Unset => store'.fields[f] = store.fields[f]]_vars

(***************************************************************************)
(* "retaining the last good store": the live store has the methods of the  *)
(* version that a reset would construct.  An update that fails halfway,    *)
(* and a reset that does, leave none of one version and some of another.   *)
(***************************************************************************)
OneVersion ==
  /\ store = None <=> createStore = None
  /\ store # None => store.class = createStore.class

\* No turn is left that could change the store.
Settled == watching /\ ~unreported /\ queue = <<>> /\ turn = None

(***************************************************************************)
(* A good version that was saved under the watcher's eyes is in use once   *)
(* the events are handled, in whatever order saves, deletions, failures    *)
(* and resets came, unless the live store could not take it.               *)
(***************************************************************************)
SavedStoreUsed ==
  Settled /\ disk \in Sources /\ ~missed /\ ~refused => createStore = disk
=============================================================================
