------------------------- MODULE StoreLoader_proofs -------------------------
(***************************************************************************)
(* Theorems about StoreLoader, for any fields, classes and versions of     *)
(* _.store.ts and any number of edits, stores and turns that wait.         *)
(*                                                                         *)
(* That the live store is of one version is inductive as it stands.  That  *)
(* what was saved is in use is not: the save has to be followed through    *)
(* the watcher, the queue and the import, past deletions, resets and       *)
(* restarts of the watcher (OnItsWay, NothingNewer).                       *)
(***************************************************************************)
EXTENDS StoreLoader, TLAPS

\* A turn for a save waits in the queue.
SaveWaits == \E i \in 1..Len(queue) : queue[i] = "saved"

\* The version on disk is good, and the watcher has nothing more to say of it.
Noticed == disk \in Sources /\ ~missed /\ ~unreported

\* Then a turn reads it, has read it, or has applied it.
OnItsWay ==
  Noticed => \/ SaveWaits \/ turn = "import" \/ (turn = "apply" /\ candidate = disk)
             \/ createStore = disk \/ refused

\* An older candidate is applied only when a turn for the newer one waits.
NothingNewer == turn = "apply" /\ Noticed => SaveWaits \/ candidate = disk

IInv == TypeOK /\ OneVersion /\ OnItsWay /\ NothingNewer

-----------------------------------------------------------------------------
(* What single steps do.                                                   *)

\* A new store is a store, and of the version it was made of.
LEMMA NewStoreType ==
  ASSUME NEW n \in 1..MaxStores, NEW source \in Sources
  PROVE  NewStore(n, source) \in Store /\ NewStore(n, source).class = source.class
  BY StoreAssumption DEF NewStore, Store, Construction

\* A store is no sentinel.
LEMMA StoreIsNotNone == None \notin Sources /\ Broken \notin Sources /\ Absent \notin Sources
  BY StoreAssumption

\* The merge of a candidate keeps the values of fields that are set.
LEMMA MergeKeeps ==
  ASSUME NEW live \in [Fields -> Values \cup {Unset}], NEW new \in [Fields -> Values \cup {Unset}]
  PROVE  /\ MergedFields(live, new) \in [Fields -> Values \cup {Unset}]
         /\ \A f \in Fields : live[f] # Unset => MergedFields(live, new)[f] = live[f]
  BY DEF MergedFields

\* A store with another prototype and other fields.
LEMMA StoreChanged ==
  ASSUME NEW class \in Classes, NEW fields \in [Fields -> Values \cup {Unset}], store \in Store,
         store' = [store EXCEPT !.class = class, !.fields = fields]
  PROVE  /\ store' \in Store /\ store' # None
         /\ store'.class = class /\ store'.fields = fields /\ store'.id = store.id
<1>1. /\ store' \in Store /\ store'.class = class /\ store'.fields = fields
      /\ store'.id = store.id
  BY DEF Store
<1> QED BY <1>1, StoreAssumption

\* A field of a store is set or deleted, or it is frozen.
LEMMA StoreMutated ==
  ASSUME NEW live \in Store, NEW changed,
         \/ \E f \in Fields, v \in Values \cup {Unset} : changed = [live EXCEPT !.fields[f] = v]
         \/ changed = [live EXCEPT !.extensible = FALSE]
  PROVE  changed \in Store /\ changed # None /\ changed.class = live.class
<1>1. CASE changed = [live EXCEPT !.extensible = FALSE]
  BY <1>1, StoreAssumption DEF Store
<1>2. ASSUME NEW f \in Fields, NEW v \in Values \cup {Unset},
             changed = [live EXCEPT !.fields[f] = v]
      PROVE  changed \in Store /\ changed.class = live.class
  <2> DEFINE fields == [live.fields EXCEPT ![f] = v]
  <2>1. fields \in [Fields -> Values \cup {Unset}]
    BY DEF Store
  <2>2. changed = [live EXCEPT !.fields = fields]
    BY <1>2
  <2> HIDE DEF fields
  <2> QED BY <2>1, <2>2 DEF Store
<1> QED BY <1>1, <1>2, StoreAssumption

\* Appending to the queue and taking its head.
LEMMA QueueGrows ==
  ASSUME queue \in Seq({"saved", "unlink", "reconcile", "pause"}),
         NEW kind \in {"saved", "unlink", "reconcile", "pause"}, queue' = Append(queue, kind)
  PROVE  /\ queue' \in Seq({"saved", "unlink", "reconcile", "pause"})
         /\ SaveWaits => SaveWaits'
         /\ kind = "saved" => SaveWaits'
  BY DEF SaveWaits

LEMMA QueueShrinks ==
  ASSUME queue \in Seq({"saved", "unlink", "reconcile", "pause"}), NEW kind, NextTurn(kind)
  PROVE  /\ queue' \in Seq({"saved", "unlink", "reconcile", "pause"})
         /\ turn = None
         /\ SaveWaits /\ kind # "saved" => SaveWaits'
<1>1. queue # <<>> /\ queue' = Tail(queue) /\ Head(queue) = kind /\ turn = None
  BY DEF NextTurn
<1>2. /\ Len(queue) \in Nat /\ Len(queue') = Len(queue) - 1 /\ Head(queue) = queue[1]
      /\ \A i \in 1..Len(queue') : queue'[i] = queue[i + 1]
  BY <1>1
<1>3. ASSUME SaveWaits, kind # "saved" PROVE SaveWaits'
  <2>1. PICK i \in 1..Len(queue) : queue[i] = "saved"
    BY <1>3 DEF SaveWaits
  <2>2. i - 1 \in 1..Len(queue') /\ queue'[i - 1] = "saved"
    BY <1>1, <1>2, <1>3, <2>1
  <2> QED BY <2>2 DEF SaveWaits
<1> QED BY <1>1, <1>3

-----------------------------------------------------------------------------
LEMMA InitIInv == Init => IInv
<1> SUFFICES ASSUME Init PROVE IInv
  OBVIOUS
<1>1. CASE disk = Absent
  <2>1. TypeOK
    <3>1. sourcePresent \in BOOLEAN
      BY Zenon DEF Init
    <3>2. /\ disk \in Version /\ candidate \in Version /\ edits \in 0..MaxEdits
          /\ queue \in Seq({"saved", "unlink", "reconcile", "pause"})
      BY <1>1, StoreAssumption DEF Init, Version
    <3>3. store \in Store \cup {None} /\ createStore \in Sources \cup {None} /\ stores \in 0..MaxStores
      BY <1>1, StoreAssumption DEF Init
    <3> QED BY <3>1, <3>2, <3>3 DEF Init, TypeOK
  <2> QED BY <1>1, <2>1, StoreAssumption, StoreIsNotNone
          DEF Init, IInv, OneVersion, OnItsWay, NothingNewer, Noticed
<1>2. CASE disk # Absent
  <2>1. disk \in Sources /\ store = NewStore(1, disk) /\ 1 \in 1..MaxStores
    BY <1>2, StoreAssumption DEF Init
  <2>2. TypeOK
    <3>1. sourcePresent \in BOOLEAN
      BY Zenon DEF Init
    <3>2. /\ disk \in Version /\ candidate \in Version /\ edits \in 0..MaxEdits
          /\ queue \in Seq({"saved", "unlink", "reconcile", "pause"})
      BY <2>1, StoreAssumption DEF Init, Version
    <3>3. store \in Store \cup {None} /\ createStore \in Sources \cup {None} /\ stores \in 0..MaxStores
      BY <1>2, <2>1, NewStoreType DEF Init
    <3> QED BY <3>1, <3>2, <3>3 DEF Init, TypeOK
  <2>3. OneVersion
    BY <1>2, <2>1, NewStoreType, StoreIsNotNone, StoreAssumption DEF Init, OneVersion
  <2> QED BY <1>2, <2>2, <2>3, StoreAssumption DEF Init, IInv, OnItsWay, NothingNewer, Noticed
<1> QED BY <1>1, <1>2

-----------------------------------------------------------------------------
(* The steps.                                                              *)

\* Users and the watcher.
LEMMA WatcherStep ==
  ASSUME IInv, Edit \/ Watch \/ StopWatching \/ Report
  PROVE  IInv'
<1> USE DEF IInv
<1>1. CASE Edit
  <2>1. TypeOK' /\ OneVersion'
    BY <1>1, StoreAssumption DEF Edit, TypeOK, OneVersion, Version, loader
  <2>2. ~Noticed'
    BY <1>1 DEF Edit, Noticed, TypeOK
  <2> QED BY <2>1, <2>2 DEF OnItsWay, NothingNewer
<1>2. CASE Watch
  <2>1. SaveWaits => SaveWaits'
    BY <1>2, QueueGrows DEF Watch, TypeOK
  <2>2. TypeOK' /\ OneVersion'
    BY <1>2, QueueGrows DEF Watch, TypeOK, OneVersion, loader, file, history
  <2> QED BY <1>2, <2>1, <2>2
          DEF Watch, OnItsWay, NothingNewer, Noticed, loader, file, history
<1>3. CASE StopWatching
  <2>1. TypeOK' /\ OneVersion'
    BY <1>3 DEF StopWatching, TypeOK, OneVersion, loader, file
  <2>2. Noticed' => Noticed
    BY <1>3 DEF StopWatching, Noticed, file
  <2> QED BY <1>3, <2>1, <2>2
          DEF StopWatching, OnItsWay, NothingNewer, SaveWaits, loader, file
<1>4. CASE Report
  <2>1. TypeOK' /\ OneVersion'
    BY <1>4, QueueGrows DEF Report, TypeOK, OneVersion, loader, file, history
  <2>2. disk \in Sources => SaveWaits'
    BY <1>4, QueueGrows, StoreIsNotNone DEF Report, TypeOK
  <2>3. Noticed' => SaveWaits'
    BY <1>4, <2>2 DEF Report, Noticed, file
  <2> QED BY <2>1, <2>3 DEF OnItsWay, NothingNewer
<1> QED BY <1>1, <1>2, <1>3, <1>4

\* Turns that begin, up to the import.
LEMMA TurnBegins ==
  ASSUME IInv, Saved \/ Unlink \/ Reconcile \/ PauseGranted
  PROVE  IInv'
<1> USE DEF IInv
<1>1. turn = None /\ turn # "apply" /\ turn # "import"
  BY StoreAssumption DEF Saved, Unlink, Reconcile, PauseGranted, NextTurn
<1>2. TypeOK' /\ OneVersion'
  BY QueueShrinks, StoreAssumption
     DEF Saved, Unlink, Reconcile, PauseGranted, TypeOK, OneVersion, file, watcher, loader, history
<1>3. turn' # "apply" /\ (Noticed' <=> Noticed)
  BY <1>1, StoreAssumption
     DEF Saved, Unlink, Reconcile, PauseGranted, Noticed, file, watcher, history
<1>4. turn' = "import" \/ (SaveWaits => SaveWaits')
  BY QueueShrinks DEF Saved, Unlink, Reconcile, PauseGranted, TypeOK
<1>5. UNCHANGED <<disk, createStore, refused>>
  BY DEF Saved, Unlink, Reconcile, PauseGranted, file, loader, history
<1> QED BY <1>1, <1>2, <1>3, <1>4, <1>5 DEF OnItsWay, NothingNewer

\* The import, and the application of what it has read.
LEMMA ImportStep ==
  ASSUME IInv, Import
  PROVE  IInv'
  BY StoreAssumption DEF IInv, Import, Read, TypeOK, OneVersion, OnItsWay, NothingNewer, Noticed,
     file, watcher, loader

LEMMA ApplyStep ==
  ASSUME IInv, Apply
  PROVE  IInv'
<1> USE DEF IInv
<1>1. TypeOK' /\ OneVersion' /\ (candidate \in Sources => createStore' = candidate \/ refused')
  <2>1. CASE candidate \notin Sources
    BY <2>1, StoreAssumption DEF Apply, TypeOK, OneVersion, file, watcher
  <2>2. CASE candidate \in Sources /\ store # None
    <3>1. store \in Store /\ candidate.fields \in [Fields -> Values \cup {Unset}]
          /\ candidate.class \in Classes
      BY <2>2, StoreAssumption DEF TypeOK, Construction
    <3>2. MergedFields(store.fields, candidate.fields) \in [Fields -> Values \cup {Unset}]
      BY <3>1, MergeKeeps DEF Store
    <3>3. MergeCandidate(candidate)
      BY <2>2 DEF Apply
    <3>4. /\ store' \in Store /\ store' # None
          /\ store.extensible => store'.class = candidate.class
      <4> DEFINE merged == MergedFields(store.fields, candidate.fields)
      <4>1. merged \in [Fields -> Values \cup {Unset}]
        BY <3>2
      <4>2. CASE store.extensible
        <5>1. store' = [store EXCEPT !.class = candidate.class, !.fields = merged]
          BY <3>3, <4>2 DEF MergeCandidate
        <5> HIDE DEF merged
        <5> QED BY <3>1, <4>1, <5>1, StoreChanged
      <4>3. CASE ~store.extensible
        BY <2>2, <3>1, <3>3, <4>3 DEF MergeCandidate
      <4> QED BY <4>2, <4>3
    <3>5. createStore' \in Sources \cup {None} /\ (createStore' = candidate \/ refused')
      BY <2>2, <3>3, <3>1 DEF MergeCandidate, TypeOK, Store
    <3>6. OneVersion'
      BY <2>2, <3>1, <3>3, <3>4, StoreIsNotNone DEF MergeCandidate, OneVersion
    <3>7. refused' \in BOOLEAN /\ stores' = stores
      BY <3>1, <3>3 DEF MergeCandidate, Store
    <3> QED BY <3>4, <3>5, <3>6, <3>7, StoreAssumption DEF Apply, TypeOK, file, watcher
  <2>3. CASE candidate \in Sources /\ store = None
    <3>1. /\ stores' = stores + 1 /\ stores' \in 1..MaxStores
          /\ store' = NewStore(stores', candidate) /\ createStore' = candidate /\ refused' = FALSE
      BY <2>3, StoreAssumption DEF Apply, TypeOK
    <3>2. store' \in Store /\ store'.class = candidate.class /\ store' # None
      BY <2>3, <3>1, NewStoreType, StoreAssumption DEF NewStore
    <3>3. OneVersion' /\ (createStore' = candidate \/ refused')
      BY <2>3, <3>1, <3>2, StoreIsNotNone DEF OneVersion
    <3>4. store' \in Store \cup {None} /\ createStore' \in Sources \cup {None}
          /\ stores' \in 0..MaxStores
      BY <2>3, <3>1, <3>2, StoreAssumption
    <3>5. TypeOK'
      BY <3>1, <3>4 DEF Apply, TypeOK, file, watcher
    <3> QED BY <3>3, <3>5
  <2> QED BY <2>1, <2>2, <2>3
<1>2. turn' # "apply" /\ turn = "apply" /\ (Noticed' <=> Noticed) /\ (SaveWaits' <=> SaveWaits)
  BY StoreAssumption DEF Apply, Noticed, SaveWaits, file, watcher
<1>3. Noticed => SaveWaits \/ (candidate = disk /\ candidate \in Sources)
  BY <1>2 DEF NothingNewer, Noticed
<1>4. disk' = disk
  BY DEF Apply, file
<1>5. OnItsWay'
  BY <1>1, <1>2, <1>3, <1>4, Zenon DEF OnItsWay
<1> QED BY <1>1, <1>2, <1>5 DEF NothingNewer

\* Resets, and handlers that change the store.
LEMMA OtherStep ==
  ASSUME IInv, Pause \/ Reset \/ Mutate
  PROVE  IInv'
<1> USE DEF IInv
<1>1. CASE Pause
  <2>1. SaveWaits => SaveWaits'
    BY <1>1, QueueGrows DEF Pause, TypeOK
  <2>2. TypeOK' /\ OneVersion'
    BY <1>1, QueueGrows DEF Pause, TypeOK, OneVersion, loader, file, watcher, history
  <2> QED BY <1>1, <2>1, <2>2
          DEF Pause, OnItsWay, NothingNewer, Noticed, loader, file, watcher, history
<1>2. CASE Reset
  <2>1. TypeOK' /\ OneVersion' /\ createStore' = createStore
    <3>1. CASE ResetStore /\ createStore # None
      <4>1. createStore \in Sources /\ stores' = stores + 1 /\ stores' \in 1..MaxStores
            /\ store' = NewStore(stores', createStore) /\ createStore' = createStore
        BY <3>1, StoreAssumption DEF ResetStore, TypeOK
      <4>2. store' \in Store /\ store'.class = createStore.class /\ store' # None
        BY <4>1, NewStoreType, StoreAssumption DEF NewStore
      <4> QED BY <1>2, <4>1, <4>2, <3>1, StoreAssumption
              DEF Reset, TypeOK, OneVersion, file, watcher, history
    <3>2. CASE ~(ResetStore /\ createStore # None)
      BY <1>2, <3>2, StoreAssumption
         DEF Reset, ResetStore, TypeOK, OneVersion, file, watcher, history
    <3> QED BY <3>1, <3>2
  <2>2. turn' # "apply" /\ turn = "paused"
    BY <1>2, StoreAssumption DEF Reset
  <2> QED BY <1>2, <2>1, <2>2
          DEF Reset, OnItsWay, NothingNewer, Noticed, SaveWaits, file, watcher, history
<1>3. CASE Mutate
  <2>1. store \in Store /\ store' \in Store /\ store'.class = store.class /\ store' # None
    BY <1>3, StoreMutated DEF Mutate, TypeOK
  <2>2. TypeOK' /\ OneVersion'
    BY <1>3, <2>1 DEF Mutate, TypeOK, OneVersion, file, watcher, history
  <2> QED BY <1>3, <2>2
          DEF Mutate, OnItsWay, NothingNewer, Noticed, SaveWaits, file, watcher, history
<1> QED BY <1>1, <1>2, <1>3

LEMMA StepIInv == IInv /\ [Next]_vars => IInv'
<1> SUFFICES ASSUME IInv, [Next]_vars PROVE IInv'
  OBVIOUS
<1>1. CASE UNCHANGED vars
  BY <1>1 DEF IInv, TypeOK, OneVersion, OnItsWay, NothingNewer, Noticed, SaveWaits,
     vars, file, watcher, loader, history
<1>2. CASE Next
  BY <1>2, WatcherStep, TurnBegins, ImportStep, ApplyStep, OtherStep DEF Next, LoaderStep
<1> QED BY <1>1, <1>2

LEMMA SpecIInv == Spec => []IInv
  BY InitIInv, StepIInv, PTL DEF Spec

-----------------------------------------------------------------------------
(* The guarantees.                                                         *)

(***************************************************************************)
(* The fields of the loader keep their types, and its queue holds turns of *)
(* the four kinds alone (store-loader.ts).                                 *)
(***************************************************************************)
THEOREM StoreTypeCorrect == Spec => []TypeOK
  BY SpecIInv, PTL DEF IInv

(***************************************************************************)
(* The live store has the methods of the version that a reset constructs,  *)
(* and is there exactly when there is such a version: no failure leaves a  *)
(* mixture (applyCandidate() and its rollback, reset()).                   *)
(***************************************************************************)
THEOREM StoreOfOneVersion == Spec => []OneVersion
  BY SpecIInv, PTL DEF IInv

(***************************************************************************)
(* Once the watcher, the queue and the imports have come to rest, a good   *)
(* version that was saved under the watcher's eyes is in use, after any    *)
(* saves, deletions, failures, resets and restarts of the watcher          *)
(* (handleWatchEvent(), reconcileAfterReady()).                            *)
(***************************************************************************)
THEOREM SavedStoreIsUsed == Spec => []SavedStoreUsed
<1>1. IInv => SavedStoreUsed
  BY StoreAssumption DEF IInv, OnItsWay, Noticed, SaveWaits, SavedStoreUsed, Settled
<1> QED BY <1>1, SpecIInv, PTL

\* The step that KeepsLiveStore speaks of.
KeepsStore ==
  LoaderStep /\ store # None =>
    /\ store' # None /\ store'.id = store.id
    /\ \A f \in Fields : store.fields[f] # Unset => store'.fields[f] = store.fields[f]

LEMMA StepKeepsStore == IInv /\ [Next]_vars => [KeepsStore]_vars
<1> SUFFICES ASSUME IInv, LoaderStep, store # None
             PROVE  /\ store' # None /\ store'.id = store.id
                    /\ \A f \in Fields : store.fields[f] # Unset
                                           => store'.fields[f] = store.fields[f]
  BY DEF KeepsStore
<1>1. CASE Saved \/ Unlink \/ Reconcile \/ Import
  BY <1>1 DEF Saved, Unlink, Reconcile, Import, loader
<1>2. CASE Apply /\ candidate \in Sources
  <2>1. /\ store \in Store /\ candidate.class \in Classes
        /\ candidate.fields \in [Fields -> Values \cup {Unset}]
    BY <1>2, StoreAssumption DEF IInv, TypeOK, Construction
  <2>2. MergeCandidate(candidate)
    BY <1>2 DEF Apply
  <2>3. CASE ~store.extensible
    BY <2>2, <2>3 DEF MergeCandidate
  <2>4. CASE store.extensible
    <3> DEFINE merged == MergedFields(store.fields, candidate.fields)
    <3>1. /\ merged \in [Fields -> Values \cup {Unset}]
          /\ \A f \in Fields : store.fields[f] # Unset => merged[f] = store.fields[f]
      BY <2>1, MergeKeeps DEF Store
    <3>2. store' = [store EXCEPT !.class = candidate.class, !.fields = merged]
      BY <2>2, <2>4 DEF MergeCandidate
    <3> HIDE DEF merged
    <3>3. store' # None /\ store'.fields = merged /\ store'.id = store.id
      BY <2>1, <3>1, <3>2, StoreChanged
    <3> QED BY <3>1, <3>3
  <2> QED BY <2>3, <2>4
<1>3. CASE Apply /\ candidate \notin Sources
  BY <1>3 DEF Apply
<1> QED BY <1>1, <1>2, <1>3 DEF LoaderStep

(***************************************************************************)
(* No event of the watcher and no candidate replaces the store that        *)
(* handlers hold, or touches a field that it has (applyCandidate()).       *)
(***************************************************************************)
THEOREM ReloadKeepsStore == Spec => KeepsLiveStore
<1>1. Spec => [][KeepsStore]_vars
  BY SpecIInv, StepKeepsStore, PTL DEF Spec
<1> QED BY <1>1, PTL DEF KeepsLiveStore, KeepsStore
=============================================================================
