----------------------- MODULE ContextRegistry_proofs -----------------------
(***************************************************************************)
(* What ContextRegistry promises for every set of paths, fields and        *)
(* sources, and which of it needs an assumption: the root context stays    *)
(* only while its file does.                                                *)
(***************************************************************************)
EXTENDS ContextRegistry, WellFoundedInduction, TLAPS

(***************************************************************************)
(* The first hit exists, so Nearest is a path that has a context; and a    *)
(* path that has a context is its own nearest.                             *)
(***************************************************************************)
LEMMA FirstHit ==
  ASSUME NEW p \in Paths, Hits(p) # {}
  PROVE  Nearest(p) \in Paths /\ Registered(Nearest(p))
<1> DEFINE Less == {ss \in Nat \X Nat : ss[1] < ss[2]}
<1>1. Tried[p] \in Seq(Paths)
  BY PathsAssumption
<1>2. Hits(p) \subseteq 1 .. Len(Tried[p]) /\ Hits(p) \subseteq Nat
  BY <1>1 DEF Hits
<1>3. IsWellFoundedOn(Less, Nat)
  BY NatLessThanWellFounded DEF OpToRel
<1>4. \E i \in Hits(p) : \A j \in Hits(p) : i <= j
  <2> HIDE DEF Less
  <2>1. PICK i \in Hits(p) : \A j \in Hits(p) : <<j, i>> \notin Less
    BY <1>2, <1>3, WFMin
  <2>2. \A j \in Hits(p) : ~(j < i)
    BY <1>2, <2>1 DEF Less
  <2> QED BY <1>2, <2>2
<1> DEFINE first == CHOOSE i \in Hits(p) : \A j \in Hits(p) : i <= j
<1>5. first \in Hits(p) /\ Nearest(p) = Tried[p][first]
  BY <1>4 DEF Nearest
<1> HIDE DEF first
<1>6. first \in 1 .. Len(Tried[p]) /\ Registered(Tried[p][first])
  BY <1>1, <1>5 DEF Hits
<1> QED BY <1>1, <1>5, <1>6

LEMMA OwnFirst ==
  ASSUME NEW p \in Paths, Registered(p)
  PROVE  Nearest(p) = p
<1>1. Tried[p] \in Seq(Paths) /\ Tried[p] # <<>> /\ Tried[p][1] = p
  BY PathsAssumption
<1>2. 1 \in Hits(p) /\ \A j \in Hits(p) : j \in Nat /\ 1 <= j
  BY <1>1 DEF Hits
<1>3. (CHOOSE k \in Hits(p) : \A j \in Hits(p) : k <= j) = 1
  BY <1>2
<1> QED BY <1>1, <1>3 DEF Nearest

LEMMA MergeType ==
  ASSUME NEW live \in Context, NEW new \in Context, NEW old
  PROVE  Merge(live, new, old) \in Context
  BY DEF Merge, Context

LEMMA RootContextType == \A p \in Paths : RootContext(p) \in Context \cup {None}
  BY DEF RootContext, EmptyContext, Context

-----------------------------------------------------------------------------
\* update() never takes the branch that merges for a path without a context.
SeenRegistered == \A p \in seen : Registered(p)

IInv == TypeOK /\ SeenRegistered

LEMMA UpdateIInv ==
  ASSUME IInv, NEW p \in Paths, NEW new \in Context, Update(p, new)
  PROVE  /\ entries' \in Optional(Context) /\ cache' \in Optional(Context)
         /\ seen' \in SUBSET Paths /\ SeenRegistered'
         /\ Registered(p)'
         /\ \A q \in Paths \ {p} : entries'[q] = entries[q]
<1> USE ContextAssumption DEF Optional
<1>1. seen' \in SUBSET Paths /\ cache' \in Optional(Context)
  BY DEF Update, IInv, TypeOK, CloneForCache
<1>2. CASE p \in seen
  <2>1. Registered(p) /\ Nearest(p) = p
    BY <1>2, OwnFirst DEF IInv, SeenRegistered
  <2> DEFINE merged == Merge(entries[p], new, Baseline(p))
  <2>2. merged \in Context
    <3>1. entries[p] \in Context
      BY <2>1 DEF Registered, IInv, TypeOK
    <3> QED BY <3>1, MergeType
  <2>3. entries' = [entries EXCEPT ![p] = merged]
    BY <1>2, <2>1 DEF Update
  <2> HIDE DEF merged
  <2>4. seen' = seen
    BY <1>2 DEF Update
  <2> QED BY <1>1, <2>2, <2>3, <2>4 DEF IInv, TypeOK, SeenRegistered, Registered
<1>3. CASE p \notin seen
  <2>1. entries' = [entries EXCEPT ![p] = new] /\ seen' = seen \cup {p}
    BY <1>3 DEF Update
  <2> QED BY <1>1, <2>1 DEF IInv, TypeOK, SeenRegistered, Registered
<1> QED BY <1>2, <1>3

LEMMA MutateIInv ==
  ASSUME IInv, NEW p \in Paths, Mutate(p)
  PROVE  IInv' /\ \A q \in Paths : Registered(q) => Registered(q)'
<1> USE ContextAssumption DEF Optional
<1>1. PICK f \in Fields, v \in Values :
        entries' = [entries EXCEPT ![Nearest(p)].fields[f] = v]
  BY DEF Mutate
<1> DEFINE q == Nearest(p)
           written == [entries[q] EXCEPT !.fields[f] = v]
<1>2. q \in Paths /\ entries[q] \in Context
  BY FirstHit DEF Mutate, Registered, IInv, TypeOK
<1>3. written \in Context
  BY <1>2 DEF Context
<1>4. entries' = [entries EXCEPT ![q] = written]
  BY <1>1
<1> HIDE DEF q, written
<1>5. UNCHANGED <<cache, seen, contextFactories, initialized, posted>>
  BY DEF Mutate
<1> QED BY <1>2, <1>3, <1>4, <1>5 DEF IInv, TypeOK, SeenRegistered, Registered

LEMMA RebuildIInv ==
  ASSUME IInv, ResetContexts
  PROVE  IInv' /\ (Root \in Paths => Registered(Root)')
<1> USE ContextAssumption DEF Optional
<1>1. PICK Built \in SUBSET HasFactory : Rebuild(contextFactories, Built)
  BY DEF ResetContexts
<1>2. \A p \in Built : p \in Paths /\ contextFactories[p] \in Sources
  BY <1>1 DEF HasFactory, IInv, TypeOK
<1>3. /\ entries' \in Optional(Context) /\ cache' \in Optional(Context)
      /\ initialized' \in Optional(Sources)
  BY <1>1, <1>2, RootContextType DEF Rebuild, CloneForCache
<1>4. \A p \in Built : entries'[p] # None
  BY <1>1, <1>2 DEF Rebuild
<1>5. Root \in Paths => entries'[Root] # None
  BY <1>1, <1>2 DEF Rebuild, RootContext, EmptyContext, Context
<1>6. seen' = Built /\ contextFactories' = contextFactories /\ posted' = {}
  BY <1>1 DEF Rebuild, ResetContexts
<1> QED BY <1>2, <1>3, <1>4, <1>5, <1>6 DEF IInv, TypeOK, SeenRegistered, Registered

LEMMA UnlinkIInv ==
  ASSUME IInv, NEW p \in Paths, Unlink(p)
  PROVE  IInv' /\ \A q \in Paths \ {p} : Registered(q) => Registered(q)'
  BY DEF IInv, TypeOK, Optional, SeenRegistered, Registered, Unlink, Remove

LEMMA InitIInv == Init => IInv /\ Registered(Root)
<1> SUFFICES ASSUME Init PROVE IInv /\ Registered(Root)
  OBVIOUS
<1> USE ContextAssumption, PathsAssumption DEF Optional
<1>1. \A p \in Paths : p \in HasFactory => contextFactories[p] \in Context
  BY DEF Init, HasFactory
<1>2. entries \in Optional(Context)
  BY <1>1, RootContextType DEF Init
<1>3. TypeOK
  BY <1>2 DEF Init, TypeOK, HasFactory
<1>4. SeenRegistered
  BY DEF Init, SeenRegistered, Registered, HasFactory
<1>5. Registered(Root)
  BY <1>1 DEF Init, Registered, RootContext, EmptyContext, Context
<1> QED BY <1>3, <1>4, <1>5 DEF IInv

LEMMA StepIInv == IInv /\ [Next]_vars => IInv'
<1> SUFFICES ASSUME IInv, [Next]_vars PROVE IInv'
  OBVIOUS
<1> USE ContextAssumption, PathsAssumption
<1>1. ASSUME NEW p \in Paths, NEW source \in Sources, Reload(p, source) PROVE IInv'
  <2>1. /\ contextFactories' \in Optional(Sources) /\ initialized' \in Optional(Sources)
        /\ posted' \in SUBSET Paths
        /\ Update(p, source)
    BY <1>1 DEF Reload, IInv, TypeOK, Optional
  <2> QED BY <2>1, UpdateIInv DEF IInv, TypeOK
<1>2. ASSUME NEW p \in Deletable, Unlink(p) PROVE IInv'
  BY <1>2, UnlinkIInv
<1>3. CASE ResetContexts
  BY <1>3, RebuildIInv
<1>4. ASSUME NEW p \in Paths, NEW body \in Bodies, AdminUpdate(p, body) PROVE IInv'
  <2>1. /\ Update(p, body) /\ UNCHANGED <<contextFactories, initialized>>
        /\ posted' \in SUBSET Paths
    BY <1>4 DEF AdminUpdate, IInv, TypeOK
  <2> QED BY <2>1, UpdateIInv DEF IInv, TypeOK
<1>5. ASSUME NEW p \in Paths, Mutate(p) PROVE IInv'
  BY <1>5, MutateIInv
<1>6. CASE UNCHANGED vars
  BY <1>6 DEF vars, IInv, TypeOK, SeenRegistered, Registered
<1> QED BY <1>1, <1>2, <1>3, <1>4, <1>5, <1>6 DEF Next

LEMMA SpecIInv == Spec => []IInv
  BY InitIInv, StepIInv, PTL DEF Spec

(***************************************************************************)
(* Contexts, snapshots and factories are what their types say, whatever    *)
(* the Admin API posts and whichever files are deleted.                    *)
(***************************************************************************)
THEOREM RegistryTypeCorrect == Spec => []TypeOK
  BY SpecIInv, PTL DEF IInv

(***************************************************************************)
(* update() merges into the context of its own path: a path is seen only   *)
(* while it has a context, so find() inside update() does not go up.       *)
(***************************************************************************)
THEOREM ReloadsStayLocal == Spec => UpdatesStayLocal
<1>1. IInv /\ [Next]_vars => [\A p \in Paths : Updates(p) => OthersKept(p)]_vars
  <2> USE DEF OthersKept
  <2>1. ASSUME IInv, NEW p \in Paths, NEW source \in Sources, Reload(p, source)
        PROVE  \A q \in Paths \ {p} : entries'[q] = entries[q]
    BY <2>1, UpdateIInv, ContextAssumption DEF Reload
  <2>2. ASSUME IInv, NEW p \in Paths, NEW body \in Bodies, AdminUpdate(p, body)
        PROVE  \A q \in Paths \ {p} : entries'[q] = entries[q]
    BY <2>2, UpdateIInv, ContextAssumption DEF AdminUpdate
  <2> QED BY <2>1, <2>2 DEF Updates
<1> QED BY <1>1, SpecIInv, PTL DEF Spec, UpdatesStayLocal

-----------------------------------------------------------------------------
(***************************************************************************)
(* As long as the context file of the root directory is not deleted,       *)
(* find() comes back with a context for every path.                        *)
(***************************************************************************)
THEOREM RootIsKept ==
  ASSUME Root \notin Deletable
  PROVE  Spec => []EveryPathFound
<1> USE PathsAssumption, ContextAssumption
<1>1. IInv /\ Registered(Root) /\ [Next]_vars => Registered(Root)'
  <2> SUFFICES ASSUME IInv, Registered(Root), [Next]_vars PROVE Registered(Root)'
    OBVIOUS
  <2>1. ASSUME NEW p \in Paths, NEW new \in Context, Update(p, new)
        PROVE  Registered(Root)'
    BY <2>1, UpdateIInv DEF Registered
  <2>2. CASE (\E p \in Paths, source \in Sources : Reload(p, source))
             \/ (\E p \in Paths, body \in Bodies : AdminUpdate(p, body))
    BY <2>1, <2>2 DEF Reload, AdminUpdate
  <2>3. CASE \E p \in Deletable : Unlink(p)
    BY <2>3, UnlinkIInv
  <2>4. CASE ResetContexts
    BY <2>4, RebuildIInv
  <2>5. CASE \E p \in Paths : Mutate(p)
    BY <2>5, MutateIInv
  <2>6. CASE UNCHANGED vars
    BY <2>6 DEF vars, Registered
  <2> QED BY <2>2, <2>3, <2>4, <2>5, <2>6 DEF Next
<1>2. Registered(Root) => EveryPathFound
  <2> SUFFICES ASSUME Registered(Root), NEW p \in Paths PROVE Hits(p) # {}
    BY DEF EveryPathFound
  <2>1. Tried[p] \in Seq(Paths) /\ Tried[p] # <<>> /\ Tried[p][Len(Tried[p])] = Root
    OBVIOUS
  <2>2. Len(Tried[p]) \in DOMAIN Tried[p]
    BY <2>1
  <2> QED BY <2>1, <2>2 DEF Hits
<1> QED BY <1>1, <1>2, InitIInv, SpecIInv, PTL DEF Spec

-----------------------------------------------------------------------------
\* The snapshot of a context that stems from a file is what the file made.
Stems == \A p \in Paths \ posted : initialized[p] # None =>
           p \in seen /\ cache[p] = initialized[p]

(***************************************************************************)
(* A reload gives the live context the values that were edited and leaves  *)
(* all others as they are, after any history of edits, deletions, rebuilds *)
(* and writes, unless a body was posted to that context since its source   *)
(* was last used.                                                          *)
(***************************************************************************)
THEOREM ReloadPreservesLive == Spec => PreservesLive
<1> USE PathsAssumption, ContextAssumption
<1>1. Init => Stems
  BY DEF Init, Stems, HasFactory
<1>2. IInv /\ Stems /\ [Next]_vars => Stems'
  <2> SUFFICES ASSUME IInv, Stems, [Next]_vars PROVE Stems'
    OBVIOUS
  <2>1. ASSUME NEW p \in Paths, NEW source \in Sources, Reload(p, source) PROVE Stems'
    BY <2>1 DEF Reload, Update, CloneForCache, Stems, IInv, TypeOK, Optional
  <2>2. ASSUME NEW p \in Deletable, Unlink(p) PROVE Stems'
    BY <2>2 DEF Unlink, Remove, Stems, IInv, TypeOK, Optional
  <2>3. CASE ResetContexts
    BY <2>3 DEF ResetContexts, Rebuild, HasFactory, CloneForCache, Stems, IInv, TypeOK,
       Optional
  <2>4. ASSUME NEW p \in Paths, NEW body \in Bodies, AdminUpdate(p, body) PROVE Stems'
    BY <2>4 DEF AdminUpdate, Update, Stems, IInv, TypeOK, Optional
  <2>5. CASE (\E p \in Paths : Mutate(p)) \/ UNCHANGED vars
    BY <2>5 DEF Mutate, vars, Stems
  <2> QED BY <2>1, <2>2, <2>3, <2>4, <2>5 DEF Next
<1>3. ASSUME IInv, Stems, NEW p \in Paths \ posted, NEW source \in Sources,
             Saved(p, source)
      PROVE  Preserves(p, source)
  <2>1. p \in seen /\ Registered(p) /\ Baseline(p) = initialized[p]
    BY <1>3 DEF Saved, Stems, IInv, SeenRegistered, Baseline
  <2>2. entries' = [entries EXCEPT ![p] = Merge(entries[p], source, initialized[p])]
    BY <1>3, <2>1, OwnFirst DEF Saved, Reload, Update
  <2>3. entries'[p] = Merge(entries[p], source, initialized[p])
    BY <1>3, <2>2 DEF IInv, TypeOK, Optional
  <2> QED BY <1>3, <2>3 DEF Saved, Merge, Preserves
<1>4. IInv /\ Stems /\ [Next]_vars =>
        [\A p \in Paths \ posted, source \in Sources :
           Saved(p, source) => Preserves(p, source)]_vars
  BY <1>3
<1> QED BY <1>1, <1>2, <1>4, SpecIInv, PTL DEF Spec, PreservesLive
=============================================================================
