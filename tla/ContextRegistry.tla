-------------------------- MODULE ContextRegistry ---------------------------
(***************************************************************************)
(* Live contexts and hot reload:                                           *)
(* packages/runtime/src/server/context-registry.ts, with what calls it:    *)
(* the module loader (a _.context file is loaded, saved, deleted, or all   *)
(* contexts are rebuilt), the Admin API, and route handlers, which find    *)
(* the nearest context and write to it.                                    *)
(*                                                                         *)
(* Every operation is synchronous.  Paths are those of directories, which  *)
(* are taken to differ in more than upper and lower case.  A context is    *)
(* what a reload looks at: its enumerable fields and its prototype.        *)
(***************************************************************************)
EXTENDS Naturals, Sequences

CONSTANTS
  Paths,      \* routes directories
  Root,       \* "/"
  Tried,      \* the paths that find(p) tries: p, its parent, ..., Root
  Fields, Values,
  Unset,      \* undefined: a field the object does not have
  Classes,    \* prototypes: one for each version of a Context class
  Plain,      \* Object.prototype
  None,       \* a Map has no such key
  Sources,    \* what a _.context file may construct
  Bodies,     \* what may be posted to the Admin API
  Deletable   \* directories whose _.context file may be deleted

Context == [fields : [Fields -> Values \cup {Unset}], class : Classes \cup {Plain}]

ASSUME PathsAssumption ==
  /\ Root \in Paths
  /\ Tried \in [Paths -> Seq(Paths)]
  /\ \A p \in Paths : Tried[p] # <<>> /\ Tried[p][1] = p
  /\ \A p \in Paths : Tried[p][Len(Tried[p])] = Root
  /\ Deletable \subseteq Paths

ASSUME ContextAssumption ==
  /\ None \notin Context
  /\ Sources \subseteq Context
  /\ Bodies \subseteq Context

VARIABLES
  entries, cache, seen,  \* of the registry, by their names
  contextFactories,      \* of the module loader: the last good constructors
  initialized,           \* history: what the constructor last made of a file,
  posted                 \* and the paths to which a body was posted since then

vars == <<entries, cache, seen, contextFactories, initialized, posted>>

Optional(S) == [Paths -> S \cup {None}]

TypeOK ==
  /\ entries \in Optional(Context)
  /\ cache \in Optional(Context)
  /\ seen \in SUBSET Paths
  /\ contextFactories \in Optional(Sources)
  /\ initialized \in Optional(Sources)
  /\ posted \in SUBSET Paths

-----------------------------------------------------------------------------
\* new ContextRegistry(), and clear(): only the root has a context, an empty one.
EmptyContext == [fields |-> [f \in Fields |-> Unset], class |-> Plain]

\* Fault: clear() does not add the root context again.
NothingAt(p) == None

RootContext(p) == IF p = Root THEN EmptyContext ELSE None

\* Fault: the clone does not keep the prototype chain.
CloneWithoutPrototype(context) == [context EXCEPT !.class = None]

\* cloneForCache(): a copy of the fields, with the prototype.
CloneForCache(context) == context

Registered(p) == entries[p] # None

\* find(path): the first path that has a context, of those it tries.
Hits(p) == {i \in DOMAIN Tried[p] : Registered(Tried[p][i])}
Nearest(p) == Tried[p][CHOOSE i \in Hits(p) : \A j \in Hits(p) : i <= j]

\* Fault: the snapshot is the live object itself.
LiveBaseline(p) == entries[p]

\* The snapshot that a reload of p is compared with.
Baseline(p) == cache[p]

\* Enumerable fields of the new object that differ from the snapshot are
\* assigned to the live one, which takes the new prototype.
Merge(live, new, old) ==
  [fields |-> [f \in Fields |->
                 IF new.fields[f] # Unset /\ (old = None \/ new.fields[f] # old.fields[f])
                 THEN new.fields[f] ELSE live.fields[f]],
   class |-> new.class]

\* update(path, context): add it the first time, merge it from then on.
Update(p, new) ==
  /\ seen' = seen \cup {p}
  /\ entries' = IF p \in seen
                THEN [entries EXCEPT ![Nearest(p)] = Merge(@, new, Baseline(p))]
                ELSE [entries EXCEPT ![p] = new]
  /\ cache' = [cache EXCEPT ![p] = CloneForCache(new)]

\* Fault: a removed path still counts as seen.
RemoveButSeen(p) ==
  /\ entries' = [entries EXCEPT ![p] = None]
  /\ cache' = [cache EXCEPT ![p] = None]
  /\ UNCHANGED seen

Remove(p) ==
  /\ entries' = [entries EXCEPT ![p] = None]
  /\ cache' = [cache EXCEPT ![p] = None]
  /\ seen' = seen \ {p}

\* clear(), and update() of each path in Built with what its factory makes.
Rebuild(factories, Built) ==
  /\ entries' = [p \in Paths |-> IF p \in Built THEN factories[p] ELSE RootContext(p)]
  /\ cache' = [p \in Paths |->
                 IF p \in Built THEN CloneForCache(factories[p]) ELSE RootContext(p)]
  /\ seen' = Built
  /\ initialized' = [p \in Paths |-> IF p \in Built THEN factories[p] ELSE None]
  /\ posted' = {}

-----------------------------------------------------------------------------
HasFactory == {p \in Paths : contextFactories[p] # None}

\* load() has found the _.context files there are, and built their contexts.
Init ==
  /\ contextFactories \in Optional(Sources)
  /\ entries = [p \in Paths |-> IF p \in HasFactory THEN contextFactories[p]
                                                    ELSE RootContext(p)]
  /\ cache = entries
  /\ seen = HasFactory
  /\ initialized = contextFactories
  /\ posted = {}

\* A _.context file was added or saved, and its constructor returned.  When the
\* import or the constructor fails, nothing changes.
Reload(p, source) ==
  /\ contextFactories' = [contextFactories EXCEPT ![p] = source]
  /\ initialized' = [initialized EXCEPT ![p] = source]
  /\ posted' = posted \ {p}
  /\ Update(p, source)

\* A _.context file was deleted.
Unlink(p) ==
  /\ contextFactories[p] # None
  /\ contextFactories' = [contextFactories EXCEPT ![p] = None]
  /\ initialized' = [initialized EXCEPT ![p] = None]
  /\ posted' = posted \ {p}
  /\ Remove(p)

\* resetContexts(): when a constructor throws, some contexts are not built.
ResetContexts ==
  /\ \E Built \in SUBSET HasFactory : Rebuild(contextFactories, Built)
  /\ UNCHANGED contextFactories

\* POST /_counterfact/api/contexts/...
AdminUpdate(p, body) ==
  /\ posted' = posted \cup {p}
  /\ Update(p, body)
  /\ UNCHANGED <<contextFactories, initialized>>

\* A handler below p writes to the context it was given.
Mutate(p) ==
  /\ Hits(p) # {}
  /\ \E f \in Fields, v \in Values :
       entries' = [entries EXCEPT ![Nearest(p)].fields[f] = v]
  /\ UNCHANGED <<cache, seen, contextFactories, initialized, posted>>

Next ==
  \/ \E p \in Paths, source \in Sources : Reload(p, source)
  \/ \E p \in Deletable : Unlink(p)
  \/ ResetContexts
  \/ \E p \in Paths, body \in Bodies : AdminUpdate(p, body)
  \/ \E p \in Paths : Mutate(p)

Spec == Init /\ [][Next]_vars

-----------------------------------------------------------------------------
(***************************************************************************)
(* find() "falls back to "/" which always has a context": it never runs    *)
(* past the root, which is its own parent.                                 *)
(***************************************************************************)
EveryPathFound == \A p \in Paths : Hits(p) # {}

(***************************************************************************)
(* update() merges into what find(path) returns.  That is the context of   *)
(* path itself and never the one of a parent directory, which handlers     *)
(* elsewhere share, also after files were deleted and contexts rebuilt.    *)
(***************************************************************************)
Updates(p) == \/ \E source \in Sources : Reload(p, source)
              \/ \E body \in Bodies : AdminUpdate(p, body)
OthersKept(p) == \A q \in Paths \ {p} : entries'[q] = entries[q]
UpdatesStayLocal == [][\A p \in Paths : Updates(p) => OthersKept(p)]_vars

(***************************************************************************)
(* docs/features/hot-reload.md: a saved context "applies field values that *)
(* differ from their previous source initialization; fields with unchanged *)
(* initialized values keep their live mutations", and takes new methods.   *)
(***************************************************************************)
Preserves(p, source) ==
  /\ entries'[p].class = source.class
  /\ \A f \in Fields :
       entries'[p].fields[f] =
         IF source.fields[f] \in {Unset, initialized[p].fields[f]}
         THEN entries[p].fields[f] ELSE source.fields[f]
Saved(p, source) == Reload(p, source) /\ initialized[p] # None

\* The promise, for the contexts to which nobody has posted a body since.
PreservesLive ==
  [][\A p \in Paths \ posted, source \in Sources :
       Saved(p, source) => Preserves(p, source)]_vars

\* The promise as it stands, which a posted body breaks: it is the snapshot.
PreservesPosted ==
  [][\A p \in Paths, source \in Sources : Saved(p, source) => Preserves(p, source)]_vars
=============================================================================
