-------------------------- MODULE Generation_proofs --------------------------
(***************************************************************************)
(* For any documents, files and numbers of edits: what is generated agrees *)
(* with the documents that were saved, and what users wrote is kept, the   *)
(* latter as long as directories that are pruned belong to one version.    *)
(* For any directories, and calls that write the helper types of a group:  *)
(* at rest these agree with what the user has.                             *)
(***************************************************************************)
EXTENDS Generation, HelperTypes, TLAPS

Current == setup.versions[turn]
-----------------------------------------------------------------------------
(* Types.                                                                  *)

\* The version whose turn it is belongs to the group.
LEMMA CurrentInGroup ==
  ASSUME setup \in Setups, turn \in DOMAIN setup.versions
  PROVE  /\ Current \in Group
         /\ setup.versions \in Seq(Versions) /\ Group \subseteq Versions
         /\ setup.prune \in BOOLEAN /\ setup.routes \in BOOLEAN
BY GenerationAssumption DEF Current, Group

\* What depends on the configuration and the round alone.
Fixed ==
  /\ Group' = Group /\ RouteWriter' = RouteWriter /\ TypeWriter' = TypeWriter

LEMMA SameRound ==
  ASSUME UNCHANGED <<setup, round>>
  PROVE  Fixed
BY DEF Fixed, Group, RouteWriter, TypeWriter

LEMMA InitType == Init => TypeOK
<1> SUFFICES ASSUME Init PROVE TypeOK
  OBVIOUS
<1>1. 1 \in DOMAIN setup.versions
  BY GenerationAssumption DEF Init
<1>2. routeFiles \in [Routes -> {Missing} \cup RouteFile]
  BY DEF Init, Fresh, RouteFile, Handlers
<1>3. typeFiles \in [Routes -> {Missing} \cup TypeFile]
  BY DEF Init, TypeFile
<1> QED
  BY <1>1, <1>2, <1>3 DEF Init, TypeOK

\* A version's turn, or the end of the round.
LEMMA ReturnStages ==
  ASSUME TypeOK, Return, UNCHANGED setup
  PROVE  /\ turn' \in DOMAIN setup'.versions
         /\ stage' \in {"idle", "load"}
         /\ status' \in {"starting", "watching", "rejected"}
         /\ outcome' \in {"none", "ok", "failed"}
BY CurrentInGroup DEF TypeOK, Return

LEMMA BeginType ==
  ASSUME TypeOK, Begin
  PROVE  TypeOK'
<1>1. 1 \in DOMAIN setup.versions
  BY GenerationAssumption DEF TypeOK
<1>2. RouteWriter \cup TypeWriter \subseteq RouteWriter' \cup TypeWriter'
  <2>1. 1 .. round \subseteq 1 .. round'
    BY DEF TypeOK, Begin
  <2> QED
    BY <2>1 DEF RouteWriter, TypeWriter
<1> QED
  BY <1>1, <1>2 DEF TypeOK, Begin, MayBegin, disk, Group

LEMMA LoadType ==
  ASSUME TypeOK, Load
  PROVE  TypeOK'
<1> DEFINE doc == documents[Current]
<1>0. Current \in Group /\ Group \subseteq Versions /\ Fixed
  BY CurrentInGroup, SameRound DEF TypeOK, Load
<1>1. doc \in Documents
  BY <1>0 DEF TypeOK
<1>2. loaded' \in [Group -> {Missing} \cup Documents]
  BY <1>0, <1>1 DEF TypeOK, Load, Current
<1>3. repository' \subseteq Group \X Routes \X Methods
  BY <1>0 DEF TypeOK, Load, Collected, Operations, Paths, Current
<1>4. obsolete' \subseteq Routes
  BY DEF TypeOK, Load, Fail, Listed
<1> QED
  BY <1>0, <1>2, <1>3, <1>4 DEF Fixed, TypeOK, Load, Fail, disk

LEMMA PruneRouteType ==
  ASSUME TypeOK, NEW r \in Routes, PruneRoute(r)
  PROVE  TypeOK'
<1>0. Fixed
  BY SameRound DEF PruneRoute
<1>1. kept' \subseteq kept /\ obsolete' \subseteq obsolete
  BY DEF PruneRoute, Fail
<1>2. routeFiles' \in [Routes -> {Missing} \cup RouteFile]
  BY DEF TypeOK, PruneRoute
<1> QED
  BY <1>0, <1>1, <1>2 DEF Fixed, TypeOK, PruneRoute, Fail

\* The writers that start are ones that have decided nothing.
LEMMA NewWriters ==
  ASSUME TypeOK, stage # "idle"
  PROVE  /\ NewRouteWriters \subseteq RouteWriter /\ NewTypeWriters \subseteq TypeWriter
         /\ \A w \in NewRouteWriters : w.step = "stat"
         /\ \A w \in NewTypeWriters : w.step = "write" /\ w.kind = "type"
<1>1. Scripts \subseteq Routes
  BY DEF TypeOK, Scripts
<1>2. round \in 1 .. round
  BY DEF TypeOK
<1>3. NewRouteWriters \subseteq RouteWriter
  BY <1>1, <1>2 DEF NewRouteWriters, RouteWriter, HandlersOf
<1>4. NewTypeWriters \subseteq TypeWriter
  <2>1. \A r \in Scripts : TypesOf(r) \in TypeFile
    BY DEF TypesOf, TypeFile
  <2> QED
    BY <1>1, <1>2, <2>1 DEF NewTypeWriters, TypeWriter
<1>5. \A w \in NewRouteWriters : w.step = "stat"
  BY DEF NewRouteWriters
<1>6. \A w \in NewTypeWriters : w.step = "write" /\ w.kind = "type"
  BY DEF NewTypeWriters
<1> QED
  BY <1>3, <1>4, <1>5, <1>6

LEMMA StartWritingType ==
  ASSUME TypeOK, StartWriting
  PROVE  TypeOK'
<1>0. Fixed
  BY SameRound DEF StartWriting
<1>1. writers' \subseteq writers \cup NewRouteWriters \cup NewTypeWriters
  BY DEF StartWriting
<1>2. typeFiles' \in [Routes -> {Missing} \cup TypeFile]
  BY DEF TypeOK, StartWriting, PrunedTypes
<1>3. /\ writers' \subseteq RouteWriter \cup TypeWriter
      /\ \A w \in writers' : w.step = "append" => w.read # Missing
  BY <1>1, NewWriters DEF TypeOK, StartWriting
<1> QED
  BY <1>0, <1>2, <1>3 DEF Fixed, TypeOK, StartWriting, history

\* What the steps of writers leave unchanged.
Quiet == UNCHANGED <<setup, queued, round, turn, repository, overlapped, history, documents,
                     changed, edits>>

\* A writer goes on with `next`, or ends, well or not.
Continues(w, next) == Proceed(w, next) \/ (next = {} /\ Reject(w))

\* A writer that goes on leaves the other writers and the stage, unless it is
\* the first one of its round to reject.
LEMMA ContinuesType ==
  ASSUME TypeOK, NEW w \in writers, NEW next, Continues(w, next), Quiet,
         next \subseteq RouteWriter, \A n \in next : n.step = "append" => n.read # Missing,
         routeFiles' \in [Routes -> {Missing} \cup RouteFile],
         typeFiles' \in [Routes -> {Missing} \cup TypeFile], UNCHANGED contextFile
  PROVE  TypeOK'
<1>0. Fixed
  BY SameRound DEF Quiet
<1>1. writers' \subseteq writers \cup next
  BY DEF Continues, Proceed, Reject
<1>2. /\ obsolete' \subseteq Routes
      /\ status' \in {"starting", "watching", "rejected"}
      /\ outcome' \in {"none", "ok", "failed"}
      /\ stage' \in {"idle", stage}
  BY DEF TypeOK, Continues, Proceed, Reject, Fail
<1> QED
  BY <1>0, <1>1, <1>2 DEF Fixed, TypeOK, Quiet, history

\* A writer as it goes on: past its stat, and with the file that it has read.
LEMMA StatNext ==
  ASSUME TypeOK, NEW w \in writers, Stat(w)
  PROVE  \E next :
           /\ Proceed(w, {next}) /\ next \in RouteWriter
           /\ next.step = IF routeFiles[w.route] = Missing THEN "write" ELSE "read"
           /\ next.route = w.route /\ next.kind = w.kind /\ next.new = w.new
           /\ next.round = w.round
<1> DEFINE step == IF routeFiles[w.route] = Missing THEN "write" ELSE "read"
           next == [w EXCEPT !.step = step]
<1>1. w \in RouteWriter
  BY DEF TypeOK, Stat, TypeWriter
<1>2. /\ next \in RouteWriter /\ next.step = step /\ next.route = w.route
      /\ next.kind = w.kind /\ next.new = w.new /\ next.round = w.round
  BY <1>1 DEF RouteWriter
<1>3. Proceed(w, {next})
  BY DEF Stat
<1> QED
  BY <1>2, <1>3

LEMMA ReadRouteNext ==
  ASSUME TypeOK, NEW w \in writers, ReadRoute(w)
  PROVE  \/ Reject(w)
         \/ /\ routeFiles[w.route] # Missing /\ Unexported(routeFiles[w.route], w.new) = {}
            /\ Proceed(w, {})
         \/ \E next :
              /\ Proceed(w, {next}) /\ next \in RouteWriter /\ next.step = "append"
              /\ next.read = routeFiles[w.route] /\ next.read # Missing
              /\ next.route = w.route /\ next.kind = w.kind /\ next.new = w.new
              /\ next.round = w.round
<1> DEFINE file == routeFiles[w.route]
           next == [w EXCEPT !.step = "append", !.read = file]
<1>1. w \in RouteWriter
  BY DEF TypeOK, ReadRoute, TypeWriter
<1>2. file # Missing =>
        /\ next \in RouteWriter /\ next.step = "append" /\ next.read = file
        /\ next.route = w.route /\ next.kind = w.kind /\ next.new = w.new
        /\ next.round = w.round
  BY <1>1 DEF TypeOK, RouteWriter
<1>3. \/ Reject(w)
      \/ file # Missing /\ Unexported(file, w.new) = {} /\ Proceed(w, {})
      \/ file # Missing /\ Proceed(w, {next})
  BY DEF ReadRoute
<1> HIDE DEF next
<1> QED
  BY <1>2, <1>3

\* What WriteRoute() puts in a file.
Content(w) == IF w.step = "append" THEN Appended(w.read, w.new) ELSE Fresh(w.new)

LEMMA ContentType ==
  ASSUME TypeOK, NEW w \in writers, WriteRoute(w)
  PROVE  /\ w \in RouteWriter /\ Content(w) \in RouteFile /\ Content(w) # Missing
         /\ routeFiles' = [routeFiles EXCEPT ![w.route] = Content(w)]
<1>1. w \in RouteWriter
  BY DEF TypeOK, WriteRoute, TypeWriter
<1>2. Content(w) \in RouteFile
  <2>1. CASE w.step = "append"
    BY <1>1, <2>1 DEF TypeOK, RouteWriter, RouteFile, Handlers, Appended, Unexported, Content
  <2>2. CASE w.step # "append"
    BY <2>2 DEF RouteFile, Handlers, Fresh, Content
  <2> QED
    BY <2>1, <2>2
<1> QED
  BY <1>1, <1>2, GenerationAssumption DEF WriteRoute, Content

LEMMA WriteType ==
  ASSUME TypeOK, NEW w \in writers, Quiet,
         Stat(w) \/ ReadRoute(w) \/ WriteRoute(w) \/ WriteTypes(w)
  PROVE  TypeOK'
<1>0. /\ routeFiles \in [Routes -> {Missing} \cup RouteFile]
      /\ typeFiles \in [Routes -> {Missing} \cup TypeFile]
  BY DEF TypeOK
<1>1. CASE Stat(w)
  <2>1. PICK next : Proceed(w, {next}) /\ next \in RouteWriter /\ next.step # "append"
    BY <1>1, StatNext
  <2> QED
    BY <1>0, <1>1, <2>1, ContinuesType DEF Continues, Stat, disk
<1>2. CASE ReadRoute(w)
  <2>1. PICK next : /\ Continues(w, next) /\ next \subseteq RouteWriter
                    /\ \A n \in next : n.read # Missing
    <3>1. CASE Reject(w) \/ Proceed(w, {})
      BY <3>1 DEF Continues
    <3>2. CASE \E n : Proceed(w, {n}) /\ n \in RouteWriter /\ n.read # Missing
      <4>1. PICK n : Proceed(w, {n}) /\ n \in RouteWriter /\ n.read # Missing
        BY <3>2
      <4> QED
        BY <4>1 DEF Continues
    <3> QED
      BY <1>2, <3>1, <3>2, ReadRouteNext
  <2> QED
    BY <1>0, <1>2, <2>1, ContinuesType DEF ReadRoute, disk
<1>3. CASE WriteRoute(w)
  <2>1. routeFiles' \in [Routes -> {Missing} \cup RouteFile]
    BY <1>0, <1>3, ContentType
  <2> QED
    BY <1>0, <1>3, <2>1, ContinuesType DEF Continues, WriteRoute
<1>4. CASE WriteTypes(w)
  <2>1. w.new \in TypeFile
    BY <1>4 DEF TypeOK, WriteTypes, RouteWriter, TypeWriter
  <2>2. typeFiles' \in [Routes -> {Missing} \cup TypeFile]
    BY <1>0, <1>4, <2>1 DEF WriteTypes
  <2> QED
    BY <1>0, <1>4, <2>2, ContinuesType DEF Continues, WriteTypes
<1> QED
  BY <1>1, <1>2, <1>3, <1>4

LEMMA FinishWritingType ==
  ASSUME TypeOK, FinishWriting
  PROVE  TypeOK'
<1>0. Fixed
  BY SameRound DEF FinishWriting
<1>1. CASE setup.routes /\ contextFile = "absent"
  BY <1>0, <1>1 DEF Fixed, TypeOK, FinishWriting, disk, history
<1>2. CASE ~(setup.routes /\ contextFile = "absent")
  <2>1. Return /\ UNCHANGED setup
    BY <1>2 DEF FinishWriting
  <2> QED
    BY <1>0, <2>1, ReturnStages DEF Fixed, TypeOK, FinishWriting, disk, history
<1> QED
  BY <1>1, <1>2

LEMMA WriteContextType ==
  ASSUME TypeOK, WriteContext
  PROVE  TypeOK'
<1>0. Fixed
  BY SameRound DEF WriteContext
<1>1. Return /\ UNCHANGED setup
  BY DEF WriteContext
<1> QED
  BY <1>0, <1>1, ReturnStages DEF Fixed, TypeOK, WriteContext, history

LEMMA NoticeType ==
  ASSUME TypeOK, NEW v \in Group, Notice(v)
  PROVE  TypeOK'
<1>0. Fixed
  BY SameRound DEF Notice
<1> QED
  BY <1>0 DEF Fixed, TypeOK, Notice, disk, history

\* A user's change of a file.
LEMMA SavedHandler ==
  ASSUME TypeOK, NEW r \in Routes, NEW m \in Methods, SaveHandler(r, m)
  PROVE  \E file \in RouteFile, handler \in Handlers :
           /\ routeFiles[r] # Missing => file = routeFiles[r]
           /\ [file EXCEPT ![m] = handler] \in RouteFile
           /\ [file EXCEPT ![m] = handler] # Missing
           /\ routeFiles' = [routeFiles EXCEPT ![r] = [file EXCEPT ![m] = handler]]
           /\ kept' = IF handler = "custom" /\ ~Open(r)
                      THEN kept \cup {<<r, m>>} ELSE kept \ {<<r, m>>}
<1> DEFINE file == IF routeFiles[r] = Missing THEN Fresh({}) ELSE routeFiles[r]
<1>1. file \in RouteFile
  BY DEF TypeOK, RouteFile, Handlers, Fresh
<1>2. PICK handler \in Edits :
        /\ routeFiles' = [routeFiles EXCEPT ![r] = [file EXCEPT ![m] = handler]]
        /\ kept' = IF handler = "custom" /\ ~Open(r)
                   THEN kept \cup {<<r, m>>} ELSE kept \ {<<r, m>>}
  BY DEF SaveHandler
<1> DEFINE saved == [file EXCEPT ![m] = handler]
<1>3. saved \in RouteFile /\ saved # Missing /\ handler \in Handlers
  <2>1. handler \in Handlers
    BY GenerationAssumption
  <2>2. saved \in RouteFile
    BY <1>1, <2>1 DEF RouteFile
  <2> QED
    BY <2>1, <2>2, GenerationAssumption
<1> QED
  BY <1>1, <1>2, <1>3

LEMMA UserStepType ==
  ASSUME TypeOK, UserStep
  PROVE  TypeOK'
<1>0. UNCHANGED program /\ edits' \in Nat
  BY DEF TypeOK, UserStep, SaveDocument, DeleteRoute, SaveHandler, SaveContext, UserActs
<1>1. Fixed
  BY <1>0, SameRound DEF program
<1>2. CASE \E v \in Group : SaveDocument(v)
  BY <1>0, <1>1, <1>2 DEF Fixed, TypeOK, SaveDocument, program, disk
<1>3. CASE \E r \in Routes : DeleteRoute(r)
  BY <1>0, <1>1, <1>3 DEF Fixed, TypeOK, DeleteRoute, program
<1>4. CASE \E r \in Routes : \E m \in Methods : SaveHandler(r, m)
  <2>1. PICK r \in Routes, m \in Methods : SaveHandler(r, m)
    BY <1>4
  <2>2. PICK saved \in RouteFile : routeFiles' = [routeFiles EXCEPT ![r] = saved]
    BY <2>1, SavedHandler
  <2>3. kept' \subseteq kept \cup {<<r, m>>}
    BY <2>1 DEF SaveHandler
  <2>4. /\ kept' \subseteq {Context} \cup (Routes \X Methods)
        /\ routeFiles' \in [Routes -> {Missing} \cup RouteFile]
    BY <2>2, <2>3 DEF TypeOK
  <2> QED
    BY <1>0, <1>1, <2>1, <2>4 DEF Fixed, TypeOK, SaveHandler, program
<1>5. CASE SaveContext
  BY <1>0, <1>1, <1>5 DEF Fixed, TypeOK, SaveContext, program
<1> QED
  BY <1>2, <1>3, <1>4, <1>5 DEF UserStep

LEMMA TypeStep == TypeOK /\ [Next]_vars => TypeOK'
<1> SUFFICES ASSUME TypeOK, [Next]_vars PROVE TypeOK'
  OBVIOUS
<1>1. CASE Write
  BY <1>1, WriteType DEF Write, Quiet
<1>2. CASE Regenerate /\ ~Write
  BY <1>2, BeginType, LoadType, StartWritingType, FinishWritingType, WriteContextType,
     PruneRouteType DEF Regenerate
<1>3. CASE UserStep
  BY <1>3, UserStepType
<1>4. CASE \E v \in Group : Notice(v)
  BY <1>4, NoticeType
<1>5. CASE UNCHANGED vars
  <2>1. Fixed
    BY <1>5, SameRound DEF vars, program
  <2> QED
    BY <1>5, <2>1 DEF Fixed, vars, program, disk, history, TypeOK
<1> QED
  BY <1>1, <1>2, <1>3, <1>4, <1>5 DEF Next, Regenerate

\* The variables of the generator keep their types, through every round and
\* whatever users do meanwhile.
THEOREM GenerationTypeCorrect == Spec => []TypeOK
BY InitType, TypeStep, PTL DEF Spec
-----------------------------------------------------------------------------
(* What users wrote.                                                       *)

\* No group of several versions is pruned.
OnePruned == \A s \in Setups : s.prune /\ s.routes => Len(s.versions) = 1

\* What a writer will write has what users wrote and has not been opened since.
OpenKeeps ==
  \A w \in writers : \A m \in Methods : w.kind = "route" =>
    /\ w.step = "append" /\ <<w.route, m>> \in kept => w.read[m] = "custom"
    /\ w.step = "write" => <<w.route, m>> \notin kept

\* Only a missing context file is written.
ContextOpen == stage = "context" => Context \notin kept

\* What is removed is in no document that was loaded.
PruneAim ==
  /\ obsolete # {} => stage = "prune" /\ setup.prune /\ setup.routes
  /\ stage = "prune" =>
       loaded[Current] \notin {Missing, Broken} /\ obsolete \cap Paths(loaded[Current]) = {}

Keeping == UserEditsKept /\ OpenKeeps /\ ContextOpen /\ PruneAim

\* A version that is alone in its group: when its document lacks a route and
\* pruning is on, nobody wants the route.
LEMMA PrunedUnwanted ==
  ASSUME OnePruned, TypeOK, PruneAim, NEW r \in obsolete
  PROVE  ~Wanted(r)
<1>1. Len(setup.versions) = 1 /\ stage = "prune"
  BY DEF OnePruned, TypeOK, PruneAim
<1>2. Group = {Current}
  BY <1>1, CurrentInGroup DEF TypeOK, Group, Current
<1> QED
  BY <1>1, <1>2 DEF PruneAim, Wanted

LEMMA LoadKeeps ==
  ASSUME TypeOK, Keeping, Load
  PROVE  Keeping'
<1> DEFINE doc == documents[Current]
<1>1. Current \in Group /\ Current' = Current /\ doc \in Documents
  BY CurrentInGroup DEF TypeOK, Load, Current
<1>2. loaded'[Current] = doc
  BY <1>1 DEF TypeOK, Load, Current
<1>3. PruneAim'
  <2>1. doc # Missing
    BY <1>1, GenerationAssumption DEF Document
  <2>2. CASE doc = Broken
    BY <2>2 DEF Keeping, PruneAim, Load, Fail, Current
  <2>3. CASE doc # Broken
    BY <1>1, <1>2, <2>1, <2>3 DEF Keeping, PruneAim, Load, Current
  <2> QED
    BY <2>2, <2>3
<1>4. (UserEditsKept /\ OpenKeeps /\ ContextOpen)'
  BY DEF Keeping, UserEditsKept, OpenKeeps, ContextOpen, Load, Fail, disk
<1> QED
  BY <1>3, <1>4 DEF Keeping

\* A route that pruning removes is one that no document has, so what users
\* wrote in its file need not stay.
LEMMA PruneRouteKeeps ==
  ASSUME OnePruned, TypeOK, Keeping, NEW r \in Routes, PruneRoute(r)
  PROVE  Keeping'
<1>1. CASE routeFiles[r] = Missing
  BY <1>1 DEF Keeping, UserEditsKept, OpenKeeps, ContextOpen, PruneAim, PruneRoute, Fail
<1>2. CASE routeFiles[r] # Missing
  <2>1. /\ kept' = kept \ ({r} \X Methods) /\ obsolete' = obsolete \ {r}
        /\ routeFiles' = [routeFiles EXCEPT ![r] = Missing]
        /\ UNCHANGED <<stage, writers, setup, turn, loaded, contextFile>>
    <3>1. ~Wanted(r)
      BY PrunedUnwanted DEF Keeping, PruneRoute
    <3> QED
      BY <1>2, <3>1 DEF PruneRoute
  <2>2. UserEditsKept'
    <3>1. ASSUME NEW q \in Routes, NEW m \in Methods, <<q, m>> \in kept'
          PROVE  routeFiles'[q] = routeFiles[q]
      BY <2>1, <3>1 DEF TypeOK
    <3>2. Context \in kept' => contextFile' = "custom"
      BY <2>1 DEF Keeping, UserEditsKept
    <3> QED
      BY <2>1, <3>1, <3>2 DEF Keeping, UserEditsKept
  <2>3. (OpenKeeps /\ ContextOpen /\ PruneAim)'
    BY <2>1 DEF Keeping, OpenKeeps, ContextOpen, PruneAim, Current
  <2> QED
    BY <2>2, <2>3 DEF Keeping
<1> QED
  BY <1>1, <1>2

LEMMA StartWritingKeeps ==
  ASSUME TypeOK, Keeping, StartWriting
  PROVE  Keeping'
<1>1. writers' \subseteq writers \cup NewRouteWriters \cup NewTypeWriters
  BY DEF StartWriting
<1>2. OpenKeeps'
  BY <1>1, NewWriters DEF Keeping, OpenKeeps, StartWriting, history
<1>3. (UserEditsKept /\ ContextOpen /\ PruneAim)'
  BY DEF Keeping, UserEditsKept, ContextOpen, PruneAim, StartWriting, history
<1> QED
  BY <1>2, <1>3 DEF Keeping

\* The step of a writer, provided that what is decided has what users wrote.
LEMMA ContinuesKeeps ==
  ASSUME TypeOK, Keeping, NEW w \in writers, NEW next, Continues(w, next), Quiet,
         \A n \in next, m \in Methods : n.kind = "route" =>
           /\ n.step = "append" /\ <<n.route, m>> \in kept => n.read[m] = "custom"
           /\ n.step = "write" => <<n.route, m>> \notin kept,
         UserEditsKept'
  PROVE  Keeping'
<1>1. writers' \subseteq writers \cup next
  BY DEF Continues, Proceed, Reject
<1>2. OpenKeeps'
  BY <1>1 DEF Keeping, OpenKeeps, Quiet, history
<1>3. (ContextOpen /\ PruneAim)'
  BY DEF Keeping, Continues, Proceed, Reject, Fail, ContextOpen, PruneAim, Current, Quiet,
         history
<1> QED
  BY <1>2, <1>3 DEF Keeping

LEMMA WriteKeeps ==
  ASSUME TypeOK, Keeping, NEW w \in writers, Quiet,
         Stat(w) \/ ReadRoute(w) \/ WriteRoute(w) \/ WriteTypes(w)
  PROVE  Keeping'
<1>0. w.route \in Routes
  BY DEF TypeOK, RouteWriter, TypeWriter
<1>1. CASE Stat(w)
  <2>1. PICK n :
          /\ Proceed(w, {n}) /\ n.route = w.route
          /\ n.step = IF routeFiles[w.route] = Missing THEN "write" ELSE "read"
    BY <1>1, StatNext
  <2>2. \A m \in Methods :
          /\ n.step # "append"
          /\ n.step = "write" => <<n.route, m>> \notin kept
    BY <1>0, <2>1 DEF Keeping, UserEditsKept
  <2>3. UserEditsKept'
    BY <1>1 DEF Keeping, UserEditsKept, Stat, Quiet, disk, history
  <2>4. Continues(w, {n})
    BY <2>1 DEF Continues
  <2> QED
    BY <2>2, <2>3, <2>4, ContinuesKeeps
<1>2. CASE ReadRoute(w)
  <2>1. UserEditsKept'
    BY <1>2 DEF Keeping, UserEditsKept, ReadRoute, Quiet, disk, history
  <2>2. CASE Reject(w) \/ Proceed(w, {})
    <3>1. Continues(w, {})
      BY <2>2 DEF Continues
    <3> QED
      BY <2>1, <3>1, ContinuesKeeps
  <2>3. CASE ~(Reject(w) \/ Proceed(w, {}))
    <3>1. PICK n :
            /\ Proceed(w, {n}) /\ n.step = "append" /\ n.route = w.route
            /\ n.read = routeFiles[w.route]
      BY <1>2, <2>3, ReadRouteNext
    <3>2. \A m \in Methods : <<n.route, m>> \in kept => n.read[m] = "custom"
      BY <1>0, <3>1 DEF Keeping, UserEditsKept
    <3>3. Continues(w, {n})
      BY <3>1 DEF Continues
    <3> QED
      BY <2>1, <3>1, <3>2, <3>3, ContinuesKeeps
  <2> QED
    BY <2>2, <2>3
<1>3. CASE WriteRoute(w)
  <2>1. \A m \in Methods : <<w.route, m>> \in kept => Content(w)[m] = "custom"
    BY <1>3 DEF Keeping, OpenKeeps, WriteRoute, Content, Appended, Unexported
  <2>2. UserEditsKept'
    BY <1>0, <1>3, <2>1, ContentType, ZenonT(40)
    DEF Keeping, TypeOK, UserEditsKept, Quiet, WriteRoute, history
  <2>3. Continues(w, {})
    BY <1>3 DEF Continues, WriteRoute
  <2> QED
    BY <2>2, <2>3, ContinuesKeeps
<1>4. CASE WriteTypes(w)
  <2>1. UserEditsKept'
    BY <1>4 DEF Keeping, UserEditsKept, WriteTypes, Quiet, history
  <2>2. Continues(w, {})
    BY <1>4 DEF Continues, WriteTypes
  <2> QED
    BY <2>1, <2>2, ContinuesKeeps
<1> QED
  BY <1>1, <1>2, <1>3, <1>4

\* The default context is made only where there is none.
LEMMA ContextKeeps ==
  ASSUME TypeOK, Keeping, FinishWriting \/ WriteContext
  PROVE  Keeping'
<1>1. CASE FinishWriting /\ setup.routes /\ contextFile = "absent"
  <2>1. Context \notin kept
    BY <1>1 DEF Keeping, UserEditsKept
  <2> QED
    BY <1>1, <2>1 DEF Keeping, UserEditsKept, OpenKeeps, ContextOpen, PruneAim,
                      FinishWriting, disk, history
<1>2. CASE FinishWriting /\ ~(setup.routes /\ contextFile = "absent")
  <2>1. stage' \in {"idle", "load"}
    BY <1>2, ReturnStages DEF FinishWriting
  <2> QED
    BY <1>2, <2>1 DEF Keeping, UserEditsKept, OpenKeeps, ContextOpen, PruneAim,
                      FinishWriting, disk, history
<1>3. CASE WriteContext
  <2>1. stage' \in {"idle", "load"}
    BY <1>3, ReturnStages DEF WriteContext
  <2>2. UserEditsKept'
    BY <1>3 DEF Keeping, UserEditsKept, ContextOpen, WriteContext, history
  <2> QED
    BY <1>3, <2>1, <2>2 DEF Keeping, OpenKeeps, ContextOpen, PruneAim, WriteContext, history
<1> QED
  BY <1>1, <1>2, <1>3

\* A save is kept if no writer has decided what to write over it.
LEMMA SaveHandlerKeeps ==
  ASSUME TypeOK, Keeping, NEW r \in Routes, NEW m \in Methods, SaveHandler(r, m)
  PROVE  Keeping'
<1>1. PICK file \in RouteFile, handler \in Handlers :
        /\ routeFiles[r] # Missing => file = routeFiles[r]
        /\ [file EXCEPT ![m] = handler] # Missing
        /\ routeFiles' = [routeFiles EXCEPT ![r] = [file EXCEPT ![m] = handler]]
        /\ kept' = IF handler = "custom" /\ ~Open(r)
                   THEN kept \cup {<<r, m>>} ELSE kept \ {<<r, m>>}
  BY SavedHandler
<1> DEFINE saved == [file EXCEPT ![m] = handler]
<1>2. Context # <<r, m>>
  BY GenerationAssumption
<1>3. UserEditsKept'
  <2>1. ASSUME NEW q \in Routes, NEW n \in Methods, <<q, n>> \in kept'
        PROVE  routeFiles'[q] # Missing /\ routeFiles'[q][n] = "custom"
    <3>1. CASE q # r
      BY <1>1, <2>1, <3>1 DEF TypeOK, Keeping, UserEditsKept
    <3>2. CASE q = r
      <4>1. routeFiles'[q] = saved
        BY <1>1, <3>2 DEF TypeOK
      <4>2. CASE n = m
        <5>1. handler = "custom"
          BY <1>1, <2>1, <3>2, <4>2
        <5> QED
          BY <1>1, <4>1, <4>2, <5>1 DEF RouteFile
      <4>3. CASE n # m
        <5>1. <<q, n>> \in kept
          BY <1>1, <2>1, <4>3
        <5>2. file[n] = "custom"
          BY <1>1, <3>2, <5>1 DEF Keeping, UserEditsKept
        <5> QED
          BY <1>1, <4>1, <4>3, <5>2 DEF RouteFile
      <4> QED
        BY <4>2, <4>3
    <3> QED
      BY <3>1, <3>2
  <2>2. Context \in kept' => contextFile' = "custom"
    BY <1>1, <1>2 DEF Keeping, UserEditsKept, SaveHandler
  <2> QED
    BY <2>1, <2>2 DEF UserEditsKept
<1>4. OpenKeeps'
  <2>1. \A w \in writers, n \in Methods :
          w.kind = "route" /\ w.step \in {"append", "write"} /\ <<w.route, n>> \in kept'
            => <<w.route, n>> \in kept
    BY <1>1 DEF Open
  <2> QED
    BY <2>1 DEF Keeping, OpenKeeps, SaveHandler, program
<1>5. ContextOpen' /\ PruneAim'
  BY <1>1, <1>2 DEF Keeping, ContextOpen, PruneAim, Current, SaveHandler, program
<1> QED
  BY <1>3, <1>4, <1>5 DEF Keeping

LEMMA DeleteRouteKeeps ==
  ASSUME TypeOK, Keeping, NEW r \in Routes, DeleteRoute(r)
  PROVE  Keeping'
<1>1. UserEditsKept'
  <2>1. ASSUME NEW q \in Routes, NEW m \in Methods, <<q, m>> \in kept'
        PROVE  routeFiles'[q] = routeFiles[q]
    BY <2>1 DEF TypeOK, DeleteRoute
  <2> QED
    BY <2>1 DEF Keeping, UserEditsKept, DeleteRoute
<1> QED
  BY <1>1 DEF Keeping, OpenKeeps, ContextOpen, PruneAim, Current, DeleteRoute, program

LEMMA SaveContextKeeps ==
  ASSUME TypeOK, Keeping, SaveContext
  PROVE  Keeping'
<1>1. \A r \in Routes, m \in Methods : <<r, m>> \in kept' <=> <<r, m>> \in kept
  BY GenerationAssumption DEF SaveContext
<1>2. UserEditsKept'
  BY <1>1 DEF Keeping, UserEditsKept, SaveContext
<1>3. OpenKeeps'
  <2>1. \A w \in writers : w.route \in Routes
    BY DEF TypeOK, RouteWriter, TypeWriter
  <2> QED
    BY <1>1, <2>1 DEF Keeping, OpenKeeps, SaveContext, program
<1> QED
  BY <1>2, <1>3 DEF Keeping, ContextOpen, PruneAim, Current, SaveContext, program

\* The steps that touch neither the files nor what is kept.
LEMMA QuietKeeps ==
  ASSUME Keeping, Begin \/ (\E v \in Group : SaveDocument(v) \/ Notice(v)) \/ UNCHANGED vars
  PROVE  Keeping'
BY DEF Keeping, UserEditsKept, OpenKeeps, ContextOpen, PruneAim, Current, Begin, MayBegin,
       SaveDocument, Notice, vars, program, disk, history

LEMMA KeepingStep ==
  ASSUME OnePruned, TypeOK, Keeping, [Next]_vars
  PROVE  Keeping'
<1>1. CASE Write
  BY <1>1, WriteKeeps DEF Write, Quiet
<1>2. CASE Regenerate /\ ~Write
  BY <1>2, QuietKeeps, LoadKeeps, PruneRouteKeeps, StartWritingKeeps, ContextKeeps DEF Regenerate
<1>3. CASE UserStep
  BY <1>3, QuietKeeps, DeleteRouteKeeps, SaveHandlerKeeps, SaveContextKeeps DEF UserStep
<1>4. CASE (\E v \in Group : Notice(v)) \/ UNCHANGED vars
  BY <1>4, QuietKeeps
<1> QED
  BY <1>1, <1>2, <1>3, <1>4 DEF Next, Regenerate

\* What users wrote in a handler or in the root context file stays, unless the
\* generator had the file open when they saved it or no document has the route:
\* for any documents, versions and interleavings, after failures as well, while
\* no group of several versions is pruned (repository.ts, writeFiles()).
THEOREM GenerationKeepsEdits == ASSUME OnePruned PROVE Spec => []UserEditsKept
<1>1. Init => Keeping
  BY DEF Init, Keeping, UserEditsKept, OpenKeeps, ContextOpen, PruneAim
<1>2. TypeOK /\ Keeping /\ [Next]_vars => Keeping'
  BY KeepingStep
<1>3. Keeping => UserEditsKept
  BY DEF Keeping
<1> QED
  BY <1>1, <1>2, <1>3, InitType, TypeStep, PTL DEF Spec
-----------------------------------------------------------------------------
(* What is generated.                                                      *)

\* The round has yet to come to a version's document.
ToLoad(v) ==
  \E i \in DOMAIN setup.versions :
    /\ setup.versions[i] = v
    /\ IF stage = "load" THEN i >= turn ELSE stage # "idle" /\ i > turn

\* A version whose last save was not loaded has a regeneration ahead of it.
LoadedCurrent ==
  \A v \in Group \ unseen :
    \/ loaded[v] = documents[v] \/ v \in changed \/ queued > 0 \/ ToLoad(v)
    \/ stage = "idle" /\ outcome # "ok"

\* The last regeneration ended well; none was given up.
Ended == stage = "idle" /\ outcome = "ok"
Unspoiled == stage # "idle" \/ outcome = "ok"

\* The versions whose turn has come, by their place in the group.
Collecting(i) == IF stage = "load" THEN i < turn ELSE i <= turn
TurnsTaken == {i \in DOMAIN setup.versions : Collecting(i)}

\* The repository holds what the documents of those versions declare.
CollectedSoFar ==
  Unspoiled =>
    /\ \A i \in TurnsTaken : loaded[setup.versions[i]] \notin {Missing, Broken}
    /\ \A op : op \in repository <=>
         \E i \in TurnsTaken : op \in Operations(setup.versions[i], loaded[setup.versions[i]])
    /\ stage = "idle" => turn = Len(setup.versions)

\* As long as no round began during the writes of another, every writer writes
\* for this one, and they have ended before anything else is done.
Exports(w) == IF w.kind = "type" THEN TypesOf(w.route) ELSE HandlersOf(w.route)
OwnWriters ==
  ~overlapped =>
    /\ \A w \in writers : w.round = round /\ w.route \in Scripts /\ w.new = Exports(w)
    /\ writers = {} \/ stage = "write" \/ (stage = "idle" /\ outcome = "failed")

\* Writing has begun, and what is not as it should be has a writer.
Writing == ~overlapped /\ (stage \in {"write", "context"} \/ Ended)
TypesWritten ==
  setup.types /\ Writing => \A r \in Routes :
    IF r \in Scripts
    THEN typeFiles[r] = TypesOf(r) \/ \E w \in writers : w.kind = "type" /\ w.route = r
    ELSE setup.prune => typeFiles[r] = Missing

Served(r) ==
  routeFiles[r] # Missing /\ \A m \in HandlersOf(r) : routeFiles[r][m] \in {"stub", "custom"}
HandlersWritten ==
  setup.routes /\ Writing => \A r \in Scripts \ touched :
    Served(r) \/ \E w \in writers : w.kind = "route" /\ w.route = r

ContextMade == setup.routes /\ Ended /\ Context \notin touched => contextFile # "absent"

Generated ==
  LoadedCurrent /\ CollectedSoFar /\ OwnWriters /\ TypesWritten /\ HandlersWritten /\ ContextMade

LEMMA InitGenerated == Init => Generated
BY DEF Init, Generated, LoadedCurrent, CollectedSoFar, OwnWriters, TypesWritten,
       HandlersWritten, ContextMade, Writing, Ended, Unspoiled

\* A round that begins has everything ahead of it.
LEMMA BeginGenerates ==
  ASSUME TypeOK, Generated, Begin
  PROVE  Generated'
<1>1. LoadedCurrent'
  BY CurrentInGroup DEF TypeOK, LoadedCurrent, ToLoad, Begin, Group
<1>2. CollectedSoFar'
  <2>1. TurnsTaken' = {}
    BY CurrentInGroup DEF TypeOK, Begin, TurnsTaken, Collecting
  <2> QED
    BY <2>1 DEF CollectedSoFar, Begin
<1>3. OwnWriters'
  BY DEF OwnWriters, Begin
<1>4. (TypesWritten /\ HandlersWritten /\ ContextMade)'
  BY DEF TypesWritten, HandlersWritten, ContextMade, Writing, Ended, Begin
<1> QED
  BY <1>1, <1>2, <1>3, <1>4 DEF Generated

\* A round that is given up promises nothing.
LEMMA FailGenerates ==
  ASSUME stage' = "idle", outcome' = "failed", OwnWriters'
  PROVE  Generated'
BY DEF Generated, LoadedCurrent, CollectedSoFar, TypesWritten, HandlersWritten, ContextMade,
       Writing, Ended, Unspoiled

\* A document is loaded in the turn of its version alone.
LEMMA LoadGenerates ==
  ASSUME TypeOK, Generated, Load
  PROVE  Generated'
<1> DEFINE doc == documents[Current]
<1>1. /\ Current \in Group /\ Group' = Group /\ doc \in Documents /\ doc # Missing
      /\ loaded' = [loaded EXCEPT ![Current] = doc]
  <2>1. Current \in Group /\ Group' = Group /\ doc \in Documents
    BY CurrentInGroup DEF TypeOK, Load, Group
  <2>2. doc # Missing
    BY <2>1, GenerationAssumption DEF Document
  <2> QED
    BY <2>1, <2>2 DEF Load, Current
<1>2. ~overlapped => writers = {}
  BY DEF Generated, OwnWriters, Load
<1>3. OwnWriters'
  BY <1>2 DEF OwnWriters, Load
<1>4. CASE doc = Broken
  BY <1>3, <1>4, FailGenerates DEF Load, Fail, Current
<1>5. CASE doc # Broken
  <2>0. /\ stage' = "prune" /\ repository' = Collected \cup Operations(Current, doc)
        /\ UNCHANGED <<setup, turn>>
    BY <1>5 DEF Load, Current
  <2>1. LoadedCurrent'
    <3>1. ASSUME NEW v \in Group' \ unseen', v # Current, ToLoad(v)
          PROVE  ToLoad(v)'
      <4>1. PICK i \in DOMAIN setup.versions : setup.versions[i] = v /\ i >= turn
        BY <3>1 DEF ToLoad, Load
      <4>2. i > turn
        BY <3>1, <4>1, CurrentInGroup DEF TypeOK, Current
      <4> QED
        BY <2>0, <4>1, <4>2 DEF ToLoad
    <3> QED
      BY <1>1, <2>0, <3>1 DEF Generated, LoadedCurrent, TypeOK, Load, Current
  <2>2. TurnsTaken' = TurnsTaken \cup {turn} /\ turn \notin TurnsTaken
    <3>1. \A i \in DOMAIN setup.versions : i <= turn <=> i < turn \/ i = turn
      BY CurrentInGroup DEF TypeOK
    <3>2. turn \in DOMAIN setup.versions /\ ~(turn < turn)
      BY CurrentInGroup DEF TypeOK
    <3> QED
      BY <2>0, <3>1, <3>2 DEF TurnsTaken, Collecting, Load
  <2>3. \A i \in TurnsTaken : loaded'[setup.versions[i]] = loaded[setup.versions[i]]
    <3>1. \A i \in TurnsTaken : setup.versions[i] # Current
      BY <2>2, VersionsAssumption DEF TypeOK, TurnsTaken, Current
    <3> QED
      BY <1>1, <3>1 DEF TypeOK, Group, TurnsTaken
  <2>4. loaded'[Current] = doc
    BY <1>1 DEF TypeOK
  <2>5. Collected = repository
    <3>1. CASE Len(setup.versions) > 1
      BY <3>1 DEF Collected
    <3>2. CASE ~(Len(setup.versions) > 1)
      <4>1. TurnsTaken = {}
        BY <3>2, CurrentInGroup DEF TypeOK, TurnsTaken, Collecting, Load
      <4>2. repository = {}
        BY <4>1 DEF Generated, CollectedSoFar, Unspoiled, Load
      <4> QED
        BY <4>2 DEF Collected
    <3> QED
      BY <3>1, <3>2
  <2>6. CollectedSoFar'
    <3>1. \A i \in TurnsTaken' : loaded'[setup'.versions[i]] \notin {Missing, Broken}
      BY <1>1, <1>5, <2>0, <2>2, <2>3, <2>4
      DEF Generated, CollectedSoFar, Unspoiled, Load, Current
    <3>2. ASSUME NEW op
          PROVE  op \in repository' <=>
                   \E i \in TurnsTaken' :
                     op \in Operations(setup'.versions[i], loaded'[setup'.versions[i]])
      <4>1. op \in repository <=>
              \E i \in TurnsTaken :
                op \in Operations(setup.versions[i], loaded[setup.versions[i]])
        BY DEF Generated, CollectedSoFar, Unspoiled, Load
      <4> QED
        BY <2>0, <2>2, <2>3, <2>4, <2>5, <4>1 DEF Current
    <3> QED
      BY <2>0, <3>1, <3>2 DEF CollectedSoFar
  <2>7. (TypesWritten /\ HandlersWritten /\ ContextMade)'
    BY <2>0 DEF TypesWritten, HandlersWritten, ContextMade, Writing, Ended
  <2> QED
    BY <1>3, <2>1, <2>6, <2>7 DEF Generated
<1> QED
  BY <1>4, <1>5

LEMMA PruneRouteGenerates ==
  ASSUME TypeOK, Generated, NEW r \in Routes, PruneRoute(r)
  PROVE  Generated'
<1>1. OwnWriters'
  BY DEF Generated, OwnWriters, Exports, TypesOf, HandlersOf, Scripts, PruneRoute, Fail
<1>2. CASE stage' = "idle"
  BY <1>1, <1>2, FailGenerates DEF PruneRoute, Fail
<1>3. CASE stage' # "idle"
  <2>1. UNCHANGED <<setup, stage, queued, turn, repository, loaded, documents, changed, unseen,
                    outcome>>
    BY <1>3 DEF PruneRoute, Fail
  <2>2. LoadedCurrent'
    BY <2>1 DEF Generated, LoadedCurrent, ToLoad, Group
  <2>3. CollectedSoFar'
    BY <2>1 DEF Generated, CollectedSoFar, TurnsTaken, Collecting, Unspoiled
  <2>4. (TypesWritten /\ HandlersWritten /\ ContextMade)'
    BY <2>1 DEF TypesWritten, HandlersWritten, ContextMade, Writing, Ended, PruneRoute
  <2> QED
    BY <1>1, <2>2, <2>3, <2>4 DEF Generated
<1> QED
  BY <1>2, <1>3

\* Every script gets its writers, and the type files of no script are gone.
LEMMA StartWritingGenerates ==
  ASSUME TypeOK, Generated, StartWriting
  PROVE  Generated'
<1>1. /\ UNCHANGED <<setup, queued, round, turn, repository, loaded, documents, changed,
                     unseen, outcome, overlapped>>
      /\ stage = "prune" /\ stage' = "write"
  BY DEF StartWriting, history
<1>2. LoadedCurrent'
  BY <1>1 DEF Generated, LoadedCurrent, ToLoad, Group
<1>3. CollectedSoFar'
  BY <1>1 DEF Generated, CollectedSoFar, TurnsTaken, Collecting, Unspoiled
<1>4. ~overlapped => writers = {}
  BY <1>1 DEF Generated, OwnWriters
<1>5. OwnWriters'
  <2>1. \A w \in NewRouteWriters :
          w.round = round /\ w.route \in Scripts /\ w.kind # "type" /\ w.new = HandlersOf(w.route)
    BY DEF NewRouteWriters
  <2>2. \A w \in NewTypeWriters :
          w.round = round /\ w.route \in Scripts /\ w.kind = "type" /\ w.new = TypesOf(w.route)
    BY DEF NewTypeWriters
  <2>3. Scripts' = Scripts /\ \A w : Exports(w)' = Exports(w)
    BY <1>1 DEF Scripts, Exports, TypesOf, HandlersOf
  <2>4. writers' \subseteq writers \cup NewRouteWriters \cup NewTypeWriters
    BY DEF StartWriting
  <2>5. ~overlapped => \A w \in writers' :
          w.round = round /\ w.route \in Scripts /\ w.new = Exports(w)
    BY <1>4, <2>1, <2>2, <2>4 DEF Exports
  <2> QED
    BY <1>1, <2>3, <2>5 DEF OwnWriters
<1>6. TypesWritten'
  <2>1. ASSUME setup.types, NEW r \in Scripts
        PROVE  \E w \in writers' : w.kind = "type" /\ w.route = r
    <3> DEFINE w == [round |-> round, kind |-> "type", route |-> r, step |-> "write",
                     new |-> TypesOf(r), read |-> Missing]
    <3>1. w \in NewTypeWriters
      BY DEF NewTypeWriters
    <3>2. w \in writers'
      BY <2>1, <3>1 DEF StartWriting
    <3> QED
      BY <3>2
  <2>2. ASSUME setup.types, setup.prune, NEW r \in Routes \ Scripts
        PROVE  typeFiles'[r] = Missing
    BY <2>2 DEF StartWriting, PrunedTypes
  <2>3. Scripts' = Scripts
    BY <1>1 DEF Scripts
  <2> QED
    BY <1>1, <2>1, <2>2, <2>3 DEF TypesWritten
<1>7. HandlersWritten'
  <2>1. ASSUME setup.routes, NEW r \in Scripts
        PROVE  \E w \in writers' : w.kind = "route" /\ w.route = r
    <3> DEFINE w == [round |-> round, kind |-> "route", route |-> r, step |-> "stat",
                     new |-> HandlersOf(r), read |-> Missing]
    <3>1. w \in NewRouteWriters
      BY DEF NewRouteWriters
    <3>2. w \in writers'
      BY <2>1, <3>1 DEF StartWriting
    <3> QED
      BY <3>2
  <2>2. Scripts' = Scripts
    BY <1>1 DEF Scripts
  <2> QED
    BY <1>1, <2>1, <2>2 DEF HandlersWritten
<1>8. ContextMade'
  BY <1>1 DEF ContextMade, Ended
<1> QED
  BY <1>2, <1>3, <1>5, <1>6, <1>7, <1>8 DEF Generated

\* The step of a writer, provided that it goes on to write the same, and that
\* it has written it when it ends.
LEMMA ContinuesGenerates ==
  ASSUME TypeOK, Generated, NEW w \in writers, NEW next, Continues(w, next), Quiet,
         \A n \in next : n.round = w.round /\ n.route = w.route /\ n.kind = w.kind
                           /\ n.new = w.new,
         ~overlapped =>
           /\ \A r \in Routes : r # w.route =>
                typeFiles'[r] = typeFiles[r] /\ routeFiles'[r] = routeFiles[r]
           /\ IF w.kind = "type"
              THEN /\ routeFiles'[w.route] = routeFiles[w.route]
                   /\ next = {} /\ ~Reject(w) => typeFiles'[w.route] = TypesOf(w.route)
              ELSE /\ typeFiles'[w.route] = typeFiles[w.route]
                   /\ next = {} /\ ~Reject(w) => Served(w.route)',
         UNCHANGED contextFile
  PROVE  Generated'
<1>0. /\ UNCHANGED <<setup, queued, round, turn, repository, loaded, documents, changed,
                     unseen, touched, overlapped>>
      /\ writers' = (writers \ {w}) \cup next
  BY DEF Quiet, history, Continues, Proceed, Reject
<1>1. /\ Scripts' = Scripts /\ \A x : Exports(x)' = Exports(x)
      /\ \A r : TypesOf(r)' = TypesOf(r) /\ HandlersOf(r)' = HandlersOf(r)
  BY <1>0 DEF Scripts, Exports, TypesOf, HandlersOf
<1>2. (stage' = "idle" /\ outcome' = "failed") \/ UNCHANGED <<stage, outcome>>
  BY DEF Continues, Proceed, Reject, Fail
<1>3. OwnWriters'
  <2>1. ~overlapped => \A x \in writers' :
          x.round = round /\ x.route \in Scripts /\ x.new = Exports(x)
    BY <1>0 DEF Generated, OwnWriters, Exports
  <2>2. ~overlapped => stage = "write" \/ (stage = "idle" /\ outcome = "failed")
    BY DEF Generated, OwnWriters
  <2> QED
    BY <1>0, <1>1, <1>2, <2>1, <2>2 DEF OwnWriters
<1>4. CASE stage' = "idle" /\ outcome' = "failed"
  BY <1>3, <1>4, FailGenerates
<1>5. CASE UNCHANGED <<stage, outcome>> /\ ~(stage = "idle" /\ outcome = "failed")
  <2>1. LoadedCurrent'
    BY <1>0, <1>5 DEF Generated, LoadedCurrent, ToLoad, Group
  <2>2. CollectedSoFar'
    BY <1>0, <1>5 DEF Generated, CollectedSoFar, TurnsTaken, Collecting, Unspoiled
  <2>3. ~overlapped => stage = "write" /\ w.route \in Scripts /\ w.round = round
    BY <1>5 DEF Generated, OwnWriters
  <2>4. ~overlapped => ~Reject(w)
    BY <1>5, <2>3 DEF Reject, Fail
  <2>5. Scripts \subseteq Routes
    BY DEF TypeOK, Scripts
  <2>6. TypesWritten'
    <3>1. ASSUME ~overlapped, setup.types, NEW r \in Scripts
          PROVE  \/ typeFiles'[r] = TypesOf(r)
                 \/ \E x \in writers' : x.kind = "type" /\ x.route = r
      <4>1. typeFiles[r] = TypesOf(r) \/ \E x \in writers : x.kind = "type" /\ x.route = r
        BY <2>3, <2>5, <3>1 DEF Generated, TypesWritten, Writing
      <4>2. CASE r # w.route
        <5>1. typeFiles'[r] = typeFiles[r]
          BY <2>5, <3>1, <4>2
        <5> QED
          BY <1>0, <4>1, <4>2, <5>1
      <4>3. CASE r = w.route /\ w.kind = "type"
        <5>1. CASE next = {}
          BY <2>4, <3>1, <4>3, <5>1
        <5>2. CASE next # {}
          BY <1>0, <4>3, <5>2
        <5> QED
          BY <5>1, <5>2
      <4>4. CASE r = w.route /\ w.kind # "type"
        <5>1. typeFiles'[r] = typeFiles[r]
          BY <3>1, <4>4
        <5> QED
          BY <1>0, <4>1, <4>4, <5>1
      <4> QED
        BY <4>2, <4>3, <4>4
    <3>2. ASSUME ~overlapped, setup.types, setup.prune, NEW r \in Routes \ Scripts
          PROVE  typeFiles'[r] = Missing
      BY <2>3, <3>2 DEF Generated, TypesWritten, Writing
    <3> QED
      BY <1>0, <1>1, <3>1, <3>2 DEF TypesWritten, Writing
  <2>7. HandlersWritten'
    <3>1. ASSUME ~overlapped, setup.routes, NEW r \in Scripts \ touched
          PROVE  Served(r)' \/ \E x \in writers' : x.kind = "route" /\ x.route = r
      <4>1. Served(r) \/ \E x \in writers : x.kind = "route" /\ x.route = r
        BY <2>3, <3>1 DEF Generated, HandlersWritten, Writing
      <4>2. CASE r # w.route \/ w.kind = "type"
        <5>1. routeFiles'[r] = routeFiles[r]
          BY <2>5, <3>1, <4>2
        <5>2. Served(r) => Served(r)'
          BY <1>1, <5>1 DEF Served
        <5> QED
          BY <1>0, <4>1, <4>2, <5>2
      <4>3. CASE r = w.route /\ w.kind # "type"
        <5>1. CASE next = {}
          BY <2>4, <3>1, <4>3, <5>1
        <5>2. CASE next # {}
          <6>1. w.kind = "route"
            BY <4>3 DEF TypeOK, RouteWriter, TypeWriter
          <6> QED
            BY <1>0, <4>3, <5>2, <6>1
        <5> QED
          BY <5>1, <5>2
      <4> QED
        BY <4>2, <4>3
    <3> QED
      BY <1>0, <1>1, <3>1 DEF HandlersWritten, Writing
  <2>8. ContextMade'
    BY <1>0, <1>5 DEF Generated, ContextMade, Ended
  <2> QED
    BY <1>3, <2>1, <2>2, <2>6, <2>7, <2>8 DEF Generated
<1> QED
  BY <1>2, <1>4, <1>5

LEMMA WriteGenerates ==
  ASSUME TypeOK, Generated, NEW w \in writers, Quiet,
         Stat(w) \/ ReadRoute(w) \/ WriteRoute(w) \/ WriteTypes(w)
  PROVE  Generated'
<1>0. /\ w.route \in Routes
      /\ ~overlapped => w.new = Exports(w)
      /\ \A r : HandlersOf(r)' = HandlersOf(r)
  BY DEF TypeOK, RouteWriter, TypeWriter, Generated, OwnWriters, Quiet, HandlersOf
<1>1. CASE Stat(w)
  <2>1. PICK n : /\ Proceed(w, {n}) /\ n.round = w.round /\ n.route = w.route
                 /\ n.kind = w.kind /\ n.new = w.new
    BY <1>1, StatNext
  <2>2. Continues(w, {n}) /\ w.kind # "type" /\ UNCHANGED <<routeFiles, typeFiles, contextFile>>
    BY <1>1, <2>1 DEF Continues, Stat, disk
  <2> QED
    BY <2>1, <2>2, ContinuesGenerates
<1>2. CASE ReadRoute(w)
  <2>0. w.kind # "type" /\ UNCHANGED <<routeFiles, typeFiles, contextFile>>
    BY <1>2 DEF ReadRoute, disk
  <2>1. CASE Reject(w)
    <3>1. Continues(w, {})
      BY <2>1 DEF Continues
    <3> QED
      BY <2>0, <2>1, <3>1, ContinuesGenerates
  <2>2. CASE /\ routeFiles[w.route] # Missing /\ Unexported(routeFiles[w.route], w.new) = {}
             /\ Proceed(w, {})
    <3>1. Continues(w, {})
      BY <2>2 DEF Continues
    <3>2. ~overlapped => Served(w.route)'
      BY <1>0, <2>0, <2>2 DEF Served, Unexported, Exports
    <3> QED
      BY <2>0, <3>1, <3>2, ContinuesGenerates
  <2>3. CASE \E n : /\ Proceed(w, {n}) /\ n.round = w.round /\ n.route = w.route
                    /\ n.kind = w.kind /\ n.new = w.new
    <3>1. PICK n : /\ Proceed(w, {n}) /\ n.round = w.round /\ n.route = w.route
                   /\ n.kind = w.kind /\ n.new = w.new
      BY <2>3
    <3>2. Continues(w, {n})
      BY <3>1 DEF Continues
    <3> QED
      BY <2>0, <3>1, <3>2, ContinuesGenerates
  <2> QED
    BY <1>2, <2>1, <2>2, <2>3, ReadRouteNext
<1>3. CASE WriteRoute(w)
  <2>1. /\ w \in RouteWriter /\ Content(w) # Missing
        /\ routeFiles' = [routeFiles EXCEPT ![w.route] = Content(w)]
    BY <1>3, ContentType
  <2>2. /\ w.kind # "type" /\ UNCHANGED <<typeFiles, contextFile>> /\ Continues(w, {})
    BY <1>3 DEF WriteRoute, Continues
  <2>3. /\ routeFiles'[w.route] = Content(w)
        /\ \A r \in Routes : r # w.route => routeFiles'[r] = routeFiles[r]
    BY <1>0, <2>1 DEF TypeOK
  <2>4. \A m \in w.new : Content(w)[m] \in {"stub", "custom"}
    BY <2>1 DEF Content, Appended, Unexported, Fresh, RouteWriter
  <2>5. ~overlapped => Served(w.route)'
    BY <1>0, <2>1, <2>2, <2>3, <2>4 DEF Served, Exports
  <2> QED
    BY <2>2, <2>3, <2>5, ContinuesGenerates
<1>4. CASE WriteTypes(w)
  <2>1. /\ w.kind = "type" /\ UNCHANGED <<routeFiles, contextFile>> /\ Continues(w, {})
    BY <1>4 DEF WriteTypes, Continues
  <2>2. /\ typeFiles'[w.route] = w.new
        /\ \A r \in Routes : r # w.route => typeFiles'[r] = typeFiles[r]
    BY <1>0, <1>4 DEF WriteTypes, TypeOK
  <2> QED
    BY <1>0, <2>1, <2>2, ContinuesGenerates DEF Exports
<1> QED
  BY <1>1, <1>2, <1>3, <1>4

\* When generate() resolves, the next version is to be loaded or all have been.
LEMMA ReturnGenerates ==
  ASSUME TypeOK, LoadedCurrent, CollectedSoFar, Return, stage \in {"write", "context"},
         UNCHANGED <<setup, queued, repository, loaded, documents, changed, unseen>>
  PROVE  LoadedCurrent' /\ CollectedSoFar'
<1>0. setup.versions \in Seq(Versions) /\ turn \in 1 .. Len(setup.versions)
  BY CurrentInGroup DEF TypeOK
<1>1. CASE turn < Len(setup.versions)
  <2>0. turn' = turn + 1 /\ stage' = "load"
    BY <1>1 DEF Return
  <2>1. \A v \in Group : ToLoad(v)' <=> ToLoad(v)
    BY <1>0, <2>0 DEF ToLoad
  <2>2. TurnsTaken' = TurnsTaken
    BY <1>0, <2>0 DEF TurnsTaken, Collecting
  <2> QED
    BY <2>0, <2>1, <2>2 DEF LoadedCurrent, CollectedSoFar, Unspoiled, Group
<1>2. CASE ~(turn < Len(setup.versions))
  <2>0. turn' = turn /\ stage' = "idle" /\ outcome' = "ok" /\ turn = Len(setup.versions)
    BY <1>0, <1>2 DEF Return
  <2>1. \A v \in Group : ~ToLoad(v)
    BY <1>0, <2>0 DEF ToLoad
  <2>2. TurnsTaken' = TurnsTaken
    BY <2>0 DEF TurnsTaken, Collecting
  <2>3. LoadedCurrent'
    BY <2>1 DEF LoadedCurrent, Group
  <2>4. CollectedSoFar'
    BY <2>0, <2>2 DEF CollectedSoFar, Unspoiled
  <2> QED
    BY <2>3, <2>4
<1> QED
  BY <1>1, <1>2

\* With the last writer, and the context file, all is written.
LEMMA FinishGenerates ==
  ASSUME TypeOK, Generated, FinishWriting \/ WriteContext
  PROVE  Generated'
<1>0. /\ UNCHANGED <<setup, queued, round, repository, loaded, documents, changed, unseen,
                     touched, overlapped, writers, routeFiles, typeFiles>>
      /\ stage \in {"write", "context"}
  BY DEF FinishWriting, WriteContext, disk, history
<1>1. ~overlapped => writers = {}
  BY DEF Generated, OwnWriters, FinishWriting, WriteContext, TypeOK
<1>2. LoadedCurrent' /\ CollectedSoFar'
  <2>1. CASE Return
    BY <1>0, <2>1, ReturnGenerates DEF Generated
  <2>2. CASE stage' = "context" /\ UNCHANGED <<turn, outcome>>
    <3>1. LoadedCurrent'
      BY <1>0, <2>2 DEF Generated, LoadedCurrent, ToLoad, Group
    <3>2. CollectedSoFar'
      BY <1>0, <2>2 DEF Generated, CollectedSoFar, TurnsTaken, Collecting, Unspoiled
    <3> QED
      BY <3>1, <3>2
  <2> QED
    BY <2>1, <2>2 DEF FinishWriting, WriteContext
<1>3. OwnWriters'
  BY <1>0, <1>1 DEF OwnWriters
<1>4. TypesWritten' /\ HandlersWritten'
  <2>1. /\ Scripts' = Scripts
        /\ \A r : TypesOf(r)' = TypesOf(r) /\ HandlersOf(r)' = HandlersOf(r)
    BY <1>0 DEF Scripts, TypesOf, HandlersOf
  <2>2. Writing' => Writing
    BY <1>0 DEF Writing
  <2> QED
    BY <1>0, <2>1, <2>2 DEF Generated, TypesWritten, HandlersWritten, Served
<1>5. ContextMade'
  BY DEF ContextMade, Ended, FinishWriting, WriteContext, disk
<1> QED
  BY <1>2, <1>3, <1>4, <1>5 DEF Generated

LEMMA NoticeGenerates ==
  ASSUME TypeOK, Generated, NEW v \in Group, Notice(v)
  PROVE  Generated'
<1>0. UNCHANGED <<setup, stage, round, turn, repository, loaded, documents, unseen, touched,
                  outcome, overlapped, writers, routeFiles, typeFiles, contextFile>>
  BY DEF Notice, disk, history
<1>1. LoadedCurrent'
  BY DEF TypeOK, LoadedCurrent, Notice
<1>2. CollectedSoFar' /\ OwnWriters'
  BY <1>0 DEF Generated, CollectedSoFar, TurnsTaken, Collecting, Unspoiled, OwnWriters, Exports,
              TypesOf, HandlersOf, Scripts
<1>3. (TypesWritten /\ HandlersWritten /\ ContextMade)'
  BY <1>0 DEF Generated, TypesWritten, HandlersWritten, ContextMade, Writing, Ended, Served,
              TypesOf, HandlersOf, Scripts
<1> QED
  BY <1>1, <1>2, <1>3 DEF Generated

\* What users change is on the watcher's list, unseen or touched.
LEMMA UserStepGenerates ==
  ASSUME TypeOK, Generated, UserStep
  PROVE  Generated'
<1>0. UNCHANGED program /\ UNCHANGED <<loaded, typeFiles>>
  BY DEF UserStep, SaveDocument, DeleteRoute, SaveHandler, SaveContext, disk
<1>1. UNCHANGED <<setup, stage, queued, round, turn, repository, loaded, typeFiles, outcome,
                  overlapped, writers>>
  BY <1>0 DEF program
<1>2. LoadedCurrent'
  <2>1. CASE \E v \in Group : SaveDocument(v)
    <3>1. PICK v \in Group : SaveDocument(v)
      BY <2>1
    <3>2. v \in changed' \/ v \in unseen'
      BY <3>1 DEF SaveDocument
    <3>3. changed \subseteq changed' /\ unseen \subseteq unseen'
      BY <3>1 DEF SaveDocument
    <3>4. \A u \in Group : u # v => documents'[u] = documents[u]
      BY <3>1 DEF SaveDocument, TypeOK
    <3> QED
      BY <1>1, <3>2, <3>3, <3>4 DEF Generated, LoadedCurrent, ToLoad, Group
  <2>2. CASE UNCHANGED <<documents, changed, unseen>>
    BY <1>1, <2>2 DEF Generated, LoadedCurrent, ToLoad, Group
  <2> QED
    BY <2>1, <2>2 DEF UserStep, DeleteRoute, SaveHandler, SaveContext
<1>3. CollectedSoFar' /\ OwnWriters'
  BY <1>1 DEF Generated, CollectedSoFar, TurnsTaken, Collecting, Unspoiled, OwnWriters, Exports,
              TypesOf, HandlersOf, Scripts
<1>4. TypesWritten'
  BY <1>1 DEF Generated, TypesWritten, Writing, Ended, TypesOf, Scripts
<1>5. /\ touched \subseteq touched'
      /\ \A r \in Routes \ touched' : routeFiles'[r] = routeFiles[r]
      /\ Context \notin touched' => UNCHANGED contextFile
  <2>1. CASE \E v \in Group : SaveDocument(v)
    BY <2>1 DEF SaveDocument, disk
  <2>2. CASE \E r \in Routes : DeleteRoute(r) \/ \E m \in Methods : SaveHandler(r, m)
    <3>1. PICK r \in Routes : DeleteRoute(r) \/ \E m \in Methods : SaveHandler(r, m)
      BY <2>2
    <3>2. /\ touched' = touched \cup {r} /\ UNCHANGED contextFile
          /\ \E file : routeFiles' = [routeFiles EXCEPT ![r] = file]
      BY <3>1 DEF DeleteRoute, SaveHandler
    <3> QED
      BY <3>2 DEF TypeOK
  <2>3. CASE SaveContext
    BY <2>3 DEF SaveContext
  <2> QED
    BY <2>1, <2>2, <2>3 DEF UserStep
<1>6. HandlersWritten'
  <2>1. Scripts \subseteq Routes
    BY DEF TypeOK, Scripts
  <2> QED
    BY <1>1, <1>5, <2>1 DEF Generated, HandlersWritten, Writing, Ended, Served, HandlersOf, Scripts
<1>7. ContextMade'
  BY <1>1, <1>5 DEF Generated, ContextMade, Ended
<1> QED
  BY <1>2, <1>3, <1>4, <1>6, <1>7 DEF Generated

LEMMA GeneratedStep ==
  ASSUME TypeOK, Generated, [Next]_vars
  PROVE  Generated'
<1>1. CASE Write
  BY <1>1, WriteGenerates DEF Write, Quiet
<1>2. CASE Regenerate /\ ~Write
  BY <1>2, BeginGenerates, LoadGenerates, PruneRouteGenerates, StartWritingGenerates,
     FinishGenerates DEF Regenerate
<1>3. CASE UserStep
  BY <1>3, UserStepGenerates
<1>4. CASE \E v \in Group : Notice(v)
  BY <1>4, NoticeGenerates
<1>5. CASE UNCHANGED vars
  <2>1. UNCHANGED <<setup, queued, stage, round, turn, repository, loaded, documents, changed,
                    unseen, touched, outcome, overlapped, writers, routeFiles, typeFiles,
                    contextFile>>
    BY <1>5 DEF vars, program, disk, history
  <2>2. LoadedCurrent' /\ CollectedSoFar' /\ OwnWriters'
    BY <2>1, ZenonT(40)
    DEF Generated, LoadedCurrent, ToLoad, Group, CollectedSoFar, TurnsTaken, Collecting,
                Unspoiled, OwnWriters, Exports, TypesOf, HandlersOf, Scripts
  <2>3. (TypesWritten /\ HandlersWritten /\ ContextMade)'
    BY <2>1 DEF Generated, TypesWritten, HandlersWritten, ContextMade, Writing, Ended, Served,
                TypesOf, HandlersOf, Scripts
  <2> QED
    BY <2>2, <2>3 DEF Generated
<1> QED
  BY <1>1, <1>2, <1>3, <1>4, <1>5 DEF Next, Regenerate

\* When all is done, the repository holds what each version's last document
\* declares, and nothing else.
LEMMA SettledRepository ==
  ASSUME TypeOK, Generated, Settled
  PROVE  /\ \A v \in Group : loaded[v] \in Document
         /\ \A op : op \in repository <=> \E v \in Group : op \in Operations(v, loaded[v])
<1>1. DOMAIN setup.versions = 1 .. Len(setup.versions)
  BY CurrentInGroup DEF TypeOK
<1>2. TurnsTaken = DOMAIN setup.versions
  BY <1>1 DEF Generated, CollectedSoFar, Unspoiled, Settled, TurnsTaken, Collecting
<1>3. /\ \A v \in Group : loaded[v] \notin {Missing, Broken}
      /\ \A op : op \in repository <=> \E v \in Group : op \in Operations(v, loaded[v])
  BY <1>2 DEF Generated, CollectedSoFar, Unspoiled, Settled, Group
<1> QED
  BY <1>3, GenerationAssumption DEF TypeOK

LEMMA HandlersAtEnd == TypeOK /\ Generated => HandlersGenerated
<1> SUFFICES ASSUME TypeOK, Generated, Settled, setup.routes, ~overlapped
             PROVE  /\ \A v \in Group : \A r \in Paths(loaded[v]) \ touched :
                         \A m \in loaded[v][r] :
                           routeFiles[r] # Missing /\ routeFiles[r][m] \in {"stub", "custom"}
                    /\ Context \notin touched => contextFile # "absent"
  BY DEF HandlersGenerated
<1>1. writers = {} /\ Ended /\ Writing
  BY DEF Generated, OwnWriters, Settled, Ended, Writing
<1>2. ASSUME NEW v \in Group, NEW r \in Paths(loaded[v]) \ touched, NEW m \in loaded[v][r]
      PROVE  routeFiles[r] # Missing /\ routeFiles[r][m] \in {"stub", "custom"}
  <2>1. r \in Routes /\ m \in Methods /\ v \in Versions
    <3>1. r \in Routes /\ loaded[v][r] # Missing
      BY DEF Paths
    <3>2. loaded[v][r] \in SUBSET Methods
      BY <3>1, SettledRepository DEF Document
    <3> QED
      BY <3>1, <3>2, CurrentInGroup DEF TypeOK
  <2>2. <<v, r, m>> \in Operations(v, loaded[v])
    BY <2>1 DEF Operations
  <2>3. <<v, r, m>> \in repository
    BY <2>2, SettledRepository
  <2>4. m \in HandlersOf(r) /\ r \in Scripts
    BY <2>1, <2>3 DEF HandlersOf, Scripts
  <2>5. Served(r)
    BY <1>1, <2>4 DEF Generated, HandlersWritten
  <2> QED
    BY <2>4, <2>5 DEF Served
<1> QED
  BY <1>1, <1>2 DEF Generated, ContextMade

LEMMA TypesAtEnd == TypeOK /\ Generated => TypesMerged
<1> SUFFICES ASSUME TypeOK, Generated, Settled, setup.types, ~overlapped
             PROVE  TypesMerged
  BY DEF TypesMerged
<1> DEFINE all == UNION {Operations(v, loaded[v]) : v \in Group}
           types(r) == {<<op[1], op[3]>> : op \in {o \in all : o[2] = r}}
<1>1. writers = {} /\ Writing
  BY DEF Generated, OwnWriters, Settled, Ended, Writing
<1>2. \A v \in Group \ unseen : loaded[v] = documents[v]
  BY DEF Generated, LoadedCurrent, Settled, ToLoad
<1>3. all = repository
  BY SettledRepository
<1>4. ASSUME NEW r \in Routes
      PROVE  types(r) = TypesOf(r) /\ (types(r) # {} <=> r \in Scripts)
  <2>1. \A op \in repository :
          /\ op = <<op[1], op[2], op[3]>> /\ op[1] \in Versions /\ op[3] \in Methods
    BY CurrentInGroup DEF TypeOK
  <2>2. types(r) = {<<op[1], op[3]>> : op \in {o \in repository : o[2] = r}}
    BY <1>3
  <2> HIDE DEF types
  <2>3. TypesOf(r) \subseteq types(r)
    BY <2>2 DEF TypesOf
  <2>4. types(r) \subseteq TypesOf(r)
    BY <2>1, <2>2 DEF TypesOf
  <2>5. types(r) # {} <=> r \in Scripts
    BY <2>2 DEF Scripts
  <2> QED
    BY <2>3, <2>4, <2>5
<1>5. \A r \in Routes : IF types(r) # {} THEN typeFiles[r] = types(r)
                                         ELSE setup.prune => typeFiles[r] = Missing
  <2> HIDE DEF types
  <2> QED
    BY <1>1, <1>4 DEF Generated, TypesWritten
<1> QED
  BY <1>2, <1>5 DEF TypesMerged

\* When every save has been regenerated, each operation of each version has a
\* handler that the dispatcher finds, and there is a root context: for any
\* documents, any files that users leave or take away, and after rounds that
\* failed (repository.ts, writeFiles()).
THEOREM GeneratedHandlers == Spec => []HandlersGenerated
BY InitType, TypeStep, InitGenerated, GeneratedStep, HandlersAtEnd, PTL DEF Spec

\* When every save has been regenerated, the types are those of the documents
\* on disk: merged over the versions of the group, whose documents are each
\* loaded in a turn of their own, and pruned of what no version declares
\* (app.ts, start(); code-generator.ts, generate()).
THEOREM GeneratedTypes == Spec => []TypesMerged
BY InitType, TypeStep, InitGenerated, GeneratedStep, TypesAtEnd, PTL DEF Spec
-----------------------------------------------------------------------------
(* The helper types.                                                       *)

Inherited == {ContextOf(d, has) : d \in Known, has \in SUBSET Known}
Walks == {<<>>} \cup UNION {[dirs -> Inherited] : dirs \in SUBSET Known}
Steps == {"contexts", "existing", "context", "directories", "middleware", "helpers", "index"}
Calls == [owner : {"repository", "runner", "watcher"}, preserve : BOOLEAN, step : Steps,
          contexts : SUBSET Known, store : BOOLEAN, left : SUBSET Known, directories : Walks]

CallsType == calls \in Seq(Calls)
UserType == tree \in SUBSET Known /\ contexts \in SUBSET Known /\ store \in BOOLEAN
FileType ==
  /\ contextTypes \in {NoFile} \cup [exists : {TRUE}, contexts : SUBSET Known, store : BOOLEAN]
  /\ middlewareTypes = [d \in Known |-> middlewareTypes[d]]
HelpersType == CallsType /\ UserType /\ FileType

\* Only the call that is first has begun.
FirstBegun == \A i \in DOMAIN calls : i # 1 => calls[i].step = "contexts"

\* A change or a failure is still to be made up for: nobody will report it, a
\* watcher is to report it, or a call that reads everything has yet to begin.
Waiting == \E i \in DOMAIN calls : calls[i].step = "contexts" /\ ~ calls[i].preserve
Due == behind \/ reports # {} \/ Waiting

ContextTypesCurrent == contextTypes = [exists |-> TRUE, contexts |-> contexts, store |-> store]
Walk == [d \in tree |-> ContextOf(d, contexts)]
MiddlewareOf(d) ==
  IF d \in tree THEN [exists |-> TRUE, context |-> ContextOf(d, contexts)] ELSE NoFile
MiddlewareCurrent == middlewareTypes = [d \in Known |-> MiddlewareOf(d)]
ImportsCurrent == helpers = [exists |-> TRUE, directories |-> tree]
FilesCurrent == ContextTypesCurrent /\ MiddlewareCurrent /\ ImportsCurrent /\ index

\* What is current when the first call is at a step: what it has read and what
\* it has written.
Progress(call) ==
  /\ call.step \in {"contexts", "existing"} => FilesCurrent
  /\ call.step \in {"existing", "context"} => call.contexts = contexts
  /\ call.step = "context" => call.store = store
  /\ call.step \in {"directories", "middleware", "helpers", "index"} => ContextTypesCurrent
  /\ call.step \in {"middleware", "helpers", "index"} => call.directories = Walk
  /\ call.step = "middleware" =>
       \A d \in tree \ call.left : middlewareTypes[d] = MiddlewareOf(d)
  /\ call.step \in {"helpers", "index"} => MiddlewareCurrent
  /\ call.step = "index" => ImportsCurrent

MadeUp ==
  ~ Due =>
    /\ calls = <<>> => FilesCurrent
    /\ calls # <<>> => Progress(calls[1])

HelpersInv == HelpersType /\ FirstBegun /\ MadeUp

LEMMA HelpersInit == InitHelpers => HelpersInv
<1> SUFFICES ASSUME InitHelpers
             PROVE  HelpersInv
  OBVIOUS
<1>1. UserType /\ CallsType
  BY DirectoriesAssumption DEF InitHelpers, UserType, CallsType, Known
<1>2. FileType
  BY DEF InitHelpers, FileType
<1>3. FirstBegun /\ MadeUp
  BY DEF InitHelpers, FirstBegun, MadeUp, Due
<1> QED
  BY <1>1, <1>2, <1>3 DEF HelpersInv, HelpersType

\* A call that is made waits for its turn, and nothing changes for the others.
LEMMA CallAdded ==
  ASSUME NEW owner \in {"repository", "runner", "watcher"},
         CallsType, FirstBegun, calls' = Append(calls, Call(owner))
  PROVE  /\ CallsType' /\ FirstBegun' /\ calls' # <<>>
         /\ calls # <<>> => calls'[1] = calls[1]
         /\ calls = <<>> => calls'[1].step = "contexts"
         /\ Waiting' <=> Waiting \/ owner # "repository"
<1> DEFINE call == Call(owner)
<1>1. /\ call \in Calls /\ call.step = "contexts"
      /\ call.preserve <=> owner = "repository"
  BY DEF Call, Calls, Steps, Walks
<1> HIDE DEF call
<1>2. calls \in Seq(Calls) /\ calls' = Append(calls, call)
  BY DEF CallsType, call
<1>3. /\ calls' \in Seq(Calls) /\ Len(calls') = Len(calls) + 1 /\ Len(calls) \in Nat
      /\ DOMAIN calls' = 1..(Len(calls) + 1) /\ DOMAIN calls = 1..Len(calls)
      /\ \A i \in 1..Len(calls) : calls'[i] = calls[i]
      /\ calls'[Len(calls) + 1] = call
  BY <1>1, <1>2
<1>4. CallsType' /\ calls' # <<>>
  BY <1>3 DEF CallsType
<1>5. FirstBegun'
  BY <1>1, <1>3 DEF FirstBegun
<1>6. calls # <<>> => calls'[1] = calls[1]
  BY <1>2, <1>3
<1>7. calls = <<>> => calls'[1].step = "contexts"
  BY <1>1, <1>3
<1>8. Waiting => Waiting'
  BY <1>3 DEF Waiting
<1>9. owner # "repository" => Waiting'
  <2>1. Len(calls) + 1 \in DOMAIN calls'
    BY <1>3
  <2> QED
    BY <1>1, <1>3, <2>1 DEF Waiting
<1>10. Waiting' => Waiting \/ owner # "repository"
  BY <1>1, <1>3 DEF Waiting
<1> QED
  BY <1>4, <1>5, <1>6, <1>7, <1>8, <1>9, <1>10

\* The first call is over, and the others have not begun.
LEMMA CallRemoved ==
  ASSUME CallsType, FirstBegun, 1 \in DOMAIN calls, calls' = RemoveAt(calls, 1)
  PROVE  /\ CallsType' /\ FirstBegun'
         /\ calls' # <<>> => calls'[1].step = "contexts"
         /\ Waiting => Waiting' \/ (calls[1].step = "contexts" /\ ~ calls[1].preserve)
<1>1. /\ calls \in Seq(Calls) /\ Len(calls) \in Nat \ {0} /\ DOMAIN calls = 1..Len(calls)
  BY DEF CallsType
<1> DEFINE rest == SubSeq(calls, 2, Len(calls))
<1>2. /\ rest \in Seq(Calls) /\ Len(rest) = Len(calls) - 1
      /\ \A i \in 1..(Len(calls) - 1) : rest[i] = calls[i + 1]
  BY <1>1
<1>3. calls' = rest
  <2>1. calls' = SubSeq(calls, 1, 0) \o rest
    BY DEF RemoveAt
  <2>2. SubSeq(calls, 1, 0) = <<>>
    BY <1>1
  <2> HIDE DEF rest
  <2> QED
    BY <1>2, <2>1, <2>2
<1> HIDE DEF rest
<1>4. /\ calls' \in Seq(Calls) /\ DOMAIN calls' = 1..(Len(calls) - 1)
      /\ \A i \in 1..(Len(calls) - 1) : calls'[i] = calls[i + 1]
  BY <1>1, <1>2, <1>3
<1>5. \A i \in DOMAIN calls' : calls'[i].step = "contexts"
  <2> SUFFICES ASSUME NEW i \in 1..(Len(calls) - 1)
               PROVE  calls[i + 1].step = "contexts"
    BY <1>4
  <2>1. i + 1 \in DOMAIN calls /\ i + 1 # 1
    BY <1>1
  <2> QED
    BY <2>1 DEF FirstBegun
<1>6. calls' # <<>> => 1 \in DOMAIN calls'
  BY <1>4
<1>7. Waiting => Waiting' \/ (calls[1].step = "contexts" /\ ~ calls[1].preserve)
  <2> SUFFICES ASSUME NEW i \in DOMAIN calls, i # 1,
                      calls[i].step = "contexts", ~ calls[i].preserve
               PROVE  Waiting'
    BY DEF Waiting
  <2>1. i - 1 \in DOMAIN calls' /\ calls'[i - 1] = calls[i]
    BY <1>1, <1>4
  <2> QED
    BY <2>1 DEF Waiting
<1> QED
  BY <1>4, <1>5, <1>6, <1>7 DEF CallsType, FirstBegun

\* The first call goes on.
LEMMA CallContinues ==
  ASSUME NEW call \in Calls, NEW step \in Steps, step # "contexts",
         CallsType, FirstBegun, 1 \in DOMAIN calls, Continue(1, call, step)
  PROVE  /\ CallsType' /\ FirstBegun' /\ calls' # <<>>
         /\ calls'[1] = [call EXCEPT !.step = step]
         /\ Waiting => Waiting' \/ (calls[1].step = "contexts" /\ ~ calls[1].preserve)
<1> DEFINE next == [call EXCEPT !.step = step]
<1>1. next \in Calls /\ next.step = step
  BY DEF Calls
<1> HIDE DEF next
<1>2. calls \in Seq(Calls) /\ calls' = [calls EXCEPT ![1] = next]
  BY DEF CallsType, Continue, next
<1>3. /\ calls' \in Seq(Calls) /\ DOMAIN calls' = DOMAIN calls
      /\ calls'[1] = next
      /\ \A i \in DOMAIN calls : i # 1 => calls'[i] = calls[i]
  BY <1>1, <1>2
<1>4. FirstBegun' /\ CallsType' /\ calls' # <<>>
  BY <1>3 DEF FirstBegun, CallsType
<1>5. Waiting => Waiting' \/ (calls[1].step = "contexts" /\ ~ calls[1].preserve)
  BY <1>3 DEF Waiting
<1> QED
  BY <1>3, <1>4, <1>5 DEF next

\* What is current stays so while nothing is written.
LEMMA SameFiles ==
  ASSUME UNCHANGED <<userVars, fileVars>>
  PROVE  /\ UserType' = UserType /\ FileType' = FileType
         /\ FilesCurrent' = FilesCurrent /\ ContextTypesCurrent' = ContextTypesCurrent
         /\ MiddlewareCurrent' = MiddlewareCurrent /\ ImportsCurrent' = ImportsCurrent
         /\ Walk' = Walk /\ \A d : MiddlewareOf(d)' = MiddlewareOf(d)
BY DEF userVars, fileVars, UserType, FileType, FilesCurrent, ContextTypesCurrent,
       MiddlewareCurrent, ImportsCurrent, Walk, MiddlewareOf

LEMMA ReadContextsKept ==
  ASSUME HelpersInv, NEW i \in DOMAIN calls, ReadContexts(i)
  PROVE  HelpersInv'
<1> USE DEF HelpersInv, HelpersType
<1> DEFINE seen == store /\ (calls[1].preserve => ~ Nested)
           call == [calls[1] EXCEPT !.contexts = contexts, !.store = seen]
           step == IF calls[1].preserve /\ ~ seen THEN "existing" ELSE "context"
<1>1. i = 1 /\ 1 \in DOMAIN calls /\ calls[1].step = "contexts"
  BY DEF ReadContexts, At, MayRun
<1>2. calls[1] \in Calls /\ calls[1].preserve \in BOOLEAN /\ calls # <<>>
  <2>1. calls[1] \in Calls /\ calls # <<>>
    BY <1>1 DEF CallsType
  <2> QED
    BY <2>1 DEF Calls
<1>3. Continue(1, call, step)
  BY <1>1 DEF ReadContexts
<1>4. /\ UNCHANGED <<userVars, fileVars, watching, reports>>
      /\ behind' = (behind /\ calls[1].preserve)
  BY <1>1 DEF ReadContexts
<1>5. seen \in BOOLEAN /\ step \in Steps /\ step # "contexts"
  BY DEF Steps
<1>6. /\ call \in Calls /\ call.contexts = contexts /\ call.store = seen
      /\ call.preserve = calls[1].preserve
  <2> HIDE DEF seen
  <2> QED
    BY <1>2, <1>5 DEF Calls, UserType
<1>7. seen => seen = store
  BY DEF UserType
<1>8. ~ calls[1].preserve => seen = store /\ step = "context"
  BY DEF UserType
<1>9. step = "context" => seen = store
  BY <1>7, <1>8
<1>10. step \in {"existing", "context"} /\ (step = "existing" => calls[1].preserve)
  OBVIOUS
<1> HIDE DEF seen, call, step
<1>11. /\ CallsType' /\ FirstBegun' /\ calls' # <<>>
       /\ calls'[1] = [call EXCEPT !.step = step]
       /\ Waiting => Waiting' \/ (calls[1].step = "contexts" /\ ~ calls[1].preserve)
  BY <1>1, <1>3, <1>5, <1>6, CallContinues
<1>12. calls'[1].step = step /\ calls'[1].contexts = contexts /\ calls'[1].store = seen
  BY <1>6, <1>11 DEF Calls
<1>13. FilesCurrent' = FilesCurrent /\ UserType' /\ FileType' /\ UNCHANGED <<contexts, store>>
  BY <1>4, SameFiles DEF userVars
<1>14. MadeUp'
  <2> SUFFICES ASSUME ~ Due'
               PROVE  Progress(calls[1])'
    BY <1>11 DEF MadeUp
  <2>1. step = "existing" => FilesCurrent
    <3> SUFFICES ASSUME calls[1].preserve
                 PROVE  FilesCurrent
      BY <1>10
    <3>1. ~ Due
      BY <1>4, <1>11 DEF Due
    <3> QED
      BY <1>1, <1>2, <3>1 DEF MadeUp, Progress
  <2> QED
    BY <1>9, <1>10, <1>12, <1>13, <2>1 DEF Progress
<1> QED
  BY <1>11, <1>13, <1>14

LEMMA ReadExistingKept ==
  ASSUME HelpersInv, NEW i \in DOMAIN calls, ReadExisting(i)
  PROVE  HelpersInv'
<1> USE DEF HelpersInv, HelpersType
<1> DEFINE seen == contextTypes.exists /\ contextTypes.store /\ store
           call == [calls[1] EXCEPT !.store = seen]
<1>1. i = 1 /\ 1 \in DOMAIN calls /\ calls[1].step = "existing"
  BY DEF ReadExisting, At, MayRun
<1>2. calls[1] \in Calls /\ calls # <<>>
  BY <1>1 DEF CallsType
<1>3. Continue(1, call, "context") /\ UNCHANGED <<userVars, fileVars, watching, reports, behind>>
  BY <1>1 DEF ReadExisting
<1>4. seen \in BOOLEAN
  OBVIOUS
<1>5. ContextTypesCurrent => seen = store
  BY DEF ContextTypesCurrent, UserType
<1>6. call \in Calls /\ call.contexts = calls[1].contexts /\ call.store = seen
  <2> HIDE DEF seen
  <2> QED
    BY <1>2, <1>4 DEF Calls
<1> HIDE DEF seen, call
<1>7. /\ CallsType' /\ FirstBegun' /\ calls' # <<>>
      /\ calls'[1] = [call EXCEPT !.step = "context"]
      /\ Waiting => Waiting' \/ (calls[1].step = "contexts" /\ ~ calls[1].preserve)
  BY <1>1, <1>3, <1>6, CallContinues DEF Steps
<1>8. /\ calls'[1].step = "context" /\ calls'[1].contexts = calls[1].contexts
      /\ calls'[1].store = seen
  BY <1>6, <1>7 DEF Calls
<1>9. UserType' /\ FileType' /\ UNCHANGED <<contexts, store>>
  BY <1>3, SameFiles DEF userVars
<1>10. MadeUp'
  <2> SUFFICES ASSUME ~ Due'
               PROVE  Progress(calls[1])'
    BY <1>7 DEF MadeUp
  <2>1. ~ Due
    BY <1>1, <1>3, <1>7 DEF Due
  <2>2. ContextTypesCurrent /\ calls[1].contexts = contexts
    BY <1>1, <1>2, <2>1 DEF MadeUp, Progress, FilesCurrent
  <2> QED
    BY <1>5, <1>8, <1>9, <2>2 DEF Progress
<1> QED
  BY <1>7, <1>9, <1>10

LEMMA WriteContextTypesKept ==
  ASSUME HelpersInv, NEW i \in DOMAIN calls, WriteContextTypes(i)
  PROVE  HelpersInv'
<1> USE DEF HelpersInv, HelpersType
<1>1. i = 1 /\ 1 \in DOMAIN calls /\ calls[1].step = "context"
  BY DEF WriteContextTypes, At, MayRun
<1>2. calls[1] \in Calls /\ calls # <<>>
  BY <1>1 DEF CallsType
<1>3. /\ Continue(1, calls[1], "directories") /\ contextTypes' = ContextContent(calls[1])
      /\ UNCHANGED <<userVars, middlewareTypes, helpers, index, watching, reports, behind>>
  BY <1>1 DEF WriteContextTypes
<1>4. /\ CallsType' /\ FirstBegun' /\ calls' # <<>>
      /\ calls'[1] = [calls[1] EXCEPT !.step = "directories"]
      /\ Waiting => Waiting' \/ (calls[1].step = "contexts" /\ ~ calls[1].preserve)
  BY <1>1, <1>2, <1>3, CallContinues DEF Steps
<1>5. calls'[1].step = "directories"
  BY <1>2, <1>4 DEF Calls
<1>6. UserType' /\ UNCHANGED <<contexts, store>>
  BY <1>3 DEF userVars, UserType
<1>7. FileType'
  BY <1>2, <1>3 DEF FileType, ContextContent, Calls
<1>8. MadeUp'
  <2> SUFFICES ASSUME ~ Due'
               PROVE  Progress(calls[1])'
    BY <1>4 DEF MadeUp
  <2>1. ~ Due
    BY <1>1, <1>3, <1>4 DEF Due
  <2>2. calls[1].contexts = contexts /\ calls[1].store = store
    BY <1>1, <1>2, <2>1 DEF MadeUp, Progress
  <2>3. ContextTypesCurrent'
    BY <1>3, <1>6, <2>2 DEF ContextTypesCurrent, ContextContent
  <2> QED
    BY <1>5, <2>3 DEF Progress
<1> QED
  BY <1>4, <1>6, <1>7, <1>8

LEMMA ReadDirectoriesKept ==
  ASSUME HelpersInv, NEW i \in DOMAIN calls, ReadDirectories(i)
  PROVE  HelpersInv'
<1> USE DEF HelpersInv, HelpersType
<1> DEFINE call == [calls[1] EXCEPT !.left = tree, !.directories = Walk]
<1>1. i = 1 /\ 1 \in DOMAIN calls /\ calls[1].step = "directories"
  BY DEF ReadDirectories, At, MayRun
<1>2. calls[1] \in Calls /\ calls # <<>>
  BY <1>1 DEF CallsType
<1>3. /\ Continue(1, call, "middleware")
      /\ UNCHANGED <<userVars, fileVars, watching, reports, behind>>
  BY <1>1 DEF ReadDirectories, Walk
<1>4. Walk \in Walks
  <2>1. \A d \in tree : ContextOf(d, contexts) \in Inherited
    BY DEF UserType, Inherited
  <2>2. Walk \in [tree -> Inherited]
    BY <2>1 DEF Walk
  <2> QED
    BY <2>2 DEF Walks, UserType
<1>5. call \in Calls /\ call.left = tree /\ call.directories = Walk
  BY <1>2, <1>4 DEF Calls, UserType
<1> HIDE DEF call
<1>6. /\ CallsType' /\ FirstBegun' /\ calls' # <<>>
      /\ calls'[1] = [call EXCEPT !.step = "middleware"]
      /\ Waiting => Waiting' \/ (calls[1].step = "contexts" /\ ~ calls[1].preserve)
  BY <1>1, <1>3, <1>5, CallContinues DEF Steps
<1>7. calls'[1].step = "middleware" /\ calls'[1].left = tree /\ calls'[1].directories = Walk
  BY <1>5, <1>6 DEF Calls
<1>8. UserType' /\ FileType' /\ UNCHANGED tree
  BY <1>3, SameFiles DEF userVars
<1>9. MadeUp'
  <2> SUFFICES ASSUME ~ Due'
               PROVE  Progress(calls[1])'
    BY <1>6 DEF MadeUp
  <2>1. ~ Due
    BY <1>1, <1>3, <1>6 DEF Due
  <2>2. ContextTypesCurrent
    BY <1>1, <1>2, <2>1 DEF MadeUp, Progress
  <2>3. ContextTypesCurrent' /\ Walk' = Walk
    BY <1>3, <2>2, SameFiles
  <2> QED
    BY <1>7, <1>8, <2>3 DEF Progress
<1> QED
  BY <1>6, <1>8, <1>9

\* The file of one directory is written, and it is current.
LEMMA WriteMiddlewareKept ==
  ASSUME HelpersInv, NEW i \in DOMAIN calls, WriteMiddleware(i)
  PROVE  HelpersInv'
<1> USE DEF HelpersInv, HelpersType
<1>1. i = 1 /\ 1 \in DOMAIN calls /\ calls[1].step = "middleware"
  BY DEF WriteMiddleware, At, MayRun
<1>2. calls[1] \in Calls /\ calls # <<>>
  BY <1>1 DEF CallsType
<1>3. PICK n \in DOMAIN Directories :
        /\ Directories[n] \in calls[1].left
        /\ middlewareTypes' = [middlewareTypes EXCEPT ![Directories[n]] =
                                 MiddlewareContent(calls[1].directories[Directories[n]])]
        /\ Continue(1, [calls[1] EXCEPT !.left = @ \ {Directories[n]}], "middleware")
  BY <1>1 DEF WriteMiddleware
<1> DEFINE d == Directories[n]
           call == [calls[1] EXCEPT !.left = @ \ {d}]
<1>4. UNCHANGED <<userVars, contextTypes, helpers, index, watching, reports, behind>>
  BY DEF WriteMiddleware
<1>5. /\ call \in Calls /\ call.left = calls[1].left \ {d}
      /\ call.directories = calls[1].directories
  BY <1>2 DEF Calls
<1>6. Continue(1, call, "middleware")
  BY <1>3
<1>7. /\ d \in calls[1].left
      /\ middlewareTypes' =
           [middlewareTypes EXCEPT ![d] = MiddlewareContent(calls[1].directories[d])]
  BY <1>3
<1>8. d \in Known
  BY <1>2, <1>7 DEF Calls
<1> HIDE DEF call, d
<1>9. /\ CallsType' /\ FirstBegun' /\ calls' # <<>>
      /\ calls'[1] = [call EXCEPT !.step = "middleware"]
      /\ Waiting => Waiting' \/ (calls[1].step = "contexts" /\ ~ calls[1].preserve)
  BY <1>1, <1>5, <1>6, CallContinues DEF Steps
<1>10. /\ calls'[1].step = "middleware" /\ calls'[1].left = calls[1].left \ {d}
       /\ calls'[1].directories = calls[1].directories
  BY <1>5, <1>9 DEF Calls
<1>11. /\ UserType' /\ FileType' /\ UNCHANGED <<tree, contexts>>
       /\ ContextTypesCurrent' = ContextTypesCurrent /\ Walk' = Walk
  BY <1>4, <1>7 DEF userVars, UserType, FileType, ContextTypesCurrent, Walk
<1>12. \A e : MiddlewareOf(e)' = MiddlewareOf(e)
  BY <1>4 DEF userVars, MiddlewareOf
<1>13. MadeUp'
  <2> SUFFICES ASSUME ~ Due'
               PROVE  Progress(calls[1])'
    BY <1>9 DEF MadeUp
  <2>1. ~ Due
    BY <1>1, <1>4, <1>9 DEF Due
  <2>2. /\ ContextTypesCurrent /\ calls[1].directories = Walk
        /\ \A e \in tree \ calls[1].left : middlewareTypes[e] = MiddlewareOf(e)
    BY <1>1, <1>2, <2>1 DEF MadeUp, Progress
  <2>3. ASSUME NEW e \in tree \ (calls[1].left \ {d})
        PROVE  middlewareTypes'[e] = MiddlewareOf(e)
    <3>1. CASE e = d
      <4>1. middlewareTypes'[d] = MiddlewareContent(Walk[d])
        BY <1>7, <1>8, <2>2 DEF FileType
      <4>2. d \in tree /\ Walk[d] = ContextOf(d, contexts)
        BY <3>1 DEF Walk
      <4> QED
        BY <3>1, <4>1, <4>2 DEF MiddlewareOf, MiddlewareContent
    <3>2. CASE e # d
      <4>1. middlewareTypes'[e] = middlewareTypes[e]
        BY <1>7, <3>2 DEF FileType, UserType
      <4> QED
        BY <2>2, <3>2, <4>1
    <3> QED
      BY <3>1, <3>2
  <2> QED
    BY <1>10, <1>11, <1>12, <2>2, <2>3 DEF Progress
<1> QED
  BY <1>9, <1>11, <1>13

LEMMA RemoveStaleKept ==
  ASSUME HelpersInv, NEW i \in DOMAIN calls, RemoveStale(i)
  PROVE  HelpersInv'
<1> USE DEF HelpersInv, HelpersType
<1>1. i = 1 /\ 1 \in DOMAIN calls /\ calls[1].step = "middleware" /\ calls[1].left = {}
  BY DEF RemoveStale, At, MayRun
<1>2. calls[1] \in Calls /\ calls # <<>>
  BY <1>1 DEF CallsType
<1>3. /\ Continue(1, calls[1], "helpers")
      /\ middlewareTypes' =
           [d \in Known |-> IF d \in Walked(calls[1]) THEN middlewareTypes[d] ELSE NoFile]
      /\ UNCHANGED <<userVars, contextTypes, helpers, index, watching, reports, behind>>
  BY <1>1 DEF RemoveStale
<1>4. /\ CallsType' /\ FirstBegun' /\ calls' # <<>>
      /\ calls'[1] = [calls[1] EXCEPT !.step = "helpers"]
      /\ Waiting => Waiting' \/ (calls[1].step = "contexts" /\ ~ calls[1].preserve)
  BY <1>1, <1>2, <1>3, CallContinues DEF Steps
<1>5. calls'[1].step = "helpers" /\ calls'[1].directories = calls[1].directories
  BY <1>2, <1>4 DEF Calls
<1>6. /\ UserType' /\ FileType' /\ UNCHANGED <<tree, contexts>>
      /\ ContextTypesCurrent' = ContextTypesCurrent /\ Walk' = Walk
  BY <1>3 DEF userVars, UserType, FileType, ContextTypesCurrent, Walk
<1>7. \A e : MiddlewareOf(e)' = MiddlewareOf(e)
  BY <1>3 DEF userVars, MiddlewareOf
<1>8. MadeUp'
  <2> SUFFICES ASSUME ~ Due'
               PROVE  Progress(calls[1])'
    BY <1>4 DEF MadeUp
  <2>1. ~ Due
    BY <1>1, <1>3, <1>4 DEF Due
  <2>2. /\ ContextTypesCurrent /\ calls[1].directories = Walk
        /\ \A e \in tree : middlewareTypes[e] = MiddlewareOf(e)
    BY <1>1, <1>2, <2>1 DEF MadeUp, Progress
  <2>3. Walked(calls[1]) = tree
    BY <2>2 DEF Walked, Walk
  <2>4. MiddlewareCurrent'
    <3>1. \A e \in Known : middlewareTypes'[e] = MiddlewareOf(e)
      BY <1>3, <2>2, <2>3 DEF MiddlewareOf
    <3>2. middlewareTypes' = [e \in Known |-> MiddlewareOf(e)]
      BY <1>3, <3>1
    <3> QED
      BY <1>7, <3>2 DEF MiddlewareCurrent
  <2> QED
    BY <1>5, <1>6, <2>2, <2>4 DEF Progress
<1> QED
  BY <1>4, <1>6, <1>8

LEMMA WriteHelpersKept ==
  ASSUME HelpersInv, NEW i \in DOMAIN calls, WriteHelpers(i)
  PROVE  HelpersInv'
<1> USE DEF HelpersInv, HelpersType
<1>1. i = 1 /\ 1 \in DOMAIN calls /\ calls[1].step = "helpers"
  BY DEF WriteHelpers, At, MayRun
<1>2. calls[1] \in Calls /\ calls # <<>>
  BY <1>1 DEF CallsType
<1>3. /\ Continue(1, calls[1], "index")
      /\ helpers' = [exists |-> TRUE, directories |-> Walked(calls[1])]
      /\ UNCHANGED <<userVars, contextTypes, middlewareTypes, index, watching, reports, behind>>
  BY <1>1 DEF WriteHelpers
<1>4. /\ CallsType' /\ FirstBegun' /\ calls' # <<>>
      /\ calls'[1] = [calls[1] EXCEPT !.step = "index"]
      /\ Waiting => Waiting' \/ (calls[1].step = "contexts" /\ ~ calls[1].preserve)
  BY <1>1, <1>2, <1>3, CallContinues DEF Steps
<1>5. calls'[1].step = "index" /\ calls'[1].directories = calls[1].directories
  BY <1>2, <1>4 DEF Calls
<1>6. /\ UserType' /\ FileType' /\ UNCHANGED <<tree, contexts>>
      /\ ContextTypesCurrent' = ContextTypesCurrent /\ Walk' = Walk
  BY <1>3 DEF userVars, UserType, FileType, ContextTypesCurrent, Walk
<1>7. MiddlewareCurrent' = MiddlewareCurrent
  BY <1>3 DEF userVars, MiddlewareOf, MiddlewareCurrent
<1>8. MadeUp'
  <2> SUFFICES ASSUME ~ Due'
               PROVE  Progress(calls[1])'
    BY <1>4 DEF MadeUp
  <2>1. ~ Due
    BY <1>1, <1>3, <1>4 DEF Due
  <2>2. ContextTypesCurrent /\ calls[1].directories = Walk /\ MiddlewareCurrent
    BY <1>1, <1>2, <2>1 DEF MadeUp, Progress
  <2>3. Walked(calls[1]) = tree
    BY <2>2 DEF Walked, Walk
  <2>4. ImportsCurrent'
    BY <1>3, <1>6, <2>3 DEF ImportsCurrent
  <2> QED
    BY <1>5, <1>6, <1>7, <2>2, <2>4 DEF Progress
<1> QED
  BY <1>4, <1>6, <1>8

LEMMA WriteIndexKept ==
  ASSUME HelpersInv, NEW i \in DOMAIN calls, WriteIndex(i)
  PROVE  HelpersInv'
<1> USE DEF HelpersInv, HelpersType
<1>1. i = 1 /\ 1 \in DOMAIN calls /\ calls[1].step = "index"
  BY DEF WriteIndex, At, MayRun
<1>2. calls # <<>>
  BY <1>1
<1>3. /\ index' = TRUE /\ calls' = RemoveAt(calls, 1)
      /\ UNCHANGED <<userVars, contextTypes, middlewareTypes, helpers, watching, reports, behind>>
  BY <1>1 DEF WriteIndex
<1>4. /\ CallsType' /\ FirstBegun'
      /\ calls' # <<>> => calls'[1].step = "contexts"
      /\ Waiting => Waiting' \/ (calls[1].step = "contexts" /\ ~ calls[1].preserve)
  BY <1>1, <1>3, CallRemoved
<1>5. /\ UserType' /\ FileType'
      /\ ContextTypesCurrent' = ContextTypesCurrent /\ ImportsCurrent' = ImportsCurrent
  BY <1>3 DEF userVars, UserType, FileType, ContextTypesCurrent, ImportsCurrent
<1>6. MiddlewareCurrent' = MiddlewareCurrent
  BY <1>3 DEF userVars, MiddlewareOf, MiddlewareCurrent
<1>7. MadeUp'
  <2> SUFFICES ASSUME ~ Due'
               PROVE  FilesCurrent'
    BY <1>4 DEF MadeUp, Progress
  <2>1. ~ Due
    BY <1>1, <1>3, <1>4 DEF Due
  <2>2. ContextTypesCurrent /\ MiddlewareCurrent /\ ImportsCurrent
    BY <1>1, <1>2, <2>1 DEF MadeUp, Progress
  <2> QED
    BY <1>3, <1>5, <1>6, <2>2 DEF FilesCurrent
<1> QED
  BY <1>4, <1>5, <1>7

LEMMA CallFailsKept ==
  ASSUME HelpersInv, NEW i \in DOMAIN calls, CallFails(i)
  PROVE  HelpersInv'
<1> USE DEF HelpersInv, HelpersType
<1>1. /\ 1 \in DOMAIN calls /\ calls' = RemoveAt(calls, 1) /\ behind' = TRUE
      /\ UNCHANGED <<userVars, fileVars>>
  BY DEF CallFails, MayRun
<1>2. CallsType' /\ FirstBegun'
  BY <1>1, CallRemoved
<1>3. UserType' /\ FileType'
  BY <1>1, SameFiles
<1>4. MadeUp'
  BY <1>1 DEF MadeUp, Due
<1> QED
  BY <1>2, <1>3, <1>4

\* Nothing of what is current changes unless it is to be made up for.
LEMMA SameCalls ==
  ASSUME HelpersInv, UNCHANGED <<fileVars, calls>>, UserType',
         ~ Due' => ~ Due /\ UNCHANGED userVars
  PROVE  HelpersInv'
<1> USE DEF HelpersInv, HelpersType
<1>1. CallsType' /\ FirstBegun' /\ FileType'
  BY DEF CallsType, FirstBegun, FileType, fileVars
<1>2. MadeUp'
  <2> SUFFICES ASSUME ~ Due'
               PROVE  (/\ calls = <<>> => FilesCurrent
                       /\ calls # <<>> => Progress(calls[1]))'
    BY DEF MadeUp
  <2>1. /\ calls = <<>> => FilesCurrent
        /\ calls # <<>> => Progress(calls[1])
    BY DEF MadeUp
  <2>2. UNCHANGED <<calls, contexts, store, tree, middlewareTypes>>
    BY DEF userVars, fileVars
  <2>3. /\ FilesCurrent' = FilesCurrent /\ ContextTypesCurrent' = ContextTypesCurrent
        /\ MiddlewareCurrent' = MiddlewareCurrent /\ ImportsCurrent' = ImportsCurrent
        /\ Walk' = Walk /\ \A d : MiddlewareOf(d)' = MiddlewareOf(d)
    BY SameFiles
  <2> QED
    BY <2>1, <2>2, <2>3 DEF Progress
<1> QED
  BY <1>1, <1>2

LEMMA OneMoreCall ==
  ASSUME HelpersInv, NEW owner \in {"repository", "runner", "watcher"},
         UNCHANGED fileVars, UserType', calls' = Append(calls, Call(owner)),
         ~ Due' => ~ Due /\ UNCHANGED userVars
  PROVE  HelpersInv'
<1> USE DEF HelpersInv, HelpersType
<1>1. /\ CallsType' /\ FirstBegun' /\ calls' # <<>>
      /\ calls # <<>> => calls'[1] = calls[1]
      /\ calls = <<>> => calls'[1].step = "contexts"
  BY CallAdded
<1>2. FileType'
  BY DEF FileType, fileVars
<1>3. MadeUp'
  <2> SUFFICES ASSUME ~ Due'
               PROVE  Progress(calls[1])'
    BY <1>1 DEF MadeUp
  <2>1. /\ calls = <<>> => FilesCurrent
        /\ calls # <<>> => Progress(calls[1])
    BY DEF MadeUp
  <2>2. UNCHANGED <<contexts, store, tree, middlewareTypes>>
    BY DEF userVars, fileVars
  <2>3. /\ FilesCurrent' = FilesCurrent /\ ContextTypesCurrent' = ContextTypesCurrent
        /\ MiddlewareCurrent' = MiddlewareCurrent /\ ImportsCurrent' = ImportsCurrent
        /\ Walk' = Walk /\ \A d : MiddlewareOf(d)' = MiddlewareOf(d)
    BY SameFiles
  <2>4. CASE calls = <<>>
    BY <1>1, <2>1, <2>3, <2>4 DEF Progress
  <2>5. CASE calls # <<>>
    BY <1>1, <2>1, <2>2, <2>3, <2>5 DEF Progress
  <2> QED
    BY <2>4, <2>5
<1> QED
  BY <1>1, <1>2, <1>3

LEMMA WatchKept ==
  ASSUME HelpersInv, StartWatching \/ WatchersReady \/ StopWatching
  PROVE  HelpersInv'
<1>1. UNCHANGED <<userVars, fileVars, calls>>
  BY DEF StartWatching, WatchersReady, StopWatching
<1>2. UserType' /\ Waiting' = Waiting
  BY <1>1 DEF HelpersInv, HelpersType, UserType, userVars, Waiting
<1>3. ~ Due' => ~ Due
  BY <1>1, <1>2 DEF StartWatching, WatchersReady, StopWatching, Due
<1> QED
  BY <1>1, <1>2, <1>3, SameCalls

LEMMA CallMadeKept ==
  ASSUME HelpersInv, RunnerCalls \/ \E watcher \in reports : Report(watcher)
  PROVE  HelpersInv'
<1>1. PICK owner \in {"runner", "watcher"} : calls' = Append(calls, Call(owner))
  BY DEF RunnerCalls, Report
<1>2. UNCHANGED <<userVars, fileVars>>
  BY DEF RunnerCalls, Report
<1>3. Due'
  BY <1>1, CallAdded DEF HelpersInv, HelpersType, Due
<1>4. UserType'
  BY <1>2 DEF HelpersInv, HelpersType, UserType, userVars
<1>5. owner \in {"repository", "runner", "watcher"} /\ UNCHANGED fileVars
  BY <1>2
<1> QED
  BY <1>1, <1>3, <1>4, <1>5, OneMoreCall

LEMMA FilesWrittenKept ==
  ASSUME HelpersInv, NEW dirs \in SUBSET Known, FilesWritten(dirs)
  PROVE  HelpersInv'
<1> DEFINE differs == tree' # tree \/ contexts' # contexts
<1>1. /\ calls' = Append(calls, Call("repository"))
      /\ tree' = tree \cup dirs /\ contexts' = contexts \cup {Root}
      /\ UNCHANGED <<store, fileVars, watching>>
      /\ behind' = (behind \/ (watching # "ready" /\ differs))
      /\ reports' = IF watching = "ready" /\ differs THEN reports \cup {"routes"} ELSE reports
  BY DEF FilesWritten, Grow
<1> HIDE DEF differs
<1>2. UserType'
  BY <1>1, DirectoriesAssumption DEF HelpersInv, HelpersType, UserType, Known
<1>3. Waiting' <=> Waiting
  BY <1>1, CallAdded DEF HelpersInv, HelpersType
<1>4. ~ Due' => ~ Due /\ ~ differs
  BY <1>1, <1>3 DEF Due
<1>5. ~ differs => UNCHANGED userVars
  BY <1>1 DEF differs, userVars
<1> QED
  BY <1>1, <1>2, <1>4, <1>5, OneMoreCall

LEMMA UserChangesKept ==
  ASSUME HelpersInv, UserChanges
  PROVE  HelpersInv'
<1>1. PICK watcher \in {"routes", "store"} : Noticed(watcher)
  BY DEF UserChanges, CreateDirectory, RemoveDirectory, ToggleContext, ToggleStore
<1>2. tree \in SUBSET Known /\ contexts \in SUBSET Known /\ store \in BOOLEAN
  BY DEF HelpersInv, HelpersType, UserType
<1>3. UserType'
  <2>1. ASSUME NEW d \in Known, CreateDirectory(d) \/ ToggleContext(d)
        PROVE  UserType'
    BY <1>2, <2>1 DEF CreateDirectory, ToggleContext, Grow, UserType
  <2>2. ASSUME NEW d \in Known, RemoveDirectory(d)
        PROVE  UserType'
    BY <1>2, <2>2 DEF RemoveDirectory, UserType
  <2>3. CASE ToggleStore
    BY <1>2, <2>3 DEF ToggleStore, UserType
  <2> QED
    BY <2>1, <2>2, <2>3 DEF UserChanges
<1>4. UNCHANGED <<fileVars, calls>> /\ Due'
  BY <1>1 DEF Noticed, Due
<1> QED
  BY <1>3, <1>4, SameCalls

LEMMA HelpersStep ==
  ASSUME HelpersInv, [HelperNext]_helperVars
  PROVE  HelpersInv'
<1>1. ASSUME NEW i \in DOMAIN calls, CallStep(i) \/ CallFails(i)
      PROVE  HelpersInv'
  BY <1>1, ReadContextsKept, ReadExistingKept, WriteContextTypesKept, ReadDirectoriesKept,
     WriteMiddlewareKept, RemoveStaleKept, WriteHelpersKept, WriteIndexKept, CallFailsKept
     DEF CallStep
<1>2. CASE StartWatching \/ WatchersReady \/ StopWatching
  BY <1>2, WatchKept
<1>3. CASE RunnerCalls \/ \E watcher \in reports : Report(watcher)
  BY <1>3, CallMadeKept
<1>4. CASE \E dirs \in SUBSET Known : FilesWritten(dirs)
  BY <1>4, FilesWrittenKept
<1>5. CASE UserChanges
  BY <1>5, UserChangesKept
<1>6. CASE UNCHANGED helperVars
  <2>1. UNCHANGED <<userVars, fileVars, calls, watching, reports, behind>>
    BY <1>6 DEF helperVars
  <2>2. UserType' /\ Due' = Due
    BY <2>1 DEF HelpersInv, HelpersType, UserType, userVars, Due, Waiting
  <2> QED
    BY <2>1, <2>2, SameCalls
<1> QED
  BY <1>1, <1>2, <1>3, <1>4, <1>5, <1>6 DEF HelperNext

\* Whatever the generator, the watchers and the user do, with helper types
\* that are written by any number of calls: at rest the helper types say what
\* the user has (writeHelperTypes(), ScenarioFileGenerator.watch()).
THEOREM HelpersAtRest == HelperSpec => []HelpersCurrent
<1>1. HelpersInv => HelpersCurrent
  <2> SUFFICES ASSUME HelpersInv, AtRest
               PROVE  FilesCurrent
    BY DEF HelpersCurrent, FilesCurrent, ContextTypesCurrent, MiddlewareCurrent, MiddlewareOf,
           ImportsCurrent
  <2>1. ~ Due
    BY DEF AtRest, Due, Waiting
  <2> QED
    BY <2>1 DEF HelpersInv, MadeUp, AtRest
<1> QED
  BY <1>1, HelpersInit, HelpersStep, PTL DEF HelperSpec
=============================================================================
