----------------------------- MODULE Generation -----------------------------
(***************************************************************************)
(* Regeneration of one output directory, which the versions of a group     *)
(* share (counterfact/src/app.ts, start(); generator/src).                 *)
(*                                                                         *)
(* A save of an OpenAPI document asks for a regeneration.  Regenerations   *)
(* of a group run one after the other; each takes the versions in turn and *)
(* collects their operations in one repository, and after each version     *)
(* writes every script of the repository to disk.  Route files are shared  *)
(* with the user, who edits them at any time; type files are not.          *)
(*                                                                         *)
(* A document is a function from routes to the methods it declares there;  *)
(* a route file says of each method what the user or the generator put     *)
(* there.  The text of both is left out.                                   *)
(***************************************************************************)
EXTENDS Naturals, Sequences, FiniteSets

CONSTANTS Routes,    \* normalised paths, each with a route and a type file
          Methods,
          Versions,
          Setups,    \* what the group may be: [versions, prune, routes, types]
          Documents, \* what a document may say
          Broken,    \* a document that cannot be loaded, or whose paths collide
          Edits,     \* what a user may make of a handler
          Missing,   \* in place of a file or of a path of a document
          Context,   \* stands for routes/_.context.ts among the files of users
          MaxEdits   \* bound on changes by users, of documents and files

Handlers == {"none", "stub", "custom", "local"}
RouteFile == [Methods -> Handlers]
TypeFile == SUBSET (Versions \X Methods)
Document == [Routes -> {Missing} \cup (SUBSET Methods)]

ASSUME GenerationAssumption ==
  /\ \A x \in RouteFile \cup TypeFile \cup (SUBSET Methods) \cup Document : Missing # x
  /\ \A doc \in Document \cup {Missing} : Broken # doc
  /\ Documents \subseteq {Broken} \cup Document
  /\ Setups \subseteq [versions : Seq(Versions), prune : BOOLEAN,
                       routes : BOOLEAN, types : BOOLEAN]
  /\ \A s \in Setups : s.versions # << >>
  /\ Edits \subseteq Handlers
  /\ \A k \in Routes \X Methods : Context # k
  /\ MaxEdits \in Nat

\* validateSpecGroups() refuses a configuration that names a version of a
\* group twice.
ASSUME VersionsAssumption ==
  \A s \in Setups : \A i, j \in DOMAIN s.versions :
    s.versions[i] = s.versions[j] => i = j

VARIABLES setup,      \* the configuration of the group
          documents,  \* what each version's document says on disk
          changed,    \* versions whose save the watcher has yet to report
          status,     \* of start(): "starting", "watching", "rejected"
          queued,     \* regenerations on the chain that have not begun
          round,      \* regenerations that have begun
          stage,      \* where generate() is: "idle", "load", "prune", ...
          turn,       \* index of the version it is called for
          repository, \* operations that were exported in this round
          obsolete,   \* route files listed for removal and not yet removed
          writers,    \* calls within writeFiles() that are under way
          routeFiles, \* on disk
          typeFiles,  \* on disk
          contextFile,\* routes/_.context.ts: "absent", "default", "custom"
          outcome,    \* of the last regeneration
          edits,      \* changes by users so far
          loaded,     \* history: the document that each version last loaded
          unseen,     \* history: versions saved before there was a watcher
          touched,    \* history: files changed by users since the round began
          kept,       \* history: handlers of users that nobody had open
          overlapped  \* history: a round began while writers of a failed
                      \* round were under way

program == <<setup, status, queued, round, stage, turn, repository, obsolete,
             writers, outcome, overlapped>>
disk == <<routeFiles, typeFiles, contextFile>>
history == <<loaded, unseen, touched, kept>>
vars == <<program, disk, history, documents, changed, edits>>

Group == {setup.versions[i] : i \in DOMAIN setup.versions}
Paths(doc) == IF doc = Broken THEN {} ELSE {r \in Routes : doc[r] # Missing}
Operations(v, doc) == {op \in {v} \X Paths(doc) \X Methods : op[3] \in doc[op[2]]}

\* The scripts of the repository: what each exports.
HandlersOf(r) == {m \in Methods : \E v \in Versions : <<v, r, m>> \in repository}
TypesOf(r) == {vm \in Versions \X Methods : <<vm[1], r, vm[2]>> \in repository}
Scripts == {op[2] : op \in repository}

\* A file as written for the first time, and one with new handlers appended.
Fresh(handlers) == [m \in Methods |-> IF m \in handlers THEN "stub" ELSE "none"]
Unexported(file, handlers) == {m \in handlers : file[m] \notin {"stub", "custom"}}
Appended(file, handlers) ==
  [m \in Methods |-> IF m \in Unexported(file, handlers) THEN "stub" ELSE file[m]]

\* The calls within writeFiles(): `new` is what they are to write, `read` what
\* they found in a route file.
RouteWriter ==
  [round : 1 .. round, kind : {"route"}, route : Routes,
   step : {"stat", "read", "append", "write"}, new : SUBSET Methods,
   read : {Missing} \cup RouteFile]
TypeWriter ==
  [round : 1 .. round, kind : {"type"}, route : Routes, step : {"write"},
   new : TypeFile, read : {Missing}]
NewRouteWriters ==
  {[round |-> round, kind |-> "route", route |-> r, step |-> "stat",
    new |-> HandlersOf(r), read |-> Missing] : r \in Scripts}
NewTypeWriters ==
  {[round |-> round, kind |-> "type", route |-> r, step |-> "write",
    new |-> TypesOf(r), read |-> Missing] : r \in Scripts}

TypeOK ==
  /\ setup \in Setups
  /\ documents \in [Group -> Documents]
  /\ changed \subseteq Group /\ unseen \subseteq Group
  /\ status \in {"starting", "watching", "rejected"}
  /\ queued \in Nat /\ round \in Nat /\ edits \in Nat
  /\ stage \in {"idle", "load", "prune", "write", "context"}
  /\ stage # "idle" => round > 0
  /\ turn \in DOMAIN setup.versions
  /\ repository \subseteq Group \X Routes \X Methods
  /\ obsolete \subseteq Routes
  /\ routeFiles \in [Routes -> {Missing} \cup RouteFile]
  /\ typeFiles \in [Routes -> {Missing} \cup TypeFile]
  /\ contextFile \in {"absent", "default", "custom"}
  /\ outcome \in {"none", "ok", "failed"}
  /\ loaded \in [Group -> {Missing} \cup Documents]
  /\ touched \subseteq Routes \cup {Context}
  /\ kept \subseteq {Context} \cup (Routes \X Methods)
  /\ overlapped \in BOOLEAN
  /\ writers \subseteq RouteWriter \cup TypeWriter
  /\ \A w \in writers : w.step = "append" => w.read # Missing

Init ==
  /\ setup \in Setups
  /\ documents \in [Group -> Documents]
  /\ changed = {} /\ status = "starting"
  /\ queued = 1 /\ round = 0 /\ stage = "idle" /\ turn = 1
  /\ repository = {} /\ obsolete = {} /\ writers = {}
  /\ \E left \in SUBSET Routes : \* by an earlier run of the program
       /\ routeFiles = [r \in Routes |-> IF r \in left THEN Fresh(Methods) ELSE Missing]
       /\ typeFiles = [r \in Routes |-> IF r \in left THEN Versions \X Methods ELSE Missing]
  /\ contextFile = "absent"
  /\ outcome = "none" /\ edits = 0
  /\ loaded = [v \in Group |-> Missing]
  /\ unseen = {} /\ touched = {} /\ kept = {} /\ overlapped = FALSE
-----------------------------------------------------------------------------
(* The regeneration.                                                       *)

\* Fault: the chain ends with the first regeneration that rejects.
MayBeginUnlessFailed == stage = "idle" /\ queued > 0 /\ outcome # "failed"

\* A link of the chain runs whether or not the one before it failed.
MayBegin == stage = "idle" /\ queued > 0

Begin ==
  /\ MayBegin
  /\ queued' = queued - 1 /\ round' = round + 1
  /\ turn' = 1 /\ stage' = "load" /\ repository' = {}
  /\ touched' = {}
  /\ overlapped' = (overlapped \/ writers # {})
  /\ UNCHANGED <<setup, status, obsolete, writers, outcome, disk, loaded, unseen,
                 kept, documents, changed, edits>>

\* generate() rejects, and with it the round; the first round is awaited by
\* start(), which rejects as well.
Fail ==
  /\ stage' = "idle" /\ outcome' = "failed" /\ obsolete' = {}
  /\ status' = IF status = "starting" THEN "rejected" ELSE status

\* Fault: one turn too many.
ReturnOnce ==
  IF turn <= Len(setup.versions)
  THEN /\ turn' = turn + 1 /\ stage' = "load"
       /\ UNCHANGED <<status, outcome>>
  ELSE /\ stage' = "idle" /\ outcome' = "ok" /\ status' = "watching"
       /\ UNCHANGED turn

\* generate() resolves: the next version, or the end of the round.
Return ==
  IF turn < Len(setup.versions)
  THEN /\ turn' = turn + 1 /\ stage' = "load"
       /\ UNCHANGED <<status, outcome>>
  ELSE /\ stage' = "idle" /\ outcome' = "ok" /\ status' = "watching"
       /\ UNCHANGED turn

\* collectTypeScriptFiles() of the route files.
Listed == {r \in Routes : routeFiles[r] # Missing}

\* Fault: each version gets a repository of its own.
CollectedAlone == {}

\* What generate() finds in its repository.
Collected == IF Len(setup.versions) > 1 THEN repository ELSE {}

\* The document is read and its route files are compared with those on disk.
Load ==
  LET v == setup.versions[turn]
      doc == documents[v]
  IN
  /\ stage = "load"
  /\ \/ /\ doc = Broken
        /\ Fail
        /\ UNCHANGED repository
     \/ /\ doc # Broken
        /\ stage' = "prune"
        /\ obsolete' = IF setup.prune /\ setup.routes THEN Listed \ Paths(doc) ELSE {}
        /\ repository' = Collected \cup Operations(v, doc)
        /\ UNCHANGED <<status, outcome>>
  /\ loaded' = [loaded EXCEPT ![v] = doc]
  /\ unseen' = unseen \ {v}
  /\ UNCHANGED <<setup, queued, round, turn, writers, overlapped, disk, touched, kept,
                 documents, changed, edits>>

\* Whether some version asks for a route, as far as the program knows.
Wanted(r) ==
  \E v \in Group : r \in Paths(IF loaded[v] = Missing THEN documents[v] ELSE loaded[v])

\* fs.rm() of a listed file; it rejects when the user was faster.
PruneRoute(r) ==
  /\ stage = "prune" /\ r \in obsolete
  /\ \/ /\ routeFiles[r] = Missing
        /\ Fail
        /\ UNCHANGED <<routeFiles, kept>>
     \/ /\ routeFiles[r] # Missing
        /\ routeFiles' = [routeFiles EXCEPT ![r] = Missing]
        /\ kept' = IF Wanted(r) THEN kept ELSE kept \ ({r} \X Methods)
        /\ obsolete' = obsolete \ {r}
        /\ UNCHANGED <<stage, status, outcome>>
  /\ UNCHANGED <<setup, queued, round, turn, repository, writers, overlapped, typeFiles,
                 contextFile, loaded, unseen, touched, documents, changed, edits>>

PrunedTypes == [r \in Routes |-> IF r \in Scripts THEN typeFiles[r] ELSE Missing]

\* Obsolete type files are removed, and writeFiles() starts on all scripts.
StartWriting ==
  /\ stage = "prune" /\ obsolete = {}
  /\ typeFiles' = IF setup.prune /\ setup.types THEN PrunedTypes ELSE typeFiles
  /\ writers' = writers
       \cup (IF setup.routes THEN NewRouteWriters ELSE {})
       \cup (IF setup.types THEN NewTypeWriters ELSE {})
  /\ stage' = "write"
  /\ UNCHANGED <<setup, status, queued, round, turn, repository, obsolete, outcome,
                 overlapped, routeFiles, contextFile, history, documents, changed, edits>>

\* A writer goes on, or ends well.
Proceed(w, next) ==
  /\ writers' = (writers \ {w}) \cup next
  /\ UNCHANGED <<stage, status, obsolete, outcome>>

\* A writer rejects.  The first one of a round ends the round; the others, and
\* those that went on after the end, are heard by nobody.
Reject(w) ==
  /\ writers' = writers \ {w}
  /\ IF stage = "write" /\ w.round = round
     THEN Fail
     ELSE UNCHANGED <<stage, status, obsolete, outcome>>

\* Fault: existing files are written like new ones.
StatAndOverwrite(w) ==
  /\ w.kind = "route" /\ w.step = "stat"
  /\ Proceed(w, {[w EXCEPT !.step = "write"]})
  /\ UNCHANGED disk

Stat(w) ==
  /\ w.kind = "route" /\ w.step = "stat"
  /\ Proceed(w, {[w EXCEPT !.step = IF routeFiles[w.route] = Missing THEN "write" ELSE "read"]})
  /\ UNCHANGED disk

\* Fault: a file that exists is left alone.
ReadNothing(w) ==
  /\ w.kind = "route" /\ w.step = "read"
  /\ Proceed(w, {})
  /\ UNCHANGED disk

\* appendNewHandlers() as far as the await that precedes its write.
ReadRoute(w) ==
  LET file == routeFiles[w.route] IN
  /\ w.kind = "route" /\ w.step = "read"
  /\ \/ file = Missing /\ Reject(w)
     \/ /\ file # Missing
        /\ \E m \in w.new : file[m] = "local"
        /\ Reject(w)
     \/ /\ file # Missing
        /\ \A m \in w.new : file[m] # "local"
        /\ Proceed(w, IF Unexported(file, w.new) = {}
                      THEN {} ELSE {[w EXCEPT !.step = "append", !.read = file]})
  /\ UNCHANGED disk

\* Both write what was decided before; the file may have changed since.
WriteRoute(w) ==
  /\ w.kind = "route" /\ w.step \in {"append", "write"}
  /\ routeFiles' = [routeFiles EXCEPT ![w.route] =
                      IF w.step = "append" THEN Appended(w.read, w.new) ELSE Fresh(w.new)]
  /\ Proceed(w, {})
  /\ UNCHANGED <<typeFiles, contextFile>>

WriteTypes(w) ==
  /\ w.kind = "type"
  /\ typeFiles' = [typeFiles EXCEPT ![w.route] = w.new]
  /\ Proceed(w, {})
  /\ UNCHANGED <<routeFiles, contextFile>>

Write == \E w \in writers :
  /\ Stat(w) \/ ReadRoute(w) \/ WriteRoute(w) \/ WriteTypes(w)
  /\ UNCHANGED <<setup, queued, round, turn, repository, overlapped, history, documents,
                 changed, edits>>

\* All writers of the round have ended: createDefaultContextFile().
FinishWriting ==
  /\ stage = "write" /\ \A w \in writers : w.round < round
  /\ IF setup.routes /\ contextFile = "absent"
     THEN stage' = "context" /\ UNCHANGED <<turn, status, outcome>>
     ELSE Return
  /\ UNCHANGED <<setup, queued, round, repository, obsolete, writers, overlapped, disk,
                 history, documents, changed, edits>>

WriteContext ==
  /\ stage = "context"
  /\ contextFile' = "default"
  /\ Return
  /\ UNCHANGED <<setup, queued, round, repository, obsolete, writers, overlapped,
                 routeFiles, typeFiles, history, documents, changed, edits>>
-----------------------------------------------------------------------------
(* The watcher and the users.                                              *)

\* "change": the watcher reports saves late, and several as one.
Notice(v) ==
  /\ v \in changed
  /\ changed' = changed \ {v} /\ queued' = queued + 1
  /\ UNCHANGED <<setup, status, round, stage, turn, repository, obsolete, writers, outcome,
                 overlapped, disk, history, documents, edits>>

UserActs == edits < MaxEdits /\ edits' = edits + 1

SaveDocument(v) ==
  /\ UserActs
  /\ \E doc \in Documents \ {documents[v]} : documents' = [documents EXCEPT ![v] = doc]
  /\ IF status = "watching"
     THEN changed' = changed \cup {v} /\ UNCHANGED unseen
     ELSE unseen' = unseen \cup {v} /\ UNCHANGED changed
  /\ UNCHANGED <<program, disk, loaded, touched, kept>>

\* The generator has decided what to write and has not written it.
Open(r) == \E w \in writers :
  w.kind = "route" /\ w.route = r /\ w.step \in {"append", "write"}

\* One handler of a route file is added, changed or taken out.
SaveHandler(r, m) ==
  /\ UserActs
  /\ \E handler \in Edits :
       LET file == IF routeFiles[r] = Missing THEN Fresh({}) ELSE routeFiles[r] IN
       /\ file[m] # handler
       /\ routeFiles' = [routeFiles EXCEPT ![r] = [file EXCEPT ![m] = handler]]
       /\ kept' = IF handler = "custom" /\ ~Open(r)
                  THEN kept \cup {<<r, m>>} ELSE kept \ {<<r, m>>}
  /\ touched' = touched \cup {r}
  /\ UNCHANGED <<program, typeFiles, contextFile, loaded, unseen, documents, changed>>

DeleteRoute(r) ==
  /\ UserActs
  /\ routeFiles[r] # Missing
  /\ routeFiles' = [routeFiles EXCEPT ![r] = Missing]
  /\ kept' = kept \ ({r} \X Methods)
  /\ touched' = touched \cup {r}
  /\ UNCHANGED <<program, typeFiles, contextFile, loaded, unseen, documents, changed>>

SaveContext ==
  /\ UserActs
  /\ \/ /\ contextFile' = "custom"
        /\ kept' = IF stage = "context" THEN kept ELSE kept \cup {Context}
     \/ /\ contextFile # "absent" /\ contextFile' = "absent"
        /\ kept' = kept \ {Context}
  /\ touched' = touched \cup {Context}
  /\ UNCHANGED <<program, routeFiles, typeFiles, loaded, unseen, documents, changed>>

Regenerate ==
  \/ Begin \/ Load \/ StartWriting \/ Write \/ FinishWriting \/ WriteContext
  \/ \E r \in Routes : PruneRoute(r)

UserStep ==
  \/ \E v \in Group : SaveDocument(v)
  \/ \E r \in Routes : DeleteRoute(r) \/ \E m \in Methods : SaveHandler(r, m)
  \/ SaveContext

Next == Regenerate \/ UserStep \/ \E v \in Group : Notice(v)

Spec == Init /\ [][Next]_vars

\* The event loop and the file system answer, and the watcher reports.
FairSpec == Spec /\ WF_vars(Regenerate) /\ WF_vars(\E v \in Group : Notice(v))
-----------------------------------------------------------------------------
(* Properties.                                                             *)

\* Every save was reported and regenerated, the last time with success.
Settled ==
  /\ stage = "idle" /\ queued = 0 /\ changed = {} /\ outcome = "ok"

\* After a regeneration, each operation of each version has a handler, and
\* there is a root context, unless the user changed the file meanwhile
\* (repository.ts, writeFiles()).  Of overlapping writes nothing is said.
HandlersGenerated ==
  Settled /\ setup.routes /\ ~overlapped =>
    /\ \A v \in Group : \A r \in Paths(loaded[v]) \ touched : \A m \in loaded[v][r] :
         routeFiles[r] # Missing /\ routeFiles[r][m] \in {"stub", "custom"}
    /\ Context \notin touched => contextFile # "absent"

\* After a regeneration, the type files are those of the documents that are
\* saved: those of a route know the operations of all versions and no others,
\* and with pruning there are none besides (app.ts, start(): "siblings are
\* retained and removed operations do not survive").
TypesMerged ==
  Settled /\ setup.types /\ ~overlapped =>
    /\ \A v \in Group \ unseen : loaded[v] = documents[v]
    /\ LET all == UNION {Operations(v, loaded[v]) : v \in Group} IN
       \A r \in Routes :
         LET types == {<<op[1], op[3]>> : op \in {o \in all : o[2] = r}} IN
         IF types # {} THEN typeFiles[r] = types
                       ELSE setup.prune => typeFiles[r] = Missing

\* What users wrote stays, whatever is generated, unless no version has the
\* route and pruning is on, or they saved it while the generator had the file
\* open (repository.ts, writeFiles(): "preserving user edits").
UserEditsKept ==
  /\ \A r \in Routes, m \in Methods : <<r, m>> \in kept =>
       routeFiles[r] # Missing /\ routeFiles[r][m] = "custom"
  /\ Context \in kept => contextFile = "custom"

\* Every regeneration that was asked for comes to its end, after failures too
\* (app.ts, start(): "A failed save must not prevent later edits from
\* regenerating").
RegenerationsEnd == queued > 0 ~> queued = 0 /\ stage = "idle"
=============================================================================
