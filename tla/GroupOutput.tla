----------------------------- MODULE GroupOutput -----------------------------
(***************************************************************************)
(* The type files of a group: rounds of generation (generator/src:         *)
(* code-generator.ts, central-types.ts, repository.ts; counterfact/src:    *)
(* app.ts, api-runner.ts), which collect what the versions of the group    *)
(* declare in the scripts of one repository and write them, and the helper *)
(* types, which are also written when the user's files change.             *)
(*                                                                         *)
(* Nothing else happens between the load of a document and the moment its  *)
(* scripts are finished: no step in between waits for the outside.         *)
(***************************************************************************)
EXTENDS OperationCoders, HelperTypes, FiniteSets

CONSTANTS
    Groups,          \* the versions that a group may have, in their order
    Candidates,      \* for each version, the documents it may find when it loads
    Later,           \* those that a round after the first may find
    RouteDirectories,\* for each path, the directories its route file is in
    MaxRounds,       \* bound on rounds of generation
    MaxChanges,      \* bound on changes by the user
    MaxFailures      \* bound on calls that fail

Index == <<"types", "index">>
IndexNames == {"Routes", "Components", "Schemas", "Context$", "Scenario", "Scenario$", "Middleware"}
Reserved(path) == IF path = Index THEN IndexNames ELSE {}

\* OperationCoder.typeDeclaration(): the version is declared in the script that
\* the versions share, and the operation becomes a route of the index.
On(path, mark) == [at |-> path, mark |-> mark]
Declaration(coder) ==
    IF coder.class # "Operation" THEN <<>>
    ELSE LET type == As("OperationType", coder)
             version == Mark("version", As("VersionedArg", coder), BaseName(coder))
             route == Mark("import", type, "Route" \o Identifier[PathOf(coder)] \o "_" \o MethodOf(coder))
         IN (IF coder.version = "" THEN <<>> ELSE <<On(ModulePath(type), version)>>) \o
            <<On(Index, route), On(<<"routes", PathOf(coder)>>, ImportExternal("Routes"))>>
Entry(coder) == Mark("enter", coder, "")

VARIABLES
    group,    \* the versions
    loaded,   \* for each version that has loaded in this round, its document
    stage,    \* of the round: "idle", "load", "scripts", "write", "repository", "runner"
    turn,     \* index of the version it is at
    awaited,  \* entries that Repository.finished() waits for
    rounds, changes, failures,
    started,  \* the first round has succeeded
    scripts, jobs, todo, uses

S == INSTANCE Scripts

scriptVars == <<scripts, jobs, todo, uses>>
roundVars == <<group, loaded, stage, turn, awaited, rounds, changes, failures, started>>
vars == <<roundVars, scriptVars, helperVars>>

Init ==
    /\ group \in Groups
    /\ loaded = <<>> /\ stage = "idle" /\ turn = 1 /\ awaited = {}
    /\ rounds = 0 /\ changes = 0 /\ failures = 0 /\ started = FALSE
    /\ S!InitScripts /\ InitHelpers

Version == group[turn]
-----------------------------------------------------------------------------
(* A round: generate() for each version.                                   *)

Operations(version, doc) ==
    LET Of(path) == LET methods == OperationMethods(PathItem(Documents[doc], path[1]))
                    IN [i \in DOMAIN methods |->
                          OfOperation("Operation", version, doc, path[1], methods[i][1])]
    IN Concat(Of, Documents[doc].paths)
Components(version, doc) ==
    LET components == Documents[doc].components
    IN [i \in DOMAIN components |->
          ComponentCoder(version, doc, components[i][1], components[i][2])]

\* A repository is made for the round.
BeginRound ==
    /\ stage = "idle" /\ rounds < MaxRounds /\ (rounds > 0 => started)
    /\ stage' = "load" /\ turn' = 1 /\ loaded' = <<>> /\ rounds' = rounds + 1
    /\ UNCHANGED <<group, awaited, changes, failures, started, scriptVars, helperVars>>

\* CentralTypes.addComponents(), and the export of each operation.
Load(doc) ==
    /\ stage = "load" /\ doc \in Candidates[Version] /\ (rounds > 1 => doc \in Later)
    /\ LET Indexed(coder) == <<On(Index, Import(coder))>>
           Exported(coder) == <<On(<<"routes", PathOf(coder)>>, ExportHere(coder))>>
       IN todo' = Concat(Indexed, Components(Version, doc)) \o
                  Concat(Exported, Operations(Version, doc))
    /\ loaded' = Version :> doc @@ loaded
    /\ stage' = "scripts" /\ awaited' = {}
    /\ UNCHANGED <<group, turn, rounds, changes, failures, started,
                   scripts, jobs, uses, helperVars>>

ScriptStep ==
    /\ stage = "scripts" /\ S!Turn
    /\ UNCHANGED <<roundVars, helperVars>>

\* Repository.finished(): all that is in progress is awaited, as often as there
\* is anything.
Settled == todo = <<>> /\ awaited \cap S!InProgress = {}
\* Fault: what has been begun in the meantime is not awaited.
FinishedOnce == Settled /\ awaited # {}
Finished == Settled /\ S!InProgress = {}

AwaitMore ==
    /\ stage = "scripts" /\ Settled /\ ~ Finished
    /\ awaited' = S!InProgress
    /\ UNCHANGED <<group, loaded, stage, turn, rounds, changes, failures, started,
                   scriptVars, helperVars>>
Finish ==
    /\ stage = "scripts" /\ Finished
    /\ stage' = "write"
    /\ UNCHANGED <<group, loaded, turn, awaited, rounds, changes, failures, started,
                   scriptVars, helperVars>>

\* writeFiles().  Nobody needs the scripts after the last version has been written.
IsLast == turn = Len(group)
DirectoriesOf(doc) ==
    UNION {RouteDirectories[Documents[doc].paths[i][1]] : i \in DOMAIN Documents[doc].paths}
WriteFiles ==
    /\ stage = "write" /\ stage' = "repository"
    /\ FilesWritten(DirectoriesOf(loaded[Version]))
    /\ IF IsLast THEN scripts' = <<>> /\ jobs' = <<>> /\ todo' = <<>> /\ uses' = {}
                 ELSE UNCHANGED scriptVars
    /\ UNCHANGED <<group, loaded, turn, awaited, rounds, changes, failures, started>>

\* ApiRunner.generate(): its own call follows, and then the next version.
IsMade(owner) == \A i \in DOMAIN calls : calls[i].owner # owner
GenerateHelpers ==
    /\ stage = "repository" /\ IsMade("repository")
    /\ RunnerCalls /\ stage' = "runner"
    /\ UNCHANGED <<group, loaded, turn, awaited, rounds, changes, failures, started, scriptVars>>
EndTurn ==
    /\ stage = "runner" /\ IsMade("runner")
    /\ IF IsLast THEN stage' = "idle" /\ started' = TRUE /\ turn' = 1 /\ loaded' = <<>>
                 ELSE stage' = "load" /\ turn' = turn + 1 /\ UNCHANGED <<started, loaded>>
    /\ UNCHANGED <<group, awaited, rounds, changes, failures, scriptVars, helperVars>>
-----------------------------------------------------------------------------
(* Calls, watchers and the user.                                           *)

MakeCall ==
    /\ stage # "scripts" /\ \E i \in DOMAIN calls : CallStep(i)
    /\ UNCHANGED <<roundVars, scriptVars>>

\* The round that waits for a call that fails is rejected, and its repository lost.
FailCall ==
    /\ stage # "scripts" /\ failures < MaxFailures
    /\ \E i \in DOMAIN calls :
         /\ CallFails(i)
         /\ IF calls[i].owner = "watcher" THEN UNCHANGED <<stage, turn, loaded, scriptVars>>
            ELSE /\ stage' = "idle" /\ turn' = 1 /\ loaded' = <<>>
                 /\ scripts' = <<>> /\ jobs' = <<>> /\ todo' = <<>> /\ uses' = {}
    /\ failures' = failures + 1
    /\ UNCHANGED <<group, awaited, rounds, changes, started>>

Watch ==
    /\ stage # "scripts"
    /\ \/ started /\ StartWatching
       \/ WatchersReady
       \/ StopWatching
       \/ \E watcher \in reports : Report(watcher)
    /\ UNCHANGED <<roundVars, scriptVars>>

Change ==
    /\ stage # "scripts" /\ changes < MaxChanges /\ changes' = changes + 1
    /\ UserChanges
    /\ UNCHANGED <<group, loaded, stage, turn, awaited, rounds, failures, started, scriptVars>>

Next ==
    \/ BeginRound \/ (\E doc \in DOMAIN Documents : Load(doc))
    \/ ScriptStep \/ AwaitMore \/ Finish \/ WriteFiles \/ GenerateHelpers \/ EndTurn
    \/ MakeCall \/ FailCall \/ Watch \/ Change

Spec == Init /\ [][Next]_vars
-----------------------------------------------------------------------------
(* Properties.                                                             *)

ReferencesMean == S!ReferencesMean

IsExported(coder, path) ==
    /\ path \in DOMAIN scripts
    /\ \E name \in DOMAIN scripts[path].exports : scripts[path].exports[name].id = ExportId(coder)
IsIndexed(coder) ==
    \E use \in uses : use.at = Index /\ use.means = <<ModulePath(coder), ExportId(coder)>>
IsVersioned(operation) ==
    LET type == As("OperationType", operation)
        arg == As("VersionedArg", operation)
        versions == scripts[ModulePath(type)].versions
        key == <<BaseName(operation), operation.version>>
    IN operation.version # "" =>
         key \in DOMAIN versions /\ versions[key] /\ IsExported(arg, ModulePath(arg))

\* When files are written, every declaration is finished, and for each version
\* that has loaded so far each operation has its handler, its type, the
\* argument of its version and its route in the index, and each component is
\* in the index (Repository.finished(), CodeGenerator.generate(),
\* OperationCoder.typeDeclaration(), CentralTypes).
TypesComplete ==
    stage = "write" =>
      /\ S!InProgress = {}
      /\ \A version \in DOMAIN loaded :
           LET operations == Range(Operations(version, loaded[version]))
           IN /\ \A coder \in operations :
                   /\ IsExported(coder, <<"routes", PathOf(coder)>>)
                   /\ IsExported(As("OperationType", coder), <<"types/paths", PathOf(coder)>>)
                   /\ IsIndexed(As("OperationType", coder))
                   /\ IsVersioned(coder)
              /\ \A coder \in Range(Components(version, loaded[version])) :
                   IsIndexed(coder) /\ IsExported(coder, ModulePath(coder))

\* An operation's argument has each parameter that its document declares for
\* it, on the path or on itself (getEffectiveParameters()).
ParametersKept ==
    \A version \in DOMAIN loaded :
      LET doc == Documents[loaded[version]]
          Named(parameters) == {<<Follow(doc, p).in, Follow(doc, p).name>> : p \in Range(parameters)}
      IN \A coder \in Range(Operations(version, loaded[version])) :
           LET item == PathItem(doc, PathOf(coder))
               operation == Operation(coder)
           IN \A node \in {n \in {item, operation} : Has(n, "parameters")} :
                Named(node.parameters) \subseteq Named(EffectiveParameters(doc, item, operation))
=============================================================================
