----------------------------- MODULE HelperTypes -----------------------------
(***************************************************************************)
(* The helper types of a group (generator/src/scenario-file-generator.ts): *)
(* types/_.context.ts, an _.middleware.ts per directory of routes,         *)
(* types/helpers.ts and types/index.ts.  They mirror which directories,    *)
(* context files and store the user has; they are written when types are   *)
(* generated and whenever a watcher reports a change.                      *)
(*                                                                         *)
(* writeHelperTypes() is called by several parties and runs one call after *)
(* another.  A walk over the directories is taken at one moment.           *)
(***************************************************************************)
EXTENDS Naturals, Sequences, SequencesExt, TLC

CONSTANTS
    Directories, \* of routes, in the order in which they are sorted: parents first
    Root,        \* the first of them
    Parent,      \* of the others
    Nested       \* the group has a directory below the root of the application

\* routes/ is there, and so is every directory that has something in it.
ASSUME DirectoriesAssumption ==
    /\ Directories \in Seq(Range(Directories)) /\ Root \in Range(Directories)
    /\ Nested \in BOOLEAN

VARIABLES
    tree, contexts, store,       \* of the user: directories, context files, the store
    contextTypes, middlewareTypes, helpers, index, \* the generated files
    calls,                       \* of writeHelperTypes(), in their order
    watching,                    \* "closed", as at first, "starting" or "ready"
    reports,                     \* watchers that have yet to report a change
    behind                       \* history: a change that nobody will report, or
                                 \* a failure, that no call has made up for

userVars == <<tree, contexts, store>>
fileVars == <<contextTypes, middlewareTypes, helpers, index>>
helperVars == <<userVars, fileVars, calls, watching, reports, behind>>

Known == Range(Directories)
NoFile == [exists |-> FALSE]
Nobody == "none"

Below(d, above) ==
    LET Of[e \in Known] == e = above \/ (e # Root /\ Of[Parent[e]])
    IN Of[d]

\* walkRouteDirectories(): the context file that a directory inherits.
ContextOf(d, has) ==
    LET Of[e \in Known] == IF e \in has THEN e ELSE IF e = Root THEN Nobody ELSE Of[Parent[e]]
    IN Of[d]

InitHelpers ==
    /\ tree = {Root} /\ contexts = {} /\ store \in BOOLEAN
    /\ contextTypes = NoFile /\ helpers = NoFile /\ index = FALSE
    /\ middlewareTypes = [d \in Known |-> NoFile]
    /\ calls = <<>> /\ watching = "closed" /\ reports = {} /\ behind = TRUE
-----------------------------------------------------------------------------
(* writeHelperTypes(destination, rootDestination, preserveStore)           *)

Call(owner) ==
    [owner |-> owner, preserve |-> owner = "repository", step |-> "contexts",
     contexts |-> {}, store |-> FALSE, left |-> {}, directories |-> <<>>]

\* Fault: a call does not wait for the one before it.
MayRunAtOnce(i) == i \in DOMAIN calls
MayRun(i) == i \in DOMAIN calls /\ i = 1

At(i, step) == MayRun(i) /\ calls[i].step = step
Continue(i, call, step) == calls' = [calls EXCEPT ![i] = [call EXCEPT !.step = step]]

\* collectContextFiles(), and whether there is a store, as far as is known: the
\* repository takes the group's directory for the root.
ReadContexts(i) ==
    /\ At(i, "contexts")
    /\ LET seen == store /\ (calls[i].preserve => ~ Nested)
           call == [calls[i] EXCEPT !.contexts = contexts, !.store = seen]
       IN Continue(i, call, IF calls[i].preserve /\ ~ seen THEN "existing" ELSE "context")
    /\ behind' = (behind /\ calls[i].preserve)
    /\ UNCHANGED <<userVars, fileVars, watching, reports>>

\* existingStoreImport(): an import stays as long as the store is there.
ReadExisting(i) ==
    /\ At(i, "existing")
    /\ Continue(i, [calls[i] EXCEPT !.store = contextTypes.exists /\ contextTypes.store /\ store],
                "context")
    /\ UNCHANGED <<userVars, fileVars, watching, reports, behind>>

\* _.context.ts loads each context by its path, and the store when there is one.
ContextContent(call) == [exists |-> TRUE, contexts |-> call.contexts, store |-> call.store]
WriteContextTypes(i) ==
    /\ At(i, "context")
    /\ contextTypes' = ContextContent(calls[i])
    /\ Continue(i, calls[i], "directories")
    /\ UNCHANGED <<userVars, middlewareTypes, helpers, index, watching, reports, behind>>

\* collectRouteDirectories(): the directories, each with the context it inherits.
ReadDirectories(i) ==
    /\ At(i, "directories")
    /\ LET found == [d \in tree |-> ContextOf(d, contexts)]
       IN Continue(i, [calls[i] EXCEPT !.left = tree, !.directories = found], "middleware")
    /\ UNCHANGED <<userVars, fileVars, watching, reports, behind>>

\* writeMiddlewareTypes(): the files that are wanted, one after another in the
\* order of the directories ...
MiddlewareContent(context) == [exists |-> TRUE, context |-> context]
WriteMiddleware(i) ==
    /\ At(i, "middleware")
    /\ \E n \in DOMAIN Directories :
         LET call == calls[i]
             d == Directories[n]
         IN /\ d \in call.left /\ \A m \in 1..(n - 1) : Directories[m] \notin call.left
            /\ middlewareTypes' =
                 [middlewareTypes EXCEPT ![d] = MiddlewareContent(call.directories[d])]
            /\ Continue(i, [call EXCEPT !.left = @ \ {d}], "middleware")
    /\ UNCHANGED <<userVars, contextTypes, helpers, index, watching, reports, behind>>

\* ... and then the removal of the others.
Walked(call) == DOMAIN call.directories
RemoveStale(i) ==
    /\ At(i, "middleware") /\ calls[i].left = {}
    /\ middlewareTypes' = [d \in Known |->
                             IF d \in Walked(calls[i]) THEN middlewareTypes[d] ELSE NoFile]
    /\ Continue(i, calls[i], "helpers")
    /\ UNCHANGED <<userVars, contextTypes, helpers, index, watching, reports, behind>>

WriteHelpers(i) ==
    /\ At(i, "helpers")
    /\ helpers' = [exists |-> TRUE, directories |-> Walked(calls[i])]
    /\ Continue(i, calls[i], "index")
    /\ UNCHANGED <<userVars, contextTypes, middlewareTypes, index, watching, reports, behind>>

\* An index that exists is left alone.
WriteIndex(i) ==
    /\ At(i, "index")
    /\ index' = TRUE
    /\ calls' = RemoveAt(calls, i)
    /\ UNCHANGED <<userVars, contextTypes, middlewareTypes, helpers, watching, reports, behind>>

\* A file cannot be read or written: the call rejects, and the next one runs.
CallFails(i) ==
    /\ MayRun(i)
    /\ calls' = RemoveAt(calls, i) /\ behind' = TRUE
    /\ UNCHANGED <<userVars, fileVars, watching, reports>>

CallStep(i) ==
    \/ ReadContexts(i) \/ ReadExisting(i) \/ WriteContextTypes(i) \/ ReadDirectories(i)
    \/ WriteMiddleware(i) \/ RemoveStale(i) \/ WriteHelpers(i) \/ WriteIndex(i)
-----------------------------------------------------------------------------
(* ScenarioFileGenerator.watch() and stopWatching(), for each time that    *)
(* the application is started.                                             *)

StartWatching ==
    /\ watching = "closed" /\ watching' = "starting"
    /\ UNCHANGED <<userVars, fileVars, calls, reports, behind>>

\* Both watchers are ready; what was there before, or changed while there was
\* none, is not reported.
WatchersReady ==
    /\ watching = "starting" /\ watching' = "ready"
    /\ UNCHANGED <<userVars, fileVars, calls, reports, behind>>

Report(watcher) ==
    /\ watcher \in reports
    /\ reports' = reports \ {watcher}
    /\ calls' = Append(calls, Call("watcher"))
    /\ UNCHANGED <<userVars, fileVars, watching, behind>>

\* Also when one of the two fails; what they have yet to report is lost.
StopWatching ==
    /\ watching # "closed" /\ watching' = "closed"
    /\ reports' = {} /\ behind' = (behind \/ reports # {})
    /\ UNCHANGED <<userVars, fileVars, calls>>

\* A change that a watcher is to report, or that it is too early or too late for.
Noticed(watcher) ==
    /\ reports' = IF watching = "ready" THEN reports \cup {watcher} ELSE reports
    /\ behind' = (behind \/ watching # "ready")
    /\ UNCHANGED <<fileVars, calls, watching>>
-----------------------------------------------------------------------------
(* The generator.                                                          *)

Grow(dirs) == tree' = tree \cup dirs

\* Repository.writeFiles(): route files need directories, a default context file
\* is made where there is none, and the helper types come last.
FilesWritten(dirs) ==
    /\ Grow(dirs) /\ contexts' = contexts \cup {Root}
    /\ LET changed == tree' # tree \/ contexts' # contexts
       IN /\ reports' = IF watching = "ready" /\ changed THEN reports \cup {"routes"} ELSE reports
          /\ behind' = (behind \/ (watching # "ready" /\ changed))
    /\ calls' = Append(calls, Call("repository"))
    /\ UNCHANGED <<store, fileVars, watching>>

\* ApiRunner.generate(): its own call.
RunnerCalls ==
    /\ calls' = Append(calls, Call("runner"))
    /\ UNCHANGED <<userVars, fileVars, watching, reports, behind>>
-----------------------------------------------------------------------------
(* The user.                                                               *)

CreateDirectory(d) ==
    /\ d \notin tree /\ d # Root /\ Parent[d] \in tree
    /\ Grow({d}) /\ Noticed("routes") /\ UNCHANGED <<contexts, store>>
RemoveDirectory(d) ==
    /\ d \in tree \ {Root}
    /\ tree' = {e \in tree : ~ Below(e, d)} /\ contexts' = {e \in contexts : ~ Below(e, d)}
    /\ Noticed("routes") /\ UNCHANGED store
ToggleContext(d) ==
    /\ d \in tree
    /\ contexts' = IF d \in contexts THEN contexts \ {d} ELSE contexts \cup {d}
    /\ Noticed("routes") /\ UNCHANGED <<tree, store>>
ToggleStore ==
    /\ store' = ~ store /\ Noticed("store") /\ UNCHANGED <<tree, contexts>>

UserChanges ==
    \/ \E d \in Known : CreateDirectory(d) \/ RemoveDirectory(d) \/ ToggleContext(d)
    \/ ToggleStore
-----------------------------------------------------------------------------
(* What happens to the helper types of a group, whenever it does.          *)

HelperNext ==
    \/ \E i \in DOMAIN calls : CallStep(i) \/ CallFails(i)
    \/ StartWatching \/ WatchersReady \/ StopWatching
    \/ \E watcher \in reports : Report(watcher)
    \/ \E dirs \in SUBSET Known : FilesWritten(dirs)
    \/ RunnerCalls \/ UserChanges

HelperSpec == InitHelpers /\ [][HelperNext]_helperVars
-----------------------------------------------------------------------------
(* Properties.                                                             *)

AtRest == calls = <<>> /\ reports = {} /\ ~ behind

\* At rest the helper types say what the user has: each context file with its
\* path, the store, and a middleware type per directory that is typed with the
\* context it inherits; helpers.ts imports just the middleware types there are
\* (writeHelperTypes(), and the events that the watchers call it for).
HelpersCurrent ==
    AtRest =>
      /\ contextTypes = [exists |-> TRUE, contexts |-> contexts, store |-> store]
      /\ middlewareTypes = [d \in Known |->
           IF d \in tree THEN [exists |-> TRUE, context |-> ContextOf(d, contexts)] ELSE NoFile]
      /\ helpers = [exists |-> TRUE, directories |-> tree]
      /\ index
=============================================================================
