----------------------------- MODULE Transpiler -----------------------------
(***************************************************************************)
(* transpiler.ts: the sources of a directory are compiled to another one,  *)
(* those that are there when the watcher starts and those that change      *)
(* later.  A compilation reads the source and writes the output, with an   *)
(* await between the two; the output of a deleted source is removed.       *)
(* Nothing keeps two jobs for one file apart.                              *)
(*                                                                         *)
(* Compilation without type checking cannot fail, so a code stands for its *)
(* output too.  Of the errors of the file system only the absence of a     *)
(* source is modelled.                                                     *)
(***************************************************************************)
EXTENDS Naturals, Sequences

CONSTANTS Modules, Codes, Absent

ASSUME AbsentAssumption == Absent \notin Codes

VARIABLES
    source,     \* module |-> its code, or Absent
    output,     \* module |-> the code whose compilation is in the cache, or Absent
    compiler,   \* "none", "scanning", "awaiting", "open" or "closed"
    known,      \* the modules that the watcher knows to exist
    changed,    \* the modules that it has not reported since they changed
    jobs,       \* the compilations and removals so far
    awaited,    \* how many of them watch() waits for
    overlapped  \* history: the modules that had two jobs at a time

transpiler_vars == <<source, output, compiler, known, changed, jobs, awaited, overlapped>>

Watches == {"scanning", "awaiting", "open"}
Busy(j) == jobs[j].stage \in {"reading", "writing", "removing"}
BusyWith(m) == \E j \in DOMAIN jobs : jobs[j].module = m /\ Busy(j)

InitTranspiler ==
    /\ source \in [Modules -> Codes \cup {Absent}]
    /\ output = [m \in Modules |-> Absent]
    /\ compiler = "none"
    /\ known = {} /\ changed = {} /\ jobs = <<>> /\ awaited = 0 /\ overlapped = {}

\* A user saves or deletes a source.
EditModule(m, code) ==
    /\ source[m] # code
    /\ source' = [source EXCEPT ![m] = code]
    /\ changed' = IF compiler \in Watches THEN changed \cup {m} ELSE changed
    /\ UNCHANGED <<output, compiler, known, jobs, awaited, overlapped>>

\* watch() until "ready": every source that exists is reported as an addition.
Scan ==
    /\ compiler = "none"
    /\ compiler' = "scanning"
    /\ changed' = {m \in Modules : source[m] # Absent}
    /\ UNCHANGED <<source, output, known, jobs, awaited, overlapped>>

\* Fault: only new files are compiled.
IsAdded(m) == source[m] # Absent /\ m \notin known

IsSaved(m) == source[m] # Absent

IsDeleted(m) == source[m] = Absent /\ m \in known

\* The listener of "all".
ReportModule(m) ==
    /\ compiler \in Watches /\ m \in changed
    /\ changed' = changed \ {m}
    /\ known' = IF source[m] = Absent THEN known \ {m} ELSE known \cup {m}
    /\ overlapped' = IF BusyWith(m) THEN overlapped \cup {m} ELSE overlapped
    /\ jobs' = CASE IsSaved(m) -> Append(jobs, [module |-> m, stage |-> "reading", code |-> Absent])
                 [] IsDeleted(m) -> Append(jobs, [module |-> m, stage |-> "removing", code |-> Absent])
                 [] OTHER -> jobs
    /\ UNCHANGED <<source, output, compiler, awaited>>

\* "ready": the transpiles so far are waited for, and no others.
AwaitTranspiles ==
    /\ compiler = "scanning"
    /\ \A m \in changed : m \in known
    /\ compiler' = "awaiting"
    /\ awaited' = Len(jobs)
    /\ UNCHANGED <<source, output, known, changed, jobs, overlapped>>

\* Fault: what the scan has found is not waited for.
NothingAwaited == {j \in 1 .. 0 : jobs[j].stage # "removing"}

Awaited == {j \in 1 .. awaited : jobs[j].stage # "removing"}

\* Promise.all() rejects with the first failure and waits for the others if
\* there is none.
TranspilesDone ==
    /\ compiler = "awaiting"
    /\ \A j \in Awaited : jobs[j].stage = "done"
    /\ compiler' = "open"
    /\ UNCHANGED <<source, output, known, changed, jobs, awaited, overlapped>>

TranspilesFail ==
    /\ compiler = "awaiting"
    /\ \E j \in Awaited : jobs[j].stage = "failed"
    /\ UNCHANGED transpiler_vars

\* transpileFile() up to the write, and the write.  The source may be gone.
ReadModule(j) ==
    LET code == source[jobs[j].module]
    IN /\ jobs[j].stage = "reading"
       /\ jobs' = [jobs EXCEPT ![j].stage = IF code = Absent THEN "failed" ELSE "writing",
                               ![j].code = code]
       /\ UNCHANGED <<source, output, compiler, known, changed, awaited, overlapped>>

\* A rejected transpile that nothing awaits ends the process.
EndsProcess(j) == /\ jobs[j].stage = "reading" /\ source[jobs[j].module] = Absent
                  /\ ~ (compiler = "awaiting" /\ j <= awaited)

WriteModule(j) ==
    /\ jobs[j].stage = "writing"
    /\ output' = [output EXCEPT ![jobs[j].module] = jobs[j].code]
    /\ jobs' = [jobs EXCEPT ![j].stage = "done"]
    /\ UNCHANGED <<source, compiler, known, changed, awaited, overlapped>>

RemoveOutput(j) ==
    /\ jobs[j].stage = "removing"
    /\ output' = [output EXCEPT ![jobs[j].module] = Absent]
    /\ jobs' = [jobs EXCEPT ![j].stage = "done"]
    /\ UNCHANGED <<source, compiler, known, changed, awaited, overlapped>>

CloseTranspiler ==
    /\ compiler' = IF compiler \in Watches THEN "closed" ELSE compiler
    /\ changed' = {}
    /\ UNCHANGED <<source, output, known, jobs, awaited, overlapped>>
=============================================================================
