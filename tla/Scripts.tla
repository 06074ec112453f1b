------------------------------ MODULE Scripts ------------------------------
(***************************************************************************)
(* The scripts of a repository (generator/src/script.ts, repository.ts):   *)
(* one per generated module, with the names that it binds.                 *)
(*                                                                         *)
(* Coders ask scripts for names: of declarations that they export, of      *)
(* those that they import from other scripts, which export them for it,    *)
(* and of helper types.  What is exported is written later: an entry stays *)
(* in progress until its job has come up, and then the marks that its      *)
(* coder leaves are performed.  What coders are and write is a parameter.  *)
(***************************************************************************)
EXTENDS Naturals, Sequences, FiniteSets, TLC

CONSTANTS
    ModulePath(_), Id(_), ExportId(_), \* of a coder
    NamesOf(_), NameAt(_, _),          \* the names that it proposes, in order
    Marks(_),                          \* what it leaves when it is written
    Declaration(_),                    \* the marks of its typeDeclaration()
    Entry(_),                          \* the mark that ends an export with such marks
    Reserved(_)                        \* names that a script keeps to itself

VARIABLES
    scripts, \* module path -> its names
    jobs,    \* entries that are in progress, in the order they were begun
    todo,    \* marks that are to be performed, each with the script it is for
    uses     \* history: names that were written, each with what it stands for

scriptVars == <<scripts, jobs, todo, uses>>

NewScript(path) ==
    [exports |-> <<>>, imports |-> <<>>, externals |-> <<>>, versions |-> <<>>,
     cache |-> <<>>, reserved |-> Reserved(path)]
\* Repository.get()
Get(all, path) == IF path \in DOMAIN all THEN all ELSE path :> NewScript(path) @@ all
Put(map, key, value) == key :> value @@ map

InitScripts == scripts = <<>> /\ jobs = <<>> /\ todo = <<>> /\ uses = {}

\* Fault: imports are forgotten.
IsFreeOfExports(script, coder, name) ==
    /\ name \notin script.reserved /\ name \notin DOMAIN script.externals
    /\ name \in DOMAIN script.exports => script.exports[name].id = ExportId(coder)

\* firstUniqueName(): a name that is bound already will do for the same thing.
IsFree(script, coder, name) ==
    /\ name \notin script.reserved
    /\ name \in DOMAIN script.imports =>
         /\ script.imports[name].id = ExportId(coder)
         /\ script.imports[name].module = ModulePath(coder)
    /\ name \in DOMAIN script.exports => script.exports[name].id = ExportId(coder)
    /\ name \notin DOMAIN script.externals

None == ""
FirstUniqueName(script, coder) ==
    LET free == {i \in 1 .. NamesOf(coder) : IsFree(script, coder, NameAt(coder, i))}
        first == CHOOSE i \in free : \A j \in free : i <= j
    IN IF IsFree(script, coder, NameAt(coder, 1)) THEN NameAt(coder, 1)
       ELSE IF free = {} THEN None ELSE NameAt(coder, first)

\* import() with a preferred name, and importExternal(): no name is shared.
Suffixed(name, i) == IF i = 1 THEN name ELSE name \o ToString(i)
Unused(script, name) ==
    name \notin DOMAIN script.imports \cup DOMAIN script.exports
                \cup DOMAIN script.externals \cup script.reserved
FirstUnused(script, name) ==
    LET Bound == DOMAIN script.imports \cup DOMAIN script.exports
                 \cup DOMAIN script.externals \cup script.reserved
        limit == Cardinality(Bound) + 1
        free == {i \in 1 .. limit : Unused(script, Suffixed(name, i))}
    IN IF Unused(script, name) THEN name
       ELSE Suffixed(name, CHOOSE i \in free : \A j \in free : i <= j)
-----------------------------------------------------------------------------
(* The operations, on all the scripts: [scripts, jobs, name].              *)

Result(all, work, name) == [scripts |-> all, jobs |-> work, name |-> name]
ExportKey(coder) == <<"export", Id(coder)>>
\* Fault: what is imported is told apart by its reference alone.
ImportKeyById(coder) == <<"import", Id(coder)>>
ImportKey(coder) == <<"import", Id(coder), ModulePath(coder)>>

SetExport(all, work, path, coder, name) ==
    Result([all EXCEPT ![path].exports = Put(@, name, [id |-> ExportId(coder), done |-> FALSE])],
           Append(work, [at |-> path, kind |-> "export", name |-> name, version |-> "",
                         coder |-> coder, resolved |-> FALSE]), name)

\* export(): a name is kept in the cache before anything else happens.
Export(before, work, path, coder) ==
    LET all == Get(before, path)
        key == ExportKey(coder)
        name == FirstUniqueName(all[path], coder)
        named == [all EXCEPT ![path].cache = Put(@, key, name)]
    IN CASE key \in DOMAIN all[path].cache -> Result(all, work, all[path].cache[key])
         [] name = None -> Result(all, work, None)
         [] Declaration(coder) # <<>> -> Result(named, work, name)
         [] OTHER -> SetExport(named, work, path, coder, name)

\* import(): what belongs to this module is exported by it.
ImportFrom(before, work, path, coder, preferred) ==
    LET all == Get(before, path)
        module == ModulePath(coder)
        key == ImportKey(coder)
        name == IF preferred = None THEN FirstUniqueName(all[path], coder)
                ELSE FirstUnused(all[path], preferred)
        there == Export([all EXCEPT ![path].cache = Put(@, key, name)], work, module, coder)
    IN CASE key \in DOMAIN all[path].cache -> Result(all, work, all[path].cache[key])
         [] module = path -> Export(all, work, path, coder)
         [] name = None -> Result(all, work, None)
         [] there.name = None -> there
         [] OTHER -> Result([there.scripts EXCEPT ![path].imports =
                               Put(@, name, [id |-> ExportId(coder), module |-> module,
                                             name |-> there.name])], there.jobs, name)

\* importExternal(): `type` is exported by counterfact-types and the like.
ImportType(before, work, path, type) ==
    LET all == Get(before, path)
        externals == all[path].externals
        known == {name \in DOMAIN externals : externals[name] = type}
        name == FirstUnused(all[path], type)
    IN IF known # {} THEN Result(all, work, CHOOSE n \in known : TRUE)
       ELSE Result([all EXCEPT ![path].externals = Put(@, name, type)], work, name)

\* declareVersion(): the first declaration of a version stands.
DeclareVersion(before, work, path, coder, name) ==
    LET all == Get(before, path)
        versions == all[path].versions
        key == <<name, coder.version>>
    IN IF key \in DOMAIN versions THEN Result(all, work, name)
       ELSE Result([all EXCEPT ![path].versions = Put(@, key, FALSE)],
                   Append(work, [at |-> path, kind |-> "version", name |-> name,
                                 version |-> coder.version, coder |-> coder,
                                 resolved |-> FALSE]), name)
-----------------------------------------------------------------------------
(* The steps.                                                              *)

At(path, marks) == [i \in DOMAIN marks |-> [at |-> path, mark |-> marks[i]]]
HelperModule == <<>>    \* counterfact-types, that no coder belongs to
Meaning(path, mark) ==
    IF mark.op \in {"external", "literal"} THEN <<HelperModule, mark.name>>
    ELSE IF mark.op = "import" THEN <<ModulePath(mark.coder), ExportId(mark.coder)>>
    ELSE <<path, ExportId(mark.coder)>>

Outcome(path, mark) ==
    CASE mark.op = "import" -> ImportFrom(scripts, jobs, path, mark.coder, mark.name)
      [] mark.op = "external" -> ImportType(scripts, jobs, path, mark.name)
      [] mark.op = "export" -> Export(scripts, jobs, path, mark.coder)
      [] mark.op = "enter" -> SetExport(scripts, jobs, path, mark.coder,
                                scripts[path].cache[ExportKey(mark.coder)])
      [] mark.op = "version" -> DeclareVersion(scripts, jobs, path, mark.coder, mark.name)
      [] mark.op = "literal" -> Result(scripts, jobs, mark.name)

\* The marks of a coder's declaration come after its name and before its entry.
DeclarationMarks(path, mark) ==
    IF mark.op # "export" \/ Declaration(mark.coder) = <<>> THEN <<>>
    ELSE IF path \in DOMAIN scripts /\ ExportKey(mark.coder) \in DOMAIN scripts[path].cache
    THEN <<>>
    ELSE Declaration(mark.coder) \o At(path, <<Entry(mark.coder)>>)

IsDone(step) == step.mark.op = "done"
\* What is written throws: the entry is done, with an error.
AfterThrow(steps) ==
    LET ends == {i \in DOMAIN steps : IsDone(steps[i])}
    IN IF ends = {} THEN <<>>
       ELSE SubSeq(steps, CHOOSE i \in ends : \A j \in ends : i <= j, Len(steps))

Perform ==
    /\ todo # <<>> /\ ~ IsDone(Head(todo))
    /\ LET path == Head(todo).at
           mark == Head(todo).mark
           outcome == Outcome(path, mark)
       IN /\ scripts' = outcome.scripts /\ jobs' = outcome.jobs
          /\ todo' = IF outcome.name = None THEN AfterThrow(todo)
                     ELSE DeclarationMarks(path, mark) \o Tail(todo)
          /\ uses' = IF outcome.name = None \/ mark.op = "version"
                        \/ (mark.op = "export" /\ Declaration(mark.coder) # <<>>) THEN uses
                     ELSE uses \cup {[at |-> path, name |-> outcome.name,
                                      means |-> Meaning(path, mark)]}

\* A reference takes a turn of its own to be resolved.
Resolve ==
    /\ todo = <<>> /\ jobs # <<>> /\ Head(jobs).coder.ref # <<>> /\ ~ Head(jobs).resolved
    /\ jobs' = Append(Tail(jobs), [Head(jobs) EXCEPT !.resolved = TRUE])
    /\ UNCHANGED <<scripts, todo, uses>>

DoneMark(job) == [op |-> "done", kind |-> job.kind, name |-> job.name, version |-> job.version]
\* A version is written as an import of its own file.
MarksOf(job) == IF job.kind = "version" THEN <<[op |-> "import", coder |-> job.coder, name |-> None]>>
                ELSE Marks(job.coder)

Settle ==
    /\ todo = <<>> /\ jobs # <<>>
    /\ Head(jobs).coder.ref = <<>> \/ Head(jobs).resolved
    /\ jobs' = Tail(jobs)
    /\ todo' = At(Head(jobs).at, Append(MarksOf(Head(jobs)), DoneMark(Head(jobs))))
    /\ UNCHANGED <<scripts, uses>>

Done ==
    /\ todo # <<>> /\ IsDone(Head(todo))
    /\ LET path == Head(todo).at
           mark == Head(todo).mark
       IN scripts' = IF mark.kind = "export"
                     THEN [scripts EXCEPT ![path].exports[mark.name].done = TRUE]
                     ELSE [scripts EXCEPT ![path].versions[<<mark.name, mark.version>>] = TRUE]
    /\ todo' = Tail(todo)
    /\ UNCHANGED <<jobs, uses>>

\* Between two turns of the event loop, all that can be done is done.
Turn == Perform \/ Resolve \/ Settle \/ Done

-----------------------------------------------------------------------------
(* Repository.finished()                                                   *)

InProgress ==
    UNION {LET script == scripts[path]
           IN {<<path, name, "">> : name \in {n \in DOMAIN script.exports : ~ script.exports[n].done}}
              \cup {<<path, key[1], key[2]>> : key \in {k \in DOMAIN script.versions : ~ script.versions[k]}} :
             path \in DOMAIN scripts}
-----------------------------------------------------------------------------
(* Properties.                                                             *)

\* What a name is bound to in a script, as often as it is bound.
Bindings(path, name) ==
    LET script == scripts[path]
        Imported == {name} \cap DOMAIN script.imports
        Exported == {name} \cap DOMAIN script.exports
        External == {name} \cap DOMAIN script.externals
    IN {<<"import", script.imports[n].module,
          scripts[script.imports[n].module].exports[script.imports[n].name].id>> : n \in Imported}
       \cup {<<"export", path, script.exports[n].id>> : n \in Exported}
       \cup {<<"external", HelperModule, script.externals[n]>> : n \in External}

\* Every name that a coder has written into a module is bound once there, and
\* bound to what the coder meant: to the declaration of the same schema, of the
\* same version, in the module that it belongs to, or to the helper type
\* (Script.firstUniqueName(), import(), export() and importExternal()).
ReferencesMean ==
    \A use \in uses :
      LET bindings == Bindings(use.at, use.name)
      IN /\ use.name \notin scripts[use.at].reserved
         /\ Cardinality(bindings) = 1
         /\ \E b \in bindings : Tail(b) = use.means
=============================================================================
