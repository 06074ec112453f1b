-------------------------- MODULE ApiRunner_proofs --------------------------
(***************************************************************************)
(* Theorems about ApiRunner, for any runners, modules, codes, inputs and   *)
(* numbers of edits.                                                       *)
(*                                                                         *)
(* Three parts keep invariants of their own: the loads of the document     *)
(* (LatestLoad), the jobs of the transpiler (Compiles for modules whose    *)
(* jobs never overlap, Untouched for modules that nobody edits), and the   *)
(* stages of the runners (StageFits, MainFits), which tell what the        *)
(* compiler is doing when Main's modules are loaded (Loads).               *)
(***************************************************************************)
EXTENDS ApiRunner, TLAPS

-----------------------------------------------------------------------------
(* The document.                                                           *)

Texts == UNION {Contents[f] : f \in Inputs}
Load == [read : Seq(Texts), stage : {"reading", "failed", "loaded"}]

DocumentTypes ==
  /\ inputs \in [Inputs -> Texts]
  /\ loads \in Seq(Load) /\ Len(loads) >= 1
  /\ \A i \in 1..Len(loads) :
       /\ Len(loads[i].read) <= Len(Reads)
       /\ loads[i].stage = "loaded" <=> Len(loads[i].read) = Len(Reads)
  /\ published \in 0..Len(loads)
  /\ published # 0 => loads[published].stage = "loaded"
  /\ watcher \in {"none", "open", "closed"}

\* A change that some load has still to take notice of, or that none will.
Pending(f) == f \in unreported \/ f \in unnoticed

(***************************************************************************)
(* What the load that began last has read is there still, and what it      *)
(* failed at is broken still, unless a change is pending.                  *)
(***************************************************************************)
LatestLoad ==
  LET load == loads[Len(loads)] IN
  /\ \A n \in 1..Len(load.read) : load.read[n] = inputs[Reads[n]] \/ Pending(Reads[n])
  /\ load.stage = "failed" =>
       \/ inputs[Reads[Len(load.read) + 1]] \in Broken
       \/ Pending(Reads[Len(load.read) + 1])

DocumentInv == DocumentTypes /\ LatestLoad

\* What a step of the whole does to the document.
DocumentChange ==
  \/ UNCHANGED document_vars
  \/ \E f \in Inputs : \E content \in Contents[f] : EditInput(f, content)
  \/ \E i \in DOMAIN loads : ReadInput(i)
  \/ \E f \in Inputs : ReportInput(f)
  \/ WatchDocument \/ CloseDocument

\* The inputs in the order in which they are read.
LEMMA ReadsType ==
  /\ Reads \in Seq(Inputs) /\ Len(Reads) >= 1 /\ Source = Reads[1]
  /\ \A n \in 1..Len(Reads) : Reads[n] \in Inputs
<1>1. <<Source>> \in Seq(STRING \cup {Source}) /\ References \in Seq(STRING \cup {Source})
      /\ Overlays \in Seq(STRING \cup {Source})
  BY InputsAssumption
<1>2. Reads \in Seq(STRING \cup {Source}) /\ Len(Reads) >= 1 /\ Reads[1] = Source
  BY <1>1 DEF Reads
<1>3. DOMAIN Reads = 1..Len(Reads) /\ \A n \in 1..Len(Reads) : Reads[n] \in Inputs
  BY <1>2 DEF Inputs
<1> QED BY <1>2, <1>3

LEMMA TextsType == \A f \in Inputs : \A content \in Contents[f] : content \in Texts
  BY DEF Texts

LEMMA LoadType ==
  ASSUME DocumentTypes, NEW i \in 1..Len(loads)
  PROVE  /\ loads[i] \in Load /\ loads[i].read \in Seq(Texts) /\ Len(loads[i].read) \in Nat
         /\ Len(loads[i].read) <= Len(Reads)
         /\ loads[i].stage \in {"reading", "failed", "loaded"}
         /\ loads[i].stage # "loaded" => Len(loads[i].read) + 1 \in 1..Len(Reads)
<1>1. loads[i] \in Load
  BY DEF DocumentTypes
<1>2. /\ loads[i].read \in Seq(Texts) /\ Len(loads[i].read) \in Nat
      /\ loads[i].stage \in {"reading", "failed", "loaded"}
  BY <1>1 DEF Load
<1>3. Len(loads[i].read) <= Len(Reads) /\ Len(Reads) \in Nat
      /\ (loads[i].stage # "loaded" => Len(loads[i].read) # Len(Reads))
  BY ReadsType DEF DocumentTypes
<1> QED BY <1>1, <1>2, <1>3

LEMMA InitDocumentInv == InitDocument => DocumentInv
<1> SUFFICES ASSUME InitDocument PROVE DocumentInv
  OBVIOUS
<1>1. inputs \in [Inputs -> Texts]
  BY DEF InitDocument, Texts
<1>2. /\ loads = <<NewLoad>> /\ NewLoad \in Load /\ NewLoad.read = <<>> /\ Len(NewLoad.read) = 0
      /\ NewLoad.stage = "reading"
  BY DEF InitDocument, NewLoad, Load
<1>3. loads \in Seq(Load) /\ Len(loads) = 1 /\ loads[1] = NewLoad
  BY <1>2
<1>4. DocumentTypes
  BY <1>1, <1>2, <1>3, ReadsType DEF InitDocument, DocumentTypes
<1>5. LatestLoad
  BY <1>2, <1>3 DEF LatestLoad
<1> QED BY <1>4, <1>5 DEF DocumentInv

LEMMA EditDocument ==
  ASSUME DocumentInv, NEW f \in Inputs, NEW content \in Contents[f], EditInput(f, content)
  PROVE  DocumentInv'
<1> USE DEF DocumentInv
<1>1. /\ inputs' = [inputs EXCEPT ![f] = content] /\ inputs' \in [Inputs -> Texts]
      /\ UNCHANGED <<loads, published, watcher>>
  BY TextsType DEF EditInput, DocumentTypes
<1>2. DocumentTypes'
  BY <1>1 DEF DocumentTypes
<1>3. Pending(f)' /\ \A g : Pending(g) => Pending(g)'
  BY DEF EditInput, Pending, WatchablePaths
<1>4. \A g \in Inputs : g # f => inputs'[g] = inputs[g]
  BY <1>1 DEF DocumentTypes
<1>5. Len(loads) \in 1..Len(loads)
  BY DEF DocumentTypes
<1>6. /\ Len(loads[Len(loads)].read) \in Nat /\ Len(loads[Len(loads)].read) <= Len(Reads)
      /\ loads[Len(loads)].stage = "failed" => Len(loads[Len(loads)].read) + 1 \in 1..Len(Reads)
  BY <1>5, LoadType
<1> HIDE DEF Pending
<1>7. LatestLoad'
  BY <1>1, <1>3, <1>4, <1>5, <1>6, ReadsType DEF LatestLoad
<1> QED BY <1>2, <1>7

LEMMA ReadDocument ==
  ASSUME DocumentInv, NEW i \in DOMAIN loads, ReadInput(i)
  PROVE  DocumentInv'
<1> USE DEF DocumentInv
<1> DEFINE n == Len(loads[i].read) + 1
           content == inputs[Reads[n]]
           read == Append(loads[i].read, content)
           done == n = Len(Reads)
<1>1. i \in 1..Len(loads) /\ loads \in Seq(Load) /\ Len(loads) \in 1..Len(loads)
  BY DEF DocumentTypes
<1>2. /\ loads[i].read \in Seq(Texts) /\ n \in 1..Len(Reads) /\ loads[i].stage = "reading"
      /\ UNCHANGED <<inputs, watcher, unreported>>
  BY <1>1, LoadType DEF ReadInput
<1>3. content \in Texts /\ Reads[n] \in Inputs
  BY <1>2, ReadsType DEF DocumentTypes
<1>4. /\ read \in Seq(Texts) /\ Len(read) = n /\ read[n] = content
      /\ \A k \in 1..Len(loads[i].read) : read[k] = loads[i].read[k]
  BY <1>2, <1>3
<1>5. CASE content \in Broken
  <2>1. loads' = [loads EXCEPT ![i].stage = "failed"] /\ UNCHANGED <<published, unnoticed>>
    BY <1>5 DEF ReadInput
  <2>2. /\ loads' \in Seq(Load) /\ Len(loads') = Len(loads)
        /\ loads'[i].stage = "failed" /\ loads'[i].read = loads[i].read
        /\ \A k \in 1..Len(loads) : k # i => loads'[k] = loads[k]
    <3> DEFINE load == [loads[i] EXCEPT !.stage = "failed"]
    <3>1. load \in Load /\ load.stage = "failed" /\ load.read = loads[i].read
      BY <1>1, LoadType DEF Load
    <3>2. loads' = [loads EXCEPT ![i] = load]
      BY <2>1
    <3> HIDE DEF load
    <3> QED BY <1>1, <3>1, <3>2
  <2>3. DocumentTypes'
    BY <1>1, <1>2, <2>1, <2>2, ReadsType DEF DocumentTypes
  <2>4. CASE i = Len(loads)
    <3>1. \A f : Pending(f)' <=> Pending(f)
      BY <1>2, <2>1 DEF Pending
    <3> QED BY <1>2, <1>5, <2>2, <2>3, <2>4, <3>1 DEF LatestLoad
  <2>5. CASE i # Len(loads)
    <3>1. \A f : Pending(f)' <=> Pending(f)
      BY <1>2, <2>1 DEF Pending
    <3>2. Len(loads') = Len(loads) /\ loads'[Len(loads)] = loads[Len(loads)] /\ inputs' = inputs
      BY <1>1, <1>2, <2>2, <2>5
    <3> QED BY <2>3, <3>1, <3>2 DEF LatestLoad
  <2> QED BY <2>3, <2>4, <2>5
<1>6. CASE content \notin Broken
  <2> DEFINE load == [read |-> read, stage |-> IF done THEN "loaded" ELSE "reading"]
  <2>1. /\ loads' = [loads EXCEPT ![i] = load]
        /\ published' = IF done THEN i ELSE published
        /\ unnoticed' = IF done /\ i = Len(loads)
                        THEN {f \in unnoticed : \E k \in DOMAIN Reads :
                                                  Reads[k] = f /\ read[k] # inputs[f]}
                        ELSE unnoticed
    BY <1>4, <1>6 DEF ReadInput
  <2>2. load \in Load /\ load.read = read /\ (load.stage = "loaded" <=> done) /\ load.stage # "failed"
    BY <1>4 DEF Load
  <2> HIDE DEF load
  <2>3. /\ loads' \in Seq(Load) /\ Len(loads') = Len(loads) /\ loads'[i] = load
        /\ \A k \in 1..Len(loads) : k # i => loads'[k] = loads[k]
    BY <1>1, <2>1, <2>2
  <2>4. published' \in 0..Len(loads') /\ (published' # 0 => loads'[published'].stage = "loaded")
    BY <1>1, <1>2, <2>1, <2>2, <2>3 DEF DocumentTypes
  <2>5. DocumentTypes'
    <3>1. Len(loads'[i].read) <= Len(Reads)
          /\ (loads'[i].stage = "loaded" <=> Len(loads'[i].read) = Len(Reads))
      BY <1>2, <1>4, <2>2, <2>3
    <3> QED BY <1>2, <2>3, <2>4, <3>1, SMTT(30) DEF DocumentTypes
  <2>6. CASE i = Len(loads)
    <3>1. \A k \in 1..n : read[k] = inputs[Reads[k]] \/ Pending(Reads[k])
      BY <1>2, <1>4, <2>6 DEF LatestLoad
    <3>2. \A k \in 1..n : read[k] = inputs[Reads[k]] \/ Pending(Reads[k])'
      <4> SUFFICES ASSUME NEW k \in 1..n, read[k] # inputs[Reads[k]] PROVE Pending(Reads[k])'
        OBVIOUS
      <4>1. k \in DOMAIN Reads
        BY <1>2, ReadsType
      <4> QED BY <3>1, <4>1, <1>2, <2>1 DEF Pending
    <3> HIDE DEF read, n
    <3> QED BY <1>2, <1>4, <2>2, <2>3, <2>5, <2>6, <3>2 DEF LatestLoad
  <2>7. CASE i # Len(loads)
    BY <1>1, <1>2, <2>1, <2>3, <2>5, <2>7 DEF LatestLoad, Pending
  <2> QED BY <2>5, <2>6, <2>7
<1> QED BY <1>5, <1>6

LEMMA ReportDocument ==
  ASSUME DocumentInv, NEW f \in Inputs, ReportInput(f)
  PROVE  DocumentInv'
<1>1. /\ loads' = Append(loads, NewLoad) /\ UNCHANGED <<inputs, published, watcher, unnoticed>>
      /\ loads \in Seq(Load)
  BY DEF ReportInput, DocumentInv, DocumentTypes
<1>2. NewLoad \in Load /\ Len(NewLoad.read) = 0 /\ NewLoad.stage = "reading"
  BY DEF NewLoad, Load
<1>3. /\ loads' \in Seq(Load) /\ Len(loads') = Len(loads) + 1 /\ loads'[Len(loads')] = NewLoad
      /\ \A k \in 1..Len(loads) : loads'[k] = loads[k]
  BY <1>1, <1>2
<1>4. DocumentTypes'
  BY <1>1, <1>2, <1>3, ReadsType DEF DocumentInv, DocumentTypes
<1>5. LatestLoad'
  BY <1>2, <1>3 DEF LatestLoad
<1> QED BY <1>4, <1>5 DEF DocumentInv

LEMMA DocumentStepInv ==
  ASSUME DocumentInv, DocumentChange
  PROVE  DocumentInv'
<1>1. CASE UNCHANGED document_vars
  BY <1>1 DEF DocumentInv, DocumentTypes, LatestLoad, Pending, document_vars
<1>2. CASE WatchDocument
  BY <1>2 DEF WatchDocument, DocumentInv, DocumentTypes, LatestLoad, Pending
<1>3. CASE CloseDocument
  BY <1>3 DEF CloseDocument, DocumentInv, DocumentTypes, LatestLoad, Pending
<1> QED BY <1>1, <1>2, <1>3, EditDocument, ReadDocument, ReportDocument DEF DocumentChange

LEMMA QuietIsCurrent == DocumentInv => DocumentCurrent
<1> SUFFICES ASSUME DocumentInv, published # 0, Quiet, unnoticed = {}, ~Overtaken,
                    \A f \in Inputs : inputs[f] \notin Broken
             PROVE  Document = OnDisk
  BY DEF DocumentCurrent
<1> DEFINE load == loads[Len(loads)]
<1>1. Len(loads) \in 1..Len(loads) /\ published \in 1..Len(loads) /\ DOMAIN loads = 1..Len(loads)
  BY DEF DocumentInv, DocumentTypes
<1>2. load.stage # "reading" /\ \A f \in Inputs : ~Pending(f)
  BY <1>1 DEF Quiet, Pending
<1>3. load.stage # "failed"
  BY <1>1, <1>2, LoadType, ReadsType DEF DocumentInv, LatestLoad
<1>4. load.stage = "loaded"
  BY <1>1, <1>2, <1>3, LoadType DEF DocumentInv
<1>5. published = Len(loads)
  <2>1. Len(loads) \in Nat /\ published \in Nat /\ published <= Len(loads)
    BY <1>1
  <2>2. ~(Len(loads) > published)
    BY <1>1, <1>4 DEF Overtaken
  <2> QED BY <2>1, <2>2
<1>6. Len(load.read) = Len(Reads) /\ load.read \in Seq(Texts)
  BY <1>1, <1>4, LoadType DEF DocumentInv, DocumentTypes
<1>7. \A n \in 1..Len(Reads) : load.read[n] = inputs[Reads[n]]
  BY <1>2, <1>6, ReadsType DEF DocumentInv, LatestLoad
<1> HIDE DEF load
<1>8. load.read = OnDisk
  BY <1>6, <1>7, ReadsType DEF OnDisk
<1> QED BY <1>5, <1>8 DEF Document, load

-----------------------------------------------------------------------------
(* The transpiler.                                                         *)

Job == [module : Modules, code : Codes \cup {Absent},
        stage : {"reading", "writing", "removing", "done", "failed"}]

CodeTypes ==
  /\ source \in [Modules -> Codes \cup {Absent}]
  /\ output \in [Modules -> Codes \cup {Absent}]
  /\ compiler \in {"none", "scanning", "awaiting", "open", "closed"}
  /\ jobs \in Seq(Job) /\ awaited \in 0..Len(jobs)

\* The jobs for a module.
JobsOf(m) == {j \in 1..Len(jobs) : jobs[j].module = m}

(***************************************************************************)
(* A module whose jobs do not overlap, while the watcher is open: what the *)
(* watcher knows, the job that is under way, and the output, follow the    *)
(* source unless a change has still to be reported.                        *)
(***************************************************************************)
Compiles(m) ==
  /\ \A i, j \in JobsOf(m) : Busy(i) /\ Busy(j) => i = j
  /\ \A j \in JobsOf(m) : jobs[j].stage \in {"reading", "writing"} => m \in known
  /\ m \in changed \/ \A j \in JobsOf(m) :
       /\ jobs[j].stage = "reading" => source[m] # Absent
       /\ jobs[j].stage = "writing" => jobs[j].code = source[m]
       /\ jobs[j].stage = "removing" => source[m] = Absent
  /\ m \in changed \/ (m \in known <=> source[m] # Absent)
  /\ m \in changed \/ (\E j \in JobsOf(m) : Busy(j)) \/ output[m] = source[m]
  /\ m \in known \/ (\E j \in JobsOf(m) : Busy(j)) \/ output[m] = Absent

(***************************************************************************)
(* A module that nobody has edited: each of its jobs compiles its source,  *)
(* and there is one among those that watch() waits for.                    *)
(***************************************************************************)
Untouched(m) ==
  /\ \A j \in JobsOf(m) :
       /\ source[m] # Absent /\ jobs[j].stage \in {"reading", "writing", "done"}
       /\ jobs[j].stage = "writing" => jobs[j].code = source[m]
       /\ jobs[j].stage = "done" => output[m] = source[m]
  /\ m \in known => source[m] # Absent
  /\ source[m] = Absent => output[m] = Absent
  /\ compiler = "scanning" /\ source[m] # Absent =>
       (m \in changed /\ m \notin known) \/ \E j \in JobsOf(m) : TRUE
  /\ compiler \in {"awaiting", "open"} /\ source[m] # Absent =>
       \E j \in JobsOf(m) : j <= awaited

BeforeScan ==
  compiler = "none" => jobs = <<>> /\ known = {} /\ \A m \in Modules : output[m] = Absent

AllAwaited == compiler = "open" => \A j \in 1..awaited : jobs[j].stage \in {"done", "removing"}

CompilerInv ==
  /\ CodeTypes /\ BeforeScan /\ AllAwaited
  /\ \A m \in Modules : m \notin overlapped /\ compiler \in Watches => Compiles(m)
  /\ \A m \in Modules : m \notin touched => Untouched(m)

\* What a step of the whole does to the transpiler.
JobChange(j) == ReadModule(j) \/ WriteModule(j) \/ RemoveOutput(j)
CompilerChange ==
  \/ UNCHANGED <<transpiler_vars, touched>>
  \/ \E m \in Modules, code \in Codes \cup {Absent} :
       EditModule(m, code) /\ touched' = touched \cup {m}
  \/ /\ \/ Scan \/ AwaitTranspiles \/ TranspilesDone \/ CloseTranspiler
        \/ \E m \in Modules : ReportModule(m)
        \/ \E j \in DOMAIN jobs : JobChange(j)
     /\ UNCHANGED touched

LEMMA InitCompilerInv == InitTranspiler /\ touched = {} => CompilerInv
<1> SUFFICES ASSUME InitTranspiler, touched = {} PROVE CompilerInv
  OBVIOUS
<1>1. jobs = <<>> /\ Len(jobs) = 0 /\ \A m : JobsOf(m) = {}
  BY DEF InitTranspiler, JobsOf
<1> QED BY <1>1 DEF InitTranspiler, CompilerInv, CodeTypes, BeforeScan, AllAwaited, Untouched, Watches

LEMMA EditCompiler ==
  ASSUME CompilerInv, NEW m \in Modules, NEW code \in Codes \cup {Absent},
         EditModule(m, code), touched' = touched \cup {m}
  PROVE  CompilerInv'
<1>1. /\ source' = [source EXCEPT ![m] = code] /\ source' \in [Modules -> Codes \cup {Absent}]
      /\ source'[m] = code /\ \A k \in Modules : k # m => source'[k] = source[k]
      /\ UNCHANGED <<output, compiler, known, jobs, awaited, overlapped>>
      /\ compiler \in Watches => m \in changed' /\ \A k \in Modules : k # m => (k \in changed' <=> k \in changed)
      /\ compiler \notin Watches => changed' = changed
  BY DEF EditModule, CompilerInv, CodeTypes
<1>2. (CodeTypes /\ BeforeScan /\ AllAwaited)'
  BY <1>1 DEF CompilerInv, CodeTypes, BeforeScan, AllAwaited
<1>3. \A k : JobsOf(k)' = JobsOf(k) /\ \A j : Busy(j)' <=> Busy(j)
  BY <1>1 DEF JobsOf, Busy
<1>4. ASSUME NEW k \in Modules, k \notin overlapped', (compiler \in Watches)' PROVE Compiles(k)'
  <2>1. Compiles(k) /\ compiler \in Watches
    BY <1>1, <1>4 DEF CompilerInv, Watches
  <2>2. CASE k = m
    BY <1>1, <1>3, <2>1, <2>2 DEF Compiles
  <2>3. CASE k # m
    BY <1>1, <1>3, <2>1, <2>3 DEF Compiles
  <2> QED BY <2>2, <2>3
<1>5. ASSUME NEW k \in Modules, k \notin touched' PROVE Untouched(k)'
  <2>1. Untouched(k) /\ k # m
    BY <1>5 DEF CompilerInv
  <2> QED BY <1>1, <1>3, <2>1 DEF Untouched, Watches
<1> QED BY <1>2, <1>4, <1>5 DEF CompilerInv

LEMMA ScanCompiler ==
  ASSUME CompilerInv, Scan, UNCHANGED touched
  PROVE  CompilerInv'
<1>1. /\ compiler = "none" /\ compiler' = "scanning" /\ jobs = <<>> /\ known = {}
      /\ \A m \in Modules : output[m] = Absent
      /\ changed' = {m \in Modules : source[m] # Absent}
      /\ UNCHANGED <<source, output, known, jobs, awaited, overlapped>>
  BY DEF Scan, CompilerInv, BeforeScan
<1>2. \A m : JobsOf(m)' = {}
  BY <1>1 DEF JobsOf
<1>3. (CodeTypes /\ BeforeScan /\ AllAwaited)'
  BY <1>1 DEF CompilerInv, CodeTypes, BeforeScan, AllAwaited
<1>4. \A m \in Modules : Compiles(m)'
  BY <1>1, <1>2 DEF Compiles
<1>5. \A m \in Modules : Untouched(m)'
  BY <1>1, <1>2 DEF Untouched
<1> QED BY <1>3, <1>4, <1>5 DEF CompilerInv

LEMMA AwaitCompiler ==
  ASSUME CompilerInv, AwaitTranspiles, UNCHANGED touched
  PROVE  CompilerInv'
<1>1. /\ compiler = "scanning" /\ compiler' = "awaiting" /\ awaited' = Len(jobs)
      /\ \A m \in changed : m \in known
      /\ UNCHANGED <<source, output, known, changed, jobs, overlapped>>
  BY DEF AwaitTranspiles
<1>2. \A m : JobsOf(m)' = JobsOf(m) /\ \A j : Busy(j)' <=> Busy(j)
  BY <1>1 DEF JobsOf, Busy
<1>3. (CodeTypes /\ BeforeScan /\ AllAwaited)'
  BY <1>1 DEF CompilerInv, CodeTypes, BeforeScan, AllAwaited
<1>4. \A m \in Modules : m \notin overlapped' => Compiles(m)'
  BY <1>1, <1>2 DEF CompilerInv, Compiles, Watches
<1>5. \A m \in Modules : m \notin touched' => Untouched(m)'
  BY <1>1, <1>2 DEF CompilerInv, Untouched, JobsOf
<1> QED BY <1>3, <1>4, <1>5 DEF CompilerInv

LEMMA AwaitedCompiler ==
  ASSUME CompilerInv, TranspilesDone, UNCHANGED touched
  PROVE  CompilerInv'
<1>1. /\ compiler = "awaiting" /\ compiler' = "open" /\ \A j \in Awaited : jobs[j].stage = "done"
      /\ UNCHANGED <<source, output, known, changed, jobs, awaited, overlapped>>
  BY DEF TranspilesDone
<1>2. \A m : JobsOf(m)' = JobsOf(m) /\ \A j : Busy(j)' <=> Busy(j)
  BY <1>1 DEF JobsOf, Busy
<1>3. (CodeTypes /\ BeforeScan /\ AllAwaited)'
  BY <1>1 DEF CompilerInv, CodeTypes, BeforeScan, AllAwaited, Awaited
<1>4. \A m \in Modules : m \notin overlapped' => Compiles(m)'
  BY <1>1, <1>2 DEF CompilerInv, Compiles, Watches
<1>5. \A m \in Modules : m \notin touched' => Untouched(m)'
  BY <1>1, <1>2 DEF CompilerInv, Untouched
<1> QED BY <1>3, <1>4, <1>5 DEF CompilerInv

LEMMA CloseCompiler ==
  ASSUME CompilerInv, CloseTranspiler, UNCHANGED touched
  PROVE  CompilerInv'
<1>1. /\ compiler' \in {"none", "closed"} /\ (compiler' = "none" => compiler = "none")
      /\ UNCHANGED <<source, output, known, jobs, awaited, overlapped>>
  BY DEF CloseTranspiler, CompilerInv, CodeTypes, Watches
<1>2. \A m : JobsOf(m)' = JobsOf(m)
  BY <1>1 DEF JobsOf
<1>3. (CodeTypes /\ BeforeScan /\ AllAwaited)'
  BY <1>1 DEF CompilerInv, CodeTypes, BeforeScan, AllAwaited
<1>4. (compiler \notin Watches)'
  BY <1>1 DEF Watches
<1>5. \A m \in Modules : m \notin touched' => Untouched(m)'
  BY <1>1, <1>2 DEF CompilerInv, Untouched
<1> QED BY <1>3, <1>4, <1>5 DEF CompilerInv

LEMMA ReportCompiler ==
  ASSUME CompilerInv, NEW m \in Modules, ReportModule(m), UNCHANGED touched
  PROVE  CompilerInv'
<1>1. /\ compiler \in Watches /\ m \in changed /\ changed' = changed \ {m}
      /\ known' = IF source[m] = Absent THEN known \ {m} ELSE known \cup {m}
      /\ overlapped' = IF BusyWith(m) THEN overlapped \cup {m} ELSE overlapped
      /\ UNCHANGED <<source, output, compiler, awaited>>
      /\ jobs \in Seq(Job) /\ DOMAIN jobs = 1..Len(jobs) /\ awaited \in 0..Len(jobs)
  BY DEF ReportModule, CompilerInv, CodeTypes
<1>2. Watches \subseteq {"scanning", "awaiting", "open"}
  BY DEF Watches
<1> DEFINE Started(kind) == [module |-> m, stage |-> kind, code |-> Absent]
<1>3. CASE source[m] = Absent /\ m \notin known
  <2>1. jobs' = jobs /\ known' = known
    BY <1>1, <1>3 DEF ReportModule, IsSaved, IsDeleted
  <2>2. \A k : JobsOf(k)' = JobsOf(k) /\ \A j : Busy(j)' <=> Busy(j)
    BY <2>1 DEF JobsOf, Busy
  <2>3. (CodeTypes /\ BeforeScan /\ AllAwaited)'
    BY <1>1, <1>2, <2>1 DEF CompilerInv, CodeTypes, BeforeScan, AllAwaited
  <2>4. ASSUME NEW k \in Modules, k \notin overlapped' PROVE Compiles(k)'
    <3>1. Compiles(k) /\ (k = m => ~BusyWith(m))
      BY <1>1, <2>4 DEF CompilerInv
    <3>2. k = m => \A j \in JobsOf(m) : ~Busy(j)
      BY <1>1, <3>1 DEF BusyWith, JobsOf
    <3> QED BY <1>1, <1>3, <2>1, <2>2, <3>1, <3>2 DEF Compiles
  <2>5. ASSUME NEW k \in Modules, k \notin touched' PROVE Untouched(k)'
    BY <1>1, <1>3, <2>1, <2>2, <2>5 DEF CompilerInv, Untouched
  <2> QED BY <2>3, <2>4, <2>5 DEF CompilerInv
<1>4. CASE source[m] # Absent \/ m \in known
  <2>1. PICK kind \in {"reading", "removing"} :
          /\ jobs' = Append(jobs, Started(kind))
          /\ kind = "reading" <=> source[m] # Absent
    BY <1>1, <1>4 DEF ReportModule, IsSaved, IsDeleted
  <2> DEFINE job == Started(kind)
  <2>0. PICK n \in Nat : n = Len(jobs) + 1
    BY <1>1
  <2>2. job \in Job /\ job.module = m /\ job.stage = kind
    BY DEF Job
  <2>3. jobs' = Append(jobs, job)
    BY <2>1
  <2> HIDE DEF job
  <2>4. /\ jobs' \in Seq(Job) /\ Len(jobs') = n /\ jobs'[n] = job
        /\ \A j \in 1..Len(jobs) : jobs'[j] = jobs[j]
    BY <1>1, <2>0, <2>2, <2>3
  <2>5. /\ JobsOf(m)' = JobsOf(m) \cup {n} /\ n \notin JobsOf(m)
        /\ \A k : k # m => JobsOf(k)' = JobsOf(k)
    BY <1>1, <2>0, <2>2, <2>4 DEF JobsOf
  <2>6. Busy(n)' /\ \A j \in 1..Len(jobs) : Busy(j)' <=> Busy(j)
    BY <2>1, <2>2, <2>4 DEF Busy
  <2>7. \A k : \A j \in JobsOf(k) : j \in 1..Len(jobs)
    BY DEF JobsOf
  <2>8. (CodeTypes /\ BeforeScan /\ AllAwaited)'
    BY <1>1, <1>2, <2>0, <2>4 DEF CompilerInv, CodeTypes, BeforeScan, AllAwaited
  <2>9. ASSUME NEW k \in Modules, k \notin overlapped' PROVE Compiles(k)'
    <3>1. Compiles(k) /\ (k = m => ~BusyWith(m))
      BY <1>1, <2>9 DEF CompilerInv
    <3>2. CASE k = m
      <4>1. \A j \in JobsOf(m) : ~Busy(j)
        BY <1>1, <3>1, <3>2 DEF BusyWith, JobsOf
      <4>2. \A j \in JobsOf(m) : jobs[j].stage \notin {"reading", "writing", "removing"}
        BY <4>1 DEF Busy
      <4>3. \A j \in JobsOf(m) : jobs'[j] = jobs[j] /\ ~Busy(j)'
        BY <2>4, <2>6, <2>7, <4>1
      <4>4. m \in known' <=> source[m] # Absent
        BY <1>1
      <4>5. n \in JobsOf(m)' /\ \A j \in JobsOf(m)' : j # n => j \in JobsOf(m)
        BY <2>5
      <4>6. \A i, j \in JobsOf(m)' : Busy(i)' /\ Busy(j)' => i = j
        BY <4>3, <4>5
      <4>7. \A j \in JobsOf(m)' : j # n => jobs'[j].stage \notin {"reading", "writing", "removing"}
        BY <4>2, <4>3, <4>5
      <4>8. \E j \in JobsOf(m)' : Busy(j)'
        BY <2>6, <4>5
      <4>9. jobs'[n].stage = kind /\ kind \in {"reading", "removing"}
        BY <2>1, <2>2, <2>4
      <4>10. \A j \in JobsOf(m)' :
               /\ jobs'[j].stage # "writing"
               /\ jobs'[j].stage = "reading" <=> (j = n /\ source[m] # Absent)
               /\ jobs'[j].stage = "removing" <=> (j = n /\ source[m] = Absent)
        BY <2>1, <4>5, <4>7, <4>9
      <4> QED BY <1>1, <3>2, <4>4, <4>6, <4>8, <4>10 DEF Compiles
    <3>3. CASE k # m
      <4>1. \A j \in JobsOf(k) : jobs'[j] = jobs[j] /\ (Busy(j)' <=> Busy(j))
        BY <2>4, <2>6, <2>7
      <4>2. (k \in known' <=> k \in known) /\ (k \in changed' <=> k \in changed)
        BY <1>1, <3>3
      <4> QED BY <1>1, <2>5, <3>1, <3>3, <4>1, <4>2 DEF Compiles
    <3> QED BY <3>2, <3>3
  <2>10. ASSUME NEW k \in Modules, k \notin touched' PROVE Untouched(k)'
    <3>1. Untouched(k)
      BY <2>10 DEF CompilerInv
    <3>2. \A j \in JobsOf(k) : jobs'[j] = jobs[j]
      BY <2>4, <2>7
    <3>3. CASE k = m
      <4>1. source[m] # Absent /\ kind = "reading"
        BY <1>4, <2>1, <3>1, <3>3 DEF Untouched
      <4> QED BY <1>1, <2>2, <2>4, <2>5, <3>1, <3>2, <3>3, <4>1 DEF Untouched
    <3>4. CASE k # m
      <4>1. (k \in known' <=> k \in known) /\ (k \in changed' <=> k \in changed)
        BY <1>1, <3>4
      <4> QED BY <1>1, <2>5, <3>1, <3>2, <3>4, <4>1 DEF Untouched
    <3> QED BY <3>3, <3>4
  <2> QED BY <2>8, <2>9, <2>10 DEF CompilerInv
<1> QED BY <1>3, <1>4

\* What a job does: its own record changes, and the output of its module m.
JobShape(j, m) ==
  /\ j \in 1..Len(jobs) /\ m \in Modules /\ jobs[j].module = m /\ jobs'[j].module = m
  /\ jobs' \in Seq(Job) /\ Len(jobs') = Len(jobs)
  /\ \A i \in 1..Len(jobs) : i # j => jobs'[i] = jobs[i]
  /\ output' \in [Modules -> Codes \cup {Absent}]
  /\ \A k \in Modules : k # m => output'[k] = output[k]
  /\ UNCHANGED <<source, compiler, known, changed, awaited, overlapped>>
  /\ \/ /\ jobs[j].stage = "reading" /\ output' = output
        /\ jobs'[j].code = source[m]
        /\ jobs'[j].stage = IF source[m] = Absent THEN "failed" ELSE "writing"
     \/ /\ jobs[j].stage = "writing" /\ jobs'[j].stage = "done"
        /\ output'[m] = jobs[j].code
     \/ /\ jobs[j].stage = "removing" /\ jobs'[j].stage = "done"
        /\ output'[m] = Absent

LEMMA JobHasShape ==
  ASSUME CodeTypes, NEW j \in DOMAIN jobs, JobChange(j)
  PROVE  JobShape(j, jobs[j].module)
<1> DEFINE m == jobs[j].module
<1>0. jobs \in Seq(Job) /\ j \in 1..Len(jobs)
  BY DEF CodeTypes
<1>01. jobs[j] \in Job
  BY <1>0
<1>1. /\ jobs \in Seq(Job) /\ j \in 1..Len(jobs) /\ jobs[j] \in Job
      /\ m \in Modules /\ jobs[j].code \in Codes \cup {Absent}
      /\ source[m] \in Codes \cup {Absent}
  BY <1>0, <1>01 DEF CodeTypes, Job
<1>2. CASE ReadModule(j)
  <2> DEFINE job == [jobs[j] EXCEPT !.stage = IF source[m] = Absent THEN "failed" ELSE "writing",
                                    !.code = source[m]]
  <2>1. /\ jobs[j].stage = "reading" /\ jobs' = [jobs EXCEPT ![j] = job]
        /\ UNCHANGED <<source, output, compiler, known, changed, awaited, overlapped>>
    BY <1>2, <1>1 DEF ReadModule
  <2>2. /\ job \in Job /\ job.module = m /\ job.code = source[m]
        /\ job.stage = IF source[m] = Absent THEN "failed" ELSE "writing"
    BY <1>1 DEF Job
  <2> HIDE DEF job
  <2>3. /\ jobs' \in Seq(Job) /\ Len(jobs') = Len(jobs) /\ jobs'[j] = job
        /\ \A i \in 1..Len(jobs) : i # j => jobs'[i] = jobs[i]
    BY <1>1, <2>1, <2>2
  <2> QED BY <1>1, <2>1, <2>2, <2>3 DEF JobShape, CodeTypes
<1>3. CASE WriteModule(j) \/ RemoveOutput(j)
  <2> DEFINE job == [jobs[j] EXCEPT !.stage = "done"]
  <2>1. jobs' = [jobs EXCEPT ![j] = job]
        /\ UNCHANGED <<source, compiler, known, changed, awaited, overlapped>>
    BY <1>3 DEF WriteModule, RemoveOutput
  <2>2. job \in Job /\ job.module = m /\ job.stage = "done"
    BY <1>1 DEF Job
  <2> HIDE DEF job
  <2>3. /\ jobs' \in Seq(Job) /\ Len(jobs') = Len(jobs) /\ jobs'[j] = job
        /\ \A i \in 1..Len(jobs) : i # j => jobs'[i] = jobs[i]
    BY <1>1, <2>1, <2>2
  <2>4. \/ jobs[j].stage = "writing" /\ output' = [output EXCEPT ![m] = jobs[j].code]
        \/ jobs[j].stage = "removing" /\ output' = [output EXCEPT ![m] = Absent]
    BY <1>3 DEF WriteModule, RemoveOutput
  <2> QED BY <1>1, <2>1, <2>2, <2>3, <2>4 DEF JobShape, CodeTypes
<1> QED BY <1>2, <1>3 DEF JobChange

LEMMA JobCompiler ==
  ASSUME CompilerInv, NEW j \in DOMAIN jobs, JobChange(j), UNCHANGED touched
  PROVE  CompilerInv'
<1>0. CodeTypes /\ DOMAIN jobs = 1..Len(jobs)
  BY DEF CompilerInv, CodeTypes
<1>1. PICK m \in Modules : JobShape(j, m)
  BY <1>0, JobHasShape DEF JobShape
<1> USE DEF JobShape
<1>2. \A k : JobsOf(k)' = JobsOf(k) /\ \A i \in JobsOf(k) : i \in 1..Len(jobs)
  <2>1. \A i \in 1..Len(jobs) : jobs'[i].module = jobs[i].module
    BY <1>1
  <2> QED BY <1>1, <2>1 DEF JobsOf
<1>3. \A i \in 1..Len(jobs) : i # j => (Busy(i)' <=> Busy(i))
  BY <1>1 DEF Busy
<1>4. Busy(j) /\ j \in JobsOf(m) /\ \A k : k # m => j \notin JobsOf(k)
  BY <1>1 DEF Busy, JobsOf
<1>5. (Busy(j)' <=> jobs'[j].stage = "writing") /\ jobs'[j].stage \in {"writing", "done", "failed"}
  BY <1>1 DEF Busy
<1>6. ASSUME NEW k \in Modules, k # m PROVE /\ Compiles(k) => Compiles(k)'
                                            /\ Untouched(k) => Untouched(k)'
  <2>1. \A i \in JobsOf(k) : jobs'[i] = jobs[i] /\ (Busy(i)' <=> Busy(i))
    BY <1>1, <1>2, <1>3, <1>4, <1>6
  <2>2. output'[k] = output[k] /\ UNCHANGED <<source, compiler, known, changed, awaited>>
    BY <1>1, <1>6
  <2> QED BY <1>2, <2>1, <2>2 DEF Compiles, Untouched
<1>7. ASSUME Compiles(m) PROVE Compiles(m)'
  <2>1. \A i \in JobsOf(m) : i # j => ~Busy(i) /\ ~Busy(i)' /\ jobs'[i] = jobs[i]
    BY <1>1, <1>2, <1>3, <1>4, <1>7 DEF Compiles
  <2>2. \A i \in JobsOf(m) : i # j => jobs'[i].stage \notin {"reading", "writing", "removing"}
    BY <2>1 DEF Busy
  <2>3. UNCHANGED <<source, known, changed>>
    BY <1>1
  <2>4. CASE jobs[j].stage = "reading"
    BY <1>1, <1>2, <1>4, <1>5, <1>7, <2>1, <2>2, <2>3, <2>4 DEF Compiles
  <2>5. CASE jobs[j].stage # "reading"
    <3>1. jobs'[j].stage = "done" /\ \A i \in JobsOf(m) : ~Busy(i)'
      BY <1>1, <1>5, <2>1, <2>5
    <3>2. m \in changed \/ output'[m] = source[m]
      BY <1>1, <1>4, <1>7, <2>5 DEF Compiles
    <3>3. m \in known \/ output'[m] = Absent
      BY <1>1, <1>4, <1>7, <2>5 DEF Compiles
    <3>4. m \in changed \/ (m \in known <=> source[m] # Absent)
      BY <1>7 DEF Compiles
    <3> QED BY <1>2, <2>2, <2>3, <3>1, <3>2, <3>3, <3>4 DEF Compiles
  <2> QED BY <2>4, <2>5
<1>8. ASSUME Untouched(m) PROVE Untouched(m)'
  <2>1. source[m] # Absent /\ jobs[j].stage \in {"reading", "writing"}
        /\ (jobs[j].stage = "writing" => jobs[j].code = source[m])
    BY <1>1, <1>4, <1>8 DEF Untouched
  <2>2. \A i \in JobsOf(m) : i # j => jobs'[i] = jobs[i]
    BY <1>1, <1>2
  <2>3. output'[m] = output[m] \/ output'[m] = source[m]
    BY <1>1, <2>1
  <2>4. /\ jobs'[j].stage \in {"writing", "done"}
        /\ jobs'[j].stage = "writing" => jobs'[j].code = source[m]
        /\ jobs'[j].stage = "done" => output'[m] = source[m]
    BY <1>1, <2>1
  <2>5. UNCHANGED <<source, compiler, known, changed, awaited>>
    BY <1>1
  <2> QED BY <1>2, <1>8, <2>1, <2>2, <2>3, <2>4, <2>5 DEF Untouched
<1>9. (CodeTypes /\ BeforeScan)'
  <2>1. compiler # "none"
    BY <1>1 DEF CompilerInv, BeforeScan
  <2> QED BY <1>1, <2>1 DEF CompilerInv, CodeTypes, BeforeScan
<1>10. AllAwaited'
  <2> SUFFICES ASSUME compiler = "open", NEW i \in 1..awaited
               PROVE  jobs'[i].stage \in {"done", "removing"}
    BY <1>1 DEF AllAwaited
  <2>1. i \in 1..Len(jobs) /\ jobs[i].stage \in {"done", "removing"}
    BY DEF CompilerInv, CodeTypes, AllAwaited
  <2> QED BY <1>1, <2>1
<1>11. UNCHANGED <<compiler, overlapped>>
  BY <1>1
<1> QED BY <1>6, <1>7, <1>8, <1>9, <1>10, <1>11 DEF CompilerInv, Watches

LEMMA CompilerStepInv ==
  ASSUME CompilerInv, CompilerChange
  PROVE  CompilerInv'
<1>1. CASE UNCHANGED <<transpiler_vars, touched>>
  BY <1>1 DEF transpiler_vars, CompilerInv, CodeTypes, BeforeScan, AllAwaited, Compiles,
              Untouched, JobsOf, Busy, Watches
<1> QED BY <1>1, EditCompiler, ScanCompiler, AwaitCompiler, AwaitedCompiler, CloseCompiler,
           ReportCompiler, JobCompiler DEF CompilerChange

\* The output of a module that nobody edited, once watch() of the transpiler is over.
LEMMA UntouchedIsCompiled ==
  CompilerInv /\ compiler = "open" => \A m \in Modules \ touched : output[m] = source[m]
<1> SUFFICES ASSUME CompilerInv, compiler = "open", NEW m \in Modules, m \notin touched
             PROVE  output[m] = source[m]
  OBVIOUS
<1>1. Untouched(m)
  BY DEF CompilerInv
<1>2. CASE source[m] = Absent
  BY <1>1, <1>2 DEF Untouched
<1>3. CASE source[m] # Absent
  <2>1. PICK j \in JobsOf(m) : j <= awaited
    BY <1>1, <1>3 DEF Untouched
  <2>2. j \in 1..awaited
    BY <2>1 DEF JobsOf, CompilerInv, CodeTypes
  <2>3. jobs[j].stage \in {"done", "removing"} /\ jobs[j].stage \in {"reading", "writing", "done"}
    BY <1>1, <2>1, <2>2 DEF CompilerInv, AllAwaited, Untouched
  <2> QED BY <1>1, <2>1, <2>3 DEF Untouched
<1> QED BY <1>2, <1>3

-----------------------------------------------------------------------------
(* The runners and the stages of start().                                  *)

Stages == {"created", "generating", "watched", "documented", "compiling", "compiled",
           "cached", "loaded", "started", "rejected"}

RunnerTypes ==
  /\ nativeTs \in BOOLEAN /\ options \in {"serve", "cache", "neither"}
  /\ stage \in [Runners -> Stages]
  /\ open \in [Runners -> SUBSET Watchers]
  /\ served \in [Modules -> Codes \cup {Absent}]

\* How far a runner is, by the stage that start() is in.
StageFits ==
  /\ app \in {"creating", "watching"} =>
       \A r \in Runners : stage[r] \in {"created", "generating", "watched"}
  /\ app = "running" => \A r \in Runners : stage[r] = "started"
  /\ app \in {"closing", "stopped"} => \A r \in Runners : stage[r] \in {"started", "rejected"}
  /\ app = "stopped" => \A r \in Runners : \A w \in open[r] : <<r, w>> \in stuck

Serving == options = "serve" /\ app # "stopped"

\* What Main's compiler is doing, by how far Main is.
MainFits == Serving =>
  /\ stage[Main] \in {"created", "generating", "watched", "documented"} => compiler = "none"
  /\ stage[Main] = "compiling" => compiler \in {"scanning", "awaiting"} /\ ~nativeTs
  /\ stage[Main] \in {"compiled", "loaded", "started"} => compiler = "open" \/ nativeTs
  /\ stage[Main] # "cached"
  /\ "modules" \in open[Main] <=> stage[Main] = "started"

\* What Main has loaded.
Loads == Serving /\ stage[Main] \in {"loaded", "started"} =>
  /\ \A m \in Modules : m \in missed \/ m \in toLoad \/ served[m] = Code(m)
  /\ \A m \in Modules : m \notin touched => served[m] = source[m]

AppInv == RunnerTypes /\ StageFits /\ MainFits /\ Loads

IInv == DocumentInv /\ CompilerInv /\ AppInv

\* The steps of a runner, and of start() and stop().
RunnerStep(r) ==
  \/ WatchGenerator(r) \/ WatchTypes(r) \/ Skip(r) \/ BuildCache(r)
  \/ StartDocument(r) \/ StartTranspiler(r) \/ Transpiled(r) \/ Cached(r)
  \/ LoadModules(r) \/ LoadFails(r) \/ WatchModules(r)

Closes == Close({}) \/ \E r \in Runners, w \in Watchers : Close({<<r, w>>})

LEMMA NextCases ==
  ASSUME Next
  PROVE  \/ \E f \in Inputs : \E content \in Contents[f] : UserEditsInput(f, content)
         \/ \E m \in Modules, code \in Codes \cup {Absent} : UserEditsModule(m, code)
         \/ Created \/ (\E r \in Runners : RunnerStep(r)) \/ AwaitCompilers
         \/ StageOver("watching", "watched", "starting")
         \/ StageOver("starting", "started", "running")
         \/ Stop \/ Closes \/ DocumentStep \/ TranspilerStep
         \/ \E m \in Modules : ReloadModule(m)
BY DEF Next, RunnerStep, Closes

LEMMA NextChanges ==
  ASSUME [Next]_vars
  PROVE  DocumentChange /\ CompilerChange
<1> USE DEF DocumentChange, CompilerChange
<1>1. CASE UNCHANGED vars
  BY <1>1 DEF vars
<1>2. ASSUME NEW f \in Inputs, NEW content \in Contents[f], UserEditsInput(f, content)
      PROVE  DocumentChange /\ CompilerChange
  BY <1>2 DEF UserEditsInput
<1>3. ASSUME NEW m \in Modules, NEW code \in Codes \cup {Absent}, UserEditsModule(m, code)
      PROVE  DocumentChange /\ CompilerChange
  BY <1>3 DEF UserEditsModule
<1>4. CASE Created \/ Stop \/ StageOver("watching", "watched", "starting")
           \/ StageOver("starting", "started", "running")
  BY <1>4 DEF Created, Stop, StageOver, Elsewhere
<1>5. ASSUME NEW r \in Runners, RunnerStep(r)
      PROVE  DocumentChange /\ CompilerChange
  <2>1. CASE WatchGenerator(r) \/ WatchTypes(r) \/ Skip(r) \/ LoadFails(r) \/ WatchModules(r)
             \/ LoadModules(r)
    BY <2>1 DEF WatchGenerator, WatchTypes, Skip, LoadFails, WatchModules, LoadModules, Advance,
                Elsewhere
  <2>2. CASE BuildCache(r) \/ StartTranspiler(r) \/ Transpiled(r) \/ Cached(r)
    BY <2>2 DEF BuildCache, StartTranspiler, Transpiled, TranspilesFail, Cached, Advance
  <2>3. CASE StartDocument(r)
    BY <2>3 DEF StartDocument, Advance
  <2> QED BY <1>5, <2>1, <2>2, <2>3 DEF RunnerStep
<1>6. CASE AwaitCompilers
  BY <1>6 DEF AwaitCompilers
<1>7. CASE Closes
  BY <1>7 DEF Closes, Close
<1>8. CASE DocumentStep
  BY <1>8 DEF DocumentStep
<1>9. CASE TranspilerStep
  BY <1>9 DEF TranspilerStep, JobChange
<1>10. ASSUME NEW m \in Modules, ReloadModule(m)
       PROVE  DocumentChange /\ CompilerChange
  BY <1>10 DEF ReloadModule
<1> HIDE DEF DocumentChange, CompilerChange
<1> QED BY <1>1, <1>2, <1>3, <1>4, <1>5, <1>6, <1>7, <1>8, <1>9, <1>10, NextCases

LEMMA InitAppInv == Init => AppInv
<1> SUFFICES ASSUME Init PROVE AppInv
  OBVIOUS
<1> USE MainAssumption
<1>1. \A r \in Runners : stage[r] = "created" /\ open[r] = {}
  BY DEF Init
<1> QED BY <1>1 DEF Init, InitTranspiler, AppInv, RunnerTypes, StageFits, MainFits, Loads, Serving,
                    Stages

\* What a runner's step does to Main, when it is not Main's.
LEMMA OtherRunnerStep ==
  ASSUME RunnerTypes, NEW r \in Runners, r # Main, RunnerStep(r)
  PROVE  /\ stage'[Main] = stage[Main] /\ open'[Main] = open[Main]
         /\ UNCHANGED <<transpiler_vars, loader_vars, nativeTs, options, app, stuck, touched>>
<1> USE MainAssumption DEF RunnerTypes
<1>1. CASE WatchGenerator(r) \/ WatchTypes(r) \/ Skip(r) \/ LoadFails(r) \/ WatchModules(r)
           \/ LoadModules(r)
  BY <1>1 DEF WatchGenerator, WatchTypes, Skip, LoadFails, WatchModules, LoadModules, Advance,
              Elsewhere
<1>2. CASE BuildCache(r) \/ StartDocument(r) \/ StartTranspiler(r)
  BY <1>2 DEF BuildCache, StartDocument, StartTranspiler, Advance
<1>3. CASE Transpiled(r)
  BY <1>3 DEF Transpiled, Advance
<1>4. CASE Cached(r)
  BY <1>4 DEF Cached
<1> QED BY <1>1, <1>2, <1>3, <1>4 DEF RunnerStep

\* What any runner's step does to its stage and its watchers.
RunnerShape(r) ==
  /\ stage' \in [Runners -> Stages] /\ open' \in [Runners -> SUBSET Watchers]
  /\ \A q \in Runners : q # r => stage'[q] = stage[q] /\ open'[q] = open[q]
  /\ UNCHANGED <<nativeTs, options, app, stuck>>
  /\ \/ app = "watching" /\ stage[r] = "created" /\ stage'[r] = "generating"
     \/ app = "watching" /\ stage[r] = "generating" /\ stage'[r] = "watched"
     \/ Begins /\ stage[r] \notin {"started", "rejected"}

LEMMA RunnerHasShape ==
  ASSUME RunnerTypes, NEW r \in Runners, RunnerStep(r)
  PROVE  RunnerShape(r)
<1> USE DEF RunnerTypes, RunnerShape, Stages, Watchers
<1>1. CASE WatchGenerator(r) \/ WatchTypes(r)
  BY <1>1 DEF WatchGenerator, WatchTypes, Advance
<1>2. CASE Skip(r) \/ LoadFails(r) \/ WatchModules(r) \/ LoadModules(r)
  BY <1>2 DEF Skip, LoadFails, WatchModules, LoadModules, Advance
<1>3. CASE BuildCache(r) \/ StartDocument(r)
  BY <1>3 DEF BuildCache, StartDocument, Advance
<1>4. CASE StartTranspiler(r)
  <2>1. CASE nativeTs
    BY <1>4, <2>1 DEF StartTranspiler, Advance
  <2>2. CASE ~nativeTs
    BY <1>4, <2>2 DEF StartTranspiler, Advance
  <2> QED BY <2>1, <2>2
<1>5. CASE Transpiled(r)
  BY <1>5 DEF Transpiled, Advance
<1>6. CASE Cached(r)
  BY <1>6 DEF Cached
<1> QED BY <1>1, <1>2, <1>3, <1>4, <1>5, <1>6 DEF RunnerStep

LEMMA RunnerStageFits ==
  ASSUME AppInv, NEW r \in Runners, RunnerStep(r)
  PROVE  StageFits'
<1>1. RunnerShape(r) /\ StageFits
  BY RunnerHasShape DEF AppInv
<1>2. app \notin {"creating", "running", "closing", "stopped"}
  BY <1>1 DEF RunnerShape, StageFits, Begins
<1>3. app = "watching" => \A q \in Runners : stage'[q] \in {"generating", "watched", "created"}
  BY <1>1 DEF RunnerShape, StageFits, Begins
<1> QED BY <1>1, <1>2, <1>3 DEF RunnerShape, StageFits

LEMMA MainStepFits ==
  ASSUME CompilerInv, AppInv, RunnerStep(Main)
  PROVE  MainFits' /\ Loads'
<1> USE MainAssumption
<1>1. /\ stage \in [Runners -> Stages] /\ open \in [Runners -> SUBSET Watchers]
      /\ MainFits /\ Loads /\ nativeTs \in BOOLEAN
      /\ DOMAIN stage = Runners /\ DOMAIN open = Runners
  BY DEF AppInv, RunnerTypes
<1>2. RunnerShape(Main) /\ (Serving' <=> Serving)
  BY RunnerHasShape DEF AppInv, RunnerShape, Serving
<1>3. SUFFICES ASSUME Serving PROVE MainFits' /\ Loads'
  BY <1>2 DEF MainFits, Loads
<1> USE <1>3
<1>4. \/ WatchGenerator(Main) \/ WatchTypes(Main) \/ StartDocument(Main) \/ StartTranspiler(Main)
      \/ Transpiled(Main) \/ LoadModules(Main) \/ LoadFails(Main) \/ WatchModules(Main)
  BY <1>1 DEF RunnerStep, Serving, MainFits, Skip, BuildCache, Cached
<1>5. CASE WatchGenerator(Main) \/ WatchTypes(Main) \/ StartDocument(Main)
  <2>1. stage'[Main] \in {"generating", "watched", "documented"} /\ compiler = "none"
        /\ UNCHANGED <<nativeTs, compiler>>
        /\ ("modules" \in open'[Main] <=> "modules" \in open[Main]) /\ stage[Main] # "started"
    BY <1>1, <1>5 DEF WatchGenerator, WatchTypes, StartDocument, Advance, MainFits, Elsewhere,
                      transpiler_vars
  <2> QED BY <1>1, <1>2, <2>1 DEF MainFits, Loads
<1>6. CASE StartTranspiler(Main)
  <2>1. /\ stage[Main] = "documented" /\ "modules" \notin open[Main] /\ "modules" \notin open'[Main]
        /\ \/ nativeTs /\ stage'[Main] = "compiled"
           \/ ~nativeTs /\ stage'[Main] = "compiling" /\ compiler' = "scanning"
    BY <1>1, <1>6 DEF StartTranspiler, Advance, Scan, MainFits
  <2>2. nativeTs' = nativeTs
    BY <1>2 DEF RunnerShape
  <2> QED BY <1>2, <2>1, <2>2 DEF MainFits, Loads
<1>7. CASE Transpiled(Main)
  <2>1. /\ stage[Main] = "compiling" /\ "modules" \notin open[Main] /\ "modules" \notin open'[Main]
        /\ \/ stage'[Main] = "compiled" /\ compiler' = "open"
           \/ stage'[Main] = "rejected"
    BY <1>1, <1>7 DEF Transpiled, Advance, TranspilesDone, MainFits, Serving
  <2> QED BY <1>2, <2>1 DEF MainFits, Loads
<1>8. CASE LoadFails(Main)
  <2>1. stage[Main] = "compiled" /\ stage'[Main] = "rejected"
        /\ ("modules" \in open'[Main] <=> "modules" \in open[Main])
    BY <1>1, <1>8 DEF LoadFails, Advance
  <2> QED BY <1>1, <2>1 DEF MainFits, Loads
<1>9. CASE LoadModules(Main)
  <2>1. /\ stage[Main] = "compiled" /\ stage'[Main] = "loaded"
        /\ ("modules" \in open'[Main] <=> "modules" \in open[Main])
        /\ served' = [m \in Modules |-> Code(m)]
        /\ UNCHANGED <<source, output, compiler, nativeTs, touched>>
    BY <1>1, <1>9 DEF LoadModules, Advance, transpiler_vars
  <2>2. \A m \in Modules : served'[m] = Code(m) /\ Code(m)' = Code(m)
    BY <2>1 DEF Code
  <2>3. \A m \in Modules \ touched : Code(m) = source[m]
    BY <1>1, <2>1, UntouchedIsCompiled DEF MainFits, Code
  <2>4. MainFits'
    BY <1>1, <2>1 DEF MainFits
  <2> QED BY <2>1, <2>2, <2>3, <2>4 DEF Loads
<1>10. CASE WatchModules(Main)
  <2>1. /\ stage[Main] = "loaded" /\ stage'[Main] = "started" /\ "modules" \in open'[Main]
        /\ UNCHANGED <<transpiler_vars, loader_vars, nativeTs, touched>>
    BY <1>1, <1>10 DEF WatchModules, Advance, Elsewhere
  <2> QED BY <1>1, <2>1 DEF MainFits, Loads, Code, transpiler_vars, loader_vars
<1> QED BY <1>4, <1>5, <1>6, <1>7, <1>8, <1>9, <1>10

LEMMA RunnerStepAppInv ==
  ASSUME CompilerInv, AppInv, NEW r \in Runners, RunnerStep(r)
  PROVE  AppInv'
<1>1. StageFits' /\ RunnerShape(r)
  BY RunnerStageFits, RunnerHasShape DEF AppInv
<1>2. MainFits' /\ Loads'
  <2>1. CASE r = Main
    BY <2>1, MainStepFits
  <2>2. CASE r # Main
    BY <2>2, OtherRunnerStep DEF AppInv, MainFits, Loads, Serving, Code, transpiler_vars, loader_vars
  <2> QED BY <2>1, <2>2
<1>3. served' \in [Modules -> Codes \cup {Absent}]
  <2>1. \A m \in Modules : Code(m) \in Codes \cup {Absent}
    BY DEF Code, CompilerInv, CodeTypes
  <2>2. served' = served \/ served' = [m \in Modules |-> Code(m)]
    BY DEF RunnerStep, WatchGenerator, WatchTypes, Skip, BuildCache, StartDocument, StartTranspiler,
           Transpiled, Cached, LoadModules, LoadFails, WatchModules, Elsewhere, loader_vars
  <2> QED BY <2>1, <2>2 DEF AppInv, RunnerTypes
<1> QED BY <1>1, <1>2, <1>3 DEF AppInv, RunnerTypes, RunnerShape

LEMMA EditModuleAppInv ==
  ASSUME CompilerInv, AppInv, NEW m \in Modules, NEW code \in Codes \cup {Absent},
         UserEditsModule(m, code)
  PROVE  AppInv'
<1>1. /\ source' = [source EXCEPT ![m] = code] /\ touched' = touched \cup {m}
      /\ UNCHANGED <<output, compiler, nativeTs, options, app, stage, open, stuck, served>>
      /\ nativeTs => m \in toLoad' \/ m \in missed'
      /\ \A k : (k \in toLoad => k \in toLoad') /\ (k \in missed => k \in missed')
  BY DEF UserEditsModule, EditModule, runner_vars, loader_vars, Found
<1>2. \A k \in Modules : k # m => source'[k] = source[k] /\ Code(k)' = Code(k)
  BY <1>1 DEF Code, CompilerInv, CodeTypes
<1>3. ~nativeTs => Code(m)' = Code(m)
  BY <1>1 DEF Code
<1>4. Loads'
  BY <1>1, <1>2, <1>3 DEF AppInv, Loads, Serving
<1> QED BY <1>1, <1>4 DEF AppInv, RunnerTypes, StageFits, MainFits, Serving

LEMMA TranspilerAppInv ==
  ASSUME CompilerInv, AppInv, TranspilerStep
  PROVE  AppInv'
<1>1. /\ UNCHANGED <<nativeTs, options, stage, open, stuck, touched>>
      /\ Alive /\ (app' = app \/ app' = "crashed")
  BY DEF TranspilerStep
<1> DEFINE Kept ==
      /\ UNCHANGED <<compiler, source, served>>
      /\ \A m \in Modules : m \in missed' \/ m \in toLoad' \/ output'[m] = output[m]
      /\ \A k : (k \in toLoad => k \in toLoad') /\ (k \in missed => k \in missed')
<1>2. Kept
  <2>1. CASE \E m \in Modules : ReportModule(m) /\ UNCHANGED <<app, loader_vars>>
    BY <2>1 DEF ReportModule, loader_vars
  <2>2. ASSUME NEW j \in DOMAIN jobs, ReadModule(j), UNCHANGED loader_vars
        PROVE  Kept
    BY <2>2 DEF ReadModule, loader_vars
  <2>3. ASSUME NEW j \in DOMAIN jobs, WriteModule(j) \/ RemoveOutput(j), Found(jobs[j].module)
        PROVE  Kept
    <3>1. JobShape(j, jobs[j].module)
      BY <2>3, JobHasShape DEF JobChange, CompilerInv
    <3>2. UNCHANGED served
          /\ jobs[j].module \in toLoad' \cup missed' /\ toLoad \subseteq toLoad' /\ missed \subseteq missed'
      BY <2>3 DEF Found
    <3> QED BY <3>1, <3>2 DEF JobShape
  <2> QED BY <2>1, <2>2, <2>3 DEF TranspilerStep
<1>3. \A m \in Modules : m \in missed' \/ m \in toLoad' \/ Code(m)' = Code(m)
  BY <1>1, <1>2 DEF Code
<1>4. StageFits'
  BY <1>1 DEF StageFits, AppInv
<1>5. Serving' => Serving
  BY <1>1 DEF Serving, Alive
<1>6. Loads'
  BY <1>1, <1>2, <1>3, <1>5 DEF AppInv, Loads
<1> QED BY <1>1, <1>2, <1>4, <1>5, <1>6 DEF AppInv, RunnerTypes, MainFits

LEMMA ReloadAppInv ==
  ASSUME CompilerInv, AppInv, NEW m \in Modules, ReloadModule(m)
  PROVE  AppInv'
<1> USE MainAssumption
<1>1. /\ Alive /\ "modules" \in open[Main]
      /\ toLoad' = toLoad \ {m} /\ served' = [served EXCEPT ![m] = Code(m)]
      /\ UNCHANGED <<transpiler_vars, runner_vars, missed, touched>>
  BY DEF ReloadModule
<1>2. /\ served \in [Modules -> Codes \cup {Absent}] /\ Code(m) \in Codes \cup {Absent}
      /\ \A k \in Modules : Code(k)' = Code(k)
  BY <1>1 DEF AppInv, RunnerTypes, CompilerInv, CodeTypes, Code, transpiler_vars, runner_vars
<1>3. /\ served' \in [Modules -> Codes \cup {Absent}] /\ served'[m] = Code(m)
      /\ \A k \in Modules : k # m => served'[k] = served[k]
  BY <1>1, <1>2
<1>4. ASSUME Serving, m \notin touched PROVE Code(m) = source[m]
  BY <1>1, <1>4, UntouchedIsCompiled DEF AppInv, MainFits, Code
<1>5. Loads'
  BY <1>1, <1>2, <1>3, <1>4 DEF AppInv, Loads, Serving, transpiler_vars, runner_vars
<1> QED BY <1>1, <1>3, <1>5 DEF AppInv, RunnerTypes, StageFits, MainFits, Serving, transpiler_vars,
                                 runner_vars

LEMMA CloseAppInv ==
  ASSUME AppInv, Closes
  PROVE  AppInv'
<1>1. PICK failing : Close(failing)
  BY DEF Closes
<1>2. /\ app = "closing" /\ app' = "stopped" /\ stuck' = failing
      /\ open' = [r \in Runners |-> {w \in open[r] : <<r, w>> \in failing}]
      /\ UNCHANGED <<nativeTs, options, stage, served>>
  BY <1>1 DEF Close, loader_vars
<1> QED BY <1>2 DEF AppInv, RunnerTypes, StageFits, MainFits, Loads, Serving

\* A stage that every runner has come to an end of.
LEMMA StageOverAppInv ==
  ASSUME AppInv,
         \/ StageOver("watching", "watched", "starting")
         \/ StageOver("starting", "started", "running")
  PROVE  AppInv'
<1>1. /\ \/ app = "watching" /\ app' \in {"closing", "starting"} /\ AllSettled("watched")
         \/ app = "starting" /\ app' \in {"closing", "running"} /\ AllSettled("started")
      /\ app' = "closing" <=> \E r \in Runners : stage[r] = "rejected"
      /\ UNCHANGED <<nativeTs, options, stage, open, stuck, touched, transpiler_vars, loader_vars>>
  BY DEF StageOver, Elsewhere
<1>2. StageFits'
  BY <1>1 DEF AppInv, StageFits, AllSettled
<1>3. Serving' <=> Serving
  BY <1>1 DEF Serving
<1> QED BY <1>1, <1>2, <1>3 DEF AppInv, RunnerTypes, MainFits, Loads, Code, transpiler_vars,
                                 loader_vars

LEMMA AppStepInv ==
  ASSUME CompilerInv, AppInv, [Next]_vars
  PROVE  AppInv'
<1>1. CASE UNCHANGED vars
  BY <1>1 DEF vars, runner_vars, loader_vars, transpiler_vars, AppInv, RunnerTypes, StageFits,
              MainFits, Loads, Serving, Code
<1>2. ASSUME NEW f \in Inputs, NEW content \in Contents[f], UserEditsInput(f, content)
      PROVE  AppInv'
  BY <1>2 DEF UserEditsInput, runner_vars, loader_vars, transpiler_vars, AppInv, RunnerTypes,
              StageFits, MainFits, Loads, Serving, Code
<1>3. CASE DocumentStep
  BY <1>3 DEF DocumentStep, runner_vars, loader_vars, transpiler_vars, AppInv, RunnerTypes,
              StageFits, MainFits, Loads, Serving, Code
<1>4. CASE Created
  <2>1. /\ app = "creating" /\ app' \in {"watching", "rejected"}
        /\ UNCHANGED <<nativeTs, options, stage, open, stuck, touched, transpiler_vars, loader_vars>>
    BY <1>4 DEF Created
  <2> QED BY <2>1 DEF AppInv, RunnerTypes, StageFits, MainFits, Loads, Serving, Code,
                      transpiler_vars, loader_vars
<1>5. CASE Stop
  <2>1. /\ app = "running" /\ app' = "closing"
        /\ UNCHANGED <<nativeTs, options, stage, open, stuck, touched, transpiler_vars, loader_vars>>
    BY <1>5 DEF Stop, Elsewhere
  <2> QED BY <2>1 DEF AppInv, RunnerTypes, StageFits, MainFits, Loads, Serving, Code,
                      transpiler_vars, loader_vars
<1>6. CASE AwaitCompilers
  <2>1. /\ compiler = "scanning" /\ compiler' = "awaiting" /\ UNCHANGED <<source, output>>
        /\ UNCHANGED <<nativeTs, options, app, stage, open, stuck, touched, loader_vars>>
    BY <1>6 DEF AwaitCompilers, AwaitTranspiles, runner_vars
  <2>2. MainFits'
    BY <2>1 DEF AppInv, MainFits, Serving
  <2> QED BY <2>1, <2>2 DEF AppInv, RunnerTypes, StageFits, Loads, Serving, Code, loader_vars
<1> QED BY <1>1, <1>2, <1>3, <1>4, <1>5, <1>6, NextCases, EditModuleAppInv, TranspilerAppInv,
           ReloadAppInv, CloseAppInv, StageOverAppInv, RunnerStepAppInv

-----------------------------------------------------------------------------
LEMMA SpecIInv == Spec => []IInv
<1>1. Init => IInv
  <2>1. ASSUME Init PROVE IInv
    <3>1. InitDocument /\ InitTranspiler /\ touched = {}
      BY <2>1 DEF Init
    <3> QED BY <2>1, <3>1, InitDocumentInv, InitCompilerInv, InitAppInv DEF IInv
  <2> QED BY <2>1
<1>2. IInv /\ [Next]_vars => IInv'
  <2> SUFFICES ASSUME IInv, [Next]_vars PROVE IInv'
    OBVIOUS
  <2>1. DocumentChange /\ CompilerChange
    BY NextChanges
  <2>2. DocumentInv' /\ CompilerInv'
    BY <2>1, DocumentStepInv, CompilerStepInv DEF IInv
  <2>3. AppInv'
    BY AppStepInv DEF IInv
  <2> QED BY <2>2, <2>3 DEF IInv
<1> QED BY <1>1, <1>2, PTL DEF Spec

(***************************************************************************)
(* Once the configured local files have come to rest without an error, the *)
(* document is theirs, however many loads of it overlapped and failed, if  *)
(* none finished after one that began later (openapi-document.ts).         *)
(***************************************************************************)
THEOREM DocumentIsCurrent == Spec => []DocumentCurrent
<1>1. IInv => DocumentCurrent
  BY QuietIsCurrent DEF IInv
<1> QED BY <1>1, SpecIInv, PTL

(***************************************************************************)
(* When the compiler and the loader have come to rest, Main serves what    *)
(* users saved, but for files whose jobs overlapped and files that changed *)
(* between load() and watch() (api-runner.ts, transpiler.ts).              *)
(***************************************************************************)
THEOREM SavedCodeIsServed == Spec => []SavedCodeServed
<1>1. IInv => SavedCodeServed
  <2> SUFFICES ASSUME IInv, Settled, NEW m \in Modules, m \notin overlapped, m \notin missed
               PROVE  served[m] = source[m]
    BY DEF SavedCodeServed
  <2>1. stage[Main] = "started" /\ Serving
    BY MainAssumption DEF Settled, IInv, AppInv, StageFits, Serving
  <2>2. served[m] = Code(m)
    BY <2>1 DEF Settled, IInv, AppInv, Loads
  <2>3. CASE nativeTs
    BY <2>2, <2>3 DEF Code
  <2>4. CASE ~nativeTs
    <3>1. compiler = "open" /\ Compiles(m)
      BY <2>1, <2>4 DEF IInv, AppInv, MainFits, CompilerInv, Watches
    <3>2. \A j \in JobsOf(m) : ~Busy(j)
      BY DEF Settled, JobsOf, IInv, CompilerInv, CodeTypes
    <3>3. output[m] = source[m]
      BY <3>1, <3>2 DEF Compiles, Settled
    <3> QED BY <2>2, <2>4, <3>3 DEF Code
  <2> QED BY <2>3, <2>4
<1> QED BY <1>1, SpecIInv, PTL

(***************************************************************************)
(* When start() is over, Main serves every module that was there before it *)
(* and that nobody has edited: watch() of the transpiler waits for the     *)
(* compilations that load() needs.                                         *)
(***************************************************************************)
THEOREM StartServesEverything == Spec => []UntouchedServed
<1>1. IInv => UntouchedServed
  BY MainAssumption DEF IInv, AppInv, StageFits, Loads, Serving, UntouchedServed
<1> QED BY <1>1, SpecIInv, PTL

(***************************************************************************)
(* A start that failed, and stop(), leave no watcher open but those whose  *)
(* close() failed, and no runner on its way to open one (app.ts).          *)
(***************************************************************************)
THEOREM NothingStaysOpen == Spec => []NothingLeftOpen
<1>1. IInv => NothingLeftOpen
  BY DEF IInv, AppInv, StageFits, NothingLeftOpen
<1> QED BY <1>1, SpecIInv, PTL
=============================================================================
