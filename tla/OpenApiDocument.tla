-------------------------- MODULE OpenApiDocument --------------------------
(***************************************************************************)
(* openapi-document.ts and openapi-source.ts: the document of one runner,  *)
(* which is loaded from a source, the files that it refers to, and a chain *)
(* of overlays, and loaded again when a watched input changes.  A load     *)
(* reads one input after the other, as its awaits do, and several loads    *)
(* may be under way.                                                       *)
(*                                                                         *)
(* A content is Broken when it cannot be read or parsed, or is not an      *)
(* overlay where one is expected.  What a complete chain of contents       *)
(* amounts to is a matter of module Overlay.                               *)
(***************************************************************************)
EXTENDS Naturals, Sequences

CONSTANTS
    Source, Overlays,   \* the inputs that are configured
    References,         \* the files that the source refers to
    Remote,             \* the inputs that are URLs
    Contents,           \* input |-> the contents that it may have
    Broken

VARIABLES
    inputs,         \* input |-> the content that is there now
    loads,          \* the loads so far, in the order in which they began
    published,      \* the load whose result was assigned last, 0 for none
    watcher,        \* "none", "open" or "closed"
    unreported,     \* the inputs with a change that the watcher will report
    unnoticed       \* history: the inputs that changed while no watcher was open, or
                    \* that are not configured or not local, and not read since
                    \* by the load that began last

document_vars == <<inputs, loads, published, watcher, unreported, unnoticed>>

\* The inputs in the order in which a load reads them.
Reads == <<Source>> \o References \o Overlays
Inputs == {Reads[i] : i \in DOMAIN Reads}
Configured == {Source} \cup {Overlays[i] : i \in DOMAIN Overlays}

ASSUME InputsAssumption == /\ Overlays \in Seq(STRING) /\ References \in Seq(STRING)
                           /\ DOMAIN Contents = Inputs

\* Fault: the overlays are forgotten.
LocalSource == {Source} \ Remote

\* getLocalOpenApiSourcePaths()
WatchablePaths == Configured \ Remote

NewLoad == [read |-> <<>>, stage |-> "reading"]

InitDocument ==
    /\ inputs \in {i \in [Inputs -> UNION {Contents[f] : f \in Inputs}] :
                      \A f \in Inputs : i[f] \in Contents[f]}
    /\ loads = <<NewLoad>>
    /\ published = 0
    /\ watcher = "none"
    /\ unreported = {}
    /\ unnoticed = {}

EditInput(f, content) ==
    /\ inputs[f] # content
    /\ inputs' = [inputs EXCEPT ![f] = content]
    /\ unreported' = IF watcher = "open" /\ f \in WatchablePaths
                     THEN unreported \cup {f} ELSE unreported
    /\ unnoticed' = IF watcher = "open" /\ f \in Configured \ Remote
                    THEN unnoticed ELSE unnoticed \cup {f}
    /\ UNCHANGED <<loads, published, watcher>>

\* An await of a load, and its end: the four fields of the document are assigned
\* together once everything was read, and never if it fails.
ReadInput(i) ==
    LET content == inputs[Reads[Len(loads[i].read) + 1]]
        read == Append(loads[i].read, content)
        done == Len(read) = Len(Reads)
    IN /\ loads[i].stage = "reading"
       /\ IF content \in Broken
          THEN /\ loads' = [loads EXCEPT ![i].stage = "failed"]
               /\ UNCHANGED <<published, unnoticed>>
          ELSE /\ loads' = [loads EXCEPT ![i] =
                    [read |-> read, stage |-> IF done THEN "loaded" ELSE "reading"]]
               /\ published' = IF done THEN i ELSE published
               /\ unnoticed' = IF done /\ i = Len(loads) THEN {f \in unnoticed :
                                  \E n \in DOMAIN Reads : Reads[n] = f /\ read[n] # inputs[f]}
                               ELSE unnoticed
       /\ UNCHANGED <<inputs, watcher, unreported>>

\* watch(); without a local input there is nothing to be watched.
WatchDocument ==
    /\ watcher = "none"
    /\ watcher' = IF WatchablePaths = {} THEN "none" ELSE "open"
    /\ UNCHANGED <<inputs, loads, published, unreported, unnoticed>>

\* The watcher reports a change, and a load begins whatever others do.
ReportInput(f) ==
    /\ watcher = "open" /\ f \in unreported
    /\ unreported' = unreported \ {f}
    /\ loads' = Append(loads, NewLoad)
    /\ UNCHANGED <<inputs, published, watcher, unnoticed>>

CloseDocument ==
    /\ watcher' = IF watcher = "none" THEN "none" ELSE "closed"
    /\ unnoticed' = unnoticed \cup unreported
    /\ unreported' = {}
    /\ UNCHANGED <<inputs, loads, published>>

Document == loads[published].read

-----------------------------------------------------------------------------
Quiet == unreported = {} /\ \A i \in DOMAIN loads : loads[i].stage # "reading"

OnDisk == [n \in DOMAIN Reads |-> inputs[Reads[n]]]

Overtaken == \E i \in DOMAIN loads : i > published /\ loads[i].stage = "loaded"

\* Once the watched inputs have come to rest with no error in them, the document
\* that is served is theirs, through any number of overlapping loads and errors,
\* unless a load finished after a load that began later (openapi-document.ts).
DocumentCurrent ==
    published # 0 /\ Quiet /\ unnoticed = {} /\ ~ Overtaken
        /\ (\A f \in Inputs : inputs[f] \notin Broken)
        => Document = OnDisk

\* "Counterfact watches every local file that contributes to the OpenAPI
\* document": once watched inputs have come to rest, what is served is what the
\* local files hold (docs/faq.md).
LocalFilesServed ==
    published # 0 /\ Quiet /\ unnoticed \cap Configured = {} /\ ~ Overtaken
        /\ (\A f \in Inputs : inputs[f] \notin Broken)
        => \A n \in DOMAIN Reads : Reads[n] \notin Remote => Document[n] = inputs[Reads[n]]
=============================================================================
