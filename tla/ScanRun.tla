------------------------------- MODULE ScanRun -------------------------------
(***************************************************************************)
(* The scan command of cli.py and the ways it can end: it returns, an      *)
(* exception sends it to _scan_failure (from _scan itself or from main),   *)
(* the cross-file scan gives up with SystemExit(1), SIGTERM or SIGINT runs *)
(* the handler _install_partial_flush arms, or the process is killed.  All *)
(* three of its reports (complete, incomplete, partial) are written with   *)
(* sarif_exporter.atomic_write_text, to the same temporary name.           *)
(*                                                                         *)
(* A handler runs on top of whatever the main thread was doing, so the     *)
(* activations are a stack, and each of its frames may be inside           *)
(* atomic_write_text with text Python has buffered and not yet written.    *)
(* The handler always ends in SystemExit, which unwinds the whole stack    *)
(* and closes the files on the way: that flushes their buffers.            *)
(***************************************************************************)
EXTENDS Integers, FiniteSets, Sequences, SequencesExt

CONSTANTS Ast, Aux, Cross,   \* findings of the tracker, of the other auditors, of the cross scan
          Sanitized,         \* what _suppress_cross_file_sanitized drops
          Filters,           \* sets --lines, .tcs.yaml, suppressions, --diff may drop
          Urgent,            \* CRITICAL and HIGH findings
          MaxResults,        \* GH_MAX_SHOWN_RESULTS
          MaxSignals,        \* bound: signals that may arrive
          MaxFaults          \* bound: exceptions that may be raised

ASSUME BoundsAssumption == MaxSignals \in Nat /\ MaxFaults \in Nat /\ MaxResults \in Nat \ {0}

VARIABLES frames,      \* activations, the main one first
          edges,       \* tracker.edges: what analyze() has found
          staged,      \* _PARTIAL["findings"]
          written,     \* _PARTIAL["written"]
          want,        \* the options: --format json, --sarif, what is filtered
          stdout,      \* JSON documents printed
          node,        \* contents of the inodes
          used,        \* inodes allocated
          tmp,         \* what the name <sarif>.tmp refers to
          target,      \* what the name <sarif> refers to
          status,      \* how the process ended
          signals, faults,
          reentered    \* history: a signal came between a write and its flush

disk == <<node, used, tmp, target>>
vars == <<frames, edges, staged, written, want, stdout, node, used, tmp, target,
          status, signals, faults, reentered>>

Findings == Ast \cup Aux \cup Cross

(* A report is made from the findings in found and lists those in shown.    *)
Docs == [kind: {"complete", "incomplete", "partial", "old"},
         found: SUBSET Findings, shown: SUBSET Findings]
Document(kind, found) == [kind |-> kind, found |-> found, shown |-> found]

(* bound_sarif_document: at most MaxResults, then as many as the byte       *)
(* budget, whose text is not modelled, lets through; the urgent ones first. *)
Bounded(found) ==
    {shown \in SUBSET found :
        /\ Cardinality(shown) <= MaxResults
        /\ found # {} => shown # {}
        /\ shown \subseteq Urgent \/ found \cap Urgent \subseteq shown}
SarifDocs == {d \in Docs : d.shown \in Bounded(d.found)}
OldReport == Document("old", {})
Fallback == Document("incomplete", {})
Blank == Document("blank", {})
None == 0
Options == [json: BOOLEAN, sarif: BOOLEAN, drop: Filters]

(* A file is a first block and, for a document with findings, a second.     *)
Contents == [body: SarifDocs \cup {Blank}, rest: SarifDocs \cup {Blank}]
Empty == [body |-> Blank, rest |-> Blank]
Overwrite(c, d) == [body |-> d, rest |-> IF d.shown = {} THEN c.rest ELSE d]
Holds(d) == Overwrite(Empty, d)
Whole(c) == c.body # Blank /\ c = Holds(c.body)

Steps == {"engine", "cross", "filter", "enter", "collect",
          "print", "build", "open", "write", "flush", "replace", "return"}
Stages == {"engine", "cross", "filter"}        \* inside _scan's try
Writing == {"write", "flush", "replace"}       \* atomic_write_text has opened the file
Saving == {"build", "open"} \cup Writing       \* inside the try around the SARIF file

(* "inner" is the _scan_failure that _scan calls, "failure" the one main()  *)
(* calls.                                                                   *)
Frame == {f \in [role: {"scan", "inner", "failure", "handler"}, step: Steps, doc: Docs,
                 node: Nat, pending: BOOLEAN] :
            /\ f.step \in {"open"} \cup Writing => f.doc \in SarifDocs
            /\ f.pending => f.step = "flush"}
NewFrame(role, step, doc) ==
    [role |-> role, step |-> step, doc |-> doc, node |-> None, pending |-> FALSE]

Top == Last(frames)
AtStep(s) == frames # <<>> /\ Top.step = s
Running == status = "running"
Advance(s) == frames' = [frames EXCEPT ![Len(frames)].step = s]

(* The complete report.                                                     *)
Merged == Ast \cup Aux
Final == ((Merged \ Sanitized) \cup Cross) \ want.drop

TypeOK ==
    /\ frames \in Seq(Frame)
    /\ edges \subseteq Ast /\ staged \subseteq Findings
    /\ {written, reentered} \subseteq BOOLEAN
    /\ want \in Options
    /\ stdout \in Seq(Docs)
    /\ node \in [1..used -> Contents]
    /\ used \in Nat /\ {tmp, target} \subseteq 0..used
    /\ status \in {"running", "clean", "found", "fatal", "crash", "error", "signalled", "killed"}
    /\ signals \in 0..MaxSignals /\ faults \in 0..MaxFaults
    /\ Running <=> frames # <<>>

Init ==
    /\ frames = <<NewFrame("scan", "engine", Fallback)>>
    /\ edges = {} /\ staged = {} /\ written = FALSE
    /\ want \in Options
    /\ stdout = <<>>
    /\ used \in {0, 1}
    /\ node = [n \in 1..used |-> Holds(OldReport)]
    /\ tmp = None /\ target = used
    /\ status = "running"
    /\ signals = 0 /\ faults = 0 /\ reentered = FALSE

-----------------------------------------------------------------------------
(* The engine stages, with what each leaves for the handler to report.      *)

Analyze ==
    /\ AtStep("engine")
    /\ \E f \in Ast \ edges : edges' = edges \cup {f}
    /\ UNCHANGED <<frames, staged, written, want, stdout, disk, status, signals, faults, reentered>>

Merge ==
    /\ AtStep("engine") /\ edges = Ast
    /\ staged' = Merged
    /\ Advance("cross")
    /\ UNCHANGED <<edges, written, want, stdout, disk, status, signals, faults, reentered>>

CrossScan ==
    /\ AtStep("cross")
    /\ staged' = (staged \ Sanitized) \cup Cross
    /\ Advance("filter")
    /\ UNCHANGED <<edges, written, want, stdout, disk, status, signals, faults, reentered>>

Filter ==
    /\ AtStep("filter")
    /\ staged' = staged \ want.drop
    /\ frames' = [frames EXCEPT ![Len(frames)] =
                    NewFrame("scan", "print", Document("complete", staged'))]
    /\ UNCHANGED <<edges, written, want, stdout, disk, status, signals, faults, reentered>>

-----------------------------------------------------------------------------
(* What every report goes through: stdout first, then atomic_write_text.    *)

PrintReport ==
    /\ AtStep("print")
    /\ stdout' = IF want.json THEN Append(stdout, Top.doc) ELSE stdout
    /\ Advance("build")
    /\ UNCHANGED <<edges, staged, written, want, disk, status, signals, faults, reentered>>

BuildSarif ==
    /\ AtStep("build")
    /\ \/ /\ want.sarif
          /\ \E shown \in Bounded(Top.doc.found) :
                frames' = [frames EXCEPT ![Len(frames)].doc.shown = shown,
                                         ![Len(frames)].step = "open"]
       \/ ~want.sarif /\ Advance("return")
    /\ UNCHANGED <<edges, staged, written, want, stdout, disk, status, signals, faults, reentered>>

(* open(tmp, "w") truncates the file of that name, whoever else has it open. *)
OpenTemp ==
    /\ AtStep("open")
    /\ LET n == IF tmp = None THEN used + 1 ELSE tmp IN
       /\ used' = IF tmp = None THEN n ELSE used
       /\ node' = [m \in 1..used' |-> IF m = n THEN Empty ELSE node[m]]
       /\ tmp' = n
       /\ frames' = [frames EXCEPT ![Len(frames)].node = n, ![Len(frames)].step = "write"]
    /\ UNCHANGED <<edges, staged, written, want, stdout, target, status, signals, faults, reentered>>

(* Mutant: the rename does not wait for the flush.                           *)
WriteUnflushed ==
    /\ AtStep("write")
    /\ \E buffered \in BOOLEAN :
       /\ node' = IF buffered THEN node
                  ELSE [node EXCEPT ![Top.node] = Overwrite(@, Top.doc)]
       /\ frames' = [frames EXCEPT ![Len(frames)].pending = buffered,
                                   ![Len(frames)].step = "replace"]
    /\ UNCHANGED <<edges, staged, written, want, stdout, used, tmp, target,
                   status, signals, faults, reentered>>

(* A long text goes through to the file, a short one stays in the buffer.   *)
WriteText ==
    /\ AtStep("write")
    /\ \E buffered \in BOOLEAN :
       /\ node' = IF buffered THEN node
                  ELSE [node EXCEPT ![Top.node] = Overwrite(@, Top.doc)]
       /\ frames' = [frames EXCEPT ![Len(frames)].pending = buffered,
                                   ![Len(frames)].step = "flush"]
    /\ UNCHANGED <<edges, staged, written, want, stdout, used, tmp, target,
                   status, signals, faults, reentered>>

FlushText ==
    /\ AtStep("flush")
    /\ node' = IF Top.pending THEN [node EXCEPT ![Top.node] = Overwrite(@, Top.doc)] ELSE node
    /\ frames' = [frames EXCEPT ![Len(frames)].pending = FALSE, ![Len(frames)].step = "replace"]
    /\ UNCHANGED <<edges, staged, written, want, stdout, used, tmp, target,
                   status, signals, faults, reentered>>

ReplaceTarget ==
    /\ AtStep("replace") /\ tmp # None
    /\ target' = tmp /\ tmp' = None
    /\ Advance("return")
    /\ UNCHANGED <<edges, staged, written, want, stdout, node, used, status, signals, faults, reentered>>

-----------------------------------------------------------------------------
(* Leaving every frame: open files are closed, innermost first, and an      *)
(* unfinished atomic_write_text removes the temporary name.                 *)

Drained(n) ==
    LET late == {i \in DOMAIN frames : frames[i].pending /\ frames[i].node = n}
        long == {i \in late : frames[i].doc.shown # {}}
        Outermost(S) == frames[CHOOSE i \in S : \A j \in S : i <= j].doc
    IN  [body |-> IF late = {} THEN node[n].body ELSE Outermost(late),
         rest |-> IF long = {} THEN node[n].rest ELSE Outermost(long)]

Unwind ==
    /\ node' = [n \in 1..used |-> Drained(n)]
    /\ tmp' = IF \E i \in DOMAIN frames : frames[i].step \in Writing THEN None ELSE tmp
    /\ UNCHANGED <<used, target>>

(* Mutant: the stack is unwound but the process goes on.                     *)
ExitIgnored(s) == Unwind /\ frames' = <<>> /\ status' = IF s = "signalled" THEN status ELSE s

Exit(s) == Unwind /\ frames' = <<>> /\ status' = s

(* The process ends with 0 (clean), 1 (found: something that blocks, which  *)
(* --fail-on-critical narrows; fatal and crash: see below), 2 (error) or    *)
(* 128 + signum.                                                            *)
Blocking(found) == IF found = {} THEN {"clean"} ELSE {"clean", "found"}

Return ==
    /\ AtStep("return")
    /\ \E s \in CASE Top.role = "scan" -> Blocking(staged)
                   [] Top.role = "handler" -> {"signalled"}
                   [] OTHER -> {"error"} : Exit(s)
    /\ UNCHANGED <<edges, staged, written, want, stdout, signals, faults, reentered>>

-----------------------------------------------------------------------------
(* The handler.                                                             *)

Signal ==
    /\ Running /\ signals < MaxSignals
    /\ signals' = signals + 1
    /\ reentered' = (reentered \/ Top.pending)
    /\ frames' = Append(frames, NewFrame("handler", "enter", Fallback))
    /\ UNCHANGED <<edges, staged, written, want, stdout, disk, status, faults>>

(* Mutant: nothing is flushed when nothing was found.                        *)
EnterFlushIfAny ==
    /\ AtStep("enter") /\ ~written
    /\ written' = TRUE
    /\ Advance(IF edges = {} /\ staged = {} THEN "return" ELSE "collect")
    /\ UNCHANGED <<edges, staged, want, stdout, disk, status, signals, faults, reentered>>

(* _flush_partial: the flag is set before anything is written.              *)
EnterFlush ==
    /\ AtStep("enter") /\ ~written
    /\ written' = TRUE
    /\ Advance("collect")
    /\ UNCHANGED <<edges, staged, want, stdout, disk, status, signals, faults, reentered>>

AlreadyFlushed ==
    /\ AtStep("enter") /\ written
    /\ Exit("signalled")
    /\ UNCHANGED <<edges, staged, written, want, stdout, signals, faults, reentered>>

(* Mutant: the tracker index is not consulted.                               *)
StagedFindings == staged

(* Stage list first, live tracker index second.                             *)
PartialFindings == IF staged # {} THEN staged ELSE edges

CollectAs(found) ==
    frames' = [frames EXCEPT ![Len(frames)].doc = Document("partial", found),
                             ![Len(frames)].step = "print"]

Collect ==
    /\ AtStep("collect")
    /\ CollectAs(PartialFindings)
    /\ UNCHANGED <<edges, staged, written, want, stdout, disk, status, signals, faults, reentered>>

-----------------------------------------------------------------------------
(* Exceptions.  What is raised on top of the stack goes down it to the      *)
(* first clause that catches it.  A handler below the top one has not set   *)
(* the flag yet and catches nothing.                                        *)

Fault == Running /\ faults < MaxFaults /\ faults' = faults + 1

(* Where something is raised that the top frame does not catch itself.      *)
Escapes ==
    /\ Fault
    /\ Top.step \in Stages \cup {"print", "build", "return"}
    /\ Top.step = "build" => want.sarif
    /\ Top.step = "return" => Top.role = "scan"

(* _scan_failure takes over in the given role.                              *)
Handled(role) == Unwind /\ frames' = <<NewFrame(role, "print", Fallback)>>

(* The index is half built: an empty partial report instead.                *)
IndexUnreadable ==
    /\ Fault /\ AtStep("collect") /\ staged = {}
    /\ CollectAs({})
    /\ UNCHANGED <<edges, staged, written, want, stdout, disk, status, signals, reentered>>

(* _scan's own except: an OSError or ValueError of the analysis.            *)
StageRaises ==
    /\ Escapes
    /\ frames[1].role = "scan" /\ frames[1].step \in Stages
    /\ Handled("inner")
    /\ UNCHANGED <<edges, staged, written, want, stdout, status, signals, reentered>>

(* main's except: any other exception of _scan, and one of the              *)
(* _scan_failure that _scan called.                                         *)
ScanRaises ==
    /\ Escapes
    /\ frames[1].role \in {"scan", "inner"}
    /\ Handled("failure")
    /\ UNCHANGED <<edges, staged, written, want, stdout, status, signals, reentered>>

(* The same while main's _scan_failure runs: nothing catches it.            *)
FailureRaises ==
    /\ Escapes
    /\ frames[1].role = "failure"
    /\ Exit("crash")
    /\ UNCHANGED <<edges, staged, written, want, stdout, signals, reentered>>

(* _run_cross_scan and _suppress_cross_file_sanitized turn any exception    *)
(* into SystemExit(1), which no except Exception catches.                   *)
CrossFails ==
    /\ Escapes
    /\ frames[1].role = "scan" /\ frames[1].step = "cross"
    /\ Exit("fatal")
    /\ UNCHANGED <<edges, staged, written, want, stdout, signals, reentered>>

(* The analysis catches what it takes for a fault of its own (a worker that *)
(* died, a file that does not parse): an exception of the handler it was    *)
(* interrupted by ends there, and the scan goes on.                         *)
FlushSwallowed ==
    /\ Escapes
    /\ Top.role = "handler"
    /\ frames[1].role = "scan" /\ frames[1].step \in Stages
    /\ frames' = <<frames[1]>>
    /\ UNCHANGED <<edges, staged, written, want, stdout, disk, status, signals, reentered>>

(* An OSError in the try around the SARIF file: the report is given up.     *)
(* The handler's own print may raise it inside that try too.                *)
WriteFails ==
    /\ Fault
    /\ \/ Top.step \in Saving /\ (Top.step = "build" => want.sarif)
       \/ /\ Top.role = "handler" /\ Top.step = "print"
          /\ frames[1].step \in Saving /\ want.sarif
    /\ Exit(IF Top.role = "handler" /\ Top.step \in Saving THEN "signalled" ELSE "error")
    /\ UNCHANGED <<edges, staged, written, want, stdout, signals, reentered>>

(* SIGKILL, or the machine: nothing is unwound and no buffer is flushed.    *)
Kill ==
    /\ Running
    /\ frames' = <<>> /\ status' = "killed"
    /\ UNCHANGED <<edges, staged, written, want, stdout, disk, signals, faults, reentered>>

Next ==
    \/ Analyze \/ Merge \/ CrossScan \/ Filter
    \/ PrintReport \/ BuildSarif \/ OpenTemp \/ WriteText \/ FlushText \/ ReplaceTarget
    \/ Return
    \/ Signal \/ EnterFlush \/ AlreadyFlushed \/ Collect
    \/ IndexUnreadable \/ StageRaises \/ ScanRaises \/ FailureRaises \/ CrossFails
    \/ FlushSwallowed \/ WriteFails
    \/ Kill

Spec == Init /\ [][Next]_vars

-----------------------------------------------------------------------------
(* atomic_write_text promises that a kill mid-write never leaves a          *)
(* half-written artefact.  The report under its own name is always one      *)
(* whole document, unless a handler reused the temporary name of a write it *)
(* had interrupted, whose buffer is then flushed over the published report. *)
TornOnlyByReentry == target # None => Whole(node[target]) \/ reentered

(* What the exit status says of the reports.  When _scan returned 0 or 1:   *)
(* the complete JSON document is the last one printed (the only one, unless *)
(* the analysis swallowed the exception of a handler that had printed), and *)
(* the complete SARIF file, as far as the upload limits let it be, is in    *)
(* place with no temporary left; 1 only if something was found.  128 +      *)
(* signum after a single signal and no exception: every report asked for    *)
(* was replaced by one of this run.  2 after a single exception: stdout     *)
(* still carries a document.  The exit code 1 of a failed cross-file scan   *)
(* or of an exception nothing caught promises none of this.                 *)
FromThisRun(d) == d # Blank /\ d.kind \in {"complete", "partial"}

CompleteSarif(c) ==
    /\ Whole(c) /\ c.body.kind = "complete"
    /\ c.body.found = Final /\ c.body.shown \in Bounded(Final)

StatusIsHonest ==
    /\ status \in {"clean", "found"} =>
         /\ want.json => /\ stdout # <<>> /\ Last(stdout) = Document("complete", Final)
                         /\ signals = 0 \/ faults = 0 => Len(stdout) = 1
         /\ want.sarif => target # None /\ tmp = None /\ CompleteSarif(node[target])
    /\ status = "found" => Final # {}
    /\ status = "signalled" /\ signals = 1 /\ faults = 0 =>
         /\ want.json => stdout # <<>>
         /\ want.sarif => target # None /\ FromThisRun(node[target].body)
    /\ status = "error" /\ faults = 1 /\ want.json => stdout # <<>>

(* A kill part-way must keep everything found so far: a partial report is   *)
(* made from every sink found that the complete report would have had, and  *)
(* one that is about to replace a complete report from everything that      *)
(* report was made from; the SARIF file lists of it what the upload limits  *)
(* let through, the urgent ones first.                                      *)
KeepsFindings(d) ==
    d.kind = "partial" /\ faults = 0 =>
        /\ edges \ (Sanitized \cup want.drop) \subseteq d.found
        /\ target # None /\ node[target].body.kind = "complete" =>
              node[target].body.found \subseteq d.found

PartialKeepsFindings ==
    /\ \A i \in DOMAIN frames : KeepsFindings(frames[i].doc)
    /\ \A i \in DOMAIN stdout : KeepsFindings(stdout[i])
    /\ target # None => /\ KeepsFindings(node[target].body)
                        /\ node[target].body.kind = "partial" =>
                              node[target].body.shown \in Bounded(node[target].body.found)
=============================================================================
