----------------------------- MODULE Remediation -----------------------------
(***************************************************************************)
(* remediate_project (remediation/orchestrator.py): a run groups the       *)
(* findings by file, patches each file finding by finding, verifies the    *)
(* result, and writes it back: stale check, sibling temporary file,        *)
(* os.replace.  People edit the files meanwhile, and two runs may be at    *)
(* work on one project; the temporary name depends on the file alone.      *)
(*                                                                         *)
(* A text is abstracted to the edit it stems from and whether its flaws    *)
(* have been fixed; an analysed text that is fixed has no findings.        *)
(***************************************************************************)
EXTENDS Naturals, FiniteSets

CONSTANTS Runs, Files,
          Flaws,        \* findings in each unfixed file
          None,
          MaxEdits,     \* bound: edits by people, in each file
          MaxStarts     \* bound: runs started

ASSUME FlawsAssumption == Flaws \in [Files -> Nat \ {0}]
ASSUME BoundAssumption == MaxEdits \in Nat /\ MaxStarts \in Nat

VARIABLES disk,         \* each file: its text and the run that wrote it
          tmp,          \* what f.tcs_tmp holds
          edits,        \* edits made to each file
          run,          \* the runs
          starts,       \* runs started
          raced,        \* history: files edited between a check and its replacement
          overlapped    \* history: files two runs were replacing at once

vars == <<disk, tmp, edits, run, starts, raced, overlapped>>

Text(edit, fixed) == [edit |-> edit, fixed |-> fixed]
Torn == Text(MaxEdits + 1, FALSE)
Texts == [edit: 0..MaxEdits, fixed: BOOLEAN] \cup {Torn}
Copy(text, by) == [text |-> text, by |-> by]
Copies == [text: Texts, by: Runs \cup {None}]

ASSUME NoneAssumption == None \notin Files \cup Runs \cup Texts \cup Copies

(* A run: the texts it analysed, the files with findings it has not come    *)
(* to, the one it is at, the findings of each file it patched, the lists it *)
(* reports, and "same", files its patches left unchanged.  "fd" is where    *)
(* the temporary file it has open is now, if it has not been removed.       *)
Steps == {"off", "next", "patch", "gate", "locate", "check", "open", "write", "replace", "done"}
Replacing == {"open", "write", "replace"}
Run == [step: Steps, write: BOOLEAN, orig: [Files -> Texts \cup {None}], eligible: SUBSET Files,
        todo: SUBSET Files, at: Files \cup {None}, fd: {"none", "tmp", "disk"},
        fixes: [Files -> Nat], written: SUBSET Files, stale: SUBSET Files,
        unwritten: SUBSET Files, same: SUBSET Files]
NoRun == [step |-> "off", write |-> FALSE, orig |-> [f \in Files |-> None], eligible |-> {},
          todo |-> {}, at |-> None, fd |-> "none",
          fixes |-> [f \in Files |-> 0], written |-> {}, stale |-> {},
          unwritten |-> {}, same |-> {}]

TypeOK ==
    /\ disk \in [Files -> Copies]
    /\ tmp \in [Files -> Copies \cup {None}]
    /\ edits \in [Files -> 0..MaxEdits]
    /\ run \in [Runs -> Run]
    /\ starts \in 0..MaxStarts
    /\ raced \subseteq Files /\ overlapped \subseteq Files

Init ==
    /\ disk = [f \in Files |-> Copy(Text(0, FALSE), None)]
    /\ tmp = [f \in Files |-> None]
    /\ edits = [f \in Files |-> 0]
    /\ run = [r \in Runs |-> NoRun]
    /\ starts = 0 /\ raced = {} /\ overlapped = {}

At(r, step) == run[r].step = step
Goes(r, step) == run' = [run EXCEPT ![r].step = step]

(* The file is left for the next one: reported in a list, or in none.       *)
Leaves(r) == [run[r] EXCEPT !.step = "next", !.at = None, !.fd = "none"]
GivesUp(r) == run' = [run EXCEPT ![r] = [Leaves(r) EXCEPT !.unwritten = @ \cup {run[r].at}]]

-----------------------------------------------------------------------------
(* Patching.                                                                *)

(* The project was read and analysed, some time ago; a text that does not   *)
(* parse or is fixed has no findings.  A finding may be in a file whose     *)
(* content the caller does not pass.                                        *)
Flawed(f) == disk[f].text # Torn /\ ~disk[f].text.fixed

Start(r) ==
    /\ At(r, "off")
    /\ starts < MaxStarts /\ starts' = starts + 1
    /\ \E known \in SUBSET Files, write \in BOOLEAN :
       run' = [run EXCEPT ![r] = [NoRun EXCEPT
           !.step = "next", !.write = write,
           !.orig = [f \in Files |-> IF f \in known THEN disk[f].text ELSE None],
           !.eligible = {f \in known : Flawed(f)}, !.todo = {f \in Files : Flawed(f)}]]
    /\ UNCHANGED <<disk, tmp, edits, raced, overlapped>>

Unknown(r) ==
    /\ At(r, "next")
    /\ \E f \in run[r].todo :
       run[r].orig[f] = None /\ run' = [run EXCEPT ![r].todo = @ \ {f}]
    /\ UNCHANGED <<disk, tmp, edits, starts, raced, overlapped>>

NextFile(r) ==
    /\ At(r, "next")
    /\ \E f \in run[r].todo :
       /\ run[r].orig[f] # None
       /\ run' = [run EXCEPT ![r].todo = @ \ {f}, ![r].at = f, ![r].step = "patch"]
    /\ UNCHANGED <<disk, tmp, edits, starts, raced, overlapped>>

(* Bottom-up, each patch verified against the project; the first one that   *)
(* does not succeed ends the file.                                          *)
PatchSucceeds(r) ==
    /\ At(r, "patch") /\ run[r].fixes[run[r].at] < Flaws[run[r].at]
    /\ run' = [run EXCEPT ![r].fixes[run[r].at] = @ + 1]
    /\ UNCHANGED <<disk, tmp, edits, starts, raced, overlapped>>

PatchFails(r) ==
    /\ At(r, "patch") /\ run[r].fixes[run[r].at] < Flaws[run[r].at]
    /\ IF run[r].write THEN GivesUp(r) ELSE run' = [run EXCEPT ![r] = Leaves(r)]
    /\ UNCHANGED <<disk, tmp, edits, starts, raced, overlapped>>

Patched(r) ==
    /\ At(r, "patch") /\ run[r].fixes[run[r].at] = Flaws[run[r].at]
    /\ \/ Goes(r, "gate")
       \/ run' = [run EXCEPT ![r] = [Leaves(r) EXCEPT !.same = @ \cup {run[r].at}]]
    /\ UNCHANGED <<disk, tmp, edits, starts, raced, overlapped>>

(* roundtrip_validate: a flaw in the patched file fails all its patches.    *)
RoundtripFails(r) ==
    /\ At(r, "gate")
    /\ LET f == run[r].at
           left == [Leaves(r) EXCEPT !.fixes[f] = 0]
       IN  run' = [run EXCEPT ![r] =
                     IF run[r].write THEN [left EXCEPT !.unwritten = @ \cup {f}] ELSE left]
    /\ UNCHANGED <<disk, tmp, edits, starts, raced, overlapped>>

RoundtripPasses(r) ==
    /\ At(r, "gate")
    /\ IF run[r].write THEN Goes(r, "locate") ELSE run' = [run EXCEPT ![r] = Leaves(r)]
    /\ UNCHANGED <<disk, tmp, edits, starts, raced, overlapped>>

-----------------------------------------------------------------------------
(* Writing.                                                                 *)

(* Missing, a symlink, not to be stat'ed, hard-linked or read-only.         *)
Guarded(r) ==
    /\ At(r, "locate")
    /\ GivesUp(r)
    /\ UNCHANGED <<disk, tmp, edits, starts, raced, overlapped>>

Located(r) ==
    /\ At(r, "locate")
    /\ Goes(r, "check")
    /\ UNCHANGED <<disk, tmp, edits, starts, raced, overlapped>>

IsStale(r) == disk[run[r].at].text # run[r].orig[run[r].at]

(* A file that cannot be read counts as stale too.                          *)
Stale(r) ==
    /\ At(r, "check")
    /\ LET f == run[r].at IN
       run' = [run EXCEPT ![r] = [Leaves(r) EXCEPT !.stale = @ \cup {f}, !.unwritten = @ \cup {f}]]
    /\ UNCHANGED <<disk, tmp, edits, starts, raced, overlapped>>

Others(r, f) == {s \in Runs \ {r} : run[s].at = f /\ run[s].step \in Replacing}

(* Mutant: the text on disk is not compared.                                 *)
FreshAlways(r) ==
    /\ At(r, "check")
    /\ Goes(r, "open")
    /\ overlapped' = overlapped \cup {f \in {run[r].at} : Others(r, f) # {}}
    /\ UNCHANGED <<disk, tmp, edits, starts, raced>>

Fresh(r) ==
    /\ At(r, "check") /\ ~IsStale(r)
    /\ Goes(r, "open")
    /\ overlapped' = overlapped \cup {f \in {run[r].at} : Others(r, f) # {}}
    /\ UNCHANGED <<disk, tmp, edits, starts, raced>>

(* Mutant: the file is rewritten in place.                                   *)
OpenInPlace(r) ==
    /\ At(r, "open")
    /\ disk' = [disk EXCEPT ![run[r].at] = Copy(Torn, r)]
    /\ run' = [run EXCEPT ![r].step = "write", ![r].fd = "disk"]
    /\ UNCHANGED <<tmp, edits, starts, raced, overlapped>>

(* write_text opens the name, truncating the file of another run that has   *)
(* the same name, ...                                                       *)
OpenTmp(r) ==
    /\ At(r, "open")
    /\ tmp' = [tmp EXCEPT ![run[r].at] = Copy(Torn, r)]
    /\ run' = [run EXCEPT ![r].step = "write", ![r].fd = "tmp"]
    /\ UNCHANGED <<disk, edits, starts, raced, overlapped>>

(* ... and writes to the file it opened, wherever that is by now.           *)
WriteTmp(r) ==
    /\ At(r, "write")
    /\ LET f == run[r].at
           copy == Copy(Text(run[r].orig[f].edit, TRUE), r)
       IN  /\ tmp' = IF run[r].fd = "tmp" THEN [tmp EXCEPT ![f] = copy] ELSE tmp
           /\ disk' = IF run[r].fd = "disk" THEN [disk EXCEPT ![f] = copy] ELSE disk
    /\ run' = [run EXCEPT ![r].step = "replace", ![r].fd = "none"]
    /\ UNCHANGED <<edits, starts, raced, overlapped>>

(* The open files of f, when its temporary file moves or is removed.        *)
Moved(f, where) ==
    [s \in Runs |-> IF run[s].at # f THEN run[s]
                    ELSE [run[s] EXCEPT !.fd = IF @ = "tmp" THEN where ELSE "none"]]

ReplaceFile(r) ==
    /\ At(r, "replace") /\ tmp[run[r].at] # None
    /\ LET f == run[r].at IN
       /\ disk' = [disk EXCEPT ![f] = tmp[f]]
       /\ tmp' = [tmp EXCEPT ![f] = None]
       /\ run' = [Moved(f, "disk") EXCEPT ![r] = [Leaves(r) EXCEPT !.written = @ \cup {f}]]
    /\ UNCHANGED <<edits, starts, raced, overlapped>>

(* Mutant: the error is not recorded.                                        *)
WriteFailsSilently(r) ==
    /\ run[r].step \in Replacing
    /\ run' = [Moved(run[r].at, "none") EXCEPT ![r] = Leaves(r)]
    /\ tmp' = [tmp EXCEPT ![run[r].at] = None]
    /\ UNCHANGED <<disk, edits, starts, raced, overlapped>>

(* An exception, as when another run took the name away: the name is        *)
(* removed, whoever's it is.                                                *)
WriteFails(r) ==
    /\ run[r].step \in Replacing
    /\ run' = [Moved(run[r].at, "none") EXCEPT ![r] =
                  [Leaves(r) EXCEPT !.unwritten = @ \cup {run[r].at}]]
    /\ tmp' = [tmp EXCEPT ![run[r].at] = None]
    /\ UNCHANGED <<disk, edits, starts, raced, overlapped>>

Finish(r) ==
    /\ At(r, "next") /\ run[r].todo = {}
    /\ Goes(r, "done")
    /\ UNCHANGED <<disk, tmp, edits, starts, raced, overlapped>>

-----------------------------------------------------------------------------
(* The process is killed, or a run that ended is started again.             *)
Stop(r) ==
    /\ ~At(r, "off")
    /\ run' = [run EXCEPT ![r] = NoRun]
    /\ UNCHANGED <<disk, tmp, edits, starts, raced, overlapped>>

Edit(f) ==
    /\ edits[f] < MaxEdits
    /\ edits' = [edits EXCEPT ![f] = @ + 1]
    /\ disk' = [disk EXCEPT ![f] = Copy(Text(edits[f] + 1, FALSE), None)]
    /\ raced' = raced \cup {g \in {f} : \E r \in Runs : run[r].at = f /\ run[r].step \in Replacing}
    /\ UNCHANGED <<tmp, run, starts, overlapped>>

RunStep(r) ==
    \/ Start(r) \/ Unknown(r) \/ NextFile(r) \/ PatchSucceeds(r) \/ PatchFails(r) \/ Patched(r)
    \/ RoundtripFails(r) \/ RoundtripPasses(r) \/ Guarded(r) \/ Located(r) \/ Stale(r) \/ Fresh(r)
    \/ OpenTmp(r) \/ WriteTmp(r) \/ ReplaceFile(r) \/ WriteFails(r) \/ Finish(r) \/ Stop(r)

Next == (\E r \in Runs : RunStep(r)) \/ (\E f \in Files : Edit(f))

Spec == Init /\ [][Next]_vars

-----------------------------------------------------------------------------
(* Atomic replacement: whatever fails and whenever a run is killed, a file  *)
(* of the project holds a whole text, unless two runs replaced it at once   *)
(* and shared its temporary name.                                           *)
WholeUnlessOverlapped == \A f \in Files \ overlapped : disk[f].text # Torn

(* Stale source detection: what people last wrote is what the text on disk  *)
(* stems from.  An edit is lost only if it fell between a run's stale check *)
(* and its os.replace.                                                      *)
EditLostOnlyInWindow ==
    \A f \in Files \ raced : disk[f].text # Torn => disk[f].text.edit = edits[f]

(* The report of a writing run: each file with findings whose text the run  *)
(* had is in exactly one of written_files and unwritten_eligible_files,     *)
(* unless the patches left it as it was; every finding of a written file    *)
(* was patched; and the text of an unwritten file is not this run's, unless *)
(* another run renamed it into place.                                       *)
ReportIsTrue ==
    \A r \in Runs :
        /\ run[r].written \cap run[r].unwritten = {} /\ run[r].stale \subseteq run[r].unwritten
        /\ At(r, "done") /\ run[r].write =>
              run[r].written \cup run[r].unwritten = run[r].eligible \ run[r].same
        /\ \A f \in run[r].written : run[r].fixes[f] = Flaws[f]
        /\ \A f \in run[r].unwritten \ overlapped : disk[f].by # r
=============================================================================
