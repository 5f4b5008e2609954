----------------------------- MODULE EditorScan -----------------------------
(***************************************************************************)
(* The editor extension's scans of one Python document: the debounce       *)
(* scheduler (incremental.ts), scanDocument and its listeners              *)
(* (extension.ts), the scanner process and the file staged for it          *)
(* (scannerRunner.ts, cli.py), and the cached findings behind the           *)
(* diagnostics (diagnostics.ts).                                            *)
(*                                                                         *)
(* The extension host is one thread: a handler is one step, and what        *)
(* interleaves are the handlers, the timer and the scanner processes.       *)
(* What the scanner finds in a text is an arbitrary function of the whole   *)
(* text: a finding may come and go with an edit of any other line, as those *)
(* of a taint analysis do.  Merged line ranges are the set of lines they    *)
(* cover.                                                                   *)
(***************************************************************************)
EXTENDS Integers, FiniteSets, Sequences, SequencesExt

CONSTANTS LineTexts,     \* what a line may say
          Flaws,
          Analysis,      \* what the scanner finds in a text
          NoFile,        \* what a path holds once it is unlinked
          InitText,      \* the document as opened
          Pad,           \* LINE_PAD
          MayFail,       \* whether scans and the staging write may fail
          MaxLength,     \* bound: lines of the document
          MaxEdits,      \* bound: content changes
          MaxScans       \* bound: scans started by the user

Texts == UNION {[1..n -> LineTexts] : n \in 1..MaxLength}

ASSUME TextAssumption == NoFile \notin Texts /\ InitText \in Texts
ASSUME AnalysisAssumption ==
    /\ Analysis \in [Texts -> SUBSET [line : 1..MaxLength, flaw : Flaws]]
    /\ \A t \in Texts : \A f \in Analysis[t] : f.line \in DOMAIN t
ASSUME NumbersAssumption == {Pad, MaxLength, MaxEdits, MaxScans} \subseteq Nat /\ MayFail \in BOOLEAN

VARIABLES
    buffer, dirty, disk,    \* the open text, isDirty, the saved file
    open,                   \* whether the document is among textDocuments
    pending,                \* pendingRanges
    timer, inFlight, queuedWhileBusy,
    generation,             \* scanGeneration
    staged,                 \* the staged copy in the temp directory
    scans,                  \* the scanFile calls that have not returned
    cached,                 \* findingCache
    edits, asked,           \* content changes and user scans so far
    lost                    \* history: lines no successful scan vouches for

scheduler == <<pending, timer, inFlight, queuedWhileBusy>>
document == <<buffer, dirty, disk, open, edits>>
vars == <<buffer, dirty, disk, open, pending, timer, inFlight, queuedWhileBusy,
          generation, staged, scans, cached, edits, asked, lost>>

Positions == 1..(MaxLength + Pad + 1)

\* Mutant: the scanner reports 0-based lines.
FindingsFromZero(text, ls) ==
    {[f EXCEPT !.line = @ - 1] : f \in {g \in Analysis[text] : g.line \in ls}}

\* What the scanner reports of a text for --lines ls.
Findings(text, ls) == {f \in Analysis[text] : f.line \in ls}

Places == {"spawned", "opened", "read", "failed"}

\* "full" scans have no --lines.  "owes" is history: the lines the scan will vouch for.
ScanType == [gen : Nat, full : BOOLEAN, lines : SUBSET Positions, copy : BOOLEAN, unsaved : BOOLEAN,
             place : Places, found : SUBSET [line : Positions, flaw : Flaws],
             text : Texts, owes : SUBSET Positions]

TypeOK ==
    /\ buffer \in Texts /\ disk \in Texts \cup {NoFile} /\ staged \in Texts \cup {NoFile}
    /\ {dirty, open, timer, inFlight, queuedWhileBusy} \subseteq BOOLEAN
    /\ pending \subseteq Positions /\ lost \subseteq Positions
    /\ generation \in Nat
    /\ scans \subseteq ScanType
    /\ cached \subseteq [line : Positions, flaw : Flaws]
    /\ edits \in 0..MaxEdits /\ asked \in 0..MaxScans

Init ==
    /\ buffer = InitText /\ disk = InitText /\ dirty = FALSE /\ open = TRUE
    /\ pending = {} /\ timer = FALSE /\ inFlight = FALSE /\ queuedWhileBusy = FALSE
    /\ generation = 0 /\ scans = {} /\ staged = NoFile
    /\ cached = {}
    /\ edits = 0 /\ asked = 0
    /\ lost = Positions

-----------------------------------------------------------------------------

\* scanDocument up to its await: an unsaved buffer is staged, and the saved file is
\* scanned in its place if the staged copy cannot be written.
StartScan(full, ls, text, unsaved) ==
    /\ generation' = generation + 1
    /\ \E copy \in {unsaved} \cup (IF MayFail THEN {FALSE} ELSE {}) :
         /\ staged' = IF copy THEN text ELSE staged
         /\ scans' = scans \cup {[gen |-> generation', full |-> full, lines |-> ls,
                                  copy |-> copy, unsaved |-> unsaved, place |-> "spawned",
                                  found |-> {}, text |-> text, owes |-> ls]}

\* rangeFromContentChange for a change of the lines first..last.
Around(first, last) == {l \in Positions : first - Pad <= l /\ l <= last + Pad}

RecordChange(ls) == pending' = pending \cup ls /\ timer' = TRUE

\* The lines out of reach of an edit of which the scanner would now say something else: they
\* have moved, or depend on the lines that were edited.  No scan so far vouches for them.
Elsewhere(text, ls) == {l \in Positions \ ls : Findings(text, {l}) # Findings(buffer, {l})}

\* A content change: the document becomes text, and the lines ls are recorded.
Edit(text, ls) ==
    /\ open /\ edits < MaxEdits
    /\ edits' = edits + 1
    /\ buffer' = text /\ dirty' = TRUE
    /\ RecordChange(ls)
    /\ lost' = lost \cup Elsewhere(text, ls)
    /\ scans' = {[s EXCEPT !.owes = @ \ Elsewhere(text, ls)] : s \in scans}
    /\ UNCHANGED <<disk, open, inFlight, queuedWhileBusy, generation, staged, cached, asked>>

EditLine(i, line) ==
    /\ i \in DOMAIN buffer /\ line # buffer[i]
    /\ Edit([buffer EXCEPT ![i] = line], Around(i, i))

\* Typing a line and its end in front of line i.
InsertLine(i, line) ==
    /\ i \in DOMAIN buffer /\ Len(buffer) < MaxLength
    /\ Edit(InsertAt(buffer, i, line), Around(i, i + 1))

\* Deleting line i with its end; the change reaches to the start of the next line.
DeleteLine(i) ==
    /\ i \in DOMAIN buffer /\ i < Len(buffer)
    /\ Edit(RemoveAt(buffer, i), Around(i, i + 1))

\* Mutant: the scheduler forgets the scan in flight as well.
ResetAll == /\ pending' = {} /\ timer' = FALSE /\ queuedWhileBusy' = FALSE
            /\ inFlight' = FALSE

Reset == /\ pending' = {} /\ timer' = FALSE /\ queuedWhileBusy' = FALSE
         /\ UNCHANGED inFlight

UserScans == open /\ asked < MaxScans /\ asked' = asked + 1

\* The save listener.
Save ==
    /\ UserScans
    /\ disk' = buffer /\ dirty' = FALSE
    /\ Reset
    /\ StartScan(TRUE, Positions, buffer, FALSE)
    /\ UNCHANGED <<buffer, open, cached, edits, lost>>

\* The command, or the scan on activation.
ManualScan ==
    /\ UserScans
    /\ StartScan(TRUE, Positions, buffer, dirty)
    /\ UNCHANGED <<document, scheduler, cached, lost>>

\* The editor closes the document, discarding what was not saved: no listener is told.
Close ==
    /\ open /\ disk # NoFile
    /\ open' = FALSE
    /\ buffer' = disk /\ dirty' = FALSE
    /\ IF dirty THEN lost' = Positions /\ scans' = {[s EXCEPT !.owes = {}] : s \in scans}
                ELSE UNCHANGED <<lost, scans>>
    /\ UNCHANGED <<disk, edits, scheduler, generation, staged, cached, asked>>

Reopen ==
    /\ ~open /\ disk # NoFile
    /\ open' = TRUE
    /\ UNCHANGED <<buffer, dirty, disk, edits, scheduler, generation, staged, scans, cached, asked, lost>>

\* Mutant: a document that is no longer open leaves its scan in flight.
FireUncompleted ==
    /\ pending' = {}
    /\ inFlight' = TRUE
    /\ UNCHANGED queuedWhileBusy
    /\ IF open THEN StartScan(FALSE, pending, buffer, dirty) /\ UNCHANGED lost
               ELSE lost' = lost \cup pending /\ UNCHANGED <<generation, staged, scans>>

\* fire with ranges to scan: a document that is no longer open completes at once.
Fire ==
    /\ pending' = {}
    /\ inFlight' = open
    /\ UNCHANGED queuedWhileBusy
    /\ IF open THEN StartScan(FALSE, pending, buffer, dirty) /\ UNCHANGED lost
               ELSE lost' = lost \cup pending /\ UNCHANGED <<generation, staged, scans>>

TimerFires ==
    /\ timer /\ timer' = FALSE
    /\ IF inFlight
       THEN /\ queuedWhileBusy' = TRUE
            /\ UNCHANGED <<pending, inFlight, generation, staged, scans, lost>>
       ELSE Fire
    /\ UNCHANGED <<document, cached, asked>>

-----------------------------------------------------------------------------
(* A running scan.                                                          *)

Target(s) == IF s.copy THEN staged ELSE disk

Becomes(s, t) == scans' = (scans \ {s}) \cup {t}

\* The scanner looks whether its path exists.
OpenTarget(s) ==
    /\ s.place = "spawned"
    /\ Becomes(s, [s EXCEPT !.place = IF Target(s) = NoFile THEN "failed" ELSE "opened"])
    /\ UNCHANGED <<document, scheduler, generation, staged, cached, asked, lost>>

\* It reads the file later; one that is gone by then is skipped with a warning.
ReadTarget(s) ==
    /\ s.place = "opened"
    /\ Becomes(s, [s EXCEPT !.place = "read",
                            !.found = IF Target(s) = NoFile THEN {} ELSE Findings(Target(s), s.lines)])
    /\ UNCHANGED <<document, scheduler, generation, staged, cached, asked, lost>>

\* Unlinks the scanned path of a scan that was given content.
CleanupStagedFile(s) ==
    /\ staged' = IF s.copy THEN NoFile ELSE staged
    /\ disk' = IF s.unsaved /\ ~s.copy THEN NoFile ELSE disk

UpdateDiagnostics(s) ==
    cached' = (IF s.full THEN {} ELSE {f \in cached : f.line \notin s.lines}) \cup s.found

\* Mutant: the edits queued behind the scan are not scheduled again.
ScanCompletedQuietly == inFlight' = FALSE /\ queuedWhileBusy' = FALSE /\ UNCHANGED timer

ScanCompleted == inFlight' = FALSE /\ queuedWhileBusy' = FALSE /\ timer' = (timer \/ queuedWhileBusy)

\* Mutant: results are shown whatever scan has started since.
ShowsAny(s, succeeded) == succeeded

Shows(s, succeeded) == succeeded /\ s.gen = generation

\* scanFile returns, null unless it succeeded, and scanDocument runs to its end.
EndScan(s, succeeded) ==
    LET right == s.found = Findings(s.text, s.lines)
    IN  /\ s.place = "read" \/ ~succeeded
        /\ ~succeeded => MayFail \/ s.place = "failed"
        /\ CleanupStagedFile(s)
        /\ IF Shows(s, succeeded)
           THEN /\ UpdateDiagnostics(s)
                /\ lost' = IF right THEN lost \ s.owes ELSE lost \cup s.lines
                /\ scans' = {[t EXCEPT !.owes = @ \ s.owes] : t \in scans \ {s}}
           ELSE /\ lost' = lost \cup s.owes
                /\ scans' = scans \ {s}
                /\ UNCHANGED cached
        /\ IF s.full THEN UNCHANGED <<timer, inFlight, queuedWhileBusy>> ELSE ScanCompleted
        /\ UNCHANGED <<buffer, dirty, open, edits, pending, generation, asked>>

ScannerStep == \E s \in scans : \/ OpenTarget(s) \/ ReadTarget(s)
                                \/ \E succeeded \in BOOLEAN : EndScan(s, succeeded)

EditStep == \E i \in DOMAIN buffer : \/ DeleteLine(i)
                                     \/ \E line \in LineTexts : EditLine(i, line) \/ InsertLine(i, line)

Next == EditStep \/ Save \/ ManualScan \/ Close \/ Reopen \/ TimerFires \/ ScannerStep

Spec == Init /\ [][Next]_vars

\* The host runs its timers, and timeoutMs ends every scan.
FairSpec == Spec /\ WF_vars(TimerFires) /\ WF_vars(ScannerStep)

-----------------------------------------------------------------------------
(* Properties.                                                              *)

\* At most one incremental scan of the document runs, however saves, closing and manual
\* scans interleave with the timer, and inFlight is set exactly while it does.
OneIncrementalScan ==
    LET incremental == {s \in scans : ~s.full}
    IN  Cardinality(incremental) = (IF inFlight THEN 1 ELSE 0)

\* Recorded ranges always have something that will scan them: a timer, or the end of a
\* scan that the timer found in flight.
PendingWillFire == pending # {} => timer \/ (inFlight /\ queuedWhileBusy)

\* The diagnostics of a line disagree with what the scanner would report of the buffer only
\* while the line is pending or being scanned; after the scan that owed it failed, was
\* superseded or read another text; or since an edit out of whose reach it is moved it or
\* changed what the scanner says of it (the source of its taint, say), until a scan covers it.
\* In particular no late result undoes a newer one.
WrongIsAccountedFor ==
    \A l \in Positions :
        {f \in cached : f.line = l} # Findings(buffer, {l})
            => l \in pending \cup lost \cup UNION {s.owes : s \in scans}

\* Recorded ranges are eventually taken up, by a scan or by a save.
EditsAreScanned == (pending # {}) ~> (pending = {})

\* What stageScanTarget and cleanupStagedFile say they work on: a temp copy.
SavedFileKept == disk # NoFile

Quiet == scans = {} /\ ~timer /\ pending = {}

\* What the save listener says of its scan, "authoritative", for scans that do not fail:
\* once the user has saved and everything has ended, the diagnostics of each line are the saved
\* text's, unless later edits changed what the scanner says of it.
SaveDecides ==
    Quiet /\ disk # InitText =>
        \A l \in Positions : Findings(disk, {l}) = Findings(buffer, {l})
                                => {f \in cached : f.line = l} = Findings(disk, {l})
=============================================================================
