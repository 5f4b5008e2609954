--------------------------- MODULE RemediationProofs ---------------------------
(***************************************************************************)
(* Proofs about Remediation for any number of runs, files, findings, edits *)
(* and restarts.                                                           *)
(*                                                                         *)
(* The properties speak of the disk, but what reaches the disk comes from  *)
(* the temporary file, and what is there depends on which runs are writing *)
(* it.  IInv adds what a run knows of its own lists (Local), that two runs *)
(* replace a file at once only if the history says so, what the temporary  *)
(* file of a run that is alone holds, and that the text a run is about to  *)
(* replace stems from the last edit unless the history says otherwise.     *)
(***************************************************************************)
EXTENDS Remediation, TLAPS

Working == {"patch", "gate", "locate", "check"} \cup Replacing
Finished(x) == x.written \cup x.unwritten \cup x.same

\* What a run's record says of itself: the text of a file with findings is whole, the file
\* it is at is one of those, each such file is still to come, at hand, or in one list, and
\* the findings of a file that has passed the gate are all fixed.
Local(x) ==
    /\ x \in Run
    /\ IF x.step \in Working THEN x.at \in x.eligible \ x.todo ELSE x.at = None
    /\ x.fd # "none" => x.step = "write"
    /\ x.step \in {"locate", "check"} \cup Replacing => x.write
    /\ \A f \in x.eligible : x.orig[f] \in Texts /\ x.orig[f].edit \in 0..MaxEdits
    /\ \A f \in x.todo : x.orig[f] # None => f \in x.eligible
    /\ Finished(x) \subseteq x.eligible \ x.todo
    /\ x.at \notin Finished(x)
    /\ x.written \cap x.unwritten = {} /\ x.same \cap (x.written \cup x.unwritten) = {}
    /\ x.stale \subseteq x.unwritten
    /\ x.step = "done" => x.todo = {}
    /\ x.write => x.eligible \subseteq x.todo \cup {x.at} \cup Finished(x)
    /\ \A f \in x.written : x.fixes[f] = Flaws[f]
    /\ x.step \in {"gate", "locate", "check"} \cup Replacing => x.fixes[x.at] = Flaws[x.at]

At2(r, f) == run[r].at = f /\ run[r].step \in Replacing

\* Two runs that replace one file at once have overlapped.
AloneInv == \A r, s \in Runs, f \in Files \ overlapped : At2(r, f) /\ At2(s, f) => r = s

\* The temporary file of a run that is alone is its own.
TmpInv ==
    /\ \A r \in Runs, f \in Files \ overlapped : run[r].at = f =>
          /\ run[r].step = "write" => run[r].fd = "tmp" /\ tmp[f] = Copy(Torn, r)
          /\ run[r].step = "replace" => tmp[f] = Copy(Text(run[r].orig[f].edit, TRUE), r)

\* What a run has written is torn or fixed; and on disk under the name of a file with
\* findings only once the run has reported it.
FixedInv ==
    /\ \A f \in Files : tmp[f] # None => tmp[f].text = Torn \/ tmp[f].text.fixed
    /\ \A f \in Files : disk[f].by # None => disk[f].text = Torn \/ disk[f].text.fixed
    /\ \A r \in Runs : \A f \in run[r].eligible \ (run[r].written \cup overlapped) :
          disk[f].by # r

\* A run that replaces a file has the last edit of it, and so has the temporary file once
\* the run has opened it.
EditInv ==
    \A r \in Runs, f \in Files \ raced : At2(r, f) =>
        /\ run[r].orig[f].edit = edits[f]
        /\ run[r].step # "open" /\ tmp[f] # None /\ tmp[f].text # Torn => tmp[f].text.edit = edits[f]

SharedTypeOK ==
    /\ disk \in [Files -> Copies]
    /\ tmp \in [Files -> Copies \cup {None}]
    /\ edits \in [Files -> 0..MaxEdits]
    /\ starts \in 0..MaxStarts
    /\ raced \subseteq Files /\ overlapped \subseteq Files

IInv ==
    /\ SharedTypeOK
    /\ DOMAIN run = Runs /\ run = [r \in Runs |-> run[r]]
    /\ \A r \in Runs : Local(run[r])
    /\ AloneInv /\ TmpInv /\ FixedInv /\ EditInv
    /\ WholeUnlessOverlapped /\ EditLostOnlyInWindow

LEMMA TmpIs ==
    ASSUME IInv, NEW s \in Runs, NEW g \in Files \ overlapped, run[s].at = g
    PROVE  /\ run[s].step = "write" => run[s].fd = "tmp" /\ tmp[g] = Copy(Torn, s)
           /\ run[s].step = "replace" => tmp[g] = Copy(Text(run[s].orig[g].edit, TRUE), s)
BY DEF IInv, TmpInv

-----------------------------------------------------------------------------
\* A step that only changes what a run knows, and does not begin to replace a file, leaves
\* the shared part alone.
LEMMA QuietStep ==
    ASSUME NEW r \in Runs, NEW x, IInv, run' = [run EXCEPT ![r] = x], Local(x),
           UNCHANGED <<disk, tmp, edits, raced, overlapped>>, starts' \in 0..MaxStarts,
           x.step \notin Replacing,
           \A f \in x.eligible \ (x.written \cup overlapped) : disk[f].by # r
    PROVE  IInv'
<1>1. SharedTypeOK'
  BY DEF IInv, SharedTypeOK
<1>2. /\ DOMAIN run' = Runs /\ run' = [s \in Runs |-> run'[s]]
      /\ \A s \in Runs : run'[s] = IF s = r THEN x ELSE run[s]
  BY DEF IInv
<1>3. \A s \in Runs : Local(run[s])'
  BY <1>2 DEF IInv, Local, Finished
<1>4. AloneInv'
  BY <1>2 DEF IInv, AloneInv, At2
<1>5. TmpInv'
  BY <1>2 DEF IInv, TmpInv, Replacing
<1>6. FixedInv'
  BY <1>2 DEF IInv, FixedInv
<1>7. EditInv'
  BY <1>2 DEF IInv, EditInv, At2
<1>8. WholeUnlessOverlapped' /\ EditLostOnlyInWindow'
  BY DEF IInv, WholeUnlessOverlapped, EditLostOnlyInWindow
<1> QED
  BY <1>1, <1>2, <1>3, <1>4, <1>5, <1>6, <1>7, <1>8 DEF IInv

\* The same for a step that keeps the texts the run has, and forgets no written file.
LEMMA QuietRunStep ==
    ASSUME NEW r \in Runs, NEW x, IInv, run' = [run EXCEPT ![r] = x], Local(x),
           UNCHANGED <<disk, tmp, edits, starts, raced, overlapped>>,
           x.step \notin Replacing,
           x.eligible = run[r].eligible, run[r].written \subseteq x.written
    PROVE  IInv'
<1>1. \A f \in x.eligible \ (x.written \cup overlapped) : disk[f].by # r
  BY DEF IInv, FixedInv
<1>2. starts' \in 0..MaxStarts
  BY DEF IInv, SharedTypeOK
<1> QED
  BY <1>1, <1>2, QuietStep

-----------------------------------------------------------------------------
\* The steps that only change what a run knows.

LEMMA StartStep == ASSUME NEW r \in Runs, IInv, Start(r) PROVE IInv'
<1> PICK known \in SUBSET Files, write \in BOOLEAN :
       run' = [run EXCEPT ![r] = [NoRun EXCEPT
           !.step = "next", !.write = write,
           !.orig = [f \in Files |-> IF f \in known THEN disk[f].text ELSE None],
           !.eligible = {f \in known : Flawed(f)}, !.todo = {f \in Files : Flawed(f)}]]
  BY DEF Start
<1> DEFINE x == [NoRun EXCEPT
           !.step = "next", !.write = write,
           !.orig = [f \in Files |-> IF f \in known THEN disk[f].text ELSE None],
           !.eligible = {f \in known : Flawed(f)}, !.todo = {f \in Files : Flawed(f)}]
<1>1. \A f \in Files : disk[f] \in Copies /\ disk[f].text \in Texts
  BY DEF IInv, SharedTypeOK, Copies
<1>2. x \in Run
  BY <1>1 DEF Run, NoRun, Steps
<1>3. \A f \in x.eligible : x.orig[f] \in Texts /\ x.orig[f].edit \in 0..MaxEdits /\ ~disk[f].text.fixed
                            /\ disk[f].text # Torn
  BY <1>1 DEF NoRun, Flawed, Texts, Torn, Text
<1>4. Local(x)
  BY <1>2, <1>3, NoneAssumption DEF Local, NoRun, Working, Replacing, Finished
<1>5. \A f \in x.eligible : disk[f].by # r
  <2>1. \A f \in x.eligible : disk[f].by = None
    BY <1>3 DEF NoRun, IInv, FixedInv
  <2> QED
    BY <2>1, NoneAssumption
<1>6. starts' \in 0..MaxStarts
  BY BoundAssumption DEF Start, IInv, SharedTypeOK
<1>7. x.step \notin Replacing
  BY DEF Replacing, NoRun
<1>8. UNCHANGED <<disk, tmp, edits, raced, overlapped>>
  BY DEF Start
<1> HIDE DEF x
<1> QED
  BY <1>4, <1>5, <1>6, <1>7, <1>8, QuietStep DEF x

LEMMA StopStep == ASSUME NEW r \in Runs, IInv, Stop(r) PROVE IInv'
<1>1. NoRun \in Run
  BY DEF Run, NoRun, Steps
<1>2. Local(NoRun)
  BY <1>1, NoneAssumption DEF Local, NoRun, Working, Replacing, Finished
<1>3. NoRun.eligible = {} /\ NoRun.step \notin Replacing
  BY DEF NoRun, Replacing
<1>4. starts' \in 0..MaxStarts
  BY DEF Stop, IInv, SharedTypeOK
<1> QED
  BY <1>2, <1>3, <1>4, QuietStep DEF Stop

LEMMA UnknownStep == ASSUME NEW r \in Runs, IInv, Unknown(r) PROVE IInv'
<1> PICK f \in run[r].todo : run[r].orig[f] = None /\ run' = [run EXCEPT ![r].todo = @ \ {f}]
  BY DEF Unknown
<1> DEFINE x == [run[r] EXCEPT !.todo = @ \ {f}]
<1>1. run' = [run EXCEPT ![r] = x] /\ Local(run[r]) /\ At(r, "next")
  BY DEF Unknown, IInv
<1>2. f \notin run[r].eligible
  BY <1>1, NoneAssumption DEF Local
<1>3. Local(x)
  BY <1>1, <1>2, NoneAssumption DEF Local, Run, At, Working, Replacing, Finished
<1>4. x.step \notin Replacing /\ x.eligible = run[r].eligible /\ run[r].written \subseteq x.written
  BY <1>1 DEF Local, Run, At, Replacing
<1> HIDE DEF x
<1> QED
  BY <1>1, <1>3, <1>4, QuietRunStep DEF Unknown

LEMMA NextFileStep == ASSUME NEW r \in Runs, IInv, NextFile(r) PROVE IInv'
<1> PICK f \in run[r].todo : /\ run[r].orig[f] # None
                             /\ run' = [run EXCEPT ![r].todo = @ \ {f}, ![r].at = f, ![r].step = "patch"]
  BY DEF NextFile
<1> DEFINE x == [run[r] EXCEPT !.todo = @ \ {f}, !.at = f, !.step = "patch"]
<1>1. Local(run[r]) /\ At(r, "next") /\ run = [s \in Runs |-> run[s]]
  BY DEF NextFile, IInv
<1>2. run' = [run EXCEPT ![r] = x]
  BY <1>1
<1>3. f \in run[r].eligible /\ f \in Files
  BY <1>1 DEF Local, Run
<1>4. /\ x.step = "patch" /\ x.at = f /\ x.todo = run[r].todo \ {f}
      /\ x.fd = run[r].fd /\ x.write = run[r].write /\ x.orig = run[r].orig
      /\ x.fixes = run[r].fixes /\ x.eligible = run[r].eligible /\ x.written = run[r].written
      /\ x.unwritten = run[r].unwritten /\ x.same = run[r].same /\ x.stale = run[r].stale
      /\ x \in Run
  BY <1>1, <1>3 DEF Local, Run, Steps
<1> HIDE DEF x
<1>5. Local(x)
  BY <1>1, <1>3, <1>4, NoneAssumption DEF Local, Run, At, Working, Replacing, Finished
<1> QED
  BY <1>2, <1>4, <1>5, QuietRunStep DEF NextFile, Replacing

LEMMA FinishStep == ASSUME NEW r \in Runs, IInv, Finish(r) PROVE IInv'
<1> DEFINE x == [run[r] EXCEPT !.step = "done"]
<1>1. run' = [run EXCEPT ![r] = x] /\ Local(run[r]) /\ At(r, "next") /\ run[r].todo = {}
  BY DEF Finish, Goes, IInv
<1>2. Local(x)
  BY <1>1, NoneAssumption DEF Local, Run, Steps, At, Working, Replacing, Finished
<1>3. x.step \notin Replacing /\ x.eligible = run[r].eligible /\ run[r].written \subseteq x.written
  BY <1>1 DEF Local, Run, At, Replacing
<1> HIDE DEF x
<1> QED
  BY <1>1, <1>2, <1>3, QuietRunStep DEF Finish

LEMMA PatchSucceedsStep == ASSUME NEW r \in Runs, IInv, PatchSucceeds(r) PROVE IInv'
<1> DEFINE f == run[r].at
           x == [run[r] EXCEPT !.fixes[f] = @ + 1]
<1>1. run' = [run EXCEPT ![r] = x] /\ Local(run[r]) /\ At(r, "patch")
  BY DEF PatchSucceeds, IInv
<1>2. f \in Files /\ f \notin run[r].written
  BY <1>1 DEF Local, Run, At, Working, Finished
<1>3. x \in Run
  <2>1. run[r] \in Run /\ run[r].fixes \in [Files -> Nat]
    BY <1>1 DEF Local, Run
  <2>2. [run[r].fixes EXCEPT ![f] = @ + 1] \in [Files -> Nat]
    BY <1>2, <2>1
  <2> QED
    BY <2>1, <2>2 DEF Run
<1>4. /\ x.step = "patch" /\ x.at = f /\ x.todo = run[r].todo /\ x.fd = run[r].fd
      /\ x.write = run[r].write /\ x.orig = run[r].orig /\ x.eligible = run[r].eligible
      /\ x.written = run[r].written /\ x.unwritten = run[r].unwritten /\ x.same = run[r].same
      /\ x.stale = run[r].stale /\ \A g \in Files \ {f} : x.fixes[g] = run[r].fixes[g]
  BY <1>1, <1>2 DEF Local, Run, At
<1> HIDE DEF x
<1>5. Local(x)
  <2>1. f \in run[r].eligible /\ run[r].written \subseteq Files
    BY <1>1 DEF Local, Run, At, Working
  <2> HIDE DEF f
  <2> QED
    BY <1>1, <1>2, <1>3, <1>4, <2>1 DEF f, Local, At, Working, Replacing, Finished
<1> QED
  BY <1>1, <1>4, <1>5, QuietRunStep DEF PatchSucceeds, Replacing

\* A run that leaves the file it is at reports it in one more list, or is no writing run.
LeavesAs(r, x, u, s, t) ==
    /\ x \in Run /\ x.step = "next" /\ x.fd = "none" /\ x.at = None
    /\ x.write = run[r].write /\ x.orig = run[r].orig /\ x.eligible = run[r].eligible
    /\ x.todo = run[r].todo /\ x.written = run[r].written
    /\ \A g \in Files \ {run[r].at} : x.fixes[g] = run[r].fixes[g]
    /\ x.unwritten = run[r].unwritten \cup u /\ x.same = run[r].same \cup s
    /\ x.stale = run[r].stale \cup t
    /\ u \subseteq {run[r].at} /\ s \subseteq {run[r].at} /\ t \subseteq u /\ u \cap s = {}
    /\ x.write => u \cup s = {run[r].at}

LEMMA Left ==
    ASSUME NEW r \in Runs, Local(run[r]), run[r].step \in Working, NEW x,
           NEW u, NEW s, NEW t, LeavesAs(r, x, u, s, t)
    PROVE  Local(x)
<1>1. None \notin x.eligible
  BY NoneAssumption DEF LeavesAs, Run
<1> QED
  BY <1>1 DEF LeavesAs, Run, Local, Working, Replacing, Finished

LEMMA LeftQuietly ==
    ASSUME NEW r \in Runs, IInv, run[r].step \in Working, NEW x,
           NEW u, NEW s, NEW t, LeavesAs(r, x, u, s, t),
           run' = [run EXCEPT ![r] = x],
           UNCHANGED <<disk, tmp, edits, starts, raced, overlapped>>
    PROVE  IInv'
<1>1. Local(run[r])
  BY DEF IInv
<1>2. Local(x)
  BY <1>1, Left
<1> QED
  BY <1>2, QuietRunStep DEF LeavesAs, Replacing

LEMMA LeavesIs ==
    ASSUME NEW r \in Runs, run[r] \in Run, NEW x, x = Leaves(r)
    PROVE  /\ x \in Run
           /\ x.step = "next" /\ x.fd = "none" /\ x.at = None
           /\ x.write = run[r].write /\ x.orig = run[r].orig /\ x.eligible = run[r].eligible
           /\ x.todo = run[r].todo /\ x.written = run[r].written /\ x.fixes = run[r].fixes
           /\ x.unwritten = run[r].unwritten /\ x.same = run[r].same /\ x.stale = run[r].stale
BY DEF Leaves, Run, Steps

LEMMA GivesUpStep ==
    ASSUME NEW r \in Runs, IInv, run[r].step \in Working, GivesUp(r),
           UNCHANGED <<disk, tmp, edits, starts, raced, overlapped>>
    PROVE  IInv'
<1> DEFINE y == Leaves(r)
           x == [y EXCEPT !.unwritten = @ \cup {run[r].at}]
<1>1. run[r] \in Run /\ run[r].at \in Files /\ run = [s \in Runs |-> run[s]]
  BY DEF IInv, Local, Run
<1>2. /\ y \in Run
      /\ y.step = "next" /\ y.fd = "none" /\ y.at = None
      /\ y.write = run[r].write /\ y.orig = run[r].orig /\ y.eligible = run[r].eligible
      /\ y.todo = run[r].todo /\ y.written = run[r].written /\ y.fixes = run[r].fixes
      /\ y.unwritten = run[r].unwritten /\ y.same = run[r].same /\ y.stale = run[r].stale
  BY <1>1, LeavesIs
<1>3. run' = [run EXCEPT ![r] = x]
  BY DEF GivesUp
<1> HIDE DEF y
<1>4. x \in Run
  BY <1>1, <1>2 DEF Run
<1>5. /\ x.step = "next" /\ x.fd = "none" /\ x.at = None
      /\ x.write = run[r].write /\ x.orig = run[r].orig /\ x.eligible = run[r].eligible
      /\ x.todo = run[r].todo /\ x.written = run[r].written /\ x.fixes = run[r].fixes
      /\ x.unwritten = run[r].unwritten \cup {run[r].at}
      /\ x.same = run[r].same /\ x.stale = run[r].stale
  BY <1>2 DEF Run
<1> HIDE DEF x
<1>6. LeavesAs(r, x, {run[r].at}, {}, {})
  BY <1>4, <1>5 DEF LeavesAs
<1> QED
  BY <1>3, <1>6, LeftQuietly

LEMMA LeavesStep ==
    ASSUME NEW r \in Runs, IInv, run[r].step \in Working, ~run[r].write,
           run' = [run EXCEPT ![r] = Leaves(r)],
           UNCHANGED <<disk, tmp, edits, starts, raced, overlapped>>
    PROVE  IInv'
<1> DEFINE x == Leaves(r)
<1>1. run[r] \in Run
  BY DEF IInv, Local
<1>2. /\ x \in Run
      /\ x.step = "next" /\ x.fd = "none" /\ x.at = None
      /\ x.write = run[r].write /\ x.orig = run[r].orig /\ x.eligible = run[r].eligible
      /\ x.todo = run[r].todo /\ x.written = run[r].written /\ x.fixes = run[r].fixes
      /\ x.unwritten = run[r].unwritten /\ x.same = run[r].same /\ x.stale = run[r].stale
  BY <1>1, LeavesIs
<1>3. run' = [run EXCEPT ![r] = x]
  OBVIOUS
<1> HIDE DEF x
<1>4. LeavesAs(r, x, {}, {}, {})
  BY <1>2 DEF LeavesAs
<1> QED
  BY <1>3, <1>4, LeftQuietly

LEMMA PatchFailsStep == ASSUME NEW r \in Runs, IInv, PatchFails(r) PROVE IInv'
<1>1. run[r].step \in Working /\ (run[r].write \in BOOLEAN)
  BY DEF PatchFails, At, Working, IInv, Local, Run
<1> QED
  BY <1>1, GivesUpStep, LeavesStep DEF PatchFails

LEMMA GuardedStep == ASSUME NEW r \in Runs, IInv, Guarded(r) PROVE IInv'
<1>1. run[r].step \in Working
  BY DEF Guarded, At, Working, Replacing
<1> QED
  BY <1>1, GivesUpStep DEF Guarded

\* A step of a run on the file it is at.
LEMMA GoesStep ==
    ASSUME NEW r \in Runs, IInv, run[r].step \in Working, NEW step \in {"gate", "locate", "check"},
           Goes(r, step),
           step \in {"locate", "check"} => run[r].write,
           run[r].fixes[run[r].at] = Flaws[run[r].at],
           run[r].step \notin Replacing,
           UNCHANGED <<disk, tmp, edits, starts, raced, overlapped>>
    PROVE  IInv'
<1> DEFINE x == [run[r] EXCEPT !.step = step]
<1>1. Local(run[r]) /\ run' = [run EXCEPT ![r] = x]
  BY DEF Goes, IInv
<1>2. /\ x.step = step /\ x.at = run[r].at /\ x.todo = run[r].todo
      /\ x.fd = run[r].fd /\ x.write = run[r].write /\ x.orig = run[r].orig
      /\ x.fixes = run[r].fixes /\ x.eligible = run[r].eligible /\ x.written = run[r].written
      /\ x.unwritten = run[r].unwritten /\ x.same = run[r].same /\ x.stale = run[r].stale
      /\ x \in Run
  BY <1>1 DEF Local, Run, Steps
<1> HIDE DEF x
<1>3. Local(x)
  BY <1>1, <1>2 DEF Local, Working, Replacing, Finished
<1> QED
  BY <1>1, <1>2, <1>3, QuietRunStep DEF Replacing

LEMMA PatchedStep == ASSUME NEW r \in Runs, IInv, Patched(r) PROVE IInv'
<1>1. /\ run[r].step \in Working /\ run[r].step \notin Replacing
      /\ run[r].fixes[run[r].at] = Flaws[run[r].at]
      /\ UNCHANGED <<disk, tmp, edits, starts, raced, overlapped>>
  BY DEF Patched, At, Working, Replacing
<1>2. CASE Goes(r, "gate")
  BY <1>1, <1>2, GoesStep
<1>3. CASE run' = [run EXCEPT ![r] = [Leaves(r) EXCEPT !.same = @ \cup {run[r].at}]]
  <2> DEFINE y == Leaves(r)
             x == [y EXCEPT !.same = @ \cup {run[r].at}]
  <2>1. run[r] \in Run /\ run[r].at \in Files
    BY <1>1 DEF IInv, Local, Run
  <2>2. /\ y \in Run
        /\ y.step = "next" /\ y.fd = "none" /\ y.at = None
        /\ y.write = run[r].write /\ y.orig = run[r].orig /\ y.eligible = run[r].eligible
        /\ y.todo = run[r].todo /\ y.written = run[r].written /\ y.fixes = run[r].fixes
        /\ y.unwritten = run[r].unwritten /\ y.same = run[r].same /\ y.stale = run[r].stale
    BY <2>1, LeavesIs
  <2>3. run' = [run EXCEPT ![r] = x]
    BY <1>3
  <2> HIDE DEF y
  <2>4. x \in Run
    BY <2>1, <2>2 DEF Run
  <2>5. /\ x.step = "next" /\ x.fd = "none" /\ x.at = None
        /\ x.write = run[r].write /\ x.orig = run[r].orig /\ x.eligible = run[r].eligible
        /\ x.todo = run[r].todo /\ x.written = run[r].written /\ x.fixes = run[r].fixes
        /\ x.unwritten = run[r].unwritten
        /\ x.same = run[r].same \cup {run[r].at} /\ x.stale = run[r].stale
    BY <2>2 DEF Run
  <2> HIDE DEF x
  <2>6. LeavesAs(r, x, {}, {run[r].at}, {})
    BY <2>4, <2>5 DEF LeavesAs
  <2> QED
    BY <1>1, <2>3, <2>6, LeftQuietly
<1> QED
  BY <1>2, <1>3 DEF Patched

LEMMA RoundtripPassesStep == ASSUME NEW r \in Runs, IInv, RoundtripPasses(r) PROVE IInv'
<1>1. /\ run[r].step \in Working /\ run[r].step \notin Replacing
      /\ run[r].fixes[run[r].at] = Flaws[run[r].at]
      /\ UNCHANGED <<disk, tmp, edits, starts, raced, overlapped>> /\ run[r].write \in BOOLEAN
  BY DEF RoundtripPasses, At, Working, Replacing, IInv, Local, Run
<1>2. CASE run[r].write
  BY <1>1, <1>2, GoesStep DEF RoundtripPasses
<1>3. CASE ~run[r].write
  BY <1>1, <1>3, LeavesStep DEF RoundtripPasses
<1> QED
  BY <1>2, <1>3

LEMMA LocatedStep == ASSUME NEW r \in Runs, IInv, Located(r) PROVE IInv'
<1>1. /\ run[r].step \in Working /\ run[r].step \notin Replacing
      /\ run[r].fixes[run[r].at] = Flaws[run[r].at] /\ run[r].write
      /\ Goes(r, "check") /\ UNCHANGED <<disk, tmp, edits, starts, raced, overlapped>>
  BY DEF Located, At, Working, Replacing, IInv, Local
<1> QED
  BY <1>1, GoesStep

LEMMA StaleStep == ASSUME NEW r \in Runs, IInv, Stale(r) PROVE IInv'
<1> DEFINE y == Leaves(r)
           x == [y EXCEPT !.stale = @ \cup {run[r].at}, !.unwritten = @ \cup {run[r].at}]
<1>1. run[r] \in Run /\ run[r].at \in Files /\ run[r].step \in Working
  BY DEF Stale, At, IInv, Local, Run, Working
<1>2. /\ y \in Run
      /\ y.step = "next" /\ y.fd = "none" /\ y.at = None
      /\ y.write = run[r].write /\ y.orig = run[r].orig /\ y.eligible = run[r].eligible
      /\ y.todo = run[r].todo /\ y.written = run[r].written /\ y.fixes = run[r].fixes
      /\ y.unwritten = run[r].unwritten /\ y.same = run[r].same /\ y.stale = run[r].stale
  BY <1>1, LeavesIs
<1>3. run' = [run EXCEPT ![r] = x] /\ UNCHANGED <<disk, tmp, edits, starts, raced, overlapped>>
  BY DEF Stale
<1> HIDE DEF y
<1>4. x \in Run
  BY <1>1, <1>2 DEF Run
<1>5. /\ x.step = "next" /\ x.fd = "none" /\ x.at = None
      /\ x.write = run[r].write /\ x.orig = run[r].orig /\ x.eligible = run[r].eligible
      /\ x.todo = run[r].todo /\ x.written = run[r].written /\ x.fixes = run[r].fixes
      /\ x.unwritten = run[r].unwritten \cup {run[r].at}
      /\ x.same = run[r].same /\ x.stale = run[r].stale \cup {run[r].at}
  BY <1>2 DEF Run
<1> HIDE DEF x
<1>6. LeavesAs(r, x, {run[r].at}, {}, {run[r].at})
  BY <1>4, <1>5 DEF LeavesAs
<1> QED
  BY <1>1, <1>3, <1>6, LeftQuietly

LEMMA RoundtripFailsStep == ASSUME NEW r \in Runs, IInv, RoundtripFails(r) PROVE IInv'
<1> DEFINE f == run[r].at
           y == Leaves(r)
           z == [y EXCEPT !.fixes[f] = 0]
           x == IF run[r].write THEN [z EXCEPT !.unwritten = @ \cup {f}] ELSE z
           u == IF run[r].write THEN {f} ELSE {}
<1>1. run[r] \in Run /\ run[r].at \in Files /\ run[r].step \in Working
  BY DEF RoundtripFails, At, IInv, Local, Run, Working
<1>2. /\ y \in Run
      /\ y.step = "next" /\ y.fd = "none" /\ y.at = None
      /\ y.write = run[r].write /\ y.orig = run[r].orig /\ y.eligible = run[r].eligible
      /\ y.todo = run[r].todo /\ y.written = run[r].written /\ y.fixes = run[r].fixes
      /\ y.unwritten = run[r].unwritten /\ y.same = run[r].same /\ y.stale = run[r].stale
  BY <1>1, LeavesIs
<1>3. run' = [run EXCEPT ![r] = x] /\ UNCHANGED <<disk, tmp, edits, starts, raced, overlapped>>
  BY DEF RoundtripFails
<1> HIDE DEF y
<1>4. /\ z \in Run
      /\ z.step = "next" /\ z.fd = "none" /\ z.at = None
      /\ z.write = run[r].write /\ z.orig = run[r].orig /\ z.eligible = run[r].eligible
      /\ z.todo = run[r].todo /\ z.written = run[r].written
      /\ \A g \in Files \ {f} : z.fixes[g] = run[r].fixes[g]
      /\ z.unwritten = run[r].unwritten /\ z.same = run[r].same /\ z.stale = run[r].stale
  BY <1>1, <1>2 DEF Run
<1> HIDE DEF z
<1>5. x \in Run
  BY <1>1, <1>4 DEF Run
<1>6. /\ x.step = "next" /\ x.fd = "none" /\ x.at = None
      /\ x.write = run[r].write /\ x.orig = run[r].orig /\ x.eligible = run[r].eligible
      /\ x.todo = run[r].todo /\ x.written = run[r].written
      /\ \A g \in Files \ {run[r].at} : x.fixes[g] = run[r].fixes[g]
      /\ x.unwritten = run[r].unwritten \cup u
      /\ x.same = run[r].same /\ x.stale = run[r].stale
  BY <1>1, <1>4 DEF Run
<1>7. u \subseteq {run[r].at} /\ (x.write => u = {run[r].at})
  BY <1>6
<1> HIDE DEF x, u
<1>8. LeavesAs(r, x, u, {}, {})
  BY <1>5, <1>6, <1>7 DEF LeavesAs
<1> QED
  BY <1>1, <1>3, <1>8, LeftQuietly

-----------------------------------------------------------------------------
\* The steps that touch the files.

LEMMA FreshStep == ASSUME NEW r \in Runs, IInv, Fresh(r) PROVE IInv'
<1> DEFINE f == run[r].at
           x == [run[r] EXCEPT !.step = "open"]
<1>1. /\ Local(run[r]) /\ run' = [run EXCEPT ![r] = x]
      /\ At(r, "check") /\ f \in Files /\ f \in run[r].eligible
      /\ UNCHANGED <<disk, tmp, edits, starts, raced>>
  BY DEF Fresh, Goes, IInv, At, Local, Working, Run
<1>2. /\ x.step = "open" /\ x.at = run[r].at /\ x.todo = run[r].todo
      /\ x.fd = run[r].fd /\ x.write = run[r].write /\ x.orig = run[r].orig
      /\ x.fixes = run[r].fixes /\ x.eligible = run[r].eligible /\ x.written = run[r].written
      /\ x.unwritten = run[r].unwritten /\ x.same = run[r].same /\ x.stale = run[r].stale
      /\ x \in Run
  BY <1>1 DEF Local, Run, Steps
<1> HIDE DEF x
<1>3. Local(x)
  BY <1>1, <1>2 DEF At, Local, Working, Replacing, Finished
<1>4. /\ DOMAIN run' = Runs /\ run' = [s \in Runs |-> run'[s]]
      /\ \A s \in Runs : run'[s] = IF s = r THEN x ELSE run[s]
  BY <1>1 DEF IInv
<1>5. \A s \in Runs : Local(run[s])'
  BY <1>3, <1>4 DEF IInv, Local, Finished
<1>6. overlapped \subseteq overlapped' /\ SharedTypeOK'
  BY <1>1 DEF IInv, SharedTypeOK, Fresh
<1>7. \A s \in Runs \ {r} : At2(s, f) => f \in overlapped'
  BY <1>1 DEF Fresh, Others, At2
<1>8. AloneInv'
  BY <1>1, <1>2, <1>4, <1>6, <1>7 DEF IInv, AloneInv, At2, At, Replacing
<1>9. TmpInv'
  <2> SUFFICES ASSUME NEW s \in Runs, NEW g \in Files \ overlapped', run'[s].at = g
               PROVE  /\ run'[s].step = "write" => run'[s].fd = "tmp" /\ tmp'[g] = Copy(Torn, s)
                      /\ run'[s].step = "replace" => tmp'[g] = Copy(Text(run'[s].orig[g].edit, TRUE), s)
    BY DEF TmpInv
  <2>1. CASE s = r
    BY <2>1, <1>2, <1>4
  <2>2. CASE s # r
    <3>1. run'[s] = run[s] /\ g \in Files \ overlapped /\ tmp' = tmp
      BY <1>1, <1>4, <1>6, <2>2
    <3> QED
      BY <3>1, TmpIs
  <2> QED
    BY <2>1, <2>2
<1>10. FixedInv'
  BY <1>1, <1>2, <1>4, <1>6 DEF IInv, FixedInv
<1>11. disk[f].text = run[r].orig[f] /\ disk[f].text # Torn
  <2>1. disk[f].text = run[r].orig[f] /\ run[r].orig[f].edit \in 0..MaxEdits
    BY <1>1 DEF Fresh, IsStale, Local
  <2>2. Torn.edit = MaxEdits + 1
    BY DEF Torn, Text
  <2>3. MaxEdits + 1 \notin 0..MaxEdits
    BY BoundAssumption
  <2> QED
    BY <2>1, <2>2, <2>3
<1>12. EditInv'
  BY <1>1, <1>2, <1>4, <1>11 DEF IInv, EditInv, EditLostOnlyInWindow, At2
<1>13. WholeUnlessOverlapped' /\ EditLostOnlyInWindow'
  BY <1>1, <1>6 DEF IInv, WholeUnlessOverlapped, EditLostOnlyInWindow
<1> QED
  BY <1>4, <1>5, <1>6, <1>8, <1>9, <1>10, <1>12, <1>13 DEF IInv

LEMMA TornCopyOf ==
    ASSUME NEW by \in Runs \cup {None}
    PROVE  Copy(Torn, by) \in Copies /\ Copy(Torn, by).text = Torn /\ Copy(Torn, by).by = by
BY DEF Copies, Copy, Texts, Torn

\* What a run writes,
LEMMA FixedCopyOf ==
    ASSUME NEW edit \in 0..MaxEdits, NEW by \in Runs
    PROVE  /\ Copy(Text(edit, TRUE), by) \in Copies
           /\ Copy(Text(edit, TRUE), by).text = Text(edit, TRUE) /\ Copy(Text(edit, TRUE), by).by = by
           /\ Text(edit, TRUE).edit = edit /\ Text(edit, TRUE).fixed /\ Text(edit, TRUE) # Torn
<1>1. edit # MaxEdits + 1
  BY BoundAssumption
<1> QED
  BY <1>1 DEF Copies, Copy, Texts, Text, Torn

\* and what a person does.
LEMMA EditedCopyOf ==
    ASSUME NEW edit \in 0..MaxEdits
    PROVE  /\ Copy(Text(edit, FALSE), None) \in Copies
           /\ Copy(Text(edit, FALSE), None).text = Text(edit, FALSE)
           /\ Copy(Text(edit, FALSE), None).by = None
           /\ Text(edit, FALSE).edit = edit /\ Text(edit, FALSE) # Torn
<1>1. edit # MaxEdits + 1
  BY BoundAssumption
<1> QED
  BY <1>1 DEF Copies, Copy, Texts, Text, Torn

LEMMA OpenTmpStep == ASSUME NEW r \in Runs, IInv, OpenTmp(r) PROVE IInv'
<1> DEFINE f == run[r].at
           x == [run[r] EXCEPT !.step = "write", !.fd = "tmp"]
<1>1. /\ Local(run[r]) /\ run = [s \in Runs |-> run[s]]
      /\ At(r, "open") /\ f \in Files
      /\ tmp' = [tmp EXCEPT ![f] = Copy(Torn, r)]
      /\ run' = [run EXCEPT ![r].step = "write", ![r].fd = "tmp"]
      /\ UNCHANGED <<disk, edits, starts, raced, overlapped>>
  BY DEF OpenTmp, IInv, At, Local, Working, Replacing, Run
<1>2. /\ x.step = "write" /\ x.at = run[r].at /\ x.todo = run[r].todo
      /\ x.fd = "tmp" /\ x.write = run[r].write /\ x.orig = run[r].orig
      /\ x.fixes = run[r].fixes /\ x.eligible = run[r].eligible /\ x.written = run[r].written
      /\ x.unwritten = run[r].unwritten /\ x.same = run[r].same /\ x.stale = run[r].stale
      /\ x \in Run
  BY <1>1 DEF Local, Run, Steps
<1>3. run' = [run EXCEPT ![r] = x]
  BY <1>1
<1> HIDE DEF x
<1>4. Local(x)
  BY <1>1, <1>2 DEF At, Local, Working, Replacing, Finished
<1>5. /\ DOMAIN run' = Runs /\ run' = [s \in Runs |-> run'[s]]
      /\ \A s \in Runs : run'[s] = IF s = r THEN x ELSE run[s]
  BY <1>3 DEF IInv
<1>6. \A s \in Runs : Local(run[s])'
  BY <1>4, <1>5 DEF IInv, Local, Finished
<1>7. Copy(Torn, r) \in Copies /\ Copy(Torn, r).text = Torn
  BY TornCopyOf
<1>8. SharedTypeOK'
  BY <1>1, <1>7 DEF IInv, SharedTypeOK
<1>9. \A g \in Files : tmp'[g] = IF g = f THEN Copy(Torn, r) ELSE tmp[g]
  BY <1>1 DEF IInv, SharedTypeOK
<1>10. At2(r, f) /\ (\A s \in Runs : f \notin overlapped /\ At2(s, f) => s = r)
  BY <1>1 DEF At2, At, Replacing, IInv, AloneInv
<1>11. AloneInv'
  BY <1>1, <1>2, <1>5, <1>10 DEF IInv, AloneInv, At2
<1>12. TmpInv'
  <2> SUFFICES ASSUME NEW s \in Runs, NEW g \in Files \ overlapped, run'[s].at = g
               PROVE  /\ run'[s].step = "write" => run'[s].fd = "tmp" /\ tmp'[g] = Copy(Torn, s)
                      /\ run'[s].step = "replace" => tmp'[g] = Copy(Text(run'[s].orig[g].edit, TRUE), s)
    BY <1>1 DEF TmpInv
  <2>1. CASE s = r
    BY <2>1, <1>2, <1>5, <1>9
  <2>2. CASE s # r
    <3>1. run'[s] = run[s]
      BY <2>2, <1>5
    <3>2. run[s].step \in Replacing => g # f
      BY <2>2, <3>1, <1>10 DEF At2
    <3>3. /\ run[s].step = "write" => run[s].fd = "tmp" /\ tmp[g] = Copy(Torn, s)
          /\ run[s].step = "replace" => tmp[g] = Copy(Text(run[s].orig[g].edit, TRUE), s)
      BY <3>1, TmpIs
    <3>4. run[s].step \in {"write", "replace"} => tmp'[g] = tmp[g]
      BY <3>2, <1>9 DEF Replacing
    <3> QED
      BY <3>1, <3>3, <3>4
  <2> QED
    BY <2>1, <2>2
<1>13. FixedInv'
  BY <1>1, <1>2, <1>5, <1>7, <1>9 DEF IInv, FixedInv
<1>14. EditInv'
  BY <1>1, <1>2, <1>5, <1>7, <1>9, <1>10 DEF IInv, EditInv, At2
<1>15. WholeUnlessOverlapped' /\ EditLostOnlyInWindow'
  BY <1>1 DEF IInv, WholeUnlessOverlapped, EditLostOnlyInWindow
<1> QED
  BY <1>5, <1>6, <1>8, <1>11, <1>12, <1>13, <1>14, <1>15 DEF IInv

LEMMA WriteTmpStep == ASSUME NEW r \in Runs, IInv, WriteTmp(r) PROVE IInv'
<1> DEFINE f == run[r].at
           e == run[r].orig[f].edit
           copy == Copy(Text(e, TRUE), r)
           x == [run[r] EXCEPT !.step = "replace", !.fd = "none"]
<1>1. /\ Local(run[r]) /\ run = [s \in Runs |-> run[s]]
      /\ At(r, "write") /\ f \in Files /\ f \in run[r].eligible
      /\ run' = [run EXCEPT ![r].step = "replace", ![r].fd = "none"]
      /\ UNCHANGED <<edits, starts, raced, overlapped>>
  BY DEF WriteTmp, IInv, At, Local, Working, Replacing, Run
<1>2. /\ x.step = "replace" /\ x.at = run[r].at /\ x.todo = run[r].todo
      /\ x.fd = "none" /\ x.write = run[r].write /\ x.orig = run[r].orig
      /\ x.fixes = run[r].fixes /\ x.eligible = run[r].eligible /\ x.written = run[r].written
      /\ x.unwritten = run[r].unwritten /\ x.same = run[r].same /\ x.stale = run[r].stale
      /\ x \in Run
  BY <1>1 DEF Local, Run, Steps
<1>3. run' = [run EXCEPT ![r] = x]
  BY <1>1
<1> HIDE DEF x
<1>4. Local(x)
  BY <1>1, <1>2 DEF At, Local, Working, Replacing, Finished
<1>5. /\ DOMAIN run' = Runs /\ run' = [s \in Runs |-> run'[s]]
      /\ \A s \in Runs : run'[s] = IF s = r THEN x ELSE run[s]
  BY <1>3 DEF IInv
<1>6. \A s \in Runs : Local(run[s])'
  BY <1>4, <1>5 DEF IInv, Local, Finished
<1>7. /\ copy \in Copies /\ copy.text = Text(e, TRUE) /\ copy.by = r
      /\ Text(e, TRUE).edit = e /\ Text(e, TRUE).fixed /\ Text(e, TRUE) # Torn
  <2>1. e \in 0..MaxEdits
    BY <1>1 DEF Local
  <2> HIDE DEF e
  <2> QED
    BY <2>1, FixedCopyOf
<1>8. At2(r, f) /\ (\A s \in Runs : f \notin overlapped /\ At2(s, f) => s = r)
  BY <1>1 DEF At2, At, Replacing, IInv, AloneInv
<1>9. f \notin overlapped => run[r].fd = "tmp"
  BY <1>1 DEF At, IInv, TmpInv
<1>10. f \notin raced => e = edits[f]
  BY <1>1, <1>8 DEF IInv, EditInv
<1>11. /\ tmp' = IF run[r].fd = "tmp" THEN [tmp EXCEPT ![f] = copy] ELSE tmp
       /\ disk' = IF run[r].fd = "disk" THEN [disk EXCEPT ![f] = copy] ELSE disk
  BY DEF WriteTmp
<1> HIDE DEF copy
<1>12. SharedTypeOK'
  BY <1>1, <1>7, <1>11 DEF IInv, SharedTypeOK
<1>13. \A g \in Files : /\ tmp'[g] = IF g = f /\ run[r].fd = "tmp" THEN copy ELSE tmp[g]
                        /\ disk'[g] = IF g = f /\ run[r].fd = "disk" THEN copy ELSE disk[g]
  BY <1>11 DEF IInv, SharedTypeOK
<1>14. AloneInv'
  BY <1>1, <1>2, <1>5, <1>8 DEF IInv, AloneInv, At2
<1>15. TmpInv'
  <2> SUFFICES ASSUME NEW s \in Runs, NEW g \in Files \ overlapped, run'[s].at = g
               PROVE  /\ run'[s].step = "write" => run'[s].fd = "tmp" /\ tmp'[g] = Copy(Torn, s)
                      /\ run'[s].step = "replace" => tmp'[g] = Copy(Text(run'[s].orig[g].edit, TRUE), s)
    BY <1>1 DEF TmpInv
  <2>1. CASE s = r
    <3>1. g = f /\ run'[s].step = "replace" /\ run'[s].orig[g].edit = e /\ tmp'[g] = copy
      BY <2>1, <1>1, <1>2, <1>5, <1>9, <1>13
    <3> QED
      BY <2>1, <3>1 DEF copy
  <2>2. CASE s # r
    <3>1. run'[s] = run[s]
      BY <2>2, <1>5
    <3>2. run[s].step \in Replacing => g # f
      BY <2>2, <3>1, <1>8 DEF At2
    <3>3. /\ run[s].step = "write" => run[s].fd = "tmp" /\ tmp[g] = Copy(Torn, s)
          /\ run[s].step = "replace" => tmp[g] = Copy(Text(run[s].orig[g].edit, TRUE), s)
      BY <3>1, TmpIs
    <3>4. run[s].step \in {"write", "replace"} => tmp'[g] = tmp[g]
      BY <3>2, <1>13 DEF Replacing
    <3> QED
      BY <3>1, <3>3, <3>4
  <2> QED
    BY <2>1, <2>2
<1>16. FixedInv'
  <2>4. \A g \in Files : /\ tmp[g] # None => tmp[g].text = Torn \/ tmp[g].text.fixed
                         /\ disk[g].by # None => disk[g].text = Torn \/ disk[g].text.fixed
    BY DEF IInv, FixedInv
  <2>5. copy.text.fixed
    BY <1>7
  <2>1. \A g \in Files : tmp'[g] # None => tmp'[g].text = Torn \/ tmp'[g].text.fixed
    <3> HIDE DEF f, e
    <3> QED
      BY <1>13, <2>4, <2>5
  <2>2. \A g \in Files : disk'[g].by # None => disk'[g].text = Torn \/ disk'[g].text.fixed
    <3> HIDE DEF f, e
    <3> QED
      BY <1>13, <2>4, <2>5
  <2>3. ASSUME NEW s \in Runs, NEW g \in run'[s].eligible \ (run'[s].written \cup overlapped)
        PROVE  disk'[g].by # s
    <3>1. run'[s].eligible = run[s].eligible /\ run'[s].written = run[s].written
      BY <1>2, <1>5
    <3>2. g \in Files /\ disk[g].by # s
      BY <3>1 DEF IInv, FixedInv, Local, Run
    <3>3. disk'[g] = disk[g]
      BY <3>2, <1>9, <1>13
    <3> QED
      BY <3>2, <3>3
  <2> QED
    BY <2>1, <2>2, <2>3, <1>1 DEF FixedInv
<1>17. EditInv'
  <2> SUFFICES ASSUME NEW s \in Runs, NEW g \in Files \ raced, run'[s].at = g, run'[s].step \in Replacing
               PROVE  /\ run'[s].orig[g].edit = edits[g]
                      /\ run'[s].step # "open" /\ tmp'[g] # None /\ tmp'[g].text # Torn
                            => tmp'[g].text.edit = edits[g]
    BY <1>1 DEF EditInv, At2
  <2>1. At2(s, g) /\ run'[s].orig = run[s].orig /\ (run'[s].step # "open" => run[s].step # "open")
    BY <1>1, <1>2, <1>5, <1>8 DEF At2, At
  <2>2. /\ run[s].orig[g].edit = edits[g]
        /\ run[s].step # "open" /\ tmp[g] # None /\ tmp[g].text # Torn => tmp[g].text.edit = edits[g]
    BY <2>1 DEF IInv, EditInv
  <2>3. tmp'[g] = tmp[g] \/ (g = f /\ tmp'[g] = copy)
    BY <1>13
  <2>4. g = f => copy.text.edit = edits[g]
    BY <1>7, <1>10
  <2> HIDE DEF f, e
  <2> QED
    BY <2>1, <2>2, <2>3, <2>4
<1>18. WholeUnlessOverlapped'
  BY <1>1, <1>7, <1>13 DEF IInv, WholeUnlessOverlapped
<1>19. EditLostOnlyInWindow'
  <2>1. \A g \in Files : disk'[g] = disk[g] \/ (g = f /\ disk'[g] = copy)
    BY <1>13
  <2>2. f \notin raced => copy.text.edit = edits[f]
    BY <1>7, <1>10
  <2>3. EditLostOnlyInWindow
    BY DEF IInv
  <2> HIDE DEF f, e
  <2> QED
    BY <1>1, <2>1, <2>2, <2>3 DEF EditLostOnlyInWindow
<1> QED
  BY <1>5, <1>6, <1>12, <1>14, <1>15, <1>16, <1>17, <1>18, <1>19 DEF IInv

-----------------------------------------------------------------------------
\* The steps that take the temporary name away from those who have it open.

\* Only where their open file is changes for the other runs.
SameButFd(x, y) ==
    /\ y.step = x.step /\ y.at = x.at /\ y.todo = x.todo /\ y.write = x.write /\ y.orig = x.orig
    /\ y.fixes = x.fixes /\ y.eligible = x.eligible /\ y.written = x.written
    /\ y.unwritten = x.unwritten /\ y.same = x.same /\ y.stale = x.stale

LEMMA MovedIs ==
    ASSUME NEW f, NEW where \in {"disk", "none"}, NEW s \in Runs, NEW y, y = Moved(f, where)[s],
           Local(run[s])
    PROVE  Local(y) /\ SameButFd(run[s], y) /\ (run[s].at # f => y = run[s])
<1>1. CASE run[s].at # f
  BY <1>1 DEF Moved, SameButFd
<1>2. CASE run[s].at = f
  <2>1. y = [run[s] EXCEPT !.fd = IF @ = "tmp" THEN where ELSE "none"] /\ run[s] \in Run
    BY <1>2 DEF Moved, Local
  <2>2. SameButFd(run[s], y)
    BY <2>1 DEF Run, SameButFd
  <2>3. y \in Run /\ (y.fd # "none" => run[s].fd # "none")
    BY <2>1 DEF Run
  <2> QED
    BY <1>2, <2>2, <2>3 DEF Local, SameButFd, Finished
<1> QED
  BY <1>1, <1>2

\* A run leaves its file, whose temporary name is gone.
LEMMA NameTaken ==
    ASSUME NEW r \in Runs, IInv, run[r].step \in Replacing, NEW x, Local(x), x.at = None,
           x.step \notin Replacing, x.eligible = run[r].eligible, run[r].written \subseteq x.written,
           NEW where \in {"disk", "none"},
           run' = [Moved(run[r].at, where) EXCEPT ![r] = x],
           tmp' = [tmp EXCEPT ![run[r].at] = None],
           UNCHANGED <<edits, starts, raced, overlapped>>
    PROVE  /\ DOMAIN run' = Runs /\ run' = [s \in Runs |-> run'[s]]
           /\ \A s \in Runs : Local(run[s])'
           /\ \A s \in Runs \ {r} : SameButFd(run[s], run'[s])
           /\ run'[r] = x
           /\ tmp' \in [Files -> Copies \cup {None}]
           /\ AloneInv' /\ TmpInv' /\ EditInv'
<1> DEFINE f == run[r].at
<1>1. /\ DOMAIN run' = Runs /\ run' = [s \in Runs |-> run'[s]] /\ run'[r] = x
      /\ \A s \in Runs \ {r} : run'[s] = Moved(f, where)[s]
  BY DEF Moved
<1>2. \A s \in Runs \ {r} : /\ Local(run'[s]) /\ SameButFd(run[s], run'[s])
                            /\ run[s].at # f => run'[s] = run[s]
  BY <1>1, MovedIs DEF IInv
<1>3. \A s \in Runs : Local(run[s])'
  <2> SUFFICES ASSUME NEW s \in Runs PROVE Local(run[s])'
    OBVIOUS
  <2>1. Local(run'[s])
    BY <1>1, <1>2
  <2> QED
    BY <2>1 DEF Local, Finished
<1>4. f \in Files /\ At2(r, f)
  BY DEF IInv, Local, Run, Working, At2
<1>5. /\ tmp' \in [Files -> Copies \cup {None}]
      /\ \A g \in Files : tmp'[g] = IF g = f THEN None ELSE tmp[g]
  BY <1>4 DEF IInv, SharedTypeOK
<1>6. \A s \in Runs, g \in Files : At2(s, g)' => s # r /\ At2(s, g)
  BY <1>1, <1>2, NoneAssumption DEF At2, SameButFd
<1>7. AloneInv'
  BY <1>6 DEF IInv, AloneInv
<1>8. TmpInv'
  <2> SUFFICES ASSUME NEW s \in Runs, NEW g \in Files \ overlapped, run'[s].at = g
               PROVE  /\ run'[s].step = "write" => run'[s].fd = "tmp" /\ tmp'[g] = Copy(Torn, s)
                      /\ run'[s].step = "replace" => tmp'[g] = Copy(Text(run'[s].orig[g].edit, TRUE), s)
    BY DEF TmpInv
  <2>1. CASE run'[s].step \notin Replacing
    BY <2>1 DEF Replacing
  <2>2. CASE run'[s].step \in Replacing
    <3>1. s # r /\ At2(s, g)
      BY <2>2, <1>6 DEF At2
    <3>2. g # f
      BY <3>1, <1>4 DEF IInv, AloneInv
    <3>3. run'[s] = run[s] /\ tmp'[g] = tmp[g]
      BY <3>1, <3>2, <1>2, <1>5 DEF At2
    <3>4. run[s].at = g
      BY <3>1 DEF At2
    <3> QED
      BY <3>3, <3>4, TmpIs
  <2> QED
    BY <2>1, <2>2
<1>9. EditInv'
  <2> SUFFICES ASSUME NEW s \in Runs, NEW g \in Files \ raced, At2(s, g)'
               PROVE  /\ run'[s].orig[g].edit = edits[g]
                      /\ run'[s].step # "open" /\ tmp'[g] # None /\ tmp'[g].text # Torn
                            => tmp'[g].text.edit = edits[g]
    BY DEF EditInv
  <2>1. s # r /\ At2(s, g) /\ SameButFd(run[s], run'[s])
    BY <1>2, <1>6
  <2>2. /\ run[s].orig[g].edit = edits[g]
        /\ run[s].step # "open" /\ tmp[g] # None /\ tmp[g].text # Torn => tmp[g].text.edit = edits[g]
    BY <2>1 DEF IInv, EditInv
  <2>3. tmp'[g] = None \/ tmp'[g] = tmp[g]
    BY <1>5
  <2> QED
    BY <2>1, <2>2, <2>3 DEF SameButFd
<1> QED
  BY <1>1, <1>2, <1>3, <1>5, <1>7, <1>8, <1>9

LEMMA ReplaceFileStep == ASSUME NEW r \in Runs, IInv, ReplaceFile(r) PROVE IInv'
<1> DEFINE f == run[r].at
           y == Leaves(r)
           x == [y EXCEPT !.written = @ \cup {f}]
<1>1. /\ Local(run[r]) /\ run[r] \in Run /\ f \in Files /\ f \in run[r].eligible
      /\ At(r, "replace") /\ run[r].step \in Replacing /\ tmp[f] # None
      /\ run' = [Moved(f, "disk") EXCEPT ![r] = x]
      /\ disk' = [disk EXCEPT ![f] = tmp[f]] /\ tmp' = [tmp EXCEPT ![f] = None]
      /\ UNCHANGED <<edits, starts, raced, overlapped>>
  BY DEF ReplaceFile, IInv, At, Local, Working, Replacing, Run
<1>2. /\ y \in Run
      /\ y.step = "next" /\ y.fd = "none" /\ y.at = None
      /\ y.write = run[r].write /\ y.orig = run[r].orig /\ y.eligible = run[r].eligible
      /\ y.todo = run[r].todo /\ y.written = run[r].written /\ y.fixes = run[r].fixes
      /\ y.unwritten = run[r].unwritten /\ y.same = run[r].same /\ y.stale = run[r].stale
  BY <1>1, LeavesIs
<1> HIDE DEF y
<1>3. x \in Run
  BY <1>1, <1>2 DEF Run
<1>4. /\ x.step = "next" /\ x.fd = "none" /\ x.at = None
      /\ x.write = run[r].write /\ x.orig = run[r].orig /\ x.eligible = run[r].eligible
      /\ x.todo = run[r].todo /\ x.written = run[r].written \cup {f} /\ x.fixes = run[r].fixes
      /\ x.unwritten = run[r].unwritten /\ x.same = run[r].same /\ x.stale = run[r].stale
  BY <1>2 DEF Run
<1> HIDE DEF x
<1>5. Local(x)
  BY <1>1, <1>3, <1>4, NoneAssumption DEF Local, At, Run, Working, Replacing, Finished
<1>6. /\ DOMAIN run' = Runs /\ run' = [s \in Runs |-> run'[s]]
      /\ \A s \in Runs : Local(run[s])'
      /\ \A s \in Runs \ {r} : SameButFd(run[s], run'[s])
      /\ run'[r] = x
      /\ tmp' \in [Files -> Copies \cup {None}]
      /\ AloneInv' /\ TmpInv' /\ EditInv'
  <2>1. x.step \notin Replacing /\ run[r].written \subseteq x.written
    BY <1>4 DEF Replacing
  <2> HIDE DEF f
  <2> QED
    BY <1>1, <1>4, <1>5, <2>1, NameTaken DEF f
<1>7. tmp[f] \in Copies
  BY <1>1 DEF IInv, SharedTypeOK
<1>8. \A g \in Files : /\ disk'[g] = IF g = f THEN tmp[f] ELSE disk[g]
                       /\ tmp'[g] = IF g = f THEN None ELSE tmp[g]
  BY <1>1 DEF IInv, SharedTypeOK
<1>9. SharedTypeOK'
  BY <1>1, <1>6, <1>7 DEF IInv, SharedTypeOK
<1>10. f \notin overlapped => tmp[f].by = r /\ tmp[f].text # Torn
  <2> DEFINE e == run[r].orig[f].edit
  <2>1. e \in 0..MaxEdits
    BY <1>1 DEF Local
  <2>2. f \notin overlapped => tmp[f] = Copy(Text(e, TRUE), r)
    BY <1>1 DEF IInv, TmpInv, At
  <2> HIDE DEF f, e
  <2>3. Copy(Text(e, TRUE), r).by = r /\ Copy(Text(e, TRUE), r).text # Torn
    <3>1. /\ Copy(Text(e, TRUE), r).by = r /\ Text(e, TRUE) # Torn
          /\ Copy(Text(e, TRUE), r).text = Text(e, TRUE)
      BY <2>1, FixedCopyOf
    <3> QED
      BY <3>1
  <2> QED
    BY <2>2, <2>3
<1>11. FixedInv'
  <2>1. \A g \in Files : tmp'[g] # None => tmp'[g].text = Torn \/ tmp'[g].text.fixed
    BY <1>8 DEF IInv, FixedInv
  <2>2. \A g \in Files : disk'[g].by # None => disk'[g].text = Torn \/ disk'[g].text.fixed
    BY <1>1, <1>8 DEF IInv, FixedInv
  <2>3. ASSUME NEW s \in Runs, NEW g \in run'[s].eligible \ (run'[s].written \cup overlapped)
        PROVE  disk'[g].by # s
    <3>1. CASE s = r
      BY <3>1, <1>4, <1>6, <1>8, <1>1 DEF IInv, FixedInv, Run
    <3>2. CASE s # r
      <4>1. g \in run[s].eligible \ (run[s].written \cup overlapped) /\ g \in Files
        BY <3>2, <1>6 DEF SameButFd, IInv, Local, Run
      <4> QED
        BY <3>2, <4>1, <1>8, <1>10 DEF IInv, FixedInv
    <3> QED
      BY <3>1, <3>2
  <2> QED
    BY <2>1, <2>2, <2>3, <1>1 DEF FixedInv
<1>12. WholeUnlessOverlapped'
  BY <1>1, <1>8, <1>10 DEF IInv, WholeUnlessOverlapped
<1>13. EditLostOnlyInWindow'
  <2>1. f \notin raced /\ tmp[f].text # Torn => tmp[f].text.edit = edits[f]
    BY <1>1 DEF IInv, EditInv, At2, At
  <2> QED
    BY <1>1, <1>8, <2>1 DEF IInv, EditLostOnlyInWindow
<1> QED
  BY <1>6, <1>9, <1>11, <1>12, <1>13 DEF IInv

LEMMA WriteFailsStep == ASSUME NEW r \in Runs, IInv, WriteFails(r) PROVE IInv'
<1> DEFINE f == run[r].at
           y == Leaves(r)
           x == [y EXCEPT !.unwritten = @ \cup {f}]
<1>1. /\ Local(run[r]) /\ run[r] \in Run /\ f \in Files
      /\ run[r].step \in Replacing /\ run[r].step \in Working
      /\ run' = [Moved(f, "none") EXCEPT ![r] = x]
      /\ tmp' = [tmp EXCEPT ![f] = None]
      /\ UNCHANGED <<disk, edits, starts, raced, overlapped>>
  BY DEF WriteFails, IInv, Local, Working, Run
<1>2. /\ y \in Run
      /\ y.step = "next" /\ y.fd = "none" /\ y.at = None
      /\ y.write = run[r].write /\ y.orig = run[r].orig /\ y.eligible = run[r].eligible
      /\ y.todo = run[r].todo /\ y.written = run[r].written /\ y.fixes = run[r].fixes
      /\ y.unwritten = run[r].unwritten /\ y.same = run[r].same /\ y.stale = run[r].stale
  BY <1>1, LeavesIs
<1> HIDE DEF y
<1>3. x \in Run
  BY <1>1, <1>2 DEF Run
<1>4. /\ x.step = "next" /\ x.fd = "none" /\ x.at = None
      /\ x.write = run[r].write /\ x.orig = run[r].orig /\ x.eligible = run[r].eligible
      /\ x.todo = run[r].todo /\ x.written = run[r].written /\ x.fixes = run[r].fixes
      /\ x.unwritten = run[r].unwritten \cup {f} /\ x.same = run[r].same /\ x.stale = run[r].stale
  BY <1>2 DEF Run
<1> HIDE DEF x
<1>5. LeavesAs(r, x, {f}, {}, {})
  BY <1>3, <1>4 DEF LeavesAs
<1>6. Local(x)
  BY <1>1, <1>5, Left
<1>7. /\ DOMAIN run' = Runs /\ run' = [s \in Runs |-> run'[s]]
      /\ \A s \in Runs : Local(run[s])'
      /\ \A s \in Runs \ {r} : SameButFd(run[s], run'[s])
      /\ run'[r] = x
      /\ tmp' \in [Files -> Copies \cup {None}]
      /\ AloneInv' /\ TmpInv' /\ EditInv'
  <2>1. x.step \notin Replacing /\ run[r].written \subseteq x.written
    BY <1>4 DEF Replacing
  <2> HIDE DEF f
  <2> QED
    BY <1>1, <1>4, <1>6, <2>1, NameTaken DEF f
<1>8. SharedTypeOK'
  BY <1>1, <1>7 DEF IInv, SharedTypeOK
<1>9. \A g \in Files : tmp'[g] = None \/ tmp'[g] = tmp[g]
  BY <1>1 DEF IInv, SharedTypeOK
<1>10. FixedInv'
  <2>1. \A g \in Files : tmp'[g] # None => tmp'[g].text = Torn \/ tmp'[g].text.fixed
    BY <1>9 DEF IInv, FixedInv
  <2>2. \A g \in Files : disk[g].by # None => disk[g].text = Torn \/ disk[g].text.fixed
    BY DEF IInv, FixedInv
  <2>3. ASSUME NEW s \in Runs, NEW g \in run'[s].eligible \ (run'[s].written \cup overlapped)
        PROVE  disk[g].by # s
    <3>1. run'[s].eligible = run[s].eligible /\ run'[s].written = run[s].written
      BY <1>4, <1>7 DEF SameButFd
    <3> QED
      BY <3>1 DEF IInv, FixedInv
  <2> QED
    BY <2>1, <2>2, <2>3, <1>1 DEF FixedInv
<1>11. WholeUnlessOverlapped' /\ EditLostOnlyInWindow'
  BY <1>1 DEF IInv, WholeUnlessOverlapped, EditLostOnlyInWindow
<1> QED
  BY <1>7, <1>8, <1>10, <1>11 DEF IInv

LEMMA EditStep == ASSUME NEW f \in Files, IInv, Edit(f) PROVE IInv'
<1> DEFINE text == Text(edits[f] + 1, FALSE)
           copy == Copy(text, None)
<1>1. /\ edits[f] < MaxEdits /\ edits' = [edits EXCEPT ![f] = @ + 1]
      /\ disk' = [disk EXCEPT ![f] = copy]
      /\ UNCHANGED <<tmp, run, starts, overlapped>>
      /\ raced' = raced \cup {g \in {f} : \E r \in Runs : run[r].at = f /\ run[r].step \in Replacing}
  BY DEF Edit
<1>2. edits[f] + 1 \in 0..MaxEdits
  BY <1>1, BoundAssumption DEF IInv, SharedTypeOK
<1>3. copy \in Copies /\ copy.text = text /\ copy.by = None /\ text # Torn /\ text.edit = edits[f] + 1
  BY <1>2, EditedCopyOf
<1> HIDE DEF copy, text
<1>4. SharedTypeOK'
  BY <1>1, <1>2, <1>3 DEF IInv, SharedTypeOK
<1>5. \A g \in Files : /\ disk'[g] = IF g = f THEN copy ELSE disk[g]
                       /\ edits'[g] = IF g = f THEN edits[f] + 1 ELSE edits[g]
  BY <1>1 DEF IInv, SharedTypeOK
<1>6. raced \subseteq raced' /\ \A s \in Runs, g \in Files \ raced' : At2(s, g) => g # f
  BY <1>1 DEF At2
<1>7. AloneInv' /\ TmpInv'
  <2>1. AloneInv'
    BY <1>1 DEF IInv, AloneInv, At2
  <2>2. TmpInv'
    <3>1. TmpInv
      BY DEF IInv
    <3> QED
      BY <1>1, <3>1 DEF TmpInv
  <2> QED
    BY <2>1, <2>2
<1>8. EditInv'
  <2>1. \A s \in Runs, g \in Files : At2(s, g)' <=> At2(s, g)
    BY <1>1 DEF At2
  <2> QED
    BY <1>1, <1>5, <1>6, <2>1 DEF IInv, EditInv
<1>9. FixedInv'
  <2>1. \A g \in Files : disk'[g].by # None => disk'[g].text = Torn \/ disk'[g].text.fixed
    BY <1>3, <1>5 DEF IInv, FixedInv
  <2>2. ASSUME NEW s \in Runs, NEW g \in run[s].eligible \ (run[s].written \cup overlapped)
        PROVE  disk'[g].by # s
    <3>1. g \in Files /\ s # None
      BY NoneAssumption DEF IInv, Local, Run
    <3> QED
      BY <3>1, <1>3, <1>5 DEF IInv, FixedInv
  <2> QED
    BY <1>1, <2>1, <2>2 DEF IInv, FixedInv
<1>10. WholeUnlessOverlapped' /\ EditLostOnlyInWindow'
  BY <1>1, <1>3, <1>5, <1>6 DEF IInv, WholeUnlessOverlapped, EditLostOnlyInWindow
<1> QED
  BY <1>1, <1>4, <1>7, <1>8, <1>9, <1>10 DEF IInv

-----------------------------------------------------------------------------

LEMMA InitLemma == Init => IInv
<1> SUFFICES ASSUME Init PROVE IInv
  OBVIOUS
<1> DEFINE c == Copy(Text(0, FALSE), None)
<1>1. c \in Copies /\ c.text # Torn /\ c.by = None /\ c.text.edit = 0
  <2>1. 0 \in 0..MaxEdits
    BY BoundAssumption
  <2> QED
    BY <2>1, EditedCopyOf
<1>2. /\ disk = [f \in Files |-> c] /\ tmp = [f \in Files |-> None]
      /\ edits = [f \in Files |-> 0] /\ run = [r \in Runs |-> NoRun]
      /\ starts = 0 /\ raced = {} /\ overlapped = {}
  BY DEF Init
<1> HIDE DEF c
<1>3. SharedTypeOK
  BY <1>1, <1>2, BoundAssumption DEF SharedTypeOK
<1>4. Local(NoRun)
  <2>1. NoRun \in Run
    BY DEF Run, NoRun, Steps
  <2> QED
    BY <2>1, NoneAssumption DEF Local, NoRun, Working, Replacing, Finished
<1>5. \A r \in Runs : run[r].step = "off" /\ run[r].eligible = {}
  BY <1>2 DEF NoRun
<1>6. AloneInv /\ TmpInv /\ EditInv
  BY <1>5 DEF AloneInv, TmpInv, EditInv, At2, Replacing
<1>7. FixedInv
  BY <1>1, <1>2, <1>5 DEF FixedInv
<1>8. WholeUnlessOverlapped /\ EditLostOnlyInWindow
  BY <1>1, <1>2 DEF WholeUnlessOverlapped, EditLostOnlyInWindow
<1> QED
  BY <1>2, <1>3, <1>4, <1>6, <1>7, <1>8 DEF IInv

LEMMA NextStep == IInv /\ [Next]_vars => IInv'
<1> SUFFICES ASSUME IInv, [Next]_vars PROVE IInv'
  OBVIOUS
<1>1. CASE UNCHANGED vars
  <2> USE <1>1 DEF vars, IInv
  <2>1. SharedTypeOK'
    BY DEF SharedTypeOK
  <2>2. AloneInv'
    BY DEF AloneInv, At2
  <2>3. TmpInv'
    <3>1. UNCHANGED <<run, tmp, overlapped>> /\ TmpInv
      OBVIOUS
    <3> HIDE <1>1 DEF vars, IInv
    <3> QED
      BY <3>1 DEF TmpInv
  <2>4. FixedInv'
    BY DEF FixedInv
  <2>5. EditInv'
    BY DEF EditInv, At2
  <2>6. WholeUnlessOverlapped' /\ EditLostOnlyInWindow'
    BY DEF WholeUnlessOverlapped, EditLostOnlyInWindow
  <2>7. \A r \in Runs : Local(run[r])'
    BY DEF Local, Finished
  <2> QED
    BY <2>1, <2>2, <2>3, <2>4, <2>5, <2>6, <2>7
<1>2. ASSUME NEW r \in Runs, RunStep(r) PROVE IInv'
  BY <1>2, StartStep, UnknownStep, NextFileStep, PatchSucceedsStep, PatchFailsStep, PatchedStep,
     RoundtripFailsStep, RoundtripPassesStep, GuardedStep, LocatedStep, StaleStep, FreshStep,
     OpenTmpStep, WriteTmpStep, ReplaceFileStep, WriteFailsStep, FinishStep, StopStep DEF RunStep
<1>3. ASSUME NEW f \in Files, Edit(f) PROVE IInv'
  BY <1>3, EditStep
<1> QED
  BY <1>1, <1>2, <1>3 DEF Next

\* The strengthened invariant holds in every state: the lists of each run are consistent, the
\* temporary file of a run that is alone is its own, and what it is about to put in place
\* stems from the last edit.
THEOREM InductiveInvariant == Spec => []IInv
<1>1. Init => IInv
  BY InitLemma
<1>2. IInv /\ [Next]_vars => IInv'
  BY NextStep
<1> QED
  BY <1>1, <1>2, PTL DEF Spec

\* os.replace of a sibling temporary file leaves a whole text in the project, whatever fails
\* and whenever a run is killed, unless two runs shared the temporary name.
THEOREM WholeFiles == Spec => []WholeUnlessOverlapped
<1>1. IInv => WholeUnlessOverlapped
  BY DEF IInv
<1> QED
  BY <1>1, InductiveInvariant, PTL

\* A person's edit is overwritten only if it falls between the stale check and os.replace.
THEOREM EditsLostInWindow == Spec => []EditLostOnlyInWindow
<1>1. IInv => EditLostOnlyInWindow
  BY DEF IInv
<1> QED
  BY <1>1, InductiveInvariant, PTL

\* written_files, unwritten_eligible_files and stale_files tell what happened to each file.
THEOREM TrueReport == Spec => []ReportIsTrue
<1>1. IInv => ReportIsTrue
  <2> SUFFICES ASSUME IInv, NEW r \in Runs
               PROVE  /\ run[r].written \cap run[r].unwritten = {} /\ run[r].stale \subseteq run[r].unwritten
                      /\ At(r, "done") /\ run[r].write =>
                            run[r].written \cup run[r].unwritten = run[r].eligible \ run[r].same
                      /\ \A f \in run[r].written : run[r].fixes[f] = Flaws[f]
                      /\ \A f \in run[r].unwritten \ overlapped : disk[f].by # r
    BY DEF ReportIsTrue
  <2>1. Local(run[r])
    BY DEF IInv
  <2>2. At(r, "done") /\ run[r].write =>
           run[r].written \cup run[r].unwritten = run[r].eligible \ run[r].same
    BY <2>1, NoneAssumption DEF At, Local, Run, Working, Replacing, Finished
  <2>3. \A f \in run[r].unwritten \ overlapped : disk[f].by # r
    BY <2>1 DEF IInv, FixedInv, Local, Finished
  <2> QED
    BY <2>1, <2>2, <2>3 DEF Local
<1> QED
  BY <1>1, InductiveInvariant, PTL

\* Every variable of the runs and the files keeps its type: edits and starts their bounds, and
\* each run's lists the shape its record says.
THEOREM TypeCorrect == Spec => []TypeOK
<1>1. IInv => TypeOK
  BY DEF IInv, Local, SharedTypeOK, TypeOK
<1> QED
  BY <1>1, InductiveInvariant, PTL
=============================================================================
