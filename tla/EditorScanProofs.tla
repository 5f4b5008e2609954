---------------------------- MODULE EditorScanProofs ----------------------------
(***************************************************************************)
(* Proofs about EditorScan for any scanner, document and padding, and for  *)
(* any number of edits and scans.                                          *)
(*                                                                         *)
(* A result is shown only if its scan is the latest one, so the diagnostics *)
(* can only go wrong through that scan: CurrentInv says that every line it *)
(* vouches for still has the findings that it had when the scan began,     *)
(* unless the line is waiting to be scanned again, and that the lines it   *)
(* no longer vouches for are known to be lost.  Nothing is assumed of the  *)
(* scanner but that it is a function of the text.                          *)
(***************************************************************************)
EXTENDS EditorScan, FiniteSetTheorems, TLAPS

IsText(t) == t \in Seq(LineTexts) /\ Len(t) \in 1..MaxLength

ScanRec == [gen : Nat, full : BOOLEAN, lines : SUBSET Positions, copy : BOOLEAN, unsaved : BOOLEAN,
            place : Places, found : SUBSET [line : Positions, flaw : Flaws],
            text : Seq(LineTexts), owes : SUBSET Positions]

TypesInv ==
    /\ IsText(buffer)
    /\ disk = NoFile \/ IsText(disk)
    /\ staged = NoFile \/ IsText(staged)
    /\ dirty \in BOOLEAN /\ open \in BOOLEAN /\ timer \in BOOLEAN
    /\ inFlight \in BOOLEAN /\ queuedWhileBusy \in BOOLEAN
    /\ pending \subseteq Positions /\ lost \subseteq Positions
    /\ generation \in Nat
    /\ scans \subseteq ScanRec

\* Scans report and owe lines of their own, and no two have one number.
ScansInv ==
    /\ \A s \in scans : /\ s.gen <= generation /\ s.owes \subseteq s.lines
                        /\ s.full => s.lines = Positions
                        /\ \A f \in s.found : f.line \in s.lines
    /\ \A s, t \in scans : s.gen = t.gen => s = t

OneInv ==
    /\ \A s, t \in scans : ~s.full /\ ~t.full => s = t
    /\ inFlight <=> \E s \in scans : ~s.full

\* The saved file and the buffer differ only while the document is dirty, and a closed
\* document is not.
SavedInv == /\ ~dirty => disk = buffer \/ disk = NoFile
            /\ ~open => ~dirty

CurrentInv ==
    \A s \in scans : s.gen = generation =>
        /\ \A l \in s.owes : \/ Findings(s.text, {l}) = Findings(buffer, {l})
                             \/ dirty /\ l \in pending
        /\ s.lines \ s.owes \subseteq lost

IInv == /\ TypesInv /\ ScansInv /\ OneInv /\ SavedInv /\ CurrentInv
        /\ PendingWillFire /\ WrongIsAccountedFor

-----------------------------------------------------------------------------
\* The findings of a text.

LEMMA FindingsAt ==
    ASSUME NEW text, NEW ls, NEW l
    PROVE  {f \in Findings(text, ls) : f.line = l} = IF l \in ls THEN Findings(text, {l}) ELSE {}
BY DEF Findings

LEMMA TextsAre == \A t : t \in Texts <=> IsText(t)
<1> SUFFICES ASSUME NEW t PROVE t \in Texts <=> IsText(t)
  OBVIOUS
<1>1. MaxLength \in Nat
  BY NumbersAssumption
<1>2. ASSUME t \in Texts PROVE IsText(t)
  <2>1. PICK n \in 1..MaxLength : t \in [1..n -> LineTexts]
    BY <1>2 DEF Texts
  <2>2. n \in Nat /\ t \in Seq(LineTexts) /\ Len(t) = n
    BY <1>1, <2>1
  <2> QED
    BY <1>1, <2>1, <2>2 DEF IsText
<1>3. ASSUME IsText(t) PROVE t \in Texts
  <2>1. t \in Seq(LineTexts) /\ Len(t) \in 1..MaxLength
    BY <1>1, <1>3 DEF IsText
  <2>2. t \in [1..Len(t) -> LineTexts]
    BY <2>1
  <2> QED
    BY <2>1, <2>2 DEF Texts
<1> QED
  BY <1>2, <1>3

LEMMA FindingsTyped ==
    ASSUME NEW text \in Texts, NEW ls \in SUBSET Positions
    PROVE  /\ Findings(text, ls) \subseteq [line : Positions, flaw : Flaws]
           /\ \A f \in Findings(text, ls) : f.line \in ls
<1>1. Analysis[text] \in SUBSET [line : 1..MaxLength, flaw : Flaws]
  BY AnalysisAssumption
<1>2. 1..MaxLength \subseteq Positions
  BY NumbersAssumption DEF Positions
<1> QED
  BY <1>1, <1>2 DEF Findings

LEMMA LinesOf ==
    ASSUME NEW text, IsText(text)
    PROVE  /\ DOMAIN text \subseteq Positions
           /\ \A ls \in SUBSET Positions :
                 /\ Findings(text, ls) \subseteq [line : Positions, flaw : Flaws]
                 /\ \A f \in Findings(text, ls) : f.line \in ls
<1>1. DOMAIN text \subseteq Positions
  BY NumbersAssumption DEF IsText, Positions
<1>2. text \in Texts
  BY TextsAre DEF IsText
<1> QED
  BY <1>1, <1>2, FindingsTyped

-----------------------------------------------------------------------------
\* Scans that owe less than they did.

SameButOwes(s, t) ==
    /\ t.gen = s.gen /\ t.full = s.full /\ t.lines = s.lines /\ t.found = s.found /\ t.text = s.text

Owing(s, D) == [s EXCEPT !.owes = @ \ D]

ShrunkTo(S, D, T) ==
    /\ T \subseteq ScanRec
    /\ \A t \in T : \E s \in S : SameButOwes(s, t) /\ t.owes = s.owes \ D
    /\ \A s \in S : \E t \in T : SameButOwes(s, t) /\ t.owes = s.owes \ D
    /\ \A t, u \in T : t.gen = u.gen => t = u
    /\ \A t, u \in T : ~t.full /\ ~u.full => t = u

LEMMA Shrunk ==
    ASSUME IInv, NEW S \in SUBSET scans, NEW D
    PROVE  ShrunkTo(S, D, {Owing(s, D) : s \in S})
<1> DEFINE T == {Owing(s, D) : s \in S}
<1>1. \A s \in S : Owing(s, D) \in ScanRec /\ SameButOwes(s, Owing(s, D)) /\ Owing(s, D).owes = s.owes \ D
  <2> SUFFICES ASSUME NEW s \in S
               PROVE  Owing(s, D) \in ScanRec /\ SameButOwes(s, Owing(s, D)) /\ Owing(s, D).owes = s.owes \ D
    OBVIOUS
  <2>1. s \in ScanRec
    BY DEF IInv, TypesInv
  <2> QED
    BY <2>1 DEF Owing, ScanRec, SameButOwes
<1>2. ASSUME NEW t \in T, NEW u \in T, t.gen = u.gen \/ (~t.full /\ ~u.full) PROVE t = u
  <2>1. PICK s \in S : t = Owing(s, D)
    OBVIOUS
  <2>2. PICK r \in S : u = Owing(r, D)
    OBVIOUS
  <2>3. s = r
    BY <1>1, <1>2, <2>1, <2>2 DEF SameButOwes, IInv, ScansInv, OneInv
  <2> QED
    BY <2>1, <2>2, <2>3
<1>3. /\ \A t \in T : \E s \in S : t = Owing(s, D)
      /\ \A s \in S : Owing(s, D) \in T
  OBVIOUS
<1> HIDE DEF T
<1>4. ShrunkTo(S, D, T)
  BY <1>1, <1>2, <1>3 DEF ShrunkTo
<1> QED
  BY <1>4 DEF T

LEMMA OwingNothing == ASSUME IInv PROVE scans = {Owing(s, {}) : s \in scans}
<1>1. ASSUME NEW s \in scans PROVE Owing(s, {}) = s
  <2>1. s \in ScanRec
    BY DEF IInv, TypesInv
  <2> QED
    BY <2>1 DEF Owing, ScanRec
<1> QED
  BY <1>1

\* What the scans of a step that only shrinks them are still known for.
LEMMA ShrunkInv ==
    ASSUME IInv, NEW D, scans' = {Owing(s, D) : s \in scans}, UNCHANGED <<generation, inFlight>>
    PROVE  /\ scans' \subseteq ScanRec /\ ScansInv' /\ OneInv'
           /\ \A t \in scans' : \E s \in scans : SameButOwes(s, t) /\ t.owes = s.owes \ D
           /\ \A s \in scans : \A l \in s.owes \ D : \E t \in scans' : l \in t.owes
<1>1. ShrunkTo(scans, D, scans')
  <2>1. scans \in SUBSET scans
    OBVIOUS
  <2>2. ShrunkTo(scans, D, {Owing(s, D) : s \in scans})
    BY <2>1, Shrunk
  <2> QED
    BY <2>2
<1>2. /\ \A t \in scans' : \E s \in scans : SameButOwes(s, t) /\ t.owes = s.owes \ D
      /\ \A s \in scans : \E t \in scans' : SameButOwes(s, t) /\ t.owes = s.owes \ D
      /\ \A t, u \in scans' : t.gen = u.gen => t = u
      /\ \A t, u \in scans' : ~t.full /\ ~u.full => t = u
  BY <1>1 DEF ShrunkTo
<1>3. ScansInv'
  <2>1. ASSUME NEW t \in scans'
        PROVE  /\ t.gen <= generation /\ t.owes \subseteq t.lines
               /\ t.full => t.lines = Positions
               /\ \A f \in t.found : f.line \in t.lines
    <3>1. PICK s \in scans : SameButOwes(s, t) /\ t.owes = s.owes \ D
      BY <1>2
    <3> QED
      BY <3>1 DEF IInv, ScansInv, SameButOwes
  <2> QED
    BY <1>2, <2>1 DEF ScansInv
<1>4. OneInv'
  <2>1. (\E s \in scans : ~s.full) <=> \E t \in scans' : ~t.full
    <3>1. ASSUME NEW s \in scans, ~s.full PROVE \E t \in scans' : ~t.full
      BY <1>2, <3>1 DEF SameButOwes
    <3>2. ASSUME NEW t \in scans', ~t.full PROVE \E s \in scans : ~s.full
      <4>1. PICK s \in scans : SameButOwes(s, t)
        BY <1>2
      <4> QED
        BY <3>2, <4>1 DEF SameButOwes
    <3> QED
      BY <3>1, <3>2
  <2> QED
    BY <1>2, <2>1 DEF IInv, OneInv
<1>5. ASSUME NEW s \in scans, NEW l \in s.owes \ D PROVE \E t \in scans' : l \in t.owes
  BY <1>2
<1> QED
  BY <1>1, <1>2, <1>3, <1>4, <1>5 DEF ShrunkTo

-----------------------------------------------------------------------------
\* Content changes.  The lines whose findings change are recorded, or else are lost.

LEMMA Edited ==
    ASSUME IInv, NEW text, IsText(text), NEW ls \in SUBSET Positions, Edit(text, ls)
    PROVE  IInv'
<1> DEFINE D == Elsewhere(text, ls)
<1>0. /\ D \in SUBSET Positions /\ lost' = lost \cup D /\ scans' = {Owing(s, D) : s \in scans}
      /\ \A l \in Positions \ (D \cup ls) : Findings(text, {l}) = Findings(buffer, {l})
  BY DEF Edit, Elsewhere, Owing
<1> HIDE DEF D
<1>1. /\ open /\ buffer' = text /\ dirty' = TRUE /\ pending' = pending \cup ls /\ timer' = TRUE
      /\ UNCHANGED <<disk, open, inFlight, queuedWhileBusy, generation, staged, cached>>
  BY DEF Edit, RecordChange
<1>2. /\ scans' \subseteq ScanRec /\ ScansInv' /\ OneInv'
      /\ \A t \in scans' : \E s \in scans : SameButOwes(s, t) /\ t.owes = s.owes \ D
      /\ \A s \in scans : \A l \in s.owes \ D : \E t \in scans' : l \in t.owes
  BY <1>0, <1>1, ShrunkInv
<1>3. TypesInv'
  BY <1>0, <1>1, <1>2 DEF IInv, TypesInv, IsText
<1>4. SavedInv'
  BY <1>1 DEF SavedInv
<1>5. CurrentInv'
  <2> SUFFICES ASSUME NEW t \in scans', t.gen = generation
               PROVE  /\ \A l \in t.owes : \/ Findings(t.text, {l}) = Findings(text, {l})
                                           \/ l \in pending'
                      /\ t.lines \ t.owes \subseteq lost'
    BY <1>1 DEF CurrentInv
  <2>1. PICK s \in scans : SameButOwes(s, t) /\ t.owes = s.owes \ D
    BY <1>2
  <2>2. /\ \A l \in s.owes : \/ Findings(s.text, {l}) = Findings(buffer, {l})
                             \/ dirty /\ l \in pending
        /\ s.lines \ s.owes \subseteq lost
    BY <2>1 DEF SameButOwes, IInv, CurrentInv
  <2>3. s.owes \subseteq Positions
    BY DEF IInv, TypesInv, ScanRec
  <2> QED
    BY <1>0, <1>1, <2>1, <2>2, <2>3 DEF SameButOwes
<1>6. PendingWillFire'
  BY <1>1 DEF PendingWillFire
<1>7. WrongIsAccountedFor'
  <2> SUFFICES ASSUME NEW l \in Positions, {f \in cached : f.line = l} # Findings(text, {l})
               PROVE  l \in pending' \cup lost' \cup UNION {s.owes : s \in scans'}
    BY <1>1 DEF WrongIsAccountedFor
  <2>1. CASE l \in D \cup ls
    BY <2>1, <1>0, <1>1
  <2>2. CASE l \notin D \cup ls
    <3>1. {f \in cached : f.line = l} # Findings(buffer, {l})
      BY <1>0, <2>2
    <3>2. l \in pending \cup lost \cup UNION {s.owes : s \in scans}
      BY <3>1 DEF IInv, WrongIsAccountedFor
    <3>3. ASSUME NEW s \in scans, l \in s.owes PROVE l \in UNION {t.owes : t \in scans'}
      BY <1>2, <2>2, <3>3
    <3> QED
      BY <3>2, <3>3, <1>0, <1>1
  <2> QED
    BY <2>1, <2>2
<1> QED
  BY <1>2, <1>3, <1>4, <1>5, <1>6, <1>7 DEF IInv

LEMMA AroundIs == \A i, j : Around(i, j) \in SUBSET Positions
BY DEF Around

LEMMA EditLineStep ==
    ASSUME IInv, NEW i \in DOMAIN buffer, NEW line \in LineTexts, EditLine(i, line)
    PROVE  IInv'
<1>1. IsText([buffer EXCEPT ![i] = line])
  BY DEF IInv, TypesInv, IsText
<1> QED
  BY <1>1, AroundIs, Edited DEF EditLine

LEMMA InsertLineStep ==
    ASSUME IInv, NEW i \in DOMAIN buffer, NEW line \in LineTexts, InsertLine(i, line)
    PROVE  IInv'
<1>1. IsText(buffer) /\ Len(buffer) < MaxLength /\ i \in 1..Len(buffer) /\ MaxLength \in Nat
  BY NumbersAssumption DEF IInv, TypesInv, IsText, InsertLine
<1>2. InsertAt(buffer, i, line) \in Seq(LineTexts) /\ Len(InsertAt(buffer, i, line)) = Len(buffer) + 1
  BY <1>1 DEF IsText, InsertAt
<1>3. IsText(InsertAt(buffer, i, line))
  BY <1>1, <1>2 DEF IsText
<1> QED
  BY <1>3, AroundIs, Edited DEF InsertLine

LEMMA DeleteLineStep == ASSUME IInv, NEW i \in DOMAIN buffer, DeleteLine(i) PROVE IInv'
<1>1. IsText(buffer) /\ i < Len(buffer) /\ i \in 1..Len(buffer) /\ MaxLength \in Nat
  BY NumbersAssumption DEF IInv, TypesInv, IsText, DeleteLine
<1>2. /\ buffer \in Seq(LineTexts) /\ Len(buffer) \in Nat /\ i \in Nat /\ i - 1 \in 0..Len(buffer)
      /\ i + 1 \in 1..Len(buffer)
  BY <1>1 DEF IsText
<1> DEFINE front == SubSeq(buffer, 1, i - 1)
           back == SubSeq(buffer, i + 1, Len(buffer))
<1>3. /\ front \in Seq(LineTexts) /\ Len(front) = i - 1
      /\ back \in Seq(LineTexts) /\ Len(back) = Len(buffer) - i
  BY <1>2
<1>4. RemoveAt(buffer, i) \in Seq(LineTexts) /\ Len(RemoveAt(buffer, i)) = Len(buffer) - 1
  <2>1. RemoveAt(buffer, i) = front \o back
    BY DEF RemoveAt
  <2> HIDE DEF front, back
  <2> QED
    BY <1>2, <1>3, <2>1
<1>5. IsText(RemoveAt(buffer, i))
  BY <1>1, <1>2, <1>4 DEF IsText
<1> QED
  BY <1>5, AroundIs, Edited DEF DeleteLine

-----------------------------------------------------------------------------
\* A scan starts, for a save, a command or a timer.

LEMMA Started ==
    ASSUME IInv, NEW full \in BOOLEAN, NEW ls \in SUBSET Positions, NEW unsaved \in BOOLEAN,
           StartScan(full, ls, buffer, unsaved)
    PROVE  /\ generation' = generation + 1
           /\ staged' = buffer \/ staged' = staged
           /\ \E new \in ScanRec : /\ scans' = scans \cup {new}
                                   /\ new.gen = generation + 1 /\ new.full = full /\ new.lines = ls
                                   /\ new.owes = ls /\ new.text = buffer /\ new.found = {}
<1> PICK copy \in {unsaved} \cup (IF MayFail THEN {FALSE} ELSE {}) :
       /\ staged' = IF copy THEN buffer ELSE staged
       /\ scans' = scans \cup {[gen |-> generation', full |-> full, lines |-> ls,
                                copy |-> copy, unsaved |-> unsaved, place |-> "spawned",
                                found |-> {}, text |-> buffer, owes |-> ls]}
  BY DEF StartScan
<1> DEFINE new == [gen |-> generation', full |-> full, lines |-> ls,
                   copy |-> copy, unsaved |-> unsaved, place |-> "spawned",
                   found |-> {}, text |-> buffer, owes |-> ls]
<1>1. generation' = generation + 1 /\ generation \in Nat /\ buffer \in Seq(LineTexts) /\ copy \in BOOLEAN
  BY DEF StartScan, IInv, TypesInv, IsText
<1>2. new \in ScanRec
  BY <1>1 DEF ScanRec, Places
<1> QED
  BY <1>1, <1>2

LEMMA ScanStarts ==
    ASSUME IInv, NEW full \in BOOLEAN, NEW ls \in SUBSET Positions, NEW unsaved \in BOOLEAN,
           StartScan(full, ls, buffer, unsaved), full => ls = Positions,
           full \/ ~inFlight, inFlight' = (inFlight \/ ~full),
           pending' \in SUBSET Positions, pending \ pending' \subseteq ls,
           UNCHANGED <<buffer, open, cached, lost>>, disk' = disk \/ disk' = buffer,
           dirty' \in BOOLEAN, timer' \in BOOLEAN, queuedWhileBusy' \in BOOLEAN,
           SavedInv', PendingWillFire'
    PROVE  IInv'
<1>1. /\ generation' = generation + 1 /\ generation \in Nat
      /\ staged' = buffer \/ staged' = staged
  BY Started DEF IInv, TypesInv
<1> PICK new \in ScanRec : /\ scans' = scans \cup {new}
                           /\ new.gen = generation + 1 /\ new.full = full /\ new.lines = ls
                           /\ new.owes = ls /\ new.text = buffer /\ new.found = {}
  BY Started
<1>2. \A s \in scans : s.gen <= generation /\ s.gen \in Nat
  BY DEF IInv, ScansInv, TypesInv, ScanRec
<1>3. \A s \in scans : s.gen # generation + 1
  BY <1>1, <1>2
<1>4. TypesInv'
  BY <1>1 DEF IInv, TypesInv, IsText
<1>5. ScansInv'
  <2>1. \A s \in scans : s.gen <= generation'
    BY <1>1, <1>2
  <2> QED
    BY <2>1, <1>1, <1>3 DEF IInv, ScansInv
<1>6. OneInv'
  BY DEF IInv, OneInv
<1>7. CurrentInv'
  BY <1>1, <1>3 DEF CurrentInv
<1>8. WrongIsAccountedFor'
  BY DEF IInv, WrongIsAccountedFor
<1> QED
  BY <1>4, <1>5, <1>6, <1>7, <1>8 DEF IInv

LEMMA SaveStep == ASSUME IInv, Save PROVE IInv'
<1>1. /\ open /\ disk' = buffer /\ dirty' = FALSE /\ pending' = {} /\ timer' = FALSE
      /\ queuedWhileBusy' = FALSE /\ StartScan(TRUE, Positions, buffer, FALSE)
      /\ UNCHANGED <<buffer, open, inFlight, cached, lost>>
  BY DEF Save, Reset, UserScans
<1>2. SavedInv' /\ PendingWillFire'
  BY <1>1 DEF SavedInv, PendingWillFire
<1>3. inFlight' = (inFlight \/ ~TRUE) /\ pending' \in SUBSET Positions /\ pending \ pending' \subseteq Positions
  BY <1>1 DEF IInv, TypesInv
<1> QED
  BY <1>1, <1>2, <1>3, ScanStarts

LEMMA ManualScanStep == ASSUME IInv, ManualScan PROVE IInv'
<1>1. /\ StartScan(TRUE, Positions, buffer, dirty)
      /\ UNCHANGED <<buffer, dirty, disk, open, pending, timer, inFlight, queuedWhileBusy, cached, lost>>
  BY DEF ManualScan, document, scheduler
<1>2. SavedInv' /\ PendingWillFire'
  BY <1>1 DEF IInv, SavedInv, PendingWillFire
<1>3. /\ inFlight' = (inFlight \/ ~TRUE) /\ pending' \in SUBSET Positions /\ pending \ pending' \subseteq Positions
      /\ dirty \in BOOLEAN /\ timer' \in BOOLEAN /\ queuedWhileBusy' \in BOOLEAN /\ dirty' \in BOOLEAN
  BY <1>1 DEF IInv, TypesInv
<1> QED
  BY <1>1, <1>2, <1>3, ScanStarts

LEMMA TimerFiresStep == ASSUME IInv, TimerFires PROVE IInv'
<1>1. /\ timer' = FALSE /\ UNCHANGED <<buffer, dirty, disk, open, cached>>
  BY DEF TimerFires, document
<1>2. CASE inFlight
  <2>1. /\ queuedWhileBusy' = TRUE
        /\ UNCHANGED <<pending, inFlight, generation, staged, scans, lost>>
    BY <1>2 DEF TimerFires
  <2>2. PendingWillFire'
    BY <1>2, <2>1 DEF PendingWillFire
  <2> QED
    BY <1>1, <2>1, <2>2 DEF IInv, TypesInv, IsText, ScansInv, OneInv, SavedInv, CurrentInv,
                            WrongIsAccountedFor
<1>3. CASE ~inFlight /\ open
  <2>1. /\ pending' = {} /\ inFlight' = open /\ UNCHANGED <<queuedWhileBusy, lost>>
        /\ StartScan(FALSE, pending, buffer, dirty)
    BY <1>3 DEF TimerFires, Fire
  <2>2. SavedInv' /\ PendingWillFire'
    BY <1>1, <2>1 DEF IInv, SavedInv, PendingWillFire
  <2>3. /\ inFlight' = (inFlight \/ ~FALSE) /\ pending' \in SUBSET Positions /\ pending \in SUBSET Positions
        /\ pending \ pending' \subseteq pending
        /\ dirty \in BOOLEAN /\ timer' \in BOOLEAN /\ queuedWhileBusy' \in BOOLEAN /\ dirty' \in BOOLEAN
    BY <1>1, <1>3, <2>1 DEF IInv, TypesInv
  <2> QED
    BY <1>1, <1>3, <2>1, <2>2, <2>3, ScanStarts
<1>4. CASE ~inFlight /\ ~open
  <2>1. /\ pending' = {} /\ inFlight' = open /\ lost' = lost \cup pending /\ ~dirty
        /\ UNCHANGED <<queuedWhileBusy, generation, staged, scans>>
    BY <1>4 DEF TimerFires, Fire, IInv, SavedInv
  <2>2. TypesInv' /\ ScansInv' /\ OneInv' /\ SavedInv'
    BY <1>1, <1>4, <2>1 DEF IInv, TypesInv, IsText, ScansInv, OneInv, SavedInv
  <2>3. CurrentInv'
    BY <1>1, <2>1 DEF IInv, CurrentInv
  <2>4. PendingWillFire' /\ WrongIsAccountedFor'
    BY <1>1, <2>1 DEF IInv, PendingWillFire, WrongIsAccountedFor
  <2> QED
    BY <2>2, <2>3, <2>4 DEF IInv
<1> QED
  BY <1>2, <1>3, <1>4

-----------------------------------------------------------------------------
\* The document closes and opens.

LEMMA CloseStep == ASSUME IInv, Close PROVE IInv'
<1>1. /\ open' = FALSE /\ buffer' = disk /\ dirty' = FALSE /\ disk # NoFile
      /\ UNCHANGED <<disk, pending, timer, inFlight, queuedWhileBusy, generation, staged, cached>>
  BY DEF Close, scheduler
<1>2. SavedInv' /\ PendingWillFire'
  BY <1>1 DEF IInv, SavedInv, PendingWillFire
<1>3. CASE dirty
  <2>1. lost' = Positions /\ scans' = {Owing(s, Positions) : s \in scans}
    <3>1. \A s \in scans : s.owes \ Positions = {}
      BY DEF IInv, TypesInv, ScanRec
    <3> QED
      BY <1>3, <3>1 DEF Close, Owing
  <2>2. /\ scans' \subseteq ScanRec /\ ScansInv' /\ OneInv'
        /\ \A t \in scans' : \E s \in scans : SameButOwes(s, t) /\ t.owes = s.owes \ Positions
    BY <1>1, <2>1, ShrunkInv
  <2>3. TypesInv'
    BY <1>1, <2>1, <2>2 DEF IInv, TypesInv
  <2>4. CurrentInv'
    <3>1. \A t \in scans' : t.owes = {} /\ t.lines \subseteq Positions
      BY <2>2 DEF IInv, TypesInv, ScanRec
    <3> QED
      BY <2>1, <3>1 DEF CurrentInv
  <2>5. WrongIsAccountedFor'
    BY <2>1 DEF WrongIsAccountedFor
  <2> QED
    BY <1>2, <2>2, <2>3, <2>4, <2>5 DEF IInv
<1>4. CASE ~dirty
  <2>1. buffer' = buffer /\ UNCHANGED <<lost, scans>>
    BY <1>1, <1>4 DEF Close, IInv, SavedInv
  <2>2. TypesInv' /\ ScansInv' /\ OneInv'
    BY <1>1, <2>1 DEF IInv, TypesInv, IsText, ScansInv, OneInv
  <2>3. CurrentInv'
    BY <1>1, <1>4, <2>1 DEF IInv, CurrentInv
  <2>4. WrongIsAccountedFor'
    BY <1>1, <2>1 DEF IInv, WrongIsAccountedFor
  <2> QED
    BY <1>2, <2>2, <2>3, <2>4 DEF IInv
<1>5. dirty \in BOOLEAN
  BY DEF IInv, TypesInv
<1> QED
  BY <1>3, <1>4, <1>5

LEMMA ReopenStep == ASSUME IInv, Reopen PROVE IInv'
<1>1. /\ open' = TRUE
      /\ UNCHANGED <<buffer, dirty, disk, pending, timer, inFlight, queuedWhileBusy, generation,
                     staged, scans, cached, lost>>
  BY DEF Reopen, scheduler
<1>2. TypesInv' /\ ScansInv' /\ OneInv' /\ SavedInv'
  BY <1>1 DEF IInv, TypesInv, IsText, ScansInv, OneInv, SavedInv
<1>3. CurrentInv' /\ PendingWillFire' /\ WrongIsAccountedFor'
  BY <1>1 DEF IInv, CurrentInv, PendingWillFire, WrongIsAccountedFor
<1> QED
  BY <1>2, <1>3 DEF IInv

-----------------------------------------------------------------------------
\* A scan goes on.

LEMMA BecomesStep ==
    ASSUME IInv, NEW s \in scans, NEW t \in ScanRec, scans' = (scans \ {s}) \cup {t},
           t.gen = s.gen, t.full = s.full, t.lines = s.lines, t.owes = s.owes, t.text = s.text,
           \A f \in t.found : f.line \in t.lines,
           UNCHANGED <<buffer, dirty, disk, open, pending, timer, inFlight, queuedWhileBusy,
                       generation, staged, cached, lost>>
    PROVE  IInv'
<1>1. \A u \in scans' : \E v \in scans : /\ u.gen = v.gen /\ u.full = v.full /\ u.lines = v.lines
                                         /\ u.owes = v.owes /\ u.text = v.text
                                         /\ u = v \/ (u = t /\ v = s)
  OBVIOUS
<1>2. TypesInv'
  BY DEF IInv, TypesInv, IsText
<1>3. ScansInv'
  BY <1>1 DEF IInv, ScansInv
<1>4. OneInv'
  BY <1>1 DEF IInv, OneInv
<1>5. CurrentInv'
  BY <1>1 DEF IInv, CurrentInv
<1>6. SavedInv' /\ PendingWillFire'
  BY DEF IInv, SavedInv, PendingWillFire
<1>7. WrongIsAccountedFor'
  <2>1. UNION {u.owes : u \in scans} \subseteq UNION {u.owes : u \in scans'}
    OBVIOUS
  <2> QED
    BY <2>1 DEF IInv, WrongIsAccountedFor
<1> QED
  BY <1>2, <1>3, <1>4, <1>5, <1>6, <1>7 DEF IInv

LEMMA OpenTargetStep == ASSUME IInv, NEW s \in scans, OpenTarget(s) PROVE IInv'
<1> DEFINE place == IF Target(s) = NoFile THEN "failed" ELSE "opened"
           t == [s EXCEPT !.place = place]
<1>1. s \in ScanRec /\ \A f \in s.found : f.line \in s.lines
  BY DEF IInv, TypesInv, ScansInv
<1>2. place \in Places
  BY DEF Places
<1> HIDE DEF place
<1>3. /\ t \in ScanRec /\ t.gen = s.gen /\ t.full = s.full /\ t.lines = s.lines /\ t.owes = s.owes
      /\ t.text = s.text /\ t.found = s.found
  BY <1>1, <1>2 DEF ScanRec
<1>4. /\ scans' = (scans \ {s}) \cup {t}
      /\ UNCHANGED <<buffer, dirty, disk, open, pending, timer, inFlight, queuedWhileBusy,
                     generation, staged, cached, lost>>
  BY DEF OpenTarget, Becomes, document, scheduler, place
<1> HIDE DEF t
<1> QED
  BY <1>1, <1>3, <1>4, BecomesStep

LEMMA ReadTargetStep == ASSUME IInv, NEW s \in scans, ReadTarget(s) PROVE IInv'
<1> DEFINE found == IF Target(s) = NoFile THEN {} ELSE Findings(Target(s), s.lines)
           t == [s EXCEPT !.place = "read", !.found = found]
<1>1. s \in ScanRec /\ s.lines \in SUBSET Positions
  BY DEF IInv, TypesInv, ScanRec
<1>2. found \subseteq [line : Positions, flaw : Flaws] /\ \A f \in found : f.line \in s.lines
  <2>1. Target(s) = NoFile \/ IsText(Target(s))
    BY DEF Target, IInv, TypesInv
  <2> QED
    BY <1>1, <2>1, LinesOf
<1>3. /\ scans' = (scans \ {s}) \cup {t}
      /\ UNCHANGED <<buffer, dirty, disk, open, pending, timer, inFlight, queuedWhileBusy,
                     generation, staged, cached, lost>>
  BY DEF ReadTarget, Becomes, document, scheduler
<1> HIDE DEF found
<1>4. /\ t \in ScanRec /\ t.gen = s.gen /\ t.full = s.full /\ t.lines = s.lines /\ t.owes = s.owes
      /\ t.text = s.text /\ t.found = found
  BY <1>1, <1>2 DEF ScanRec, Places
<1> HIDE DEF t
<1> QED
  BY <1>2, <1>3, <1>4, BecomesStep

LEMMA EndScanStep == ASSUME IInv, NEW s \in scans, NEW succeeded \in BOOLEAN, EndScan(s, succeeded) PROVE IInv'
<1> DEFINE right == s.found = Findings(s.text, s.lines)
<1>1. /\ disk' = disk \/ disk' = NoFile
      /\ staged' = staged \/ staged' = NoFile
      /\ UNCHANGED <<buffer, dirty, open, pending, generation>>
      /\ s \in ScanRec /\ s.owes \subseteq s.lines /\ s.lines \subseteq Positions /\ s.full \in BOOLEAN
      /\ s.full => s.lines = Positions
  BY DEF EndScan, CleanupStagedFile, IInv, TypesInv, ScansInv, ScanRec
<1>2. /\ inFlight' = (inFlight /\ s.full) /\ timer' \in BOOLEAN /\ queuedWhileBusy' \in BOOLEAN
      /\ inFlight' \in BOOLEAN
  <2>1. CASE s.full
    BY <2>1 DEF EndScan, IInv, TypesInv
  <2>2. CASE ~s.full
    BY <2>2 DEF EndScan, ScanCompleted, IInv, TypesInv
  <2> QED
    BY <2>1, <2>2
<1>3. PendingWillFire'
  <2>1. CASE s.full
    BY <2>1, <1>1 DEF EndScan, IInv, PendingWillFire
  <2>2. CASE ~s.full
    BY <2>2, <1>1 DEF EndScan, ScanCompleted, IInv, PendingWillFire
  <2> QED
    BY <2>1, <2>2
<1>4. SavedInv'
  BY <1>1 DEF IInv, SavedInv
<1>5. CASE ~Shows(s, succeeded)
  <2>1. lost' = lost \cup s.owes /\ scans' = scans \ {s} /\ cached' = cached
    BY <1>5 DEF EndScan
  <2>2. TypesInv'
    BY <1>1, <1>2, <2>1 DEF IInv, TypesInv, IsText
  <2>3. ScansInv'
    BY <1>1, <2>1 DEF IInv, ScansInv
  <2>4. OneInv'
    BY <1>1, <1>2, <2>1 DEF IInv, OneInv
  <2>5. CurrentInv'
    BY <1>1, <2>1 DEF IInv, CurrentInv
  <2>6. WrongIsAccountedFor'
    BY <1>1, <2>1 DEF IInv, WrongIsAccountedFor
  <2> QED
    BY <1>3, <1>4, <2>2, <2>3, <2>4, <2>5, <2>6 DEF IInv
<1>6. CASE Shows(s, succeeded)
  <2>1. /\ cached' = (IF s.full THEN {} ELSE {f \in cached : f.line \notin s.lines}) \cup s.found
        /\ lost' = IF right THEN lost \ s.owes ELSE lost \cup s.lines
        /\ scans' = {Owing(t, s.owes) : t \in scans \ {s}}
        /\ s.gen = generation
    BY <1>6 DEF EndScan, UpdateDiagnostics, Owing, Shows
  <2>2. /\ scans' \subseteq ScanRec
        /\ \A t \in scans' : \E u \in scans \ {s} : SameButOwes(u, t) /\ t.owes = u.owes \ s.owes
        /\ \A u \in scans \ {s} : \E t \in scans' : SameButOwes(u, t) /\ t.owes = u.owes \ s.owes
        /\ \A t, u \in scans' : t.gen = u.gen => t = u
        /\ \A t, u \in scans' : ~t.full /\ ~u.full => t = u
    <3>1. scans \ {s} \in SUBSET scans
      OBVIOUS
    <3>2. ShrunkTo(scans \ {s}, s.owes, {Owing(t, s.owes) : t \in scans \ {s}})
      BY <3>1, Shrunk
    <3> QED
      BY <2>1, <3>2 DEF ShrunkTo
  <2>3. TypesInv'
    BY <1>1, <1>2, <2>1, <2>2 DEF IInv, TypesInv, IsText
  <2>4. ScansInv'
    BY <1>1, <2>2 DEF IInv, ScansInv, SameButOwes
  <2>5. OneInv'
    <3>1. (\E u \in scans \ {s} : ~u.full) <=> \E t \in scans' : ~t.full
      BY <2>2 DEF SameButOwes
    <3>2. (\E u \in scans \ {s} : ~u.full) <=> inFlight'
      BY <1>1, <1>2 DEF IInv, OneInv
    <3> QED
      BY <2>2, <3>1, <3>2 DEF OneInv
  <2>6. CurrentInv'
    <3>1. ASSUME NEW t \in scans', t.gen = generation PROVE FALSE
      <4>1. PICK u \in scans \ {s} : SameButOwes(u, t)
        BY <2>2
      <4>2. u.gen = s.gen
        BY <2>1, <3>1, <4>1 DEF SameButOwes
      <4> QED
        BY <4>2 DEF IInv, ScansInv
    <3> QED
      BY <1>1, <3>1 DEF CurrentInv
  <2>7. WrongIsAccountedFor'
    <3> SUFFICES ASSUME NEW l \in Positions, {f \in cached' : f.line = l} # Findings(buffer, {l})
                 PROVE  l \in pending \cup lost' \cup UNION {t.owes : t \in scans'}
      BY <1>1 DEF WrongIsAccountedFor
    <3>1. CASE l \notin s.lines
      <4>1. {f \in cached' : f.line = l} = {f \in cached : f.line = l}
        BY <1>1, <2>1, <3>1 DEF IInv, ScansInv
      <4>2. l \in pending \cup lost \cup UNION {t.owes : t \in scans}
        BY <4>1 DEF IInv, WrongIsAccountedFor
      <4>3. l \notin s.owes
        BY <1>1, <3>1
      <4>4. ASSUME NEW u \in scans, l \in u.owes PROVE \E t \in scans' : l \in t.owes
        BY <4>3, <4>4, <2>2
      <4> QED
        BY <2>1, <4>2, <4>3, <4>4
    <3>2. CASE l \in s.lines /\ ~right
      BY <2>1, <3>2
    <3>3. CASE l \in s.lines /\ right
      <4>1. {f \in cached' : f.line = l} = {f \in s.found : f.line = l}
        BY <2>1, <3>3
      <4>2. {f \in s.found : f.line = l} = Findings(s.text, {l})
        <5>2. {f \in Findings(s.text, s.lines) : f.line = l} = Findings(s.text, {l})
          BY <3>3, FindingsAt
        <5> QED
          BY <3>3, <5>2
      <4>3. l \in s.owes => l \in pending
        BY <2>1, <4>1, <4>2 DEF IInv, CurrentInv
      <4>4. l \notin s.owes => l \in lost
        BY <2>1, <3>3 DEF IInv, CurrentInv
      <4> QED
        BY <2>1, <3>3, <4>3, <4>4
    <3> QED
      BY <3>1, <3>2, <3>3
  <2> QED
    BY <1>3, <1>4, <2>3, <2>4, <2>5, <2>6, <2>7 DEF IInv
<1> QED
  BY <1>5, <1>6

-----------------------------------------------------------------------------

LEMMA InitLemma == Init => IInv
<1> SUFFICES ASSUME Init PROVE IInv
  OBVIOUS
<1>1. IsText(InitText)
  <2>1. PICK n \in 1..MaxLength : InitText \in [1..n -> LineTexts]
    BY TextAssumption DEF Texts
  <2>2. n \in Nat /\ InitText \in Seq(LineTexts) /\ Len(InitText) = n
    BY <2>1, NumbersAssumption
  <2> QED
    BY <2>1, <2>2, NumbersAssumption DEF IsText
<1>2. TypesInv
  BY <1>1 DEF Init, TypesInv
<1>3. ScansInv /\ OneInv /\ SavedInv /\ CurrentInv
  BY DEF Init, ScansInv, OneInv, SavedInv, CurrentInv
<1>4. PendingWillFire /\ WrongIsAccountedFor
  BY DEF Init, PendingWillFire, WrongIsAccountedFor
<1> QED
  BY <1>2, <1>3, <1>4 DEF IInv

LEMMA NextStep == IInv /\ [Next]_vars => IInv'
<1> SUFFICES ASSUME IInv, [Next]_vars PROVE IInv'
  OBVIOUS
<1>1. CASE UNCHANGED vars
  <2> USE <1>1 DEF vars, IInv
  <2>1. TypesInv' /\ ScansInv' /\ OneInv' /\ SavedInv'
    BY DEF TypesInv, IsText, ScansInv, OneInv, SavedInv
  <2>2. CurrentInv' /\ PendingWillFire' /\ WrongIsAccountedFor'
    BY DEF CurrentInv, PendingWillFire, WrongIsAccountedFor
  <2> QED
    BY <2>1, <2>2
<1>2. CASE EditStep
  BY <1>2, EditLineStep, InsertLineStep, DeleteLineStep DEF EditStep
<1>3. CASE ScannerStep
  BY <1>3, OpenTargetStep, ReadTargetStep, EndScanStep DEF ScannerStep
<1> QED
  BY <1>1, <1>2, <1>3, SaveStep, ManualScanStep, CloseStep, ReopenStep, TimerFiresStep DEF Next

\* The strengthened invariant holds in every state of a document and its scans.
THEOREM InductiveInvariant == Spec => []IInv
<1>1. Init => IInv
  BY InitLemma
<1>2. IInv /\ [Next]_vars => IInv'
  BY NextStep
<1> QED
  BY <1>1, <1>2, PTL DEF Spec

\* The scheduler's inFlight is set exactly while its one incremental scan runs.
THEOREM OneScanAtATime == Spec => []OneIncrementalScan
<1>1. IInv => OneIncrementalScan
  <2> SUFFICES ASSUME IInv
               PROVE  Cardinality({s \in scans : ~s.full}) = (IF inFlight THEN 1 ELSE 0)
    BY DEF OneIncrementalScan
  <2>1. CASE inFlight
    <3>1. PICK s \in scans : ~s.full
      BY <2>1 DEF IInv, OneInv
    <3>2. {t \in scans : ~t.full} = {s}
      BY <3>1 DEF IInv, OneInv
    <3> QED
      BY <2>1, <3>2, FS_Singleton
  <2>2. CASE ~inFlight
    <3>1. {t \in scans : ~t.full} = {}
      BY <2>2 DEF IInv, OneInv
    <3> QED
      BY <2>2, <3>1, FS_EmptySet
  <2> QED
    BY <2>1, <2>2 DEF IInv, TypesInv
<1> QED
  BY <1>1, InductiveInvariant, PTL

\* Ranges the scheduler has recorded always have a timer or a scan that will take them up.
THEOREM PendingIsTakenUp == Spec => []PendingWillFire
<1>1. IInv => PendingWillFire
  BY DEF IInv
<1> QED
  BY <1>1, InductiveInvariant, PTL

\* Diagnostics that disagree with the buffer are pending, being scanned, or known to be lost:
\* scanGeneration keeps every late result away.
THEOREM WrongDiagnosticsKnown == Spec => []WrongIsAccountedFor
<1>1. IInv => WrongIsAccountedFor
  BY DEF IInv
<1> QED
  BY <1>1, InductiveInvariant, PTL

-----------------------------------------------------------------------------
\* Type correctness.  IInv leaves out what its proofs do without: what a scan's text and the cached
\* findings are.

LEMMA OwingTyped == ASSUME NEW s \in ScanType, NEW D PROVE Owing(s, D) \in ScanType
BY DEF Owing, ScanType

\* A content change types the new text and keeps the rest.
LEMMA EditTyped ==
    ASSUME TypeOK, IInv', NEW text, NEW ls, Edit(text, ls)
    PROVE  TypeOK'
<1>1. /\ edits < MaxEdits /\ edits' = edits + 1 /\ buffer' = text
      /\ UNCHANGED <<disk, staged, generation, cached, asked>>
  BY DEF Edit
<1>2. /\ IsText(buffer') /\ dirty' \in BOOLEAN /\ open' \in BOOLEAN /\ timer' \in BOOLEAN
      /\ inFlight' \in BOOLEAN /\ queuedWhileBusy' \in BOOLEAN
      /\ pending' \subseteq Positions /\ lost' \subseteq Positions
  BY DEF IInv, TypesInv
<1>3. buffer' \in Texts
  BY <1>1, <1>2, TextsAre
<1>4. edits' \in 0..MaxEdits
  BY <1>1, NumbersAssumption DEF TypeOK
<1>5. scans' \subseteq ScanType
  <2>1. scans' = {Owing(s, Elsewhere(text, ls)) : s \in scans}
    BY DEF Edit, Owing
  <2> QED
    BY <2>1, OwingTyped DEF TypeOK
<1> QED
  BY <1>1, <1>2, <1>3, <1>4, <1>5 DEF TypeOK

LEMMA EditsTyped == ASSUME TypeOK, IInv, IInv', EditStep PROVE TypeOK'
<1>1. \E text, ls : Edit(text, ls)
  BY DEF EditStep, EditLine, InsertLine, DeleteLine
<1> QED
  BY <1>1, EditTyped

LEMMA StartTyped ==
    ASSUME TypeOK, IInv, NEW full \in BOOLEAN, NEW ls \in SUBSET Positions, NEW unsaved \in BOOLEAN,
           StartScan(full, ls, buffer, unsaved)
    PROVE  staged' \in Texts \cup {NoFile} /\ scans' \subseteq ScanType
<1> PICK copy \in {unsaved} \cup (IF MayFail THEN {FALSE} ELSE {}) :
       /\ staged' = IF copy THEN buffer ELSE staged
       /\ scans' = scans \cup {[gen |-> generation', full |-> full, lines |-> ls,
                                copy |-> copy, unsaved |-> unsaved, place |-> "spawned",
                                found |-> {}, text |-> buffer, owes |-> ls]}
  BY DEF StartScan
<1> DEFINE new == [gen |-> generation', full |-> full, lines |-> ls,
                   copy |-> copy, unsaved |-> unsaved, place |-> "spawned",
                   found |-> {}, text |-> buffer, owes |-> ls]
<1>1. generation' \in Nat /\ buffer \in Texts /\ copy \in BOOLEAN
  <2>1. copy \in BOOLEAN
    BY Zenon
  <2> QED
    BY <2>1 DEF StartScan, TypeOK
<1>2. new \in ScanType
  BY <1>1 DEF ScanType, Places
<1> QED
  BY <1>1, <1>2 DEF TypeOK

\* Everything but the texts, the findings and the bounds is typed by IInv.
LEMMA RestTyped ==
    ASSUME IInv', buffer' \in Texts, disk' \in Texts \cup {NoFile}, staged' \in Texts \cup {NoFile},
           scans' \subseteq ScanType, cached' \subseteq [line : Positions, flaw : Flaws],
           edits' \in 0..MaxEdits, asked' \in 0..MaxScans
    PROVE  TypeOK'
BY DEF TypeOK, IInv, TypesInv

LEMMA UserStepsTyped ==
    ASSUME TypeOK, IInv, IInv', Save \/ ManualScan \/ Close \/ Reopen \/ TimerFires
    PROVE  TypeOK'
<1>1. /\ buffer \in Texts /\ disk \in Texts \cup {NoFile} /\ staged \in Texts \cup {NoFile}
      /\ scans \subseteq ScanType /\ cached \subseteq [line : Positions, flaw : Flaws]
      /\ edits \in 0..MaxEdits /\ asked \in 0..MaxScans
      /\ dirty \in BOOLEAN /\ pending \in SUBSET Positions
  BY DEF TypeOK, IInv, TypesInv
<1>2. UserScans => asked' \in 0..MaxScans
  BY <1>1, NumbersAssumption DEF UserScans
<1>3. CASE Save
  <2>1. /\ disk' = buffer /\ UNCHANGED <<buffer, cached, edits>>
        /\ StartScan(TRUE, Positions, buffer, FALSE) /\ UserScans
    BY <1>3 DEF Save
  <2> QED
    BY <1>1, <1>2, <2>1, StartTyped, RestTyped
<1>4. CASE ManualScan
  <2>1. /\ UNCHANGED <<buffer, disk, cached, edits>> /\ UserScans
        /\ StartScan(TRUE, Positions, buffer, dirty)
    BY <1>4 DEF ManualScan, document
  <2> QED
    BY <1>1, <1>2, <2>1, StartTyped, RestTyped
<1>5. CASE Close
  <2>1. /\ disk # NoFile /\ buffer' = disk /\ UNCHANGED <<disk, edits, staged, cached, asked>>
        /\ scans' = scans \/ scans' = {[s EXCEPT !.owes = {}] : s \in scans}
    BY <1>5 DEF Close
  <2>2. scans' \subseteq ScanType
    BY <1>1, <2>1 DEF ScanType
  <2> QED
    BY <1>1, <2>1, <2>2, RestTyped
<1>6. CASE Reopen
  <2>1. UNCHANGED <<buffer, disk, edits, staged, scans, cached, asked>>
    BY <1>6 DEF Reopen
  <2> QED
    BY <1>1, <2>1, RestTyped
<1>7. CASE TimerFires
  <2>1. UNCHANGED <<buffer, disk, edits, cached, asked>>
    BY <1>7 DEF TimerFires, document
  <2>2. \/ staged' = staged /\ scans' = scans
        \/ StartScan(FALSE, pending, buffer, dirty)
    BY <1>7 DEF TimerFires, Fire
  <2> QED
    BY <1>1, <2>1, <2>2, StartTyped, RestTyped
<1> QED
  BY <1>3, <1>4, <1>5, <1>6, <1>7

LEMMA ScannerTyped == ASSUME TypeOK, IInv, IInv', ScannerStep PROVE TypeOK'
<1> PICK s \in scans : \/ OpenTarget(s) \/ ReadTarget(s)
                       \/ \E succeeded \in BOOLEAN : EndScan(s, succeeded)
  BY DEF ScannerStep
<1>1. /\ buffer \in Texts /\ disk \in Texts \cup {NoFile} /\ staged \in Texts \cup {NoFile}
      /\ scans \subseteq ScanType /\ cached \subseteq [line : Positions, flaw : Flaws]
      /\ edits \in 0..MaxEdits /\ asked \in 0..MaxScans
      /\ s \in ScanType /\ s.found \subseteq [line : Positions, flaw : Flaws] /\ s.lines \in SUBSET Positions
  BY DEF TypeOK, ScanType
<1>2. CASE OpenTarget(s)
  <2>1. /\ scans' = (scans \ {s}) \cup {[s EXCEPT !.place = IF Target(s) = NoFile THEN "failed" ELSE "opened"]}
        /\ UNCHANGED <<buffer, disk, edits, staged, cached, asked>>
    BY <1>2 DEF OpenTarget, Becomes, document
  <2>2. \A p \in Places : [s EXCEPT !.place = p] \in ScanType
    BY <1>1 DEF ScanType
  <2>3. scans' \subseteq ScanType
    BY <1>1, <2>1, <2>2 DEF Places
  <2> QED
    BY <1>1, <2>1, <2>3, RestTyped
<1>3. CASE ReadTarget(s)
  <2> DEFINE found == IF Target(s) = NoFile THEN {} ELSE Findings(Target(s), s.lines)
  <2>1. /\ scans' = (scans \ {s}) \cup {[s EXCEPT !.place = "read", !.found = found]}
        /\ UNCHANGED <<buffer, disk, edits, staged, cached, asked>>
    BY <1>3 DEF ReadTarget, Becomes, document
  <2>2. found \subseteq [line : Positions, flaw : Flaws]
    <3>1. Target(s) = NoFile \/ Target(s) \in Texts
      BY <1>1 DEF Target
    <3> QED
      BY <1>1, <3>1, FindingsTyped
  <2> HIDE DEF found
  <2>3. [s EXCEPT !.place = "read", !.found = found] \in ScanType
    BY <1>1, <2>2 DEF ScanType, Places
  <2>4. scans' \subseteq ScanType
    BY <1>1, <2>1, <2>3
  <2> QED
    BY <1>1, <2>1, <2>4, RestTyped
<1>4. ASSUME NEW succeeded \in BOOLEAN, EndScan(s, succeeded) PROVE TypeOK'
  <2>1. /\ UNCHANGED <<buffer, edits, asked>>
        /\ staged' \in Texts \cup {NoFile} /\ disk' \in Texts \cup {NoFile}
    BY <1>1, <1>4 DEF EndScan, CleanupStagedFile
  <2>2. cached' \subseteq [line : Positions, flaw : Flaws]
    BY <1>1, <1>4 DEF EndScan, UpdateDiagnostics
  <2>3. scans' = {Owing(t, s.owes) : t \in scans \ {s}} \/ scans' = scans \ {s}
    BY <1>4 DEF EndScan, Owing
  <2>4. scans' \subseteq ScanType
    BY <1>1, <2>3, OwingTyped
  <2> QED
    BY <1>1, <2>1, <2>2, <2>4, RestTyped
<1> QED
  BY <1>2, <1>3, <1>4

\* Every variable of a document keeps its type: texts have at least one line and at most
\* MaxLength, findings name lines and flaws, and edits and user scans keep their bounds.
THEOREM TypeCorrect == Spec => []TypeOK
<1>1. Init => TypeOK
  <2> SUFFICES ASSUME Init PROVE TypeOK
    OBVIOUS
  <2>1. buffer \in Texts /\ disk \in Texts /\ staged = NoFile /\ edits = 0 /\ asked = 0
    BY TextAssumption DEF Init
  <2>2. /\ dirty = FALSE /\ open = TRUE /\ timer = FALSE /\ inFlight = FALSE /\ queuedWhileBusy = FALSE
        /\ pending = {} /\ lost = Positions /\ generation = 0 /\ scans = {} /\ cached = {}
    BY DEF Init
  <2>3. 0 \in 0..MaxEdits /\ 0 \in 0..MaxScans
    BY NumbersAssumption
  <2> QED
    BY <2>1, <2>2, <2>3 DEF TypeOK
<1>2. IInv /\ TypeOK /\ [Next]_vars => TypeOK'
  <2> SUFFICES ASSUME IInv, TypeOK, [Next]_vars PROVE TypeOK'
    OBVIOUS
  <2>1. IInv'
    BY NextStep
  <2>2. CASE UNCHANGED vars
    BY <2>2 DEF vars, TypeOK
  <2> QED
    BY <2>1, <2>2, EditsTyped, UserStepsTyped, ScannerTyped DEF Next
<1> QED
  BY <1>1, <1>2, InductiveInvariant, PTL DEF Spec

-----------------------------------------------------------------------------
\* The two findings of the model's runs, in the cases where the code is right.

\* Every unsaved buffer is scanned through a staged copy of its own.
CopyInv == \A s \in scans : s.unsaved => s.copy

\* Scans keep their target, and a new one is staged if it has to be.
LEMMA TargetsKept ==
    ASSUME ~MayFail, TypeOK, CopyInv,
           \A t \in scans' : \/ \E s \in scans : t.unsaved = s.unsaved /\ t.copy = s.copy
                             \/ t.unsaved => t.copy
    PROVE  CopyInv'
BY DEF CopyInv

LEMMA StartStages ==
    ASSUME ~MayFail, NEW full, NEW ls, NEW unsaved, StartScan(full, ls, buffer, unsaved)
    PROVE  \A t \in scans' : t \in scans \/ (t.unsaved => t.copy)
<1>1. scans' = scans \cup {[gen |-> generation', full |-> full, lines |-> ls,
                            copy |-> unsaved, unsaved |-> unsaved, place |-> "spawned",
                            found |-> {}, text |-> buffer, owes |-> ls]}
  BY DEF StartScan
<1> QED
  BY <1>1

LEMMA EditKeepsTargets ==
    ASSUME ~MayFail, TypeOK, CopyInv, EditStep PROVE CopyInv' /\ disk' = disk
<1>1. disk' = disk
  BY DEF EditStep, DeleteLine, InsertLine, EditLine, Edit
<1>2. \A t \in scans' : \E s \in scans : t.unsaved = s.unsaved /\ t.copy = s.copy
  <2>1. PICK D : scans' = {[s EXCEPT !.owes = @ \ D] : s \in scans}
    BY DEF EditStep, DeleteLine, InsertLine, EditLine, Edit
  <2>2. \A s \in scans : s \in ScanType
    BY DEF TypeOK
  <2> QED
    BY <2>1, <2>2 DEF ScanType
<1> QED
  BY <1>1, <1>2, TargetsKept

LEMMA UserKeepsTargets ==
    ASSUME ~MayFail, TypeOK, CopyInv, SavedFileKept,
           Save \/ ManualScan \/ Close \/ Reopen \/ TimerFires
    PROVE  CopyInv' /\ SavedFileKept'
<1>1. buffer # NoFile /\ disk # NoFile
  BY TextAssumption DEF TypeOK, SavedFileKept
<1>2. disk' \in {disk, buffer}
  BY DEF Save, ManualScan, Close, Reopen, TimerFires, document
<1>3. \A t \in scans' : \/ \E s \in scans : t.unsaved = s.unsaved /\ t.copy = s.copy
                        \/ t.unsaved => t.copy
  <2>1. CASE Close
    <3>1. scans' = scans \/ scans' = {[s EXCEPT !.owes = {}] : s \in scans}
      BY <2>1 DEF Close
    <3>2. \A s \in scans : s \in ScanType
      BY DEF TypeOK
    <3> QED
      BY <3>1, <3>2 DEF ScanType
  <2>2. CASE Save \/ ManualScan \/ Reopen \/ TimerFires
    <3>1. scans' = scans \/ \E full, ls, unsaved : StartScan(full, ls, buffer, unsaved)
      BY <2>2 DEF Save, ManualScan, Reopen, TimerFires, Fire
    <3> QED
      BY <3>1, StartStages
  <2> QED
    BY <2>1, <2>2
<1> QED
  BY <1>1, <1>2, <1>3, TargetsKept DEF SavedFileKept

LEMMA ScannerKeepsTargets ==
    ASSUME ~MayFail, TypeOK, CopyInv, SavedFileKept, ScannerStep
    PROVE  CopyInv' /\ SavedFileKept'
<1> PICK s \in scans : \/ OpenTarget(s) \/ ReadTarget(s)
                       \/ \E succeeded \in BOOLEAN : EndScan(s, succeeded)
  BY DEF ScannerStep
<1>1. \A u \in scans : u \in ScanType
  BY DEF TypeOK
<1>2. disk' = disk
  BY DEF OpenTarget, ReadTarget, document, EndScan, CleanupStagedFile, CopyInv
<1>3. \A t \in scans' : \E u \in scans : t.unsaved = u.unsaved /\ t.copy = u.copy
  <2>1. CASE OpenTarget(s)
    BY <1>1, <2>1 DEF OpenTarget, Becomes, ScanType
  <2>2. CASE ReadTarget(s)
    <3>1. PICK found : scans' = (scans \ {s}) \cup {[s EXCEPT !.place = "read", !.found = found]}
      BY <2>2 DEF ReadTarget, Becomes
    <3> QED
      BY <1>1, <3>1 DEF ScanType
  <2>3. ASSUME NEW succeeded, EndScan(s, succeeded)
        PROVE  \A t \in scans' : \E u \in scans : t.unsaved = u.unsaved /\ t.copy = u.copy
    <3>1. scans' = scans \ {s} \/ scans' = {[t EXCEPT !.owes = @ \ s.owes] : t \in scans \ {s}}
      BY <2>3 DEF EndScan
    <3> QED
      BY <1>1, <3>1 DEF ScanType
  <2> QED
    BY <2>1, <2>2, <2>3
<1> QED
  BY <1>2, <1>3, TargetsKept DEF SavedFileKept

\* cleanupStagedFile removes the user's file only after a staged copy could not be written:
\* as long as nothing fails, no order of edits, saves, timers and scans removes it.
THEOREM SavedFileSafe == ~MayFail => (Spec => []SavedFileKept)
<1> SUFFICES ASSUME ~MayFail PROVE Spec => []SavedFileKept
  OBVIOUS
<1>1. Init => CopyInv /\ SavedFileKept
  BY TextAssumption DEF Init, CopyInv, SavedFileKept
<1>2. TypeOK /\ (CopyInv /\ SavedFileKept) /\ [Next]_vars => (CopyInv /\ SavedFileKept)'
  <2>1. CASE UNCHANGED vars
    BY <2>1 DEF vars, CopyInv, SavedFileKept
  <2> QED
    BY <2>1, EditKeepsTargets, UserKeepsTargets, ScannerKeepsTargets DEF Next, SavedFileKept
<1> QED
  BY <1>1, <1>2, TypeCorrect, PTL DEF Spec

\* Once everything has ended, the diagnostics of each line that is not lost are the text's,
\* and if none is lost they are exactly what a scan of the whole buffer would report.
SettledRight ==
    Quiet => /\ \A l \in Positions \ lost : {f \in cached : f.line = l} = Findings(buffer, {l})
             /\ lost = {} => cached = Findings(buffer, Positions)

\* When all has settled, the diagnostics are right wherever no scan failed the line.
THEOREM SettledIsRight == Spec => []SettledRight
<1>1. IInv /\ TypeOK => SettledRight
  <2> SUFFICES ASSUME IInv, TypeOK, Quiet PROVE SettledRight
    BY DEF SettledRight
  <2>1. UNION {s.owes : s \in scans} = {} /\ pending = {}
    BY DEF Quiet
  <2>2. \A l \in Positions \ lost : {f \in cached : f.line = l} = Findings(buffer, {l})
    BY <2>1 DEF IInv, WrongIsAccountedFor
  <2>3. ASSUME lost = {} PROVE cached = Findings(buffer, Positions)
    <3>1. /\ \A f \in cached : f.line \in Positions
          /\ \A f \in Findings(buffer, Positions) : f.line \in Positions
      BY LinesOf DEF TypeOK, IInv, TypesInv
    <3>2. \A l \in Positions : {f \in Findings(buffer, Positions) : f.line = l} = Findings(buffer, {l})
      BY FindingsAt
    <3>3. \A l \in Positions : {f \in cached : f.line = l} = {f \in Findings(buffer, Positions) : f.line = l}
      BY <2>2, <2>3, <3>2
    <3> HIDE DEF Positions, Findings
    <3> QED
      BY <3>1, <3>3
  <2> QED
    BY <2>2, <2>3 DEF SettledRight
<1> QED
  BY <1>1, InductiveInvariant, TypeCorrect, PTL
=============================================================================
