----------------------------- MODULE ScanRunProofs -----------------------------
(***************************************************************************)
(* Proofs about ScanRun for any findings, and for any number of signals    *)
(* and exceptions.                                                         *)
(*                                                                         *)
(* A handler never returns to what it interrupted, so only the top frame   *)
(* still writes; but leaving the process closes the files of every frame.  *)
(* BufferInv says that, unless a signal came between a write and its flush, *)
(* only the top frame has anything left to flush, and that what it has     *)
(* opened is the temporary file and not yet the report.                    *)
(***************************************************************************)
EXTENDS ScanRun, FiniteSetTheorems, TLAPS

TopOK ==
    /\ Top.pending => Top.step = "flush"
    /\ Top.step \in Writing => tmp # None /\ Top.node = tmp
    /\ Top.step = "write" => node[tmp] = Empty
    /\ Top.step = "flush" => node[tmp] = IF Top.pending THEN Empty ELSE Holds(Top.doc)
    /\ Top.step = "replace" => node[tmp] = Holds(Top.doc)

BufferInv ==
    \/ reentered
    \/ /\ \A i \in 1..Len(frames) - 1 : ~frames[i].pending
       /\ frames # <<>> => TopOK
       /\ target # None => Whole(node[target])
       /\ tmp # None => tmp # target

IInv == TypeOK /\ BufferInv

-----------------------------------------------------------------------------
\* Documents and files.

LEMMA DocsAre ==
    /\ Blank \notin Docs /\ OldReport \in SarifDocs /\ Fallback \in SarifDocs /\ Fallback \in Docs
    /\ Empty \in Contents
    /\ \A found \in SUBSET Findings : /\ Document("complete", found) \in Docs
                                      /\ Document("partial", found) \in Docs
<1>1. {} \in Bounded({})
  <2>1. Cardinality({}) = 0
    BY FS_EmptySet
  <2> QED
    BY <2>1, BoundsAssumption DEF Bounded
<1>2. OldReport \in SarifDocs /\ Fallback \in SarifDocs
  BY <1>1 DEF OldReport, Fallback, SarifDocs, Document, Docs
<1> QED
  BY <1>2 DEF Blank, Document, Docs, SarifDocs, Empty, Contents

LEMMA OverwriteIs ==
    ASSUME NEW c \in Contents, NEW d \in SarifDocs
    PROVE  /\ Overwrite(c, d) \in Contents /\ Overwrite(Empty, d) = Holds(d)
           /\ Holds(d) \in Contents /\ Whole(Holds(d))
<1>1. Empty \in Contents /\ d # Blank
  BY DocsAre DEF SarifDocs
<1>2. \A b \in Contents : Overwrite(b, d) \in Contents /\ Overwrite(b, d).body = d
  BY DEF Overwrite, Contents
<1> QED
  BY <1>1, <1>2 DEF Holds, Whole

LEMMA NewFrameIs ==
    ASSUME NEW role \in {"scan", "inner", "failure", "handler"}, NEW step \in Steps, NEW d \in Docs,
           step \notin {"open"} \cup Writing
    PROVE  /\ NewFrame(role, step, d) \in Frame
           /\ NewFrame(role, step, d).step = step /\ ~NewFrame(role, step, d).pending
           /\ NewFrame(role, step, d).doc = d
BY DEF NewFrame, Frame, None

LEMMA CalmSteps ==
    ASSUME NEW s \in {"engine", "cross", "filter", "enter", "collect", "print", "build", "return"}
    PROVE  s \in Steps /\ s \notin {"open"} \cup Writing
BY DEF Steps, Writing

LEMMA FrameIs ==
    ASSUME NEW f \in Frame
    PROVE  /\ f.doc \in Docs /\ f.step \in Steps /\ f.node \in Nat /\ f.pending \in BOOLEAN
           /\ f.role \in {"scan", "inner", "failure", "handler"}
           /\ f.step \in {"open"} \cup Writing => f.doc \in SarifDocs
           /\ f.pending => f.step = "flush" /\ f.doc \in SarifDocs
BY DEF Frame, Writing

-----------------------------------------------------------------------------
\* The stack of activations.

LEMMA StackIs ==
    ASSUME IInv
    PROVE  /\ frames \in Seq(Frame) /\ Len(frames) \in Nat
           /\ frames # <<>> => Len(frames) \in 1..Len(frames) /\ Top \in Frame /\ Top = frames[Len(frames)]
BY DEF IInv, TypeOK, Top, Last

\* The top frame becomes x.
TopBecomes(x) == frames # <<>> /\ x \in Frame /\ frames' = [frames EXCEPT ![Len(frames)] = x]

LEMMA TopIs ==
    ASSUME IInv, NEW x, TopBecomes(x)
    PROVE  /\ frames' \in Seq(Frame) /\ frames' # <<>> /\ Len(frames') = Len(frames) /\ Top' = x
           /\ \A i \in 1..Len(frames) - 1 : frames'[i] = frames[i]
<1>1. /\ frames \in Seq(Frame) /\ Len(frames) \in Nat /\ Len(frames) \in 1..Len(frames)
      /\ x \in Frame /\ frames' = [frames EXCEPT ![Len(frames)] = x]
  BY StackIs DEF TopBecomes
<1>2. frames' \in Seq(Frame) /\ Len(frames') = Len(frames)
  BY <1>1
<1>3. frames'[Len(frames)] = x /\ \A i \in 1..Len(frames) - 1 : frames'[i] = frames[i]
  BY <1>1
<1>4. frames' # <<>>
  BY <1>1, <1>2
<1>5. Top' = x
  BY <1>2, <1>3 DEF Top, Last
<1> QED
  BY <1>2, <1>3, <1>4, <1>5

\* It goes on to another step.
LEMMA AdvanceIs ==
    ASSUME IInv, NEW s \in Steps, s \notin {"open"} \cup Writing, frames # <<>>,
           Top.step # "flush", Advance(s)
    PROVE  \E x : /\ TopBecomes(x) /\ x.step = s /\ x.pending = Top.pending
                  /\ x.doc = Top.doc /\ x.node = Top.node
<1> DEFINE x == [Top EXCEPT !.step = s]
<1>1. frames \in Seq(Frame) /\ Len(frames) \in 1..Len(frames) /\ Top \in Frame /\ Top = frames[Len(frames)]
  BY StackIs
<1>2. x \in Frame /\ x.step = s /\ x.pending = Top.pending /\ x.doc = Top.doc /\ x.node = Top.node
  BY <1>1 DEF Frame
<1>3. frames' = [frames EXCEPT ![Len(frames)] = x]
  BY <1>1 DEF Advance
<1> QED
  BY <1>2, <1>3 DEF TopBecomes

\* A step that leaves the disk alone and does not leave the top frame writing.
LEMMA ThinkStep ==
    ASSUME IInv, NEW x, TopBecomes(x), reentered \/ ~x.pending, x.step \notin Writing,
           edges' \subseteq Ast, staged' \subseteq Findings, written' \in BOOLEAN,
           stdout' \in Seq(Docs), faults' \in 0..MaxFaults,
           UNCHANGED <<disk, want, status, signals, reentered>>
    PROVE  IInv'
<1>1. /\ frames' \in Seq(Frame) /\ frames' # <<>> /\ Len(frames') = Len(frames) /\ Top' = x
      /\ \A i \in 1..Len(frames) - 1 : frames'[i] = frames[i]
  BY TopIs
<1>2. Running'
  BY DEF IInv, TypeOK, TopBecomes, Running
<1>3. TypeOK'
  BY <1>1, <1>2 DEF IInv, TypeOK, disk
<1>4. BufferInv'
  BY <1>1 DEF IInv, BufferInv, TopOK, Writing, disk, Whole
<1> QED
  BY <1>3, <1>4 DEF IInv

-----------------------------------------------------------------------------
\* The engine and the handler's own steps.

LEMMA AnalyzeStep == ASSUME IInv, Analyze PROVE IInv'
<1> PICK f \in Ast \ edges : edges' = edges \cup {f}
  BY DEF Analyze
<1>1. /\ frames # <<>> /\ Top.step = "engine"
      /\ UNCHANGED <<frames, staged, written, want, stdout, disk, status, signals, faults, reentered>>
  BY DEF Analyze, AtStep
<1>2. TypeOK'
  BY <1>1 DEF IInv, TypeOK, Running, disk
<1>3. BufferInv'
  BY <1>1 DEF IInv, BufferInv, TopOK, Top, Whole, disk
<1> QED
  BY <1>2, <1>3 DEF IInv

LEMMA TypesAre ==
    ASSUME IInv
    PROVE  /\ edges \subseteq Ast /\ staged \subseteq Findings /\ written \in BOOLEAN
           /\ stdout \in Seq(Docs) /\ faults \in 0..MaxFaults /\ want \in Options
           /\ Ast \subseteq Findings /\ Merged \subseteq Findings /\ Cross \subseteq Findings
BY DEF IInv, TypeOK, Findings, Merged

\* A step that only advances the top frame, which was not writing.
LEMMA AdvanceStep ==
    ASSUME IInv, NEW s \in Steps, s \notin {"open"} \cup Writing, frames # <<>>, Top.step # "flush",
           Advance(s),
           edges' \subseteq Ast, staged' \subseteq Findings, written' \in BOOLEAN,
           stdout' \in Seq(Docs), UNCHANGED <<disk, want, status, signals, faults, reentered>>
    PROVE  IInv'
<1> PICK x : TopBecomes(x) /\ x.step = s /\ x.pending = Top.pending
  BY AdvanceIs
<1>1. reentered \/ ~x.pending
  BY DEF IInv, BufferInv, TopOK
<1>2. faults' \in 0..MaxFaults
  BY TypesAre
<1> QED
  BY <1>1, <1>2, ThinkStep

LEMMA StepsAre == {"engine", "cross", "filter", "enter", "collect", "print", "build", "open",
                   "write", "flush", "replace", "return"} = Steps
                  /\ Writing = {"write", "flush", "replace"}
BY DEF Steps, Writing

LEMMA MergeStep == ASSUME IInv, Merge PROVE IInv'
<1>1. /\ frames # <<>> /\ Top.step = "engine" /\ Advance("cross") /\ staged' \subseteq Findings
      /\ UNCHANGED <<edges, written, want, stdout, disk, status, signals, faults, reentered>>
  BY TypesAre DEF Merge, AtStep
<1>2. "cross" \in Steps /\ "cross" \notin {"open"} \cup Writing
  BY StepsAre
<1> QED
  BY <1>1, <1>2, TypesAre, AdvanceStep

LEMMA CrossScanStep == ASSUME IInv, CrossScan PROVE IInv'
<1>1. /\ frames # <<>> /\ Top.step = "cross" /\ Advance("filter") /\ staged' \subseteq Findings
      /\ UNCHANGED <<edges, written, want, stdout, disk, status, signals, faults, reentered>>
  BY TypesAre DEF CrossScan, AtStep
<1>2. "filter" \in Steps /\ "filter" \notin {"open"} \cup Writing
  BY StepsAre
<1> QED
  BY <1>1, <1>2, TypesAre, AdvanceStep

LEMMA FilterStep == ASSUME IInv, Filter PROVE IInv'
<1>1. /\ frames # <<>> /\ staged' \subseteq Findings
      /\ frames' = [frames EXCEPT ![Len(frames)] =
                       NewFrame("scan", "print", Document("complete", staged'))]
      /\ UNCHANGED <<edges, written, want, stdout, disk, status, signals, faults, reentered>>
  BY TypesAre DEF Filter, AtStep
<1> DEFINE x == NewFrame("scan", "print", Document("complete", staged'))
<1>2. x \in Frame /\ x.step = "print" /\ ~x.pending
  BY <1>1, DocsAre, NewFrameIs, CalmSteps
<1> HIDE DEF x
<1>3. TopBecomes(x) /\ x.step \notin Writing
  BY <1>1, <1>2, StepsAre DEF TopBecomes, x
<1> QED
  BY <1>1, <1>2, <1>3, TypesAre, ThinkStep

LEMMA PrintReportStep == ASSUME IInv, PrintReport PROVE IInv'
<1>1. /\ frames # <<>> /\ Top.step = "print" /\ Advance("build")
      /\ stdout' = IF want.json THEN Append(stdout, Top.doc) ELSE stdout
      /\ UNCHANGED <<edges, staged, written, want, disk, status, signals, faults, reentered>>
  BY DEF PrintReport, AtStep
<1>2. "build" \in Steps /\ "build" \notin {"open"} \cup Writing
  BY StepsAre
<1>3. stdout' \in Seq(Docs)
  <2>1. Top.doc \in Docs
    BY <1>1, StackIs DEF Frame
  <2> QED
    BY <1>1, <2>1, TypesAre
<1> QED
  BY <1>1, <1>2, <1>3, TypesAre, AdvanceStep

\* bound_sarif_document: the top frame gets what the SARIF file will list.
LEMMA BoundedIs ==
    ASSUME IInv, AtStep("build"), NEW shown \in Bounded(Top.doc.found),
           frames' = [frames EXCEPT ![Len(frames)].doc.shown = shown, ![Len(frames)].step = "open"]
    PROVE  \E x : /\ TopBecomes(x) /\ x.step = "open" /\ x.role = Top.role
                  /\ x.pending = Top.pending
                  /\ x.doc = [Top.doc EXCEPT !.shown = shown] /\ x.doc \in SarifDocs
<1> DEFINE d == [Top.doc EXCEPT !.shown = shown]
           x == [Top EXCEPT !.doc = d, !.step = "open"]
<1>1. /\ frames \in Seq(Frame) /\ Len(frames) \in 1..Len(frames) /\ Top \in Frame
      /\ Top = frames[Len(frames)] /\ Top.doc \in Docs /\ frames # <<>> /\ ~Top.pending
  BY StackIs, FrameIs DEF AtStep
<1>2. shown \in SUBSET Findings
  BY <1>1 DEF Bounded, Docs
<1>3. d \in Docs /\ d.found = Top.doc.found /\ d.shown = shown
  BY <1>1, <1>2 DEF Docs
<1>4. d \in SarifDocs
  BY <1>3 DEF SarifDocs
<1> HIDE DEF d
<1>5. /\ x \in Frame /\ x.step = "open" /\ x.role = Top.role /\ x.pending = Top.pending /\ x.doc = d
  BY <1>1, <1>3, <1>4, StepsAre DEF Frame
<1>6. frames' = [frames EXCEPT ![Len(frames)] = x]
  BY <1>1 DEF d
<1> HIDE DEF x
<1>7. TopBecomes(x)
  BY <1>1, <1>5, <1>6 DEF TopBecomes
<1> QED
  BY <1>4, <1>5, <1>7 DEF d

LEMMA BuildSarifStep == ASSUME IInv, BuildSarif PROVE IInv'
<1>1. /\ AtStep("build") /\ frames # <<>> /\ Top.step = "build"
      /\ UNCHANGED <<edges, staged, written, want, stdout, disk, status, signals, faults, reentered>>
  BY DEF BuildSarif, AtStep
<1>2. CASE want.sarif
  <2> PICK shown \in Bounded(Top.doc.found) :
        frames' = [frames EXCEPT ![Len(frames)].doc.shown = shown, ![Len(frames)].step = "open"]
    BY <1>2 DEF BuildSarif
  <2> PICK x : TopBecomes(x) /\ x.step = "open" /\ x.pending = Top.pending
    BY <1>1, BoundedIs
  <2>1. reentered \/ ~x.pending
    BY <1>1 DEF IInv, BufferInv, TopOK
  <2>2. x.step \notin Writing
    BY DEF Writing
  <2> QED
    BY <1>1, <2>1, <2>2, TypesAre, ThinkStep
<1>3. CASE ~want.sarif
  <2>1. Advance("return") /\ "return" \in Steps /\ "return" \notin {"open"} \cup Writing
    BY <1>3, StepsAre DEF BuildSarif
  <2> QED
    BY <1>1, <2>1, TypesAre, AdvanceStep
<1> QED
  BY <1>2, <1>3

LEMMA EnterFlushStep == ASSUME IInv, EnterFlush PROVE IInv'
<1>1. /\ frames # <<>> /\ Top.step = "enter" /\ Advance("collect") /\ written' = TRUE
      /\ UNCHANGED <<edges, staged, want, stdout, disk, status, signals, faults, reentered>>
  BY DEF EnterFlush, AtStep
<1>2. "collect" \in Steps /\ "collect" \notin {"open"} \cup Writing
  BY StepsAre
<1> QED
  BY <1>1, <1>2, TypesAre, AdvanceStep

LEMMA CollectAsStep ==
    ASSUME IInv, NEW found \in SUBSET Findings, AtStep("collect"), CollectAs(found),
           faults' \in 0..MaxFaults,
           UNCHANGED <<edges, staged, written, want, stdout, disk, status, signals, reentered>>
    PROVE  IInv'
<1> DEFINE x == [Top EXCEPT !.doc = Document("partial", found), !.step = "print"]
<1>1. /\ frames # <<>> /\ Top \in Frame /\ Top = frames[Len(frames)] /\ frames \in Seq(Frame)
      /\ Len(frames) \in 1..Len(frames) /\ Top.step = "collect" /\ Document("partial", found) \in Docs
  BY StackIs, DocsAre DEF AtStep
<1>2. x \in Frame /\ x.step = "print" /\ x.pending = Top.pending
  BY <1>1, StepsAre DEF Frame
<1>3. frames' = [frames EXCEPT ![Len(frames)] = x]
  BY <1>1 DEF CollectAs
<1> HIDE DEF x
<1>4. TopBecomes(x) /\ x.step \notin Writing /\ (reentered \/ ~x.pending)
  BY <1>1, <1>2, <1>3, StepsAre DEF TopBecomes, IInv, BufferInv, TopOK
<1> QED
  BY <1>4, TypesAre, ThinkStep

LEMMA CollectStep == ASSUME IInv, Collect PROVE IInv'
<1>1. PartialFindings \in SUBSET Findings
  BY TypesAre DEF PartialFindings
<1> QED
  BY <1>1, TypesAre, CollectAsStep DEF Collect

LEMMA FaultIs == ASSUME IInv, Fault PROVE faults' \in 0..MaxFaults /\ frames # <<>>
BY BoundsAssumption DEF Fault, IInv, TypeOK

LEMMA IndexUnreadableStep == ASSUME IInv, IndexUnreadable PROVE IInv'
BY FaultIs, CollectAsStep DEF IndexUnreadable

-----------------------------------------------------------------------------
\* Writing a report.

\* A step of the top frame that writes: what becomes of the disk.
LEMMA WriteStep ==
    ASSUME IInv, NEW x, TopBecomes(x),
           used' \in Nat, node' \in [1..used' -> Contents], {tmp', target'} \subseteq 0..used',
           UNCHANGED <<edges, staged, written, want, stdout, status, signals, faults, reentered>>,
           reentered \/ /\ TopOK'
                        /\ target' # None => Whole(node'[target'])
                        /\ tmp' # None => tmp' # target'
    PROVE  IInv'
<1>1. /\ frames' \in Seq(Frame) /\ frames' # <<>> /\ Len(frames') = Len(frames) /\ Top' = x
      /\ \A i \in 1..Len(frames) - 1 : frames'[i] = frames[i]
  BY TopIs
<1>2. Running'
  BY DEF IInv, TypeOK, TopBecomes, Running
<1>3. TypeOK'
  BY <1>1, <1>2 DEF IInv, TypeOK
<1>4. BufferInv'
  BY <1>1 DEF IInv, BufferInv, Whole
<1> QED
  BY <1>3, <1>4 DEF IInv
LEMMA DiskIs ==
    ASSUME IInv
    PROVE  /\ used \in Nat /\ node \in [1..used -> Contents] /\ tmp \in 0..used /\ target \in 0..used
           /\ None = 0
BY DEF IInv, TypeOK, None

LEMMA OpenTempStep == ASSUME IInv, OpenTemp PROVE IInv'
<1> DEFINE n == IF tmp = None THEN used + 1 ELSE tmp
           x == [Top EXCEPT !.node = n, !.step = "write"]
<1>1. /\ used' = (IF tmp = None THEN n ELSE used)
      /\ node' = [m \in 1..used' |-> IF m = n THEN Empty ELSE node[m]]
      /\ tmp' = n /\ target' = target
      /\ frames' = [frames EXCEPT ![Len(frames)].node = n, ![Len(frames)].step = "write"]
      /\ frames # <<>> /\ Top.step = "open"
      /\ UNCHANGED <<edges, staged, written, want, stdout, status, signals, faults, reentered>>
  BY DEF OpenTemp, AtStep
<1>2. /\ n \in Nat /\ n \in 1..used' /\ used' \in Nat /\ n # 0 /\ used <= used'
      /\ \A m \in 1..used' : m = n \/ m \in 1..used
      /\ tmp = None => n # target
  BY <1>1, DiskIs
<1>3. /\ frames \in Seq(Frame) /\ Len(frames) \in 1..Len(frames) /\ Top \in Frame
      /\ Top = frames[Len(frames)] /\ Top.doc \in SarifDocs /\ ~Top.pending
  BY <1>1, StackIs, FrameIs
<1> HIDE DEF n
<1>4. /\ x \in Frame /\ x.step = "write" /\ x.pending = Top.pending /\ x.node = n
  BY <1>2, <1>3, StepsAre DEF Frame
<1>5. frames' = [frames EXCEPT ![Len(frames)] = x]
  BY <1>1, <1>3
<1> HIDE DEF x
<1>6. TopBecomes(x) /\ Top' = x
  BY <1>1, <1>4, <1>5, TopIs DEF TopBecomes
<1>7. node' \in [1..used' -> Contents] /\ node'[n] = Empty
  BY <1>1, <1>2, DiskIs, DocsAre
<1>8. {tmp', target'} \subseteq 0..used'
  BY <1>1, <1>2, DiskIs
<1>9. ASSUME ~reentered
      PROVE  TopOK' /\ (target' # None => Whole(node'[target'])) /\ (tmp' # None => tmp' # target')
  <2>1. ~Top.pending /\ (target # None => Whole(node[target])) /\ (tmp # None => tmp # target)
    BY <1>1, <1>9 DEF IInv, BufferInv, TopOK
  <2>2. n # target
    BY <1>2, <2>1 DEF n
  <2>3. target # None => node'[target] = node[target]
    BY <1>1, <1>2, <2>2, DiskIs
  <2>4. TopOK'
    BY <1>1, <1>2, <1>4, <1>6, <1>7, <2>1 DEF TopOK, None
  <2> QED
    BY <1>1, <2>1, <2>2, <2>3, <2>4 DEF Whole
<1> QED
  BY <1>1, <1>2, <1>6, <1>7, <1>8, <1>9, WriteStep

\* A file keeps its type when a document is written to it, and others are left alone.
LEMMA NodeIs ==
    ASSUME IInv, NEW n, NEW d \in SarifDocs, node' = [node EXCEPT ![n] = Overwrite(@, d)], used' = used
    PROVE  /\ node' \in [1..used' -> Contents]
           /\ \A m \in 1..used : m # n => node'[m] = node[m]
           /\ n \in 1..used => node'[n] = Overwrite(node[n], d)
<1>1. \A c \in Contents : Overwrite(c, d) \in Contents
  BY OverwriteIs
<1> QED
  BY <1>1, DiskIs

LEMMA WriteTextStep == ASSUME IInv, WriteText PROVE IInv'
<1> PICK buffered \in BOOLEAN :
      /\ node' = IF buffered THEN node ELSE [node EXCEPT ![Top.node] = Overwrite(@, Top.doc)]
      /\ frames' = [frames EXCEPT ![Len(frames)].pending = buffered, ![Len(frames)].step = "flush"]
  BY DEF WriteText
<1> DEFINE x == [Top EXCEPT !.pending = buffered, !.step = "flush"]
<1>1. /\ frames # <<>> /\ Top.step = "write"
      /\ UNCHANGED <<edges, staged, written, want, stdout, used, tmp, target,
                     status, signals, faults, reentered>>
  BY DEF WriteText, AtStep
<1>2. /\ frames \in Seq(Frame) /\ Len(frames) \in 1..Len(frames) /\ Top \in Frame
      /\ Top = frames[Len(frames)] /\ Top.doc \in SarifDocs
  BY <1>1, StackIs, FrameIs, StepsAre
<1>3. /\ x \in Frame /\ x.step = "flush" /\ x.pending = buffered /\ x.node = Top.node
      /\ x.doc = Top.doc
  BY <1>2, StepsAre DEF Frame
<1>4. frames' = [frames EXCEPT ![Len(frames)] = x]
  BY <1>2
<1> HIDE DEF x
<1>5. TopBecomes(x) /\ Top' = x
  BY <1>1, <1>3, <1>4, TopIs DEF TopBecomes
<1>6. /\ node' \in [1..used' -> Contents]
      /\ \A m \in 1..used : m # Top.node => node'[m] = node[m]
      /\ Top.node \in 1..used => node'[Top.node] = IF buffered THEN node[Top.node]
                                                  ELSE Overwrite(node[Top.node], Top.doc)
  BY <1>1, <1>2, NodeIs, DiskIs
<1>7. {tmp', target'} \subseteq 0..used'
  BY <1>1, DiskIs
<1>8. ASSUME ~reentered
      PROVE  TopOK' /\ (target' # None => Whole(node'[target'])) /\ (tmp' # None => tmp' # target')
  <2>1. /\ Top.node = tmp /\ tmp # None /\ node[tmp] = Empty /\ tmp # target
        /\ target # None => Whole(node[target])
    BY <1>1, <1>8 DEF IInv, BufferInv, TopOK, Writing
  <2>2. tmp \in 1..used /\ (target # None => target \in 1..used)
    BY <2>1, DiskIs
  <2>3. node'[tmp] = IF buffered THEN Empty ELSE Holds(Top.doc)
    BY <1>2, <1>6, <2>1, <2>2, OverwriteIs
  <2>4. TopOK'
    BY <1>1, <1>3, <1>5, <2>1, <2>3 DEF TopOK
  <2> QED
    BY <1>1, <1>6, <2>1, <2>2, <2>4 DEF Whole
<1> QED
  BY <1>1, <1>5, <1>6, <1>7, <1>8, DiskIs, WriteStep

LEMMA FlushTextStep == ASSUME IInv, FlushText PROVE IInv'
<1> DEFINE x == [Top EXCEPT !.pending = FALSE, !.step = "replace"]
<1>1. /\ frames # <<>> /\ Top.step = "flush"
      /\ node' = IF Top.pending THEN [node EXCEPT ![Top.node] = Overwrite(@, Top.doc)] ELSE node
      /\ frames' = [frames EXCEPT ![Len(frames)].pending = FALSE, ![Len(frames)].step = "replace"]
      /\ UNCHANGED <<edges, staged, written, want, stdout, used, tmp, target,
                     status, signals, faults, reentered>>
  BY DEF FlushText, AtStep
<1>2. /\ frames \in Seq(Frame) /\ Len(frames) \in 1..Len(frames) /\ Top \in Frame
      /\ Top = frames[Len(frames)] /\ Top.doc \in SarifDocs
  BY <1>1, StackIs, FrameIs, StepsAre
<1>3. /\ x \in Frame /\ x.step = "replace" /\ ~x.pending /\ x.node = Top.node /\ x.doc = Top.doc
  BY <1>2, StepsAre DEF Frame
<1>4. frames' = [frames EXCEPT ![Len(frames)] = x]
  BY <1>1, <1>2
<1> HIDE DEF x
<1>5. TopBecomes(x) /\ Top' = x
  BY <1>1, <1>3, <1>4, TopIs DEF TopBecomes
<1>6. /\ node' \in [1..used' -> Contents]
      /\ \A m \in 1..used : m # Top.node => node'[m] = node[m]
      /\ Top.node \in 1..used => node'[Top.node] = IF Top.pending
                                                  THEN Overwrite(node[Top.node], Top.doc)
                                                  ELSE node[Top.node]
  BY <1>1, <1>2, NodeIs, DiskIs
<1>7. {tmp', target'} \subseteq 0..used'
  BY <1>1, DiskIs
<1>8. ASSUME ~reentered
      PROVE  TopOK' /\ (target' # None => Whole(node'[target'])) /\ (tmp' # None => tmp' # target')
  <2>1. /\ Top.node = tmp /\ tmp # None /\ tmp # target
        /\ node[tmp] = IF Top.pending THEN Empty ELSE Holds(Top.doc)
        /\ target # None => Whole(node[target])
    BY <1>1, <1>8 DEF IInv, BufferInv, TopOK, Writing
  <2>2. tmp \in 1..used /\ (target # None => target \in 1..used)
    BY <2>1, DiskIs
  <2>3. Overwrite(Empty, Top.doc) = Holds(Top.doc)
    BY <1>2, OverwriteIs, DocsAre
  <2>4. node'[tmp] = Holds(Top.doc)
    BY <1>6, <2>1, <2>2, <2>3
  <2>5. TopOK'
    BY <1>1, <1>3, <1>5, <2>1, <2>4 DEF TopOK
  <2> QED
    BY <1>1, <1>6, <2>1, <2>2, <2>5 DEF Whole
<1> QED
  BY <1>1, <1>5, <1>6, <1>7, <1>8, DiskIs, WriteStep

LEMMA ReplaceTargetStep == ASSUME IInv, ReplaceTarget PROVE IInv'
<1>1. /\ frames # <<>> /\ Top.step = "replace" /\ tmp # None
      /\ target' = tmp /\ tmp' = None /\ Advance("return")
      /\ UNCHANGED <<edges, staged, written, want, stdout, node, used, status, signals, faults,
                     reentered>>
  BY DEF ReplaceTarget, AtStep
<1>2. "return" \in Steps /\ "return" \notin {"open"} \cup Writing
  BY StepsAre
<1> PICK x : TopBecomes(x) /\ x.step = "return" /\ x.pending = Top.pending
  BY <1>1, <1>2, AdvanceIs
<1>3. Top' = x
  BY TopIs
<1>4. {tmp', target'} \subseteq 0..used' /\ used' \in Nat /\ node' \in [1..used' -> Contents]
  BY <1>1, DiskIs
<1>5. ASSUME ~reentered
      PROVE  TopOK' /\ (target' # None => Whole(node'[target'])) /\ (tmp' # None => tmp' # target')
  <2>1. Top.doc \in SarifDocs
    BY <1>1, StackIs, FrameIs, StepsAre
  <2>2. ~Top.pending /\ node[tmp] = Holds(Top.doc)
    BY <1>1, <1>5 DEF IInv, BufferInv, TopOK
  <2>3. TopOK'
    BY <1>2, <1>3, <2>2 DEF TopOK
  <2>4. Whole(Holds(Top.doc))
    BY <2>1, OverwriteIs, DocsAre
  <2> QED
    BY <1>1, <2>2, <2>3, <2>4 DEF Whole
<1> QED
  BY <1>1, <1>4, <1>5, WriteStep
-----------------------------------------------------------------------------
\* Leaving the process.

LEMMA SmallestOf == ASSUME NEW S \in SUBSET Nat, S # {} PROVE \E i \in S : \A j \in S : i <= j
<1> DEFINE T == {0..i : i \in S}
           R == StrictSubsetOrdering(Nat)
<1>1. T \subseteq FiniteSubsetsOf(Nat)
  <2> SUFFICES ASSUME NEW i \in S PROVE 0..i \in FiniteSubsetsOf(Nat)
    OBVIOUS
  <2>1. 0 \in Int /\ i \in Int /\ 0..i \in SUBSET Nat
    OBVIOUS
  <2>2. IsFiniteSet(0..i)
    BY <2>1, FS_Interval
  <2> QED
    BY <2>1, <2>2 DEF FiniteSubsetsOf
<1>2. T # {}
  OBVIOUS
<1>3. \E x \in T : \A y \in T : ~(<<y, x>> \in R)
  <2> HIDE DEF T, R
  <2>1. IsWellFoundedOn(R, FiniteSubsetsOf(Nat))
    BY FS_StrictSubsetOrderingWellFounded DEF R
  <2> QED
    BY <1>1, <1>2, <2>1, WFMin
<1>4. PICK i \in S : \A j \in S : ~(<<0..j, 0..i>> \in R)
  BY <1>3
<1>5. ASSUME NEW j \in S, j < i PROVE FALSE
  <2>1. 0..j \in SUBSET Nat /\ 0..i \in SUBSET Nat /\ 0..j \subseteq 0..i /\ i \in 0..i /\ i \notin 0..j
    BY <1>5
  <2>2. <<0..j, 0..i>> \in R
    BY <2>1 DEF StrictSubsetOrdering
  <2> QED
    BY <1>4, <2>2
<1> QED
  BY <1>5

LEMMA DrainedIs ==
    ASSUME IInv, NEW n \in 1..used
    PROVE  /\ Drained(n) \in Contents
           /\ (\A i \in DOMAIN frames : ~(frames[i].pending /\ frames[i].node = n)) => Drained(n) = node[n]
           /\ Drained(n).body \in {frames[i].doc : i \in DOMAIN frames} \cup {node[n].body}
           /\ Drained(n).rest \in {frames[i].doc : i \in DOMAIN frames} \cup {node[n].rest}
<1> DEFINE late == {i \in DOMAIN frames : frames[i].pending /\ frames[i].node = n}
           long == {i \in late : frames[i].doc.shown # {}}
           Outermost(S) == frames[CHOOSE i \in S : \A j \in S : i <= j].doc
<1>1. Drained(n) = [body |-> IF late = {} THEN node[n].body ELSE Outermost(late),
                    rest |-> IF long = {} THEN node[n].rest ELSE Outermost(long)]
  BY DEF Drained
<1>2. node[n] \in Contents
  BY DiskIs
<1>3. late \subseteq DOMAIN frames /\ long \subseteq late /\ DOMAIN frames \subseteq Nat
  BY StackIs
<1>4. ASSUME NEW S \in SUBSET late, S # {}
      PROVE  Outermost(S) \in SarifDocs /\ Outermost(S) \in {frames[i].doc : i \in DOMAIN frames}
  <2>1. S \in SUBSET Nat
    BY <1>3
  <2>2. \E i \in S : \A j \in S : i <= j
    BY <1>4, <2>1, SmallestOf
  <2>3. (CHOOSE i \in S : \A j \in S : i <= j) \in S
    BY <2>2
  <2>4. \A i \in late : i \in DOMAIN frames /\ frames[i] \in Frame /\ frames[i].pending
    BY StackIs
  <2>5. \A i \in late : frames[i].doc \in SarifDocs
    BY <2>4, FrameIs
  <2> QED
    BY <2>3, <2>4, <2>5
<1>5. /\ late # {} => /\ Outermost(late) \in SarifDocs
                       /\ Outermost(late) \in {frames[i].doc : i \in DOMAIN frames}
      /\ long # {} => /\ Outermost(long) \in SarifDocs
                       /\ Outermost(long) \in {frames[i].doc : i \in DOMAIN frames}
  BY <1>3, <1>4
<1>6. (\A i \in DOMAIN frames : ~(frames[i].pending /\ frames[i].node = n)) => late = {} /\ long = {}
  OBVIOUS
<1> HIDE DEF late, long, Outermost
<1> QED
  BY <1>1, <1>2, <1>5, <1>6 DEF Contents

\* The report under its own name is not touched, unless a handler reused its file.
LEMMA UnwindIs ==
    ASSUME IInv, Unwind
    PROVE  /\ used' \in Nat /\ node' \in [1..used' -> Contents] /\ {tmp', target'} \subseteq 0..used'
           /\ reentered \/ /\ target' # None => Whole(node'[target'])
                           /\ tmp' # None => tmp' # target'
<1>1. /\ node' = [n \in 1..used |-> Drained(n)] /\ used' = used /\ target' = target
      /\ tmp' = tmp \/ tmp' = None
  BY DEF Unwind
<1>2. used' \in Nat /\ node' \in [1..used' -> Contents] /\ {tmp', target'} \subseteq 0..used'
  BY <1>1, DiskIs, DrainedIs
<1>3. ASSUME ~reentered, target # None PROVE node'[target] = node[target]
  <2>1. target \in 1..used
    BY <1>3, DiskIs
  <2>2. \A i \in DOMAIN frames : ~(frames[i].pending /\ frames[i].node = target)
    <3> SUFFICES ASSUME NEW i \in DOMAIN frames, frames[i].pending, frames[i].node = target
                 PROVE  FALSE
      OBVIOUS
    <3>1. frames # <<>> /\ i \in 1..Len(frames) /\ Len(frames) \in Nat /\ Top = frames[Len(frames)]
      BY StackIs
    <3>2. i = Len(frames)
      BY <3>1, <1>3 DEF IInv, BufferInv
    <3>3. Top.pending /\ Top.node = target
      BY <3>1, <3>2
    <3> QED
      BY <1>3, <3>1, <3>3 DEF IInv, BufferInv, TopOK, Writing
  <2> QED
    BY <1>1, <2>1, <2>2, DrainedIs
<1>4. reentered \/ /\ target # None => Whole(node[target])
                   /\ tmp # None => tmp # target
  BY DEF IInv, BufferInv
<1>5. reentered \/ (target' # None => Whole(node'[target']))
  BY <1>1, <1>3, <1>4 DEF Whole
<1> QED
  BY <1>1, <1>2, <1>4, <1>5

Statuses == {"clean", "found", "fatal", "crash", "error", "signalled"}

LEMMA ExitStep ==
    ASSUME IInv, NEW s \in Statuses, Exit(s), faults' \in 0..MaxFaults,
           UNCHANGED <<edges, staged, written, want, stdout, signals, reentered>>
    PROVE  IInv'
<1>1. Unwind /\ frames' = <<>> /\ status' = s
  BY DEF Exit
<1>2. /\ used' \in Nat /\ node' \in [1..used' -> Contents] /\ {tmp', target'} \subseteq 0..used'
      /\ reentered \/ /\ target' # None => Whole(node'[target'])
                      /\ tmp' # None => tmp' # target'
  BY <1>1, UnwindIs
<1>3. TypeOK'
  BY <1>1, <1>2 DEF IInv, TypeOK, Running, Statuses
<1>4. BufferInv'
  BY <1>1, <1>2 DEF BufferInv, Whole
<1> QED
  BY <1>3, <1>4 DEF IInv

\* The statuses the process returns with.
LEMMA ReturnIs ==
    ASSUME Return
    PROVE  \E s : /\ Exit(s)
                  /\ \/ Top.role = "scan" /\ (s = "clean" \/ (s = "found" /\ staged # {}))
                     \/ Top.role = "handler" /\ s = "signalled"
                     \/ Top.role \notin {"scan", "handler"} /\ s = "error"
<1>1. CASE Top.role = "scan"
  <2> PICK s \in Blocking(staged) : Exit(s)
    BY <1>1 DEF Return
  <2>1. s = "clean" \/ (s = "found" /\ staged # {})
    BY DEF Blocking
  <2> QED
    BY <1>1, <2>1
<1>2. CASE Top.role = "handler"
  BY <1>2 DEF Return
<1>3. CASE Top.role \notin {"scan", "handler"}
  BY <1>3 DEF Return
<1> QED
  BY <1>1, <1>2, <1>3

LEMMA ExitSteps ==
    ASSUME IInv, Return \/ AlreadyFlushed \/ FailureRaises \/ CrossFails \/ WriteFails PROVE IInv'
<1>1. CASE Return
  <2> PICK s : /\ Exit(s) /\ s \in Statuses
    BY <1>1, ReturnIs DEF Statuses
  <2>1. UNCHANGED <<edges, staged, written, want, stdout, signals, faults, reentered>>
    BY <1>1 DEF Return
  <2> QED
    BY <2>1, TypesAre, ExitStep
<1>2. CASE AlreadyFlushed
  BY <1>2, TypesAre, ExitStep DEF AlreadyFlushed, Statuses
<1>3. CASE FailureRaises
  BY <1>3, FaultIs, ExitStep DEF FailureRaises, Escapes, Statuses
<1>4. CASE CrossFails
  BY <1>4, FaultIs, ExitStep DEF CrossFails, Escapes, Statuses
<1>5. CASE WriteFails
  BY <1>5, FaultIs, ExitStep DEF WriteFails, Statuses
<1> QED
  BY <1>1, <1>2, <1>3, <1>4, <1>5

\* A stack of one frame that has not written anything.
LEMMA AloneStep ==
    ASSUME IInv, NEW x \in Frame, frames' = <<x>>, ~x.pending, x.step \notin Writing, Fault,
           used' \in Nat, node' \in [1..used' -> Contents], {tmp', target'} \subseteq 0..used',
           reentered \/ /\ target' # None => Whole(node'[target'])
                        /\ tmp' # None => tmp' # target',
           UNCHANGED <<edges, staged, written, want, stdout, status, signals, reentered>>
    PROVE  IInv'
<1>1. frames' \in Seq(Frame) /\ frames' # <<>> /\ Len(frames') = 1 /\ Top' = x
  BY DEF Top, Last
<1>2. TypeOK'
  BY <1>1, FaultIs DEF IInv, TypeOK, Running, Fault
<1>3. BufferInv'
  BY <1>1 DEF BufferInv, Whole, TopOK, Writing
<1> QED
  BY <1>2, <1>3 DEF IInv

LEMMA HandledStep == ASSUME IInv, StageRaises \/ ScanRaises PROVE IInv'
<1> PICK role \in {"inner", "failure"} : Handled(role)
  BY DEF StageRaises, ScanRaises
<1> DEFINE x == NewFrame(role, "print", Fallback)
<1>1. /\ Unwind /\ frames' = <<x>> /\ Fault
      /\ UNCHANGED <<edges, staged, written, want, stdout, status, signals, reentered>>
  BY DEF StageRaises, ScanRaises, Escapes, Handled
<1>2. x \in Frame /\ x.step = "print" /\ ~x.pending /\ "print" \notin Writing
  BY DocsAre, NewFrameIs, CalmSteps
<1> HIDE DEF x
<1> QED
  BY <1>1, <1>2, UnwindIs, AloneStep

\* The interrupted scan has no file open.
LEMMA FlushSwallowedStep == ASSUME IInv, FlushSwallowed PROVE IInv'
<1> DEFINE x == frames[1]
<1>1. /\ Fault /\ frames # <<>> /\ Top.role = "handler" /\ x.role = "scan" /\ x.step \in Stages
      /\ frames' = <<x>>
      /\ UNCHANGED <<edges, staged, written, want, stdout, disk, status, signals, reentered>>
  BY FaultIs DEF FlushSwallowed, Escapes
<1>2. /\ frames \in Seq(Frame) /\ Len(frames) \in Nat /\ Len(frames) \in 1..Len(frames)
      /\ Top = frames[Len(frames)]
  BY <1>1, StackIs
<1>3. x \in Frame /\ 1 \in 1..Len(frames) - 1
  BY <1>1, <1>2
<1>4. x.step \notin Writing
  BY <1>1 DEF Stages, Writing
<1>5. CASE reentered
  <2>1. frames' \in Seq(Frame) /\ frames' # <<>>
    BY <1>1, <1>3
  <2>2. TypeOK'
    BY <1>1, <2>1, FaultIs DEF IInv, TypeOK, Running, Fault, disk
  <2> QED
    BY <1>1, <1>5, <2>2 DEF IInv, BufferInv
<1>6. CASE ~reentered
  <2>1. ~x.pending
    BY <1>3, <1>6 DEF IInv, BufferInv
  <2>2. reentered \/ /\ target' # None => Whole(node'[target'])
                     /\ tmp' # None => tmp' # target'
    BY <1>1 DEF IInv, BufferInv, disk, Whole
  <2>3. used' \in Nat /\ node' \in [1..used' -> Contents] /\ {tmp', target'} \subseteq 0..used'
    BY <1>1, DiskIs DEF disk
  <2> HIDE DEF x
  <2> QED
    BY <1>1, <1>3, <1>4, <2>1, <2>2, <2>3, AloneStep
<1> QED
  BY <1>5, <1>6

LEMMA KillStep == ASSUME IInv, Kill PROVE IInv'
<1>1. /\ frames' = <<>> /\ status' = "killed"
      /\ UNCHANGED <<edges, staged, written, want, stdout, disk, signals, faults, reentered>>
  BY DEF Kill
<1>2. TypeOK'
  BY <1>1 DEF IInv, TypeOK, Running, disk
<1>3. BufferInv'
  BY <1>1 DEF IInv, BufferInv, Whole, disk
<1> QED
  BY <1>2, <1>3 DEF IInv

LEMMA SignalStep == ASSUME IInv, Signal PROVE IInv'
<1> DEFINE x == NewFrame("handler", "enter", Fallback)
<1>1. /\ Running /\ signals < MaxSignals /\ signals' = signals + 1
      /\ reentered' = (reentered \/ Top.pending) /\ frames' = Append(frames, x)
      /\ UNCHANGED <<edges, staged, written, want, stdout, disk, status, faults>>
  BY DEF Signal
<1>2. x \in Frame /\ x.step = "enter" /\ ~x.pending
  BY DocsAre, NewFrameIs, CalmSteps
<1> HIDE DEF x
<1>3. frames # <<>> /\ frames \in Seq(Frame) /\ Len(frames) \in Nat /\ Top \in Frame
      /\ Top = frames[Len(frames)]
  BY <1>1, StackIs DEF IInv, TypeOK
<1>4. /\ frames' \in Seq(Frame) /\ frames' # <<>> /\ Len(frames') = Len(frames) + 1
      /\ frames'[Len(frames) + 1] = x
      /\ \A i \in 1..Len(frames) : frames'[i] = frames[i]
  BY <1>1, <1>2, <1>3
<1>5. Top' = x
  BY <1>4 DEF Top, Last
<1>6. TypeOK'
  <2>1. signals' \in 0..MaxSignals
    BY <1>1, BoundsAssumption DEF IInv, TypeOK
  <2>2. reentered' \in BOOLEAN
    BY <1>1, <1>3 DEF IInv, TypeOK, Frame
  <2> QED
    BY <1>1, <1>4, <2>1, <2>2 DEF IInv, TypeOK, Running, disk
<1>7. BufferInv'
  <2> SUFFICES ASSUME ~reentered' PROVE BufferInv'
    BY DEF BufferInv
  <2>1. /\ ~reentered /\ ~Top.pending
    BY <1>1
  <2>2. \A i \in 1..Len(frames) : ~frames[i].pending
    BY <1>3, <2>1 DEF IInv, BufferInv
  <2>3. \A i \in 1..Len(frames') - 1 : ~frames'[i].pending
    BY <1>3, <1>4, <2>2
  <2>4. TopOK'
    BY <1>2, <1>5 DEF TopOK, Writing
  <2> QED
    BY <1>1, <2>1, <2>3, <2>4 DEF IInv, BufferInv, Whole, disk
<1> QED
  BY <1>6, <1>7 DEF IInv

-----------------------------------------------------------------------------

LEMMA InitLemma == Init => IInv
<1> SUFFICES ASSUME Init PROVE IInv
  OBVIOUS
<1> DEFINE x == NewFrame("scan", "engine", Fallback)
<1>1. x \in Frame /\ x.step = "engine" /\ ~x.pending
  <2>1. "engine" \in Steps /\ Fallback \in Docs
    BY DocsAre, CalmSteps
  <2> QED
    BY <2>1, NewFrameIs, CalmSteps
<1> HIDE DEF x
<1>2. frames = <<x>>
  BY DEF Init, x
<1>3. frames \in Seq(Frame) /\ frames # <<>> /\ Len(frames) = 1 /\ Top = x
  BY <1>1, <1>2 DEF Top, Last
<1>4. Holds(OldReport) \in Contents /\ Whole(Holds(OldReport))
  BY DocsAre, OverwriteIs
<1>5. /\ used \in {0, 1} /\ node = [n \in 1..used |-> Holds(OldReport)] /\ tmp = None /\ target = used
      /\ None = 0
  BY DEF Init, None
<1>6. /\ used \in Nat /\ node \in [1..used -> Contents] /\ {tmp, target} \subseteq 0..used
      /\ target # None => node[target] = Holds(OldReport)
  BY <1>4, <1>5
<1>7. TypeOK
  <2>1. /\ edges \subseteq Ast /\ staged \subseteq Findings /\ {written, reentered} \subseteq BOOLEAN
        /\ want \in Options
    BY DEF Init
  <2>3. stdout \in Seq(Docs)
    BY DEF Init
  <2>2. /\ status = "running" /\ Running
        /\ signals \in 0..MaxSignals /\ faults \in 0..MaxFaults
    BY BoundsAssumption DEF Init, Running
  <2> QED
    BY <1>3, <1>6, <2>1, <2>2, <2>3 DEF TypeOK
<1>8. BufferInv
  BY <1>1, <1>3, <1>4, <1>5, <1>6 DEF BufferInv, TopOK, Writing
<1> QED
  BY <1>7, <1>8 DEF IInv

LEMMA NextStep == IInv /\ [Next]_vars => IInv'
<1> SUFFICES ASSUME IInv, [Next]_vars PROVE IInv'
  OBVIOUS
<1>1. CASE UNCHANGED vars
  <2>1. TypeOK'
    BY <1>1 DEF vars, disk, IInv, TypeOK, Running
  <2>2. BufferInv'
    BY <1>1 DEF vars, disk, IInv, BufferInv, TopOK, Top, Whole
  <2> QED
    BY <2>1, <2>2 DEF IInv
<1>2. CASE Next
  BY <1>2, AnalyzeStep, MergeStep, CrossScanStep, FilterStep, PrintReportStep, BuildSarifStep,
     OpenTempStep, WriteTextStep, FlushTextStep, ReplaceTargetStep, ExitSteps, SignalStep,
     EnterFlushStep, CollectStep, IndexUnreadableStep, HandledStep, FlushSwallowedStep,
     KillStep DEF Next
<1> QED
  BY <1>1, <1>2

\* The strengthened invariant holds in every state of a scan.
THEOREM InductiveInvariant == Spec => []IInv
<1>1. Init => IInv
  BY InitLemma
<1>2. IInv /\ [Next]_vars => IInv'
  BY NextStep
<1> QED
  BY <1>1, <1>2, PTL DEF Spec

\* Every variable keeps its type; in particular the stack is empty exactly when the process
\* has ended.
THEOREM TypeCorrect == Spec => []TypeOK
<1>1. IInv => TypeOK
  BY DEF IInv
<1> QED
  BY <1>1, InductiveInvariant, PTL

\* However signals, exceptions and a kill cut a scan short, the report is one whole
\* document, unless a signal came between a write and its flush.
THEOREM ReportIsWhole == Spec => []TornOnlyByReentry
<1>1. IInv => TornOnlyByReentry
  BY DEF IInv, BufferInv, TornOnlyByReentry
<1> QED
  BY <1>1, InductiveInvariant, PTL

-----------------------------------------------------------------------------
\* What partial reports keep.

\* Every document there is: in a frame, printed, or a block of a file.
Everywhere == {frames[i].doc : i \in DOMAIN frames} \cup {stdout[i] : i \in DOMAIN stdout}
              \cup {node[n].body : n \in 1..used} \cup {node[n].rest : n \in 1..used}

Reports(d) == d.kind \in {"partial", "complete"}
DocKept(d) == /\ d.kind = "partial" => d.found = PartialFindings
              /\ d.kind = "complete" => d.found = staged

\* The engine's results are complete before a report is made from them, and do not change
\* any more once there is one.
KeptInv ==
    \/ faults > 0
    \/ /\ AtStep("engine") => staged = {}
       /\ AtStep("cross") => Ast \subseteq staged
       /\ AtStep("filter") => Ast \ Sanitized \subseteq staged
       /\ edges \ (Sanitized \cup want.drop) \subseteq PartialFindings
       /\ \A d \in Everywhere : DocKept(d)
       /\ \A s \in Stages : AtStep(s) => \A d \in Everywhere : ~Reports(d)

\* A step behind the engine's: it adds no documents but what was found.
LEMMA KeptByReport ==
    ASSUME IInv, KeptInv, faults' = faults, UNCHANGED <<edges, staged, want>>,
           \A s \in Stages : ~AtStep(s)',
           faults = 0 => \A d \in Everywhere' : d \in Everywhere \/ ~Reports(d) \/ DocKept(d)
    PROVE  KeptInv'
<1>1. CASE faults > 0
  BY <1>1 DEF KeptInv
<1>2. CASE ~(faults > 0)
  <2>1. faults = 0
    BY <1>2, TypesAre
  <2>2. ~AtStep("engine")' /\ ~AtStep("cross")' /\ ~AtStep("filter")'
    BY DEF Stages
  <2>3. PartialFindings' = PartialFindings
    BY DEF PartialFindings
  <2>4. edges' \ (Sanitized \cup want'.drop) \subseteq PartialFindings'
    BY <1>2, <2>3 DEF KeptInv
  <2>5. \A d \in Everywhere' : DocKept(d)
    BY <1>2, <2>1 DEF KeptInv, DocKept, Reports
  <2>6. \A d : DocKept(d)' <=> DocKept(d)
    BY <2>3 DEF DocKept
  <2>7. \A d \in Everywhere' : DocKept(d)'
    BY <2>5, <2>6
  <2> QED
    BY <2>2, <2>4, <2>7 DEF KeptInv
<1> QED
  BY <1>1, <1>2

\* The frames after a step of the top one.
LEMMA TopFrames ==
    ASSUME IInv, NEW x, TopBecomes(x)
    PROVE  \A i \in DOMAIN frames' : i \in DOMAIN frames /\ (frames'[i] = frames[i] \/ frames'[i] = x)
<1>1. frames' = [frames EXCEPT ![Len(frames)] = x] /\ frames \in Seq(Frame) /\ Len(frames) \in Nat
  BY StackIs DEF TopBecomes
<1> QED
  BY <1>1

\* A step of the top frame that prints and writes only documents there were.
LEMMA KeptByStep ==
    ASSUME IInv, KeptInv, NEW x, TopBecomes(x), x.step \notin Stages,
           faults = 0 => x.doc = Top.doc \/ ~Reports(x.doc) \/ DocKept(x.doc),
           faults' = faults, UNCHANGED <<edges, staged, want>>,
           \A i \in DOMAIN stdout' : stdout'[i] \in Everywhere,
           \A n \in 1..used' : {node'[n].body, node'[n].rest} \subseteq Everywhere \cup {Blank}
    PROVE  KeptInv'
<1>1. \A s \in Stages : ~AtStep(s)'
  BY TopIs DEF AtStep
<1>2. Top.doc \in Everywhere
  BY StackIs DEF TopBecomes, Everywhere
<1>3. \A d \in Everywhere' : d \in Everywhere \/ d = x.doc \/ d = Blank
  <2>1. \A i \in DOMAIN frames' : frames'[i].doc \in Everywhere \/ frames'[i].doc = x.doc
    BY TopFrames DEF Everywhere
  <2> QED
    BY <2>1 DEF Everywhere
<1>4. ~Reports(Blank)
  BY DEF Reports, Blank, Document
<1>5. faults = 0 => \A d \in Everywhere' : d \in Everywhere \/ ~Reports(d) \/ DocKept(d)
  BY <1>2, <1>3, <1>4
<1> QED
  BY <1>1, <1>5, KeptByReport

\* One that prints and writes nothing.
LEMMA KeptByThought ==
    ASSUME IInv, KeptInv, NEW x, TopBecomes(x), x.step \notin Stages,
           faults = 0 => x.doc = Top.doc \/ ~Reports(x.doc) \/ DocKept(x.doc),
           faults' = faults, UNCHANGED <<edges, staged, want, stdout, node, used>>
    PROVE  KeptInv'
<1>1. \A i \in DOMAIN stdout' : stdout'[i] \in Everywhere
  BY DEF Everywhere
<1>2. \A n \in 1..used' : {node'[n].body, node'[n].rest} \subseteq Everywhere \cup {Blank}
  BY DEF Everywhere
<1> QED
  BY <1>1, <1>2, KeptByStep

\* While the engine runs there are no reports, so the results may grow.
LEMMA KeptByEngine ==
    ASSUME IInv, KeptInv, NEW s \in Stages, AtStep(s), UNCHANGED <<want, stdout, node, used>>,
           faults' = faults, NEW x, TopBecomes(x), x.step = s \/ x.step \notin Stages \/ x.doc = Top.doc,
           x.step \in Stages => x.doc = Top.doc,
           x.doc = Top.doc \/ x.doc = Document("complete", staged'),
           faults = 0 => /\ x.step = "engine" => staged' = {}
                         /\ x.step = "cross" => Ast \subseteq staged'
                         /\ x.step = "filter" => Ast \ Sanitized \subseteq staged'
                         /\ edges' \ (Sanitized \cup want.drop) \subseteq PartialFindings'
    PROVE  KeptInv'
<1>1. CASE faults > 0
  BY <1>1 DEF KeptInv
<1>2. CASE ~(faults > 0)
  <2>1. faults = 0
    BY <1>2, TypesAre
  <2>2. \A d \in Everywhere : ~Reports(d)
    BY <1>2 DEF KeptInv
  <2>3. Top' = x /\ frames' # <<>>
    BY TopIs
  <2>4. Top.doc \in Everywhere
    BY StackIs DEF TopBecomes, Everywhere
  <2>5. \A d \in Everywhere' : d \in Everywhere \/ d = x.doc
    BY TopFrames DEF Everywhere
  <2>6. \A d \in Everywhere' : ~Reports(d) \/ d = Document("complete", staged')
    BY <2>2, <2>4, <2>5
  <2>7. \A d \in Everywhere' : DocKept(d)'
    BY <2>6 DEF DocKept, Reports, Document
  <2>8. \A t \in Stages : AtStep(t)' => x.step = t
    BY <2>3 DEF AtStep
  <2>9. x.step \in Stages => \A d \in Everywhere' : ~Reports(d)
    BY <2>2, <2>4, <2>5
  <2>10. /\ AtStep("engine")' => staged' = {}
         /\ AtStep("cross")' => Ast \subseteq staged'
         /\ AtStep("filter")' => Ast \ Sanitized \subseteq staged'
         /\ edges' \ (Sanitized \cup want'.drop) \subseteq PartialFindings'
    BY <2>1, <2>8 DEF Stages
  <2>11. \A t \in Stages : AtStep(t)' => \A d \in Everywhere' : ~Reports(d)'
    BY <2>8, <2>9 DEF Reports
  <2> QED
    BY <2>7, <2>10, <2>11 DEF KeptInv
<1> QED
  BY <1>1, <1>2

LEMMA AnalyzeKeeps == ASSUME IInv, KeptInv, Analyze PROVE KeptInv'
<1>1. PICK f \in Ast \ edges : edges' = edges \cup {f}
  BY DEF Analyze
<1>2. /\ AtStep("engine") /\ frames # <<>> /\ Top.step = "engine"
      /\ UNCHANGED <<frames, staged, want, stdout, node, used, faults>>
  BY DEF Analyze, AtStep, disk
<1>3. TopBecomes(Top)
  <2>1. /\ frames \in Seq(Frame) /\ Len(frames) \in 1..Len(frames) /\ Top \in Frame
        /\ Top = frames[Len(frames)]
    BY <1>2, StackIs
  <2>2. frames = [frames EXCEPT ![Len(frames)] = Top]
    BY <2>1
  <2> QED
    BY <1>2, <2>1, <2>2 DEF TopBecomes
<1>4. faults = 0 => staged' = {} /\ PartialFindings' = edges'
  BY <1>2 DEF KeptInv, PartialFindings
<1> QED
  BY <1>2, <1>3, <1>4, KeptByEngine DEF Stages

LEMMA MergeKeeps == ASSUME IInv, KeptInv, Merge PROVE KeptInv'
<1>1. /\ AtStep("engine") /\ frames # <<>> /\ Advance("cross") /\ edges = Ast /\ staged' = Merged
      /\ UNCHANGED <<edges, want, stdout, node, used, faults>>
  BY DEF Merge, AtStep, disk
<1> PICK x : TopBecomes(x) /\ x.step = "cross" /\ x.doc = Top.doc
  BY <1>1, AdvanceIs, CalmSteps DEF AtStep
<1>2. Ast \subseteq staged' /\ edges' \ (Sanitized \cup want.drop) \subseteq PartialFindings'
  BY <1>1 DEF Merged, PartialFindings
<1> QED
  BY <1>1, <1>2, KeptByEngine DEF Stages

LEMMA CrossScanKeeps == ASSUME IInv, KeptInv, CrossScan PROVE KeptInv'
<1>1. /\ AtStep("cross") /\ frames # <<>> /\ Advance("filter")
      /\ staged' = (staged \ Sanitized) \cup Cross
      /\ UNCHANGED <<edges, want, stdout, node, used, faults>>
  BY DEF CrossScan, AtStep, disk
<1> PICK x : TopBecomes(x) /\ x.step = "filter" /\ x.doc = Top.doc
  BY <1>1, AdvanceIs, CalmSteps DEF AtStep
<1>2. faults = 0 => /\ Ast \ Sanitized \subseteq staged'
                    /\ edges' \ (Sanitized \cup want.drop) \subseteq PartialFindings'
  BY <1>1, TypesAre DEF KeptInv, PartialFindings
<1> QED
  BY <1>1, <1>2, KeptByEngine DEF Stages

LEMMA FilterKeeps == ASSUME IInv, KeptInv, Filter PROVE KeptInv'
<1> DEFINE x == NewFrame("scan", "print", Document("complete", staged'))
<1>1. /\ AtStep("filter") /\ frames # <<>> /\ staged' = staged \ want.drop
      /\ frames' = [frames EXCEPT ![Len(frames)] = x]
      /\ UNCHANGED <<edges, want, stdout, node, used, faults>>
  BY DEF Filter, AtStep, disk
<1>2. x \in Frame /\ x.step = "print" /\ x.doc = Document("complete", staged')
  <2>1. Document("complete", staged') \in Docs
    <3>1. staged' \in SUBSET Findings
      BY <1>1, TypesAre
    <3> QED
      BY <3>1, DocsAre
  <2>2. "print" \in Steps /\ "print" \notin {"open"} \cup Writing
    BY CalmSteps
  <2> QED
    BY <2>1, <2>2, NewFrameIs
<1> HIDE DEF x
<1>3. TopBecomes(x)
  BY <1>1, <1>2 DEF TopBecomes
<1>4. faults = 0 => edges' \ (Sanitized \cup want.drop) \subseteq PartialFindings'
  BY <1>1, TypesAre DEF KeptInv, PartialFindings
<1> QED
  BY <1>1, <1>2, <1>3, <1>4, KeptByEngine DEF Stages

-----------------------------------------------------------------------------
\* What the steps behind the engine's keep.

LEMMA PrintKeeps == ASSUME IInv, KeptInv, PrintReport PROVE KeptInv'
<1>1. /\ frames # <<>> /\ Top.step = "print" /\ Advance("build")
      /\ stdout' = IF want.json THEN Append(stdout, Top.doc) ELSE stdout
      /\ UNCHANGED <<edges, staged, want, node, used, faults>>
  BY DEF PrintReport, AtStep, disk
<1> PICK x : TopBecomes(x) /\ x.step = "build" /\ x.doc = Top.doc
  BY <1>1, AdvanceIs, CalmSteps
<1>2. Top.doc \in Everywhere
  BY <1>1, StackIs DEF Everywhere
<1>3. \A i \in DOMAIN stdout' : stdout'[i] \in Everywhere
  <2>1. \A i \in DOMAIN stdout' : (i \in DOMAIN stdout /\ stdout'[i] = stdout[i]) \/ stdout'[i] = Top.doc
    BY <1>1, TypesAre
  <2> QED
    BY <1>2, <2>1 DEF Everywhere
<1>4. \A n \in 1..used' : {node'[n].body, node'[n].rest} \subseteq Everywhere \cup {Blank}
  BY <1>1 DEF Everywhere
<1> QED
  BY <1>1, <1>3, <1>4, KeptByStep DEF Stages

LEMMA BuildKeeps == ASSUME IInv, KeptInv, BuildSarif PROVE KeptInv'
<1>1. /\ AtStep("build") /\ frames # <<>> /\ Top.step = "build"
      /\ UNCHANGED <<edges, staged, want, stdout, node, used, faults>>
  BY DEF BuildSarif, AtStep, disk
<1>2. CASE want.sarif
  <2> PICK shown \in Bounded(Top.doc.found) :
        frames' = [frames EXCEPT ![Len(frames)].doc.shown = shown, ![Len(frames)].step = "open"]
    BY <1>2 DEF BuildSarif
  <2> PICK x : TopBecomes(x) /\ x.step = "open" /\ x.doc = [Top.doc EXCEPT !.shown = shown]
    BY <1>1, BoundedIs
  <2>1. x.doc.kind = Top.doc.kind /\ x.doc.found = Top.doc.found
    <3>1. Top.doc \in Docs
      BY <1>1, StackIs, FrameIs
    <3> QED
      BY <3>1 DEF Docs
  <2>2. faults = 0 => ~Reports(x.doc) \/ DocKept(x.doc)
    <3>1. Top.doc \in Everywhere
      BY <1>1, StackIs DEF Everywhere
    <3> QED
      BY <2>1, <3>1 DEF KeptInv, DocKept
  <2> QED
    BY <1>1, <2>2, KeptByThought DEF Stages
<1>3. CASE ~want.sarif
  <2>1. Advance("return")
    BY <1>3 DEF BuildSarif
  <2> PICK x : TopBecomes(x) /\ x.step = "return" /\ x.doc = Top.doc
    BY <1>1, <2>1, AdvanceIs, CalmSteps
  <2> QED
    BY <1>1, KeptByThought DEF Stages
<1> QED
  BY <1>2, <1>3

LEMMA EnterKeeps == ASSUME IInv, KeptInv, EnterFlush PROVE KeptInv'
<1>1. /\ frames # <<>> /\ Top.step = "enter" /\ Advance("collect")
      /\ UNCHANGED <<edges, staged, want, stdout, node, used, faults>>
  BY DEF EnterFlush, AtStep, disk
<1> PICK x : TopBecomes(x) /\ x.step = "collect" /\ x.doc = Top.doc
  BY <1>1, AdvanceIs, CalmSteps
<1> QED
  BY <1>1, KeptByThought DEF Stages

LEMMA ReplaceKeeps == ASSUME IInv, KeptInv, ReplaceTarget PROVE KeptInv'
<1>1. /\ frames # <<>> /\ Top.step = "replace" /\ Advance("return")
      /\ UNCHANGED <<edges, staged, want, stdout, node, used, faults>>
  BY DEF ReplaceTarget, AtStep
<1> PICK x : TopBecomes(x) /\ x.step = "return" /\ x.doc = Top.doc
  BY <1>1, AdvanceIs, CalmSteps
<1> QED
  BY <1>1, KeptByThought DEF Stages

LEMMA CollectKeeps == ASSUME IInv, KeptInv, Collect PROVE KeptInv'
<1> DEFINE d == Document("partial", PartialFindings)
           x == [Top EXCEPT !.doc = d, !.step = "print"]
<1>1. /\ frames # <<>> /\ Top.step = "collect" /\ CollectAs(PartialFindings)
      /\ UNCHANGED <<edges, staged, want, stdout, node, used, faults>>
  BY DEF Collect, AtStep, disk
<1>2. frames \in Seq(Frame) /\ Len(frames) \in 1..Len(frames) /\ Top \in Frame /\ Top = frames[Len(frames)]
  BY <1>1, StackIs
<1>3. d \in Docs /\ DocKept(d)
  <2>1. PartialFindings \in SUBSET Findings
    BY TypesAre DEF PartialFindings
  <2>2. d \in Docs
    BY <2>1, DocsAre
  <2>3. d.kind = "partial" /\ d.found = PartialFindings
    BY DEF Document
  <2>4. DocKept(d)
    BY <2>3 DEF DocKept
  <2> QED
    BY <2>2, <2>4
<1>4. frames' = [frames EXCEPT ![Len(frames)] = x]
  BY <1>1, <1>2 DEF CollectAs
<1> HIDE DEF d
<1>5. x \in Frame /\ x.step = "print" /\ x.doc = d
  BY <1>1, <1>2, <1>3, StepsAre DEF Frame
<1> HIDE DEF x
<1>6. TopBecomes(x)
  BY <1>1, <1>4, <1>5 DEF TopBecomes
<1> QED
  BY <1>1, <1>3, <1>5, <1>6, KeptByThought DEF Stages

LEMMA OpenKeeps == ASSUME IInv, KeptInv, OpenTemp PROVE KeptInv'
<1> DEFINE n == IF tmp = None THEN used + 1 ELSE tmp
           x == [Top EXCEPT !.node = n, !.step = "write"]
<1>1. /\ used' = (IF tmp = None THEN n ELSE used)
      /\ node' = [m \in 1..used' |-> IF m = n THEN Empty ELSE node[m]]
      /\ frames' = [frames EXCEPT ![Len(frames)].node = n, ![Len(frames)].step = "write"]
      /\ frames # <<>> /\ Top.step = "open" /\ UNCHANGED <<edges, staged, want, stdout, faults>>
  BY DEF OpenTemp, AtStep
<1>2. n \in Nat /\ \A m \in 1..used' : m = n \/ m \in 1..used
  BY <1>1, DiskIs
<1>3. frames \in Seq(Frame) /\ Len(frames) \in 1..Len(frames) /\ Top \in Frame /\ Top = frames[Len(frames)]
  BY <1>1, StackIs
<1> HIDE DEF n
<1>4. x \in Frame /\ x.step = "write" /\ x.doc = Top.doc
  BY <1>1, <1>2, <1>3, StepsAre DEF Frame
<1>5. frames' = [frames EXCEPT ![Len(frames)] = x]
  BY <1>1, <1>3
<1> HIDE DEF x
<1>6. TopBecomes(x)
  BY <1>1, <1>4, <1>5 DEF TopBecomes
<1>7. \A i \in DOMAIN stdout' : stdout'[i] \in Everywhere
  BY <1>1 DEF Everywhere
<1>8. \A m \in 1..used' : {node'[m].body, node'[m].rest} \subseteq Everywhere \cup {Blank}
  <2>1. Empty.body = Blank /\ Empty.rest = Blank
    BY DEF Empty
  <2>2. \A m \in 1..used' : node'[m] = Empty \/ (m \in 1..used /\ node'[m] = node[m])
    BY <1>1, <1>2
  <2> QED
    BY <2>1, <2>2 DEF Everywhere
<1> QED
  BY <1>1, <1>4, <1>6, <1>7, <1>8, KeptByStep DEF Stages

\* Writing the top frame's document to a file.
LEMMA KeptByWrite ==
    ASSUME IInv, KeptInv, NEW x, TopBecomes(x), x.step \notin Stages, x.doc = Top.doc,
           faults' = faults, UNCHANGED <<edges, staged, want, stdout, used>>,
           NEW n, node' = node \/ node' = [node EXCEPT ![n] = Overwrite(@, Top.doc)]
    PROVE  KeptInv'
<1>1. Top.doc \in Everywhere
  BY StackIs DEF TopBecomes, Everywhere
<1>2. \A i \in DOMAIN stdout' : stdout'[i] \in Everywhere
  BY DEF Everywhere
<1>3. \A m \in 1..used : node'[m] = node[m] \/ node'[m] = Overwrite(node[m], Top.doc)
  BY DiskIs
<1>4. \A c : Overwrite(c, Top.doc).body = Top.doc /\ Overwrite(c, Top.doc).rest \in {c.rest, Top.doc}
  BY DEF Overwrite
<1>5. \A m \in 1..used' : {node'[m].body, node'[m].rest} \subseteq Everywhere \cup {Blank}
  BY <1>1, <1>3, <1>4 DEF Everywhere
<1> QED
  BY <1>2, <1>5, KeptByStep

LEMMA WriteKeeps == ASSUME IInv, KeptInv, WriteText PROVE KeptInv'
<1> PICK buffered \in BOOLEAN :
      /\ node' = IF buffered THEN node ELSE [node EXCEPT ![Top.node] = Overwrite(@, Top.doc)]
      /\ frames' = [frames EXCEPT ![Len(frames)].pending = buffered, ![Len(frames)].step = "flush"]
  BY DEF WriteText
<1> DEFINE x == [Top EXCEPT !.pending = buffered, !.step = "flush"]
<1>1. frames # <<>> /\ Top.step = "write" /\ UNCHANGED <<edges, staged, want, stdout, used, faults>>
  BY DEF WriteText, AtStep
<1>2. frames \in Seq(Frame) /\ Len(frames) \in 1..Len(frames) /\ Top \in Frame /\ Top = frames[Len(frames)]
  BY <1>1, StackIs
<1>3. x \in Frame /\ x.step = "flush" /\ x.doc = Top.doc
  BY <1>1, <1>2, StepsAre DEF Frame
<1>4. frames' = [frames EXCEPT ![Len(frames)] = x]
  BY <1>2
<1> HIDE DEF x
<1>5. TopBecomes(x)
  BY <1>1, <1>3, <1>4 DEF TopBecomes
<1>6. node' = node \/ node' = [node EXCEPT ![Top.node] = Overwrite(@, Top.doc)]
  OBVIOUS
<1> QED
  BY <1>1, <1>3, <1>5, <1>6, KeptByWrite DEF Stages

LEMMA FlushKeeps == ASSUME IInv, KeptInv, FlushText PROVE KeptInv'
<1> DEFINE x == [Top EXCEPT !.pending = FALSE, !.step = "replace"]
<1>1. /\ frames # <<>> /\ Top.step = "flush" /\ UNCHANGED <<edges, staged, want, stdout, used, faults>>
      /\ frames' = [frames EXCEPT ![Len(frames)].pending = FALSE, ![Len(frames)].step = "replace"]
      /\ node' = node \/ node' = [node EXCEPT ![Top.node] = Overwrite(@, Top.doc)]
  BY DEF FlushText, AtStep
<1>2. frames \in Seq(Frame) /\ Len(frames) \in 1..Len(frames) /\ Top \in Frame /\ Top = frames[Len(frames)]
  BY <1>1, StackIs
<1>3. x \in Frame /\ x.step = "replace" /\ x.doc = Top.doc
  BY <1>1, <1>2, StepsAre DEF Frame
<1>4. frames' = [frames EXCEPT ![Len(frames)] = x]
  BY <1>1, <1>2
<1> HIDE DEF x
<1>5. TopBecomes(x)
  BY <1>1, <1>3, <1>4 DEF TopBecomes
<1> QED
  BY <1>1, <1>3, <1>5, KeptByWrite DEF Stages

LEMMA SignalKeeps == ASSUME IInv, KeptInv, Signal PROVE KeptInv'
<1> DEFINE x == NewFrame("handler", "enter", Fallback)
<1>1. /\ frames' = Append(frames, x)
      /\ UNCHANGED <<edges, staged, want, stdout, node, used, faults>>
  BY DEF Signal, disk
<1>2. x \in Frame /\ x.step = "enter" /\ ~Reports(x.doc)
  <2>1. ~Reports(Fallback)
    BY DEF Reports, Fallback, Document
  <2> QED
    BY <2>1, DocsAre, NewFrameIs, CalmSteps
<1> HIDE DEF x
<1>3. /\ frames' # <<>> /\ frames'[Len(frames')] = x
      /\ \A i \in DOMAIN frames' : (i \in DOMAIN frames /\ frames'[i] = frames[i]) \/ frames'[i] = x
  BY <1>1, <1>2, StackIs
<1>4. \A s \in Stages : ~AtStep(s)'
  BY <1>2, <1>3 DEF AtStep, Top, Last, Stages
<1>5. \A d \in Everywhere' : d \in Everywhere \/ ~Reports(d)
  <2>1. \A i \in DOMAIN frames' : frames'[i].doc \in Everywhere \/ ~Reports(frames'[i].doc)
    BY <1>2, <1>3 DEF Everywhere
  <2> QED
    BY <1>1, <2>1 DEF Everywhere
<1> QED
  BY <1>1, <1>4, <1>5, KeptByReport

\* Leaving the process only flushes documents there were.
LEMMA ExitKeeps ==
    ASSUME IInv, KeptInv, NEW s, Exit(s), UNCHANGED <<edges, staged, want, stdout, faults>>
    PROVE  KeptInv'
<1>1. frames' = <<>> /\ used' = used /\ node' = [n \in 1..used |-> Drained(n)]
  BY DEF Exit, Unwind
<1>2. \A t \in Stages : ~AtStep(t)'
  BY <1>1 DEF AtStep
<1>3. \A n \in 1..used : Drained(n).body \in Everywhere /\ Drained(n).rest \in Everywhere
  BY DrainedIs DEF Everywhere
<1>4. \A d \in Everywhere' : d \in Everywhere
  <2>1. \A n \in 1..used' : node'[n].body \in Everywhere /\ node'[n].rest \in Everywhere
    BY <1>1, <1>3
  <2>2. DOMAIN frames' = {}
    BY <1>1
  <2> QED
    BY <2>1, <2>2 DEF Everywhere
<1> QED
  BY <1>2, <1>4, KeptByReport

LEMMA KillKeeps == ASSUME IInv, KeptInv, Kill PROVE KeptInv'
<1>1. frames' = <<>> /\ UNCHANGED <<edges, staged, want, stdout, node, used, faults>>
  BY DEF Kill, disk
<1>2. (\A t \in Stages : ~AtStep(t)') /\ DOMAIN frames' = {}
  BY <1>1 DEF AtStep
<1>3. \A d \in Everywhere' : d \in Everywhere
  BY <1>1, <1>2 DEF Everywhere
<1> QED
  BY <1>1, <1>2, <1>3, KeptByReport

LEMMA FaultKeeps == ASSUME IInv, Fault PROVE KeptInv'
<1>1. faults' > 0
  BY TypesAre DEF Fault
<1> QED
  BY <1>1 DEF KeptInv

LEMMA KeptInit == Init => KeptInv
<1> SUFFICES ASSUME Init PROVE KeptInv
  OBVIOUS
<1> DEFINE x == NewFrame("scan", "engine", Fallback)
<1>1. /\ frames = <<x>> /\ edges = {} /\ staged = {} /\ stdout = <<>> /\ used \in {0, 1}
      /\ node = [n \in 1..used |-> Holds(OldReport)]
  BY DEF Init
<1>2. x.step = "engine" /\ x.doc = Fallback
  BY DEF NewFrame
<1>3. ~Reports(Fallback) /\ ~Reports(OldReport) /\ ~Reports(Blank)
  BY DEF Reports, Fallback, OldReport, Blank, Document
<1>4. Holds(OldReport).body = OldReport /\ Holds(OldReport).rest \in {OldReport, Blank}
  BY DEF Holds, Overwrite, Empty
<1> HIDE DEF x
<1>5. Top = x
  BY <1>1 DEF Top, Last
<1>6. \A d \in Everywhere : ~Reports(d)
  <2>1. \A i \in DOMAIN frames : frames[i].doc = Fallback
    BY <1>1, <1>2
  <2>2. DOMAIN stdout = {}
    BY <1>1
  <2>3. \A n \in 1..used : node[n].body = OldReport /\ node[n].rest \in {OldReport, Blank}
    BY <1>1, <1>4
  <2> QED
    BY <1>3, <2>1, <2>2, <2>3 DEF Everywhere
<1> QED
  BY <1>1, <1>2, <1>5, <1>6 DEF KeptInv, AtStep, DocKept, Reports

LEMMA KeptNext == IInv /\ KeptInv /\ [Next]_vars => KeptInv'
<1> SUFFICES ASSUME IInv, KeptInv, [Next]_vars PROVE KeptInv'
  OBVIOUS
<1>1. CASE UNCHANGED vars
  BY <1>1 DEF vars, KeptInv, AtStep, Top, PartialFindings, Everywhere, DocKept, Reports
<1>2. CASE Return
  BY <1>2, ExitKeeps DEF Return
<1>3. CASE AlreadyFlushed
  BY <1>3, ExitKeeps DEF AlreadyFlushed
<1>4. CASE \/ IndexUnreadable \/ StageRaises \/ ScanRaises \/ FailureRaises \/ CrossFails
           \/ FlushSwallowed \/ WriteFails
  BY <1>4, FaultKeeps DEF IndexUnreadable, StageRaises, ScanRaises, FailureRaises, CrossFails,
     FlushSwallowed, WriteFails, Escapes
<1>5. CASE Analyze \/ Merge \/ CrossScan \/ Filter \/ PrintReport \/ BuildSarif \/ OpenTemp
           \/ WriteText \/ FlushText \/ ReplaceTarget \/ Signal \/ EnterFlush \/ Collect \/ Kill
  BY <1>5, AnalyzeKeeps, MergeKeeps, CrossScanKeeps, FilterKeeps, PrintKeeps, BuildKeeps, OpenKeeps,
     WriteKeeps, FlushKeeps, ReplaceKeeps, SignalKeeps, EnterKeeps, CollectKeeps, KillKeeps
<1> QED
  BY <1>1, <1>2, <1>3, <1>4, <1>5 DEF Next

\* A kill part-way keeps what was found: a partial report is made from every sink found so far
\* that the complete report would have, never replaces a complete report made from more, and
\* its file lists what the upload limits let through, the urgent findings first.
THEOREM FindingsKept == Spec => []PartialKeepsFindings
<1>1. Init => IInv /\ KeptInv
  BY InitLemma, KeptInit
<1>2. (IInv /\ KeptInv) /\ [Next]_vars => (IInv /\ KeptInv)'
  BY NextStep, KeptNext
<1>3. ASSUME IInv, KeptInv PROVE PartialKeepsFindings
  <2>0. target # None => node[target].body \in Everywhere
    <3>1. target # None => target \in 1..used
      BY <1>3, DiskIs
    <3> QED
      BY <3>1 DEF Everywhere
  <2>1. ASSUME NEW d \in Everywhere PROVE KeepsFindings(d)
    <3> SUFFICES ASSUME d.kind = "partial", faults = 0
                 PROVE  /\ edges \ (Sanitized \cup want.drop) \subseteq d.found
                        /\ target # None /\ node[target].body.kind = "complete" =>
                              node[target].body.found \subseteq d.found
      BY DEF KeepsFindings
    <3>1. ~(faults > 0)
      OBVIOUS
    <3>2. /\ edges \ (Sanitized \cup want.drop) \subseteq PartialFindings
          /\ \A e \in Everywhere : DocKept(e)
      BY <1>3, <3>1 DEF KeptInv
    <3>3. d.found = PartialFindings /\ \A e \in Everywhere : e.kind = "complete" => e.found = staged
      BY <3>2 DEF DocKept
    <3>4. staged \subseteq PartialFindings
      BY DEF PartialFindings
    <3> QED
      BY <2>0, <3>2, <3>3, <3>4
  <2>2. \A d \in Everywhere : KeepsFindings(d)
    BY <2>1
  <2>3. /\ \A i \in DOMAIN frames : frames[i].doc \in Everywhere
        /\ \A i \in DOMAIN stdout : stdout[i] \in Everywhere
    BY DEF Everywhere
  <2>4. target # None /\ node[target].body.kind = "partial" =>
           node[target].body.shown \in Bounded(node[target].body.found)
    <3> SUFFICES ASSUME target # None, node[target].body.kind = "partial"
                 PROVE  node[target].body.shown \in Bounded(node[target].body.found)
      OBVIOUS
    <3>1. target \in 1..used /\ node[target] \in Contents
      BY <1>3, DiskIs
    <3>2. node[target].body \in SarifDocs \cup {Blank} /\ Blank.kind = "blank"
      BY <3>1 DEF Contents, Blank, Document
    <3> QED
      BY <3>2 DEF SarifDocs
  <2> QED
    BY <2>0, <2>2, <2>3, <2>4 DEF PartialKeepsFindings
<1> QED
  BY <1>1, <1>2, <1>3, PTL DEF Spec

-----------------------------------------------------------------------------
\* What the exit status says.

Late == {"build", "open", "write", "flush", "replace", "return"}

\* The main frame is the scan's or a _scan_failure's, and every other one a handler's.
RolesOK ==
    \A i \in DOMAIN frames :
        /\ frames[i].role = "handler" <=> i # 1
        /\ frames[i].step \in Stages => frames[i].role = "scan"
        /\ frames[i].step \in {"enter", "collect"} => frames[i].role = "handler"

\* How far the scan has got with its findings.
ScanFrame(f) ==
    f.role = "scan" =>
        /\ f.step = "cross" => staged = Merged
        /\ f.step = "filter" => staged = (Merged \ Sanitized) \cup Cross
        /\ f.step \in {"print"} \cup Late =>
              staged = Final /\ f.doc.kind = "complete" /\ f.doc.found = Final
        /\ f.step = "print" => f.doc = Document("complete", Final)

\* The scan while no handler is on top of it: the handlers there were have been swallowed.
Untouched == signals = 0 \/ faults = 0
JsonOK == /\ stdout # <<>> /\ Last(stdout) = Document("complete", Final)
          /\ Untouched => Len(stdout) = 1
ScanOnTop ==
    Top.role = "scan" =>
        /\ ~reentered
        /\ Top.step \in Stages \cup {"print"} /\ Untouched => stdout = <<>>
        /\ Top.step \in Late /\ want.json => JsonOK
        /\ Top.step = "return" /\ want.sarif =>
              target # None /\ tmp = None /\ CompleteSarif(node[target])

\* Only a handler that has set the flag, or one that will find it set, is on top of a stage.
FlushedOnce ==
    frames[1].step \in Stages =>
        /\ Top.step \notin Stages \cup {"enter"} => written
        /\ reentered => written /\ Top.step = "enter"

\* What there has been no signal, or no exception, for.
Counted ==
    /\ signals = 0 => Len(frames) = 1 /\ ~written
    /\ faults = 0 => frames[1].role = "scan"

Printed == want.json /\ (frames[1].step \in Late \/ Top.step \in Late) => stdout # <<>>

\* The handler of the only signal, while there was no exception: it may write to the file
\* the scan had begun, whose buffer is flushed over it in the end.
HandlerOK ==
    /\ Len(frames) = 2
    /\ frames[1].pending => frames[1].doc.kind = "complete"
    /\ Top.step \notin Stages
    /\ Top.step = "enter" => ~written
    /\ Top.step \in {"print"} \cup Late => Top.doc.kind = "partial"
    /\ Top.step \in Writing => tmp # None /\ Top.node = tmp
    /\ Top.step = "flush" /\ ~Top.pending => node[tmp].body = Top.doc
    /\ Top.step = "replace" => node[tmp].body = Top.doc
    /\ Top.step = "return" /\ want.sarif => target # None /\ node[target].body.kind = "partial"

HonestInv ==
    /\ frames # <<>> =>
         /\ RolesOK /\ ScanFrame(frames[1]) /\ ScanOnTop /\ FlushedOnce /\ Counted /\ Printed
         /\ signals = 1 /\ faults = 0 => HandlerOK
    /\ StatusIsHonest

\* The frame on top, by its role.
LEMMA StackTop ==
    ASSUME IInv, HonestInv, frames # <<>>
    PROVE  /\ Len(frames) \in Nat /\ Len(frames) >= 1 /\ DOMAIN frames = 1..Len(frames)
           /\ Top = frames[Len(frames)] /\ Top \in Frame /\ frames[1] \in Frame
           /\ Top.role = "handler" => Len(frames) > 1 /\ signals # 0
           /\ Top.role # "handler" => Len(frames) = 1 /\ Top = frames[1]
           /\ Top.step \in Stages => Top.role = "scan"
           /\ Top.step \in {"enter", "collect"} => Top.role = "handler"
<1>1. /\ frames \in Seq(Frame) /\ Len(frames) \in Nat /\ Len(frames) >= 1 /\ DOMAIN frames = 1..Len(frames)
      /\ Top = frames[Len(frames)] /\ Top \in Frame /\ Len(frames) \in DOMAIN frames /\ 1 \in DOMAIN frames
  BY StackIs
<1>2. /\ Top.role = "handler" <=> Len(frames) # 1
      /\ Top.step \in Stages => Top.role = "scan"
      /\ Top.step \in {"enter", "collect"} => Top.role = "handler"
  BY <1>1 DEF HonestInv, RolesOK
<1>3. signals = 0 => Len(frames) = 1
  BY DEF HonestInv, Counted
<1> QED
  BY <1>1, <1>2, <1>3

\* A step of the top frame.
LEMMA HonestTop ==
    ASSUME IInv, HonestInv, NEW x, TopBecomes(x), x.role = Top.role,
           UNCHANGED <<want, status, signals, reentered>>,
           faults' = faults \/ (faults' # 0 /\ Top.role = "handler"),
           x.step \in Stages => x.role = "scan",
           x.step # "enter", x.step = "collect" => x.role = "handler",
           written' = written \/ Top.role = "handler", written => written',
           Top.step = "enter" => ~written /\ written',
           Top.role # "scan" => staged' = staged,
           Top.role = "scan" => ScanFrame(Top)' /\ ScanOnTop',
           x.step \in Late /\ want.json => stdout' # <<>>,
           stdout # <<>> => stdout' # <<>>,
           signals = 1 /\ faults' = 0 => HandlerOK'
    PROVE  HonestInv'
<1>1. /\ Len(frames) \in Nat /\ Len(frames) >= 1 /\ DOMAIN frames = 1..Len(frames)
      /\ Top = frames[Len(frames)]
      /\ Top.role = "handler" => Len(frames) > 1 /\ signals # 0
      /\ Top.role # "handler" => Len(frames) = 1 /\ Top = frames[1]
      /\ Top.step \in Stages => Top.role = "scan"
  BY StackTop DEF TopBecomes
<1>2. /\ frames' \in Seq(Frame) /\ frames' # <<>> /\ Len(frames') = Len(frames) /\ Top' = x
      /\ \A i \in 1..Len(frames) - 1 : frames'[i] = frames[i]
  BY TopIs
<1>3. frames'[Len(frames)] = x /\ DOMAIN frames' = 1..Len(frames)
  <2>1. Top' = frames'[Len(frames)]
    BY <1>2 DEF Top, Last
  <2> QED
    BY <1>2, <2>1
<1>4. /\ RolesOK /\ ScanFrame(frames[1]) /\ ScanOnTop /\ FlushedOnce /\ Counted /\ Printed
  BY DEF HonestInv, TopBecomes
<1>5. \/ Len(frames) = 1 /\ frames'[1] = x
      \/ Len(frames) > 1 /\ frames'[1] = frames[1] /\ Top.role = "handler"
  <2>1. CASE Len(frames) = 1
    BY <1>3, <2>1
  <2>2. CASE Len(frames) > 1
    <3>1. 1 \in 1..Len(frames) - 1 /\ Len(frames) \in DOMAIN frames
      BY <1>1, <2>2
    <3> QED
      BY <1>1, <1>2, <1>4, <2>2, <3>1 DEF RolesOK
  <2> QED
    BY <1>1, <2>1, <2>2
<1>6. RolesOK'
  <2> SUFFICES ASSUME NEW i \in 1..Len(frames)
               PROVE  /\ frames'[i].role = "handler" <=> i # 1
                      /\ frames'[i].step \in Stages => frames'[i].role = "scan"
                      /\ frames'[i].step \in {"enter", "collect"} => frames'[i].role = "handler"
    BY <1>3 DEF RolesOK
  <2>1. CASE i = Len(frames)
    <3>1. Top.role = "handler" <=> i # 1
      BY <1>1, <1>4, <2>1 DEF RolesOK
    <3> QED
      BY <1>3, <2>1, <3>1
  <2>2. CASE i # Len(frames)
    <3>0. Len(frames) \in Nat
      BY <1>1
    <3>1. i \in 1..Len(frames) - 1
      BY <2>2, <3>0
    <3> QED
      BY <1>1, <1>2, <1>4, <3>1 DEF RolesOK
  <2> QED
    BY <2>1, <2>2
<1>7. ScanFrame(frames[1])'
  <2>1. CASE Len(frames) = 1 /\ frames'[1] = x
    BY <1>2, <2>1 DEF ScanFrame
  <2>2. CASE frames'[1] = frames[1] /\ Top.role = "handler"
    BY <1>4, <2>2 DEF ScanFrame, Final
  <2> QED
    BY <1>5, <2>1, <2>2
<1>8. ScanOnTop'
  BY <1>2 DEF ScanOnTop
<1>9. FlushedOnce'
  <2> SUFFICES ASSUME frames'[1].step \in Stages
               PROVE  /\ x.step \notin Stages \cup {"enter"} => written'
                      /\ reentered => written' /\ x.step = "enter"
    BY <1>2 DEF FlushedOnce
  <2>1. CASE Len(frames) = 1 /\ frames'[1] = x
    <3>1. x.role = "scan" /\ ~reentered
      BY <1>4, <2>1 DEF ScanOnTop
    <3> QED
      BY <2>1, <3>1
  <2>2. CASE frames'[1] = frames[1] /\ Top.role = "handler"
    <3>1. Top.step \notin Stages
      BY <1>1, <2>2
    <3>2. written' /\ ~reentered
      BY <1>4, <2>2, <3>1 DEF FlushedOnce
    <3> QED
      BY <3>2
  <2> QED
    BY <1>5, <2>1, <2>2
<1>10. Counted'
  <2>1. signals = 0 => Len(frames') = 1 /\ ~written'
    BY <1>1, <1>2, <1>4 DEF Counted
  <2>2. faults' = 0 => frames'[1].role = "scan"
    BY <1>1, <1>4, <1>5 DEF Counted
  <2> QED
    BY <2>1, <2>2 DEF Counted
<1>11. Printed'
  BY <1>2, <1>4, <1>5 DEF Printed
<1>12. StatusIsHonest'
  <2>1. status' = "running"
    BY DEF TopBecomes, IInv, TypeOK, Running
  <2> QED
    BY <2>1 DEF StatusIsHonest
<1> QED
  BY <1>6, <1>7, <1>8, <1>9, <1>10, <1>11, <1>12 DEF HonestInv

\* Everything about the frames before and after such a step.
LEMMA TopShape ==
    ASSUME IInv, NEW x, TopBecomes(x)
    PROVE  /\ Top' = x /\ Len(frames') = Len(frames)
           /\ Len(frames) = 2 => frames'[1] = frames[1]
<1>1. /\ Top' = x /\ Len(frames') = Len(frames)
      /\ \A i \in 1..Len(frames) - 1 : frames'[i] = frames[i]
  BY TopIs
<1>2. ASSUME Len(frames) = 2 PROVE 1 \in 1..Len(frames) - 1
  BY <1>2
<1> QED
  BY <1>1, <1>2

LEMMA AdvanceShape ==
    ASSUME IInv, NEW s \in Steps, s \notin {"open"} \cup Writing, frames # <<>>, Top.step # "flush",
           Advance(s)
    PROVE  \E x : /\ TopBecomes(x) /\ x.step = s /\ x.pending = Top.pending
                  /\ x.doc = Top.doc /\ x.node = Top.node /\ x.role = Top.role
                  /\ Top' = x /\ Len(frames') = Len(frames)
                  /\ Len(frames) = 2 => frames'[1] = frames[1]
<1> DEFINE x == [Top EXCEPT !.step = s]
<1>1. frames \in Seq(Frame) /\ Len(frames) \in 1..Len(frames) /\ Top \in Frame /\ Top = frames[Len(frames)]
  BY StackIs
<1>2. /\ x \in Frame /\ x.step = s /\ x.pending = Top.pending /\ x.doc = Top.doc /\ x.node = Top.node
      /\ x.role = Top.role
  BY <1>1 DEF Frame
<1>3. frames' = [frames EXCEPT ![Len(frames)] = x]
  BY <1>1 DEF Advance
<1> HIDE DEF x
<1>4. TopBecomes(x)
  BY <1>2, <1>3 DEF TopBecomes
<1> QED
  BY <1>2, <1>4, TopShape

-----------------------------------------------------------------------------
\* The stages.

\* A stage of the scan hands its findings to the next.
LEMMA StageHonest ==
    ASSUME IInv, HonestInv, NEW x, TopBecomes(x), frames # <<>>, Top.step \in Stages,
           x.role = Top.role, x.step \in {"cross", "filter", "print"},
           UNCHANGED <<written, want, stdout, status, signals, faults, reentered>>,
           ScanFrame(Top)'
    PROVE  HonestInv'
<1>1. Top.role = "scan" /\ Top' = x
  BY StackTop, TopShape
<1>2. ~(signals = 1 /\ faults = 0)
  BY DEF HonestInv, HandlerOK
<1>3. ScanOnTop'
  <2>1. ~reentered /\ (Untouched => stdout = <<>>)
    BY <1>1 DEF HonestInv, ScanOnTop
  <2> QED
    BY <1>1, <2>1 DEF ScanOnTop, Untouched, Late
<1>4. x.step # "enter" /\ x.step # "collect" /\ x.step \notin Late /\ Top.step # "enter"
  BY DEF Late, Stages
<1> QED
  BY <1>1, <1>2, <1>3, <1>4, HonestTop

LEMMA MergeHonest == ASSUME IInv, HonestInv, Merge PROVE HonestInv'
<1>1. /\ frames # <<>> /\ Top.step = "engine" /\ Advance("cross") /\ staged' = Merged
      /\ UNCHANGED <<written, want, stdout, status, signals, faults, reentered>>
  BY DEF Merge, AtStep
<1> PICK x : TopBecomes(x) /\ x.step = "cross" /\ x.role = Top.role /\ Top' = x
  BY <1>1, AdvanceShape, CalmSteps
<1>2. ScanFrame(Top)'
  BY <1>1 DEF ScanFrame, Late, Merged
<1> QED
  BY <1>1, <1>2, StageHonest DEF Stages

LEMMA CrossScanHonest == ASSUME IInv, HonestInv, CrossScan PROVE HonestInv'
<1>1. /\ frames # <<>> /\ Top.step = "cross" /\ Advance("filter")
      /\ staged' = (staged \ Sanitized) \cup Cross
      /\ UNCHANGED <<written, want, stdout, status, signals, faults, reentered>>
  BY DEF CrossScan, AtStep
<1> PICK x : TopBecomes(x) /\ x.step = "filter" /\ x.role = Top.role /\ Top' = x
  BY <1>1, AdvanceShape, CalmSteps
<1>2. Top.role = "scan" /\ Top = frames[1]
  BY <1>1, StackTop DEF Stages
<1>3. staged = Merged
  BY <1>1, <1>2 DEF HonestInv, ScanFrame
<1>4. ScanFrame(Top)'
  BY <1>1, <1>3 DEF ScanFrame, Late, Merged
<1> QED
  BY <1>1, <1>4, StageHonest DEF Stages

LEMMA FilterHonest == ASSUME IInv, HonestInv, Filter PROVE HonestInv'
<1> DEFINE x == NewFrame("scan", "print", Document("complete", staged'))
<1>1. /\ frames # <<>> /\ Top.step = "filter" /\ staged' = staged \ want.drop
      /\ frames' = [frames EXCEPT ![Len(frames)] = x]
      /\ UNCHANGED <<written, want, stdout, status, signals, faults, reentered>>
  BY DEF Filter, AtStep
<1>2. x.step = "print" /\ x.doc = Document("complete", staged') /\ x.role = "scan"
  BY DEF NewFrame
<1>3. x \in Frame
  <2>1. staged' \in SUBSET Findings
    BY <1>1, TypesAre
  <2>2. Document("complete", staged') \in Docs
    BY <2>1, DocsAre
  <2> QED
    BY <2>2, NewFrameIs, CalmSteps
<1> HIDE DEF x
<1>4. TopBecomes(x) /\ Top' = x
  <2>1. TopBecomes(x)
    BY <1>1, <1>3 DEF TopBecomes
  <2> QED
    BY <2>1, TopShape
<1>5. Top.role = "scan" /\ Top = frames[1]
  BY <1>1, StackTop DEF Stages
<1>6. staged' = Final'
  <2>1. staged = (Merged \ Sanitized) \cup Cross
    BY <1>1, <1>5 DEF HonestInv, ScanFrame
  <2> QED
    BY <1>1, <2>1 DEF Final, Merged
<1>7. ScanFrame(Top)'
  BY <1>2, <1>4, <1>6 DEF ScanFrame, Document
<1> QED
  BY <1>1, <1>2, <1>4, <1>5, <1>7, StageHonest DEF Stages

-----------------------------------------------------------------------------
\* Writing a report.

\* The scan's report stays the complete one.
LEMMA ReportFrame ==
    ASSUME IInv, HonestInv, NEW x, TopBecomes(x), x.role = Top.role,
           Top.step \in {"print"} \cup Late, x.step \in Late,
           x.doc.kind = Top.doc.kind, x.doc.found = Top.doc.found, UNCHANGED <<staged, want>>
    PROVE  Top.role = "scan" => ScanFrame(Top)'
<1> SUFFICES ASSUME Top.role = "scan" PROVE ScanFrame(Top)'
  OBVIOUS
<1>1. frames # <<>> /\ Top = frames[1] /\ Top' = x
  BY StackTop, TopShape DEF TopBecomes
<1>2. staged = Final /\ Top.doc.kind = "complete" /\ Top.doc.found = Final
  BY <1>1 DEF HonestInv, ScanFrame
<1>3. Final' = Final
  BY DEF Final
<1> QED
  BY <1>1, <1>2, <1>3 DEF ScanFrame, Late

LEMMA PrintHonest == ASSUME IInv, HonestInv, PrintReport PROVE HonestInv'
<1>1. /\ frames # <<>> /\ Top.step = "print" /\ Advance("build")
      /\ stdout' = IF want.json THEN Append(stdout, Top.doc) ELSE stdout
      /\ UNCHANGED <<staged, written, want, disk, status, signals, faults, reentered>>
  BY DEF PrintReport, AtStep
<1> PICK x : /\ TopBecomes(x) /\ x.step = "build" /\ x.role = Top.role /\ x.doc = Top.doc
             /\ x.pending = Top.pending /\ Top' = x /\ Len(frames') = Len(frames)
             /\ Len(frames) = 2 => frames'[1] = frames[1]
  BY <1>1, AdvanceShape, CalmSteps
<1>2. want.json => stdout' # <<>> /\ Last(stdout') = Top.doc /\ Len(stdout') = Len(stdout) + 1
  <2>1. stdout \in Seq(Docs) /\ Top.doc \in Docs
    BY <1>1, TypesAre, StackIs, FrameIs
  <2> QED
    BY <1>1, <2>1 DEF Last
<1>3. Top.role = "scan" => ScanFrame(Top)'
  BY <1>1, ReportFrame DEF Late
<1>4. Top.role = "scan" => ScanOnTop'
  <2> SUFFICES ASSUME Top.role = "scan" PROVE ScanOnTop'
    OBVIOUS
  <2>1. Top = frames[1]
    BY <1>1, StackTop
  <2>2. ~reentered /\ (Untouched => stdout = <<>>) /\ Top.doc = Document("complete", Final)
    BY <1>1, <2>1 DEF HonestInv, ScanOnTop, ScanFrame
  <2>3. Final' = Final /\ Untouched' = Untouched
    BY <1>1 DEF Final, Untouched
  <2>4. want.json => JsonOK'
    BY <1>2, <2>2, <2>3 DEF JsonOK
  <2> QED
    BY <1>1, <2>2, <2>4 DEF ScanOnTop, Stages
<1>5. signals = 1 /\ faults = 0 => HandlerOK'
  BY <1>1 DEF HonestInv, HandlerOK, Stages, Late, Writing
<1>6. x.step \notin Stages
  BY DEF Stages
<1>7. stdout # <<>> => stdout' # <<>>
  BY <1>1, <1>2
<1> QED
  BY <1>1, <1>2, <1>3, <1>4, <1>5, <1>6, <1>7, HonestTop

\* A step of a report that has been printed.
LEMMA HonestLate ==
    ASSUME IInv, HonestInv, NEW x, TopBecomes(x), frames # <<>>, Top.step \in Late, x.step \in Late,
           x.role = Top.role, x.doc.kind = Top.doc.kind, x.doc.found = Top.doc.found,
           UNCHANGED <<staged, written, want, stdout, status, signals, faults, reentered>>,
           Top.role = "scan" /\ x.step = "return" /\ want.sarif =>
              target' # None /\ tmp' = None /\ CompleteSarif(node[target])',
           signals = 1 /\ faults = 0 => HandlerOK'
    PROVE  HonestInv'
<1>1. Top.role = "scan" => ScanFrame(Top)'
  BY ReportFrame
<1>2. Top' = x
  BY TopShape
<1>3. Top.role = "scan" => ScanOnTop'
  <2> SUFFICES ASSUME Top.role = "scan" PROVE ScanOnTop'
    OBVIOUS
  <2>1. ~reentered /\ (want.json => JsonOK)
    BY DEF HonestInv, ScanOnTop
  <2>2. want.json => JsonOK'
    BY <2>1 DEF JsonOK, Untouched, Final
  <2>3. x.step \notin Stages \cup {"print"}
    BY DEF Late, Stages
  <2> QED
    BY <1>2, <2>1, <2>2, <2>3 DEF ScanOnTop
<1>4. want.json => stdout # <<>>
  BY DEF HonestInv, Printed
<1>5. /\ x.step \notin Stages /\ x.step # "enter" /\ x.step # "collect" /\ Top.step # "enter"
  BY DEF Late, Stages
<1> QED
  BY <1>1, <1>3, <1>4, <1>5, HonestTop

LEMMA BuildHonest == ASSUME IInv, HonestInv, BuildSarif PROVE HonestInv'
<1>1. /\ AtStep("build") /\ frames # <<>> /\ Top.step = "build"
      /\ UNCHANGED <<staged, written, want, stdout, disk, status, signals, faults, reentered>>
  BY DEF BuildSarif, AtStep
<1>2. CASE want.sarif
  <2> PICK shown \in Bounded(Top.doc.found) :
        frames' = [frames EXCEPT ![Len(frames)].doc.shown = shown, ![Len(frames)].step = "open"]
    BY <1>2 DEF BuildSarif
  <2> PICK x : /\ TopBecomes(x) /\ x.step = "open" /\ x.role = Top.role /\ x.pending = Top.pending
               /\ x.doc = [Top.doc EXCEPT !.shown = shown]
    BY <1>1, BoundedIs
  <2>1. x.doc.kind = Top.doc.kind /\ x.doc.found = Top.doc.found
    <3>1. Top.doc \in Docs
      BY <1>1, StackIs, FrameIs
    <3> QED
      BY <3>1 DEF Docs
  <2>2. Top' = x /\ Len(frames') = Len(frames) /\ (Len(frames) = 2 => frames'[1] = frames[1])
    BY TopShape
  <2>3. signals = 1 /\ faults = 0 => HandlerOK'
    BY <1>1, <2>1, <2>2 DEF HonestInv, HandlerOK, Stages, Late, Writing
  <2> QED
    BY <1>1, <2>1, <2>3, HonestLate DEF Late
<1>3. CASE ~want.sarif
  <2>1. Advance("return")
    BY <1>3 DEF BuildSarif
  <2> PICK x : /\ TopBecomes(x) /\ x.step = "return" /\ x.role = Top.role /\ x.doc = Top.doc
               /\ x.pending = Top.pending /\ Top' = x /\ Len(frames') = Len(frames)
               /\ Len(frames) = 2 => frames'[1] = frames[1]
    BY <1>1, <2>1, AdvanceShape, CalmSteps
  <2>2. signals = 1 /\ faults = 0 => HandlerOK'
    BY <1>1, <1>3 DEF HonestInv, HandlerOK, Stages, Late, Writing
  <2> QED
    BY <1>1, <1>3, <2>2, HonestLate DEF Late
<1> QED
  BY <1>2, <1>3

LEMMA OpenHonest == ASSUME IInv, HonestInv, OpenTemp PROVE HonestInv'
<1> DEFINE n == IF tmp = None THEN used + 1 ELSE tmp
           x == [Top EXCEPT !.node = n, !.step = "write"]
<1>1. /\ tmp' = n
      /\ frames' = [frames EXCEPT ![Len(frames)].node = n, ![Len(frames)].step = "write"]
      /\ frames # <<>> /\ Top.step = "open"
      /\ UNCHANGED <<staged, written, want, stdout, target, status, signals, faults, reentered>>
  BY DEF OpenTemp, AtStep
<1>2. n \in Nat /\ n # None
  BY DiskIs
<1>3. frames \in Seq(Frame) /\ Len(frames) \in 1..Len(frames) /\ Top \in Frame /\ Top = frames[Len(frames)]
  BY <1>1, StackIs
<1> HIDE DEF n
<1>4. /\ x \in Frame /\ x.step = "write" /\ x.doc = Top.doc /\ x.role = Top.role /\ x.node = n
      /\ x.pending = Top.pending
  BY <1>1, <1>2, <1>3, StepsAre DEF Frame
<1>5. frames' = [frames EXCEPT ![Len(frames)] = x]
  BY <1>1, <1>3
<1> HIDE DEF x
<1>6. TopBecomes(x)
  BY <1>1, <1>4, <1>5 DEF TopBecomes
<1>7. Top' = x /\ Len(frames') = Len(frames) /\ (Len(frames) = 2 => frames'[1] = frames[1])
  BY <1>6, TopShape
<1>8. signals = 1 /\ faults = 0 => HandlerOK'
  BY <1>1, <1>2, <1>4, <1>7 DEF HonestInv, HandlerOK, Stages, Late, Writing
<1> QED
  BY <1>1, <1>4, <1>6, <1>8, HonestLate DEF Late

LEMMA WriteHonest == ASSUME IInv, HonestInv, WriteText PROVE HonestInv'
<1> PICK buffered \in BOOLEAN :
      /\ node' = IF buffered THEN node ELSE [node EXCEPT ![Top.node] = Overwrite(@, Top.doc)]
      /\ frames' = [frames EXCEPT ![Len(frames)].pending = buffered, ![Len(frames)].step = "flush"]
  BY DEF WriteText
<1> DEFINE x == [Top EXCEPT !.pending = buffered, !.step = "flush"]
<1>1. /\ frames # <<>> /\ Top.step = "write"
      /\ UNCHANGED <<staged, written, want, stdout, used, tmp, target, status, signals, faults, reentered>>
  BY DEF WriteText, AtStep
<1>2. frames \in Seq(Frame) /\ Len(frames) \in 1..Len(frames) /\ Top \in Frame /\ Top = frames[Len(frames)]
  BY <1>1, StackIs
<1>3. /\ x \in Frame /\ x.step = "flush" /\ x.doc = Top.doc /\ x.role = Top.role /\ x.node = Top.node
      /\ x.pending = buffered
  BY <1>1, <1>2, StepsAre DEF Frame
<1>4. frames' = [frames EXCEPT ![Len(frames)] = x]
  BY <1>2
<1> HIDE DEF x
<1>5. TopBecomes(x)
  BY <1>1, <1>3, <1>4 DEF TopBecomes
<1>6. Top' = x /\ Len(frames') = Len(frames) /\ (Len(frames) = 2 => frames'[1] = frames[1])
  BY <1>5, TopShape
<1>7. signals = 1 /\ faults = 0 => HandlerOK'
  <2> SUFFICES ASSUME signals = 1, faults = 0 PROVE HandlerOK'
    OBVIOUS
  <2>1. HandlerOK /\ frames'[1] = frames[1] /\ tmp # None /\ Top.node = tmp
    BY <1>1, <1>6 DEF HonestInv, HandlerOK, Writing
  <2>2. ~buffered => node'[tmp].body = Top.doc
    <3>1. tmp \in 1..used
      BY <2>1, DiskIs
    <3>2. ~buffered => node'[tmp] = Overwrite(node[tmp], Top.doc)
      BY <2>1, <3>1, DiskIs
    <3> QED
      BY <3>2 DEF Overwrite
  <2> QED
    BY <1>1, <1>3, <1>6, <2>1, <2>2 DEF HandlerOK, Stages, Late, Writing
<1> QED
  BY <1>1, <1>3, <1>5, <1>7, HonestLate DEF Late

LEMMA FlushHonest == ASSUME IInv, HonestInv, FlushText PROVE HonestInv'
<1> DEFINE x == [Top EXCEPT !.pending = FALSE, !.step = "replace"]
<1>1. /\ frames # <<>> /\ Top.step = "flush"
      /\ node' = IF Top.pending THEN [node EXCEPT ![Top.node] = Overwrite(@, Top.doc)] ELSE node
      /\ frames' = [frames EXCEPT ![Len(frames)].pending = FALSE, ![Len(frames)].step = "replace"]
      /\ UNCHANGED <<staged, written, want, stdout, used, tmp, target, status, signals, faults, reentered>>
  BY DEF FlushText, AtStep
<1>2. frames \in Seq(Frame) /\ Len(frames) \in 1..Len(frames) /\ Top \in Frame /\ Top = frames[Len(frames)]
  BY <1>1, StackIs
<1>3. /\ x \in Frame /\ x.step = "replace" /\ x.doc = Top.doc /\ x.role = Top.role /\ x.node = Top.node
      /\ ~x.pending
  BY <1>1, <1>2, StepsAre DEF Frame
<1>4. frames' = [frames EXCEPT ![Len(frames)] = x]
  BY <1>1, <1>2
<1> HIDE DEF x
<1>5. TopBecomes(x)
  BY <1>1, <1>3, <1>4 DEF TopBecomes
<1>6. Top' = x /\ Len(frames') = Len(frames) /\ (Len(frames) = 2 => frames'[1] = frames[1])
  BY <1>5, TopShape
<1>7. signals = 1 /\ faults = 0 => HandlerOK'
  <2> SUFFICES ASSUME signals = 1, faults = 0 PROVE HandlerOK'
    OBVIOUS
  <2>1. HandlerOK /\ frames'[1] = frames[1] /\ tmp # None /\ Top.node = tmp
    BY <1>1, <1>6 DEF HonestInv, HandlerOK, Writing
  <2>2. node'[tmp].body = Top.doc
    <3>1. tmp \in 1..used
      BY <2>1, DiskIs
    <3>2. CASE Top.pending
      <4>1. node'[tmp] = Overwrite(node[tmp], Top.doc)
        BY <1>1, <2>1, <3>1, <3>2, DiskIs
      <4> QED
        BY <4>1 DEF Overwrite
    <3>3. CASE ~Top.pending
      BY <1>1, <2>1, <3>3 DEF HandlerOK
    <3> QED
      BY <3>2, <3>3
  <2> QED
    BY <1>1, <1>3, <1>6, <2>1, <2>2 DEF HandlerOK, Stages, Late, Writing
<1> QED
  BY <1>1, <1>3, <1>5, <1>7, HonestLate DEF Late

LEMMA ReplaceHonest == ASSUME IInv, HonestInv, ReplaceTarget PROVE HonestInv'
<1>1. /\ frames # <<>> /\ Top.step = "replace" /\ Advance("return") /\ tmp # None
      /\ target' = tmp /\ tmp' = None
      /\ UNCHANGED <<staged, written, want, stdout, node, used, status, signals, faults, reentered>>
  BY DEF ReplaceTarget, AtStep
<1> PICK x : /\ TopBecomes(x) /\ x.step = "return" /\ x.role = Top.role /\ x.doc = Top.doc
             /\ x.pending = Top.pending /\ Top' = x /\ Len(frames') = Len(frames)
             /\ Len(frames) = 2 => frames'[1] = frames[1]
  BY <1>1, AdvanceShape, CalmSteps
<1>2. ASSUME Top.role = "scan" PROVE CompleteSarif(node[target])'
  <2>1. Top = frames[1] /\ Top.doc \in SarifDocs
    BY <1>1, <1>2, StackTop, FrameIs, StepsAre
  <2>2. Top.doc.kind = "complete" /\ Top.doc.found = Final
    BY <1>1, <1>2, <2>1 DEF HonestInv, ScanFrame, Late
  <2>3. node[tmp] = Holds(Top.doc)
    <3>1. ~reentered
      BY <1>1, <1>2 DEF HonestInv, ScanOnTop
    <3> QED
      BY <1>1, <3>1 DEF IInv, BufferInv, TopOK
  <2>4. Whole(Holds(Top.doc)) /\ Holds(Top.doc).body = Top.doc
    BY <2>1, DocsAre, OverwriteIs DEF Holds, Overwrite
  <2>5. Top.doc.shown \in Bounded(Top.doc.found)
    BY <2>1 DEF SarifDocs
  <2>6. CompleteSarif(node[tmp])
    BY <2>2, <2>3, <2>4, <2>5 DEF CompleteSarif
  <2> QED
    BY <1>1, <2>6 DEF CompleteSarif, Whole, Final
<1>3. signals = 1 /\ faults = 0 => HandlerOK'
  BY <1>1 DEF HonestInv, HandlerOK, Stages, Late, Writing
<1>4. target' # None
  BY <1>1
<1> QED
  BY <1>1, <1>2, <1>3, <1>4, HonestLate DEF Late

-----------------------------------------------------------------------------
\* The handler.

LEMMA EnterHonest == ASSUME IInv, HonestInv, EnterFlush PROVE HonestInv'
<1>1. /\ frames # <<>> /\ Top.step = "enter" /\ Advance("collect") /\ ~written /\ written' = TRUE
      /\ UNCHANGED <<staged, want, stdout, disk, status, signals, faults, reentered>>
  BY DEF EnterFlush, AtStep
<1> PICK x : /\ TopBecomes(x) /\ x.step = "collect" /\ x.role = Top.role /\ x.doc = Top.doc
             /\ x.pending = Top.pending /\ Top' = x /\ Len(frames') = Len(frames)
             /\ Len(frames) = 2 => frames'[1] = frames[1]
  BY <1>1, AdvanceShape, CalmSteps
<1>2. Top.role = "handler"
  BY <1>1, StackTop
<1>3. signals = 1 /\ faults = 0 => HandlerOK'
  BY <1>1 DEF HonestInv, HandlerOK, Stages, Late, Writing
<1>4. x.step \notin Stages /\ x.step \notin Late
  BY DEF Stages, Late
<1> QED
  BY <1>1, <1>2, <1>3, <1>4, HonestTop

LEMMA CollectAsHonest ==
    ASSUME IInv, HonestInv, NEW found \in SUBSET Findings, AtStep("collect"), CollectAs(found),
           UNCHANGED <<staged, written, want, stdout, disk, status, signals, reentered>>,
           faults' = faults \/ faults' # 0
    PROVE  HonestInv'
<1> DEFINE x == [Top EXCEPT !.doc = Document("partial", found), !.step = "print"]
<1>1. /\ frames # <<>> /\ Top \in Frame /\ Top = frames[Len(frames)] /\ frames \in Seq(Frame)
      /\ Len(frames) \in 1..Len(frames) /\ Top.step = "collect"
      /\ Document("partial", found) \in Docs /\ Document("partial", found).kind = "partial"
  BY StackIs, DocsAre DEF AtStep, Document
<1>2. /\ x \in Frame /\ x.step = "print" /\ x.pending = Top.pending /\ x.role = Top.role
      /\ x.doc.kind = "partial"
  BY <1>1, StepsAre DEF Frame
<1>3. frames' = [frames EXCEPT ![Len(frames)] = x]
  BY <1>1 DEF CollectAs
<1> HIDE DEF x
<1>4. TopBecomes(x)
  BY <1>1, <1>2, <1>3 DEF TopBecomes
<1>5. Top' = x /\ Len(frames') = Len(frames) /\ (Len(frames) = 2 => frames'[1] = frames[1])
  BY <1>4, TopShape
<1>6. Top.role = "handler"
  BY <1>1, StackTop
<1>7. signals = 1 /\ faults' = 0 => HandlerOK'
  BY <1>1, <1>2, <1>5 DEF HonestInv, HandlerOK, Stages, Late, Writing
<1>8. x.step \notin Stages /\ x.step \notin Late
  BY <1>2 DEF Stages, Late
<1> QED
  BY <1>1, <1>2, <1>4, <1>6, <1>7, <1>8, HonestTop

LEMMA SignalHonest == ASSUME IInv, HonestInv, Signal PROVE HonestInv'
<1> DEFINE x == NewFrame("handler", "enter", Fallback)
<1>1. /\ Running /\ signals' = signals + 1 /\ signals \in Nat /\ frames' = Append(frames, x)
      /\ reentered' = (reentered \/ Top.pending)
      /\ UNCHANGED <<staged, written, want, stdout, disk, status, faults>>
  BY DEF Signal, IInv, TypeOK
<1>2. x \in Frame /\ x.step = "enter" /\ x.role = "handler" /\ ~x.pending
  BY DocsAre, NewFrameIs, CalmSteps DEF NewFrame
<1> HIDE DEF x
<1>3. frames # <<>> /\ frames \in Seq(Frame) /\ Len(frames) \in Nat /\ Len(frames) >= 1
      /\ Top = frames[Len(frames)] /\ Top \in Frame
  BY <1>1, StackIs DEF IInv, TypeOK
<1>4. /\ frames' # <<>> /\ Len(frames') = Len(frames) + 1 /\ DOMAIN frames' = 1..Len(frames) + 1
      /\ frames'[Len(frames) + 1] = x
      /\ \A i \in 1..Len(frames) : frames'[i] = frames[i]
  BY <1>1, <1>2, <1>3
<1>5. Top' = x /\ frames'[1] = frames[1]
  BY <1>3, <1>4 DEF Top, Last
<1>6. RolesOK /\ ScanFrame(frames[1]) /\ ScanOnTop /\ FlushedOnce /\ Counted /\ Printed
  BY <1>3 DEF HonestInv
<1>7. RolesOK'
  <2> SUFFICES ASSUME NEW i \in 1..Len(frames) + 1
               PROVE  /\ frames'[i].role = "handler" <=> i # 1
                      /\ frames'[i].step \in Stages => frames'[i].role = "scan"
                      /\ frames'[i].step \in {"enter", "collect"} => frames'[i].role = "handler"
    BY <1>4 DEF RolesOK
  <2>1. CASE i = Len(frames) + 1
    <3>1. frames'[i] = x /\ i # 1 /\ x.step \notin Stages
      BY <1>2, <1>3, <1>4, <2>1 DEF Stages
    <3> QED
      BY <1>2, <3>1
  <2>2. CASE i # Len(frames) + 1
    <3>1. i \in 1..Len(frames) /\ DOMAIN frames = 1..Len(frames)
      BY <1>3, <2>2
    <3> QED
      BY <1>4, <1>6, <3>1 DEF RolesOK
  <2> QED
    BY <2>1, <2>2
<1>8. ScanFrame(frames[1])'
  BY <1>1, <1>5, <1>6 DEF ScanFrame, Final
<1>9. ScanOnTop'
  BY <1>2, <1>5 DEF ScanOnTop
<1>10. FlushedOnce'
  <2>1. ASSUME frames[1].step \in Stages, Top.pending PROVE written
    <3>1. Top.step = "flush"
      BY <1>3, <2>1, FrameIs
    <3> QED
      BY <1>6, <2>1, <3>1 DEF FlushedOnce, Stages
  <2> QED
    BY <1>1, <1>2, <1>5, <1>6, <2>1 DEF FlushedOnce
<1>11. Counted' /\ Printed'
  BY <1>1, <1>2, <1>5, <1>6 DEF Counted, Printed, Late
<1>12. signals' = 1 /\ faults = 0 => HandlerOK'
  <2> SUFFICES ASSUME signals' = 1, faults = 0 PROVE HandlerOK'
    OBVIOUS
  <2>1. signals = 0
    BY <1>1
  <2>2. Len(frames) = 1 /\ ~written /\ frames[1].role = "scan"
    BY <1>6, <2>1 DEF Counted
  <2>3. Len(frames') = 2
    BY <1>4, <2>2
  <2>4. frames[1].pending => frames[1].doc.kind = "complete"
    <3>1. frames[1] \in Frame
      BY <1>3, <2>2
    <3>2. frames[1].pending => frames[1].step = "flush"
      BY <3>1, FrameIs
    <3> QED
      BY <1>6, <2>2, <3>2 DEF ScanFrame, Late
  <2> QED
    BY <1>1, <1>2, <1>5, <2>2, <2>3, <2>4 DEF HandlerOK, Stages, Late, Writing
<1>13. StatusIsHonest'
  <2>1. status' = "running"
    BY <1>1 DEF Running
  <2> QED
    BY <2>1 DEF StatusIsHonest
<1> QED
  BY <1>1, <1>7, <1>8, <1>9, <1>10, <1>11, <1>12, <1>13 DEF HonestInv

\* What an interrupted write leaves in the report is from this run.
LEMMA DrainedIsNew ==
    ASSUME IInv, HonestInv, frames # <<>>, signals = 1, faults = 0, Top.step = "return", want.sarif
    PROVE  target # None /\ FromThisRun(Drained(target).body)
<1>1. HandlerOK
  BY DEF HonestInv
<1>2. target # None /\ node[target].body.kind = "partial" /\ ~Top.pending
  <2>1. Top \in Frame
    BY StackTop
  <2>2. ~Top.pending
    BY <2>1, FrameIs
  <2> QED
    BY <1>1, <2>2 DEF HandlerOK
<1>3. target \in 1..used
  BY <1>2, DiskIs
<1>4. Len(frames) = 2 /\ Top = frames[2]
  BY <1>1, StackIs DEF HandlerOK
<1>5. CASE \E i \in DOMAIN frames : frames[i].pending /\ frames[i].node = target
  <2> DEFINE late == {i \in DOMAIN frames : frames[i].pending /\ frames[i].node = target}
  <2>1. late = {1}
    <3>1. DOMAIN frames = {1, 2}
      BY <1>4, StackIs
    <3> QED
      BY <1>2, <1>4, <1>5, <3>1
  <2>2. (CHOOSE i \in {1} : \A j \in {1} : i <= j) = 1
    OBVIOUS
  <2>3. Drained(target).body = frames[1].doc
    BY <2>1, <2>2 DEF Drained
  <2>4. frames[1].pending
    BY <2>1
  <2>5. frames[1].doc.kind = "complete"
    BY <1>1, <2>4 DEF HandlerOK
  <2>6. frames[1].doc \in Docs
    <3>1. frames[1] \in Frame
      BY <1>4, StackIs
    <3> QED
      BY <3>1 DEF Frame
  <2> QED
    BY <1>2, <2>3, <2>5, <2>6, DocsAre DEF FromThisRun
<1>6. CASE \A i \in DOMAIN frames : ~(frames[i].pending /\ frames[i].node = target)
  <2>1. Drained(target).body = node[target].body
    BY <1>3, <1>6, DrainedIs
  <2>2. Blank.kind = "blank"
    BY DEF Blank, Document
  <2> QED
    BY <1>2, <2>1, <2>2 DEF FromThisRun
<1> QED
  BY <1>5, <1>6

\* What the scan wrote is there when it returns.
LEMMA ScanReturns ==
    ASSUME IInv, HonestInv, AtStep("return"), Top.role = "scan", Unwind, UNCHANGED want
    PROVE  /\ want.json => JsonOK
           /\ want.sarif => target' # None /\ tmp' = None /\ CompleteSarif(node'[target'])
           /\ staged = Final
<1>1. frames # <<>> /\ Top.step = "return" /\ Top = frames[1] /\ DOMAIN frames = {1} /\ Top \in Frame
  <2>1. frames # <<>> /\ Top.step = "return"
    BY DEF AtStep
  <2>2. Len(frames) = 1 /\ DOMAIN frames = 1..Len(frames) /\ Top = frames[1] /\ Top \in Frame
    BY <2>1, StackTop
  <2>3. DOMAIN frames = {1}
    BY <2>2
  <2> QED
    BY <2>1, <2>2, <2>3
<1>2. \A i \in DOMAIN frames : ~frames[i].pending
  BY <1>1, FrameIs
<1>3. (want.json => JsonOK) /\ staged = Final
  BY <1>1 DEF HonestInv, ScanOnTop, ScanFrame, Late
<1>4. ASSUME want.sarif PROVE target' # None /\ tmp' = None /\ CompleteSarif(node'[target'])
  <2>1. target # None /\ tmp = None /\ CompleteSarif(node[target])
    BY <1>1, <1>4 DEF HonestInv, ScanOnTop
  <2>2. target \in 1..used
    BY <2>1, DiskIs
  <2>3. Drained(target) = node[target]
    BY <1>2, <2>2, DrainedIs
  <2>4. node'[target] = node[target] /\ target' = target /\ tmp' = None
    BY <2>1, <2>2, <2>3 DEF Unwind
  <2> QED
    BY <2>1, <2>4
<1> QED
  BY <1>3, <1>4

LEMMA ReturnHonest == ASSUME IInv, HonestInv, Return PROVE HonestInv'
<1> PICK s : /\ Exit(s)
             /\ \/ Top.role = "scan" /\ (s = "clean" \/ (s = "found" /\ staged # {}))
                \/ Top.role = "handler" /\ s = "signalled"
                \/ Top.role \notin {"scan", "handler"} /\ s = "error"
  BY ReturnIs
<1>1. /\ AtStep("return") /\ frames # <<>> /\ Top.step = "return" /\ frames' = <<>> /\ status' = s
      /\ Unwind /\ node' = [n \in 1..used |-> Drained(n)] /\ used' = used /\ target' = target
      /\ UNCHANGED <<written, want, stdout, signals, faults>>
  BY DEF Return, AtStep, Exit, Unwind
<1>2. want.json => stdout # <<>>
  BY <1>1 DEF HonestInv, Printed, Late
<1>3. Final' = Final
  BY <1>1 DEF Final
<1>4. ASSUME s \in {"clean", "found"}
      PROVE  /\ want.json => JsonOK
             /\ want.sarif => target' # None /\ tmp' = None /\ CompleteSarif(node'[target'])
             /\ s = "found" => Final # {}
  <2>1. Top.role = "scan" /\ (s = "found" => staged # {})
    BY <1>4
  <2> QED
    BY <1>1, <2>1, ScanReturns
<1>5. ASSUME signals = 1, faults = 0, want.sarif
      PROVE  target # None /\ FromThisRun(node'[target].body)
  <2>1. target # None /\ FromThisRun(Drained(target).body)
    BY <1>1, <1>5, DrainedIsNew
  <2>2. target \in 1..used
    BY <2>1, DiskIs
  <2> QED
    BY <1>1, <2>1, <2>2
<1>6. StatusIsHonest'
  <2>1. status' \in {"clean", "found"} =>
          /\ want'.json => /\ stdout' # <<>> /\ Last(stdout') = Document("complete", Final')
                           /\ signals' = 0 \/ faults' = 0 => Len(stdout') = 1
          /\ want'.sarif => target' # None /\ tmp' = None /\ CompleteSarif(node[target])'
          /\ status' = "found" => Final' # {}
    <3>1. JsonOK => /\ stdout' # <<>> /\ Last(stdout') = Document("complete", Final')
                    /\ signals' = 0 \/ faults' = 0 => Len(stdout') = 1
      BY <1>1, <1>3 DEF JsonOK, Untouched
    <3>2. CompleteSarif(node'[target']) => CompleteSarif(node[target])'
      BY <1>3 DEF CompleteSarif, Whole
    <3> QED
      BY <1>1, <1>3, <1>4, <3>1, <3>2
  <2>2. status' = "signalled" /\ signals' = 1 /\ faults' = 0 =>
          /\ want'.json => stdout' # <<>>
          /\ want'.sarif => target' # None /\ FromThisRun(node'[target'].body)
    BY <1>1, <1>2, <1>5
  <2>3. status' = "error" /\ faults' = 1 /\ want'.json => stdout' # <<>>
    BY <1>1, <1>2
  <2>4. status' = "found" => status' \in {"clean", "found"}
    OBVIOUS
  <2> QED
    BY <2>1, <2>2, <2>3, <2>4 DEF StatusIsHonest, FromThisRun
<1> QED
  BY <1>1, <1>6 DEF HonestInv

\* The other ends.
LEMMA EndsHonest ==
    ASSUME IInv, HonestInv, AlreadyFlushed \/ FailureRaises \/ CrossFails \/ WriteFails \/ Kill
    PROVE  HonestInv'
<1>1. frames' = <<>>
  BY DEF AlreadyFlushed, FailureRaises, CrossFails, WriteFails, Kill, Exit
<1>2. CASE AlreadyFlushed
  <2>1. frames # <<>> /\ Top.step = "enter" /\ written /\ status' = "signalled" /\ UNCHANGED <<signals, faults>>
    BY <1>2 DEF AlreadyFlushed, AtStep, Exit
  <2>2. ~(signals = 1 /\ faults = 0)
    BY <2>1 DEF HonestInv, HandlerOK
  <2>3. StatusIsHonest'
    BY <2>1, <2>2 DEF StatusIsHonest
  <2> QED
    BY <1>1, <2>3 DEF HonestInv
<1>3. CASE FailureRaises \/ CrossFails \/ Kill
  <2>1. status' \in {"fatal", "crash", "killed"}
    BY <1>3 DEF FailureRaises, CrossFails, Kill, Exit
  <2>2. StatusIsHonest'
    BY <2>1 DEF StatusIsHonest
  <2> QED
    BY <1>1, <2>2 DEF HonestInv
<1>4. CASE WriteFails
  <2>1. /\ frames # <<>> /\ faults' # 0 /\ UNCHANGED <<want, stdout>>
        /\ status' \in {"signalled", "error"}
    BY <1>4, FaultIs, TypesAre DEF WriteFails, Fault, Exit
  <2>2. Top.step \in Late \/ frames[1].step \in Late
    BY <1>4 DEF WriteFails, Late, Saving, Writing
  <2>3. want.json => stdout' # <<>>
    BY <2>1, <2>2 DEF HonestInv, Printed
  <2>4. StatusIsHonest'
    BY <2>1, <2>3 DEF StatusIsHonest
  <2> QED
    BY <1>1, <2>4 DEF HonestInv
<1> QED
  BY <1>2, <1>3, <1>4

\* A _scan_failure on its own.
LEMMA HandledHonest == ASSUME IInv, HonestInv, StageRaises \/ ScanRaises PROVE HonestInv'
<1> PICK role \in {"inner", "failure"} : Handled(role)
  BY DEF StageRaises, ScanRaises
<1> DEFINE x == NewFrame(role, "print", Fallback)
<1>1. /\ frames # <<>> /\ frames' = <<x>> /\ faults' # 0 /\ status' = "running"
      /\ UNCHANGED <<written, signals>>
  BY FaultIs, TypesAre DEF StageRaises, ScanRaises, Escapes, Fault, Running, Handled
<1>2. x.role \in {"inner", "failure"} /\ x.step = "print"
  BY DEF NewFrame
<1> HIDE DEF x
<1>3. Top' = x /\ frames'[1] = x /\ DOMAIN frames' = {1} /\ Len(frames') = 1
  BY <1>1 DEF Top, Last
<1>4. StatusIsHonest'
  BY <1>1 DEF StatusIsHonest
<1>5. RolesOK' /\ ScanFrame(frames[1])' /\ ScanOnTop' /\ FlushedOnce' /\ Printed'
  BY <1>2, <1>3 DEF RolesOK, ScanFrame, ScanOnTop, FlushedOnce, Printed, Stages, Late
<1>6. Counted'
  BY <1>1, <1>3 DEF HonestInv, Counted
<1> QED
  BY <1>1, <1>4, <1>5, <1>6 DEF HonestInv

\* A scan whose handler's exception was swallowed.
LEMMA SwallowedHonest == ASSUME IInv, HonestInv, FlushSwallowed PROVE HonestInv'
<1> DEFINE x == frames[1]
<1>1. /\ frames # <<>> /\ Top.role = "handler" /\ x.role = "scan" /\ x.step \in Stages
      /\ Top.step \in Stages \cup {"print", "build", "return"} /\ (Top.step = "return" => Top.role = "scan")
      /\ frames' = <<x>> /\ faults' # 0 /\ status' = "running"
      /\ UNCHANGED <<staged, want, signals, reentered>>
  BY FaultIs, TypesAre DEF FlushSwallowed, Escapes, Fault, Running
<1>2. signals # 0 /\ Top.step \notin Stages
  BY <1>1, StackTop
<1>3. Top.step # "enter"
  BY <1>1 DEF Stages
<1>4. RolesOK /\ ScanFrame(frames[1]) /\ FlushedOnce
  BY <1>1 DEF HonestInv
<1>5. ~reentered
  BY <1>1, <1>3, <1>4 DEF FlushedOnce
<1> HIDE DEF x
<1>6. Top' = x /\ frames'[1] = x /\ DOMAIN frames' = {1}
  BY <1>1 DEF Top, Last
<1>7. x.step \notin Late \cup {"enter", "collect"}
  BY <1>1 DEF Stages, Late
<1>8. RolesOK' /\ FlushedOnce' /\ Counted' /\ Printed'
  BY <1>1, <1>2, <1>5, <1>6, <1>7 DEF RolesOK, FlushedOnce, Counted, Printed
<1>9. ScanFrame(frames[1])'
  BY <1>1, <1>4, <1>6 DEF ScanFrame, Final, x
<1>10. ScanOnTop'
  <2>1. ~Untouched'
    BY <1>1, <1>2 DEF Untouched
  <2>2. x.step # "return"
    BY <1>7 DEF Late
  <2> QED
    BY <1>1, <1>5, <1>6, <1>7, <2>1, <2>2 DEF ScanOnTop
<1>11. StatusIsHonest'
  BY <1>1 DEF StatusIsHonest
<1> QED
  BY <1>1, <1>8, <1>9, <1>10, <1>11 DEF HonestInv

LEMMA HonestInit == Init => HonestInv
<1> SUFFICES ASSUME Init PROVE HonestInv
  OBVIOUS
<1> DEFINE x == NewFrame("scan", "engine", Fallback)
<1>1. /\ frames = <<x>> /\ stdout = <<>> /\ status = "running" /\ signals = 0 /\ faults = 0
      /\ ~written /\ ~reentered
  BY DEF Init
<1>2. x.role = "scan" /\ x.step = "engine"
  BY DEF NewFrame
<1> HIDE DEF x
<1>3. Top = x /\ frames[1] = x /\ Len(frames) = 1 /\ DOMAIN frames = {1}
  BY <1>1 DEF Top, Last
<1>4. StatusIsHonest
  BY <1>1 DEF StatusIsHonest
<1>5. RolesOK /\ ScanFrame(frames[1]) /\ ScanOnTop /\ FlushedOnce /\ Counted /\ Printed
  BY <1>1, <1>2, <1>3 DEF RolesOK, ScanFrame, ScanOnTop, FlushedOnce, Counted, Printed, Stages, Late
<1> QED
  BY <1>1, <1>4, <1>5 DEF HonestInv

LEMMA HonestNext == IInv /\ HonestInv /\ [Next]_vars => HonestInv'
<1> SUFFICES ASSUME IInv, HonestInv, [Next]_vars PROVE HonestInv'
  OBVIOUS
<1>1. CASE UNCHANGED vars \/ Analyze
  <2>1. UNCHANGED <<frames, staged, written, want, stdout, disk, status, signals, faults, reentered>>
    BY <1>1 DEF vars, disk, Analyze
  <2>2. (RolesOK' <=> RolesOK) /\ (FlushedOnce' <=> FlushedOnce) /\ (Counted' <=> Counted)
        /\ (Printed' <=> Printed)
    BY <2>1 DEF RolesOK, FlushedOnce, Counted, Printed, Top
  <2>3. (ScanFrame(frames[1])' <=> ScanFrame(frames[1])) /\ (ScanOnTop' <=> ScanOnTop)
    BY <2>1 DEF ScanFrame, ScanOnTop, JsonOK, Untouched, CompleteSarif, Whole, Final, Top, disk
  <2>4. HandlerOK' <=> HandlerOK
    BY <2>1 DEF HandlerOK, Top, disk
  <2>5. StatusIsHonest' <=> StatusIsHonest
    BY <2>1 DEF StatusIsHonest, FromThisRun, CompleteSarif, Whole, Final, disk
  <2> QED
    BY <2>1, <2>2, <2>3, <2>4, <2>5 DEF HonestInv
<1>2. CASE Collect
  <2>1. PartialFindings \in SUBSET Findings
    BY TypesAre DEF PartialFindings
  <2> QED
    BY <1>2, <2>1, CollectAsHonest DEF Collect
<1>3. CASE IndexUnreadable
  <2>1. faults' # 0
    BY <1>3, TypesAre DEF IndexUnreadable, Fault
  <2> QED
    BY <1>3, <2>1, CollectAsHonest DEF IndexUnreadable
<1>4. CASE \/ Merge \/ CrossScan \/ Filter \/ PrintReport \/ BuildSarif \/ OpenTemp \/ WriteText
           \/ FlushText \/ ReplaceTarget \/ Signal \/ EnterFlush
  BY <1>4, MergeHonest, CrossScanHonest, FilterHonest, PrintHonest, BuildHonest, OpenHonest,
     WriteHonest, FlushHonest, ReplaceHonest, SignalHonest, EnterHonest
<1>5. CASE \/ Return \/ AlreadyFlushed \/ StageRaises \/ ScanRaises \/ FailureRaises \/ CrossFails
           \/ FlushSwallowed \/ WriteFails \/ Kill
  BY <1>5, ReturnHonest, EndsHonest, HandledHonest, SwallowedHonest
<1> QED
  BY <1>1, <1>2, <1>3, <1>4, <1>5 DEF Next

\* The exit status is honest: when _scan has returned 0 or 1 the complete report is where it was
\* asked for, and after a single signal or a single exception there is a report of this run.
THEOREM HonestStatus == Spec => []StatusIsHonest
<1>1. Init => IInv /\ HonestInv
  BY InitLemma, HonestInit
<1>2. (IInv /\ HonestInv) /\ [Next]_vars => (IInv /\ HonestInv)'
  BY NextStep, HonestNext
<1>3. HonestInv => StatusIsHonest
  BY DEF HonestInv
<1> QED
  BY <1>1, <1>2, <1>3, PTL DEF Spec
=============================================================================
