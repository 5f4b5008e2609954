---------------------------- MODULE ParsePoolProofs ----------------------------
(***************************************************************************)
(* Proofs about ParsePool for any number of files, slice size, number of   *)
(* workers, limit, slack and durations.                                    *)
(*                                                                         *)
(* A deadline allows a file one limit for every round of the pool before    *)
(* its own.  FifoInv says that the pool keeps that pace as long as no parse *)
(* exceeds the limit: a running parse ends by its file's deadline, and the *)
(* first queued file starts by the end of the rounds before it, because    *)
(* time passes only while all workers parse files in front of it, and the  *)
(* foremost of those is a whole round ahead.                               *)
(*                                                                         *)
(* JInv, in the second half, follows the files: through the queue, to the  *)
(* workers, and slice by slice to their verdicts.                          *)
(***************************************************************************)
EXTENDS ParsePool, FiniteSetTheorems, TLAPS

Unfinished(f) == future[f] \in {"queued", "running"}
\* The limit l for every round that w workers need for p files.
Rounds(l, w, p) == l * (p \div w)

TypesInv ==
    /\ phase \in {"govern", "shrink", "slice", "collect", "finish", "done", "serial", "hung"}
    /\ slice \in Nat \ {0} /\ at \in Nat /\ elapsed \in Nat
    /\ limit \in Nat /\ Limit <= limit
    /\ workers \in Nat \ {0} /\ size \in Nat
    /\ broken \in BOOLEAN /\ inProcess \in BOOLEAN /\ slow \in BOOLEAN
    /\ queue \in Seq(Files)
    /\ left \in [Files -> Nat \cup {Never}]
    /\ future \in [Files -> {"none", "queued", "running", "done", "lost"}]
    /\ verdict \in [Files -> {"none", "worker", "parent", "late", "timeout"}]

PoolInv ==
    /\ phase # "shrink" => size \in {0, workers}
    /\ phase = "collect" => size = workers /\ FirstOf(slice) <= at /\ at <= FirstOf(slice) + SliceSize
    /\ broken => \A f \in Files : ~Unfinished(f)
    /\ \A f \in Files : verdict[f] = "late" => future[f] # "none"

FifoInv ==
    \/ slow
    \/ /\ \A f \in Files : verdict[f] \notin {"late", "timeout"}
       /\ phase # "collect" => queue = <<>> /\ \A f \in Files : ~Unfinished(f)
       /\ \A f \in Files : Unfinished(f) => f \in Slice(slice) /\ at <= f
       /\ \A f \in Files : future[f] = "queued" => \E i \in 1..Len(queue) : f = queue[i]
       /\ \A i \in 1..Len(queue) : future[queue[i]] = "queued" /\ queue[i] = queue[1] + (i - 1)
       /\ \A f \in Files : future[f] = "running" =>
             /\ queue # <<>> => f < queue[1]
             /\ left[f] \in Nat /\ elapsed + left[f] <= limit + Rounds(limit, workers, f - FirstOf(slice))
       /\ queue # <<>> => elapsed <= Rounds(limit, workers, queue[1] - FirstOf(slice))

IInv == TypesInv /\ PoolInv /\ FifoInv /\ SliceIsBounded

-----------------------------------------------------------------------------
\* Rounds of the pool.

LEMMA DivMonotonic ==
    \A b \in Nat \ {0} : \A a, c \in Nat : a <= c => a \div b \in Nat /\ a \div b <= c \div b
OBVIOUS

LEMMA DivOneMore ==
    \A b \in Nat \ {0} : \A a \in Nat : b <= a => a \div b = 1 + ((a - b) \div b)
OBVIOUS

LEMMA TimesMonotonic == \A b, a, c \in Nat : a <= c => b * a \in Nat /\ b * a <= b * c
OBVIOUS

LEMMA TimesOneMore == \A a, b \in Nat : b * (1 + a) = b + b * a
OBVIOUS

LEMMA RoundsAre ==
    ASSUME TypesInv
    PROVE  /\ \A p \in Nat : Rounds(limit, workers, p) \in Nat
           /\ \A p, q \in Nat : p <= q => Rounds(limit, workers, p) <= Rounds(limit, workers, q)
           /\ \A p \in Nat : workers <= p => limit + Rounds(limit, workers, p - workers) = Rounds(limit, workers, p)
<1>1. limit \in Nat /\ workers \in Nat \ {0}
  BY DEF TypesInv
<1>2. \A p \in Nat : p \div workers \in Nat
  BY <1>1, DivMonotonic
<1>3. \A p \in Nat : Rounds(limit, workers, p) \in Nat
  BY <1>1, <1>2, TimesMonotonic DEF Rounds
<1>4. ASSUME NEW p \in Nat, NEW q \in Nat, p <= q PROVE Rounds(limit, workers, p) <= Rounds(limit, workers, q)
  <2>1. p \div workers <= q \div workers
    BY <1>1, <1>4, DivMonotonic
  <2> QED
    BY <1>1, <1>2, <2>1, TimesMonotonic DEF Rounds
<1>5. ASSUME NEW p \in Nat, workers <= p PROVE limit + Rounds(limit, workers, p - workers) = Rounds(limit, workers, p)
  <2>1. p - workers \in Nat
    BY <1>1, <1>5
  <2>2. p \div workers = 1 + ((p - workers) \div workers)
    BY <1>1, <1>5, DivOneMore
  <2> QED
    BY <1>1, <1>2, <2>1, <2>2, TimesOneMore DEF Rounds
<1> QED
  BY <1>3, <1>4, <1>5

LEMMA FirstIs ==
    ASSUME NEW k \in Nat \ {0}
    PROVE  FirstOf(k) \in Nat \ {0} /\ FirstOf(k + 1) = FirstOf(k) + SliceSize
<1>1. SliceSize \in Nat
  BY SizesAssumption
<1>2. k - 1 \in Nat /\ (k + 1) - 1 = (k - 1) + 1
  OBVIOUS
<1>3. \A a, b \in Nat : a * b \in Nat /\ (a + 1) * b = a * b + b
  OBVIOUS
<1>4. (k - 1) * SliceSize \in Nat /\ ((k - 1) + 1) * SliceSize = (k - 1) * SliceSize + SliceSize
  BY <1>1, <1>2, <1>3
<1> QED
  BY <1>1, <1>2, <1>4 DEF FirstOf

LEMMA SliceIs ==
    ASSUME TypesInv
    PROVE  /\ FirstOf(slice) \in Nat \ {0} /\ SliceSize \in Nat \ {0} /\ Files \subseteq Nat
           /\ Slice(slice) = {f \in Files : FirstOf(slice) <= f /\ f < FirstOf(slice) + SliceSize}
<1>1. slice \in Nat \ {0}
  BY DEF TypesInv
<1>2. FirstOf(slice) \in Nat \ {0} /\ FirstOf(slice + 1) = FirstOf(slice) + SliceSize
  BY <1>1, FirstIs
<1>3. SliceSize \in Nat \ {0} /\ Files \subseteq Nat
  BY SizesAssumption DEF Files
<1> QED
  BY <1>2, <1>3 DEF Slice

-----------------------------------------------------------------------------
\* Outside a slice, and once a parse has been slow, only PoolInv has anything to say.

LEMMA Elsewhere ==
    ASSUME IInv, TypesInv', PoolInv', phase' # "collect",
           slow' \/ /\ \A f \in Files : verdict'[f] \notin {"late", "timeout"}
                    /\ queue' = <<>> /\ \A f \in Files : ~Unfinished(f)'
    PROVE  IInv'
<1>1. FifoInv'
  <2>1. CASE slow'
    BY <2>1 DEF FifoInv
  <2>2. CASE ~slow'
    <3>1. /\ \A f \in Files : verdict'[f] \notin {"late", "timeout"}
          /\ queue' = <<>> /\ \A f \in Files : ~Unfinished(f)'
      BY <2>2
    <3>2. \A f \in Files : future'[f] # "queued" /\ future'[f] # "running"
      BY <3>1 DEF Unfinished
    <3>3. \A i \in 1..Len(queue') : FALSE
      BY <3>1
    <3> QED
      BY <3>1, <3>2, <3>3 DEF FifoInv
  <2> QED
    BY <2>1, <2>2
<1>2. SliceIsBounded'
  BY DEF SliceIsBounded
<1> QED
  BY <1>1, <1>2 DEF IInv

\* What is known outside a slice.
LEMMA Between ==
    ASSUME IInv, phase # "collect"
    PROVE  slow \/ /\ \A f \in Files : verdict[f] \notin {"late", "timeout"}
                   /\ queue = <<>> /\ \A f \in Files : ~Unfinished(f)
BY DEF IInv, FifoInv

LEMMA GovernStep == ASSUME IInv, Govern PROVE IInv'
<1>1. /\ phase = "govern" /\ phase' \in {"slice", "shrink", "finish"}
      /\ workers' = workers \/ (phase' = "shrink" /\ (workers' = 1 \/ (workers > 2 /\ workers' = workers - 1)))
      /\ inProcess' \in BOOLEAN
      /\ UNCHANGED <<slice, parentVars, poolVars, slow>>
  BY DEF Govern, IInv, TypesInv
<1>2. UNCHANGED <<slice, at, elapsed, limit, verdict, size, broken, queue, left, future, slow>>
  BY <1>1 DEF parentVars, poolVars
<1>3. TypesInv'
  BY <1>1, <1>2 DEF IInv, TypesInv
<1>4. PoolInv'
  BY <1>1, <1>2 DEF IInv, PoolInv, Unfinished
<1> QED
  BY <1>1, <1>2, <1>3, <1>4, Between, Elsewhere DEF Unfinished

LEMMA ShutdownSteps == ASSUME IInv, Shrink \/ Finish PROVE IInv'
<1>1. /\ phase \in {"shrink", "finish"} /\ phase' \in {"slice", "done"} /\ size' = 0 /\ broken' = FALSE
      /\ UNCHANGED <<slice, at, elapsed, limit, verdict, workers, inProcess, queue, left, future, slow>>
  BY DEF Shrink, Finish, Shutdown, parentVars
<1>2. TypesInv'
  BY <1>1 DEF IInv, TypesInv
<1>3. PoolInv'
  BY <1>1 DEF IInv, PoolInv
<1> QED
  BY <1>1, <1>2, <1>3, Between, Elsewhere DEF Unfinished

LEMMA AwaitShutdownStep == ASSUME IInv, AwaitShutdown PROVE IInv'
<1>1. /\ phase \in {"shrink", "finish"}
      /\ left' = [f \in Files |-> IF f \in Running /\ left[f] > 0 THEN left[f] - 1 ELSE left[f]]
      /\ UNCHANGED <<phase, slice, at, elapsed, limit, verdict, workers, size, broken, inProcess,
                     queue, future, slow>>
  BY DEF AwaitShutdown, Progress
<1>2. left' \in [Files -> Nat \cup {Never}]
  BY <1>1 DEF IInv, TypesInv, Never
<1>3. TypesInv'
  BY <1>1, <1>2 DEF IInv, TypesInv
<1>4. PoolInv'
  BY <1>1 DEF IInv, PoolInv, Unfinished
<1> QED
  BY <1>1, <1>3, <1>4, Between, Elsewhere DEF Unfinished

LEMMA SliceInProcessStep == ASSUME IInv, SliceInProcess PROVE IInv'
<1>1. /\ phase = "slice" /\ slice' = slice + 1 /\ phase' \in {"govern", "hung"}
      /\ \/ verdict' = [f \in Files |-> IF f \in Slice(slice) THEN "parent" ELSE verdict[f]] /\ slow' = slow
         \/ slow' = TRUE /\ verdict' = verdict
      /\ UNCHANGED <<at, elapsed, limit, workers, size, broken, inProcess, queue, left, future>>
  BY DEF SliceInProcess, ParseHere, poolVars
<1>2. TypesInv'
  <2>1. verdict' \in [Files -> {"none", "worker", "parent", "late", "timeout"}]
    BY <1>1 DEF IInv, TypesInv
  <2>2. slice' \in Nat \ {0} /\ slow' \in BOOLEAN
    <3>1. slice \in Nat \ {0} /\ slow \in BOOLEAN
      BY DEF IInv, TypesInv
    <3>2. slow' \in BOOLEAN
      BY <3>1, <1>1, Zenon
    <3> QED
      BY <1>1, <3>1, <3>2
  <2> QED
    BY <1>1, <2>1, <2>2 DEF IInv, TypesInv
<1>3. PoolInv'
  BY <1>1 DEF IInv, TypesInv, PoolInv, Unfinished
<1> QED
  BY <1>1, <1>2, <1>3, Between, Elsewhere DEF Unfinished

LEMMA SubmitRaisesStep == ASSUME IInv, SubmitRaises PROVE IInv'
<1>1. /\ phase = "slice" /\ phase' = "serial" /\ size' = 0
      /\ UNCHANGED <<slice, at, elapsed, limit, verdict, workers, broken, inProcess, queue, left,
                     future, slow>>
  BY DEF SubmitRaises, parentVars
<1>2. TypesInv'
  BY <1>1 DEF IInv, TypesInv
<1>3. PoolInv'
  BY <1>1 DEF IInv, PoolInv, Unfinished
<1> QED
  BY <1>1, <1>2, <1>3, Between, Elsewhere DEF Unfinished

\* What a look at a late file does to the results.
LEMMA SecondLookIs ==
    ASSUME IInv, SecondLook
    PROVE  /\ phase = "collect" /\ at \notin Slice(slice)
           /\ UNCHANGED <<slice, at, elapsed, limit, workers, inProcess, poolVars>>
           /\ \E f \in Late :
                /\ \A g \in Files : g # f => verdict'[g] = verdict[g]
                /\ \/ /\ verdict'[f] \in {"worker", "parent", "timeout"}
                      /\ phase' = "collect" /\ slow' = slow
                   \/ /\ future[f] = "lost" /\ verdict' = verdict
                      /\ phase' = "hung" /\ slow' = TRUE
           /\ verdict' \in [Files -> {"none", "worker", "parent", "late", "timeout"}]
<1>0. verdict \in [Files -> {"none", "worker", "parent", "late", "timeout"}]
  BY DEF IInv, TypesInv
<1>1. PICK f \in Late :
        \/ /\ future[f] = "done"
           /\ verdict' = [verdict EXCEPT ![f] = "worker"]
           /\ UNCHANGED <<phase, slow>>
        \/ /\ future[f] \in {"queued", "running"}
           /\ verdict' = [verdict EXCEPT ![f] = "timeout"]
           /\ UNCHANGED <<phase, slow>>
        \/ /\ future[f] = "lost"
           /\ ParseHere({f}, phase)
  BY DEF SecondLook
<1>2. phase = "collect" /\ f \in Files
  BY DEF SecondLook, Late
<1>3. CASE \E v \in {"worker", "timeout"} : verdict' = [verdict EXCEPT ![f] = v] /\ UNCHANGED <<phase, slow>>
  BY <1>0, <1>2, <1>3 DEF SecondLook
<1>4. CASE future[f] = "lost" /\ ParseHere({f}, phase)
  BY <1>0, <1>2, <1>4 DEF SecondLook, ParseHere
<1> QED
  BY <1>1, <1>3, <1>4

LEMMA SecondLookStep == ASSUME IInv, SecondLook PROVE IInv'
<1>1. /\ phase = "collect" /\ phase' \in {"collect", "hung"}
      /\ UNCHANGED <<slice, at, elapsed, limit, workers, inProcess, size, broken, queue, left, future>>
      /\ verdict' \in [Files -> {"none", "worker", "parent", "late", "timeout"}]
  BY SecondLookIs DEF poolVars
<1>2. PICK f \in Late : /\ \A g \in Files : g # f => verdict'[g] = verdict[g]
                        /\ \/ verdict'[f] \in {"worker", "parent", "timeout"} /\ slow' = slow
                           \/ verdict' = verdict /\ slow' = TRUE
  BY SecondLookIs
<1>3. TypesInv'
  <2>1. slow' \in BOOLEAN
    <3>1. slow \in BOOLEAN
      BY DEF IInv, TypesInv
    <3> QED
      BY <1>2, <3>1, Zenon
  <2> QED
    BY <1>1, <2>1 DEF IInv, TypesInv
<1>4. PoolInv'
  <2>1. \A g \in Files : verdict'[g] = "late" => verdict[g] = "late"
    BY <1>2
  <2> QED
    BY <1>1, <2>1 DEF IInv, PoolInv, Unfinished
<1>5. slow \/ slow'
  BY DEF SecondLook, Late, IInv, FifoInv
<1>6. slow'
  BY <1>2, <1>5 DEF IInv, TypesInv
<1>7. SliceIsBounded'
  BY <1>1 DEF IInv, SliceIsBounded
<1> QED
  BY <1>3, <1>4, <1>6, <1>7 DEF IInv, FifoInv

LEMMA SliceEndsStep == ASSUME IInv, SliceEnds PROVE IInv'
<1>1. /\ phase = "collect" /\ at \notin Slice(slice) /\ slice' = slice + 1 /\ phase' = "govern"
      /\ UNCHANGED <<at, elapsed, limit, workers, size, broken, inProcess, queue, left, future,
                     verdict, slow>>
  BY DEF SliceEnds, poolVars, parentVars
<1>2. TypesInv' /\ PoolInv'
  BY <1>1 DEF IInv, TypesInv, PoolInv, Unfinished
<1>3. ASSUME ~slow
      PROVE  /\ \A f \in Files : verdict[f] \notin {"late", "timeout"}
             /\ queue = <<>> /\ \A f \in Files : ~Unfinished(f)
  <2>1. ~slow
    BY <1>3
  <2>3. ASSUME NEW f \in Files, Unfinished(f) PROVE FALSE
    <3>1. f \in Slice(slice) /\ at <= f
      BY <2>1, <2>3 DEF IInv, FifoInv
    <3>2. at \in Files /\ FirstOf(slice) <= at /\ at < FirstOf(slice) + SliceSize
      <4>1. FirstOf(slice) <= at /\ at \in Nat /\ f \in Files /\ f < FirstOf(slice) + SliceSize /\ NumFiles \in Nat
        BY <1>1, <3>1, SliceIs, SizesAssumption DEF IInv, PoolInv, TypesInv
      <4> QED
        BY <3>1, <4>1, SliceIs DEF Files, IInv
    <3> QED
      BY <1>1, <3>2, SliceIs DEF IInv
  <2>4. queue = <<>>
    <3>1. queue \in Seq(Files)
      BY DEF IInv, TypesInv
    <3>2. queue # <<>> => 1 \in 1..Len(queue) /\ queue[1] \in Files
      BY <3>1
    <3>3. queue # <<>> => Unfinished(queue[1])
      BY <2>1, <3>2 DEF IInv, FifoInv, Unfinished
    <3> QED
      BY <2>3, <3>2, <3>3
  <2> QED
    BY <2>1, <2>3, <2>4 DEF IInv, FifoInv
<1>4. FifoInv'
  <2>1. CASE slow
    BY <1>1, <2>1 DEF FifoInv
  <2>2. CASE ~slow
    <3>1. \A i \in 1..Len(queue') : FALSE
      BY <1>1, <1>3, <2>2
    <3>2. queue' = <<>> /\ \A f \in Files : ~Unfinished(f)' /\ verdict'[f] \notin {"late", "timeout"}
      BY <1>1, <1>3, <2>2 DEF Unfinished
    <3>3. \A f \in Files : future'[f] # "queued" /\ future'[f] # "running"
      BY <3>2 DEF Unfinished
    <3> QED
      BY <3>1, <3>2, <3>3 DEF FifoInv
  <2> QED
    BY <2>1, <2>2
<1>5. SliceIsBounded'
  BY <1>1 DEF SliceIsBounded
<1> QED
  BY <1>2, <1>4, <1>5 DEF IInv

-----------------------------------------------------------------------------
\* The executor.

\* What FifoInv says of a running slice.
LEMMA Pace ==
    ASSUME IInv, ~slow
    PROVE  /\ \A f \in Files : verdict[f] \notin {"late", "timeout"}
           /\ phase # "collect" => queue = <<>> /\ \A f \in Files : ~Unfinished(f)
           /\ \A f \in Files : Unfinished(f) => f \in Slice(slice) /\ at <= f
           /\ \A f \in Files : future[f] = "queued" => \E i \in 1..Len(queue) : f = queue[i]
           /\ \A i \in 1..Len(queue) : future[queue[i]] = "queued" /\ queue[i] = queue[1] + (i - 1)
           /\ \A f \in Files : future[f] = "running" =>
                 /\ queue # <<>> => f < queue[1]
                 /\ left[f] \in Nat /\ elapsed + left[f] <= limit + Rounds(limit, workers, f - FirstOf(slice))
           /\ queue # <<>> => elapsed <= Rounds(limit, workers, queue[1] - FirstOf(slice))
BY DEF IInv, FifoInv

LEMMA StartParseStep == ASSUME IInv, StartParse PROVE IInv'
<1> DEFINE h == Head(queue)
<1>1. PICK d \in Durations \cup {Never} : left' = [left EXCEPT ![h] = d]
                                         /\ slow' = (slow \/ d \notin 1..Limit)
  BY DEF StartParse
<1>2. /\ ~broken /\ queue # <<>>
      /\ future' = [future EXCEPT ![h] = "running"] /\ queue' = Tail(queue)
      /\ UNCHANGED <<phase, slice, at, elapsed, limit, verdict, workers, size, broken, inProcess>>
  BY DEF StartParse, Startable, parentVars
<1>3. /\ queue \in Seq(Files) /\ h = queue[1] /\ h \in Files /\ queue' \in Seq(Files)
      /\ 1 \in 1..Len(queue) /\ Len(queue') = Len(queue) - 1
      /\ \A i \in 1..Len(queue') : i + 1 \in 1..Len(queue) /\ queue'[i] = queue[i + 1]
      /\ \A i \in 1..Len(queue) : i = 1 \/ (i - 1 \in 1..Len(queue') /\ queue'[i - 1] = queue[i])
  BY <1>2 DEF IInv, TypesInv
<1> HIDE DEF h
<1>4. TypesInv'
  <2>1. left' \in [Files -> Nat \cup {Never}]
    <3>1. d \in Nat \cup {Never}
      BY <1>1, TimesAssumption
    <3> QED
      BY <1>1, <1>3, <3>1 DEF IInv, TypesInv
  <2>2. future' \in [Files -> {"none", "queued", "running", "done", "lost"}]
    BY <1>2, <1>3 DEF IInv, TypesInv
  <2>3. slow' \in BOOLEAN
    BY <1>1, Zenon
  <2> QED
    BY <1>2, <1>3, <2>1, <2>2, <2>3 DEF IInv, TypesInv
<1>5. \A f \in Files : future'[f] = IF f = h THEN "running" ELSE future[f]
  BY <1>2, <1>3 DEF IInv, TypesInv
<1>6. PoolInv'
  BY <1>2, <1>5 DEF IInv, PoolInv
<1>7. FifoInv'
  <2>1. CASE slow'
    BY <2>1 DEF FifoInv
  <2>2. CASE ~slow'
    <3>1. ~slow /\ d \in 1..Limit
      BY <1>1, <2>2, Zenon
    <3>2. future[h] = "queued" /\ Unfinished(h) /\ h \in Slice(slice) /\ at <= h
      BY <1>2, <1>3, <3>1, Pace DEF Unfinished
    <3>3. phase = "collect" /\ phase' = "collect"
      BY <1>2, <1>3, <3>1, Pace
    <3>4. h - FirstOf(slice) \in Nat /\ FirstOf(slice) \in Nat
      BY <1>2, <3>2, SliceIs DEF IInv
    <3>5. /\ \A p \in Nat : Rounds(limit, workers, p) \in Nat 
          /\ \A p, q \in Nat : p <= q => Rounds(limit, workers, p) <= Rounds(limit, workers, q)
      BY <1>2, RoundsAre DEF IInv
    <3>6. elapsed \in Nat /\ limit \in Nat /\ Limit <= limit /\ Limit \in Nat /\ Files \subseteq Nat
      BY SliceIs, SizesAssumption DEF IInv, TypesInv
    <3>7. queue' # <<>> => 1 \in 1..Len(queue') /\ queue'[1] = h + 1
      BY <1>3, <3>1, Pace
    <3>8. /\ \A f \in Files : verdict'[f] \notin {"late", "timeout"}
          /\ \A f \in Files : Unfinished(f)' => f \in Slice(slice)' /\ at' <= f
      BY <1>2, <1>5, <3>1, <3>2, Pace DEF Unfinished
    <3>9. ASSUME NEW f \in Files, future'[f] = "queued" PROVE \E i \in 1..Len(queue') : f = queue'[i]
      <4>1. f # h /\ future[f] = "queued"
        BY <1>5, <3>9
      <4>2. PICK i \in 1..Len(queue) : f = queue[i]
        BY <3>1, <4>1, Pace
      <4> QED
        BY <1>3, <4>1, <4>2
    <3>10. ASSUME NEW i \in 1..Len(queue')
           PROVE  future'[queue'[i]] = "queued" /\ queue'[i] = queue'[1] + (i - 1)
      <4>1. queue' # <<>> /\ i + 1 \in 1..Len(queue) /\ queue'[i] = queue[i + 1]
        BY <1>3, <3>10
      <4>2. queue'[i] = h + i /\ future[queue'[i]] = "queued" /\ queue'[i] \in Files
        BY <1>3, <3>1, <4>1, Pace
      <4> QED
        BY <1>5, <3>6, <3>7, <4>1, <4>2, <1>3
    <3>11. ASSUME NEW f \in Files, future'[f] = "running"
           PROVE  /\ queue' # <<>> => f < queue'[1]
                  /\ left'[f] \in Nat /\ elapsed' + left'[f] <= limit' + Rounds(limit', workers', f - FirstOf(slice'))
      <4>1. CASE f = h
        <5>1. left'[f] = d
          BY <1>1, <1>3, <4>1 DEF IInv, TypesInv
        <5>2. elapsed <= Rounds(limit, workers, h - FirstOf(slice))
          BY <1>2, <1>3, <3>1, Pace
        <5>3. Rounds(limit', workers', f - FirstOf(slice')) = Rounds(limit, workers, h - FirstOf(slice))
          BY <4>1, <3>4, <1>2
        <5>4. h < h + 1 /\ h \in Nat
          BY <1>3, <3>6
        <5>5. Rounds(limit, workers, h - FirstOf(slice)) \in Nat
          BY <3>4, <3>5
        <5>6. d \in Nat /\ elapsed + d <= limit + Rounds(limit, workers, h - FirstOf(slice))
          BY <3>1, <3>6, <5>2, <5>5
        <5>7. elapsed' = elapsed /\ limit' = limit
          BY <1>2
        <5>8. queue' # <<>> => f < queue'[1]
          BY <3>7, <4>1, <5>4
        <5> QED
          BY <5>1, <5>3, <5>6, <5>7, <5>8
      <4>2. CASE f # h
        <5>1. future[f] = "running" /\ left'[f] = left[f]
          BY <1>1, <1>5, <3>11, <4>2 DEF IInv, TypesInv
        <5>2. f < h /\ left[f] \in Nat /\ elapsed + left[f] <= limit + Rounds(limit, workers, f - FirstOf(slice))
          BY <1>2, <1>3, <3>1, <5>1, Pace
        <5>3. Rounds(limit', workers', f - FirstOf(slice')) = Rounds(limit, workers, f - FirstOf(slice))
          BY <3>4, <1>2
        <5> QED
          BY <1>2, <1>3, <3>6, <3>7, <5>1, <5>2, <5>3
      <4> QED
        BY <4>1, <4>2
    <3>12. queue' # <<>> => elapsed' <= Rounds(limit', workers', queue'[1] - FirstOf(slice'))
      <4> SUFFICES ASSUME queue' # <<>> PROVE elapsed' <= Rounds(limit', workers', queue'[1] - FirstOf(slice'))
        OBVIOUS
      <4>1. queue'[1] = h + 1
        BY <3>7
      <4>2. elapsed <= Rounds(limit, workers, h - FirstOf(slice))
        BY <1>2, <1>3, <3>1, Pace
      <4>3. /\ h - FirstOf(slice) <= h + 1 - FirstOf(slice) /\ h + 1 - FirstOf(slice) \in Nat
            /\ h - FirstOf(slice) \in Nat
        BY <1>3, <3>4, <3>6
      <4>4. elapsed <= Rounds(limit, workers, h + 1 - FirstOf(slice))
        <5> DEFINE p == h - FirstOf(slice)
                   q == h + 1 - FirstOf(slice)
        <5>1. p \in Nat /\ q \in Nat /\ p <= q /\ elapsed <= Rounds(limit, workers, p)
          BY <4>2, <4>3
        <5> HIDE DEF p, q
        <5>2. elapsed <= Rounds(limit, workers, q)
          BY <3>5, <3>6, <5>1
        <5> QED
          BY <5>2 DEF q
      <4>5. elapsed' = elapsed /\ limit' = limit /\ workers' = workers /\ slice' = slice
        BY <1>2
      <4>6. queue'[1] - FirstOf(slice') = h + 1 - FirstOf(slice)
        <5>1. h \in Nat /\ FirstOf(slice) \in Nat /\ FirstOf(slice') = FirstOf(slice)
          BY <1>3, <3>4, <3>6, <4>5
        <5> QED
          BY <4>1, <5>1
      <4> QED
        BY <4>4, <4>5, <4>6
    <3> QED
      BY <2>2, <3>3, <3>8, <3>9, <3>10, <3>11, <3>12 DEF FifoInv
  <2> QED
    BY <2>1, <2>2
<1>8. SliceIsBounded'
  BY <1>2 DEF IInv, SliceIsBounded
<1> QED
  BY <1>4, <1>6, <1>7, <1>8 DEF IInv

LEMMA EndParseStep == ASSUME IInv, NEW f \in Files, EndParse(f) PROVE IInv'
<1>1. /\ future[f] = "running" /\ future' = [future EXCEPT ![f] = "done"]
      /\ UNCHANGED <<phase, slice, at, elapsed, limit, verdict, workers, size, broken, inProcess,
                     queue, left, slow>>
  BY DEF EndParse, parentVars
<1>2. \A g \in Files : future'[g] = IF g = f THEN "done" ELSE future[g]
  BY <1>1 DEF IInv, TypesInv
<1>3. TypesInv'
  BY <1>1 DEF IInv, TypesInv
<1>4. PoolInv'
  BY <1>1, <1>2 DEF IInv, PoolInv, Unfinished
<1>5. FifoInv'
  <2>1. CASE slow
    BY <1>1, <2>1 DEF FifoInv
  <2>2. CASE ~slow
    <3>1. queue \in Seq(Files) /\ \A i \in 1..Len(queue) : queue[i] \in Files
      BY DEF IInv, TypesInv
    <3>2. /\ \A g \in Files : verdict'[g] \notin {"late", "timeout"}
          /\ phase' # "collect" => queue' = <<>> /\ \A g \in Files : ~Unfinished(g)'
          /\ \A g \in Files : Unfinished(g)' => g \in Slice(slice)' /\ at' <= g
      BY <1>1, <1>2, <2>2, Pace DEF Unfinished
    <3>3. \A g \in Files : future'[g] = "queued" => \E i \in 1..Len(queue') : g = queue'[i]
      BY <1>1, <1>2, <2>2, Pace
    <3>4. ASSUME NEW i \in 1..Len(queue')
          PROVE  future'[queue'[i]] = "queued" /\ queue'[i] = queue'[1] + (i - 1)
      <4>1. future[queue[i]] = "queued" /\ queue[i] = queue[1] + (i - 1) /\ queue[i] \in Files
        BY <1>1, <2>2, <3>1, <3>4, Pace
      <4>2. queue[i] # f
        BY <1>1, <4>1
      <4> QED
        BY <1>1, <1>2, <4>1, <4>2
    <3>5. ASSUME NEW g \in Files, future'[g] = "running"
          PROVE  /\ queue' # <<>> => g < queue'[1]
                 /\ left'[g] \in Nat
                 /\ elapsed' + left'[g] <= limit' + Rounds(limit', workers', g - FirstOf(slice'))
      <4>1. future[g] = "running"
        BY <1>2, <3>5
      <4> QED
        BY <1>1, <2>2, <4>1, Pace
    <3>6. queue' # <<>> => elapsed' <= Rounds(limit', workers', queue'[1] - FirstOf(slice'))
      BY <1>1, <2>2, Pace
    <3> QED
      BY <3>2, <3>3, <3>4, <3>5, <3>6 DEF FifoInv
  <2> QED
    BY <2>1, <2>2 DEF IInv, TypesInv
<1>6. SliceIsBounded'
  BY <1>1 DEF IInv, SliceIsBounded
<1> QED
  BY <1>3, <1>4, <1>5, <1>6 DEF IInv

LEMMA WorkerDiesStep == ASSUME IInv, WorkerDies PROVE IInv'
<1>1. /\ broken' = TRUE /\ left' = [f \in Files |-> 0] /\ queue' = <<>>
      /\ future' = [f \in Files |-> IF f \in Running \cup Waiting THEN "lost" ELSE future[f]]
      /\ UNCHANGED <<phase, slice, at, elapsed, limit, verdict, workers, size, inProcess, slow>>
  BY DEF WorkerDies, parentVars
<1>2. \A f \in Files : /\ future'[f] # "queued" /\ future'[f] # "running"
                       /\ future[f] # "none" => future'[f] # "none"
  BY <1>1 DEF Running, Waiting
<1>3. TypesInv'
  <2>1. future' \in [Files -> {"none", "queued", "running", "done", "lost"}]
    BY <1>1 DEF IInv, TypesInv
  <2>2. left' \in [Files -> Nat \cup {Never}] /\ queue' \in Seq(Files) /\ broken' \in BOOLEAN
    BY <1>1
  <2> QED
    BY <1>1, <2>1, <2>2 DEF IInv, TypesInv
<1>4. PoolInv'
  BY <1>1, <1>2 DEF IInv, PoolInv, Unfinished
<1>5. FifoInv'
  <2>1. CASE slow
    BY <1>1, <2>1 DEF FifoInv
  <2>2. CASE ~slow
    <3>1. \A f \in Files : verdict'[f] \notin {"late", "timeout"}
      BY <1>1, <2>2, Pace
    <3>2. \A i \in 1..Len(queue') : FALSE
      BY <1>1
    <3> QED
      BY <1>1, <1>2, <3>1, <3>2 DEF FifoInv, Unfinished
  <2> QED
    BY <2>1, <2>2 DEF IInv, TypesInv
<1>6. SliceIsBounded'
  BY <1>1 DEF IInv, SliceIsBounded
<1> QED
  BY <1>3, <1>4, <1>5, <1>6 DEF IInv

-----------------------------------------------------------------------------
\* A slice.

\* The files that a slice submits, one after the other.
LEMMA SliceNumbered ==
    ASSUME TypesInv
    PROVE  /\ Cardinality(Slice(slice)) \in Nat
           /\ \A i \in 1..Cardinality(Slice(slice)) : FirstOf(slice) + i - 1 \in Slice(slice)
           /\ \A f \in Slice(slice) : f - FirstOf(slice) + 1 \in 1..Cardinality(Slice(slice))
<1> DEFINE m == Cardinality(Slice(slice))
           s == FirstOf(slice)
<1>1. /\ s \in Nat \ {0} /\ SliceSize \in Nat \ {0} /\ Files \subseteq Nat /\ NumFiles \in Nat
      /\ Slice(slice) = {f \in Files : s <= f /\ f < s + SliceSize}
  BY SliceIs, SizesAssumption
<1> HIDE DEF s
<1>2. /\ m \in Nat
      /\ \A i \in 1..m : s + i - 1 \in Slice(slice)
      /\ \A f \in Slice(slice) : f - s + 1 \in 1..m
  <2>1. Files = 1..NumFiles
    BY DEF Files
  <2>2. CASE s + SliceSize - 1 <= NumFiles
    <3>1. Slice(slice) = s..(s + SliceSize - 1)
      BY <1>1, <2>1, <2>2
    <3>2. m = SliceSize
      <4>1. s \in Int /\ s + SliceSize - 1 \in Int /\ s <= s + SliceSize - 1
        BY <1>1
      <4>2. Cardinality(s..(s + SliceSize - 1)) = (s + SliceSize - 1) - s + 1
        BY <4>1, FS_Interval
      <4>3. m = Cardinality(s..(s + SliceSize - 1))
        BY <3>1
      <4>4. (s + SliceSize - 1) - s + 1 = SliceSize
        BY <1>1
      <4> QED
        BY <4>2, <4>3, <4>4
    <3> HIDE DEF m
    <3> QED
      BY <1>1, <3>1, <3>2
  <2>3. CASE NumFiles < s + SliceSize - 1
    <3>1. Slice(slice) = s..NumFiles
      BY <1>1, <2>1, <2>3
    <3>2. Cardinality(s..NumFiles) = IF s > NumFiles THEN 0 ELSE NumFiles - s + 1
      BY <1>1, FS_Interval
    <3>3. m = IF s > NumFiles THEN 0 ELSE NumFiles - s + 1
      BY <3>1, <3>2
    <3> HIDE DEF m
    <3>4. CASE s > NumFiles
      <4>1. m = 0 /\ \A i \in Nat : i \notin 1..m
        BY <3>3, <3>4
      <4>2. Slice(slice) = {}
        BY <1>1, <3>1, <3>4
      <4> QED
        BY <4>1, <4>2
    <3>5. CASE s <= NumFiles
      <4>1. m = NumFiles - s + 1
        BY <1>1, <3>3, <3>5
      <4> QED
        BY <1>1, <3>1, <3>5, <4>1
    <3> QED
      BY <1>1, <3>4, <3>5
  <2> QED
    BY <1>1, <2>2, <2>3
<1> QED
  BY <1>2 DEF m, s

LEMMA SubmitStep == ASSUME IInv, Submit PROVE IInv'
<1> DEFINE m == Cardinality(Slice(slice))
           s == FirstOf(slice)
<1>1. PICK factor \in Factors : limit' = factor * Limit
  BY DEF Submit
<1>2. /\ phase = "slice" /\ ~broken /\ phase' = "collect" /\ elapsed' = 0 /\ at' = s
      /\ size' = IF size = 0 THEN workers ELSE size
      /\ queue' = queue \o [i \in 1..m |-> s + i - 1]
      /\ future' = [f \in Files |-> IF f \in Slice(slice) THEN "queued" ELSE future[f]]
      /\ UNCHANGED <<slice, verdict, workers, broken, inProcess, left, slow>>
  BY DEF Submit
<1>3. /\ s \in Nat \ {0} /\ SliceSize \in Nat \ {0} /\ Files \subseteq Nat /\ NumFiles \in Nat
      /\ Slice(slice) = {f \in Files : s <= f /\ f < s + SliceSize}
  BY SliceIs, SizesAssumption DEF IInv
<1> HIDE DEF s
<1>4. /\ m \in Nat
      /\ \A i \in 1..m : s + i - 1 \in Slice(slice)
      /\ \A f \in Slice(slice) : f - s + 1 \in 1..m
  BY SliceNumbered DEF IInv, s
<1> HIDE DEF m
<1>5. limit' \in Nat /\ Limit <= limit'
  <2>1. factor \in Nat \ {0} /\ Limit \in Nat
    BY TimesAssumption, SizesAssumption
  <2>2. \A a \in Nat \ {0} : \A b \in Nat : a * b \in Nat /\ b <= a * b
    OBVIOUS
  <2> QED
    BY <1>1, <2>1, <2>2
<1>6. size' = workers /\ workers \in Nat \ {0}
  BY <1>2 DEF IInv, TypesInv, PoolInv
<1>7. \A f \in Files : future'[f] = IF f \in Slice(slice) THEN "queued" ELSE future[f]
  BY <1>2
<1>8. Slice(slice) \subseteq Files /\ \A i \in 1..m : s + i - 1 \in Files
  BY <1>3, <1>4
<1>9. TypesInv'
  <2>1. [i \in 1..m |-> s + i - 1] \in Seq(Files)
    BY <1>4, <1>8
  <2>2. queue' \in Seq(Files)
    BY <1>2, <2>1 DEF IInv, TypesInv
  <2>3. future' \in [Files -> {"none", "queued", "running", "done", "lost"}]
    BY <1>2 DEF IInv, TypesInv
  <2>4. /\ phase' = "collect" /\ at' \in Nat /\ elapsed' \in Nat /\ size' \in Nat
        /\ slice' = slice /\ workers' = workers /\ broken' = broken /\ inProcess' = inProcess
        /\ slow' = slow /\ left' = left /\ verdict' = verdict
    BY <1>2, <1>3, <1>6
  <2> QED
    BY <1>5, <2>2, <2>3, <2>4 DEF IInv, TypesInv
<1>10. PoolInv'
  <2>1. s <= at' /\ at' <= s + SliceSize /\ s = FirstOf(slice')
    BY <1>2, <1>3 DEF s
  <2>2. \A f \in Files : verdict'[f] = "late" => future'[f] # "none"
    BY <1>2, <1>7 DEF IInv, PoolInv
  <2> QED
    BY <1>2, <1>6, <2>1, <2>2 DEF IInv, PoolInv
<1>11. FifoInv'
  <2>1. CASE slow
    BY <1>2, <2>1 DEF FifoInv
  <2>2. CASE ~slow
    <3>1. /\ \A f \in Files : verdict'[f] \notin {"late", "timeout"}
          /\ queue = <<>> /\ \A f \in Files : ~Unfinished(f)
      BY <1>2, <2>2, Pace
    <3>2. queue' = [i \in 1..m |-> s + i - 1] /\ Len(queue') = m
      BY <1>2, <1>4, <3>1
    <3>3. \A f \in Files : /\ future'[f] # "running"
                           /\ future'[f] = "queued" => f \in Slice(slice)
      BY <1>7, <3>1 DEF Unfinished
    <3>4. \A f \in Files : Unfinished(f)' => f \in Slice(slice)' /\ at' <= f
      BY <1>2, <1>3, <3>3 DEF Unfinished
    <3>5. ASSUME NEW f \in Files, future'[f] = "queued" PROVE \E i \in 1..Len(queue') : f = queue'[i]
      <4>1. f - s + 1 \in 1..m /\ f \in Nat
        <5>1. f \in Slice(slice)
          BY <3>3, <3>5
        <5>2. f - s + 1 \in 1..m
          BY <1>4, <5>1
        <5> QED
          BY <1>3, <5>2
      <4>2. queue'[f - s + 1] = f
        BY <1>3, <3>2, <4>1
      <4> QED
        BY <3>2, <4>1, <4>2
    <3>6. ASSUME NEW i \in 1..Len(queue')
          PROVE  future'[queue'[i]] = "queued" /\ queue'[i] = queue'[1] + (i - 1)
      <4>1. i \in 1..m /\ 1 \in 1..m
        BY <1>4, <3>2, <3>6
      <4>2. queue'[i] = s + i - 1 /\ queue'[1] = s
        BY <1>3, <3>2, <4>1
      <4>3. s + i - 1 \in Slice(slice)
        BY <1>4, <4>1
      <4> QED
        BY <1>3, <1>7, <1>8, <4>1, <4>2, <4>3
    <3>7. queue' # <<>> => elapsed' <= Rounds(limit', workers', queue'[1] - FirstOf(slice'))
      <4> SUFFICES ASSUME queue' # <<>> PROVE elapsed' <= Rounds(limit', workers', queue'[1] - FirstOf(slice'))
        OBVIOUS
      <4>1. 1 \in 1..m
        BY <1>4, <3>2
      <4>2. queue'[1] = s /\ FirstOf(slice') = s
        <5>1. FirstOf(slice') = s
          BY <1>2 DEF s
        <5>2. queue'[1] = s + 1 - 1
          BY <3>2, <4>1
        <5> QED
          BY <1>3, <5>1, <5>2
      <4>3. queue'[1] - FirstOf(slice') = 0
        BY <1>3, <4>2
      <4>4. Rounds(limit', workers', 0) \in Nat
        <5>1. workers' \in Nat \ {0}
          BY <1>2, <1>6
        <5>2. 0 \div workers' \in Nat
          <6> DEFINE w == workers'
          <6>1. w \in Nat \ {0}
            BY <5>1
          <6> HIDE DEF w
          <6>2. 0 \div w \in Nat
            BY <6>1
          <6> QED
            BY <6>2 DEF w
        <5> QED
          BY <1>5, <5>2, TimesMonotonic DEF Rounds
      <4>5. elapsed' <= Rounds(limit', workers', 0)
        BY <1>2, <4>4
      <4> QED
        BY <4>3, <4>5
    <3> QED
      BY <1>2, <3>1, <3>3, <3>4, <3>5, <3>6, <3>7 DEF FifoInv
  <2> QED
    BY <2>1, <2>2 DEF IInv, TypesInv
<1>12. SliceIsBounded'
  <2>1. (SliceSize - 1) \div workers \in Nat
    <3>1. SliceSize - 1 \in Nat
      BY <1>3
    <3> QED
      BY <1>6, <3>1, DivMonotonic
  <2>2. limit' * (1 + (SliceSize - 1) \div workers) \in Nat
    <3>1. 1 + (SliceSize - 1) \div workers \in Nat
      BY <2>1
    <3> QED
      BY <1>5, <3>1, TimesMonotonic
  <2> QED
    BY <1>2, <2>2, TimesAssumption DEF SliceIsBounded
<1> QED
  BY <1>9, <1>10, <1>11, <1>12 DEF IInv

\* A full pool has a file at least k places in front of the first that waits.
LEMMA Foremost ==
    ASSUME NEW R \in SUBSET Nat, IsFiniteSet(R), NEW k \in Nat \ {0}, NEW h \in Nat,
           k <= Cardinality(R), \A f \in R : f < h
    PROVE  \E f \in R : f <= h - k
<1> SUFFICES ASSUME \A f \in R : f > h - k PROVE FALSE
  OBVIOUS
<1>1. R \subseteq (h - k + 1)..(h - 1)
  OBVIOUS
<1>2. h - k + 1 \in Int /\ h - 1 \in Int
  OBVIOUS
<1>3. /\ IsFiniteSet((h - k + 1)..(h - 1))
      /\ Cardinality((h - k + 1)..(h - 1)) = IF h - k + 1 > h - 1 THEN 0 ELSE (h - 1) - (h - k + 1) + 1
  BY <1>2, FS_Interval
<1>4. Cardinality(R) \in Nat /\ Cardinality(R) <= Cardinality((h - k + 1)..(h - 1))
  <2>1. Cardinality(R) <= Cardinality((h - k + 1)..(h - 1))
    BY <1>1, <1>3, FS_Subset
  <2> QED
    BY <2>1, FS_CardinalityType
<1>5. (IF h - k + 1 > h - 1 THEN 0 ELSE (h - 1) - (h - k + 1) + 1) = k - 1
  OBVIOUS
<1> QED
  BY <1>3, <1>4, <1>5

\* What a file's place in its slice is, and its deadline.
LEMMA PlaceOfAt ==
    ASSUME IInv, Collecting
    PROVE  /\ at \in Files /\ at - FirstOf(slice) \in Nat /\ at - FirstOf(slice) <= SliceSize - 1
           /\ Budget = limit + Rounds(limit, workers, at - FirstOf(slice)) + Slack
           /\ Rounds(limit, workers, at - FirstOf(slice)) \in Nat
           /\ Budget <= limit * (1 + (SliceSize - 1) \div workers) + Slack
<1>1. TypesInv
  BY DEF IInv
<1> DEFINE p == at - FirstOf(slice)
<1>2. at \in Files /\ p \in Nat /\ p <= SliceSize - 1 /\ SliceSize - 1 \in Nat
  BY <1>1, SliceIs DEF Collecting
<1>3. limit \in Nat /\ workers \in Nat \ {0} /\ Slack \in Nat
  BY <1>1, TimesAssumption DEF TypesInv
<1> HIDE DEF p
<1>4. /\ p \div workers \in Nat /\ (SliceSize - 1) \div workers \in Nat
      /\ p \div workers <= (SliceSize - 1) \div workers
  BY <1>2, <1>3, DivMonotonic
<1>5. limit * (1 + p \div workers) = limit + limit * (p \div workers)
  BY <1>3, <1>4, TimesOneMore
<1>6. limit * (p \div workers) \in Nat
  BY <1>3, <1>4, TimesMonotonic
<1>7. limit * (1 + p \div workers) <= limit * (1 + (SliceSize - 1) \div workers)
  <2> DEFINE a == p \div workers
             b == (SliceSize - 1) \div workers
  <2>1. a \in Nat /\ b \in Nat /\ a <= b
    BY <1>4
  <2> HIDE DEF a, b
  <2>2. 1 + a \in Nat /\ 1 + b \in Nat /\ 1 + a <= 1 + b
    BY <2>1
  <2>3. limit * (1 + a) <= limit * (1 + b)
    BY <1>3, <2>2, TimesMonotonic
  <2> QED
    BY <2>3 DEF a, b
<1>8. Budget = limit * (1 + p \div workers) + Slack
  BY DEF Budget, p
<1>9. /\ limit * (1 + p \div workers) \in Nat
      /\ limit * (1 + (SliceSize - 1) \div workers) \in Nat
  BY <1>3, <1>4, TimesMonotonic, 1 + p \div workers \in Nat, 1 + (SliceSize - 1) \div workers \in Nat
<1>10. Budget <= limit * (1 + (SliceSize - 1) \div workers) + Slack
  BY <1>3, <1>7, <1>8, <1>9
<1>11. Budget = limit + Rounds(limit, workers, p) + Slack /\ Rounds(limit, workers, p) \in Nat
  BY <1>5, <1>6, <1>8 DEF Rounds
<1> QED
  BY <1>2, <1>10, <1>11 DEF p

LEMMA AwaitStep == ASSUME IInv, Await PROVE IInv'
<1>1. /\ Collecting /\ phase = "collect" /\ at \in Slice(slice) /\ elapsed < Budget
      /\ ~Startable /\ \A f \in Running : left[f] # 0
      /\ left' = [f \in Files |-> IF f \in Running /\ left[f] > 0 THEN left[f] - 1 ELSE left[f]]
      /\ elapsed' = elapsed + 1
      /\ UNCHANGED <<phase, slice, at, limit, verdict, workers, size, broken, inProcess, queue,
                     future, slow>>
  BY DEF Await, Collecting, Progress
<1>2. TypesInv'
  <2>1. left' \in [Files -> Nat \cup {Never}]
    BY <1>1 DEF IInv, TypesInv, Never
  <2>2. elapsed' \in Nat
    BY <1>1 DEF IInv, TypesInv
  <2> QED
    BY <1>1, <2>1, <2>2 DEF IInv, TypesInv
<1>3. PoolInv'
  BY <1>1 DEF IInv, PoolInv, Unfinished
<1>4. FifoInv'
  <2>1. CASE slow
    BY <1>1, <2>1 DEF FifoInv
  <2>2. CASE ~slow
    <3>1. /\ queue \in Seq(Files) /\ elapsed \in Nat /\ limit \in Nat /\ workers \in Nat \ {0}
          /\ size \in Nat /\ size = workers
      BY <1>1 DEF IInv, TypesInv, PoolInv
    <3>2. ASSUME NEW f \in Files, future[f] = "running"
          PROVE  /\ queue # <<>> => f < queue[1]
                 /\ left[f] \in Nat \ {0} /\ left'[f] = left[f] - 1 /\ FirstOf(slice) <= f
                 /\ elapsed + left[f] <= limit + Rounds(limit, workers, f - FirstOf(slice))
      <4>1. f \in Running
        BY <3>2 DEF Running
      <4>2. /\ queue # <<>> => f < queue[1]
            /\ left[f] \in Nat /\ f \in Slice(slice)
            /\ elapsed + left[f] <= limit + Rounds(limit, workers, f - FirstOf(slice))
        BY <2>2, <3>2, Pace DEF Unfinished
      <4>3. left[f] # 0
        BY <1>1, <4>1
      <4>4. left'[f] = left[f] - 1
        BY <1>1, <4>1, <4>2, <4>3
      <4>5. FirstOf(slice) <= f
        BY <4>2, SliceIs DEF IInv
      <4> QED
        BY <4>2, <4>3, <4>4, <4>5
    <3>3. ASSUME NEW f \in Files, future[f] = "running"
          PROVE  left'[f] \in Nat /\ elapsed' + left'[f] = elapsed + left[f]
      BY <1>1, <3>1, <3>2, <3>3
    <3>4. ASSUME queue # <<>> PROVE elapsed' <= Rounds(limit, workers, queue[1] - FirstOf(slice))
      <4> DEFINE h == queue[1]
      <4>1. h \in Files /\ 1 \in 1..Len(queue)
        BY <3>1, <3>4
      <4>2. future[h] = "queued"
        BY <2>2, <4>1, Pace
      <4>3. ~broken
        BY <4>1, <4>2 DEF IInv, PoolInv, Unfinished
      <4>4. ~(Cardinality(Running) < workers)
        BY <1>1, <3>1, <3>4, <4>3 DEF Startable
      <4>5. h \in Nat /\ Files \subseteq Nat /\ FirstOf(slice) \in Nat
        BY <4>1, SliceIs DEF IInv
      <4> HIDE DEF h
      <4>6. Running \in SUBSET Nat /\ IsFiniteSet(Running) /\ Cardinality(Running) \in Nat
        <5>1. Running \subseteq Files
          BY DEF Running
        <5>2. IsFiniteSet(Files)
          BY FS_Interval, SizesAssumption DEF Files
        <5> QED
          BY <4>5, <5>1, <5>2, FS_Subset, FS_CardinalityType
      <4>7. workers <= Cardinality(Running)
        BY <3>1, <4>4, <4>6
      <4>8. \A f \in Running : f < h
        BY <3>2, <3>4 DEF Running, h
      <4>9. PICK f \in Running : f <= h - workers
        BY <3>1, <4>5, <4>6, <4>7, <4>8, Foremost
      <4>10. f \in Files /\ future[f] = "running" /\ f \in Nat
        BY <4>5, <4>9 DEF Running
      <4>11. /\ FirstOf(slice) <= f /\ left[f] \in Nat \ {0}
             /\ elapsed + left[f] <= limit + Rounds(limit, workers, f - FirstOf(slice))
        BY <3>2, <4>10
      <4> DEFINE q == f - FirstOf(slice)
                 p == h - FirstOf(slice)
      <4>12. q \in Nat /\ p \in Nat /\ p - workers \in Nat /\ q <= p - workers /\ workers <= p
        BY <3>1, <4>5, <4>9, <4>10, <4>11
      <4>13. elapsed + left[f] <= limit + Rounds(limit, workers, q)
        BY <4>11
      <4> HIDE DEF p, q
      <4>14. /\ Rounds(limit, workers, q) \in Nat /\ Rounds(limit, workers, p - workers) \in Nat
             /\ Rounds(limit, workers, q) <= Rounds(limit, workers, p - workers)
             /\ limit + Rounds(limit, workers, p - workers) = Rounds(limit, workers, p)
        BY <4>12, RoundsAre DEF IInv
      <4>15. elapsed' <= Rounds(limit, workers, p)
        BY <1>1, <3>1, <4>11, <4>13, <4>14
      <4> QED
        BY <4>15 DEF p, h
    <3>5. /\ \A f \in Files : verdict'[f] \notin {"late", "timeout"}
          /\ \A f \in Files : Unfinished(f)' => f \in Slice(slice)' /\ at' <= f
      BY <1>1, <2>2, Pace DEF Unfinished
    <3>6. \A f \in Files : future'[f] = "queued" => \E i \in 1..Len(queue') : f = queue'[i]
      BY <1>1, <2>2, Pace
    <3>7. \A i \in 1..Len(queue') : future'[queue'[i]] = "queued" /\ queue'[i] = queue'[1] + (i - 1)
      BY <1>1, <2>2, Pace
    <3>8. ASSUME NEW f \in Files, future'[f] = "running"
          PROVE  /\ queue' # <<>> => f < queue'[1]
                 /\ left'[f] \in Nat
                 /\ elapsed' + left'[f] <= limit' + Rounds(limit', workers', f - FirstOf(slice'))
      <4>1. future[f] = "running"
        BY <1>1, <3>8
      <4>2. /\ queue # <<>> => f < queue[1]
            /\ elapsed + left[f] <= limit + Rounds(limit, workers, f - FirstOf(slice))
        BY <3>2, <4>1
      <4>3. left'[f] \in Nat /\ elapsed' + left'[f] = elapsed + left[f]
        BY <3>3, <4>1
      <4>4. limit' = limit /\ workers' = workers /\ slice' = slice /\ queue' = queue
        BY <1>1
      <4> QED
        BY <4>2, <4>3, <4>4
    <3>9. queue' # <<>> => elapsed' <= Rounds(limit', workers', queue'[1] - FirstOf(slice'))
      <4>1. limit' = limit /\ workers' = workers /\ slice' = slice /\ queue' = queue
        BY <1>1
      <4> QED
        BY <3>4, <4>1
    <3> QED
      BY <1>1, <3>5, <3>6, <3>7, <3>8, <3>9 DEF FifoInv
  <2> QED
    BY <2>1, <2>2 DEF IInv, TypesInv
<1>5. SliceIsBounded'
  <2> DEFINE b == limit * (1 + (SliceSize - 1) \div workers) + Slack
  <2>1. Budget <= b /\ Budget \in Nat
    <3>1. limit \in Nat /\ Slack \in Nat
      BY TimesAssumption DEF IInv, TypesInv
    <3>2. /\ Rounds(limit, workers, at - FirstOf(slice)) \in Nat
          /\ Budget = limit + Rounds(limit, workers, at - FirstOf(slice)) + Slack
      BY <1>1, PlaceOfAt
    <3>3. Budget <= b
      BY <1>1, PlaceOfAt
    <3> QED
      BY <3>1, <3>2, <3>3
  <2>2. b \in Int
    <3>1. limit \in Nat /\ workers \in Nat \ {0} /\ Slack \in Nat /\ SliceSize - 1 \in Nat
      BY TimesAssumption, SizesAssumption DEF IInv, TypesInv
    <3>2. 1 + (SliceSize - 1) \div workers \in Nat
      BY <3>1, DivMonotonic
    <3>3. limit * (1 + (SliceSize - 1) \div workers) \in Nat
      BY <3>1, <3>2, TimesMonotonic
    <3> QED
      BY <3>1, <3>3
  <2>3. b' = b
    BY <1>1
  <2> HIDE DEF b
  <2>4. elapsed' <= b
    BY <1>1, <2>1, <2>2 DEF IInv, TypesInv
  <2>5. elapsed' <= b'
    BY <2>3, <2>4
  <2> QED
    BY <2>5 DEF SliceIsBounded, b
<1> QED
  BY <1>2, <1>3, <1>4, <1>5 DEF IInv

\* No deadline passes before its file is done, as long as no parse is slow.
LEMMA NeverLate == ASSUME IInv, Collecting, ~slow, Unfinished(at) PROVE elapsed < Budget
<1> DEFINE r == Rounds(limit, workers, at - FirstOf(slice))
<1>1. at \in Files /\ r \in Nat /\ Budget = limit + r + Slack
  BY PlaceOfAt
<1>2. limit \in Nat /\ elapsed \in Nat /\ Slack \in Nat \ {0} /\ queue \in Seq(Files) /\ Files \subseteq Nat
  BY TimesAssumption, SliceIs DEF IInv, TypesInv
<1>3. elapsed <= limit + r
  <2>1. CASE future[at] = "running"
    <3>1. left[at] \in Nat /\ elapsed + left[at] <= limit + r
      BY <1>1, <2>1, Pace
    <3> HIDE DEF r
    <3> QED
      BY <1>1, <1>2, <3>1
  <2>2. CASE future[at] = "queued"
    <3>1. PICK i \in 1..Len(queue) : at = queue[i]
      BY <1>1, <2>2, Pace
    <3>2. 1 \in 1..Len(queue) /\ queue # <<>> /\ queue[1] \in Files
      BY <1>2, <3>1
    <3>3. at = queue[1] + (i - 1)
      BY <3>1, Pace
    <3>4. at <= queue[1]
      <4>1. future[queue[1]] = "queued"
        BY <3>2, Pace
      <4> QED
        BY <3>2, <4>1, Pace DEF Unfinished
    <3>5. at = queue[1]
      <4>1. i \in Nat \ {0} /\ queue[1] \in Nat
        <5>1. Len(queue) \in Nat
          BY <1>2
        <5>2. queue[1] \in Nat
          BY <1>2, <3>2, Zenon
        <5> QED
          BY <5>1, <5>2
      <4>2. at \in Nat
        BY <1>1, <1>2
      <4> QED
        BY <3>3, <3>4, <4>1, <4>2
    <3>6. elapsed <= r
      BY <3>2, <3>5, Pace
    <3> HIDE DEF r
    <3> QED
      BY <1>1, <1>2, <3>6
  <2> QED
    BY <2>1, <2>2 DEF Unfinished
<1> HIDE DEF r
<1> QED
  BY <1>1, <1>2, <1>3

LEMMA CollectStep == ASSUME IInv, Collect PROVE IInv'
<1>1. /\ Collecting /\ phase = "collect" /\ at \in Slice(slice) /\ at' = at + 1
      /\ UNCHANGED <<slice, elapsed, limit, workers, size, broken, inProcess, queue, left, future>>
  BY DEF Collect, Collecting, poolVars
<1>2. /\ at \in Files /\ at \in Nat /\ FirstOf(slice) <= at /\ at < FirstOf(slice) + SliceSize
      /\ FirstOf(slice) \in Nat /\ SliceSize \in Nat
  BY <1>1, SliceIs DEF IInv
<1>3. /\ \A f \in Files : verdict'[f] = verdict[f] \/ (f = at /\ verdict'[f] \in {"worker", "parent", "late"})
      /\ verdict'[at] = "late" => verdict[at] = "late" \/ (Unfinished(at) /\ elapsed >= Budget)
      /\ Unfinished(at) => elapsed >= Budget
      /\ verdict' \in [Files -> {"none", "worker", "parent", "late", "timeout"}]
      /\ \/ phase' = "collect" /\ slow' = slow
         \/ phase' = "hung" /\ slow' = TRUE
  <2>1. verdict \in [Files -> {"none", "worker", "parent", "late", "timeout"}]
    BY DEF IInv, TypesInv
  <2>2. CASE /\ future[at] = "done"
             /\ verdict' = [verdict EXCEPT ![at] = "worker"]
             /\ UNCHANGED <<phase, slow>>
    BY <1>1, <1>2, <2>1, <2>2 DEF Unfinished
  <2>3. CASE /\ future[at] \in {"queued", "running"} /\ elapsed >= Budget
             /\ verdict' = [verdict EXCEPT ![at] = "late"]
             /\ UNCHANGED <<phase, slow>>
    BY <1>1, <1>2, <2>1, <2>3 DEF Unfinished
  <2>4. CASE /\ future[at] = "lost"
             /\ verdict' = [f \in Files |-> IF f \in {at} THEN "parent" ELSE verdict[f]]
             /\ phase' = phase /\ UNCHANGED slow
    BY <1>1, <1>2, <2>1, <2>4 DEF Unfinished
  <2>5. CASE /\ future[at] = "lost"
             /\ phase' = "hung" /\ slow' = TRUE /\ UNCHANGED verdict
    BY <1>1, <1>2, <2>1, <2>5 DEF Unfinished
  <2> QED
    BY <2>2, <2>3, <2>4, <2>5 DEF Collect, ParseHere
<1>4. TypesInv'
  <2>1. at' \in Nat /\ phase' \in {"collect", "hung"}
    BY <1>1, <1>2, <1>3
  <2>2. slow' \in BOOLEAN
    BY <1>3 DEF IInv, TypesInv
  <2> QED
    BY <1>1, <1>3, <2>1, <2>2 DEF IInv, TypesInv
<1>5. PoolInv'
  <2>1. FirstOf(slice') <= at' /\ at' <= FirstOf(slice') + SliceSize
    BY <1>1, <1>2
  <2>2. \A f \in Files : verdict'[f] = "late" => future'[f] # "none"
    BY <1>1, <1>3 DEF IInv, PoolInv, Unfinished
  <2>3. phase' # "shrink" /\ size' = workers'
    BY <1>1, <1>3 DEF IInv, PoolInv
  <2>4. broken' => \A f \in Files : ~Unfinished(f)'
    BY <1>1 DEF IInv, PoolInv, Unfinished
  <2> QED
    BY <2>1, <2>2, <2>3, <2>4 DEF PoolInv
<1>6. FifoInv'
  <2>1. CASE slow'
    BY <2>1 DEF FifoInv
  <2>2. CASE ~slow'
    <3>1. ~slow /\ phase' = "collect"
      <4>1. slow' # TRUE
        BY <2>2
      <4>2. slow' = slow /\ phase' = "collect"
        BY <1>3, <4>1
      <4> QED
        BY <2>2, <4>2
    <3>2. ~Unfinished(at)
      <4> SUFFICES ASSUME Unfinished(at) PROVE FALSE
        OBVIOUS
      <4>1. elapsed < Budget /\ elapsed >= Budget
        BY <1>1, <1>3, <3>1, NeverLate
      <4>2. elapsed \in Nat /\ Budget \in Int
        <5>1. limit \in Nat /\ Slack \in Nat
          BY TimesAssumption DEF IInv, TypesInv
        <5> QED
          BY <1>1, <5>1, PlaceOfAt DEF IInv, TypesInv
      <4> QED
        BY <4>1, <4>2
    <3>3. \A f \in Files : verdict'[f] \notin {"late", "timeout"}
      <4>1. \A f \in Files : verdict[f] \notin {"late", "timeout"}
        BY <3>1, Pace
      <4>2. verdict'[at] # "late"
        BY <1>2, <1>3, <3>2, <4>1
      <4> QED
        BY <1>3, <4>1, <4>2
    <3>4. ASSUME NEW f \in Files, Unfinished(f)' PROVE f \in Slice(slice)' /\ at' <= f
      <4>1. Unfinished(f)
        BY <1>1, <3>4 DEF Unfinished
      <4>2. f \in Slice(slice) /\ at <= f /\ f \in Nat
        BY <3>1, <4>1, Pace, SliceIs DEF IInv
      <4>3. f # at
        BY <3>2, <4>1
      <4> QED
        BY <1>1, <1>2, <4>2, <4>3
    <3> QED
      BY <1>1, <3>1, <3>3, <3>4, Pace DEF FifoInv
  <2> QED
    BY <2>1, <2>2
<1>7. SliceIsBounded'
  BY <1>1, <1>3 DEF IInv, SliceIsBounded
<1> QED
  BY <1>4, <1>5, <1>6, <1>7 DEF IInv

-----------------------------------------------------------------------------

LEMMA InitLemma == Init => IInv
<1> SUFFICES ASSUME Init PROVE IInv
  OBVIOUS
<1>1. Limit \in Nat \ {0} /\ Workers \in Nat \ {0}
  BY SizesAssumption, PoolAssumption
<1>2. TypesInv
  <2>1. left \in [Files -> Nat \cup {Never}]
    BY DEF Init
  <2>2. /\ future \in [Files -> {"none", "queued", "running", "done", "lost"}]
        /\ verdict \in [Files -> {"none", "worker", "parent", "late", "timeout"}]
    BY DEF Init
  <2>3. queue \in Seq(Files)
    BY DEF Init
  <2>4. /\ phase = "govern" /\ slice = 1 /\ at = 1 /\ elapsed = 0 /\ limit = Limit
        /\ workers = Workers /\ size = 0 /\ broken = FALSE /\ inProcess = FALSE /\ slow = FALSE
    BY DEF Init
  <2>5. limit \in Nat /\ Limit <= limit
    BY <1>1, <2>4
  <2>6. slice \in Nat \ {0} /\ at \in Nat /\ elapsed \in Nat /\ workers \in Nat \ {0} /\ size \in Nat
    BY <1>1, <2>4
  <2>7. broken \in BOOLEAN /\ inProcess \in BOOLEAN /\ slow \in BOOLEAN
    BY <2>4
  <2> QED
    BY <2>1, <2>2, <2>3, <2>4, <2>5, <2>6, <2>7, Zenon DEF TypesInv
<1>3. PoolInv
  BY DEF Init, PoolInv, Unfinished
<1>4. FifoInv
  <2>1. \A i \in 1..Len(queue) : FALSE
    BY DEF Init
  <2>2. /\ \A f \in Files : future[f] = "none" /\ verdict[f] = "none"
        /\ queue = <<>>
    BY DEF Init
  <2> QED
    BY <2>1, <2>2 DEF FifoInv, Unfinished
<1>5. SliceIsBounded
  BY DEF Init, SliceIsBounded
<1> QED
  BY <1>2, <1>3, <1>4, <1>5 DEF IInv

LEMMA NextStep == IInv /\ [Next]_vars => IInv'
<1> SUFFICES ASSUME IInv, [Next]_vars PROVE IInv'
  OBVIOUS
<1>1. CASE WorkerStep
  BY <1>1, StartParseStep, EndParseStep DEF WorkerStep
<1>2. CASE WorkerDies
  BY <1>2, WorkerDiesStep
<1>3. CASE ParentStep
  BY <1>3, GovernStep, ShutdownSteps, AwaitShutdownStep, SliceInProcessStep, SubmitRaisesStep,
     SubmitStep, AwaitStep, CollectStep, SecondLookStep, SliceEndsStep DEF ParentStep
<1>4. CASE UNCHANGED vars
  BY <1>4 DEF vars, IInv, TypesInv, PoolInv, FifoInv, SliceIsBounded, Unfinished
<1> QED
  BY <1>1, <1>2, <1>3, <1>4 DEF Next

\* The pool keeps the pace its deadlines are computed from.
THEOREM InductiveInvariant == Spec => []IInv
<1> QED
  BY InitLemma, NextStep, PTL DEF Spec

-----------------------------------------------------------------------------

\* _parse_slice's claim for every number of files and workers: as long as no parse takes
\* more than the per-file limit, no file is skipped for the time it spent in the queue.
THEOREM NoWaitingSkips == Spec => []NoneSkippedForWaiting
<1>1. IInv => NoneSkippedForWaiting
  BY DEF IInv, FifoInv, NoneSkippedForWaiting
<1> QED
  BY <1>1, InductiveInvariant, PTL

\* The waits of one slice end by the deadline of its last file, however many workers are
\* stuck.
THEOREM SlicesBounded == Spec => []SliceIsBounded
<1>1. IInv => SliceIsBounded
  BY DEF IInv
<1> QED
  BY <1>1, InductiveInvariant, PTL

-----------------------------------------------------------------------------
\* The pool's queue and workers, and what has become of every file.

Earlier(f) == f < FirstOf(slice)

\* The queue holds each queued file once, and while it holds any there are workers.
QueueInv ==
    /\ \A i \in 1..Len(queue) : future[queue[i]] = "queued"
    /\ \A f \in Files : future[f] = "queued" => \E i \in 1..Len(queue) : queue[i] = f
    /\ \A i, j \in 1..Len(queue) : queue[i] = queue[j] => i = j
    /\ queue # <<>> => size # 0

WorkersInv == Cardinality(Running) <= size /\ workers <= Workers /\ size <= Workers

\* The files before the slice are decided, those of the slice are submitted and decided in
\* their order, and those after it are untouched.  A lost file of the slice broke the pool.
FilesInv ==
    /\ \A f \in Files : future[f] # "none" =>
          Earlier(f) \/ (phase \in {"collect", "hung"} /\ f < FirstOf(slice + 1))
    /\ \A f \in Files : future[f] = "lost" /\ ~Earlier(f) => broken
    /\ phase # "hung" => \A f \in Files : Earlier(f) => Decided(f)
    /\ \A f \in Files : ~Earlier(f) /\ verdict[f] # "none" => phase \in {"collect", "hung"} /\ f < at
    /\ phase = "collect" => \A f \in Slice(slice) :
          future[f] # "none" /\ (f < at => Decided(f) \/ verdict[f] = "late")
    /\ phase \in {"finish", "done"} => ~MoreSlices
    /\ phase = "hung" => slow /\ (inProcess \/ broken)

JInv == QueueInv /\ WorkersInv /\ FilesInv

LEMMA RunningIs ==
    /\ Running \subseteq Files /\ IsFiniteSet(Running) /\ Cardinality(Running) \in Nat
    /\ \A R \in SUBSET Running : Cardinality(R) \in Nat /\ Cardinality(R) <= Cardinality(Running)
<1>1. Running \subseteq Files
  BY DEF Running
<1>2. IsFiniteSet(Files)
  BY FS_Interval, SizesAssumption DEF Files
<1>3. IsFiniteSet(Running) /\ Cardinality(Running) \in Nat
  BY <1>1, <1>2, FS_Subset, FS_CardinalityType
<1>4. ASSUME NEW R \in SUBSET Running PROVE Cardinality(R) \in Nat /\ Cardinality(R) <= Cardinality(Running)
  BY <1>3, FS_Subset, FS_CardinalityType
<1> QED
  BY <1>1, <1>3, <1>4

\* A step that leaves the futures alone.
LEMMA PoolKept ==
    ASSUME IInv, JInv, UNCHANGED <<queue, future, size>>, workers' \in Nat, workers' <= workers
    PROVE  QueueInv' /\ WorkersInv'
<1>1. QueueInv'
  BY DEF JInv, QueueInv
<1>2. Running' = Running
  BY DEF Running
<1>3. workers \in Nat /\ Workers \in Nat
  BY PoolAssumption DEF IInv, TypesInv
<1>4. WorkersInv'
  BY <1>2, <1>3 DEF JInv, WorkersInv
<1> QED
  BY <1>1, <1>4

\* A step that gives up an executor with nothing to do.
LEMMA PoolGone ==
    ASSUME IInv, JInv, \A f \in Files : ~Unfinished(f), UNCHANGED <<queue, future, workers>>, size' = 0
    PROVE  QueueInv' /\ WorkersInv'
<1>1. queue = <<>>
  <2>1. queue \in Seq(Files)
    BY DEF IInv, TypesInv
  <2>2. queue # <<>> => 1 \in 1..Len(queue) /\ queue[1] \in Files
    BY <2>1
  <2> QED
    BY <2>2 DEF JInv, QueueInv, Unfinished
<1>2. Running' = {}
  BY DEF Running, Unfinished
<1>3. Cardinality(Running') = 0
  BY <1>2, FS_EmptySet
<1>4. QueueInv'
  BY <1>1 DEF JInv, QueueInv
<1> QED
  BY <1>3, <1>4, PoolAssumption DEF JInv, WorkersInv

\* The file a worker takes was waiting.
LEMMA HeadQueued ==
    ASSUME IInv, JInv, StartParse
    PROVE  Head(queue) \in Files /\ future[Head(queue)] = "queued"
<1>1. queue \in Seq(Files) /\ queue # <<>>
  BY DEF StartParse, Startable, IInv, TypesInv
<1>2. 1 \in 1..Len(queue) /\ Head(queue) = queue[1]
  BY <1>1
<1> QED
  BY <1>1, <1>2 DEF JInv, QueueInv

LEMMA StartKeepsPool == ASSUME IInv, JInv, StartParse PROVE QueueInv' /\ WorkersInv'
<1> DEFINE h == Head(queue)
<1>1. /\ ~broken /\ queue # <<>> /\ Cardinality(Running) < size
      /\ future' = [future EXCEPT ![h] = "running"] /\ queue' = Tail(queue)
      /\ UNCHANGED <<workers, size>>
  BY DEF StartParse, Startable
<1>2. /\ queue \in Seq(Files) /\ h = queue[1] /\ h \in Files
      /\ 1 \in 1..Len(queue) /\ Len(queue') = Len(queue) - 1 /\ Len(queue) \in Nat
      /\ \A i \in 1..Len(queue') : i + 1 \in 1..Len(queue) /\ queue'[i] = queue[i + 1]
      /\ \A i \in 1..Len(queue) : i = 1 \/ (i - 1 \in 1..Len(queue') /\ queue'[i - 1] = queue[i])
      /\ \A i \in 1..Len(queue) : queue[i] \in Files
  BY <1>1 DEF IInv, TypesInv
<1> HIDE DEF h
<1>3. \A f \in Files : future'[f] = IF f = h THEN "running" ELSE future[f]
  BY <1>1, <1>2 DEF IInv, TypesInv
<1>4. QueueInv'
  <2>1. ASSUME NEW i \in 1..Len(queue') PROVE future'[queue'[i]] = "queued"
    <3>1. i + 1 \in 1..Len(queue) /\ i + 1 # 1 /\ queue'[i] = queue[i + 1] /\ queue[i + 1] \in Files
      BY <1>2
    <3>2. queue[i + 1] # h
      BY <1>2, <3>1 DEF JInv, QueueInv
    <3> QED
      BY <1>3, <3>1, <3>2 DEF JInv, QueueInv
  <2>2. ASSUME NEW f \in Files, future'[f] = "queued" PROVE \E i \in 1..Len(queue') : queue'[i] = f
    <3>1. future[f] = "queued" /\ f # h
      BY <1>3, <2>2
    <3>2. PICK i \in 1..Len(queue) : queue[i] = f
      BY <3>1 DEF JInv, QueueInv
    <3> QED
      BY <1>2, <3>1, <3>2
  <2>3. ASSUME NEW i \in 1..Len(queue'), NEW j \in 1..Len(queue'), queue'[i] = queue'[j] PROVE i = j
    <3>1. i + 1 \in 1..Len(queue) /\ j + 1 \in 1..Len(queue) /\ queue[i + 1] = queue[j + 1]
      BY <1>2, <2>3
    <3>2. i + 1 = j + 1
      BY <3>1 DEF JInv, QueueInv
    <3> QED
      BY <1>2, <3>2
  <2>4. size' # 0
    BY <1>1 DEF JInv, QueueInv
  <2> QED
    BY <2>1, <2>2, <2>3, <2>4 DEF QueueInv
<1>5. Running' = Running \cup {h}
  BY <1>2, <1>3 DEF Running
<1>6. Cardinality(Running') <= Cardinality(Running) + 1 /\ Cardinality(Running') \in Nat
  <2>1. IsFiniteSet(Running) /\ Cardinality(Running) \in Nat
    BY RunningIs
  <2>2. Cardinality(Running \cup {h}) = IF h \in Running THEN Cardinality(Running) ELSE Cardinality(Running) + 1
    BY <2>1, FS_AddElement
  <2> QED
    BY <1>5, <2>1, <2>2
<1>7. Cardinality(Running) \in Nat /\ size \in Nat
  BY RunningIs DEF IInv, TypesInv
<1>8. Cardinality(Running') <= size'
  BY <1>1, <1>6, <1>7
<1> QED
  BY <1>1, <1>4, <1>8 DEF JInv, WorkersInv

LEMMA EndKeepsPool == ASSUME IInv, JInv, NEW f \in Files, EndParse(f) PROVE QueueInv' /\ WorkersInv'
<1>1. /\ future[f] = "running" /\ future' = [future EXCEPT ![f] = "done"]
      /\ UNCHANGED <<workers, size, queue>>
  BY DEF EndParse
<1>2. \A g \in Files : future'[g] = IF g = f THEN "done" ELSE future[g]
  BY <1>1 DEF IInv, TypesInv
<1>3. \A i \in 1..Len(queue) : queue[i] \in Files /\ queue[i] # f
  BY <1>1 DEF JInv, QueueInv, IInv, TypesInv
<1>4. QueueInv'
  BY <1>1, <1>2, <1>3 DEF JInv, QueueInv
<1>5. Running' \in SUBSET Running
  BY <1>2 DEF Running
<1>6. Cardinality(Running') <= Cardinality(Running) /\ Cardinality(Running') \in Nat /\ Cardinality(Running) \in Nat
  BY <1>5, RunningIs
<1>7. size \in Nat /\ Cardinality(Running) <= size
  BY DEF IInv, TypesInv, JInv, WorkersInv
<1>8. Cardinality(Running') <= size'
  BY <1>1, <1>6, <1>7
<1> QED
  BY <1>1, <1>4, <1>8 DEF JInv, WorkersInv

LEMMA DeathKeepsPool == ASSUME IInv, JInv, WorkerDies PROVE QueueInv' /\ WorkersInv'
<1>1. /\ queue' = <<>> /\ UNCHANGED <<workers, size>>
      /\ future' = [f \in Files |-> IF f \in Running \cup Waiting THEN "lost" ELSE future[f]]
  BY DEF WorkerDies
<1>2. \A f \in Files : future'[f] # "queued" /\ future'[f] # "running"
  BY <1>1 DEF Running, Waiting
<1>3. Running' = {}
  BY <1>2 DEF Running
<1>4. Cardinality(Running') = 0 /\ size \in Nat
  BY <1>3, FS_EmptySet DEF IInv, TypesInv
<1>5. \A i \in 1..Len(queue') : FALSE
  BY <1>1
<1>6. QueueInv'
  BY <1>1, <1>2, <1>5 DEF QueueInv
<1> QED
  BY <1>1, <1>4, <1>6 DEF JInv, WorkersInv

LEMMA ConcatIs ==
    ASSUME NEW a \in Seq(Files), NEW b \in Seq(Files)
    PROVE  /\ Len(a \o b) = Len(a) + Len(b)
           /\ \A i \in 1..Len(a) : (a \o b)[i] = a[i]
           /\ \A i \in 1..Len(b) : (a \o b)[Len(a) + i] = b[i]
OBVIOUS

LEMMA SubmitKeepsPool == ASSUME IInv, JInv, Submit PROVE QueueInv' /\ WorkersInv'
<1> DEFINE m == Cardinality(Slice(slice))
           s == FirstOf(slice)
           more == [i \in 1..m |-> s + i - 1]
<1>1. /\ phase = "slice" /\ size' = (IF size = 0 THEN workers ELSE size)
      /\ queue' = queue \o more
      /\ future' = [f \in Files |-> IF f \in Slice(slice) THEN "queued" ELSE future[f]]
      /\ workers' = workers
  BY DEF Submit
<1>2. /\ m \in Nat /\ s \in Nat /\ Slice(slice) \subseteq Files /\ Files \subseteq Nat
      /\ \A i \in 1..m : s + i - 1 \in Slice(slice)
      /\ \A f \in Slice(slice) : f - s + 1 \in 1..m /\ s <= f
  BY SliceNumbered, SliceIs DEF IInv
<1>3. ASSUME NEW f \in Slice(slice) PROVE future[f] = "none"
  <2>1. f \in Nat /\ FirstOf(slice) \in Nat /\ FirstOf(slice) <= f
    BY <1>2
  <2>2. ~Earlier(f)
    BY <2>1 DEF Earlier
  <2> QED
    BY <1>1, <1>2, <2>2 DEF JInv, FilesInv
<1> HIDE DEF m, s
<1>4. /\ queue \in Seq(Files) /\ Len(queue) \in Nat
      /\ \A i \in 1..Len(queue) : queue[i] \in Files
  BY DEF IInv, TypesInv
<1>5. more \in Seq(Files) /\ Len(more) = m /\ \A i \in 1..m : more[i] = s + i - 1
  <2>1. \A i \in 1..m : s + i - 1 \in Files
    BY <1>2
  <2>2. more \in [1..m -> Files] /\ \A i \in 1..m : more[i] = s + i - 1
    BY <2>1
  <2> HIDE DEF more
  <2> QED
    BY <1>2, <2>2
<1> HIDE DEF more
<1>6. /\ Len(queue') = Len(queue) + m
      /\ \A i \in 1..Len(queue) : queue'[i] = queue[i]
      /\ \A i \in 1..m : queue'[Len(queue) + i] = s + i - 1
  <2>1. /\ Len(queue \o more) = Len(queue) + Len(more)
        /\ \A i \in 1..Len(queue) : (queue \o more)[i] = queue[i]
        /\ \A i \in 1..Len(more) : (queue \o more)[Len(queue) + i] = more[i]
    <3>1. queue \in Seq(Files) /\ more \in Seq(Files)
      BY <1>4, <1>5
    <3> QED
      BY <3>1, ConcatIs
  <2> QED
    BY <1>1, <1>5, <2>1
<1>7. \A i \in 1..Len(queue') : i \in 1..Len(queue) \/ (i - Len(queue) \in 1..m /\ i = Len(queue) + (i - Len(queue)))
  BY <1>2, <1>4, <1>6
<1>8. \A i \in 1..Len(queue) : queue[i] \in Files \ Slice(slice) /\ future[queue[i]] = "queued"
  BY <1>3, <1>4 DEF JInv, QueueInv
<1>9. QueueInv'
  <2>1. ASSUME NEW i \in 1..Len(queue') PROVE future'[queue'[i]] = "queued"
    <3>1. CASE i \in 1..Len(queue)
      <4>1. queue'[i] \in Files \ Slice(slice) /\ future[queue'[i]] = "queued"
        BY <1>6, <1>8, <3>1
      <4> QED
        BY <1>1, <4>1
    <3>2. CASE i \notin 1..Len(queue)
      <4>1. i - Len(queue) \in 1..m /\ i = Len(queue) + (i - Len(queue))
        BY <1>7, <3>2
      <4>2. queue'[i] = s + (i - Len(queue)) - 1
        BY <1>6, <4>1
      <4>3. queue'[i] \in Slice(slice)
        BY <1>2, <4>1, <4>2
      <4> QED
        BY <1>1, <1>2, <4>3
    <3> QED
      BY <3>1, <3>2
  <2>2. ASSUME NEW f \in Files, future'[f] = "queued" PROVE \E i \in 1..Len(queue') : queue'[i] = f
    <3>1. CASE f \in Slice(slice)
      <4>1. f - s + 1 \in 1..m /\ f \in Nat
        BY <1>2, <3>1
      <4>2. queue'[Len(queue) + (f - s + 1)] = s + (f - s + 1) - 1
        BY <1>6, <4>1
      <4>3. s + (f - s + 1) - 1 = f /\ Len(queue) + (f - s + 1) \in 1..Len(queue')
        BY <1>2, <1>4, <1>6, <4>1
      <4> QED
        BY <4>2, <4>3
    <3>2. CASE f \notin Slice(slice)
      <4>1. future[f] = "queued"
        BY <1>1, <2>2, <3>2
      <4>2. PICK i \in 1..Len(queue) : queue[i] = f
        BY <4>1 DEF JInv, QueueInv
      <4>3. i \in 1..Len(queue')
        BY <1>2, <1>4, <1>6
      <4> QED
        BY <1>6, <4>2, <4>3
    <3> QED
      BY <3>1, <3>2
  <2>3. ASSUME NEW i \in 1..Len(queue'), NEW j \in 1..Len(queue'), queue'[i] = queue'[j] PROVE i = j
    <3>1. CASE i \in 1..Len(queue) /\ j \in 1..Len(queue)
      BY <1>6, <2>3, <3>1 DEF JInv, QueueInv
    <3>2. CASE i \notin 1..Len(queue) /\ j \notin 1..Len(queue)
      <4>1. /\ i - Len(queue) \in 1..m /\ i = Len(queue) + (i - Len(queue))
            /\ j - Len(queue) \in 1..m /\ j = Len(queue) + (j - Len(queue))
        BY <1>7, <3>2
      <4>2. s + (i - Len(queue)) - 1 = s + (j - Len(queue)) - 1
        BY <1>6, <2>3, <4>1
      <4> QED
        BY <1>2, <1>4, <4>1, <4>2
    <3>3. ASSUME NEW k \in 1..Len(queue'), NEW l \in 1..Len(queue'), queue'[k] = queue'[l],
                 k \in 1..Len(queue), l \notin 1..Len(queue)
          PROVE  FALSE
      <4>1. queue'[k] \notin Slice(slice)
        BY <1>6, <1>8, <3>3
      <4>2. l - Len(queue) \in 1..m /\ l = Len(queue) + (l - Len(queue))
        BY <1>7, <3>3
      <4>3. queue'[l] \in Slice(slice)
        BY <1>2, <1>6, <4>2
      <4> QED
        BY <3>3, <4>1, <4>3
    <3> QED
      BY <2>3, <3>1, <3>2, <3>3
  <2>4. size' # 0
    BY <1>1 DEF IInv, TypesInv
  <2> QED
    BY <2>1, <2>2, <2>3, <2>4 DEF QueueInv
<1>10. \A f \in Files : future'[f] = "running" => future[f] = "running"
  BY <1>1
<1>11. Running' \in SUBSET Running
  BY <1>10 DEF Running
<1>12. Cardinality(Running') <= Cardinality(Running) /\ Cardinality(Running') \in Nat /\ Cardinality(Running) \in Nat
  BY <1>11, RunningIs
<1>13. size \in Nat /\ Cardinality(Running) <= size /\ workers \in Nat /\ workers <= Workers /\ size <= Workers
  BY DEF IInv, TypesInv, JInv, WorkersInv
<1> QED
  BY <1>1, <1>9, <1>12, <1>13 DEF WorkersInv

-----------------------------------------------------------------------------
\* What becomes of the files.

LEMMA PlacesOfFiles ==
    ASSUME TypesInv
    PROVE  /\ FirstOf(slice) \in Nat /\ FirstOf(slice + 1) \in Nat /\ FirstOf(slice) < FirstOf(slice + 1)
           /\ FirstOf(slice + 1) = FirstOf(slice) + SliceSize /\ SliceSize \in Nat
           /\ Files \subseteq Nat
           /\ Slice(slice) = {f \in Files : ~Earlier(f) /\ f < FirstOf(slice + 1)}
<1>1. slice \in Nat \ {0}
  BY DEF TypesInv
<1>2. FirstOf(slice) \in Nat \ {0} /\ FirstOf(slice + 1) = FirstOf(slice) + SliceSize
  BY <1>1, FirstIs
<1>3. SliceSize \in Nat \ {0} /\ Files \subseteq Nat
  BY SizesAssumption DEF Files
<1>4. \A f \in Files : ~(f < FirstOf(slice)) <=> FirstOf(slice) <= f
  BY <1>2, <1>3
<1>5. Slice(slice) = {f \in Files : ~Earlier(f) /\ f < FirstOf(slice + 1)}
  BY <1>4 DEF Slice, Earlier
<1> QED
  BY <1>2, <1>3, <1>5

\* Steps of the workers, and waiting.
LEMMA QuietFiles ==
    ASSUME FilesInv, UNCHANGED <<phase, slice, at, verdict, inProcess>>,
           slow => slow', broken => broken',
           \A f \in Files : /\ future'[f] = "none" <=> future[f] = "none"
                            /\ future'[f] = "lost" => future[f] = "lost" \/ broken'
    PROVE  FilesInv'
<1>1. /\ FirstOf(slice') = FirstOf(slice) /\ FirstOf(slice' + 1) = FirstOf(slice + 1)
      /\ Slice(slice') = Slice(slice)
  OBVIOUS
<1>2. \A f \in Files : future'[f] = "lost" /\ ~(f < FirstOf(slice')) => broken'
  BY <1>1 DEF FilesInv, Earlier
<1>3. phase' = "hung" => slow' /\ (inProcess' \/ broken')
  BY DEF FilesInv
<1>4. /\ \A f \in Files : future'[f] # "none" =>
            (f < FirstOf(slice')) \/ (phase' \in {"collect", "hung"} /\ f < FirstOf(slice' + 1))
      /\ phase' # "hung" => \A f \in Files : f < FirstOf(slice') => verdict'[f] \in {"worker", "parent", "timeout"}
      /\ \A f \in Files : ~(f < FirstOf(slice')) /\ verdict'[f] # "none" =>
            phase' \in {"collect", "hung"} /\ f < at'
  BY <1>1 DEF FilesInv, Earlier, Decided
<1>5. phase' = "collect" => \A f \in Slice(slice') :
         future'[f] # "none" /\ (f < at' => verdict'[f] \in {"worker", "parent", "timeout"} \/ verdict'[f] = "late")
  BY <1>1 DEF FilesInv, Decided, Slice
<1>6. phase' \in {"finish", "done"} => ~MoreSlices'
  BY DEF FilesInv, MoreSlices
<1> QED
  BY <1>2, <1>3, <1>4, <1>5, <1>6 DEF FilesInv, Earlier, Decided

\* Steps between slices.
LEMMA PhaseFiles ==
    ASSUME FilesInv, phase \notin {"collect", "hung"}, phase' \notin {"collect", "hung"},
           UNCHANGED <<slice, verdict, future>>, phase' \in {"finish", "done"} => ~MoreSlices
    PROVE  FilesInv'
BY DEF FilesInv, Earlier, Decided, MoreSlices

LEMMA InProcessFiles == ASSUME IInv, JInv, SliceInProcess PROVE FilesInv'
<1>1. /\ phase = "slice" /\ inProcess /\ slice' = slice + 1
      /\ \/ /\ verdict' = [f \in Files |-> IF f \in Slice(slice) THEN "parent" ELSE verdict[f]]
            /\ phase' = "govern"
         \/ phase' = "hung" /\ slow' = TRUE /\ verdict' = verdict
      /\ UNCHANGED <<at, inProcess, broken, future>>
  BY DEF SliceInProcess, ParseHere, poolVars
<1>2. /\ FirstOf(slice) \in Nat /\ FirstOf(slice') \in Nat /\ FirstOf(slice) < FirstOf(slice')
      /\ Slice(slice) = {f \in Files : ~Earlier(f) /\ f < FirstOf(slice')} /\ Files \subseteq Nat
  BY <1>1, PlacesOfFiles DEF IInv
<1>3. \A f \in Files : /\ Earlier(f) => f < FirstOf(slice')
                       /\ ~Earlier(f) => future[f] = "none" /\ verdict[f] = "none"
                       /\ Earlier(f) => Decided(f)
  BY <1>1, <1>2 DEF JInv, FilesInv, Earlier
<1>4. CASE phase' = "hung"
  BY <1>1, <1>2, <1>3, <1>4 DEF FilesInv, Earlier
<1>5. CASE phase' = "govern"
  <2>1. \A f \in Files : f < FirstOf(slice') => verdict'[f] \in {"worker", "parent", "timeout"}
    BY <1>1, <1>2, <1>3, <1>5 DEF Decided
  <2>2. \A f \in Files : ~(f < FirstOf(slice')) => verdict'[f] = "none" /\ future'[f] = "none"
    BY <1>1, <1>2, <1>3, <1>5
  <2> QED
    BY <1>5, <2>1, <2>2 DEF FilesInv, Earlier, Decided
<1> QED
  BY <1>1, <1>4, <1>5

LEMMA SubmitFiles == ASSUME IInv, JInv, Submit PROVE FilesInv'
<1>1. /\ phase = "slice" /\ phase' = "collect" /\ at' = FirstOf(slice)
      /\ future' = [f \in Files |-> IF f \in Slice(slice) THEN "queued" ELSE future[f]]
      /\ UNCHANGED <<slice, verdict, broken>>
  BY DEF Submit
<1>2. /\ Slice(slice) = {f \in Files : ~Earlier(f) /\ f < FirstOf(slice + 1)}
      /\ FirstOf(slice) \in Nat /\ Files \subseteq Nat
  BY PlacesOfFiles DEF IInv
<1>3. \A f \in Files : /\ ~Earlier(f) => future[f] = "none" /\ verdict[f] = "none"
                       /\ Earlier(f) => Decided(f)
  BY <1>1 DEF JInv, FilesInv
<1>4. \A f \in Slice(slice) : future'[f] = "queued" /\ ~(f < at')
  BY <1>1, <1>2 DEF Earlier
<1>5. \A f \in Files \ Slice(slice) : future'[f] = future[f]
  BY <1>1
<1>6. \A f \in Files : /\ future'[f] # "none" => Earlier(f) \/ f < FirstOf(slice + 1)
                       /\ future'[f] = "lost" => Earlier(f)
  BY <1>2, <1>3, <1>4, <1>5
<1> QED
  BY <1>1, <1>3, <1>4, <1>6 DEF FilesInv, Earlier, Decided

LEMMA CollectFiles == ASSUME IInv, JInv, Collect PROVE FilesInv'
<1>1. /\ phase = "collect" /\ at \in Slice(slice) /\ at' = at + 1
      /\ UNCHANGED <<slice, inProcess, broken, future>>
  BY DEF Collect, Collecting, poolVars
<1>2. /\ Slice(slice) = {f \in Files : ~Earlier(f) /\ f < FirstOf(slice + 1)}
      /\ Files \subseteq Nat /\ at \in Files /\ at \in Nat /\ ~Earlier(at)
  BY <1>1, PlacesOfFiles DEF IInv
<1>3. /\ \A f \in Files : f # at => verdict'[f] = verdict[f]
      /\ \/ verdict'[at] \in {"worker", "parent", "late"} /\ phase' = "collect"
         \/ future[at] = "lost" /\ phase' = "hung" /\ slow' = TRUE /\ verdict' = verdict
  <2>1. verdict \in [Files -> {"none", "worker", "parent", "late", "timeout"}]
    BY DEF IInv, TypesInv
  <2>2. CASE verdict' = [verdict EXCEPT ![at] = "worker"] /\ UNCHANGED <<phase, slow>>
    BY <1>1, <1>2, <2>1, <2>2
  <2>3. CASE verdict' = [verdict EXCEPT ![at] = "late"] /\ UNCHANGED <<phase, slow>>
    BY <1>1, <1>2, <2>1, <2>3
  <2>4. CASE verdict' = [f \in Files |-> IF f \in {at} THEN "parent" ELSE verdict[f]] /\ phase' = phase
    BY <1>1, <1>2, <2>1, <2>4
  <2>5. CASE future[at] = "lost" /\ phase' = "hung" /\ slow' = TRUE /\ UNCHANGED verdict
    BY <2>5
  <2> QED
    BY <2>2, <2>3, <2>4, <2>5 DEF Collect, ParseHere
<1>4. \A f \in Files : f < at' <=> f < at \/ f = at
  BY <1>1, <1>2
<1>5. /\ \A f \in Files : /\ future[f] # "none" => Earlier(f) \/ f < FirstOf(slice + 1)
                          /\ future[f] = "lost" /\ ~Earlier(f) => broken
                          /\ Earlier(f) => Decided(f)
                          /\ ~Earlier(f) /\ verdict[f] # "none" => f < at
      /\ \A f \in Slice(slice) : future[f] # "none" /\ (f < at => Decided(f) \/ verdict[f] = "late")
  BY <1>1 DEF JInv, FilesInv
<1>6. \A f \in Files : Earlier(f) => f # at
  BY <1>2
<1>7. CASE phase' = "hung"
  <2>1. broken /\ slow' /\ verdict' = verdict
    BY <1>2, <1>3, <1>5, <1>7
  <2> QED
    BY <1>1, <1>4, <1>5, <1>7, <2>1 DEF FilesInv, Earlier
<1>8. CASE phase' = "collect"
  <2>1. verdict'[at] \in {"worker", "parent", "late"}
    BY <1>3, <1>8
  <2>2. \A f \in Files : Earlier(f) => verdict'[f] = verdict[f]
    BY <1>3, <1>6
  <2>3. \A f \in Files : ~Earlier(f) /\ verdict'[f] # "none" => f < at'
    BY <1>3, <1>4, <1>5
  <2>4. \A f \in Slice(slice) : f < at' => verdict'[f] \in {"worker", "parent", "timeout", "late"}
    BY <1>2, <1>3, <1>4, <1>5, <2>1 DEF Decided
  <2> QED
    BY <1>1, <1>5, <1>8, <2>2, <2>3, <2>4 DEF FilesInv, Earlier, Decided
<1> QED
  BY <1>3, <1>7, <1>8

LEMMA SecondLookFiles == ASSUME IInv, JInv, SecondLook PROVE FilesInv'
<1>1. phase = "collect" /\ UNCHANGED <<slice, at, inProcess, broken, future>>
  BY SecondLookIs DEF poolVars
<1>2. PICK f \in Late :
        /\ \A g \in Files : g # f => verdict'[g] = verdict[g]
        /\ \/ verdict'[f] \in {"worker", "parent", "timeout"} /\ phase' = "collect"
           \/ /\ future[f] = "lost" /\ verdict' = verdict
              /\ phase' = "hung" /\ slow' = TRUE
  BY SecondLookIs
<1>3. f \in Files /\ ~Decided(f) /\ verdict[f] # "none"
  BY <1>2 DEF Late, Decided
<1>4. ~Earlier(f) /\ f < at
  BY <1>1, <1>3 DEF JInv, FilesInv
<1>5. CASE phase' = "collect"
  <2>1. \A g \in Files : /\ Decided(g) => verdict'[g] = verdict[g]
                         /\ verdict'[g] # "none" <=> verdict[g] # "none"
                         /\ verdict'[g] # verdict[g] => verdict'[g] \in {"worker", "parent", "timeout"}
    BY <1>2, <1>3, <1>5 DEF Decided
  <2>2. \A g \in Files : Earlier(g) => g # f
    BY <1>4
  <2>3. Slice(slice) \subseteq Files /\ Slice(slice') = Slice(slice)
    BY <1>1 DEF Slice
  <2>4. \A g \in Slice(slice) : g < at =>
           verdict'[g] \in {"worker", "parent", "timeout"} \/ verdict'[g] = "late"
    BY <1>1, <2>1, <2>3 DEF JInv, FilesInv, Decided
  <2>5. /\ \A g \in Files : Earlier(g) => verdict'[g] \in {"worker", "parent", "timeout"}
        /\ \A g \in Files : ~Earlier(g) /\ verdict'[g] # "none" => g < at
    BY <1>1, <2>1 DEF JInv, FilesInv, Decided
  <2> QED
    BY <1>1, <1>5, <2>3, <2>4, <2>5 DEF JInv, FilesInv, Earlier, Decided
<1>6. CASE phase' = "hung"
  <2>1. broken /\ slow' /\ verdict' = verdict
    BY <1>1, <1>2, <1>3, <1>4, <1>6 DEF JInv, FilesInv
  <2> QED
    BY <1>1, <1>6, <2>1 DEF JInv, FilesInv, Earlier
<1> QED
  BY <1>2, <1>5, <1>6

LEMMA SliceEndsFiles == ASSUME IInv, JInv, SliceEnds PROVE FilesInv'
<1>1. /\ phase = "collect" /\ at \notin Slice(slice) /\ slice' = slice + 1 /\ phase' = "govern"
      /\ Late = {}
      /\ UNCHANGED <<at, inProcess, broken, future, verdict>>
  BY DEF SliceEnds, poolVars, parentVars
<1>2. /\ FirstOf(slice) \in Nat /\ FirstOf(slice') \in Nat /\ FirstOf(slice) < FirstOf(slice')
      /\ FirstOf(slice') = FirstOf(slice) + SliceSize /\ SliceSize \in Nat
      /\ Slice(slice) = {f \in Files : ~Earlier(f) /\ f < FirstOf(slice')} /\ Files \subseteq Nat
  BY <1>1, PlacesOfFiles DEF IInv
<1>3. /\ \A f \in Files : /\ future[f] # "none" => Earlier(f) \/ f < FirstOf(slice')
                          /\ future[f] = "lost" /\ ~Earlier(f) => broken
                          /\ Earlier(f) => Decided(f)
                          /\ ~Earlier(f) /\ verdict[f] # "none" => f < at
      /\ \A f \in Slice(slice) : future[f] # "none" /\ (f < at => Decided(f) \/ verdict[f] = "late")
  BY <1>1 DEF JInv, FilesInv
<1>4. at \in Nat /\ FirstOf(slice) <= at /\ at <= FirstOf(slice) + SliceSize
  BY <1>1 DEF IInv, TypesInv, PoolInv
<1>5. \A f \in Slice(slice) : f < at
  <2> SUFFICES ASSUME NEW f \in Slice(slice), ~(f < at) PROVE FALSE
    OBVIOUS
  <2>1. f \in Nat /\ f \in Files /\ f < FirstOf(slice') /\ at <= f
    <3>1. f \in Nat /\ f \in Files /\ f < FirstOf(slice')
      BY <1>2
    <3> QED
      BY <1>4, <3>1
  <2>2. at \in Files
    <3>1. FirstOf(slice) # 0
      BY SliceIs DEF IInv
    <3>2. f <= NumFiles /\ NumFiles \in Nat
      BY <2>1, SizesAssumption DEF Files
    <3> QED
      BY <1>2, <1>4, <2>1, <3>1, <3>2 DEF Files
  <2>3. ~Earlier(at) /\ at < FirstOf(slice')
    BY <1>2, <1>4, <2>1 DEF Earlier
  <2> QED
    BY <1>1, <1>2, <2>2, <2>3
<1>6. \A f \in Files : f < FirstOf(slice') => Decided(f) \/ verdict[f] = "late"
  BY <1>2, <1>3, <1>5
<1>7. \A f \in Files : /\ Earlier(f) => f < FirstOf(slice')
                       /\ ~(f < FirstOf(slice')) => verdict[f] = "none" /\ future[f] = "none"
  <2>1. ASSUME NEW f \in Files, ~(f < FirstOf(slice')) PROVE verdict[f] = "none" /\ future[f] = "none" /\ ~Earlier(f)
    <3>1. f \in Nat /\ ~Earlier(f) /\ ~(f < at)
      BY <1>2, <1>4, <2>1 DEF Earlier
    <3> QED
      BY <1>3, <2>1, <3>1
  <2> QED
    BY <2>1
<1>8. \A f \in Files : f < FirstOf(slice') => Decided(f)
  BY <1>1, <1>6 DEF Late
<1> QED
  BY <1>1, <1>7, <1>8 DEF FilesInv, Earlier, Decided

LEMMA FilesStep == ASSUME IInv, JInv, Next PROVE FilesInv'
<1>0. FilesInv /\ future \in [Files -> {"none", "queued", "running", "done", "lost"}]
  BY DEF JInv, IInv, TypesInv
<1>1. CASE StartParse
  <2>1. Head(queue) \in Files /\ future[Head(queue)] = "queued"
    BY <1>1, HeadQueued
  <2>2. /\ future' = [future EXCEPT ![Head(queue)] = "running"]
        /\ UNCHANGED <<phase, slice, at, verdict, broken, inProcess>>
    BY <1>1 DEF StartParse, parentVars
  <2>3. slow => slow'
    <3>1. PICK d \in Durations \cup {Never} : slow' = (slow \/ d \notin 1..Limit)
      BY <1>1 DEF StartParse
    <3> QED
      BY <3>1, Zenon
  <2> QED
    BY <1>0, <2>1, <2>2, <2>3, QuietFiles
<1>2. CASE \E f \in Files : EndParse(f)
  <2>1. PICK f \in Files : EndParse(f)
    BY <1>2
  <2> QED
    BY <1>0, <2>1, QuietFiles DEF EndParse, parentVars
<1>3. CASE WorkerDies
  <2>1. /\ broken' = TRUE /\ UNCHANGED <<phase, slice, at, verdict, inProcess, slow>>
        /\ future' = [f \in Files |-> IF f \in Running \cup Waiting THEN "lost" ELSE future[f]]
    BY <1>3 DEF WorkerDies, parentVars
  <2>2. \A f \in Files : future'[f] = "none" <=> future[f] = "none"
    BY <2>1 DEF Running, Waiting
  <2> QED
    BY <1>0, <2>1, <2>2, QuietFiles
<1>4. CASE AwaitShutdown \/ Await
  BY <1>0, <1>4, QuietFiles DEF AwaitShutdown, Await, Progress
<1>5. CASE Govern \/ Shrink \/ Finish \/ SubmitRaises
  <2>1. /\ phase \notin {"collect", "hung"} /\ phase' \notin {"collect", "hung"}
        /\ UNCHANGED <<slice, verdict, future>>
    BY <1>5 DEF Govern, Shrink, Finish, SubmitRaises, Shutdown, parentVars, poolVars
  <2>2. phase' \in {"finish", "done"} => ~MoreSlices
    BY <1>0, <1>5 DEF Govern, Shrink, Finish, SubmitRaises, FilesInv
  <2> QED
    BY <1>0, <2>1, <2>2, PhaseFiles
<1> QED
  BY <1>1, <1>2, <1>3, <1>4, <1>5, InProcessFiles, SubmitFiles, CollectFiles, SecondLookFiles,
     SliceEndsFiles DEF Next, WorkerStep, ParentStep

LEMMA PoolStep == ASSUME IInv, JInv, Next PROVE QueueInv' /\ WorkersInv'
<1>1. workers \in Nat /\ queue \in Seq(Files)
  BY DEF IInv, TypesInv
<1>2. CASE Govern
  <2>1. workers' = workers \/ workers' = 1 \/ (workers > 2 /\ workers' = workers - 1)
    BY <1>2 DEF Govern
  <2>2. workers' \in Nat /\ workers' <= workers
    BY <1>1, <2>1 DEF IInv, TypesInv
  <2> QED
    BY <1>2, <2>2, PoolKept DEF Govern, poolVars
<1>3. CASE Shrink \/ Finish
  BY <1>3, PoolGone DEF Shrink, Finish, Shutdown, Busy, Running, Waiting, Unfinished
<1>4. CASE SubmitRaises
  BY <1>4, PoolGone DEF SubmitRaises, IInv, PoolInv
<1>5. CASE AwaitShutdown \/ SliceInProcess \/ Await \/ Collect \/ SecondLook \/ SliceEnds
  <2>1. UNCHANGED <<queue, future, size, workers>>
    BY <1>5 DEF AwaitShutdown, SliceInProcess, Await, Collect, SecondLook, SliceEnds, Progress, poolVars
  <2> QED
    BY <1>1, <2>1, PoolKept
<1> QED
  BY <1>2, <1>3, <1>4, <1>5, StartKeepsPool, EndKeepsPool, DeathKeepsPool, SubmitKeepsPool
     DEF Next, WorkerStep, ParentStep

LEMMA JInit == Init => JInv
<1> SUFFICES ASSUME Init PROVE JInv
  OBVIOUS
<1>1. /\ phase = "govern" /\ slice = 1 /\ workers = Workers /\ size = 0 /\ queue = <<>>
      /\ \A f \in Files : future[f] = "none" /\ verdict[f] = "none"
  BY DEF Init
<1>2. QueueInv
  <2>1. \A i \in 1..Len(queue) : FALSE
    BY <1>1
  <2> QED
    BY <1>1, <2>1 DEF QueueInv
<1>3. WorkersInv
  <2>1. Running = {}
    BY <1>1 DEF Running
  <2> QED
    BY <1>1, <2>1, FS_EmptySet, PoolAssumption DEF WorkersInv
<1>4. FilesInv
  <2>1. ASSUME NEW f \in Files PROVE ~Earlier(f)
    <3>1. FirstOf(slice) = 1
      BY <1>1, SizesAssumption DEF FirstOf
    <3> QED
      BY <3>1, SizesAssumption DEF Earlier, Files
  <2> QED
    BY <1>1, <2>1 DEF FilesInv
<1> QED
  BY <1>2, <1>3, <1>4 DEF JInv

\* Every file is queued, parsed and decided in its place.
THEOREM PlacesInvariant == Spec => []JInv
<1>1. (IInv /\ JInv) /\ [Next]_vars => JInv'
  <2> SUFFICES ASSUME IInv, JInv, [Next]_vars PROVE JInv'
    OBVIOUS
  <2>1. CASE Next
    BY <2>1, PoolStep, FilesStep DEF JInv
  <2>2. CASE UNCHANGED vars
    BY <2>2 DEF vars, JInv, QueueInv, WorkersInv, FilesInv, Running, Earlier, Decided, MoreSlices
  <2> QED
    BY <2>1, <2>2
<1> QED
  BY <1>1, JInit, InductiveInvariant, PTL DEF Spec

-----------------------------------------------------------------------------

\* Every variable of a parse keeps its type: no more parses run than the executor has workers,
\* it never has more than were first allowed, and its queue is the queued files, each once.
THEOREM TypeCorrect == Spec => []TypeOK
<1>1. IInv /\ JInv => TypeOK
  <2> SUFFICES ASSUME IInv, JInv PROVE TypeOK
    OBVIOUS
  <2>1. queue \in Seq(Files) /\ Len(queue) \in Nat /\ \A i \in 1..Len(queue) : queue[i] \in Files
    BY DEF IInv, TypesInv
  <2>2. Waiting = {queue[i] : i \in 1..Len(queue)}
    <3>1. ASSUME NEW f \in Waiting PROVE f \in {queue[i] : i \in 1..Len(queue)}
      BY DEF Waiting, JInv, QueueInv
    <3>2. ASSUME NEW i \in 1..Len(queue) PROVE queue[i] \in Waiting
      BY <2>1 DEF Waiting, JInv, QueueInv
    <3> QED
      BY <3>1, <3>2
  <2>3. Cardinality(Waiting) = Len(queue)
    <3>1. queue \in [1..Len(queue) -> Waiting]
      <4>1. queue \in [1..Len(queue) -> Files]
        BY <2>1
      <4> QED
        BY <2>2, <4>1
    <3>2. queue \in Bijection(1..Len(queue), Waiting)
      <4>1. \A i, j \in 1..Len(queue) : queue[i] = queue[j] => i = j
        BY DEF JInv, QueueInv
      <4>2. \A f \in Waiting : \E i \in 1..Len(queue) : queue[i] = f
        BY DEF Waiting, JInv, QueueInv
      <4> QED
        BY <3>1, <4>1, <4>2 DEF Bijection, Injection, Surjection, IsInjective
    <3>3. ExistsBijection(1..Len(queue), Waiting)
      BY <3>2 DEF ExistsBijection
    <3>4. IsFiniteSet(1..Len(queue)) /\ Cardinality(1..Len(queue)) = Len(queue)
      <4>1. /\ IsFiniteSet(1..Len(queue))
            /\ Cardinality(1..Len(queue)) = IF 1 > Len(queue) THEN 0 ELSE Len(queue) - 1 + 1
        BY <2>1, FS_Interval
      <4> QED
        BY <2>1, <4>1
    <3> QED
      BY <3>3, <3>4, FS_Bijection
  <2>4. workers \in 1..Workers /\ size \in 0..Workers /\ Cardinality(Running) <= size
    BY PoolAssumption DEF IInv, TypesInv, JInv, WorkersInv
  <2>5. {broken, inProcess, slow} \subseteq BOOLEAN
    BY DEF IInv, TypesInv
  <2> QED
    BY <2>2, <2>3, <2>4, <2>5 DEF IInv, TypesInv, TypeOK
<1> QED
  BY <1>1, InductiveInvariant, PlacesInvariant, PTL

\* What parse_files_parallel returns is complete: a finished run has decided every file.
THEOREM NoFileForgotten == Spec => []EveryFileDecided
<1>1. IInv /\ JInv => EveryFileDecided
  <2> SUFFICES ASSUME IInv, JInv, phase = "done", NEW f \in Files PROVE Decided(f)
    BY DEF EveryFileDecided
  <2>1. NumFiles < FirstOf(slice)
    <3>1. FirstOf(slice) \in Nat /\ NumFiles \in Nat
      BY SliceIs, SizesAssumption DEF IInv
    <3> QED
      BY <3>1 DEF JInv, FilesInv, MoreSlices
  <2>2. Earlier(f)
    BY <2>1, SliceIs, SizesAssumption DEF IInv, Files, Earlier
  <2> QED
    BY <2>2 DEF JInv, FilesInv
<1> QED
  BY <1>1, InductiveInvariant, PlacesInvariant, PTL

\* No one waits for nobody: while the pool holds a file a worker is parsing or can take one, and
\* the parent only waits for files that were submitted.
PoolServes ==
    /\ Busy => Running # {} \/ Startable
    /\ Collecting => future[at] # "none"

\* The pool and the parent always have something to wait for.
THEOREM NobodyWaitsInVain == Spec => []PoolServes
<1>1. IInv /\ JInv => PoolServes
  <2> SUFFICES ASSUME IInv, JInv PROVE PoolServes
    OBVIOUS
  <2>1. ASSUME Busy, Running = {} PROVE Startable
    <3>1. PICK f \in Files : future[f] = "queued"
      BY <2>1 DEF Busy, Waiting
    <3>2. PICK i \in 1..Len(queue) : queue[i] = f
      BY <3>1 DEF JInv, QueueInv
    <3>3. queue # <<>>
      BY <3>2 DEF IInv, TypesInv
    <3>4. ~broken
      BY <3>1 DEF IInv, PoolInv, Unfinished
    <3>5. Cardinality(Running) = 0
      BY <2>1, FS_EmptySet
    <3>6. size \in Nat /\ size # 0
      BY <3>3 DEF IInv, TypesInv, JInv, QueueInv
    <3> QED
      BY <3>3, <3>4, <3>5, <3>6 DEF Startable
  <2>2. Collecting => future[at] # "none"
    BY DEF Collecting, JInv, FilesInv
  <2> QED
    BY <2>1, <2>2 DEF PoolServes
<1> QED
  BY <1>1, InductiveInvariant, PlacesInvariant, PTL

\* The guards of the steps: a worker starts or ends a parse; the parent is between two slices,
\* in a shutdown with nothing to wait for or with a parse that runs on, or collecting.
CanMove ==
    \/ Startable \/ \E f \in Running : left[f] = 0
    \/ phase \in {"govern", "slice"}
    \/ phase \in {"shrink", "finish"} /\ (~Busy \/ \E f \in Running : left[f] > 0)
    \/ Collecting /\ future[at] # "none"
    \/ phase = "collect" /\ at \notin Slice(slice) /\ \A f \in Late : future[f] # "none"

\* A run that cannot go on has returned, or the parent is stuck in a slow file that it parses
\* itself, because a worker died or the governor gave up the pool, or it is in a shutdown of
\* the pool that waits for a stuck worker.
StopsAreKnown ==
    \/ CanMove
    \/ phase \in {"done", "serial"}
    \/ phase = "hung" /\ slow /\ (inProcess \/ broken)
    \/ phase \in {"shrink", "finish"} /\ \E f \in Running : left[f] = Never

\* There is no other way for a run to stop.
THEOREM RunStopsWhere == Spec => []StopsAreKnown
<1>1. IInv /\ JInv /\ PoolServes => StopsAreKnown
  <2> SUFFICES ASSUME IInv, JInv, PoolServes PROVE StopsAreKnown
    OBVIOUS
  <2>1. CASE phase \in {"shrink", "finish"}
    <3>1. ASSUME NEW f \in Running PROVE left[f] = Never \/ left[f] = 0 \/ left[f] > 0
      <4>1. left[f] \in Nat \cup {Never}
        BY DEF Running, IInv, TypesInv
      <4> QED
        BY <4>1
    <3>2. Busy => Running # {} \/ Startable
      BY DEF PoolServes
    <3> QED
      BY <2>1, <3>1, <3>2 DEF StopsAreKnown, CanMove
  <2>2. CASE phase = "collect"
    <3>1. CASE at \in Slice(slice)
      BY <2>2, <3>1 DEF PoolServes, Collecting, StopsAreKnown, CanMove
    <3>2. CASE at \notin Slice(slice)
      <4>1. \A f \in Late : future[f] # "none"
        BY DEF Late, IInv, PoolInv
      <4> QED
        BY <2>2, <3>2, <4>1 DEF StopsAreKnown, CanMove
    <3> QED
      BY <3>1, <3>2
  <2>3. CASE phase = "hung"
    BY <2>3 DEF JInv, FilesInv, StopsAreKnown
  <2>4. CASE phase \in {"govern", "slice", "done", "serial"}
    BY <2>4 DEF StopsAreKnown, CanMove
  <2> QED
    BY <2>1, <2>2, <2>3, <2>4 DEF IInv, TypesInv
<1> QED
  BY <1>1, InductiveInvariant, PlacesInvariant, NobodyWaitsInVain, PTL

\* No later step takes a result back or parses a file in the pool again.
THEOREM ResultsAreFinal == Spec => DecidedOnce
<1>1. IInv /\ JInv /\ [Next]_vars =>
        [\A f \in Files : /\ Decided(f) => verdict'[f] = verdict[f]
                          /\ future[f] \in {"done", "lost"} => future'[f] = future[f]
                          /\ future'[f] = "queued" => future[f] \in {"none", "queued"}]_vars
  <2> SUFFICES ASSUME IInv, JInv, Next, NEW f \in Files
               PROVE  /\ Decided(f) => verdict'[f] = verdict[f]
                      /\ future[f] \in {"done", "lost"} => future'[f] = future[f]
                      /\ future'[f] = "queued" => future[f] \in {"none", "queued"}
    OBVIOUS
  <2>1. ASSUME Decided(f) PROVE verdict'[f] = verdict[f]
    <3>1. CASE Collect
      <4>1. at \in Files /\ at \in Nat /\ ~Earlier(at)
        BY <3>1, PlacesOfFiles DEF Collect, Collecting, IInv
      <4>2. verdict[at] = "none"
        BY <4>1 DEF JInv, FilesInv
      <4>3. f # at
        BY <2>1, <4>2 DEF Decided
      <4> QED
        BY <3>1, <4>3 DEF Collect, ParseHere, IInv, TypesInv
    <3>2. CASE SliceInProcess
      <4>1. f \notin Slice(slice)
        <5>1. ASSUME f \in Slice(slice) PROVE FALSE
          <6>1. ~Earlier(f) /\ phase = "slice"
            BY <3>2, <5>1, PlacesOfFiles DEF SliceInProcess, IInv
          <6> QED
            BY <2>1, <6>1 DEF JInv, FilesInv, Decided
        <5> QED
          BY <5>1
      <4> QED
        BY <3>2, <4>1 DEF SliceInProcess, ParseHere
    <3>3. CASE SecondLook
      <4>1. f \notin Late
        BY <2>1 DEF Late, Decided
      <4> QED
        BY <3>3, <4>1, SecondLookIs
    <3>4. CASE ~SecondLook /\ ~Collect /\ ~SliceInProcess
      BY <3>4 DEF Next, WorkerStep, ParentStep, StartParse, EndParse, WorkerDies, Govern, Shrink,
                  Finish, AwaitShutdown, SubmitRaises, Submit, Await, SliceEnds, Progress, parentVars
    <3> QED
      BY <3>1, <3>2, <3>3, <3>4
  <2>2. /\ future[f] \in {"done", "lost"} => future'[f] = future[f]
        /\ future'[f] = "queued" => future[f] \in {"none", "queued"}
    <3>0. future \in [Files -> {"none", "queued", "running", "done", "lost"}]
      BY DEF IInv, TypesInv
    <3>1. CASE StartParse
      <4>1. Head(queue) \in Files /\ future[Head(queue)] = "queued"
        BY <3>1, HeadQueued
      <4>2. future' = [future EXCEPT ![Head(queue)] = "running"]
        BY <3>1 DEF StartParse
      <4> QED
        BY <3>0, <4>1, <4>2
    <3>2. CASE \E g \in Files : EndParse(g)
      BY <3>0, <3>2 DEF EndParse
    <3>3. CASE WorkerDies
      BY <3>0, <3>3 DEF WorkerDies, Running, Waiting
    <3>4. CASE Submit
      <4>1. f \in Slice(slice) => future[f] = "none"
        <5>1. ASSUME f \in Slice(slice) PROVE future[f] = "none"
          <6>1. ~Earlier(f) /\ phase = "slice"
            BY <3>4, <5>1, PlacesOfFiles DEF Submit, IInv
          <6> QED
            BY <6>1 DEF JInv, FilesInv
        <5> QED
          BY <5>1
      <4>2. future'[f] = IF f \in Slice(slice) THEN "queued" ELSE future[f]
        BY <3>4 DEF Submit
      <4> QED
        BY <3>0, <4>1, <4>2
    <3>5. CASE ParentStep /\ ~Submit
      <4>1. future' = future
        BY <3>5 DEF ParentStep, Govern, Shrink, Finish, AwaitShutdown, SliceInProcess, SubmitRaises,
                    Await, Collect, SecondLook, SliceEnds, Progress, Shutdown, poolVars
      <4> QED
        BY <3>0, <4>1
    <3> QED
      BY <3>1, <3>2, <3>3, <3>4, <3>5 DEF Next, WorkerStep
  <2> QED
    BY <2>1, <2>2
<1>2. Spec => [][\A f \in Files : /\ Decided(f) => verdict'[f] = verdict[f]
                                  /\ future[f] \in {"done", "lost"} => future'[f] = future[f]
                                  /\ future'[f] = "queued" => future[f] \in {"none", "queued"}]_vars
  BY <1>1, InductiveInvariant, PlacesInvariant, PTL DEF Spec
<1> QED
  BY <1>2 DEF DecidedOnce
=============================================================================
