------------------------------ MODULE ParsePool ------------------------------
(***************************************************************************)
(* parse_files_parallel (tcs/parallel_scanner.py): the files are parsed in *)
(* slices on one process pool, with a deadline per file, a second look at  *)
(* the files that missed theirs, a memory governor between slices that     *)
(* shrinks or gives up the pool, and the parent parsing what a dead worker *)
(* leaves.  The caller, TaintTracker, falls back to a serial parse if it   *)
(* raises.                                                                 *)
(*                                                                         *)
(* Time passes in ticks, only while the parent waits for the pool, and not *)
(* past an instant at which a worker has something to do: workers are as   *)
(* prompt as they can be.  The pool is FIFO and cancels nothing.           *)
(***************************************************************************)
EXTENDS Integers, Sequences, FiniteSets

CONSTANTS NumFiles,       \* files in discovery order are 1..NumFiles
          SliceSize,      \* BATCH_SIZE
          Workers,        \* what the governor first allows
          Limit,          \* PER_FILE_TIMEOUT_S, in ticks
          Factors,        \* what compute_adaptive_timeout multiplies it by
          Slack,          \* QUEUE_BUDGET_SLACK_S, in ticks
          Durations       \* ticks a parse may take, if it ends

ASSUME SizesAssumption == {NumFiles, SliceSize, Limit} \subseteq Nat \ {0} /\ NumFiles > SliceSize
ASSUME PoolAssumption == Workers \in Nat \ {0, 1}
ASSUME TimesAssumption == Slack \in Nat \ {0} /\ {Factors, Durations} \subseteq SUBSET (Nat \ {0})

VARIABLES phase,      \* where the parent is
          slice,      \* slice_idx + 1
          at,         \* the file whose result is being collected
          elapsed,    \* perf_counter() - _slice_t0
          limit,      \* per_file_timeout of the slice
          workers,    \* max_workers
          size,       \* worker processes of the executor, 0 if there is none
          broken,     \* whether its submit raises
          inProcess,
          queue,      \* submitted files no worker has taken, the executor's FIFO
          left,       \* ticks left of each running parse
          future,     \* the future of each file
          verdict,    \* where each file's result came from
          slow        \* history: some parse has taken longer than Limit

parentVars == <<at, elapsed, limit, verdict>>
poolVars == <<size, broken, queue, left, future>>
vars == <<phase, slice, at, elapsed, limit, workers, size, broken, inProcess,
          queue, left, future, verdict, slow>>

Files == 1..NumFiles
Never == -1

FirstOf(k) == (k - 1) * SliceSize + 1
Slice(k) == {f \in Files : FirstOf(k) <= f /\ f < FirstOf(k + 1)}

Running == {f \in Files : future[f] = "running"}
Waiting == {f \in Files : future[f] = "queued"}

TypeOK ==
    /\ phase \in {"govern", "shrink", "slice", "collect", "finish", "done", "serial", "hung"}
    /\ slice \in Nat /\ at \in Nat /\ elapsed \in Nat /\ limit \in Nat
    /\ workers \in 1..Workers /\ size \in 0..Workers
    /\ {broken, inProcess, slow} \subseteq BOOLEAN
    /\ queue \in Seq(Files)
    /\ left \in [Files -> Nat \cup {Never}]
    /\ future \in [Files -> {"none", "queued", "running", "done", "lost"}]
    /\ verdict \in [Files -> {"none", "worker", "parent", "late", "timeout"}]
    /\ Cardinality(Running) <= size
    /\ Waiting = {queue[i] : i \in 1..Len(queue)} /\ Cardinality(Waiting) = Len(queue)

Init ==
    /\ phase = "govern" /\ slice = 1
    /\ at = 1 /\ elapsed = 0 /\ limit = Limit
    /\ workers = Workers /\ size = 0 /\ broken = FALSE /\ inProcess = FALSE
    /\ queue = <<>>
    /\ left = [f \in Files |-> 0]
    /\ future = [f \in Files |-> "none"]
    /\ verdict = [f \in Files |-> "none"]
    /\ slow = FALSE

-----------------------------------------------------------------------------
(* The executor.                                                            *)

Startable == ~broken /\ queue # <<>> /\ Cardinality(Running) < size

StartParse ==
    /\ Startable
    /\ \E d \in Durations \cup {Never} :
         /\ left' = [left EXCEPT ![Head(queue)] = d]
         /\ slow' = (slow \/ d \notin 1..Limit)
    /\ future' = [future EXCEPT ![Head(queue)] = "running"]
    /\ queue' = Tail(queue)
    /\ UNCHANGED <<phase, slice, parentVars, workers, size, broken, inProcess>>

EndParse(f) ==
    /\ future[f] = "running" /\ left[f] = 0
    /\ future' = [future EXCEPT ![f] = "done"]
    /\ UNCHANGED <<phase, slice, parentVars, workers, size, broken, inProcess, queue, left, slow>>

\* One worker dies, and the executor fails every future that is not done and stops.
WorkerDies ==
    /\ Running # {}
    /\ broken' = TRUE
    /\ future' = [f \in Files |-> IF f \in Running \cup Waiting THEN "lost" ELSE future[f]]
    /\ left' = [f \in Files |-> 0]
    /\ queue' = <<>>
    /\ UNCHANGED <<phase, slice, parentVars, workers, size, inProcess, slow>>

Busy == Running \cup Waiting # {}

\* A tick: the parent waits, and no worker can start or end a parse.
Progress ==
    /\ ~Startable
    /\ \A f \in Running : left[f] # 0
    /\ left' = [f \in Files |-> IF f \in Running /\ left[f] > 0 THEN left[f] - 1 ELSE left[f]]
    /\ UNCHANGED <<phase, slice, at, limit, verdict, workers, size, broken, inProcess,
                   queue, future, slow>>

-----------------------------------------------------------------------------
(* The loop over the slices.                                                *)

MoreSlices == FirstOf(slice) <= NumFiles

Checked == size > 0 /\ slice > 1 /\ (slice - 1) % 2 = 0

\* The memory check, before every second slice.
Govern ==
    /\ phase = "govern"
    /\ \/ /\ MoreSlices                             \* enough memory, or no check due
          /\ phase' = "slice"
          /\ UNCHANGED <<workers, inProcess>>
       \/ /\ MoreSlices /\ Checked                  \* critical
          /\ phase' = "shrink" /\ inProcess' = TRUE /\ workers' = 1
       \/ /\ MoreSlices /\ Checked /\ workers > 2   \* pressure
          /\ phase' = "shrink" /\ workers' = workers - 1
          /\ UNCHANGED inProcess
       \/ /\ ~MoreSlices
          /\ phase' = "finish"
          /\ UNCHANGED <<workers, inProcess>>
    /\ UNCHANGED <<slice, parentVars, poolVars, slow>>

\* Mutant: the executor is left to end on its own.
ShutdownNoWait == size' = 0 /\ broken' = FALSE /\ UNCHANGED <<queue, left, future>>

\* shutdown(wait=True) returns once every submitted parse has ended.
Shutdown == ~Busy /\ size' = 0 /\ broken' = FALSE /\ UNCHANGED <<queue, left, future>>

Shrink ==
    /\ phase = "shrink" /\ Shutdown
    /\ phase' = "slice"
    /\ UNCHANGED <<slice, parentVars, workers, inProcess, slow>>

Finish ==
    /\ phase = "finish" /\ Shutdown
    /\ phase' = "done"
    /\ UNCHANGED <<slice, parentVars, workers, inProcess, slow>>

\* The shutdowns above while parses run on.
AwaitShutdown ==
    /\ phase \in {"shrink", "finish"} /\ Busy
    /\ Progress
    /\ UNCHANGED elapsed

\* The parent parses files itself, with no deadline: it returns, or is stuck in one.
ParseHere(fs, next) ==
    \/ /\ verdict' = [f \in Files |-> IF f \in fs THEN "parent" ELSE verdict[f]]
       /\ phase' = next
       /\ UNCHANGED slow
    \/ phase' = "hung" /\ slow' = TRUE /\ UNCHANGED verdict

SliceInProcess ==
    /\ phase = "slice" /\ inProcess
    /\ ParseHere(Slice(slice), "govern")
    /\ slice' = slice + 1
    /\ UNCHANGED <<at, elapsed, limit, workers, inProcess, poolVars>>

\* submit raises on a broken executor, out of the slice loop and its finally; the caller
\* then parses every file serially.
SubmitRaises ==
    /\ phase = "slice" /\ broken
    /\ phase' = "serial"
    /\ size' = 0
    /\ UNCHANGED <<slice, parentVars, workers, broken, inProcess, queue, left, future, slow>>

\* Mutant: a broken executor is not noticed.
SubmitAnyway ==
    /\ phase = "slice" /\ ~inProcess
    /\ size' = IF size = 0 THEN workers ELSE size
    /\ queue' = queue \o [i \in 1..Cardinality(Slice(slice)) |-> FirstOf(slice) + i - 1]
    /\ future' = [f \in Files |-> IF f \in Slice(slice) THEN "queued" ELSE future[f]]
    /\ \E factor \in Factors : limit' = factor * Limit
    /\ elapsed' = 0 /\ at' = FirstOf(slice)
    /\ phase' = "collect"
    /\ UNCHANGED <<slice, verdict, workers, broken, inProcess, left, slow>>

Submit ==
    /\ phase = "slice" /\ ~inProcess /\ ~broken
    /\ size' = IF size = 0 THEN workers ELSE size
    /\ queue' = queue \o [i \in 1..Cardinality(Slice(slice)) |-> FirstOf(slice) + i - 1]
    /\ future' = [f \in Files |-> IF f \in Slice(slice) THEN "queued" ELSE future[f]]
    /\ \E factor \in Factors : limit' = factor * Limit
    /\ elapsed' = 0 /\ at' = FirstOf(slice)
    /\ phase' = "collect"
    /\ UNCHANGED <<slice, verdict, workers, broken, inProcess, left, slow>>

-----------------------------------------------------------------------------
(* _parse_slice after the submissions.                                      *)

\* Mutant: the bare per-file limit, however many files are ahead in the queue.
BudgetBare == limit + Slack

\* Mutant: every wait is given its budget anew.
BudgetRestarted == elapsed + limit * (1 + (at - FirstOf(slice)) \div workers) + Slack

Budget == limit * (1 + (at - FirstOf(slice)) \div workers) + Slack

Collecting == phase = "collect" /\ at \in Slice(slice)

Await ==
    /\ Collecting
    /\ future[at] \in {"queued", "running"} /\ elapsed < Budget
    /\ Progress
    /\ elapsed' = elapsed + 1

Collect ==
    /\ Collecting
    /\ at' = at + 1
    /\ \/ /\ future[at] = "done"
          /\ verdict' = [verdict EXCEPT ![at] = "worker"]
          /\ UNCHANGED <<phase, slow>>
       \/ /\ future[at] \in {"queued", "running"} /\ elapsed >= Budget
          /\ verdict' = [verdict EXCEPT ![at] = "late"]
          /\ UNCHANGED <<phase, slow>>
       \/ /\ future[at] = "lost"
          /\ ParseHere({at}, phase)
    /\ UNCHANGED <<slice, elapsed, limit, workers, inProcess, poolVars>>

Late == {f \in Files : verdict[f] = "late"}

\* Mutant: the list of late files is kept from slice to slice.
SecondLookAgain ==
    /\ phase = "collect" /\ at \notin Slice(slice)
    /\ \E f \in Late \cup {g \in Files : verdict[g] = "timeout"} :
         \/ /\ future[f] = "done"
            /\ verdict' = [verdict EXCEPT ![f] = "worker"]
            /\ UNCHANGED <<phase, slow>>
         \/ /\ future[f] \in {"queued", "running"}
            /\ verdict' = [verdict EXCEPT ![f] = "timeout"]
            /\ UNCHANGED <<phase, slow>>
         \/ /\ future[f] = "lost"
            /\ ParseHere({f}, phase)
    /\ UNCHANGED <<slice, at, elapsed, limit, workers, inProcess, poolVars>>

\* Mutant: a late file that turns out lost gets no result.
SecondLookDrops ==
    /\ phase = "collect" /\ at \notin Slice(slice)
    /\ \E f \in Late :
         /\ \A g \in Late : f <= g
         /\ verdict' = [verdict EXCEPT ![f] = IF future[f] = "done" THEN "worker"
                                              ELSE IF future[f] = "lost" THEN "none" ELSE "timeout"]
    /\ UNCHANGED <<phase, slice, at, elapsed, limit, workers, inProcess, poolVars, slow>>

\* A file that was late is looked at once more, while the workers run on: a parse that has
\* ended by now counts, a lost one is repeated here, any other is skipped for good.
SecondLook ==
    /\ phase = "collect" /\ at \notin Slice(slice)
    /\ \E f \in Late :
         /\ \A g \in Late : f <= g
         /\ \/ /\ future[f] = "done"
               /\ verdict' = [verdict EXCEPT ![f] = "worker"]
               /\ UNCHANGED <<phase, slow>>
            \/ /\ future[f] \in {"queued", "running"}
               /\ verdict' = [verdict EXCEPT ![f] = "timeout"]
               /\ UNCHANGED <<phase, slow>>
            \/ /\ future[f] = "lost"
               /\ ParseHere({f}, phase)
    /\ UNCHANGED <<slice, at, elapsed, limit, workers, inProcess, poolVars>>

SliceEnds ==
    /\ phase = "collect" /\ at \notin Slice(slice) /\ Late = {}
    /\ phase' = "govern" /\ slice' = slice + 1
    /\ UNCHANGED <<parentVars, workers, inProcess, poolVars, slow>>

-----------------------------------------------------------------------------
WorkerStep == StartParse \/ \E f \in Files : EndParse(f)

ParentStep == \/ Govern \/ Shrink \/ Finish \/ AwaitShutdown \/ SliceInProcess
              \/ SubmitRaises \/ Submit \/ Await \/ Collect \/ SecondLook \/ SliceEnds

Next == WorkerStep \/ WorkerDies \/ ParentStep

Spec == Init /\ [][Next]_vars

\* The parent runs, the workers run, and time passes.
FairSpec == Spec /\ WF_vars(WorkerStep) /\ WF_vars(ParentStep)

-----------------------------------------------------------------------------
(* Properties.                                                              *)

\* Waiting behind other files never counts against a file: as long as no parse takes more
\* than the per-file limit, none is skipped, whatever the queue, the governor and dying
\* workers do.
NoneSkippedForWaiting == ~slow => \A f \in Files : verdict[f] # "timeout"

Decided(f) == verdict[f] \in {"worker", "parent", "timeout"}

\* What parse_files_parallel returns is complete: when it is done every file has been parsed, by
\* a worker or by the parent, or is reported as a timeout, whatever workers died or hung, and
\* whenever: the results list of a slice has no hole.
EveryFileDecided == phase = "done" => \A f \in Files : Decided(f)

\* A result is final: whatever slices, second looks and dying workers follow, a file that has
\* been decided stays as it was (a parse that ends after its file was skipped changes nothing),
\* and a file goes through the pool once.
DecidedOnce ==
    [][\A f \in Files : /\ Decided(f) => verdict'[f] = verdict[f]
                        /\ future[f] \in {"done", "lost"} => future'[f] = future[f]
                        /\ future'[f] = "queued" => future[f] \in {"none", "queued"}]_vars

\* Stuck workers cost a slice at most the deadline of its last file, all of them together.
SliceIsBounded ==
    elapsed <= limit * (1 + (SliceSize - 1) \div workers) + Slack \/ phase # "collect"

\* The run ends, however long parses take and whichever workers die or get stuck, but for two
\* ways in which it cannot: the parent is stuck in a file that it parses itself, or a shutdown
\* of the pool waits for a worker that is stuck.
RunEnds ==
    <>(\/ phase \in {"done", "serial", "hung"}
       \/ phase \in {"shrink", "finish"} /\ \E f \in Running : left[f] = Never)

\* What _parse_slice says of its deadlines: a stuck worker runs into them, "a merely queued
\* file never does".
QueuedNeverTimesOut ==
    [][\A f \in Files : verdict'[f] = "timeout" /\ verdict[f] # "timeout"
                            => future[f] # "queued"]_vars
=============================================================================
