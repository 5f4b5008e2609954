--------------------------- MODULE WebhookDelivery ---------------------------
(***************************************************************************)
(* The bounded delivery queue of webhook_adapter.py with its worker        *)
(* threads, its shutdown sequence and the durable result sink of           *)
(* durable_delivery_sink.py.                                               *)
(*                                                                         *)
(* Threads: callers of WebhookDeliveryAdapter.deliver (one submission is   *)
(* one element of Tasks), the daemon workers of WebhookDeliveryService and *)
(* the callers of shutdown().  An action is a stretch of one thread with   *)
(* at most one access to shared state, or one critical section of `_lock`. *)
(* Time is abstract: a timed wait may end at any moment its code allows.   *)
(* A wait on the empty queue ends by its timeout only; a put that wakes it *)
(* is the same step as a get made later.                                   *)
(***************************************************************************)
EXTENDS Naturals, Sequences, SequencesExt, FiniteSets

CONSTANTS Tasks,        \* submissions: one (intent, destination) pair each
          Workers,      \* the worker threads (max_workers)
          Closers,      \* threads that call shutdown()
          QueueCap,     \* max_queue_size
          None          \* Python's None: the sentinel, and "no task in hand"

ASSUME TasksAssumption   == None \notin Tasks
ASSUME ThreadsAssumption == Workers # {} /\ IsFiniteSet(Workers)
ASSUME CapAssumption     == QueueCap \in Nat \ {0}

VARIABLES accepting,  \* _accepting_submissions (= ~_shutdown_initiated: one critical section sets both)
          event,      \* _shutdown_event.is_set()
          queue,      \* _queue: tasks and, at shutdown, sentinels
          pc,         \* each submission: not made, admitted, refused, or raised: see Deliver
          wpc,        \* each worker's place in _worker_loop
          wtask,      \* its local `task`
          cpc,        \* each closer's place in shutdown()
          drained,    \* local `item` of the closer that drains the queue
          posted,     \* sentinels that closer has tried to post
          sends,      \* history: calls of client.send for each submission
          results,    \* history: results put in the in-memory sink, per submission
          audit,      \* rows of delivery_audit_logs, per submission
          up          \* the process is running

adapterVars == <<accepting, pc>>
workerVars  == <<wpc, wtask>>
closerVars  == <<event, cpc, drained, posted>>
sinkVars    == <<results, audit>>
vars == <<adapterVars, queue, workerVars, closerVars, sends, sinkVars, up>>

Statuses == {"CLIENT_RESULT",      \* whatever WebhookClient.send returned
             "INTERNAL_ERROR",     \* send raised
             "SHUTDOWN_ABORTED", "QUEUE_OVERFLOW", "SSRF_BLOCKED", "PAYLOAD_TOO_LARGE"}

WorkerPlaces == {"poll",     \* in queue.get(timeout=0.2)
                 "empty",    \* get raised queue.Empty, event not looked at yet
                 "sending",  \* in client.send, or about to record what came of it
                 "persist",  \* recorded in memory, about to insert the audit row
                 "exited"}

CloserPlaces == {"idle", "draining", "aborting", "abort_persist",
                 "signal", "posting", "joining", "returned"}

TypeOK ==
    /\ accepting \in BOOLEAN /\ event \in BOOLEAN /\ up \in BOOLEAN
    /\ queue \in Seq(Tasks \cup {None})
    /\ Len(queue) <= QueueCap
    /\ pc \in [Tasks -> {"new", "admitted", "refused", "raised"}]
    /\ wpc \in [Workers -> WorkerPlaces]
    /\ wtask \in [Workers -> Tasks \cup {None}]
    /\ cpc \in [Closers -> CloserPlaces]
    /\ drained \in Tasks \cup {None}
    /\ posted \in Nat
    /\ sends \in [Tasks -> Nat]
    /\ results \in [Tasks -> Seq(Statuses)]
    /\ audit \in [Tasks -> Seq(Statuses)]

Init ==
    /\ accepting = TRUE /\ event = FALSE /\ up = TRUE
    /\ queue = <<>>
    /\ pc = [t \in Tasks |-> "new"]
    /\ wpc = [w \in Workers |-> "poll"]
    /\ wtask = [w \in Workers |-> None]
    /\ cpc = [c \in Closers |-> "idle"]
    /\ drained = None
    /\ posted = 0
    /\ sends = [t \in Tasks |-> 0]
    /\ results = [t \in Tasks |-> <<>>]
    /\ audit = [t \in Tasks |-> <<>>]

-----------------------------------------------------------------------------
(* DurableDeliveryResultSink.record: the in-memory sink first, then, in a   *)
(* session of its own, one audit row.  A database error rolls back, is      *)
(* logged and goes no further: `committed` says which of the two happened.  *)

RecordInMemory(t, status) == results' = [results EXCEPT ![t] = Append(@, status)]

PersistAudit(t, status, committed) ==
    audit' = IF committed THEN [audit EXCEPT ![t] = Append(@, status)] ELSE audit

-----------------------------------------------------------------------------
(* WebhookDeliveryAdapter.deliver and WebhookDeliveryService.enqueue.       *)

\* Mutant: the capacity test is off by one.
QueueFullLate == Len(queue) > QueueCap

\* queue.Queue.put_nowait, which raises queue.Full when the queue is at capacity.
QueueFull == Len(queue) >= QueueCap

\* Mutant: a refusal raises without leaving its result in the sink.
RefuseSilently(t, status) ==
    /\ pc' = [pc EXCEPT ![t] = "refused"]
    /\ UNCHANGED <<queue, sinkVars>>

\* A refusal leaves one result in the sink and raises one of the three exceptions that
\* deliver() names.
RefuseWith(t, status) ==
    /\ pc' = [pc EXCEPT ![t] = "refused"]
    /\ RecordInMemory(t, status)
    /\ \E committed \in BOOLEAN : PersistAudit(t, status, committed)
    /\ UNCHANGED queue

\* A destination of another organization, or a payload over the byte limit: deliver()
\* refuses before it touches the queue.
RejectInvalid(t) ==
    \E status \in {"SSRF_BLOCKED", "PAYLOAD_TOO_LARGE"} : RefuseWith(t, status)

\* Any other exception leaves deliver() before it has a task, and nothing is recorded: a
\* TypeError for arguments of another type, the ValueError of canonicalize_endpoint for a
\* URL whose port is no port, an error of the formatter other than PayloadTooLargeError.
RaiseUnrecorded(t) ==
    /\ pc' = [pc EXCEPT ![t] = "raised"]
    /\ UNCHANGED <<queue, sinkVars>>

\* Mutant: admission looks only at the shutdown event, which is set after the drain.
EnqueueUnlessEvent(t) ==
    IF event THEN RefuseWith(t, "SHUTDOWN_ABORTED")
    ELSE IF QueueFull THEN RefuseWith(t, "QUEUE_OVERFLOW")
    ELSE /\ queue' = Append(queue, t)
         /\ pc' = [pc EXCEPT ![t] = "admitted"]
         /\ UNCHANGED sinkVars

\* One critical section of `_lock`, the sink's record included.
Enqueue(t) ==
    IF ~accepting \/ event THEN RefuseWith(t, "SHUTDOWN_ABORTED")
    ELSE IF QueueFull THEN RefuseWith(t, "QUEUE_OVERFLOW")
    ELSE /\ queue' = Append(queue, t)
         /\ pc' = [pc EXCEPT ![t] = "admitted"]
         /\ UNCHANGED sinkVars

Deliver(t) ==
    /\ up
    /\ pc[t] = "new"
    /\ RaiseUnrecorded(t) \/ RejectInvalid(t) \/ Enqueue(t)
    /\ UNCHANGED <<accepting, workerVars, closerVars, sends, up>>

-----------------------------------------------------------------------------
(* WebhookDeliveryService._worker_loop and _execute_delivery.               *)

\* queue.get returns a task: client.send is called for it at once.
GetTask(w) ==
    /\ up
    /\ wpc[w] = "poll"
    /\ queue # <<>> /\ Head(queue) # None
    /\ queue' = Tail(queue)
    /\ wtask' = [wtask EXCEPT ![w] = Head(queue)]
    /\ wpc' = [wpc EXCEPT ![w] = "sending"]
    /\ sends' = [sends EXCEPT ![Head(queue)] = @ + 1]
    /\ UNCHANGED <<adapterVars, closerVars, sinkVars, up>>

GetSentinel(w) ==
    /\ up
    /\ wpc[w] = "poll"
    /\ queue # <<>> /\ Head(queue) = None
    /\ queue' = Tail(queue)
    /\ wpc' = [wpc EXCEPT ![w] = "exited"]
    /\ UNCHANGED <<adapterVars, wtask, closerVars, sends, sinkVars, up>>

\* get(timeout=0.2) raises queue.Empty ...
GetTimesOut(w) ==
    /\ up
    /\ wpc[w] = "poll"
    /\ queue = <<>>
    /\ wpc' = [wpc EXCEPT ![w] = "empty"]
    /\ UNCHANGED <<adapterVars, queue, wtask, closerVars, sends, sinkVars, up>>

\* Mutant: the worker relies on its sentinel alone.
CheckNothing(w) ==
    /\ up
    /\ wpc[w] = "empty"
    /\ wpc' = [wpc EXCEPT ![w] = "poll"]
    /\ UNCHANGED <<adapterVars, queue, wtask, closerVars, sends, sinkVars, up>>

\* ... and the handler then looks at the shutdown event.
CheckEvent(w) ==
    /\ up
    /\ wpc[w] = "empty"
    /\ wpc' = [wpc EXCEPT ![w] = IF event THEN "exited" ELSE "poll"]
    /\ UNCHANGED <<adapterVars, queue, wtask, closerVars, sends, sinkVars, up>>

\* Mutant: the handler of an exception in send only logs it.
SendEndsSilently(w) ==
    /\ up
    /\ wpc[w] = "sending"
    /\ \/ /\ RecordInMemory(wtask[w], "CLIENT_RESULT")
          /\ wpc' = [wpc EXCEPT ![w] = "persist"]
          /\ UNCHANGED wtask
       \/ /\ wpc' = [wpc EXCEPT ![w] = "poll"]
          /\ wtask' = [wtask EXCEPT ![w] = None]
          /\ UNCHANGED results
    /\ UNCHANGED <<adapterVars, queue, closerVars, sends, audit, up>>

\* client.send returns, or raises and the handler builds an INTERNAL_ERROR result;
\* either result goes to the in-memory sink.
SendEnds(w) ==
    /\ up
    /\ wpc[w] = "sending"
    /\ \E status \in {"CLIENT_RESULT", "INTERNAL_ERROR"} : RecordInMemory(wtask[w], status)
    /\ wpc' = [wpc EXCEPT ![w] = "persist"]
    /\ UNCHANGED <<adapterVars, queue, wtask, closerVars, sends, audit, up>>

\* Mutant: the row is built from the response that was hoped for, not from the result.
WorkerPersistsResponse(w) ==
    /\ up
    /\ wpc[w] = "persist"
    /\ \E committed \in BOOLEAN : PersistAudit(wtask[w], "CLIENT_RESULT", committed)
    /\ wpc' = [wpc EXCEPT ![w] = "poll"]
    /\ wtask' = [wtask EXCEPT ![w] = None]
    /\ UNCHANGED <<adapterVars, queue, closerVars, sends, results, up>>

\* The insert, committed or not, and the `finally` that ends the iteration.
WorkerPersists(w) ==
    /\ up
    /\ wpc[w] = "persist"
    /\ \E committed \in BOOLEAN :
           PersistAudit(wtask[w], Last(results[wtask[w]]), committed)
    /\ wpc' = [wpc EXCEPT ![w] = "poll"]
    /\ wtask' = [wtask EXCEPT ![w] = None]
    /\ UNCHANGED <<adapterVars, queue, closerVars, sends, results, up>>

-----------------------------------------------------------------------------
(* WebhookDeliveryService.shutdown.                                         *)

\* Mutant: the drain begins without closing admission.
BeginShutdownOpen(c) ==
    /\ up
    /\ cpc[c] = "idle"
    /\ cpc' = [cpc EXCEPT ![c] = "draining"]
    /\ UNCHANGED <<queue, adapterVars, workerVars, event, drained, posted, sends, sinkVars, up>>

\* The first caller closes admission and drains; any later one only joins.
BeginShutdown(c) ==
    /\ up
    /\ cpc[c] = "idle"
    /\ accepting' = FALSE
    /\ cpc' = [cpc EXCEPT ![c] = IF accepting THEN "draining" ELSE "joining"]
    /\ UNCHANGED <<queue, pc, workerVars, event, drained, posted, sends, sinkVars, up>>

\* Mutant: the drain looks at the head and leaves it for a worker to take.
DrainPeek(c) ==
    /\ up
    /\ cpc[c] = "draining"
    /\ queue # <<>>
    /\ drained' = Head(queue)
    /\ cpc' = [cpc EXCEPT ![c] = IF Head(queue) = None THEN "draining" ELSE "aborting"]
    /\ UNCHANGED <<adapterVars, queue, workerVars, event, posted, sends, sinkVars, up>>

\* Mutant: the drain throws tasks away like sentinels.
DrainAndForget(c) ==
    /\ up
    /\ cpc[c] = "draining"
    /\ queue # <<>>
    /\ queue' = Tail(queue)
    /\ UNCHANGED <<adapterVars, workerVars, event, cpc, drained, posted, sends, sinkVars, up>>

\* queue.get_nowait: each item is a task, or a sentinel to throw away.
DrainOne(c) ==
    /\ up
    /\ cpc[c] = "draining"
    /\ queue # <<>>
    /\ queue' = Tail(queue)
    /\ drained' = Head(queue)
    /\ cpc' = [cpc EXCEPT ![c] = IF Head(queue) = None THEN "draining" ELSE "aborting"]
    /\ UNCHANGED <<adapterVars, workerVars, event, posted, sends, sinkVars, up>>

AbortRecords(c) ==
    /\ up
    /\ cpc[c] = "aborting"
    /\ RecordInMemory(drained, "SHUTDOWN_ABORTED")
    /\ cpc' = [cpc EXCEPT ![c] = "abort_persist"]
    /\ UNCHANGED <<adapterVars, queue, workerVars, event, drained, posted, sends, audit, up>>

AbortPersists(c) ==
    /\ up
    /\ cpc[c] = "abort_persist"
    /\ \E committed \in BOOLEAN : PersistAudit(drained, "SHUTDOWN_ABORTED", committed)
    /\ drained' = None
    /\ cpc' = [cpc EXCEPT ![c] = "draining"]
    /\ UNCHANGED <<adapterVars, queue, workerVars, event, posted, sends, results, up>>

DrainDone(c) ==
    /\ up
    /\ cpc[c] = "draining"
    /\ queue = <<>>
    /\ cpc' = [cpc EXCEPT ![c] = "signal"]
    /\ UNCHANGED <<adapterVars, queue, workerVars, event, drained, posted, sends, sinkVars, up>>

SetEvent(c) ==
    /\ up
    /\ cpc[c] = "signal"
    /\ event' = TRUE
    /\ cpc' = [cpc EXCEPT ![c] = "posting"]
    /\ UNCHANGED <<adapterVars, queue, workerVars, drained, posted, sends, sinkVars, up>>

\* One put_nowait(None) per worker; a full queue drops the sentinel silently.
PostSentinel(c) ==
    /\ up
    /\ cpc[c] = "posting"
    /\ posted < Cardinality(Workers)
    /\ queue' = IF QueueFull THEN queue ELSE Append(queue, None)
    /\ posted' = posted + 1
    /\ UNCHANGED <<adapterVars, workerVars, event, cpc, drained, sends, sinkVars, up>>

PostDone(c) ==
    /\ up
    /\ cpc[c] = "posting"
    /\ posted = Cardinality(Workers)
    /\ cpc' = [cpc EXCEPT ![c] = "joining"]
    /\ UNCHANGED <<adapterVars, queue, workerVars, event, drained, posted, sends, sinkVars, up>>

\* The joins end when the workers have exited or the deadline has passed.
JoinEnds(c) ==
    /\ up
    /\ cpc[c] = "joining"
    /\ cpc' = [cpc EXCEPT ![c] = "returned"]
    /\ UNCHANGED <<adapterVars, queue, workerVars, event, drained, posted, sends, sinkVars, up>>

-----------------------------------------------------------------------------
\* The workers are daemon threads: they end with the process, wherever they are.
ProcessEnds ==
    /\ up
    /\ up' = FALSE
    /\ UNCHANGED <<adapterVars, queue, workerVars, closerVars, sends, sinkVars>>

WorkerStep(w) == \/ GetTask(w) \/ GetSentinel(w) \/ GetTimesOut(w) \/ CheckEvent(w)
                 \/ SendEnds(w) \/ WorkerPersists(w)

\* shutdown() after its first critical section.
CloserStep(c) == \/ DrainOne(c) \/ AbortRecords(c) \/ AbortPersists(c) \/ DrainDone(c)
                 \/ SetEvent(c) \/ PostSentinel(c) \/ PostDone(c) \/ JoinEnds(c)

Next == \/ \E t \in Tasks : Deliver(t)
        \/ \E w \in Workers : WorkerStep(w)
        \/ \E c \in Closers : BeginShutdown(c) \/ CloserStep(c)
        \/ ProcessEnds

Spec == Init /\ [][Next]_vars

\* A runnable thread is scheduled again, a get that can return returns, and send
\* ends (its socket timeouts bound it).  Nobody has to submit, shut down or crash.
Fairness == /\ \A w \in Workers : WF_vars(WorkerStep(w))
            /\ \A c \in Closers : WF_vars(CloserStep(c))

FairSpec == Spec /\ Fairness

-----------------------------------------------------------------------------
(* Properties.                                                              *)

InQueue(t) == \E i \in 1..Len(queue) : queue[i] = t

\* A worker has taken the task and not yet recorded its result.
InFlight(t) == \E w \in Workers : wtask[w] = t /\ wpc[w] = "sending"

\* The draining closer has taken the task and not yet recorded the abort.
BeingAborted(t) == drained = t /\ \E c \in Closers : cpc[c] = "aborting"

\* shutdown() promises to "mark SHUTDOWN_ABORTED exactly once"; the workers race it
\* for every queued task.  Whatever the interleaving, a submission that deliver() admits or
\* refuses gets exactly one result once no thread and no queue slot holds it, and none while
\* one does.  One that deliver() leaves with another exception has none: it is in no queue,
\* no hands and no audit trail, and its caller alone knows of it.
ExactlyOneResult ==
    \A t \in Tasks :
        Len(results[t]) = IF \/ pc[t] \in {"new", "raised"}
                             \/ InQueue(t) \/ InFlight(t) \/ BeingAborted(t)
                          THEN 0 ELSE 1

\* A webhook is handed to the client at most once by the service, never after its
\* abort was recorded, and a result that tells of a send had one.
SentOnceOrAborted ==
    \A t \in Tasks :
        /\ sends[t] <= 1
        /\ \A i \in 1..Len(results[t]) :
               sends[t] = IF results[t][i] \in {"CLIENT_RESULT", "INTERNAL_ERROR"} THEN 1 ELSE 0

\* Once the shutdown event is set, workers may exit on an empty queue or on a
\* sentinel: no task may be left behind or slip in for nobody to take.
NoTaskAfterEvent == event => \A t \in Tasks : ~InQueue(t)

\* The audit trail never claims what the service did not do: a row repeats the
\* result that was recorded for the submission, at most once, database errors or not.
AuditFaithful ==
    \A t \in Tasks : audit[t] # <<>> => audit[t] = results[t]

\* After shutdown() has closed admission nothing is admitted any more, and admission
\* never reopens.
NoLateAdmission ==
    [][~accepting => /\ ~accepting'
                     /\ \A t \in Tasks : pc'[t] = "admitted" => pc[t] = "admitted"]_vars

\* A worker gives up its task or leaves the loop only when its work is done: it never
\* exits, and never takes another task, with a result outstanding.
WorkersFinishTheirTask ==
    [][\A w \in Workers :
         (wtask[w] # None /\ (wtask'[w] # wtask[w] \/ wpc'[w] = "exited")) =>
             wtask'[w] = None /\ results[wtask[w]] # <<>>]_vars

\* Every admitted submission gets its result, unless the process ends first.
AdmittedIsResolved ==
    \A t \in Tasks : pc[t] = "admitted" ~> (results[t] # <<>> \/ ~up)

\* shutdown() stops all workers, also when the queue is too small for the sentinels.
WorkersStop ==
    (\E c \in Closers : cpc[c] # "idle") ~> ((\A w \in Workers : wpc[w] = "exited") \/ ~up)

-----------------------------------------------------------------------------
(* The contract this service implements.                                    *)

taskFate ==
    [t \in Tasks |->
        IF pc[t] = "new" THEN "new"
        ELSE IF pc[t] \in {"refused", "raised"} THEN "refused"
        ELSE IF results[t] = <<>> THEN (IF InFlight(t) THEN "underway" ELSE "accepted")
        ELSE IF sends[t] = 0 THEN "dropped" ELSE "settled"]

Contract == INSTANCE DeliveryContract WITH open <- accepting, fate <- taskFate

ImplementsContract == Contract!ContractSpec
=============================================================================
