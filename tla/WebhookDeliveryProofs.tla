------------------------ MODULE WebhookDeliveryProofs ------------------------
(***************************************************************************)
(* Proofs about WebhookDelivery for any number of submissions, workers and *)
(* closers and any queue capacity.                                         *)
(*                                                                         *)
(* ExactlyOneResult and its companions are not inductive: they do not say  *)
(* that a task is in one place at a time.  IInv does, place by place: a    *)
(* task is in at most one queue slot, in the hands of at most one worker   *)
(* or of the one closer that drains, and what was recorded and sent for it *)
(* is fixed by where it is.                                                *)
(*                                                                         *)
(* StopInv adds the order of shutdown()'s phases, on which it rests that   *)
(* no admitted task is left behind when the workers exit.                  *)
(***************************************************************************)
EXTENDS WebhookDelivery, TLAPS, SequenceTheorems

Fresh(t) == results[t] = <<>> /\ audit[t] = <<>>

Holding == {"sending", "persist"}

\* The first caller of shutdown(), until it only joins.
Active == {"draining", "aborting", "abort_persist", "signal", "posting"}

SendStatuses == {"CLIENT_RESULT", "INTERNAL_ERROR"}

\* A task is queued once, admitted, untouched, and in nobody's hands.
QueueInv ==
    /\ \A i, j \in 1..Len(queue) : queue[i] \in Tasks /\ queue[i] = queue[j] => i = j
    /\ \A i \in 1..Len(queue) : queue[i] \in Tasks =>
           /\ pc[queue[i]] = "admitted"
           /\ Fresh(queue[i])
           /\ sends[queue[i]] = 0
           /\ drained # queue[i]
           /\ \A w \in Workers : wtask[w] # queue[i]

\* A worker holds a task exactly while it sends or persists, and no two hold the same.
WorkerInv ==
    /\ \A w \in Workers : wtask[w] \in Tasks <=> wpc[w] \in Holding
    /\ \A w, v \in Workers : wtask[w] \in Tasks /\ wtask[w] = wtask[v] => w = v
    /\ \A w \in Workers : wtask[w] \in Tasks =>
           /\ drained # wtask[w]
           /\ pc[wtask[w]] = "admitted"
           /\ sends[wtask[w]] = 1
           /\ audit[wtask[w]] = <<>>
           /\ wpc[w] = "sending" => results[wtask[w]] = <<>>
           /\ wpc[w] = "persist" => results[wtask[w]] # <<>>

\* At most one closer is past the first critical section and not yet joining.
CloserInv ==
    /\ \A c, d \in Closers : cpc[c] \in Active /\ cpc[d] \in Active => c = d
    /\ \A c \in Closers : cpc[c] \in Active => ~accepting
    /\ \A c \in Closers : cpc[c] \in {"aborting", "abort_persist"} => drained \in Tasks
    /\ drained \in Tasks => \E c \in Closers : cpc[c] \in {"aborting", "abort_persist"}
    /\ drained \in Tasks =>
           /\ pc[drained] = "admitted"
           /\ sends[drained] = 0
           /\ audit[drained] = <<>>
    /\ \A c \in Closers : cpc[c] = "aborting" => results[drained] = <<>>
    /\ \A c \in Closers : cpc[c] = "abort_persist" =>
           results[drained] # <<>> /\ results[drained][1] = "SHUTDOWN_ABORTED"

\* What the sinks hold for a task agrees with what was done to it.
ResultOf(t) ==
    /\ Len(results[t]) <= 1
    /\ pc[t] \in {"new", "raised"} => Fresh(t) /\ sends[t] = 0
    /\ pc[t] = "refused" => results[t] # <<>> /\ sends[t] = 0
    /\ sends[t] <= 1
    /\ results[t] # <<>> => (sends[t] = 1 <=> results[t][1] \in SendStatuses)
    /\ audit[t] # <<>> => audit[t] = results[t]

ResultInv == \A t \in Tasks : ResultOf(t)

\* An admitted task with no result is somewhere.
NothingLost ==
    \A t \in Tasks : pc[t] = "admitted" /\ results[t] = <<>> =>
        \/ InQueue(t)
        \/ \E w \in Workers : wtask[w] = t
        \/ drained = t

\* From the end of the drain on, no task is queued.
DrainedInv ==
    /\ event => ~accepting
    /\ (event \/ \E c \in Closers : cpc[c] \in {"signal", "posting"}) =>
           \A t \in Tasks : ~InQueue(t)

IInv == /\ TypeOK /\ QueueInv /\ WorkerInv /\ CloserInv
        /\ ResultInv /\ NothingLost /\ DrainedInv

-----------------------------------------------------------------------------
(* What the primitive steps do, stated once.                                *)

\* The in-memory sink gains exactly the new result of exactly that task.
LEMMA Recorded ==
  ASSUME TypeOK, NEW t \in Tasks, NEW status \in Statuses, RecordInMemory(t, status)
  PROVE  /\ results' \in [Tasks -> Seq(Statuses)]
         /\ \A u \in Tasks : u # t => results'[u] = results[u]
         /\ results'[t] # <<>>
         /\ results[t] = <<>> => results'[t] = <<status>>
<1>1. results \in [Tasks -> Seq(Statuses)] /\ results[t] \in Seq(Statuses)
  BY DEF TypeOK
<1>2. DEFINE longer == Append(results[t], status)
<1>3. longer \in Seq(Statuses) /\ Len(longer) = Len(results[t]) + 1 /\ longer # <<>>
  BY <1>1
<1>4. results[t] = <<>> => longer = <<status>>
  BY <1>1
<1>5. results' = [results EXCEPT ![t] = longer]
  BY DEF RecordInMemory
<1> HIDE DEF longer
<1> QED BY <1>1, <1>3, <1>4, <1>5

\* The audit trail gains at most that row.
LEMMA Persisted ==
  ASSUME TypeOK, NEW t \in Tasks, NEW status \in Statuses, NEW committed \in BOOLEAN,
         PersistAudit(t, status, committed)
  PROVE  /\ audit' \in [Tasks -> Seq(Statuses)]
         /\ \A u \in Tasks : u # t => audit'[u] = audit[u]
         /\ audit[t] = <<>> => audit'[t] = <<>> \/ audit'[t] = <<status>>
<1>1. audit \in [Tasks -> Seq(Statuses)] /\ audit[t] \in Seq(Statuses)
  BY DEF TypeOK
<1>2. CASE committed
  <2>1. DEFINE longer == Append(audit[t], status)
  <2>2. longer \in Seq(Statuses)
    BY <1>1
  <2>3. audit[t] = <<>> => longer = <<status>>
    BY <1>1
  <2>4. audit' = [audit EXCEPT ![t] = longer]
    BY <1>2 DEF PersistAudit
  <2> HIDE DEF longer
  <2> QED BY <1>1, <2>2, <2>3, <2>4
<1>3. CASE ~committed
  BY <1>1, <1>3 DEF PersistAudit
<1> QED BY <1>2, <1>3

\* queue.get and get_nowait: the rest of the queue moves up by one.
LEMMA Dequeued ==
  ASSUME TypeOK, queue # <<>>, queue' = Tail(queue)
  PROVE  /\ queue' \in Seq(Tasks \cup {None})
         /\ Len(queue') = Len(queue) - 1
         /\ Len(queue) \in Nat /\ Len(queue) > 0
         /\ \A i \in 1..Len(queue') : i + 1 \in 1..Len(queue) /\ queue'[i] = queue[i + 1]
         /\ Head(queue) = queue[1]
         /\ Head(queue) \in Tasks \cup {None}
         /\ Len(queue') <= QueueCap
<1>1. queue \in Seq(Tasks \cup {None}) /\ Len(queue) \in Nat /\ Len(queue) > 0
  BY DEF TypeOK
<1>2. Len(queue') = Len(queue) - 1 /\ queue' \in Seq(Tasks \cup {None})
  BY <1>1
<1>3. \A i \in 1..Len(queue') : i + 1 \in 1..Len(queue) /\ queue'[i] = queue[i + 1]
  BY <1>1, <1>2
<1>4. Head(queue) = queue[1] /\ Head(queue) \in Tasks \cup {None}
  BY <1>1
<1>5. Len(queue') <= QueueCap
  BY <1>1, <1>2, CapAssumption DEF TypeOK
<1> QED BY <1>1, <1>2, <1>3, <1>4, <1>5

\* put_nowait on a queue that is not full.
LEMMA Enqueued ==
  ASSUME TypeOK, NEW x \in Tasks \cup {None}, ~QueueFull, queue' = Append(queue, x)
  PROVE  /\ queue' \in Seq(Tasks \cup {None})
         /\ Len(queue) \in Nat
         /\ Len(queue') = Len(queue) + 1
         /\ \A i \in 1..Len(queue) : queue'[i] = queue[i]
         /\ queue'[Len(queue) + 1] = x
         /\ Len(queue') <= QueueCap
BY CapAssumption DEF TypeOK, QueueFull

\* What is true of a task stays true while nothing about it changes.
LEMMA ResultUnchanged ==
  ASSUME NEW t, ResultOf(t), results'[t] = results[t], audit'[t] = audit[t],
         pc'[t] = pc[t], sends'[t] = sends[t]
  PROVE  ResultOf(t)'
BY DEF ResultOf, Fresh

-----------------------------------------------------------------------------
(* Each action preserves IInv.                                              *)

LEMMA RefuseStep ==
  ASSUME IInv, NEW t \in Tasks, pc[t] = "new",
         NEW status \in Statuses \ SendStatuses, RefuseWith(t, status),
         UNCHANGED <<accepting, workerVars, closerVars, sends, up>>
  PROVE  IInv'
<1> USE DEF workerVars, closerVars
<1>1. RecordInMemory(t, status)
  BY DEF RefuseWith
<1>2. PICK committed \in BOOLEAN : PersistAudit(t, status, committed)
  BY DEF RefuseWith
<1>3. status \in Statuses /\ status \notin SendStatuses
  OBVIOUS
<1>4. Fresh(t) /\ sends[t] = 0
  BY DEF IInv, ResultInv, ResultOf
<1>5. /\ pc' = [pc EXCEPT ![t] = "refused"]
      /\ queue' = queue
  BY DEF RefuseWith
<1>6. TypeOK'
  BY <1>1, <1>2, <1>3, <1>5, Recorded, Persisted DEF IInv, TypeOK
<1>7. /\ \A u \in Tasks : u # t => results'[u] = results[u] /\ audit'[u] = audit[u]
      /\ results'[t] = <<status>>
      /\ audit'[t] = <<>> \/ audit'[t] = <<status>>
  BY <1>1, <1>2, <1>3, <1>4, Recorded, Persisted DEF IInv, Fresh
<1>8. Len(results'[t]) = 1 /\ results'[t][1] = status /\ results'[t] # <<>>
  BY <1>7
<1>9. pc'[t] = "refused" /\ \A u \in Tasks : u # t => pc'[u] = pc[u]
  BY <1>5 DEF IInv, TypeOK
<1>10. \A u \in Tasks : pc[u] = "admitted" => u # t
  OBVIOUS
<1>11. QueueInv'
  BY <1>5, <1>7, <1>9, <1>10 DEF IInv, QueueInv, Fresh
<1>12. WorkerInv'
  BY <1>7, <1>9, <1>10 DEF IInv, WorkerInv
<1>13. CloserInv'
  BY <1>7, <1>9, <1>10 DEF IInv, CloserInv
<1>14. ResultInv'
  <2> SUFFICES ASSUME NEW u \in Tasks PROVE ResultOf(u)'
    BY DEF ResultInv
  <2>1. CASE u = t
    <3>1. /\ sends'[u] = 0 /\ pc'[u] = "refused" /\ results'[u] # <<>>
          /\ Len(results'[u]) = 1 /\ results'[u][1] \notin SendStatuses
      BY <1>3, <1>4, <1>8, <1>9, <2>1
    <3>2. audit'[u] # <<>> => audit'[u] = results'[u]
      BY <1>7, <2>1
    <3> QED BY <3>1, <3>2 DEF ResultOf
  <2>2. CASE u # t
    <3>1. /\ results'[u] = results[u] /\ audit'[u] = audit[u] /\ pc'[u] = pc[u]
          /\ sends'[u] = sends[u]
      BY <1>7, <1>9, <2>2
    <3>2. ResultOf(u)
      BY DEF IInv, ResultInv
    <3> QED BY <3>1, <3>2, ResultUnchanged
  <2> QED BY <2>1, <2>2
<1>15. NothingLost'
  BY <1>5, <1>7, <1>9 DEF IInv, NothingLost, InQueue
<1>16. DrainedInv'
  BY <1>5 DEF IInv, DrainedInv, InQueue
<1> QED BY <1>6, <1>11, <1>12, <1>13, <1>14, <1>15, <1>16 DEF IInv

LEMMA RaiseStep ==
  ASSUME IInv, NEW t \in Tasks, pc[t] = "new", RaiseUnrecorded(t),
         UNCHANGED <<accepting, workerVars, closerVars, sends, up>>
  PROVE  IInv'
<1> USE DEF workerVars, closerVars, sinkVars
<1>1. /\ pc' = [pc EXCEPT ![t] = "raised"]
      /\ queue' = queue /\ results' = results /\ audit' = audit
  BY DEF RaiseUnrecorded
<1>2. pc'[t] = "raised" /\ \A u \in Tasks : u # t => pc'[u] = pc[u]
  BY <1>1 DEF IInv, TypeOK
<1>3. Fresh(t) /\ sends[t] = 0
  BY DEF IInv, ResultInv, ResultOf
<1>4. \A u \in Tasks : pc[u] = "admitted" => u # t
  OBVIOUS
<1>5. TypeOK'
  BY <1>1 DEF IInv, TypeOK
<1>6. QueueInv'
  BY <1>1, <1>2, <1>4 DEF IInv, QueueInv, Fresh
<1>7. WorkerInv'
  BY <1>1, <1>2, <1>4 DEF IInv, WorkerInv
<1>8. CloserInv'
  BY <1>1, <1>2, <1>4 DEF IInv, CloserInv
<1>9. ResultInv'
  BY <1>1, <1>2, <1>3 DEF IInv, ResultInv, ResultOf, Fresh
<1>10. NothingLost'
  BY <1>1, <1>2 DEF IInv, NothingLost, InQueue
<1>11. DrainedInv'
  BY <1>1 DEF IInv, DrainedInv, InQueue
<1> QED BY <1>5, <1>6, <1>7, <1>8, <1>9, <1>10, <1>11 DEF IInv

LEMMA AdmitStep ==
  ASSUME IInv, NEW t \in Tasks, pc[t] = "new", accepting, ~event, ~QueueFull,
         queue' = Append(queue, t), pc' = [pc EXCEPT ![t] = "admitted"],
         UNCHANGED <<accepting, workerVars, closerVars, sends, up, sinkVars>>
  PROVE  IInv'
<1> USE DEF workerVars, closerVars, sinkVars
<1>1. /\ queue' \in Seq(Tasks \cup {None})
      /\ Len(queue) \in Nat
      /\ Len(queue') = Len(queue) + 1
      /\ \A i \in 1..Len(queue) : queue'[i] = queue[i]
      /\ queue'[Len(queue) + 1] = t
      /\ Len(queue') <= QueueCap
  BY Enqueued DEF IInv
<1>2. pc'[t] = "admitted" /\ \A u \in Tasks : u # t => pc'[u] = pc[u]
  BY DEF IInv, TypeOK
<1>3. Fresh(t) /\ sends[t] = 0
  BY DEF IInv, ResultInv, ResultOf
<1>4. /\ \A i \in 1..Len(queue) : queue[i] # t
      /\ \A w \in Workers : wtask[w] # t
      /\ drained # t
  BY DEF IInv, QueueInv, WorkerInv, CloserInv
<1>5. TypeOK'
  BY <1>1 DEF IInv, TypeOK
<1>6. QueueInv'
  BY <1>1, <1>2, <1>3, <1>4 DEF IInv, QueueInv, Fresh
<1>7. WorkerInv'
  BY <1>2, <1>4 DEF IInv, WorkerInv
<1>8. CloserInv'
  BY <1>2, <1>4 DEF IInv, CloserInv
<1>9. ResultInv'
  BY <1>2, <1>3 DEF IInv, ResultInv, ResultOf, Fresh
<1>10. \A u \in Tasks : InQueue(u) => InQueue(u)'
  BY <1>1 DEF InQueue
<1>11. InQueue(t)'
  BY <1>1 DEF InQueue
<1>12. NothingLost'
  BY <1>2, <1>10, <1>11 DEF IInv, NothingLost
<1>13. DrainedInv'
  BY DEF IInv, DrainedInv, CloserInv, Active
<1> QED BY <1>5, <1>6, <1>7, <1>8, <1>9, <1>12, <1>13 DEF IInv

LEMMA DeliverStep ==
  ASSUME IInv, NEW t \in Tasks, Deliver(t) PROVE IInv'
<1>1. /\ pc[t] = "new"
      /\ UNCHANGED <<accepting, workerVars, closerVars, sends, up>>
  BY DEF Deliver
<1>2. CASE RejectInvalid(t)
  <2>1. PICK status \in {"SSRF_BLOCKED", "PAYLOAD_TOO_LARGE"} : RefuseWith(t, status)
    BY <1>2 DEF RejectInvalid
  <2>2. status \in Statuses \ SendStatuses
    BY DEF Statuses, SendStatuses
  <2> QED BY <1>1, <2>1, <2>2, RefuseStep
<1>3. CASE Enqueue(t)
  <2>1. "SHUTDOWN_ABORTED" \in Statuses \ SendStatuses /\ "QUEUE_OVERFLOW" \in Statuses \ SendStatuses
    BY DEF Statuses, SendStatuses
  <2>2. CASE ~accepting \/ event
    BY <1>1, <1>3, <2>1, <2>2, RefuseStep DEF Enqueue
  <2>3. CASE ~(~accepting \/ event) /\ QueueFull
    BY <1>1, <1>3, <2>1, <2>3, RefuseStep DEF Enqueue
  <2>4. CASE ~(~accepting \/ event) /\ ~QueueFull
    <3>1. /\ queue' = Append(queue, t)
          /\ pc' = [pc EXCEPT ![t] = "admitted"]
          /\ UNCHANGED sinkVars
      BY <1>3, <2>4 DEF Enqueue
    <3> QED BY <1>1, <2>4, <3>1, AdmitStep
  <2> QED BY <2>2, <2>3, <2>4
<1>4. CASE RaiseUnrecorded(t)
  BY <1>1, <1>4, RaiseStep
<1> QED BY <1>2, <1>3, <1>4 DEF Deliver

\* Taking the head leaves the other tasks queued, once each.
LEMMA HeadTaken ==
  ASSUME IInv, queue # <<>>, queue' = Tail(queue)
  PROVE  /\ \A u \in Tasks : InQueue(u)' => InQueue(u) /\ u # Head(queue)
         /\ \A u \in Tasks : InQueue(u) => u = Head(queue) \/ InQueue(u)'
         /\ \A i, j \in 1..Len(queue') :
                queue'[i] \in Tasks /\ queue'[i] = queue'[j] => i = j
         /\ Head(queue) \in Tasks => InQueue(Head(queue))
<1>1. /\ Len(queue') = Len(queue) - 1
      /\ Len(queue) \in Nat /\ Len(queue) > 0
      /\ \A i \in 1..Len(queue') : i + 1 \in 1..Len(queue) /\ queue'[i] = queue[i + 1]
      /\ Head(queue) = queue[1]
  BY Dequeued DEF IInv
<1>2. ASSUME NEW u \in Tasks, InQueue(u)' PROVE InQueue(u) /\ u # Head(queue)
  <2>1. PICK i \in 1..Len(queue') : queue'[i] = u
    BY <1>2 DEF InQueue
  <2>2. i + 1 \in 1..Len(queue) /\ queue[i + 1] = u /\ 1 \in 1..Len(queue) /\ i + 1 # 1
    BY <1>1, <2>1
  <2>3. queue[1] # u
    BY <2>2 DEF IInv, QueueInv
  <2> QED BY <1>1, <2>2, <2>3 DEF InQueue
<1>3. ASSUME NEW u \in Tasks, InQueue(u), u # Head(queue) PROVE InQueue(u)'
  <2>1. PICK i \in 1..Len(queue) : queue[i] = u
    BY <1>3 DEF InQueue
  <2>2. i # 1
    BY <1>1, <1>3, <2>1
  <2>3. i - 1 \in 1..Len(queue') /\ (i - 1) + 1 = i
    BY <1>1, <2>1, <2>2
  <2> QED BY <1>1, <2>1, <2>3 DEF InQueue
<1>4. ASSUME NEW i \in 1..Len(queue'), NEW j \in 1..Len(queue'),
             queue'[i] \in Tasks, queue'[i] = queue'[j]
      PROVE  i = j
  <2>1. i + 1 \in 1..Len(queue) /\ j + 1 \in 1..Len(queue) /\ queue[i + 1] = queue[j + 1]
        /\ queue[i + 1] \in Tasks
    BY <1>1, <1>4
  <2>2. i + 1 = j + 1
    BY <2>1 DEF IInv, QueueInv
  <2> QED BY <2>2
<1>5. Head(queue) \in Tasks => InQueue(Head(queue))
  <2>1. 1 \in 1..Len(queue)
    BY <1>1
  <2> QED BY <1>1, <2>1 DEF InQueue
<1> QED BY <1>2, <1>3, <1>4, <1>5

\* QueueInv, task by task.
LEMMA Queued ==
  ASSUME IInv, NEW t \in Tasks, InQueue(t)
  PROVE  /\ pc[t] = "admitted" /\ Fresh(t) /\ sends[t] = 0 /\ drained # t
         /\ \A w \in Workers : wtask[w] # t
BY DEF IInv, QueueInv, InQueue

\* The converse: the per-slot form of QueueInv from the per-task form.
LEMMA QueueInvFromTasks ==
  ASSUME \A i, j \in 1..Len(queue') : queue'[i] \in Tasks /\ queue'[i] = queue'[j] => i = j,
         \A t \in Tasks : InQueue(t)' =>
             /\ pc'[t] = "admitted" /\ Fresh(t)' /\ sends'[t] = 0 /\ drained' # t
             /\ \A w \in Workers : wtask'[w] # t
  PROVE  QueueInv'
BY DEF QueueInv, InQueue

LEMMA GetTaskStep ==
  ASSUME IInv, NEW w \in Workers, GetTask(w) PROVE IInv'
<1> DEFINE t == Head(queue)
<1> USE DEF adapterVars, closerVars, sinkVars
<1>1. /\ queue # <<>> /\ queue' = Tail(queue) /\ t # None
      /\ wpc[w] = "poll"
      /\ wtask' = [wtask EXCEPT ![w] = t]
      /\ wpc' = [wpc EXCEPT ![w] = "sending"]
      /\ sends' = [sends EXCEPT ![t] = @ + 1]
      /\ UNCHANGED <<adapterVars, closerVars, sinkVars, up>>
  BY DEF GetTask
<1>2. /\ queue' \in Seq(Tasks \cup {None})
      /\ t \in Tasks
      /\ Len(queue') <= QueueCap
  BY <1>1, Dequeued DEF IInv
<1>3. InQueue(t)
  BY <1>1, <1>2, HeadTaken
<1> HIDE DEF t
<1>4. pc[t] = "admitted" /\ Fresh(t) /\ sends[t] = 0 /\ drained # t /\ \A v \in Workers : wtask[v] # t
  BY <1>2, <1>3, Queued
<1>5. /\ wtask'[w] = t /\ wpc'[w] = "sending" /\ sends'[t] = 1
      /\ \A v \in Workers : v # w => wtask'[v] = wtask[v] /\ wpc'[v] = wpc[v]
      /\ \A u \in Tasks : u # t => sends'[u] = sends[u]
  BY <1>1, <1>2, <1>4 DEF IInv, TypeOK
<1>6. TypeOK'
  BY <1>1, <1>2 DEF IInv, TypeOK, WorkerPlaces
<1>7. QueueInv'
  <2>1. \A u \in Tasks : InQueue(u)' => InQueue(u) /\ u # t
    BY <1>1, HeadTaken DEF t
  <2>2. ASSUME NEW u \in Tasks, InQueue(u)'
        PROVE  /\ pc'[u] = "admitted" /\ Fresh(u)' /\ sends'[u] = 0 /\ drained' # u
               /\ \A v \in Workers : wtask'[v] # u
    BY <1>1, <1>5, <2>1, <2>2, Queued DEF Fresh
  <2> QED BY <1>1, <2>2, HeadTaken, QueueInvFromTasks
<1>8. WorkerInv'
  BY <1>1, <1>2, <1>4, <1>5 DEF IInv, WorkerInv, Fresh, Holding
<1>9. CloserInv'
  BY <1>1, <1>4, <1>5 DEF IInv, CloserInv
<1>10. ResultInv'
  <2> SUFFICES ASSUME NEW u \in Tasks PROVE ResultOf(u)'
    BY DEF ResultInv
  <2>1. ResultOf(u)
    BY DEF IInv, ResultInv
  <2>2. CASE u = t
    BY <1>1, <1>4, <1>5, <2>1, <2>2 DEF ResultOf, Fresh
  <2>3. CASE u # t
    BY <1>1, <1>5, <2>1, <2>3, ResultUnchanged
  <2> QED BY <2>2, <2>3
<1>11. NothingLost'
  <2>1. \A u \in Tasks : InQueue(u) => u = t \/ InQueue(u)'
    BY <1>1, HeadTaken DEF t
  <2>2. \A v \in Workers : wtask[v] \in Tasks => wtask'[v] = wtask[v]
    BY <1>1, <1>5, TasksAssumption DEF IInv, WorkerInv, Holding
  <2> QED BY <1>1, <1>5, <2>1, <2>2 DEF IInv, NothingLost
<1>12. DrainedInv'
  BY <1>1, HeadTaken DEF IInv, DrainedInv
<1> QED BY <1>6, <1>7, <1>8, <1>9, <1>10, <1>11, <1>12 DEF IInv

\* A worker that only moves in its loop, with no task in hand before or after.
LEMMA WorkerMoves ==
  ASSUME IInv, NEW w \in Workers, wpc[w] \notin Holding,
         NEW place \in WorkerPlaces \ Holding, wpc' = [wpc EXCEPT ![w] = place],
         UNCHANGED <<adapterVars, wtask, closerVars, sends, sinkVars, up>>,
         queue' = queue \/ (queue # <<>> /\ Head(queue) = None /\ queue' = Tail(queue))
  PROVE  IInv'
<1> USE DEF adapterVars, closerVars, sinkVars
<1>1. /\ queue' \in Seq(Tasks \cup {None})
      /\ Len(queue') <= QueueCap
  BY Dequeued DEF IInv, TypeOK
<1>2. \A u \in Tasks : InQueue(u)' <=> InQueue(u)
  <2>1. CASE queue' = queue
    BY <2>1 DEF InQueue
  <2>2. CASE queue # <<>> /\ Head(queue) = None /\ queue' = Tail(queue)
    BY <2>2, HeadTaken, TasksAssumption
  <2> QED BY <2>1, <2>2
<1>3. wpc'[w] = place /\ \A v \in Workers : v # w => wpc'[v] = wpc[v]
  BY DEF IInv, TypeOK
<1>4. TypeOK'
  BY <1>1 DEF IInv, TypeOK
<1>5. QueueInv'
  <2>1. \A i, j \in 1..Len(queue') : queue'[i] \in Tasks /\ queue'[i] = queue'[j] => i = j
    BY HeadTaken DEF IInv, QueueInv
  <2>2. ASSUME NEW u \in Tasks, InQueue(u)'
        PROVE  /\ pc'[u] = "admitted" /\ Fresh(u)' /\ sends'[u] = 0 /\ drained' # u
               /\ \A v \in Workers : wtask'[v] # u
    BY <1>2, <2>2, Queued DEF Fresh
  <2> QED BY <2>1, <2>2, QueueInvFromTasks
<1>6. WorkerInv'
  BY <1>3 DEF IInv, WorkerInv, Holding
<1>7. CloserInv'
  BY DEF IInv, CloserInv
<1>8. ResultInv'
  BY ResultUnchanged DEF IInv, ResultInv
<1>9. NothingLost'
  BY <1>2 DEF IInv, NothingLost
<1>10. DrainedInv'
  BY <1>2 DEF IInv, DrainedInv
<1> QED BY <1>4, <1>5, <1>6, <1>7, <1>8, <1>9, <1>10 DEF IInv

LEMMA SendEndsStep ==
  ASSUME IInv, NEW w \in Workers, SendEnds(w) PROVE IInv'
<1> DEFINE t == wtask[w]
<1> USE DEF adapterVars, closerVars
<1>1. PICK status \in SendStatuses : RecordInMemory(t, status)
  BY DEF SendEnds, SendStatuses
<1>2. /\ wpc[w] = "sending"
      /\ wpc' = [wpc EXCEPT ![w] = "persist"]
      /\ UNCHANGED <<adapterVars, queue, wtask, closerVars, sends, audit, up>>
  BY DEF SendEnds
<1>3. t \in Tasks /\ \A v \in Workers : v # w => wtask[v] # t
  BY <1>2 DEF IInv, WorkerInv, Holding
<1>4. /\ drained # t /\ pc[t] = "admitted" /\ sends[t] = 1 /\ audit[t] = <<>>
      /\ results[t] = <<>>
  BY <1>2, <1>3 DEF IInv, WorkerInv
<1>5. status \in Statuses
  BY DEF SendStatuses, Statuses
<1> HIDE DEF t
<1>6. /\ results' \in [Tasks -> Seq(Statuses)]
      /\ \A u \in Tasks : u # t => results'[u] = results[u]
      /\ results'[t] # <<>>
  BY <1>1, <1>3, <1>5, Recorded DEF IInv
<1>7. Len(results'[t]) = 1 /\ results'[t][1] = status
  <2>1. results'[t] = <<status>>
    BY <1>1, <1>3, <1>4, <1>5, Recorded DEF IInv
  <2> QED BY <2>1
<1>8. wpc'[w] = "persist" /\ \A v \in Workers : v # w => wpc'[v] = wpc[v]
  BY <1>2 DEF IInv, TypeOK
<1>9. TypeOK'
  BY <1>2, <1>6 DEF IInv, TypeOK, WorkerPlaces
<1>10. QueueInv'
  <2>1. ASSUME NEW u \in Tasks, InQueue(u)'
        PROVE  /\ pc'[u] = "admitted" /\ Fresh(u)' /\ sends'[u] = 0 /\ drained' # u
               /\ \A v \in Workers : wtask'[v] # u
    <3>1. InQueue(u)
      BY <1>2, <2>1 DEF InQueue
    <3>2. u # t
      BY <3>1, Queued DEF t
    <3> QED BY <1>2, <1>6, <3>1, <3>2, Queued DEF Fresh
  <2>2. \A i, j \in 1..Len(queue') : queue'[i] \in Tasks /\ queue'[i] = queue'[j] => i = j
    BY <1>2 DEF IInv, QueueInv
  <2> QED BY <2>1, <2>2, QueueInvFromTasks
<1>11. WorkerInv'
  <2>1. wtask[w] = t
    BY DEF t
  <2>2. ASSUME NEW v \in Workers, wtask'[v] \in Tasks
        PROVE  /\ drained' # wtask'[v]
               /\ pc'[wtask'[v]] = "admitted"
               /\ sends'[wtask'[v]] = 1
               /\ audit'[wtask'[v]] = <<>>
               /\ wpc'[v] = "sending" => results'[wtask'[v]] = <<>>
               /\ wpc'[v] = "persist" => results'[wtask'[v]] # <<>>
    <3>1. CASE v = w
      BY <1>2, <1>4, <1>6, <1>8, <2>1, <3>1
    <3>2. CASE v # w
      BY <1>2, <1>3, <1>6, <1>8, <2>2, <3>2 DEF IInv, WorkerInv
    <3> QED BY <3>1, <3>2
  <2>3. /\ \A v \in Workers : wtask'[v] \in Tasks <=> wpc'[v] \in Holding
        /\ \A v, x \in Workers : wtask'[v] \in Tasks /\ wtask'[v] = wtask'[x] => v = x
    BY <1>2, <1>8 DEF IInv, WorkerInv, Holding
  <2> QED BY <2>2, <2>3 DEF WorkerInv
<1>12. CloserInv'
  BY <1>2, <1>4, <1>6 DEF IInv, CloserInv
<1>13. ResultInv'
  <2> SUFFICES ASSUME NEW u \in Tasks PROVE ResultOf(u)'
    BY DEF ResultInv
  <2>1. ResultOf(u)
    BY DEF IInv, ResultInv
  <2>2. CASE u = t
    <3>1. audit'[u] = <<>> /\ pc'[u] = "admitted" /\ sends'[u] = 1 /\ status \in SendStatuses
      BY <1>1, <1>2, <1>4, <2>2
    <3>2. Len(results'[u]) = 1 /\ results'[u][1] \in SendStatuses
      BY <1>7, <2>2, <3>1
    <3>3. ~(audit'[u] # <<>>) /\ pc'[u] # "new" /\ pc'[u] # "refused"
      BY <3>1
    <3> QED BY <3>1, <3>2, <3>3 DEF ResultOf
  <2>3. CASE u # t
    BY <1>2, <1>6, <2>1, <2>3, ResultUnchanged
  <2> QED BY <2>2, <2>3
<1>14. NothingLost'
  <2>1. \A u \in Tasks : InQueue(u)' <=> InQueue(u)
    BY <1>2 DEF InQueue
  <2> QED BY <1>2, <1>6, <2>1 DEF IInv, NothingLost
<1>15. DrainedInv'
  BY <1>2 DEF IInv, DrainedInv, InQueue
<1> QED BY <1>9, <1>10, <1>11, <1>12, <1>13, <1>14, <1>15 DEF IInv

LEMMA WorkerPersistsStep ==
  ASSUME IInv, NEW w \in Workers, WorkerPersists(w) PROVE IInv'
<1> DEFINE t == wtask[w]
<1> USE DEF adapterVars, closerVars
<1>1. PICK committed \in BOOLEAN : PersistAudit(t, Last(results[t]), committed)
  BY DEF WorkerPersists
<1>2. /\ wpc[w] = "persist"
      /\ wpc' = [wpc EXCEPT ![w] = "poll"]
      /\ wtask' = [wtask EXCEPT ![w] = None]
      /\ UNCHANGED <<adapterVars, queue, closerVars, sends, results, up>>
  BY DEF WorkerPersists
<1>3. t \in Tasks /\ \A v \in Workers : v # w => wtask[v] # t
  BY <1>2 DEF IInv, WorkerInv, Holding
<1>4. /\ drained # t /\ pc[t] = "admitted" /\ sends[t] = 1 /\ audit[t] = <<>>
      /\ results[t] # <<>>
  BY <1>2, <1>3 DEF IInv, WorkerInv
<1> HIDE DEF t
<1>5. results[t] \in Seq(Statuses) /\ Len(results[t]) <= 1
  BY <1>3 DEF IInv, TypeOK, ResultInv, ResultOf
<1>6. Last(results[t]) \in Statuses /\ results[t] = <<Last(results[t])>>
  BY <1>4, <1>5 DEF Last
<1>7. /\ audit' \in [Tasks -> Seq(Statuses)]
      /\ \A u \in Tasks : u # t => audit'[u] = audit[u]
      /\ audit'[t] = <<>> \/ audit'[t] = results[t]
  BY <1>1, <1>3, <1>4, <1>6, Persisted DEF IInv
<1>8. /\ wpc'[w] = "poll" /\ \A v \in Workers : v # w => wpc'[v] = wpc[v]
      /\ wtask'[w] = None /\ \A v \in Workers : v # w => wtask'[v] = wtask[v]
  BY <1>2 DEF IInv, TypeOK
<1>9. TypeOK'
  BY <1>2, <1>7 DEF IInv, TypeOK, WorkerPlaces
<1>10. QueueInv'
  <2>1. ASSUME NEW u \in Tasks, InQueue(u)'
        PROVE  /\ pc'[u] = "admitted" /\ Fresh(u)' /\ sends'[u] = 0 /\ drained' # u
               /\ \A v \in Workers : wtask'[v] # u
    <3>1. InQueue(u)
      BY <1>2, <2>1 DEF InQueue
    <3>2. u # t
      BY <3>1, Queued DEF t
    <3> QED BY <1>2, <1>7, <1>8, <3>1, <3>2, Queued, TasksAssumption DEF Fresh
  <2>2. \A i, j \in 1..Len(queue') : queue'[i] \in Tasks /\ queue'[i] = queue'[j] => i = j
    BY <1>2 DEF IInv, QueueInv
  <2> QED BY <2>1, <2>2, QueueInvFromTasks
<1>11. WorkerInv'
  <2>1. ASSUME NEW v \in Workers, wtask'[v] \in Tasks
        PROVE  v # w /\ wtask'[v] = wtask[v] /\ wpc'[v] = wpc[v] /\ wtask[v] # t
    BY <1>3, <1>8, <2>1, TasksAssumption
  <2>2. \A v \in Workers : wtask'[v] \in Tasks <=> wpc'[v] \in Holding
    BY <1>8, TasksAssumption DEF IInv, WorkerInv, Holding
  <2>3. \A v, x \in Workers : wtask'[v] \in Tasks /\ wtask'[v] = wtask'[x] => v = x
    BY <2>1 DEF IInv, WorkerInv
  <2>4. ASSUME NEW v \in Workers, wtask'[v] \in Tasks
        PROVE  /\ drained' # wtask'[v]
               /\ pc'[wtask'[v]] = "admitted"
               /\ sends'[wtask'[v]] = 1
               /\ audit'[wtask'[v]] = <<>>
               /\ wpc'[v] = "sending" => results'[wtask'[v]] = <<>>
               /\ wpc'[v] = "persist" => results'[wtask'[v]] # <<>>
    BY <1>2, <1>7, <2>1, <2>4 DEF IInv, WorkerInv
  <2> QED BY <2>2, <2>3, <2>4 DEF WorkerInv
<1>12. CloserInv'
  BY <1>2, <1>4, <1>7 DEF IInv, CloserInv
<1>13. ResultInv'
  <2> SUFFICES ASSUME NEW u \in Tasks PROVE ResultOf(u)'
    BY DEF ResultInv
  <2>1. ResultOf(u)
    BY DEF IInv, ResultInv
  <2>2. CASE u = t
    <3>1. audit'[u] # <<>> => audit'[u] = results'[u]
      BY <1>2, <1>7, <2>2
    <3>2. results'[u] = results[u] /\ pc'[u] = "admitted" /\ sends'[u] = sends[u]
      BY <1>2, <1>4, <2>2
    <3> QED BY <2>1, <3>1, <3>2 DEF ResultOf
  <2>3. CASE u # t
    BY <1>2, <1>7, <2>1, <2>3, ResultUnchanged
  <2> QED BY <2>2, <2>3
<1>14. NothingLost'
  <2>1. \A u \in Tasks : InQueue(u)' <=> InQueue(u)
    BY <1>2 DEF InQueue
  <2>2. \A u \in Tasks, v \in Workers : results[u] = <<>> /\ wtask[v] = u => wtask'[v] = u
    BY <1>4, <1>8 DEF t
  <2> QED BY <1>2, <2>1, <2>2 DEF IInv, NothingLost
<1>15. DrainedInv'
  BY <1>2 DEF IInv, DrainedInv, InQueue
<1> QED BY <1>9, <1>10, <1>11, <1>12, <1>13, <1>14, <1>15 DEF IInv

LEMMA WorkerStepStep ==
  ASSUME IInv, NEW w \in Workers, WorkerStep(w) PROVE IInv'
<1>1. CASE GetTask(w)
  BY <1>1, GetTaskStep
<1>2. CASE GetSentinel(w)
  <2>1. "exited" \in WorkerPlaces \ Holding /\ wpc[w] \notin Holding
    BY <1>2 DEF GetSentinel, WorkerPlaces, Holding
  <2> QED BY <1>2, <2>1, WorkerMoves DEF GetSentinel
<1>3. CASE GetTimesOut(w)
  <2>1. "empty" \in WorkerPlaces \ Holding /\ wpc[w] \notin Holding
    BY <1>3 DEF GetTimesOut, WorkerPlaces, Holding
  <2> QED BY <1>3, <2>1, WorkerMoves DEF GetTimesOut
<1>4. CASE CheckEvent(w)
  <2>1. /\ wpc[w] \notin Holding
        /\ (IF event THEN "exited" ELSE "poll") \in WorkerPlaces \ Holding
    BY <1>4 DEF CheckEvent, WorkerPlaces, Holding
  <2> QED BY <1>4, <2>1, WorkerMoves DEF CheckEvent
<1>5. CASE SendEnds(w)
  BY <1>5, SendEndsStep
<1>6. CASE WorkerPersists(w)
  BY <1>6, WorkerPersistsStep
<1> QED BY <1>1, <1>2, <1>3, <1>4, <1>5, <1>6 DEF WorkerStep

\* A closer that only moves in shutdown(), with no task in hand before or after.
LEMMA CloserMoves ==
  ASSUME IInv, NEW c \in Closers,
         NEW place \in CloserPlaces \ {"aborting", "abort_persist"},
         cpc[c] \notin {"aborting", "abort_persist"},
         cpc' = [cpc EXCEPT ![c] = place],
         place \in Active => ~accepting' /\ (cpc[c] \in Active \/ accepting),
         place \in {"signal", "posting"} => queue = <<>> \/ cpc[c] \in {"signal", "posting"},
         accepting' = accepting \/ ~accepting',
         event' = event \/ cpc[c] = "signal",
         event' \in BOOLEAN, accepting' \in BOOLEAN, posted' \in Nat,
         UNCHANGED <<pc, workerVars, drained, sends, sinkVars, up>>,
         queue' = queue
           \/ (~QueueFull /\ queue' = Append(queue, None))
           \/ (queue # <<>> /\ Head(queue) = None /\ queue' = Tail(queue))
  PROVE  IInv'
<1> USE DEF workerVars, sinkVars
<1>1. /\ queue' \in Seq(Tasks \cup {None})
      /\ Len(queue') <= QueueCap
  BY Dequeued, Enqueued DEF IInv, TypeOK
<1>2. \A u \in Tasks : InQueue(u)' <=> InQueue(u)
  <2>1. CASE queue' = queue
    BY <2>1 DEF InQueue
  <2>2. CASE queue # <<>> /\ Head(queue) = None /\ queue' = Tail(queue)
    BY <2>2, HeadTaken, TasksAssumption
  <2>3. CASE ~QueueFull /\ queue' = Append(queue, None)
    BY <2>3, Enqueued, TasksAssumption DEF InQueue, IInv
  <2> QED BY <2>1, <2>2, <2>3
<1>3. cpc'[c] = place /\ \A d \in Closers : d # c => cpc'[d] = cpc[d]
  BY DEF IInv, TypeOK
<1>4. TypeOK'
  BY <1>1 DEF IInv, TypeOK
<1>5. QueueInv'
  <2>1. \A i, j \in 1..Len(queue') : queue'[i] \in Tasks /\ queue'[i] = queue'[j] => i = j
    <3>1. CASE ~QueueFull /\ queue' = Append(queue, None)
      BY <3>1, Enqueued, TasksAssumption DEF IInv, QueueInv
    <3> QED BY <3>1, HeadTaken DEF IInv, QueueInv
  <2>2. ASSUME NEW u \in Tasks, InQueue(u)'
        PROVE  /\ pc'[u] = "admitted" /\ Fresh(u)' /\ sends'[u] = 0 /\ drained' # u
               /\ \A w \in Workers : wtask'[w] # u
    BY <1>2, <2>2, Queued DEF Fresh
  <2> QED BY <2>1, <2>2, QueueInvFromTasks
<1>6. WorkerInv'
  BY DEF IInv, WorkerInv
<1>7. CloserInv'
  <2>1. \A a, b \in Closers : cpc'[a] \in Active /\ cpc'[b] \in Active => a = b
    BY <1>3 DEF IInv, CloserInv
  <2>2. \A a \in Closers : cpc'[a] \in Active => ~accepting'
    BY <1>3 DEF IInv, CloserInv
  <2>3. \A a \in Closers : /\ cpc'[a] = "aborting" <=> cpc[a] = "aborting"
                           /\ cpc'[a] = "abort_persist" <=> cpc[a] = "abort_persist"
    BY <1>3
  <2> QED BY <2>1, <2>2, <2>3 DEF IInv, CloserInv
<1>8. ResultInv'
  BY ResultUnchanged DEF IInv, ResultInv
<1>9. NothingLost'
  BY <1>2 DEF IInv, NothingLost
<1>10. DrainedInv'
  <2>1. queue = <<>> => \A u \in Tasks : ~InQueue(u)
    BY DEF InQueue
  <2> QED BY <1>2, <1>3, <2>1 DEF IInv, DrainedInv, CloserInv, Active
<1> QED BY <1>4, <1>5, <1>6, <1>7, <1>8, <1>9, <1>10 DEF IInv

\* get_nowait hands a task to the one active closer.
LEMMA DrainTaskStep ==
  ASSUME IInv, NEW c \in Closers, DrainOne(c), Head(queue) # None PROVE IInv'
<1> DEFINE t == Head(queue)
<1> USE DEF adapterVars, workerVars, sinkVars
<1>1. /\ queue # <<>> /\ queue' = Tail(queue) /\ drained' = t
      /\ cpc[c] = "draining"
      /\ cpc' = [cpc EXCEPT ![c] = "aborting"]
      /\ UNCHANGED <<adapterVars, workerVars, event, posted, sends, sinkVars, up>>
  BY DEF DrainOne
<1>2. /\ queue' \in Seq(Tasks \cup {None})
      /\ t \in Tasks
      /\ Len(queue') <= QueueCap
  BY <1>1, Dequeued DEF IInv
<1>3. InQueue(t)
  BY <1>1, <1>2, HeadTaken
<1> HIDE DEF t
<1>4. pc[t] = "admitted" /\ Fresh(t) /\ sends[t] = 0 /\ \A v \in Workers : wtask[v] # t
  BY <1>2, <1>3, Queued
<1>5. /\ cpc'[c] = "aborting" /\ \A d \in Closers : d # c => cpc'[d] = cpc[d]
      /\ \A d \in Closers : d # c => cpc[d] \notin Active
      /\ drained \notin Tasks
  BY <1>1 DEF IInv, TypeOK, CloserInv, Active
<1>6. TypeOK'
  BY <1>1, <1>2 DEF IInv, TypeOK, CloserPlaces
<1>7. QueueInv'
  <2>1. \A u \in Tasks : InQueue(u)' => InQueue(u) /\ u # t
    BY <1>1, HeadTaken DEF t
  <2>2. ASSUME NEW u \in Tasks, InQueue(u)'
        PROVE  /\ pc'[u] = "admitted" /\ Fresh(u)' /\ sends'[u] = 0 /\ drained' # u
               /\ \A v \in Workers : wtask'[v] # u
    BY <1>1, <2>1, <2>2, Queued DEF Fresh
  <2> QED BY <1>1, <2>2, HeadTaken, QueueInvFromTasks
<1>8. WorkerInv'
  BY <1>1, <1>4 DEF IInv, WorkerInv
<1>9. CloserInv'
  BY <1>1, <1>2, <1>4, <1>5 DEF IInv, CloserInv, Active, Fresh
<1>10. ResultInv'
  BY <1>1, ResultUnchanged DEF IInv, ResultInv
<1>11. NothingLost'
  <2>1. \A u \in Tasks : InQueue(u) => u = t \/ InQueue(u)'
    BY <1>1, HeadTaken DEF t
  <2> QED BY <1>1, <1>5, <2>1 DEF IInv, NothingLost
<1>12. DrainedInv'
  BY <1>1, <1>5, HeadTaken DEF IInv, DrainedInv
<1> QED BY <1>6, <1>7, <1>8, <1>9, <1>10, <1>11, <1>12 DEF IInv

LEMMA AbortRecordsStep ==
  ASSUME IInv, NEW c \in Closers, AbortRecords(c) PROVE IInv'
<1> DEFINE t == drained
<1> USE DEF adapterVars, workerVars
<1>1. /\ cpc[c] = "aborting" /\ RecordInMemory(t, "SHUTDOWN_ABORTED")
      /\ cpc' = [cpc EXCEPT ![c] = "abort_persist"]
      /\ UNCHANGED <<adapterVars, queue, workerVars, event, drained, posted, sends, audit, up>>
  BY DEF AbortRecords
<1>2. /\ t \in Tasks /\ pc[t] = "admitted" /\ sends[t] = 0 /\ audit[t] = <<>>
      /\ results[t] = <<>>
  BY <1>1 DEF IInv, CloserInv
<1>3. "SHUTDOWN_ABORTED" \in Statuses /\ "SHUTDOWN_ABORTED" \notin SendStatuses
  BY DEF Statuses, SendStatuses
<1> HIDE DEF t
<1>4. /\ results' \in [Tasks -> Seq(Statuses)]
      /\ \A u \in Tasks : u # t => results'[u] = results[u]
      /\ results'[t] # <<>>
  BY <1>1, <1>2, <1>3, Recorded DEF IInv
<1>5. /\ Len(results'[t]) = 1 /\ results'[t][1] = "SHUTDOWN_ABORTED"
      /\ results'[t][1] \notin SendStatuses
  <2>1. results'[t] = <<"SHUTDOWN_ABORTED">>
    BY <1>1, <1>2, <1>3, Recorded DEF IInv
  <2> QED BY <1>3, <2>1
<1>6. /\ cpc'[c] = "abort_persist" /\ \A d \in Closers : d # c => cpc'[d] = cpc[d]
      /\ \A d \in Closers : d # c => cpc[d] \notin Active
  BY <1>1 DEF IInv, TypeOK, CloserInv, Active
<1>7. TypeOK'
  BY <1>1, <1>4 DEF IInv, TypeOK, CloserPlaces
<1>8. \A u \in Tasks : InQueue(u)' <=> InQueue(u)
  BY <1>1 DEF InQueue
<1>9. QueueInv'
  <2>1. ASSUME NEW u \in Tasks, InQueue(u)'
        PROVE  /\ pc'[u] = "admitted" /\ Fresh(u)' /\ sends'[u] = 0 /\ drained' # u
               /\ \A v \in Workers : wtask'[v] # u
    <3>1. u # t
      BY <1>8, <2>1, Queued DEF t
    <3> QED BY <1>1, <1>4, <1>8, <2>1, <3>1, Queued DEF Fresh
  <2>2. \A i, j \in 1..Len(queue') : queue'[i] \in Tasks /\ queue'[i] = queue'[j] => i = j
    BY <1>1 DEF IInv, QueueInv
  <2> QED BY <2>1, <2>2, QueueInvFromTasks
<1>10. WorkerInv'
  <2>1. \A v \in Workers : wtask[v] \in Tasks => wtask[v] # t
    BY DEF IInv, WorkerInv, t
  <2> QED BY <1>1, <1>4, <2>1 DEF IInv, WorkerInv
<1>11. CloserInv'
  <2>1. drained' = t
    BY <1>1 DEF t
  <2> QED BY <1>1, <1>2, <1>4, <1>5, <1>6, <2>1 DEF IInv, CloserInv, Active
<1>12. ResultInv'
  <2> SUFFICES ASSUME NEW u \in Tasks PROVE ResultOf(u)'
    BY DEF ResultInv
  <2>1. ResultOf(u)
    BY DEF IInv, ResultInv
  <2>2. CASE u = t
    <3>1. audit'[u] = <<>> /\ pc'[u] = "admitted" /\ sends'[u] = 0
      BY <1>1, <1>2, <2>2
    <3>2. Len(results'[u]) = 1 /\ results'[u][1] \notin SendStatuses
      BY <1>5, <2>2
    <3>3. ~(audit'[u] # <<>>) /\ pc'[u] # "new" /\ pc'[u] # "refused"
      BY <3>1
    <3> QED BY <3>1, <3>2, <3>3 DEF ResultOf
  <2>3. CASE u # t
    BY <1>1, <1>4, <2>1, <2>3, ResultUnchanged
  <2> QED BY <2>2, <2>3
<1>13. NothingLost'
  BY <1>1, <1>4, <1>8 DEF IInv, NothingLost
<1>14. DrainedInv'
  BY <1>1, <1>6, <1>8 DEF IInv, DrainedInv
<1> QED BY <1>7, <1>9, <1>10, <1>11, <1>12, <1>13, <1>14 DEF IInv

LEMMA AbortPersistsStep ==
  ASSUME IInv, NEW c \in Closers, AbortPersists(c) PROVE IInv'
<1> DEFINE t == drained
<1> USE DEF adapterVars, workerVars
<1>1. PICK committed \in BOOLEAN : PersistAudit(t, "SHUTDOWN_ABORTED", committed)
  BY DEF AbortPersists
<1>2. /\ cpc[c] = "abort_persist" /\ drained' = None
      /\ cpc' = [cpc EXCEPT ![c] = "draining"]
      /\ UNCHANGED <<adapterVars, queue, workerVars, event, posted, sends, results, up>>
  BY DEF AbortPersists
<1>3. /\ t \in Tasks /\ pc[t] = "admitted" /\ sends[t] = 0 /\ audit[t] = <<>>
      /\ results[t] # <<>> /\ results[t][1] = "SHUTDOWN_ABORTED"
  BY <1>2 DEF IInv, CloserInv
<1>4. "SHUTDOWN_ABORTED" \in Statuses
  BY DEF Statuses
<1>5. results[t] = <<"SHUTDOWN_ABORTED">>
  <2>1. results[t] \in Seq(Statuses) /\ Len(results[t]) <= 1
    BY <1>3 DEF IInv, TypeOK, ResultInv, ResultOf
  <2> QED BY <1>3, <2>1
<1> HIDE DEF t
<1>6. /\ audit' \in [Tasks -> Seq(Statuses)]
      /\ \A u \in Tasks : u # t => audit'[u] = audit[u]
      /\ audit'[t] = <<>> \/ audit'[t] = results[t]
  BY <1>1, <1>3, <1>4, <1>5, Persisted DEF IInv
<1>7. /\ cpc'[c] = "draining" /\ \A d \in Closers : d # c => cpc'[d] = cpc[d]
      /\ \A d \in Closers : d # c => cpc[d] \notin Active
  BY <1>2 DEF IInv, TypeOK, CloserInv, Active
<1>8. TypeOK'
  BY <1>2, <1>6 DEF IInv, TypeOK, CloserPlaces
<1>9. \A u \in Tasks : InQueue(u)' <=> InQueue(u)
  BY <1>2 DEF InQueue
<1>10. QueueInv'
  <2>1. ASSUME NEW u \in Tasks, InQueue(u)'
        PROVE  /\ pc'[u] = "admitted" /\ Fresh(u)' /\ sends'[u] = 0 /\ drained' # u
               /\ \A v \in Workers : wtask'[v] # u
    <3>1. u # t
      BY <1>9, <2>1, Queued DEF t
    <3> QED BY <1>2, <1>6, <1>9, <2>1, <3>1, Queued, TasksAssumption DEF Fresh
  <2>2. \A i, j \in 1..Len(queue') : queue'[i] \in Tasks /\ queue'[i] = queue'[j] => i = j
    BY <1>2 DEF IInv, QueueInv
  <2> QED BY <2>1, <2>2, QueueInvFromTasks
<1>11. WorkerInv'
  <2>1. \A v \in Workers : wtask[v] \in Tasks => wtask[v] # t
    BY DEF IInv, WorkerInv, t
  <2> QED BY <1>2, <1>6, <2>1, TasksAssumption DEF IInv, WorkerInv
<1>12. CloserInv'
  BY <1>2, <1>7, TasksAssumption DEF IInv, CloserInv, Active
<1>13. ResultInv'
  <2> SUFFICES ASSUME NEW u \in Tasks PROVE ResultOf(u)'
    BY DEF ResultInv
  <2>1. ResultOf(u)
    BY DEF IInv, ResultInv
  <2>2. CASE u = t
    <3>1. audit'[u] # <<>> => audit'[u] = results'[u]
      BY <1>2, <1>6, <2>2
    <3>2. results'[u] = results[u] /\ pc'[u] = "admitted" /\ sends'[u] = sends[u]
      BY <1>2, <1>3, <2>2
    <3> QED BY <2>1, <3>1, <3>2 DEF ResultOf
  <2>3. CASE u # t
    BY <1>2, <1>6, <2>1, <2>3, ResultUnchanged
  <2> QED BY <2>2, <2>3
<1>14. NothingLost'
  BY <1>2, <1>3, <1>9 DEF IInv, NothingLost, t
<1>15. DrainedInv'
  BY <1>2, <1>7, <1>9 DEF IInv, DrainedInv
<1> QED BY <1>8, <1>10, <1>11, <1>12, <1>13, <1>14, <1>15 DEF IInv

LEMMA BeginShutdownStep ==
  ASSUME IInv, NEW c \in Closers, BeginShutdown(c) PROVE IInv'
<1>1. DEFINE place == IF accepting THEN "draining" ELSE "joining"
<1>2. /\ place \in CloserPlaces \ {"aborting", "abort_persist", "signal", "posting"}
      /\ place \in Active => accepting
  BY DEF CloserPlaces, Active
<1>3. /\ cpc[c] \notin {"aborting", "abort_persist"}
      /\ cpc' = [cpc EXCEPT ![c] = place]
      /\ accepting' = FALSE
      /\ UNCHANGED <<queue, pc, workerVars, event, drained, posted, sends, sinkVars, up>>
  BY DEF BeginShutdown
<1>4. event \in BOOLEAN /\ posted \in Nat
  BY DEF IInv, TypeOK
<1> HIDE DEF place
<1> QED BY <1>2, <1>3, <1>4, CloserMoves

LEMMA CloserStepStep ==
  ASSUME IInv, NEW c \in Closers, CloserStep(c) PROVE IInv'
<1>0. event \in BOOLEAN /\ accepting \in BOOLEAN /\ posted \in Nat
  BY DEF IInv, TypeOK
<1> USE DEF CloserPlaces, Active, adapterVars
<1>1. CASE DrainOne(c)
  <2>1. CASE Head(queue) # None
    BY <1>1, <2>1, DrainTaskStep
  <2>2. CASE Head(queue) = None
    <3>1. drained = None /\ ~accepting
      BY <1>1 DEF DrainOne, IInv, TypeOK, CloserInv
    <3>2. cpc' = [cpc EXCEPT ![c] = "draining"] /\ UNCHANGED drained
      BY <1>1, <2>2, <3>1 DEF DrainOne
    <3> QED BY <1>0, <1>1, <2>2, <3>1, <3>2, CloserMoves DEF DrainOne
  <2> QED BY <2>1, <2>2
<1>2. CASE AbortRecords(c)
  BY <1>2, AbortRecordsStep
<1>3. CASE AbortPersists(c)
  BY <1>3, AbortPersistsStep
<1>4. CASE DrainDone(c)
  <2>1. ~accepting
    BY <1>4 DEF DrainDone, IInv, CloserInv
  <2> QED BY <1>0, <1>4, <2>1, CloserMoves DEF DrainDone
<1>5. CASE SetEvent(c)
  <2>1. ~accepting
    BY <1>5 DEF SetEvent, IInv, CloserInv
  <2> QED BY <1>0, <1>5, <2>1, CloserMoves DEF SetEvent
<1>6. CASE PostSentinel(c)
  <2>1. ~accepting /\ cpc[c] = "posting" /\ posted + 1 \in Nat
    BY <1>0, <1>6 DEF PostSentinel, IInv, CloserInv
  <2>2. cpc' = [cpc EXCEPT ![c] = "posting"]
    BY <1>6, <2>1 DEF PostSentinel, IInv, TypeOK
  <2> QED BY <1>0, <1>6, <2>1, <2>2, CloserMoves DEF PostSentinel
<1>7. CASE PostDone(c)
  BY <1>0, <1>7, CloserMoves DEF PostDone
<1>8. CASE JoinEnds(c)
  BY <1>0, <1>8, CloserMoves DEF JoinEnds
<1> QED BY <1>1, <1>2, <1>3, <1>4, <1>5, <1>6, <1>7, <1>8 DEF CloserStep

LEMMA ProcessEndsStep ==
  ASSUME IInv, ProcessEnds PROVE IInv'
<1> USE DEF ProcessEnds, adapterVars, workerVars, closerVars, sinkVars
<1>1. TypeOK'
  BY DEF IInv, TypeOK
<1>2. QueueInv'
  BY DEF IInv, QueueInv, Fresh
<1>3. WorkerInv' /\ CloserInv'
  BY DEF IInv, WorkerInv, CloserInv
<1>4. ResultInv'
  BY ResultUnchanged DEF IInv, ResultInv
<1>5. NothingLost' /\ DrainedInv'
  BY DEF IInv, NothingLost, DrainedInv, InQueue
<1> QED BY <1>1, <1>2, <1>3, <1>4, <1>5 DEF IInv

LEMMA StutterStep ==
  ASSUME IInv, UNCHANGED vars PROVE IInv'
<1> USE DEF vars, adapterVars, workerVars, closerVars, sinkVars
<1>1. TypeOK'
  BY DEF IInv, TypeOK
<1>2. QueueInv'
  BY DEF IInv, QueueInv, Fresh
<1>3. WorkerInv' /\ CloserInv'
  BY DEF IInv, WorkerInv, CloserInv
<1>4. ResultInv'
  BY ResultUnchanged DEF IInv, ResultInv
<1>5. NothingLost' /\ DrainedInv'
  BY DEF IInv, NothingLost, DrainedInv, InQueue
<1> QED BY <1>1, <1>2, <1>3, <1>4, <1>5 DEF IInv

LEMMA NextStep ==
  ASSUME IInv, [Next]_vars PROVE IInv'
<1>1. ASSUME NEW t \in Tasks, Deliver(t) PROVE IInv'
  BY <1>1, DeliverStep
<1>2. ASSUME NEW w \in Workers, WorkerStep(w) PROVE IInv'
  BY <1>2, WorkerStepStep
<1>3. ASSUME NEW c \in Closers, BeginShutdown(c) PROVE IInv'
  BY <1>3, BeginShutdownStep
<1>4. ASSUME NEW c \in Closers, CloserStep(c) PROVE IInv'
  BY <1>4, CloserStepStep
<1>5. CASE ProcessEnds
  BY <1>5, ProcessEndsStep
<1>6. CASE UNCHANGED vars
  BY <1>6, StutterStep
<1> QED BY <1>1, <1>2, <1>3, <1>4, <1>5, <1>6 DEF Next

LEMMA InitHolds == Init => IInv
<1> SUFFICES ASSUME Init PROVE IInv
  OBVIOUS
<1>1. <<>> \in Seq(Statuses) /\ <<>> \in Seq(Tasks \cup {None}) /\ Len(<<>>) = 0
  OBVIOUS
<1>2. queue = <<>> /\ Len(queue) = 0 /\ \A t \in Tasks : ~InQueue(t)
  BY DEF Init, InQueue
<1>3. TypeOK
  <2>1. queue \in Seq(Tasks \cup {None}) /\ Len(queue) <= QueueCap
    BY <1>1, <1>2, CapAssumption
  <2>2. /\ wpc \in [Workers -> WorkerPlaces] /\ cpc \in [Closers -> CloserPlaces]
        /\ pc \in [Tasks -> {"new", "admitted", "refused", "raised"}]
    BY DEF Init, WorkerPlaces, CloserPlaces
  <2>3. results \in [Tasks -> Seq(Statuses)] /\ audit \in [Tasks -> Seq(Statuses)]
    BY <1>1 DEF Init
  <2>4. /\ wtask \in [Workers -> Tasks \cup {None}] /\ drained \in Tasks \cup {None}
        /\ sends \in [Tasks -> Nat] /\ posted \in Nat
        /\ accepting \in BOOLEAN /\ event \in BOOLEAN /\ up \in BOOLEAN
    BY DEF Init
  <2> QED BY <2>1, <2>2, <2>3, <2>4 DEF TypeOK
<1>4. QueueInv
  BY <1>2 DEF QueueInv
<1>5. WorkerInv
  BY TasksAssumption DEF Init, WorkerInv, Holding
<1>6. CloserInv
  BY TasksAssumption DEF Init, CloserInv, Active
<1>7. ResultInv
  BY <1>1 DEF Init, ResultInv, ResultOf, Fresh
<1>8. NothingLost /\ DrainedInv
  BY <1>2 DEF Init, NothingLost, DrainedInv
<1> QED BY <1>3, <1>4, <1>5, <1>6, <1>7, <1>8 DEF IInv

\* IInv is an inductive invariant of the service.
THEOREM InductiveInvariant == Spec => []IInv
<1>1. IInv /\ [Next]_vars => IInv'
  BY NextStep
<1> QED BY <1>1, InitHolds, PTL DEF Spec

-----------------------------------------------------------------------------
(* The properties of WebhookDelivery, from IInv.                            *)

\* Every variable keeps to its type, the queue to its capacity.
THEOREM TypeCorrect == Spec => []TypeOK
<1>1. IInv => TypeOK
  BY DEF IInv
<1> QED BY <1>1, InductiveInvariant, PTL

\* Workers, callers and shutdown race for every queued submission: each that deliver() admits
\* or refuses gets exactly one result once nobody holds it, and none before; one that
\* deliver() leaves with an exception of another kind never gets any.
THEOREM ExactlyOne == Spec => []ExactlyOneResult
<1>1. ASSUME IInv PROVE ExactlyOneResult
  <2> SUFFICES ASSUME NEW t \in Tasks
               PROVE  LET held == pc[t] \in {"new", "raised"} \/ InQueue(t) \/ InFlight(t) \/ BeingAborted(t)
                      IN  (held => Len(results[t]) = 0) /\ (~held => Len(results[t]) = 1)
    BY DEF ExactlyOneResult
  <2>0. /\ ResultOf(t) /\ pc[t] \in {"new", "admitted", "refused", "raised"}
        /\ results[t] \in Seq(Statuses)
    BY <1>1 DEF IInv, ResultInv, TypeOK
  <2>1. CASE pc[t] \in {"new", "raised"} \/ InQueue(t) \/ InFlight(t) \/ BeingAborted(t)
    <3>1. pc[t] \in {"new", "raised"} => results[t] = <<>>
      BY <2>0 DEF ResultOf, Fresh
    <3>2. InQueue(t) => results[t] = <<>>
      BY <1>1, Queued DEF Fresh
    <3>3. InFlight(t) => results[t] = <<>>
      BY <1>1 DEF InFlight, IInv, WorkerInv
    <3>4. BeingAborted(t) => results[t] = <<>>
      BY <1>1 DEF BeingAborted, IInv, CloserInv
    <3>5. results[t] = <<>>
      BY <2>1, <3>1, <3>2, <3>3, <3>4
    <3> QED BY <2>1, <3>5
  <2>2. CASE ~(pc[t] \in {"new", "raised"} \/ InQueue(t) \/ InFlight(t) \/ BeingAborted(t))
    <3>1. results[t] # <<>>
      <4>1. CASE pc[t] = "refused"
        BY <2>0, <4>1 DEF ResultOf
      <4>2. CASE pc[t] = "admitted" /\ results[t] = <<>>
        <5>1. CASE \E w \in Workers : wtask[w] = t
          <6>1. PICK w \in Workers : wtask[w] = t
            BY <5>1
          <6>2. wpc[w] \in Holding /\ wpc[w] # "persist"
            BY <1>1, <4>2, <6>1 DEF IInv, WorkerInv
          <6> QED BY <2>2, <6>1, <6>2 DEF InFlight, Holding
        <5>2. CASE drained = t
          BY <1>1, <2>2, <4>2, <5>2 DEF BeingAborted, IInv, CloserInv
        <5> QED BY <1>1, <2>2, <4>2, <5>1, <5>2 DEF IInv, NothingLost
      <4> QED BY <2>0, <2>2, <4>1, <4>2
    <3>2. Len(results[t]) <= 1
      BY <2>0 DEF ResultOf
    <3>3. Len(results[t]) \in Nat /\ Len(results[t]) # 0
      BY <2>0, <3>1, EmptySeq
    <3>4. \A n \in Nat : n # 0 /\ n <= 1 => n = 1
      OBVIOUS
    <3>5. Len(results[t]) = 1
      BY <3>2, <3>3, <3>4
    <3> QED BY <2>2, <3>5
  <2> QED BY <2>1, <2>2
<1> QED BY <1>1, InductiveInvariant, PTL

\* No webhook is sent twice, sent after its abort was recorded, or reported sent
\* without a send.
THEOREM SendsMatchResults == Spec => []SentOnceOrAborted
<1>1. ASSUME IInv PROVE SentOnceOrAborted
  <2> SUFFICES ASSUME NEW t \in Tasks
               PROVE  /\ sends[t] <= 1
                      /\ \A i \in 1..Len(results[t]) :
                           sends[t] = IF results[t][i] \in SendStatuses THEN 1 ELSE 0
    BY DEF SentOnceOrAborted, SendStatuses
  <2>1. ResultOf(t) /\ results[t] \in Seq(Statuses) /\ sends[t] \in Nat
    BY <1>1 DEF IInv, ResultInv, TypeOK
  <2>2. sends[t] <= 1 /\ Len(results[t]) <= 1
    BY <2>1 DEF ResultOf
  <2>3. ASSUME NEW i \in 1..Len(results[t])
        PROVE  sends[t] = IF results[t][i] \in SendStatuses THEN 1 ELSE 0
    <3>1. i = 1 /\ results[t] # <<>>
      BY <2>1, <2>2, <2>3
    <3>2. sends[t] = 1 <=> results[t][1] \in SendStatuses
      BY <2>1, <3>1 DEF ResultOf
    <3>3. sends[t] = 0 \/ sends[t] = 1
      BY <2>1, <2>2
    <3> QED BY <3>1, <3>2, <3>3
  <2> QED BY <2>2, <2>3
<1> QED BY <1>1, InductiveInvariant, PTL

\* No submission is in the queue once the workers may stop taking from it.
THEOREM NoneAfterEvent == Spec => []NoTaskAfterEvent
<1>1. IInv => NoTaskAfterEvent
  BY DEF IInv, DrainedInv, NoTaskAfterEvent
<1> QED BY <1>1, InductiveInvariant, PTL

\* The audit trail repeats the recorded result or is silent.
THEOREM AuditRepeatsResult == Spec => []AuditFaithful
<1>1. IInv => AuditFaithful
  BY DEF IInv, ResultInv, ResultOf, AuditFaithful
<1> QED BY <1>1, InductiveInvariant, PTL

\* Once shutdown() has closed admission, nothing is admitted any more and admission
\* does not reopen.
THEOREM AdmissionStaysClosed == Spec => NoLateAdmission
<1> DEFINE Closed == ~accepting => /\ ~accepting'
                                   /\ \A t \in Tasks : pc'[t] = "admitted" => pc[t] = "admitted"
<1>1. ASSUME TypeOK, [Next]_vars PROVE Closed
  <2> USE DEF adapterVars
  <2>1. ASSUME NEW t \in Tasks, Deliver(t) PROVE Closed
    <3>1. CASE RejectInvalid(t)
      BY <1>1, <2>1, <3>1 DEF Deliver, RejectInvalid, RefuseWith, TypeOK
    <3>2. CASE Enqueue(t)
      BY <1>1, <2>1, <3>2 DEF Deliver, Enqueue, RefuseWith, TypeOK
    <3>3. CASE RaiseUnrecorded(t)
      BY <1>1, <2>1, <3>3 DEF Deliver, RaiseUnrecorded, TypeOK
    <3> QED BY <2>1, <3>1, <3>2, <3>3 DEF Deliver
  <2>2. ASSUME NEW w \in Workers, WorkerStep(w) PROVE Closed
    BY <2>2 DEF WorkerStep, GetTask, GetSentinel, GetTimesOut, CheckEvent, SendEnds,
                WorkerPersists
  <2>3. ASSUME NEW c \in Closers, BeginShutdown(c) PROVE Closed
    BY <2>3 DEF BeginShutdown
  <2>4. ASSUME NEW c \in Closers, CloserStep(c) PROVE Closed
    BY <2>4 DEF CloserStep, DrainOne, AbortRecords, AbortPersists, DrainDone, SetEvent,
                PostSentinel, PostDone, JoinEnds
  <2>5. CASE ProcessEnds \/ UNCHANGED vars
    BY <2>5 DEF ProcessEnds, vars
  <2> QED BY <1>1, <2>1, <2>2, <2>3, <2>4, <2>5 DEF Next
<1> QED BY <1>1, TypeCorrect, PTL DEF Spec, NoLateAdmission

\* A worker drops its task only for good and only with the result recorded: no exit and
\* no next task before.
THEOREM WorkersAreDone == Spec => WorkersFinishTheirTask
<1> DEFINE Done == \A w \in Workers :
                     (wtask[w] # None /\ (wtask'[w] # wtask[w] \/ wpc'[w] = "exited")) =>
                         wtask'[w] = None /\ results[wtask[w]] # <<>>
<1>1. ASSUME IInv, [Next]_vars PROVE Done
  <2> USE DEF workerVars
  <2>0. \A v \in Workers : wtask[v] # None => wpc[v] # "exited"
    BY <1>1 DEF IInv, TypeOK, WorkerInv, Holding
  <2>1. ASSUME NEW x \in Workers, WorkerStep(x) PROVE Done
    <3>1. \A v \in Workers : v # x => wtask'[v] = wtask[v] /\ wpc'[v] = wpc[v]
      BY <1>1, <2>1 DEF WorkerStep, GetTask, GetSentinel, GetTimesOut, CheckEvent, SendEnds,
                        WorkerPersists, IInv, TypeOK
    <3>2. CASE WorkerPersists(x)
      <4>1. wpc[x] = "persist" /\ wtask'[x] = None
        BY <1>1, <3>2 DEF WorkerPersists, IInv, TypeOK
      <4>2. results[wtask[x]] # <<>>
        BY <1>1, <4>1 DEF IInv, WorkerInv, Holding
      <4> QED BY <2>0, <3>1, <4>1, <4>2
    <3>3. CASE SendEnds(x)
      <4>1. wtask'[x] = wtask[x] /\ wpc'[x] = "persist"
        BY <1>1, <3>3 DEF SendEnds, IInv, TypeOK
      <4> QED BY <2>0, <3>1, <4>1
    <3>4. CASE GetTask(x) \/ GetSentinel(x) \/ GetTimesOut(x) \/ CheckEvent(x)
      <4>1. wtask[x] = None
        BY <1>1, <3>4 DEF GetTask, GetSentinel, GetTimesOut, CheckEvent, IInv, TypeOK,
                          WorkerInv, Holding
      <4> QED BY <2>0, <3>1, <4>1
    <3> QED BY <2>1, <3>2, <3>3, <3>4 DEF WorkerStep
  <2>2. ASSUME NEW t \in Tasks, Deliver(t) PROVE Done
    BY <2>0, <2>2 DEF Deliver
  <2>3. ASSUME NEW c \in Closers, BeginShutdown(c) \/ CloserStep(c) PROVE Done
    BY <2>0, <2>3 DEF BeginShutdown, CloserStep, DrainOne, AbortRecords, AbortPersists,
                DrainDone, SetEvent, PostSentinel, PostDone, JoinEnds
  <2>4. CASE ProcessEnds \/ UNCHANGED vars
    BY <2>0, <2>4 DEF ProcessEnds, vars
  <2> QED BY <1>1, <2>1, <2>2, <2>3, <2>4 DEF Next
<1>2. IInv /\ [Next]_vars => [Done]_vars
  BY <1>1
<1>3. Spec => [][Done]_vars
  BY <1>2, InductiveInvariant, PTL DEF Spec
<1> QED BY <1>3 DEF WorkersFinishTheirTask

-----------------------------------------------------------------------------
(* The service keeps the safety part of its contract.                       *)

\* A submission that no step touches keeps its fate.
LEMMA SameFate ==
  ASSUME NEW t \in Tasks, pc'[t] = pc[t], results'[t] = results[t], sends'[t] = sends[t],
         InFlight(t)' <=> InFlight(t)
  PROVE  taskFate'[t] = taskFate[t]
BY DEF taskFate

\* A step that gives one submission a new fate is a step of the contract.
LEMMA OneFate ==
  ASSUME NEW t \in Tasks, up, NEW from, NEW to, UNCHANGED <<accepting, up>>,
         taskFate[t] = from, taskFate'[t] = to,
         \A u \in Tasks : u # t => taskFate'[u] = taskFate[u]
  PROVE  Contract!Become(t, from, to)
<1>1. taskFate = [u \in Tasks |-> taskFate[u]] /\ taskFate' = [u \in Tasks |-> taskFate'[u]]
  BY DEF taskFate
<1>2. taskFate' = [taskFate EXCEPT ![t] = to]
  BY <1>1
<1> QED BY <1>2 DEF Contract!Become

\* A step that gives none a new fate, and neither closes nor halts, is a stutter.
LEMMA NoFate ==
  ASSUME \A t \in Tasks : taskFate'[t] = taskFate[t], UNCHANGED <<accepting, up>>
  PROVE  UNCHANGED Contract!contractVars
<1>1. taskFate = [u \in Tasks |-> taskFate[u]] /\ taskFate' = [u \in Tasks |-> taskFate'[u]]
  BY DEF taskFate
<1>2. taskFate' = taskFate
  BY <1>1
<1> QED BY <1>2 DEF Contract!contractVars

\* A refusal: new to refused.
LEMMA RefuseIsContract ==
  ASSUME IInv, NEW t \in Tasks, pc[t] = "new", up, NEW status \in Statuses,
         RefuseWith(t, status), UNCHANGED <<accepting, workerVars, closerVars, sends, up>>
  PROVE  Contract!ContractNext
<1>1. pc' = [pc EXCEPT ![t] = "refused"] /\ pc \in [Tasks -> {"new", "admitted", "refused", "raised"}]
  BY DEF RefuseWith, IInv, TypeOK
<1>2. \A u \in Tasks : u # t => results'[u] = results[u]
  BY Recorded DEF RefuseWith, IInv
<1>3. \A u \in Tasks : InFlight(u)' <=> InFlight(u)
  BY DEF InFlight, workerVars
<1>4. taskFate[t] = "new" /\ taskFate'[t] = "refused"
  BY <1>1 DEF taskFate
<1>5. \A u \in Tasks : u # t => taskFate'[u] = taskFate[u]
  BY <1>1, <1>2, <1>3, SameFate
<1>6. Contract!Refuse(t)
  BY <1>4, <1>5, OneFate DEF Contract!Refuse
<1> QED BY <1>6 DEF Contract!ContractNext

\* deliver(): a refusal with or without a result, or new to accepted while admission is open.
LEMMA DeliverIsContract ==
  ASSUME IInv, NEW t \in Tasks, Deliver(t) PROVE Contract!ContractNext
<1>1. up /\ pc[t] = "new" /\ UNCHANGED <<accepting, workerVars, closerVars, sends, up>>
  BY DEF Deliver
<1>2. CASE \E status \in Statuses : RefuseWith(t, status)
  BY <1>1, <1>2, RefuseIsContract
<1>3. CASE accepting /\ pc' = [pc EXCEPT ![t] = "admitted"] /\ UNCHANGED sinkVars
  <2>1. \A u \in Tasks : InFlight(u)' <=> InFlight(u)
    BY <1>1 DEF InFlight, workerVars
  <2>2. results[t] = <<>> /\ pc'[t] = "admitted" /\ results' = results
    BY <1>1, <1>3 DEF IInv, ResultInv, ResultOf, Fresh, TypeOK, sinkVars
  <2>3. ~InFlight(t)
    BY <1>1 DEF InFlight, IInv, WorkerInv, Holding
  <2>4. taskFate[t] = "new" /\ taskFate'[t] = "accepted"
    BY <1>1, <2>1, <2>2, <2>3 DEF taskFate
  <2>5. \A u \in Tasks : u # t => pc'[u] = pc[u]
    BY <1>3 DEF IInv, TypeOK
  <2>6. \A u \in Tasks : u # t => taskFate'[u] = taskFate[u]
    BY <1>1, <2>1, <2>2, <2>5, SameFate
  <2>7. Contract!Accept(t)
    BY <1>1, <1>3, <2>4, <2>6, OneFate DEF Contract!Accept
  <2> QED BY <2>7 DEF Contract!ContractNext
<1>4. CASE RaiseUnrecorded(t)
  <2>1. /\ pc' = [pc EXCEPT ![t] = "raised"] /\ results' = results
        /\ pc \in [Tasks -> {"new", "admitted", "refused", "raised"}]
    BY <1>4 DEF RaiseUnrecorded, sinkVars, IInv, TypeOK
  <2>2. \A u \in Tasks : InFlight(u)' <=> InFlight(u)
    BY <1>1 DEF InFlight, workerVars
  <2>3. taskFate[t] = "new" /\ taskFate'[t] = "refused"
    BY <1>1, <2>1 DEF taskFate
  <2>4. \A u \in Tasks : u # t => taskFate'[u] = taskFate[u]
    BY <1>1, <2>1, <2>2, SameFate
  <2>5. Contract!Refuse(t)
    BY <1>1, <2>3, <2>4, OneFate DEF Contract!Refuse
  <2> QED BY <2>5 DEF Contract!ContractNext
<1>5. \/ \E status \in Statuses : RefuseWith(t, status)
      \/ accepting /\ pc' = [pc EXCEPT ![t] = "admitted"] /\ UNCHANGED sinkVars
      \/ RaiseUnrecorded(t)
  BY DEF Deliver, RejectInvalid, Enqueue, Statuses
<1> QED BY <1>2, <1>3, <1>4, <1>5

\* A worker: accepted to underway when it takes the task, underway to settled when it
\* records the result, and nothing otherwise.
LEMMA WorkerIsContract ==
  ASSUME IInv, NEW w \in Workers, WorkerStep(w)
  PROVE  [Contract!ContractNext]_(Contract!contractVars)
<1> USE DEF adapterVars, closerVars, sinkVars
<1>0. /\ up /\ UNCHANGED <<accepting, up, pc>>
      /\ \A v \in Workers : v # w => wpc'[v] = wpc[v] /\ wtask'[v] = wtask[v]
  BY DEF WorkerStep, GetTask, GetSentinel, GetTimesOut, CheckEvent, SendEnds, WorkerPersists,
         IInv, TypeOK
<1>1. CASE GetTask(w)
  <2>0. Head(queue) \in Tasks /\ InQueue(Head(queue))
    BY <1>1, HeadTaken, Dequeued DEF GetTask, IInv
  <2> PICK t \in Tasks : t = Head(queue)
    BY <2>0
  <2>1. /\ InQueue(t)
        /\ wpc'[w] = "sending" /\ wtask'[w] = t /\ wpc[w] = "poll"
        /\ results' = results /\ sends' = [sends EXCEPT ![t] = @ + 1]
    BY <1>1, <2>0 DEF GetTask, IInv, TypeOK
  <2>2. pc[t] = "admitted" /\ results[t] = <<>> /\ ~InFlight(t)
    BY <2>1, Queued DEF Fresh, InFlight
  <2>3. InFlight(t)' /\ \A u \in Tasks : u # t => (InFlight(u)' <=> InFlight(u))
    BY <1>0, <2>1 DEF InFlight
  <2>4. taskFate[t] = "accepted" /\ taskFate'[t] = "underway"
    BY <1>0, <2>1, <2>2, <2>3 DEF taskFate
  <2>5. \A u \in Tasks : u # t => sends'[u] = sends[u]
    BY <2>1 DEF IInv, TypeOK
  <2>6. \A u \in Tasks : u # t => taskFate'[u] = taskFate[u]
    BY <1>0, <2>1, <2>3, <2>5, SameFate
  <2>7. Contract!Begin(t)
    BY <1>0, <2>1, <2>4, <2>6, OneFate DEF Contract!Begin
  <2> QED BY <2>1, <2>7 DEF Contract!ContractNext
<1>2. CASE SendEnds(w)
  <2> DEFINE t == wtask[w]
  <2>1. PICK status \in SendStatuses : RecordInMemory(t, status)
    BY <1>2 DEF SendEnds, SendStatuses
  <2>2. /\ wpc[w] = "sending" /\ wpc'[w] = "persist" /\ wtask' = wtask /\ sends' = sends
    BY <1>2 DEF SendEnds, IInv, TypeOK
  <2>3. /\ t \in Tasks /\ pc[t] = "admitted" /\ sends[t] = 1 /\ results[t] = <<>>
        /\ \A v \in Workers : v # w => wtask[v] # t
    BY <2>2 DEF IInv, WorkerInv, Holding
  <2>4. results'[t] # <<>> /\ \A u \in Tasks : u # t => results'[u] = results[u]
    BY <2>1, <2>3, Recorded DEF IInv, Statuses, SendStatuses
  <2>5. InFlight(t)
    BY <2>2 DEF InFlight
  <2>6. \A u \in Tasks : u # t => (InFlight(u)' <=> InFlight(u))
    BY <1>0, <2>2 DEF InFlight
  <2> HIDE DEF t
  <2>7. taskFate[t] = "underway" /\ taskFate'[t] = "settled"
    BY <1>0, <2>2, <2>3, <2>4, <2>5 DEF taskFate
  <2>8. \A u \in Tasks : u # t => taskFate'[u] = taskFate[u]
    BY <1>0, <2>2, <2>4, <2>6, SameFate
  <2>9. Contract!Settle(t)
    BY <1>0, <2>3, <2>7, <2>8, OneFate DEF Contract!Settle
  <2> QED BY <2>3, <2>9 DEF Contract!ContractNext
<1>3. CASE GetSentinel(w) \/ GetTimesOut(w) \/ CheckEvent(w) \/ WorkerPersists(w)
  <2>1. /\ wpc[w] # "sending" /\ wpc'[w] # "sending" /\ results' = results /\ sends' = sends
    BY <1>3 DEF GetSentinel, GetTimesOut, CheckEvent, WorkerPersists, IInv, TypeOK
  <2>2. \A u \in Tasks : InFlight(u)' <=> InFlight(u)
    BY <1>0, <2>1 DEF InFlight
  <2>3. \A u \in Tasks : taskFate'[u] = taskFate[u]
    BY <1>0, <2>1, <2>2, SameFate
  <2> QED BY <1>0, <2>3, NoFate
<1> QED BY <1>1, <1>2, <1>3 DEF WorkerStep

\* shutdown(): the first caller closes admission.
LEMMA BeginShutdownIsContract ==
  ASSUME IInv, NEW c \in Closers, BeginShutdown(c)
  PROVE  [Contract!ContractNext]_(Contract!contractVars)
<1>1. /\ up /\ accepting' = FALSE /\ accepting \in BOOLEAN /\ up' = up
      /\ UNCHANGED <<pc, results, sends, wpc, wtask>>
  BY DEF BeginShutdown, workerVars, sinkVars, IInv, TypeOK
<1>2. taskFate' = taskFate
  BY <1>1 DEF taskFate, InFlight
<1>3. CASE accepting
  BY <1>1, <1>2, <1>3 DEF Contract!ContractNext, Contract!Close
<1>4. CASE ~accepting
  BY <1>1, <1>2, <1>4 DEF Contract!contractVars
<1> QED BY <1>3, <1>4

\* The rest of shutdown(): accepted to dropped, with admission closed, when an abort is
\* recorded, and nothing otherwise.
LEMMA CloserIsContract ==
  ASSUME IInv, NEW c \in Closers, CloserStep(c)
  PROVE  [Contract!ContractNext]_(Contract!contractVars)
<1> USE DEF adapterVars, workerVars, sinkVars
<1>0. /\ up /\ UNCHANGED <<accepting, up, pc, wpc, wtask, sends>>
  BY DEF CloserStep, DrainOne, AbortRecords, AbortPersists, DrainDone, SetEvent, PostSentinel,
         PostDone, JoinEnds
<1>1. \A u \in Tasks : InFlight(u)' <=> InFlight(u)
  BY <1>0 DEF InFlight
<1>2. CASE AbortRecords(c)
  <2> DEFINE t == drained
  <2>1. cpc[c] = "aborting" /\ RecordInMemory(t, "SHUTDOWN_ABORTED")
    BY <1>2 DEF AbortRecords
  <2>2. /\ t \in Tasks /\ pc[t] = "admitted" /\ sends[t] = 0 /\ results[t] = <<>> /\ ~accepting
    BY <2>1 DEF IInv, CloserInv, Active
  <2>3. ~InFlight(t)
    BY <2>2 DEF InFlight, IInv, WorkerInv
  <2>4. results'[t] # <<>> /\ \A u \in Tasks : u # t => results'[u] = results[u]
    BY <2>1, <2>2, Recorded DEF IInv, Statuses
  <2> HIDE DEF t
  <2>5. taskFate[t] = "accepted" /\ taskFate'[t] = "dropped"
    BY <1>0, <2>2, <2>3, <2>4 DEF taskFate
  <2>6. \A u \in Tasks : u # t => taskFate'[u] = taskFate[u]
    BY <1>0, <1>1, <2>4, SameFate
  <2>7. Contract!Drop(t)
    BY <1>0, <2>2, <2>5, <2>6, OneFate DEF Contract!Drop
  <2> QED BY <2>2, <2>7 DEF Contract!ContractNext
<1>3. CASE results' = results
  <2>1. \A u \in Tasks : taskFate'[u] = taskFate[u]
    BY <1>0, <1>1, <1>3, SameFate
  <2> QED BY <1>0, <2>1, NoFate
<1>4. AbortRecords(c) \/ results' = results
  BY DEF CloserStep, DrainOne, AbortPersists, DrainDone, SetEvent, PostSentinel, PostDone,
         JoinEnds
<1> QED BY <1>2, <1>3, <1>4

\* The service never gives a submission a fate its contract does not allow: it accepts only
\* while open, drops only what it never sent and only once closed, and every attempt, refusal
\* and abort is final, for any number of threads and any queue.
THEOREM KeepsContract ==
  Spec => Contract!ContractInit /\ [][Contract!ContractNext]_(Contract!contractVars)
<1>1. Init => Contract!ContractInit
  BY DEF Init, taskFate, Contract!ContractInit
<1>2. ASSUME IInv, [Next]_vars PROVE [Contract!ContractNext]_(Contract!contractVars)
  <2>1. CASE \E t \in Tasks : Deliver(t)
    BY <1>2, <2>1, DeliverIsContract
  <2>2. CASE \E w \in Workers : WorkerStep(w)
    BY <1>2, <2>2, WorkerIsContract
  <2>3. CASE \E c \in Closers : BeginShutdown(c) \/ CloserStep(c)
    BY <1>2, <2>3, BeginShutdownIsContract, CloserIsContract
  <2>4. CASE ProcessEnds
    <3>1. taskFate' = taskFate
      BY <2>4 DEF ProcessEnds, taskFate, InFlight, adapterVars, workerVars, sinkVars
    <3>2. Contract!Halt
      BY <2>4, <3>1 DEF ProcessEnds, adapterVars, Contract!Halt
    <3> QED BY <3>2 DEF Contract!ContractNext
  <2>5. CASE UNCHANGED vars
    BY <2>5 DEF vars, adapterVars, workerVars, sinkVars, taskFate, InFlight,
                Contract!contractVars
  <2> QED BY <1>2, <2>1, <2>2, <2>3, <2>4, <2>5 DEF Next
<1> QED BY <1>1, <1>2, InductiveInvariant, PTL DEF Spec

-----------------------------------------------------------------------------
(* What is certain once workers have exited.                                *)

Draining == {"draining", "aborting", "abort_persist", "signal"}

\* The event separates the drain from the sentinels, and no worker leaves its loop
\* before it.
StopInv ==
    /\ \A c \in Closers : cpc[c] \in Draining => ~event
    /\ \A c \in Closers : cpc[c] = "posting" => event
    /\ \A i \in 1..Len(queue) : queue[i] = None => event
    /\ \A w \in Workers : wpc[w] = "exited" => event

LEMMA StopInvInit == Init => StopInv
<1> SUFFICES ASSUME Init PROVE StopInv
  OBVIOUS
<1>1. Len(queue) = 0
  BY DEF Init
<1> QED BY <1>1 DEF Init, StopInv, Draining

LEMMA StopDeliver ==
  ASSUME IInv, StopInv, NEW t \in Tasks, Deliver(t) PROVE StopInv'
<1>1. UNCHANGED <<wpc, cpc, event>>
  BY DEF Deliver, workerVars, closerVars
<1>2. queue' = queue \/ (~QueueFull /\ queue' = Append(queue, t))
  BY DEF Deliver, RaiseUnrecorded, RejectInvalid, RefuseWith, Enqueue
<1>3. \A i \in 1..Len(queue') : queue'[i] = None => i \in 1..Len(queue) /\ queue[i] = None
  <2>1. CASE queue' = queue
    BY <2>1
  <2>2. CASE ~QueueFull /\ queue' = Append(queue, t)
    <3>1. /\ Len(queue) \in Nat /\ Len(queue') = Len(queue) + 1
          /\ \A i \in 1..Len(queue) : queue'[i] = queue[i]
          /\ queue'[Len(queue) + 1] = t
      BY <2>2, Enqueued DEF IInv
    <3>2. t # None
      BY TasksAssumption
    <3> QED BY <3>1, <3>2
  <2> QED BY <1>2, <2>1, <2>2
<1> QED BY <1>1, <1>3 DEF StopInv

LEMMA StopDequeue ==
  ASSUME IInv, StopInv, queue # <<>>, queue' = Tail(queue)
  PROVE  /\ \A i \in 1..Len(queue') : queue'[i] = None => event
         /\ Head(queue) = None => event
<1>1. /\ \A i \in 1..Len(queue') : i + 1 \in 1..Len(queue) /\ queue'[i] = queue[i + 1]
      /\ Head(queue) = queue[1] /\ 1 \in 1..Len(queue)
  BY Dequeued DEF IInv
<1> QED BY <1>1 DEF StopInv

LEMMA StopWorker ==
  ASSUME IInv, StopInv, NEW w \in Workers, WorkerStep(w) PROVE StopInv'
<1>1. /\ UNCHANGED <<cpc, event>>
      /\ \A v \in Workers : v # w => wpc'[v] = wpc[v]
  BY DEF WorkerStep, GetTask, GetSentinel, GetTimesOut, CheckEvent, SendEnds, WorkerPersists,
         closerVars, IInv, TypeOK
<1>2. wpc'[w] = "exited" => event
  <2>1. CASE GetSentinel(w)
    BY <2>1, StopDequeue DEF GetSentinel
  <2>2. CASE CheckEvent(w)
    BY <2>2 DEF CheckEvent, IInv, TypeOK
  <2>3. CASE GetTask(w) \/ GetTimesOut(w) \/ SendEnds(w) \/ WorkerPersists(w)
    BY <2>3 DEF GetTask, GetTimesOut, SendEnds, WorkerPersists, IInv, TypeOK
  <2> QED BY <2>1, <2>2, <2>3 DEF WorkerStep
<1>3. \A i \in 1..Len(queue') : queue'[i] = None => event
  <2>1. CASE GetTask(w) \/ GetSentinel(w)
    BY <2>1, StopDequeue DEF GetTask, GetSentinel
  <2>2. CASE ~(GetTask(w) \/ GetSentinel(w))
    BY <2>2 DEF WorkerStep, GetTimesOut, CheckEvent, SendEnds, WorkerPersists, StopInv
  <2> QED BY <2>1, <2>2
<1> QED BY <1>1, <1>2, <1>3 DEF StopInv

LEMMA StopCloser ==
  ASSUME IInv, StopInv, NEW c \in Closers, BeginShutdown(c) \/ CloserStep(c) PROVE StopInv'
<1>0. /\ \A d \in Closers : d # c => cpc'[d] = cpc[d]
      /\ wpc' = wpc
  BY DEF BeginShutdown, CloserStep, DrainOne, AbortRecords, AbortPersists, DrainDone, SetEvent,
         PostSentinel, PostDone, JoinEnds, workerVars, IInv, TypeOK
<1>1. CASE BeginShutdown(c)
  <2>1. /\ queue' = queue /\ event' = event
        /\ cpc'[c] \in Draining => ~event
        /\ cpc'[c] # "posting"
    BY <1>1 DEF BeginShutdown, IInv, TypeOK, DrainedInv, Draining
  <2> QED BY <1>0, <2>1 DEF StopInv
<1>2. CASE DrainOne(c)
  <2>1. /\ event' = event /\ cpc[c] = "draining" /\ cpc'[c] \in {"draining", "aborting"}
    BY <1>2 DEF DrainOne, IInv, TypeOK
  <2>2. \A i \in 1..Len(queue') : queue'[i] = None => event
    BY <1>2, StopDequeue DEF DrainOne
  <2> QED BY <1>0, <2>1, <2>2 DEF StopInv, Draining
<1>3. CASE AbortRecords(c) \/ AbortPersists(c) \/ DrainDone(c)
  <2>1. /\ queue' = queue /\ event' = event /\ cpc[c] \in Draining /\ cpc'[c] \in Draining
    BY <1>3 DEF AbortRecords, AbortPersists, DrainDone, IInv, TypeOK, Draining
  <2> QED BY <1>0, <2>1 DEF StopInv, Draining
<1>4. CASE SetEvent(c)
  <2>1. queue' = queue /\ event' = TRUE /\ cpc[c] = "signal" /\ cpc'[c] = "posting"
    BY <1>4 DEF SetEvent, IInv, TypeOK
  <2>2. \A d \in Closers : d # c => cpc'[d] \notin Draining
    BY <1>0, <2>1 DEF IInv, CloserInv, Active, Draining
  <2> QED BY <1>0, <2>1, <2>2 DEF StopInv, Draining
<1>5. CASE PostSentinel(c)
  <2>1. event /\ event' = event /\ cpc' = cpc
    BY <1>5 DEF PostSentinel, StopInv
  <2> QED BY <1>0, <2>1 DEF StopInv
<1>6. CASE PostDone(c) \/ JoinEnds(c)
  <2>1. queue' = queue /\ event' = event /\ cpc'[c] \in {"joining", "returned"}
    BY <1>6 DEF PostDone, JoinEnds, IInv, TypeOK
  <2> QED BY <1>0, <2>1 DEF StopInv, Draining
<1> QED BY <1>1, <1>2, <1>3, <1>4, <1>5, <1>6 DEF CloserStep

LEMMA StopStep == (IInv /\ StopInv) /\ [Next]_vars => StopInv'
<1> SUFFICES ASSUME IInv, StopInv, [Next]_vars PROVE StopInv'
  OBVIOUS
<1>1. CASE ProcessEnds \/ UNCHANGED vars
  BY <1>1 DEF ProcessEnds, vars, workerVars, closerVars, StopInv
<1>2. CASE \E t \in Tasks : Deliver(t)
  BY <1>2, StopDeliver
<1>3. CASE \E w \in Workers : WorkerStep(w)
  BY <1>3, StopWorker
<1>4. CASE \E c \in Closers : BeginShutdown(c) \/ CloserStep(c)
  BY <1>4, StopCloser
<1> QED BY <1>1, <1>2, <1>3, <1>4 DEF Next

\* No worker leaves its loop, be it on a sentinel or on an empty queue, before the drain
\* is over and the shutdown event set.
THEOREM StopInvariant == Spec => []StopInv
<1> QED BY InductiveInvariant, StopInvInit, StopStep, PTL DEF Spec

\* Every admitted submission whose result is not recorded is in a worker's hands.
OnlyInHand ==
    \A t \in Tasks : pc[t] = "admitted" /\ results[t] = <<>> => InFlight(t)

\* All workers have exited only over a finished business.
AllSettled == \A t \in Tasks : pc[t] = "admitted" => Len(results[t]) = 1

\* From the shutdown event on, what is not settled is being sent: nothing is left queued
\* or half aborted, whichever of the workers and the drain took it.
LEMMA EventLeavesOnlyInHand == IInv /\ StopInv /\ event => OnlyInHand
<1> SUFFICES ASSUME IInv, StopInv, event,
                    NEW t \in Tasks, pc[t] = "admitted", results[t] = <<>>
             PROVE  InFlight(t)
  BY DEF OnlyInHand
<1>1. ~InQueue(t)
  BY DEF IInv, DrainedInv
<1>2. drained # t
  <2> SUFFICES ASSUME drained = t PROVE FALSE
    OBVIOUS
  <2>1. PICK c \in Closers : cpc[c] \in {"aborting", "abort_persist"}
    BY DEF IInv, CloserInv
  <2> QED BY <2>1 DEF StopInv, Draining
<1>3. PICK w \in Workers : wtask[w] = t
  BY <1>1, <1>2 DEF IInv, NothingLost
<1>4. wpc[w] = "sending"
  BY <1>3 DEF IInv, WorkerInv, Holding
<1> QED BY <1>3, <1>4 DEF InFlight

LEMMA OneElement ==
  ASSUME NEW r \in Seq(Statuses), Len(r) <= 1, r # <<>> PROVE Len(r) = 1
<1>1. Len(r) # 0
  BY EmptySeq
<1>2. Len(r) \in Nat
  OBVIOUS
<1>3. \A n \in Nat : n <= 1 /\ n # 0 => n = 1
  OBVIOUS
<1> QED BY <1>1, <1>2, <1>3, Zenon

\* shutdown() abandons nobody: once the event is set, an admitted submission without a
\* result is with a worker that is still sending it, and when all workers have exited
\* every admitted submission has its one result.
THEOREM StoppedIsSettled ==
  Spec => [](/\ event => OnlyInHand
             /\ (\A w \in Workers : wpc[w] = "exited") => AllSettled)
<1>1. ASSUME IInv, StopInv, \A w \in Workers : wpc[w] = "exited" PROVE AllSettled
  <2>1. event
    BY <1>1, ThreadsAssumption DEF StopInv
  <2>2. \A t \in Tasks : pc[t] = "admitted" => results[t] # <<>>
    BY <1>1, <2>1, EventLeavesOnlyInHand DEF OnlyInHand, InFlight
  <2>3. \A t \in Tasks : results[t] \in Seq(Statuses) /\ Len(results[t]) <= 1
    BY <1>1 DEF IInv, TypeOK, ResultInv, ResultOf
  <2>4. ASSUME NEW t \in Tasks, pc[t] = "admitted" PROVE Len(results[t]) = 1
    <3>1. results[t] \in Seq(Statuses) /\ Len(results[t]) <= 1 /\ results[t] # <<>>
      BY <2>2, <2>3, <2>4
    <3> QED BY <3>1, OneElement
  <2> QED BY <2>4 DEF AllSettled
<1> QED BY <1>1, EventLeavesOnlyInHand, InductiveInvariant, StopInvariant, PTL
=============================================================================
