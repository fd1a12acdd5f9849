----------------------------- MODULE TaskManager ----------------------------
(***************************************************************************)
(* TaskManager of application/task_service.rs: a bounded FIFO channel, a   *)
(* pool of workers that share its receiver behind an async mutex, the      *)
(* record table behind a read-write lock, a cancellation flag per task,    *)
(* and the events published on the bus.                                    *)
(*                                                                         *)
(* A step is what one thread does while it holds the record lock, or what  *)
(* it does between two locks.  Publishing appends to events: EventBus      *)
(* serialises publications, and module EventBus models what becomes of     *)
(* them.                                                                   *)
(***************************************************************************)
EXTENDS TaskDomain, Sequences, FiniteSets

CONSTANTS
  Clients,     (* threads that submit and cancel tasks                      *)
  Workers,     (* the worker loops                                          *)
  Closers,     (* threads that call shutdown: the exit handler and Drop     *)
  Capacity,    (* capacity of the channel                                   *)
  JobKinds,    (* jobs clients submit: "progress" is create_progress_task,  *)
               (* "generic" any closure given to submit                     *)
  MaxReports,  (* bound: progress reports a generic job makes               *)
  None         (* no worker                                                 *)

ASSUME TaskManagerAssumption ==
  /\ Capacity \in Nat \ {0}
  /\ Workers # {}
  /\ JobKinds \subseteq {"progress", "generic"}
  /\ MaxReports \in Nat
  /\ None \notin Workers

VARIABLES
  nextId,       (* next_id                                                  *)
  senderOpen,   (* sender is Some                                           *)
  queue,        (* ids of the jobs in the channel                           *)
  task,         (* the snapshot of each record                              *)
  flag,         (* the cancellation flag of each record                     *)
  job,          (* the kind of job submitted under each id                  *)
  events,       (* the task events published on the bus, in order           *)
  submitting,   (* the id a client drew and has not submitted yet, or 0     *)
  receiver,     (* the worker that holds the receiver mutex                 *)
  wpc,          (* where each worker is                                     *)
  held,         (* the id a worker dequeued, or 0                           *)
  step,         (* loop variable of the job a worker runs                   *)
  result,       (* what the job a worker ran returned                       *)
  cpc,          (* where each shutdown call is                              *)
  unpublished   (* snapshots a shutdown call has still to publish           *)

queueVars == <<nextId, senderOpen, queue, submitting, job>>
recordVars == <<task, flag, events>>
workerVars == <<receiver, wpc, held, step, result>>
closerVars == <<cpc, unpublished>>
vars == <<queueVars, recordVars, workerVars, closerVars>>

WorkerPlaces ==
  {"idle", "receiving", "dequeued", "top", "sleeping", "returned", "stopped"}

(* The places at which a worker's job has been started and not finished.   *)
Executing == {"top", "sleeping", "returned"}

CloserPlaces == {"idle", "closed", "publishing", "done"}

Outcomes == {"ok", "failure", "crash"}

Init ==
  /\ nextId = 1
  /\ senderOpen = TRUE
  /\ queue = <<>>
  /\ task = [id \in Ids |-> NoRecord(id)]
  /\ flag = [id \in Ids |-> FALSE]
  /\ job = [id \in Ids |-> "none"]
  /\ events = <<>>
  /\ submitting = [c \in Clients |-> 0]
  /\ receiver = None
  /\ wpc = [w \in Workers |-> "idle"]
  /\ held = [w \in Workers |-> 0]
  /\ step = [w \in Workers |-> 0]
  /\ result = [w \in Workers |-> "ok"]
  /\ cpc = [k \in Closers |-> "idle"]
  /\ unpublished = [k \in Closers |-> {}]

Publish(kind, snapshot) ==
  events' = Append(events, [kind |-> kind, task |-> snapshot])

(* Under the record lock: store the snapshot and publish it.               *)
Record(kind, snapshot) ==
  /\ task' = [task EXCEPT ![snapshot.id] = snapshot]
  /\ Publish(kind, snapshot)

-----------------------------------------------------------------------------
(* Clients: submit and cancel.                                             *)

(* submit draws an id from the atomic counter before it takes any lock.    *)
DrawId(c) ==
  /\ submitting[c] = 0
  /\ nextId <= MaxId
  /\ submitting' = [submitting EXCEPT ![c] = nextId]
  /\ nextId' = nextId + 1
  /\ UNCHANGED <<senderOpen, queue, job, recordVars, workerVars, closerVars>>

(* Faulty variant: the newest job is taken first. *)
EnqueueInFront(id) == queue' = <<id>> \o queue

Enqueue(id) == queue' = Append(queue, id)

(* The rest of submit, under the sender lock and then the record lock.     *)
Submit(c) ==
  LET id == submitting[c]
  IN  /\ id # 0
      /\ senderOpen
      /\ Len(queue) < Capacity
      /\ Enqueue(id)
      /\ \E kind \in JobKinds : job' = [job EXCEPT ![id] = kind]
      /\ flag' = [flag EXCEPT ![id] = FALSE]
      /\ Record("created", Pending(id))
      /\ submitting' = [submitting EXCEPT ![c] = 0]
      /\ UNCHANGED <<nextId, senderOpen, workerVars, closerVars>>

(* Faulty variant: a failed try_send leaves the inserted record behind. *)
SubmitRejectedKeepsRecord(c) ==
  /\ submitting[c] # 0
  /\ ~senderOpen \/ Len(queue) >= Capacity
  /\ task' = [task EXCEPT ![submitting[c]] = Pending(submitting[c])]
  /\ submitting' = [submitting EXCEPT ![c] = 0]
  /\ UNCHANGED <<nextId, senderOpen, queue, job, flag, events, workerVars,
                 closerVars>>

(* QueueUnavailable: the sender is gone, or try_send fails and the record  *)
(* inserted under the same lock is removed again.                          *)
SubmitRejected(c) ==
  /\ submitting[c] # 0
  /\ ~senderOpen \/ Len(queue) >= Capacity
  /\ submitting' = [submitting EXCEPT ![c] = 0]
  /\ UNCHANGED <<nextId, senderOpen, queue, job, recordVars, workerVars,
                 closerVars>>

(* A terminal task, or an unknown id, is left as it is.                    *)
Cancel(id) ==
  /\ IsLive(task[id])
  /\ flag' = [flag EXCEPT ![id] = TRUE]
  /\ Record("finished", Cancelled(task[id]))
  /\ UNCHANGED <<queueVars, workerVars, closerVars>>

-----------------------------------------------------------------------------
(* Workers: worker_loop and execute_task.                                  *)

LockReceiver(w) ==
  /\ wpc[w] = "idle"
  /\ receiver = None
  /\ receiver' = w
  /\ wpc' = [wpc EXCEPT ![w] = "receiving"]
  /\ UNCHANGED <<queueVars, recordVars, held, step, result, closerVars>>

Receive(w) ==
  /\ wpc[w] = "receiving"
  /\ queue # <<>>
  /\ held' = [held EXCEPT ![w] = Head(queue)]
  /\ queue' = Tail(queue)
  /\ receiver' = None
  /\ wpc' = [wpc EXCEPT ![w] = "dequeued"]
  /\ UNCHANGED <<nextId, senderOpen, submitting, job, recordVars, step, result,
                 closerVars>>

(* Faulty variant: an empty channel is taken for a closed one. *)
ClosedWhenEmpty == queue = <<>>

(* recv returns None only when the sender is gone and the channel empty.   *)
Closed == ~senderOpen /\ queue = <<>>

(* Faulty variant: the receiver is not unlocked by the worker that leaves. *)
StopKeepingReceiver(w) ==
  /\ wpc[w] = "receiving"
  /\ Closed
  /\ wpc' = [wpc EXCEPT ![w] = "stopped"]
  /\ UNCHANGED <<queueVars, recordVars, receiver, held, step, result, closerVars>>

Stop(w) ==
  /\ wpc[w] = "receiving"
  /\ Closed
  /\ receiver' = None
  /\ wpc' = [wpc EXCEPT ![w] = "stopped"]
  /\ UNCHANGED <<queueVars, recordVars, held, step, result, closerVars>>

(* Faulty variant: the worker does not look at the record again. *)
StartableUnchecked(id) == TRUE

(* start_task, under the record lock.                                      *)
Startable(id) == ~flag[id] /\ IsLive(task[id])

StartTask(w) ==
  /\ wpc[w] = "dequeued"
  /\ Startable(held[w])
  /\ Record("started", Started(task[held[w]]))
  /\ wpc' = [wpc EXCEPT ![w] = "top"]
  /\ UNCHANGED <<queueVars, flag, receiver, held, step, result, closerVars>>

(* start_task returned None: the job is dropped without running.           *)
SkipTask(w) ==
  /\ wpc[w] = "dequeued"
  /\ ~Startable(held[w])
  /\ wpc' = [wpc EXCEPT ![w] = "idle"]
  /\ held' = [held EXCEPT ![w] = 0]
  /\ UNCHANGED <<queueVars, recordVars, receiver, step, result, closerVars>>

(* report_progress under the record lock; accepted is its return value.    *)
Reportable(id) == task[id].state = "running" /\ ~flag[id]

(* Faulty variant: the event carries the snapshot from before the update. *)
ReportStale(id, completed) ==
  IF Reportable(id)
  THEN /\ task' = [task EXCEPT ![id] = Update(@, completed)]
       /\ Publish("progressed", task[id])
  ELSE UNCHANGED <<task, events>>

Report(id, completed) ==
  IF Reportable(id)
  THEN Record("progressed", Update(task[id], completed))
  ELSE UNCHANGED <<task, events>>

Return(w, outcome) ==
  /\ wpc' = [wpc EXCEPT ![w] = "returned"]
  /\ result' = [result EXCEPT ![w] = outcome]

(* Faulty variant: the loop runs over 1..total without the last step. *)
LoopDoneEarly(w) == step[w] = Total - 1

LoopDone(w) == step[w] = Total

(* Top of the loop of create_progress_task, and the check before the sleep. *)
ProgressTop(w) ==
  /\ wpc[w] = "top"
  /\ job[held[w]] = "progress"
  /\ IF LoopDone(w) \/ flag[held[w]]
     THEN Return(w, "ok")
     ELSE /\ wpc' = [wpc EXCEPT ![w] = "sleeping"]
          /\ UNCHANGED result
  /\ UNCHANGED <<queueVars, recordVars, receiver, held, step, closerVars>>

(* After the sleep: the second check and report_progress.  The flag is     *)
(* never lowered, so the unlocked checks add nothing to the locked one.    *)
ProgressStep(w) ==
  /\ wpc[w] = "sleeping"
  /\ Report(held[w], step[w] + 1)
  /\ IF Reportable(held[w])
     THEN /\ wpc' = [wpc EXCEPT ![w] = "top"]
          /\ step' = [step EXCEPT ![w] = @ + 1]
          /\ UNCHANGED result
     ELSE Return(w, "ok") /\ UNCHANGED step
  /\ UNCHANGED <<queueVars, flag, receiver, held, closerVars>>

(* Any other job: it may report anything and ignore the answer.            *)
GenericReport(w, completed) ==
  /\ wpc[w] = "top"
  /\ job[held[w]] = "generic"
  /\ step[w] < MaxReports
  /\ Report(held[w], completed)
  /\ step' = [step EXCEPT ![w] = @ + 1]
  /\ UNCHANGED <<queueVars, flag, receiver, wpc, held, result, closerVars>>

GenericReturn(w, outcome) ==
  /\ wpc[w] = "top"
  /\ job[held[w]] = "generic"
  /\ Return(w, outcome)
  /\ UNCHANGED <<queueVars, recordVars, receiver, held, step, closerVars>>

(* Faulty variant: completion overwrites whatever the record says. *)
FinishableUnchecked(id) == TRUE

Finishable(id) == ~flag[id] /\ IsLive(task[id])

(* finish_success or finish_failure, then back to worker_loop.             *)
Finish(w) ==
  LET id == held[w]
  IN  /\ wpc[w] = "returned"
      /\ IF Finishable(id)
         THEN Record("finished", IF result[w] = "ok"
                                 THEN Succeeded(task[id])
                                 ELSE Failed(task[id], result[w]))
         ELSE UNCHANGED <<task, events>>
      /\ wpc' = [wpc EXCEPT ![w] = "idle"]
      /\ held' = [held EXCEPT ![w] = 0]
      /\ step' = [step EXCEPT ![w] = 0]
      /\ result' = [result EXCEPT ![w] = "ok"]
      /\ UNCHANGED <<queueVars, flag, receiver, closerVars>>

-----------------------------------------------------------------------------
(* Shutdown.                                                               *)

(* Faulty variant: shutdown does not take the sender. *)
CloseSenderKept(k) ==
  /\ cpc[k] = "idle"
  /\ cpc' = [cpc EXCEPT ![k] = "closed"]
  /\ UNCHANGED <<queueVars, recordVars, workerVars, unpublished>>

CloseSender(k) ==
  /\ cpc[k] = "idle"
  /\ senderOpen' = FALSE
  /\ cpc' = [cpc EXCEPT ![k] = "closed"]
  /\ UNCHANGED <<nextId, queue, submitting, job, recordVars, workerVars,
                 unpublished>>

(* One write lock for the whole table; nothing is published yet.           *)
CancelAll(k) ==
  LET live == {id \in Ids : IsLive(task[id])}
  IN  /\ cpc[k] = "closed"
      /\ flag' = [id \in Ids |-> flag[id] \/ id \in live]
      /\ task' = [id \in Ids |-> IF id \in live THEN Cancelled(task[id])
                                                ELSE task[id]]
      /\ unpublished' = [unpublished EXCEPT ![k] = {task'[id] : id \in live}]
      /\ cpc' = [cpc EXCEPT ![k] = "publishing"]
      /\ UNCHANGED <<queueVars, events, workerVars>>

(* The snapshots were collected in id order and go out one by one, with    *)
(* the record lock released.                                               *)
PublishCancelled(k) ==
  /\ cpc[k] = "publishing"
  /\ \E snapshot \in unpublished[k] :
       /\ \A other \in unpublished[k] : snapshot.id <= other.id
       /\ Publish("finished", snapshot)
       /\ unpublished' = [unpublished EXCEPT ![k] = @ \ {snapshot}]
  /\ UNCHANGED <<queueVars, task, flag, workerVars, cpc>>

(* Faulty variant: shutdown returns before it has published everything. *)
ShutdownReturnsEarly(k) ==
  /\ cpc[k] = "publishing"
  /\ cpc' = [cpc EXCEPT ![k] = "done"]
  /\ UNCHANGED <<queueVars, recordVars, workerVars, unpublished>>

ShutdownReturns(k) ==
  /\ cpc[k] = "publishing"
  /\ unpublished[k] = {}
  /\ cpc' = [cpc EXCEPT ![k] = "done"]
  /\ UNCHANGED <<queueVars, recordVars, workerVars, unpublished>>

-----------------------------------------------------------------------------
ClientStep(c) == DrawId(c) \/ Submit(c) \/ SubmitRejected(c)

JobStep(w) ==
  \/ ProgressTop(w)
  \/ ProgressStep(w)
  \/ \E completed \in 0..(Total + 1) : GenericReport(w, completed)
  \/ \E outcome \in Outcomes : GenericReturn(w, outcome)

(* What the runtime does for a worker without help from the job.           *)
WorkerStep(w) ==
  LockReceiver(w) \/ Receive(w) \/ Stop(w) \/ StartTask(w) \/ SkipTask(w)
    \/ Finish(w)

ShutdownStep(k) ==
  CloseSender(k) \/ CancelAll(k) \/ PublishCancelled(k) \/ ShutdownReturns(k)

(* The manager is gone: every shutdown returned and every worker stopped.  *)
Terminated ==
  /\ \A k \in Closers : cpc[k] = "done"
  /\ \A w \in Workers : wpc[w] = "stopped"
  /\ \A c \in Clients : submitting[c] = 0
  /\ UNCHANGED vars

Next ==
  \/ \E c \in Clients : ClientStep(c)
  \/ \E id \in Ids : Cancel(id)
  \/ \E w \in Workers : WorkerStep(w) \/ JobStep(w)
  \/ \E k \in Closers : ShutdownStep(k)
  \/ Terminated

Spec == Init /\ [][Next]_vars

-----------------------------------------------------------------------------
(* Fairness.  The async runtime keeps polling a worker that can move, and  *)
(* the blocking pool keeps running the job of create_progress_task, whose  *)
(* loop never waits on anybody.  A shutdown call, once made, runs to its   *)
(* end.  No client has to submit or cancel, nobody has to call shutdown,   *)
(* and a generic job may never return.                                     *)
Fairness ==
  /\ \A w \in Workers : /\ WF_vars(WorkerStep(w))
                        /\ WF_vars(ProgressTop(w) \/ ProgressStep(w))
  /\ \A k \in Closers :
       WF_vars(CancelAll(k) \/ PublishCancelled(k) \/ ShutdownReturns(k))

FairSpec == Spec /\ Fairness

-----------------------------------------------------------------------------
(* Types: every variable holds what its Rust type can hold, the channel    *)
(* holds at most Capacity jobs and at most one worker owns the receiver.   *)
TypeOK ==
  /\ nextId \in 1..(MaxId + 1)
  /\ senderOpen \in BOOLEAN
  /\ queue \in Seq(Ids) /\ Len(queue) <= Capacity
  /\ task \in [Ids -> Snapshots]
  /\ flag \in [Ids -> BOOLEAN]
  /\ job \in [Ids -> JobKinds \cup {"none"}]
  /\ events \in Seq(Events)
  /\ submitting \in [Clients -> 0..MaxId]
  /\ receiver \in Workers \cup {None}
  /\ wpc \in [Workers -> WorkerPlaces]
  /\ held \in [Workers -> 0..MaxId]
  /\ step \in [Workers -> Nat]
  /\ result \in [Workers -> Outcomes]
  /\ cpc \in [Closers -> CloserPlaces]
  /\ unpublished \in [Closers -> SUBSET Snapshots]

(* Event protocol: whatever cancel, completion, progress and shutdown race *)
(* for, the events of one task are created, started, progressed*,          *)
(* finished, each of them once except progressed; in particular a task     *)
(* finishes once and nothing follows it (the doc's promise for a cancel    *)
(* racing a progress report).                                              *)
EventProtocol == InProtocol(events)

(* A shutdown call has cancelled this task and not announced it yet.       *)
Owed(id) == \E k \in Closers : \E s \in unpublished[k] : s.id = id

(* The events tell the records: a record appears with its created event,   *)
(* and from then on the last event of the task carries exactly the         *)
(* snapshot a reader of the table gets, except for the tasks a shutdown    *)
(* has cancelled and not announced yet.                                    *)
EventsTellRecords ==
  \A id \in Ids :
    IF HasEvent(events, "created", id)
    THEN task[id].state # "absent" /\ (Owed(id) \/ LastEventIs(events, task[id]))
    ELSE task[id].state = "absent"

(* No stranded record: a pending task is in the channel or in the hands of *)
(* a worker about to start it, a running one is run by exactly one worker; *)
(* so a rejected submission leaves no record behind, a closed channel      *)
(* strands nothing, and no job runs twice.                                 *)
NoStrandedTask ==
  \A id \in Ids :
    /\ task[id].state = "pending"
         => \/ \E i \in DOMAIN queue : queue[i] = id
            \/ \E w \in Workers : wpc[w] = "dequeued" /\ held[w] = id
    /\ task[id].state = "running"
         => \E w \in Workers : wpc[w] \in Executing /\ held[w] = id
    /\ \A v, w \in Workers : held[v] = id /\ held[w] = id => v = w

(* FIFO: jobs wait in the order their submissions were announced, which is *)
(* not the order of their ids, and whatever a worker has taken was         *)
(* announced before everything that still waits.                           *)
CreatedBefore(a, b) ==
  \E i, j \in DOMAIN events :
    /\ i < j
    /\ events[i].kind = "created" /\ events[i].task.id = a
    /\ events[j].kind = "created" /\ events[j].task.id = b

FifoOrder ==
  \A j \in DOMAIN queue :
    /\ \A i \in DOMAIN queue : i < j => CreatedBefore(queue[i], queue[j])
    /\ \A w \in Workers : held[w] # 0 => CreatedBefore(held[w], queue[j])

(* Once one shutdown call has cancelled the table no live record exists    *)
(* and none appears any more, whatever submissions were under way; and     *)
(* when every call that got that far has returned, all tasks have been     *)
(* announced as finished.                                                  *)
ShutdownIsFinal ==
  /\ (\E k \in Closers : cpc[k] \in {"publishing", "done"})
       => \A id \in Ids : ~IsLive(task[id])
  /\ ((\E k \in Closers : cpc[k] = "done")
      /\ (\A k \in Closers : cpc[k] # "publishing"))
       => \A id \in Ids : \/ task[id].state = "absent"
                          \/ HasEvent(events, "finished", id)

(* A task of create_progress_task that succeeded reported every step, one  *)
(* by one: its loop also returns Ok when it notices a cancellation, and    *)
(* that Ok never becomes a success.                                        *)
SuccessReportedEveryStep ==
  \A id \in Ids :
    task[id].state = "success" /\ job[id] = "progress"
      => \A n \in 1..Total : \E i \in DOMAIN events :
           /\ events[i].kind = "progressed"
           /\ events[i].task.id = id
           /\ events[i].task.completed = n

(* The manager implements the life cycle that snapshots and events promise *)
Lifecycle == INSTANCE TaskLifecycle
               WITH owed <- UNION {unpublished[k] : k \in Closers}

(* Every step of clients, workers, jobs and shutdown calls is a legal step *)
(* of the documented state machine of some task, announced in the same     *)
(* step, or the mass cancellation, or invisible.                           *)
ImplementsLifecycle == Lifecycle!Spec

-----------------------------------------------------------------------------
(* Every accepted task reaches a terminal state, if jobs end.              *)
AcceptedTasksFinish ==
  \A id \in Ids : IsLive(task[id]) ~> IsTerminal(task[id])

(* A shutdown makes every worker leave its loop, if jobs end: closing the  *)
(* channel wakes the one that waits in recv and then each of the others.   *)
WorkersStopAfterShutdown ==
  ~senderOpen ~> \A w \in Workers : wpc[w] = "stopped"

(* Every terminal task is announced, also one cancelled by a shutdown that *)
(* publishes after it has released the records.                            *)
TerminalIsAnnounced ==
  \A id \in Ids :
    IsTerminal(task[id]) ~> HasEvent(events, "finished", id)
=============================================================================
