------------------------- MODULE TaskManagerProofs --------------------------
(***************************************************************************)
(* Proofs about TaskManager for any number of clients, workers, shutdown   *)
(* calls, ids and work units, and any capacity: type correctness, that no  *)
(* task is stranded, that shutdown is final, and that every behavior       *)
(* implements the abstract life cycle, from which the event protocol       *)
(* follows.                                                                *)
(***************************************************************************)
EXTENDS TaskManager, TLAPS

L == INSTANCE TaskLifecycleProofs
       WITH owed <- UNION {unpublished[k] : k \in Closers}

(* What the pure transitions of a snapshot yield, as TaskLifecycleProofs   *)
(* shows it.                                                               *)
LEMMA SnapshotTransitions ==
  ASSUME NEW s \in Snapshots
  PROVE  /\ Pending(s.id) \in Snapshots
         /\ Started(s) \in Snapshots /\ Started(s).id = s.id
         /\ Started(s).state = "running"
         /\ Succeeded(s) \in Snapshots /\ Succeeded(s).id = s.id
         /\ Succeeded(s).state = "success"
         /\ Cancelled(s) \in Snapshots /\ Cancelled(s).id = s.id
         /\ Cancelled(s).state = "cancelled"
         /\ \A error \in {"failure", "crash"} :
              /\ Failed(s, error) \in Snapshots /\ Failed(s, error).id = s.id
              /\ Failed(s, error).state = "failed"
         /\ \A n \in Nat : /\ Update(s, n) \in Snapshots
                           /\ Update(s, n).id = s.id
                           /\ Update(s, n).state = s.state
<1>1. L!Snapshots = Snapshots
  BY DEF L!Snapshots, L!Ids, L!TaskStates, L!Errors, L!TerminalStates,
         Snapshots, Ids, TaskStates, Errors, TerminalStates
<1>2. L!Pending(s.id) = Pending(s.id) /\ L!Started(s) = Started(s)
  BY DEF L!Pending, L!Started, Pending, Started
<1>3. /\ \A n : L!Update(s, n) = Update(s, n)
      /\ L!Succeeded(s) = Succeeded(s)
  BY DEF L!Update, L!Succeeded, Update, Succeeded
<1>4. /\ L!Cancelled(s) = Cancelled(s)
      /\ \A error : L!Failed(s, error) = Failed(s, error)
  BY DEF L!Cancelled, L!Failed, Cancelled, Failed
<1>5. L!TaskDomainAssumption
  BY TaskDomainAssumption DEF L!TaskDomainAssumption
<1>6. QED
  BY <1>1, <1>2, <1>3, <1>4, <1>5, L!SnapshotTransitions

-----------------------------------------------------------------------------
(* The inductive invariant.                                                *)

Typed == TypeOK /\ \A id \in Ids : task[id].id = id

(* An id nobody submitted yet has no record, and no two clients hold the   *)
(* same one.                                                               *)
DrawnIdsAreFresh ==
  /\ \A id \in Ids : id >= nextId => task[id].state = "absent"
  /\ \A c \in Clients :
       submitting[c] # 0 => /\ submitting[c] < nextId
                            /\ task[submitting[c]].state = "absent"
  /\ \A c, d \in Clients :
       submitting[c] # 0 /\ submitting[c] = submitting[d] => c = d

FlagMeansCancelled ==
  \A id \in Ids : flag[id] <=> task[id].state = "cancelled"

(* What waits in the channel has not been started, waits once, and is not  *)
(* in the hands of a worker.                                               *)
QueuedIsWaiting ==
  /\ \A i \in DOMAIN queue : task[queue[i]].state \in {"pending", "cancelled"}
  /\ \A i, j \in DOMAIN queue : queue[i] = queue[j] => i = j
  /\ \A i \in DOMAIN queue, w \in Workers : queue[i] # held[w]

(* What a worker holds, at each place of its loop.                         *)
HeldFitsPlace ==
  /\ \A w \in Workers :
       /\ wpc[w] \in {"idle", "receiving", "stopped"} => held[w] = 0
       /\ wpc[w] = "dequeued"
            => held[w] # 0 /\ task[held[w]].state \in {"pending", "cancelled"}
       /\ wpc[w] \in Executing
            => held[w] # 0 /\ task[held[w]].state \in {"running", "cancelled"}
  /\ \A v, w \in Workers : held[v] # 0 /\ held[v] = held[w] => v = w

(* Shutdown calls: what they have done, and what they still owe.           *)
ClosersFit ==
  /\ \A k \in Closers :
       /\ cpc[k] # "idle" => ~senderOpen
       /\ cpc[k] \in {"publishing", "done"} => \A id \in Ids : ~IsLive(task[id])
       /\ cpc[k] # "publishing" => unpublished[k] = {}
       /\ \A s \in unpublished[k] : s.state = "cancelled" /\ task[s.id] = s
  /\ \A j, k \in Closers : j # k => unpublished[j] \cap unpublished[k] = {}

IInv ==
  /\ Typed
  /\ DrawnIdsAreFresh
  /\ FlagMeansCancelled
  /\ QueuedIsWaiting
  /\ HeldFitsPlace
  /\ NoStrandedTask
  /\ ClosersFit

-----------------------------------------------------------------------------
LEMMA InitIInv == Init => IInv
<1> SUFFICES ASSUME Init PROVE IInv
  OBVIOUS
<1>1. Typed
  BY TaskDomainAssumption, TaskManagerAssumption
     DEF Init, Typed, TypeOK, NoRecord, Snapshots, TaskStates, Errors, Ids,
         WorkerPlaces, CloserPlaces, Outcomes
<1>2. DOMAIN queue = {} /\ \A id \in Ids : task[id].state = "absent"
  BY DEF Init, NoRecord
<1>3. DrawnIdsAreFresh /\ FlagMeansCancelled /\ QueuedIsWaiting
  BY <1>2 DEF Init, DrawnIdsAreFresh, FlagMeansCancelled, QueuedIsWaiting
<1>4. HeldFitsPlace
  BY DEF Init, HeldFitsPlace, Executing
<1>5. NoStrandedTask
  BY <1>2, TaskDomainAssumption DEF Init, NoStrandedTask, Ids
<1>6. ClosersFit
  BY DEF Init, ClosersFit
<1>7. QED
  BY <1>1, <1>3, <1>4, <1>5, <1>6 DEF IInv

(* Storing and publishing a snapshot changes one record and keeps types.   *)
LEMMA RecordFacts ==
  ASSUME Typed, NEW kind \in EventKinds, NEW snapshot \in Snapshots,
         Record(kind, snapshot)
  PROVE  /\ task' \in [Ids -> Snapshots]
         /\ events' \in Seq(Events)
         /\ snapshot.id \in Ids
         /\ task'[snapshot.id] = snapshot
         /\ \A id \in Ids : id # snapshot.id => task'[id] = task[id]
         /\ \A id \in Ids : task'[id].id = id
<1>1. snapshot.id \in Ids
  BY DEF Snapshots
<1>2. [kind |-> kind, task |-> snapshot] \in Events
  BY DEF Events
<1>3. QED
  BY <1>1, <1>2 DEF Record, Publish, Typed, TypeOK

-----------------------------------------------------------------------------
(* Clients.                                                                *)

LEMMA DrawIdKeepsIInv ==
  ASSUME IInv, NEW c \in Clients, DrawId(c) PROVE IInv'
<1>1. Typed'
  BY TaskDomainAssumption DEF IInv, Typed, TypeOK, DrawId, recordVars,
     workerVars, closerVars, Ids
<1>2. DrawnIdsAreFresh'
  BY TaskDomainAssumption DEF IInv, Typed, TypeOK, DrawId, recordVars,
     DrawnIdsAreFresh, Ids
<1>3. QED
  BY <1>1, <1>2 DEF IInv, DrawId, recordVars, workerVars, closerVars,
     FlagMeansCancelled, QueuedIsWaiting, HeldFitsPlace, NoStrandedTask,
     ClosersFit

LEMMA SubmitKeepsIInv ==
  ASSUME IInv, NEW c \in Clients, Submit(c) PROVE IInv'
<1> DEFINE id == submitting[c]
<1>1. /\ id \in Ids
      /\ task[id].state = "absent"
      /\ task[id] \in Snapshots /\ task[id].id = id
  BY TaskDomainAssumption
     DEF IInv, Typed, TypeOK, Submit, DrawnIdsAreFresh, Ids
<1>2. /\ Pending(id) \in Snapshots
      /\ Pending(id).id = id /\ Pending(id).state = "pending"
  BY <1>1, SnapshotTransitions, TaskDomainAssumption DEF Pending
<1>3. Record("created", Pending(id))
  BY DEF Submit
<1>4. /\ task' \in [Ids -> Snapshots]
      /\ events' \in Seq(Events)
      /\ task'[id] = Pending(id)
      /\ \A i \in Ids : i # id => task'[i] = task[i]
      /\ \A i \in Ids : task'[i].id = i
  BY <1>1, <1>2, <1>3, RecordFacts DEF IInv, EventKinds
<1>5. /\ queue' = Append(queue, id)
      /\ Len(queue) < Capacity
      /\ UNCHANGED <<nextId, senderOpen, receiver, wpc, held, step, result,
                     cpc, unpublished>>
  BY DEF Submit, Enqueue, workerVars, closerVars
<1>6. /\ queue' \in Seq(Ids)
      /\ Len(queue) \in Nat
      /\ Len(queue') = Len(queue) + 1
      /\ DOMAIN queue = 1..Len(queue)
      /\ DOMAIN queue' = 1..(Len(queue) + 1)
      /\ queue'[Len(queue) + 1] = id
      /\ \A i \in DOMAIN queue : queue'[i] = queue[i] /\ queue[i] \in Ids
  BY <1>1, <1>5 DEF IInv, Typed, TypeOK
<1>7. /\ \A i \in DOMAIN queue : queue[i] # id
      /\ \A w \in Workers : held[w] # id
  <2>1. \A i \in DOMAIN queue : queue[i] # id
    BY <1>1 DEF IInv, QueuedIsWaiting
  <2>2. ASSUME NEW w \in Workers PROVE held[w] # id
    <3>1. wpc[w] \in WorkerPlaces
      BY DEF IInv, Typed, TypeOK
    <3>2. held[w] = 0 \/ task[held[w]].state # "absent"
      BY <3>1 DEF IInv, HeldFitsPlace, Executing, WorkerPlaces
    <3>3. QED BY <1>1, <3>2, TaskDomainAssumption DEF Ids
  <2>3. QED BY <2>1, <2>2
<1>8. Typed'
  <2>1. job' \in [Ids -> JobKinds \cup {"none"}]
    <3>1. PICK kind \in JobKinds : job' = [job EXCEPT ![id] = kind]
      BY DEF Submit
    <3>2. job \in [Ids -> JobKinds \cup {"none"}]
      BY DEF IInv, Typed, TypeOK
    <3>3. QED BY <1>1, <3>1, <3>2
  <2>2. flag' \in [Ids -> BOOLEAN] /\ submitting' \in [Clients -> 0..MaxId]
    <3>1. /\ flag' = [flag EXCEPT ![id] = FALSE]
          /\ submitting' = [submitting EXCEPT ![c] = 0]
      BY DEF Submit
    <3>2. /\ flag \in [Ids -> BOOLEAN]
          /\ submitting \in [Clients -> 0..MaxId]
          /\ 0 \in 0..MaxId
      BY TaskDomainAssumption DEF IInv, Typed, TypeOK
    <3>3. QED BY <1>1, <3>1, <3>2
  <2>3. Len(queue') <= Capacity
    BY <1>5, <1>6, TaskManagerAssumption
  <2>4. QED
    BY <1>4, <1>5, <1>6, <2>1, <2>2, <2>3 DEF IInv, Typed, TypeOK
<1>9. DrawnIdsAreFresh'
  <2>1. submitting' = [submitting EXCEPT ![c] = 0]
    BY DEF Submit
  <2>2. submitting \in [Clients -> 0..MaxId] /\ nextId \in 1..(MaxId + 1)
    BY DEF IInv, Typed, TypeOK
  <2>3. \A d \in Clients : submitting[d] # 0 => submitting[d] \in Ids
    BY <2>2, TaskDomainAssumption DEF Ids
  <2>4. id < nextId /\ \A d \in Clients : d # c => submitting[d] # id
    BY DEF IInv, DrawnIdsAreFresh, Submit
  <2>5. \A i \in Ids : i >= nextId => i # id
    BY <2>2, <2>4, TaskDomainAssumption DEF Ids
  <2>6. QED
    BY <1>4, <1>5, <2>1, <2>2, <2>3, <2>4, <2>5, ZenonT(30) DEF IInv, DrawnIdsAreFresh
<1>10. FlagMeansCancelled'
  BY <1>1, <1>2, <1>4 DEF IInv, FlagMeansCancelled, Submit, Typed, TypeOK
<1>11. QueuedIsWaiting'
  BY <1>1, <1>2, <1>4, <1>5, <1>6, <1>7 DEF IInv, QueuedIsWaiting
<1>12. HeldFitsPlace'
  <2>1. \A w \in Workers : held[w] # 0 => held[w] \in Ids
    BY TaskDomainAssumption DEF IInv, Typed, TypeOK, Ids
  <2>2. QED
    BY <1>4, <1>5, <1>7, <2>1 DEF IInv, HeldFitsPlace
<1>13. NoStrandedTask'
  BY <1>2, <1>4, <1>5, <1>6, <1>7 DEF IInv, NoStrandedTask
<1>14. ClosersFit'
  <2>1. \A k \in Closers : cpc[k] = "idle"
    BY DEF IInv, ClosersFit, Submit
  <2>2. QED BY <1>5, <2>1 DEF IInv, ClosersFit
<1>15. QED
  BY <1>8, <1>9, <1>10, <1>11, <1>12, <1>13, <1>14 DEF IInv

LEMMA SubmitRejectedKeepsIInv ==
  ASSUME IInv, NEW c \in Clients, SubmitRejected(c) PROVE IInv'
<1>1. Typed'
  BY TaskDomainAssumption DEF IInv, Typed, TypeOK, SubmitRejected, recordVars,
     workerVars, closerVars, Ids
<1>2. DrawnIdsAreFresh'
  BY TaskDomainAssumption DEF IInv, Typed, TypeOK, SubmitRejected, recordVars,
     DrawnIdsAreFresh, Ids
<1>3. QED
  BY <1>1, <1>2 DEF IInv, SubmitRejected, recordVars, workerVars, closerVars,
     FlagMeansCancelled, QueuedIsWaiting, HeldFitsPlace, NoStrandedTask,
     ClosersFit

(* A live task is not among the snapshots any shutdown call still owes.    *)
LEMMA LiveIsNotOwed ==
  ASSUME IInv, NEW id \in Ids, IsLive(task[id])
  PROVE  /\ \A k \in Closers : cpc[k] \notin {"publishing", "done"}
         /\ \A k \in Closers : unpublished[k] = {}
BY DEF IInv, ClosersFit

(* One live record moves on, outside shutdown: what every such step keeps. *)
LEMMA LiveMoveKeeps ==
  ASSUME IInv, NEW id \in Ids, IsLive(task[id]),
         NEW snapshot \in Snapshots, snapshot.id = id,
         snapshot.state \in TaskStates \ {"absent", "pending"},
         NEW kind \in EventKinds,
         Record(kind, snapshot),
         UNCHANGED <<queueVars, closerVars>>
  PROVE  /\ task' \in [Ids -> Snapshots]
         /\ events' \in Seq(Events)
         /\ task'[id] = snapshot
         /\ \A i \in Ids : i # id => task'[i] = task[i]
         /\ \A i \in Ids : task'[i].id = i
         /\ DrawnIdsAreFresh'
         /\ ClosersFit'
<1>1. /\ task' \in [Ids -> Snapshots]
      /\ events' \in Seq(Events)
      /\ task'[id] = snapshot
      /\ \A i \in Ids : i # id => task'[i] = task[i]
      /\ \A i \in Ids : task'[i].id = i
  BY RecordFacts DEF IInv
<1>2. DrawnIdsAreFresh'
  <2>1. \A c \in Clients : submitting[c] # 0 => submitting[c] \in Ids
    BY TaskDomainAssumption DEF IInv, Typed, TypeOK, Ids
  <2>2. task[id].state # "absent"
    BY DEF IsLive
  <2>3. QED
    BY <1>1, <2>1, <2>2 DEF IInv, DrawnIdsAreFresh, queueVars
<1>3. ClosersFit'
  BY <1>1, LiveIsNotOwed DEF IInv, ClosersFit, closerVars, queueVars
<1>4. QED BY <1>1, <1>2, <1>3

LEMMA CancelKeepsIInv ==
  ASSUME IInv, NEW id \in Ids, Cancel(id) PROVE IInv'
<1> DEFINE snapshot == Cancelled(task[id])
<1>1. /\ task[id] \in Snapshots /\ task[id].id = id /\ IsLive(task[id])
      /\ snapshot \in Snapshots /\ snapshot.id = id
      /\ snapshot.state = "cancelled"
      /\ snapshot.state \in TaskStates \ {"absent", "pending"}
  BY SnapshotTransitions
     DEF IInv, Typed, TypeOK, Cancel, TaskStates, TerminalStates
<1>2. /\ Record("finished", snapshot) /\ "finished" \in EventKinds
      /\ UNCHANGED <<queueVars, workerVars, closerVars>>
      /\ flag' = [flag EXCEPT ![id] = TRUE]
  BY DEF Cancel, EventKinds
<1>3. /\ task' \in [Ids -> Snapshots]
      /\ events' \in Seq(Events)
      /\ task'[id] = snapshot
      /\ \A i \in Ids : i # id => task'[i] = task[i]
      /\ \A i \in Ids : task'[i].id = i
      /\ DrawnIdsAreFresh'
      /\ ClosersFit'
  BY <1>1, <1>2, LiveMoveKeeps
<1>4. Typed'
  BY <1>2, <1>3 DEF IInv, Typed, TypeOK, queueVars, workerVars, closerVars
<1>5. FlagMeansCancelled'
  BY <1>1, <1>2, <1>3 DEF IInv, Typed, TypeOK, FlagMeansCancelled
<1>6. QueuedIsWaiting'
  <2>1. \A i \in DOMAIN queue : queue[i] \in Ids
    BY DEF IInv, Typed, TypeOK
  <2>2. QED
    BY <1>1, <1>2, <1>3, <2>1
       DEF IInv, QueuedIsWaiting, queueVars, workerVars
<1>7. HeldFitsPlace'
  <2>1. \A w \in Workers : held[w] # 0 => held[w] \in Ids
    BY TaskDomainAssumption DEF IInv, Typed, TypeOK, Ids
  <2>2. QED
    BY <1>1, <1>2, <1>3, <2>1 DEF IInv, HeldFitsPlace, workerVars
<1>8. NoStrandedTask'
  BY <1>1, <1>2, <1>3 DEF IInv, NoStrandedTask, queueVars, workerVars
<1>9. QED
  BY <1>3, <1>4, <1>5, <1>6, <1>7, <1>8 DEF IInv

-----------------------------------------------------------------------------
(* Workers.                                                                *)

(* A worker moves between places that say the same about what it holds.    *)
LEMMA SameHoldings ==
  ASSUME IInv, NEW w \in Workers, NEW place \in WorkerPlaces,
         wpc' = [wpc EXCEPT ![w] = place],
         UNCHANGED <<task, queue, held>>,
         wpc[w] = "dequeued" <=> place = "dequeued",
         wpc[w] \in Executing <=> place \in Executing
  PROVE  HeldFitsPlace' /\ NoStrandedTask'
<1>1. wpc \in [Workers -> WorkerPlaces]
  BY DEF IInv, Typed, TypeOK
<1>2. \A v \in Workers : /\ wpc'[v] = "dequeued" <=> wpc[v] = "dequeued"
                         /\ wpc'[v] \in Executing <=> wpc[v] \in Executing
  BY <1>1
<1>3. \A v \in Workers : wpc'[v] \in {"idle", "receiving", "stopped"}
                           => wpc[v] \in {"idle", "receiving", "stopped"}
  BY <1>1, <1>2 DEF WorkerPlaces, Executing
<1>4. HeldFitsPlace'
  BY <1>2, <1>3 DEF IInv, HeldFitsPlace
<1>5. NoStrandedTask'
  BY <1>2 DEF IInv, NoStrandedTask
<1>6. QED BY <1>4, <1>5

LEMMA LockReceiverKeepsIInv ==
  ASSUME IInv, NEW w \in Workers, LockReceiver(w) PROVE IInv'
<1>1. Typed'
  BY DEF IInv, Typed, TypeOK, LockReceiver, queueVars, recordVars, closerVars,
     WorkerPlaces
<1>2. HeldFitsPlace' /\ NoStrandedTask'
  BY SameHoldings
     DEF LockReceiver, queueVars, recordVars, WorkerPlaces, Executing
<1>3. QED
  BY <1>1, <1>2 DEF IInv, LockReceiver, queueVars, recordVars, closerVars,
     DrawnIdsAreFresh, FlagMeansCancelled, QueuedIsWaiting, ClosersFit

LEMMA ReceiveKeepsIInv ==
  ASSUME IInv, NEW w \in Workers, Receive(w) PROVE IInv'
<1> DEFINE id == Head(queue)
<1>1. /\ queue \in Seq(Ids) /\ queue # <<>>
      /\ Len(queue) \in Nat \ {0} /\ DOMAIN queue = 1..Len(queue)
      /\ id = queue[1] /\ id \in Ids
      /\ queue' = Tail(queue) /\ queue' \in Seq(Ids)
      /\ Len(queue') = Len(queue) - 1 /\ DOMAIN queue' = 1..(Len(queue) - 1)
      /\ \A i \in DOMAIN queue' : queue'[i] = queue[i + 1]
  BY DEF IInv, Typed, TypeOK, Receive
<1>2. /\ held' = [held EXCEPT ![w] = id]
      /\ wpc' = [wpc EXCEPT ![w] = "dequeued"]
      /\ wpc[w] = "receiving"
      /\ receiver' = None
      /\ UNCHANGED <<nextId, senderOpen, submitting, job, recordVars, step,
                     result, closerVars>>
  BY DEF Receive
<1>3. /\ held[w] = 0
      /\ held \in [Workers -> 0..MaxId] /\ wpc \in [Workers -> WorkerPlaces]
  BY <1>2 DEF IInv, HeldFitsPlace, Typed, TypeOK
<1>4. Typed'
  <2>1. held' \in [Workers -> 0..MaxId] /\ wpc' \in [Workers -> WorkerPlaces]
    BY <1>1, <1>2, <1>3, TaskDomainAssumption DEF Ids, WorkerPlaces
  <2>2. Len(queue') <= Capacity
    BY <1>1, TaskManagerAssumption DEF IInv, Typed, TypeOK
  <2>3. QED
    BY <1>1, <1>2, <2>1, <2>2
       DEF IInv, Typed, TypeOK, recordVars, closerVars
<1>5. QueuedIsWaiting'
  <2>1. \A i \in DOMAIN queue' : i + 1 \in DOMAIN queue /\ i + 1 # 1
    BY <1>1
  <2>2. QED
    BY <1>1, <1>2, <1>3, <2>1, SMTT(30) DEF IInv, QueuedIsWaiting, recordVars
<1>6. HeldFitsPlace'
  <2>1. \A v \in Workers : held[v] # id
    BY <1>1 DEF IInv, QueuedIsWaiting
  <2>2. id # 0 /\ task[id].state \in {"pending", "cancelled"}
    BY <1>1, TaskDomainAssumption, SMTT(30) DEF IInv, QueuedIsWaiting, Ids
  <2>3. QED
    BY <1>2, <1>3, <2>1, <2>2
       DEF IInv, HeldFitsPlace, recordVars, Executing
<1>7. NoStrandedTask'
  <2>1. \A i \in DOMAIN queue : i = 1 \/ (i - 1 \in DOMAIN queue'
                                            /\ queue'[i - 1] = queue[i])
    BY <1>1
  <2>2. \A v \in Workers : v # w => held'[v] = held[v] /\ wpc'[v] = wpc[v]
    BY <1>2, <1>3
  <2>3. held'[w] = id /\ wpc'[w] = "dequeued" /\ wpc[w] \notin Executing
    BY <1>2, <1>3 DEF Executing
  <2>4. \A v \in Workers : held[v] # id
    BY <1>1 DEF IInv, QueuedIsWaiting
  <2>5. task' = task
    BY <1>2 DEF recordVars
  <2>6. ASSUME NEW i \in Ids, task[i].state = "pending"
        PROVE  \/ \E j \in DOMAIN queue' : queue'[j] = i
               \/ \E v \in Workers : wpc'[v] = "dequeued" /\ held'[v] = i
    <3>1. CASE \E j \in DOMAIN queue : queue[j] = i
      BY <3>1, <1>1, <2>1, <2>3
    <3>2. CASE \E v \in Workers : wpc[v] = "dequeued" /\ held[v] = i
      BY <3>2, <1>2, <2>2
    <3>3. QED BY <2>6, <3>1, <3>2 DEF IInv, NoStrandedTask
  <2>7. ASSUME NEW i \in Ids, task[i].state = "running"
        PROVE  \E v \in Workers : wpc'[v] \in Executing /\ held'[v] = i
    BY <1>2, <2>2, <2>3, <2>7 DEF IInv, NoStrandedTask
  <2>8. ASSUME NEW i \in Ids, NEW u \in Workers, NEW v \in Workers,
               held'[u] = i, held'[v] = i
        PROVE  u = v
    BY <2>2, <2>3, <2>4, <2>8 DEF IInv, NoStrandedTask
  <2>9. QED BY <2>5, <2>6, <2>7, <2>8 DEF NoStrandedTask
<1>8. QED
  BY <1>2, <1>4, <1>5, <1>6, <1>7
     DEF IInv, recordVars, closerVars, DrawnIdsAreFresh, FlagMeansCancelled,
         ClosersFit

LEMMA StopKeepsIInv ==
  ASSUME IInv, NEW w \in Workers, Stop(w) PROVE IInv'
<1>1. Typed'
  BY DEF IInv, Typed, TypeOK, Stop, queueVars, recordVars, closerVars,
     WorkerPlaces
<1>2. HeldFitsPlace' /\ NoStrandedTask'
  BY SameHoldings DEF Stop, queueVars, recordVars, WorkerPlaces, Executing
<1>3. QED
  BY <1>1, <1>2 DEF IInv, Stop, queueVars, recordVars, closerVars,
     DrawnIdsAreFresh, FlagMeansCancelled, QueuedIsWaiting, ClosersFit

(* A worker that only moves on in its loop, while its task stays the same. *)
LEMMA MoveKeepsIInv ==
  ASSUME IInv, NEW w \in Workers,
         wpc[w] \in Executing, NEW place \in Executing,
         wpc' = [wpc EXCEPT ![w] = place],
         step' \in [Workers -> Nat], result' \in [Workers -> Outcomes],
         UNCHANGED <<queueVars, recordVars, receiver, held, closerVars>>
  PROVE  IInv'
<1>1. Typed'
  BY DEF IInv, Typed, TypeOK, queueVars, recordVars, closerVars, WorkerPlaces,
     Executing
<1>2. HeldFitsPlace' /\ NoStrandedTask'
  BY SameHoldings DEF queueVars, recordVars, WorkerPlaces, Executing
<1>3. QED
  BY <1>1, <1>2 DEF IInv, queueVars, recordVars, closerVars, DrawnIdsAreFresh,
     FlagMeansCancelled, QueuedIsWaiting, ClosersFit

LEMMA StartTaskKeepsIInv ==
  ASSUME IInv, NEW w \in Workers, StartTask(w) PROVE IInv'
<1> DEFINE id == held[w]
           snapshot == Started(task[id])
<1>1. /\ wpc[w] = "dequeued" /\ id \in Ids
      /\ task[id] \in Snapshots /\ task[id].id = id
      /\ task[id].state = "pending" /\ IsLive(task[id])
  BY TaskDomainAssumption
     DEF IInv, Typed, TypeOK, StartTask, Startable, HeldFitsPlace, IsLive, Ids
<1>2. /\ snapshot \in Snapshots /\ snapshot.id = id
      /\ snapshot.state = "running"
      /\ snapshot.state \in TaskStates \ {"absent", "pending"}
  BY <1>1, SnapshotTransitions DEF TaskStates
<1>3. /\ Record("started", snapshot) /\ "started" \in EventKinds
      /\ wpc' = [wpc EXCEPT ![w] = "top"]
      /\ UNCHANGED <<queueVars, flag, receiver, held, step, result, closerVars>>
  BY DEF StartTask, EventKinds
<1>4. /\ task' \in [Ids -> Snapshots]
      /\ events' \in Seq(Events)
      /\ task'[id] = snapshot
      /\ \A i \in Ids : i # id => task'[i] = task[i]
      /\ \A i \in Ids : task'[i].id = i
      /\ DrawnIdsAreFresh'
      /\ ClosersFit'
  BY <1>1, <1>2, <1>3, LiveMoveKeeps
<1>5. /\ wpc \in [Workers -> WorkerPlaces]
      /\ \A v \in Workers : held[v] # 0 => held[v] \in Ids
      /\ \A i \in DOMAIN queue : queue[i] \in Ids
  BY TaskDomainAssumption DEF IInv, Typed, TypeOK, Ids
<1>6. /\ \A v \in Workers \ {w} : wpc'[v] = wpc[v]
      /\ wpc'[w] = "top"
  BY <1>3, <1>5
<1>7. Typed'
  BY <1>3, <1>4, <1>5 DEF IInv, Typed, TypeOK, queueVars, closerVars, WorkerPlaces
<1>8. FlagMeansCancelled'
  BY <1>1, <1>2, <1>3, <1>4 DEF IInv, FlagMeansCancelled
<1>9. QueuedIsWaiting'
  BY <1>3, <1>4, <1>5 DEF IInv, QueuedIsWaiting, queueVars
<1>10. HeldFitsPlace'
  <2>1. \A v \in Workers \ {w} : held[v] # id
    BY <1>1, TaskDomainAssumption DEF IInv, HeldFitsPlace, Ids
  <2>2. QED
    BY <1>1, <1>2, <1>3, <1>4, <1>5, <1>6, <2>1, TaskDomainAssumption
       DEF IInv, HeldFitsPlace, Executing, Ids
<1>11. NoStrandedTask'
  <2>1. ASSUME NEW i \in Ids, task'[i].state = "pending"
        PROVE  \/ \E j \in DOMAIN queue : queue[j] = i
               \/ \E v \in Workers : wpc'[v] = "dequeued" /\ held[v] = i
    BY <1>2, <1>4, <1>6, <2>1 DEF IInv, NoStrandedTask
  <2>2. ASSUME NEW i \in Ids, task'[i].state = "running"
        PROVE  \E v \in Workers : wpc'[v] \in Executing /\ held[v] = i
    BY <1>1, <1>4, <1>6, <2>2 DEF IInv, NoStrandedTask, Executing
  <2>3. QED
    BY <1>3, <2>1, <2>2 DEF IInv, NoStrandedTask, queueVars
<1>12. QED
  BY <1>4, <1>7, <1>8, <1>9, <1>10, <1>11 DEF IInv

(* A worker puts its task down when the task is terminal.                  *)
LEMMA PutDownKeeps ==
  ASSUME IInv, NEW w \in Workers,
         wpc[w] = "dequeued" \/ wpc[w] \in Executing,
         task' \in [Ids -> Snapshots],
         \A i \in Ids : i # held[w] => task'[i] = task[i],
         IsTerminal(task'[held[w]]),
         wpc' = [wpc EXCEPT ![w] = "idle"],
         held' = [held EXCEPT ![w] = 0],
         UNCHANGED queue
  PROVE  HeldFitsPlace' /\ NoStrandedTask'
<1> DEFINE id == held[w]
<1>1. /\ wpc \in [Workers -> WorkerPlaces] /\ held \in [Workers -> 0..MaxId]
      /\ id \in Ids
      /\ \A v \in Workers : held[v] # 0 => held[v] \in Ids
  BY TaskDomainAssumption DEF IInv, Typed, TypeOK, Ids, HeldFitsPlace
<1>2. /\ \A v \in Workers \ {w} : wpc'[v] = wpc[v] /\ held'[v] = held[v]
      /\ wpc'[w] = "idle" /\ held'[w] = 0 /\ id # 0
  BY <1>1, TaskDomainAssumption DEF Ids
<1>3. \A v \in Workers \ {w} : held[v] # id
  BY <1>2 DEF IInv, HeldFitsPlace
<1>4. HeldFitsPlace'
  <2>1. ASSUME NEW v \in Workers \ {w}
        PROVE  /\ wpc'[v] \in {"idle", "receiving", "stopped"} => held'[v] = 0
               /\ wpc'[v] = "dequeued"
                    => held'[v] # 0
                         /\ task'[held'[v]].state \in {"pending", "cancelled"}
               /\ wpc'[v] \in Executing
                    => held'[v] # 0
                         /\ task'[held'[v]].state \in {"running", "cancelled"}
    BY <1>1, <1>2, <1>3 DEF IInv, HeldFitsPlace
  <2>2. QED
    BY <1>2, <2>1 DEF IInv, HeldFitsPlace, Executing
<1>5. NoStrandedTask'
  <2>1. task'[id].state \notin {"pending", "running"}
    BY DEF IsTerminal, TerminalStates
  <2>2. ASSUME NEW i \in Ids, task'[i].state = "pending"
        PROVE  \/ \E j \in DOMAIN queue' : queue'[j] = i
               \/ \E v \in Workers : wpc'[v] = "dequeued" /\ held'[v] = i
    BY <1>2, <2>1, <2>2 DEF IInv, NoStrandedTask
  <2>3. ASSUME NEW i \in Ids, task'[i].state = "running"
        PROVE  \E v \in Workers : wpc'[v] \in Executing /\ held'[v] = i
    BY <1>2, <2>1, <2>3 DEF IInv, NoStrandedTask
  <2>4. ASSUME NEW i \in Ids, NEW u \in Workers, NEW v \in Workers,
               held'[u] = i, held'[v] = i
        PROVE  u = v
    BY <1>2, <2>4, TaskDomainAssumption DEF IInv, NoStrandedTask, Ids
  <2>5. QED BY <2>2, <2>3, <2>4 DEF NoStrandedTask
<1>6. QED BY <1>4, <1>5

LEMMA SkipTaskKeepsIInv ==
  ASSUME IInv, NEW w \in Workers, SkipTask(w) PROVE IInv'
<1>1. /\ wpc' = [wpc EXCEPT ![w] = "idle"] /\ held' = [held EXCEPT ![w] = 0]
      /\ wpc[w] = "dequeued" /\ ~Startable(held[w])
      /\ UNCHANGED <<queueVars, recordVars, receiver, step, result, closerVars>>
  BY DEF SkipTask
<1>2. held[w] \in Ids /\ IsTerminal(task[held[w]])
  <2>1. held[w] \in Ids /\ task[held[w]].state \in {"pending", "cancelled"}
    BY <1>1, TaskDomainAssumption DEF IInv, Typed, TypeOK, HeldFitsPlace, Ids
  <2>2. QED
    BY <1>1, <2>1 DEF IInv, FlagMeansCancelled, Startable, IsLive, IsTerminal,
       TerminalStates
<1>3. Typed'
  BY <1>1, TaskDomainAssumption DEF IInv, Typed, TypeOK, queueVars, recordVars,
     closerVars, WorkerPlaces
<1>4. HeldFitsPlace' /\ NoStrandedTask'
  BY <1>1, <1>2, PutDownKeeps DEF IInv, Typed, TypeOK, queueVars, recordVars
<1>5. QueuedIsWaiting'
  BY <1>1, TaskDomainAssumption
     DEF IInv, Typed, TypeOK, QueuedIsWaiting, queueVars, recordVars, Ids
<1>6. QED
  BY <1>1, <1>3, <1>4, <1>5 DEF IInv, queueVars, recordVars, closerVars,
     DrawnIdsAreFresh, FlagMeansCancelled, ClosersFit

(* A worker reports progress for its task, accepted or not, and moves on.  *)
LEMMA ReportKeepsIInv ==
  ASSUME IInv, NEW w \in Workers, NEW n \in Nat,
         wpc[w] \in Executing, NEW place \in Executing,
         wpc' = [wpc EXCEPT ![w] = place],
         Report(held[w], n),
         step' \in [Workers -> Nat], result' \in [Workers -> Outcomes],
         UNCHANGED <<queueVars, flag, receiver, held, closerVars>>
  PROVE  IInv'
<1> DEFINE id == held[w]
           snapshot == Update(task[id], n)
<1>1. CASE ~Reportable(id)
  <2>1. UNCHANGED <<task, events>>
    BY <1>1 DEF Report
  <2>2. QED
    BY <2>1, MoveKeepsIInv DEF recordVars
<1>2. CASE Reportable(id)
  <2>1. /\ id \in Ids
        /\ task[id] \in Snapshots /\ task[id].id = id
        /\ task[id].state = "running" /\ IsLive(task[id])
    BY <1>2, TaskDomainAssumption
       DEF IInv, Typed, TypeOK, HeldFitsPlace, Ids, Reportable, IsLive
  <2>2. /\ snapshot \in Snapshots /\ snapshot.id = id
        /\ snapshot.state = "running"
        /\ snapshot.state \in TaskStates \ {"absent", "pending"}
    BY <2>1, SnapshotTransitions, ZenonT(30) DEF TaskStates
  <2>3. Record("progressed", snapshot) /\ "progressed" \in EventKinds
    BY <1>2 DEF Report, EventKinds
  <2>4. /\ task' \in [Ids -> Snapshots]
        /\ events' \in Seq(Events)
        /\ task'[id] = snapshot
        /\ \A i \in Ids : i # id => task'[i] = task[i]
        /\ \A i \in Ids : task'[i].id = i
        /\ DrawnIdsAreFresh'
        /\ ClosersFit'
    BY <2>1, <2>2, <2>3, LiveMoveKeeps
  <2>5. \A i \in Ids : task'[i].state = task[i].state
    BY <2>1, <2>2, <2>4
  <2>6. /\ wpc \in [Workers -> WorkerPlaces]
        /\ \A v \in Workers : held[v] # 0 => held[v] \in Ids
        /\ \A i \in DOMAIN queue : queue[i] \in Ids
    BY TaskDomainAssumption, SMTT(30) DEF IInv, Typed, TypeOK, Ids
  <2>7. \A v \in Workers :
          /\ wpc'[v] = "dequeued" <=> wpc[v] = "dequeued"
          /\ wpc'[v] \in Executing <=> wpc[v] \in Executing
          /\ wpc'[v] \in {"idle", "receiving", "stopped"}
               => wpc[v] \in {"idle", "receiving", "stopped"}
    BY <2>6 DEF Executing, WorkerPlaces
  <2>8. Typed'
    BY <2>4, <2>6 DEF IInv, Typed, TypeOK, queueVars, closerVars, Executing,
       WorkerPlaces
  <2>9. FlagMeansCancelled' /\ QueuedIsWaiting'
    BY <2>5, <2>6 DEF IInv, FlagMeansCancelled, QueuedIsWaiting, queueVars
  <2>10. HeldFitsPlace'
    BY <2>5, <2>6, <2>7 DEF IInv, HeldFitsPlace
  <2>11. NoStrandedTask'
    BY <2>5, <2>7 DEF IInv, NoStrandedTask, queueVars
  <2>12. QED
    BY <2>4, <2>8, <2>9, <2>10, <2>11 DEF IInv
<1>3. QED BY <1>1, <1>2

LEMMA JobStepKeepsIInv ==
  ASSUME IInv, NEW w \in Workers, JobStep(w) PROVE IInv'
<1>1. /\ wpc \in [Workers -> WorkerPlaces]
      /\ step \in [Workers -> Nat]
      /\ result \in [Workers -> Outcomes]
  BY DEF IInv, Typed, TypeOK
<1>2. \A outcome \in Outcomes :
        [result EXCEPT ![w] = outcome] \in [Workers -> Outcomes]
  BY <1>1
<1>3. [step EXCEPT ![w] = @ + 1] \in [Workers -> Nat]
  BY <1>1
<1>4. CASE ProgressTop(w)
  <2>1. /\ wpc[w] \in Executing
        /\ UNCHANGED <<queueVars, recordVars, receiver, held, step, closerVars>>
    BY <1>4 DEF ProgressTop, Executing
  <2>2. CASE wpc' = [wpc EXCEPT ![w] = "sleeping"] /\ UNCHANGED result
    BY <2>1, <2>2, <1>1, MoveKeepsIInv DEF Executing
  <2>3. CASE Return(w, "ok")
    <3>1. /\ wpc' = [wpc EXCEPT ![w] = "returned"]
          /\ result' \in [Workers -> Outcomes]
      BY <2>3, <1>2 DEF Return, Outcomes
    <3>2. QED BY <2>1, <3>1, <1>1, MoveKeepsIInv DEF Executing
  <2>4. QED BY <1>4, <2>2, <2>3 DEF ProgressTop
<1>5. CASE ProgressStep(w)
  <2>1. /\ wpc[w] \in Executing /\ step[w] + 1 \in Nat
        /\ Report(held[w], step[w] + 1)
        /\ UNCHANGED <<queueVars, flag, receiver, held, closerVars>>
    BY <1>1, <1>5 DEF ProgressStep, Executing
  <2>2. CASE /\ wpc' = [wpc EXCEPT ![w] = "top"]
             /\ step' = [step EXCEPT ![w] = @ + 1]
             /\ UNCHANGED result
    BY <2>1, <2>2, <1>1, <1>3, ReportKeepsIInv DEF Executing
  <2>3. CASE Return(w, "ok") /\ UNCHANGED step
    <3>1. /\ wpc' = [wpc EXCEPT ![w] = "returned"]
          /\ result' \in [Workers -> Outcomes]
          /\ step' \in [Workers -> Nat]
      BY <2>3, <1>1, <1>2 DEF Return, Outcomes
    <3>2. QED BY <2>1, <3>1, ReportKeepsIInv DEF Executing
  <2>4. QED BY <1>5, <2>2, <2>3 DEF ProgressStep
<1>6. ASSUME NEW n \in 0..(Total + 1), GenericReport(w, n) PROVE IInv'
  <2>1. /\ wpc[w] \in Executing /\ n \in Nat
        /\ wpc' = [wpc EXCEPT ![w] = wpc[w]]
        /\ Report(held[w], n)
        /\ step' \in [Workers -> Nat] /\ result' \in [Workers -> Outcomes]
        /\ UNCHANGED <<queueVars, flag, receiver, held, closerVars>>
    BY <1>1, <1>3, <1>6, TaskDomainAssumption DEF GenericReport, Executing
  <2>2. QED BY <2>1, ReportKeepsIInv
<1>7. ASSUME NEW outcome \in Outcomes, GenericReturn(w, outcome) PROVE IInv'
  <2>1. /\ wpc[w] \in Executing
        /\ wpc' = [wpc EXCEPT ![w] = "returned"]
        /\ step' \in [Workers -> Nat] /\ result' \in [Workers -> Outcomes]
        /\ UNCHANGED <<queueVars, recordVars, receiver, held, closerVars>>
    BY <1>1, <1>2, <1>7 DEF GenericReturn, Return, Executing
  <2>2. QED BY <2>1, MoveKeepsIInv DEF Executing
<1>8. QED BY <1>4, <1>5, <1>6, <1>7 DEF JobStep

LEMMA FinishKeepsIInv ==
  ASSUME IInv, NEW w \in Workers, Finish(w) PROVE IInv'
<1> DEFINE id == held[w]
           snapshot == IF result[w] = "ok" THEN Succeeded(task[id])
                                           ELSE Failed(task[id], result[w])
<1>1. /\ wpc[w] \in Executing /\ id \in Ids
      /\ task[id] \in Snapshots /\ task[id].id = id
      /\ task[id].state \in {"running", "cancelled"}
      /\ result[w] \in Outcomes
  BY TaskDomainAssumption
     DEF IInv, Typed, TypeOK, Finish, HeldFitsPlace, Executing, Ids
<1>2. /\ wpc' = [wpc EXCEPT ![w] = "idle"] /\ held' = [held EXCEPT ![w] = 0]
      /\ step' = [step EXCEPT ![w] = 0] /\ result' = [result EXCEPT ![w] = "ok"]
      /\ UNCHANGED <<queueVars, flag, receiver, closerVars>>
  BY DEF Finish
<1>3. /\ task' \in [Ids -> Snapshots]
      /\ events' \in Seq(Events)
      /\ \A i \in Ids : i # id => task'[i] = task[i]
      /\ \A i \in Ids : task'[i].id = i
      /\ IsTerminal(task'[id])
      /\ task'[id].state = "cancelled" <=> task[id].state = "cancelled"
      /\ DrawnIdsAreFresh'
      /\ ClosersFit'
  <2>1. CASE ~Finishable(id)
    <3>1. task' = task /\ events' = events
      BY <2>1 DEF Finish
    <3>2. task[id].state = "cancelled"
      BY <1>1, <2>1 DEF IInv, FlagMeansCancelled, Finishable, IsLive
    <3>3. QED
      BY <1>2, <3>1, <3>2 DEF IInv, Typed, TypeOK, DrawnIdsAreFresh, ClosersFit,
         queueVars, closerVars, IsTerminal, TerminalStates
  <2>2. CASE Finishable(id)
    <3>1. IsLive(task[id]) /\ task[id].state = "running"
      BY <1>1, <2>2 DEF Finishable, IsLive
    <3>2. /\ snapshot \in Snapshots /\ snapshot.id = id
          /\ snapshot.state \in {"success", "failed"}
          /\ snapshot.state \in TaskStates \ {"absent", "pending"}
      BY <1>1, SnapshotTransitions DEF Outcomes, TaskStates, TerminalStates
    <3>3. Record("finished", snapshot) /\ "finished" \in EventKinds
      BY <2>2 DEF Finish, EventKinds
    <3>4. /\ task' \in [Ids -> Snapshots]
          /\ events' \in Seq(Events)
          /\ task'[id] = snapshot
          /\ \A i \in Ids : i # id => task'[i] = task[i]
          /\ \A i \in Ids : task'[i].id = i
          /\ DrawnIdsAreFresh'
          /\ ClosersFit'
      BY <1>1, <1>2, <3>1, <3>2, <3>3, LiveMoveKeeps
    <3>5. QED
      BY <3>1, <3>2, <3>4 DEF IsTerminal, TerminalStates
  <2>3. QED BY <2>1, <2>2
<1>4. /\ held \in [Workers -> 0..MaxId]
      /\ \A i \in DOMAIN queue : queue[i] \in Ids /\ queue[i] # id
  BY DEF IInv, Typed, TypeOK, QueuedIsWaiting
<1>5. Typed'
  BY <1>2, <1>3, TaskDomainAssumption
     DEF IInv, Typed, TypeOK, queueVars, closerVars, WorkerPlaces, Outcomes
<1>6. FlagMeansCancelled'
  BY <1>1, <1>2, <1>3 DEF IInv, FlagMeansCancelled
<1>7. QueuedIsWaiting'
  BY <1>2, <1>3, <1>4, TaskDomainAssumption
     DEF IInv, QueuedIsWaiting, queueVars, Ids
<1>8. HeldFitsPlace' /\ NoStrandedTask'
  BY <1>1, <1>2, <1>3, PutDownKeeps DEF queueVars
<1>9. QED
  BY <1>3, <1>5, <1>6, <1>7, <1>8 DEF IInv

-----------------------------------------------------------------------------
(* Shutdown.                                                               *)

LEMMA CloseSenderKeepsIInv ==
  ASSUME IInv, NEW k \in Closers, CloseSender(k) PROVE IInv'
<1>1. Typed' /\ ClosersFit'
  BY ZenonT(30) DEF IInv, Typed, TypeOK, CloseSender, recordVars, workerVars, ClosersFit,
     CloserPlaces
<1>2. QED
  BY <1>1 DEF IInv, CloseSender, recordVars, workerVars, DrawnIdsAreFresh,
     FlagMeansCancelled, QueuedIsWaiting, HeldFitsPlace, NoStrandedTask

LEMMA CancelAllKeepsIInv ==
  ASSUME IInv, NEW k \in Closers, CancelAll(k) PROVE IInv'
<1> DEFINE live == {id \in Ids : IsLive(task[id])}
<1>1. /\ cpc[k] = "closed" /\ cpc' = [cpc EXCEPT ![k] = "publishing"]
      /\ flag' = [id \in Ids |-> flag[id] \/ id \in live]
      /\ task' = [id \in Ids |-> IF id \in live THEN Cancelled(task[id])
                                                ELSE task[id]]
      /\ unpublished' = [unpublished EXCEPT ![k] = {task'[id] : id \in live}]
      /\ UNCHANGED <<queueVars, events, workerVars>>
  BY DEF CancelAll
<1>2. \A id \in Ids : task[id] \in Snapshots /\ task[id].id = id
  BY DEF IInv, Typed, TypeOK
<1>3. \A id \in live : /\ task'[id] \in Snapshots
                       /\ task'[id].id = id
                       /\ task'[id].state = "cancelled"
                       /\ task[id].state \in {"pending", "running"}
  BY <1>1, <1>2, SnapshotTransitions DEF IsLive
<1>4. \A id \in Ids \ live : /\ task'[id] = task[id]
                             /\ task[id].state \notin {"pending", "running"}
  BY <1>1 DEF IsLive
<1>5. /\ unpublished \in [Closers -> SUBSET Snapshots]
      /\ cpc \in [Closers -> CloserPlaces]
      /\ {task'[id] : id \in live} \subseteq Snapshots
  BY <1>3 DEF IInv, Typed, TypeOK
<1>6. Typed'
  <2>1. task' \in [Ids -> Snapshots] /\ \A id \in Ids : task'[id].id = id
    BY <1>1, <1>2, <1>3, <1>4
  <2>2. unpublished' \in [Closers -> SUBSET Snapshots]
    BY <1>1, <1>5
  <2>3. cpc' \in [Closers -> CloserPlaces] /\ flag' \in [Ids -> BOOLEAN]
    BY <1>1, <1>5 DEF CloserPlaces
  <2>4. QED
    BY <1>1, <2>1, <2>2, <2>3 DEF IInv, Typed, TypeOK, queueVars, workerVars
<1>7. DrawnIdsAreFresh'
  <2>1. \A c \in Clients : submitting[c] # 0 => submitting[c] \in Ids
    BY TaskDomainAssumption DEF IInv, Typed, TypeOK, Ids
  <2>2. \A id \in Ids : task[id].state = "absent" => task'[id] = task[id]
    BY <1>3, <1>4
  <2>3. QED
    BY <1>1, <2>1, <2>2 DEF IInv, DrawnIdsAreFresh, queueVars
<1>8. FlagMeansCancelled'
  BY <1>1, <1>3, <1>4 DEF IInv, FlagMeansCancelled
<1>9. QueuedIsWaiting'
  <2>1. \A i \in DOMAIN queue : queue[i] \in Ids
    BY DEF IInv, Typed, TypeOK
  <2>2. QED
    BY <1>1, <1>3, <1>4, <2>1 DEF IInv, QueuedIsWaiting, queueVars, workerVars
<1>10. HeldFitsPlace'
  <2>1. \A w \in Workers : held[w] # 0 => held[w] \in Ids
    BY TaskDomainAssumption DEF IInv, Typed, TypeOK, Ids
  <2>2. QED
    BY <1>1, <1>3, <1>4, <2>1 DEF IInv, HeldFitsPlace, workerVars
<1>11. NoStrandedTask'
  BY <1>1, <1>3, <1>4 DEF IInv, NoStrandedTask, queueVars, workerVars
<1>12. ClosersFit'
  <2>1. \A id \in Ids : ~IsLive(task'[id])
    BY <1>3, <1>4 DEF IsLive
  <2>2. ASSUME NEW j \in Closers, j # k, NEW s \in unpublished[j]
        PROVE  s.id \in Ids \ live /\ task'[s.id] = s /\ s.state = "cancelled"
    <3>1. s.id \in Ids /\ task[s.id] = s /\ s.state = "cancelled"
      BY <1>5, <2>2 DEF IInv, ClosersFit, Snapshots
    <3>2. QED BY <3>1, <1>3, <1>4
  <2>3. unpublished'[k] = {task'[id] : id \in live} /\ cpc'[k] = "publishing"
    BY <1>1, <1>5
  <2>4. \A j \in Closers : j # k => unpublished'[j] = unpublished[j]
                                     /\ cpc'[j] = cpc[j]
    BY <1>1, <1>5
  <2>5. \A s \in unpublished'[k] : /\ s.id \in live
                                   /\ s.state = "cancelled"
                                   /\ task'[s.id] = s
    BY <1>3, <2>3
  <2>6. \A j \in Closers : j # k => unpublished'[j] \cap unpublished'[k] = {}
    BY <2>2, <2>4, <2>5
  <2>7. ~senderOpen'
    BY <1>1 DEF IInv, ClosersFit, queueVars
  <2>8. \A i, j \in Closers : i # j => unpublished'[i] \cap unpublished'[j] = {}
    BY <2>4, <2>6 DEF IInv, ClosersFit
  <2>9. ASSUME NEW j \in Closers
        PROVE  /\ cpc'[j] # "publishing" => unpublished'[j] = {}
               /\ \A s \in unpublished'[j] : s.state = "cancelled"
                                               /\ task'[s.id] = s
    <3>1. CASE j = k
      BY <3>1, <2>3, <2>5
    <3>2. CASE j # k
      BY <3>2, <2>2, <2>4 DEF IInv, ClosersFit
    <3>3. QED BY <3>1, <3>2
  <2>10. QED
    BY <2>1, <2>7, <2>8, <2>9 DEF ClosersFit
<1>13. QED
  BY <1>6, <1>7, <1>8, <1>9, <1>10, <1>11, <1>12 DEF IInv

LEMMA PublishCancelledKeepsIInv ==
  ASSUME IInv, NEW k \in Closers, PublishCancelled(k) PROVE IInv'
<1>1. PICK snapshot \in unpublished[k] :
        /\ Publish("finished", snapshot)
        /\ unpublished' = [unpublished EXCEPT ![k] = @ \ {snapshot}]
        /\ UNCHANGED <<queueVars, task, flag, workerVars, cpc>>
        /\ cpc[k] = "publishing"
  BY DEF PublishCancelled
<1>2. unpublished \in [Closers -> SUBSET Snapshots] /\ snapshot \in Snapshots
  BY DEF IInv, Typed, TypeOK
<1>3. events' \in Seq(Events)
  BY <1>1, <1>2 DEF IInv, Typed, TypeOK, Publish, Events, EventKinds
<1>4. /\ unpublished' \in [Closers -> SUBSET Snapshots]
      /\ \A j \in Closers : unpublished'[j] \subseteq unpublished[j]
  BY <1>1, <1>2
<1>5. Typed'
  BY <1>1, <1>3, <1>4 DEF IInv, Typed, TypeOK, queueVars, workerVars
<1>6. ClosersFit'
  BY <1>1, <1>4 DEF IInv, ClosersFit, queueVars
<1>7. QED
  BY <1>1, <1>5, <1>6 DEF IInv, queueVars, workerVars, DrawnIdsAreFresh,
     FlagMeansCancelled, QueuedIsWaiting, HeldFitsPlace, NoStrandedTask

LEMMA ShutdownReturnsKeepsIInv ==
  ASSUME IInv, NEW k \in Closers, ShutdownReturns(k) PROVE IInv'
<1>1. Typed' /\ ClosersFit'
  BY DEF IInv, Typed, TypeOK, ShutdownReturns, queueVars, recordVars,
     workerVars, ClosersFit, CloserPlaces
<1>2. QED
  BY <1>1 DEF IInv, ShutdownReturns, queueVars, recordVars, workerVars,
     DrawnIdsAreFresh, FlagMeansCancelled, QueuedIsWaiting, HeldFitsPlace,
     NoStrandedTask

-----------------------------------------------------------------------------
LEMMA NextIInv == IInv /\ [Next]_vars => IInv'
<1> SUFFICES ASSUME IInv, [Next]_vars PROVE IInv'
  OBVIOUS
<1>1. ASSUME NEW c \in Clients, ClientStep(c) PROVE IInv'
  BY <1>1, DrawIdKeepsIInv, SubmitKeepsIInv, SubmitRejectedKeepsIInv
     DEF ClientStep
<1>2. ASSUME NEW id \in Ids, Cancel(id) PROVE IInv'
  BY <1>2, CancelKeepsIInv
<1>3. ASSUME NEW w \in Workers, WorkerStep(w) PROVE IInv'
  BY <1>3, LockReceiverKeepsIInv, ReceiveKeepsIInv, StopKeepsIInv,
     StartTaskKeepsIInv, SkipTaskKeepsIInv, FinishKeepsIInv DEF WorkerStep
<1>4. ASSUME NEW w \in Workers, JobStep(w) PROVE IInv'
  BY <1>4, JobStepKeepsIInv
<1>5. ASSUME NEW k \in Closers, ShutdownStep(k) PROVE IInv'
  BY <1>5, CloseSenderKeepsIInv, CancelAllKeepsIInv, PublishCancelledKeepsIInv,
     ShutdownReturnsKeepsIInv DEF ShutdownStep
<1>6. CASE UNCHANGED vars
  BY <1>6 DEF vars, queueVars, recordVars, workerVars, closerVars, IInv, Typed,
     TypeOK, DrawnIdsAreFresh, FlagMeansCancelled, QueuedIsWaiting,
     HeldFitsPlace, NoStrandedTask, ClosersFit
<1>7. CASE Terminated
  BY <1>6, <1>7 DEF Terminated
<1>8. QED
  BY <1>1, <1>2, <1>3, <1>4, <1>5, <1>6, <1>7 DEF Next

(* The inductive invariant holds in every reachable state.                 *)
THEOREM ManagerInvariant == Spec => []IInv
<1>1. QED BY InitIInv, NextIInv, PTL DEF Spec

(* Every variable keeps its type: in particular the channel never holds    *)
(* more than its capacity and progress never exceeds the declared total.   *)
THEOREM TypeCorrect == Spec => []TypeOK
<1>1. IInv => TypeOK
  BY DEF IInv, Typed
<1>2. QED BY <1>1, ManagerInvariant, PTL

(* No record is ever left without somebody who will move it on, and no job *)
(* is in the hands of two workers.                                         *)
THEOREM TasksAreNotStranded == Spec => []NoStrandedTask
<1>1. IInv => NoStrandedTask
  BY DEF IInv
<1>2. QED BY <1>1, ManagerInvariant, PTL
-----------------------------------------------------------------------------
(* The refinement: every step is a step of the life cycle or invisible.    *)

owed == UNION {unpublished[k] : k \in Closers}

(* What a step looks like to a reader of snapshots and events.             *)
Implements == Lifecycle!Next \/ UNCHANGED <<task, events, owed>>

(* Storing and publishing a snapshot is an announced transition.           *)
LEMMA RecordIsTransition ==
  ASSUME NEW kind, NEW snapshot, Record(kind, snapshot), UNCHANGED unpublished
  PROVE  Lifecycle!Transition(kind, snapshot)
BY DEF Record, Publish, Lifecycle!Transition, Lifecycle!Announce

(* The instance's copies of the task data model are the model itself.      *)
LEMMA SameDomain ==
  /\ Lifecycle!Ids = Ids
  /\ \A s : Lifecycle!IsLive(s) <=> IsLive(s)
  /\ \A s : Lifecycle!Cancelled(s) = Cancelled(s)
  /\ \A s : Lifecycle!Started(s) = Started(s)
  /\ \A s : Lifecycle!Succeeded(s) = Succeeded(s)
  /\ \A s, e : Lifecycle!Failed(s, e) = Failed(s, e)
  /\ \A s, n : Lifecycle!Update(s, n) = Update(s, n)
  /\ \A id : Lifecycle!Pending(id) = Pending(id)
  /\ \A id : Lifecycle!NoRecord(id) = NoRecord(id)
BY DEF Lifecycle!Ids, Ids, Lifecycle!IsLive, IsLive, Lifecycle!Cancelled,
   Cancelled, Lifecycle!Started, Started, Lifecycle!Succeeded, Succeeded,
   Lifecycle!Failed, Failed, Lifecycle!Update, Update, Lifecycle!Pending,
   Pending, Lifecycle!NoRecord, NoRecord

LEMMA SubmitImplements ==
  ASSUME IInv, NEW c \in Clients, Submit(c) PROVE Implements
<1>1. /\ submitting[c] \in Ids
      /\ task[submitting[c]].state = "absent"
  BY TaskDomainAssumption
     DEF IInv, Typed, TypeOK, Submit, DrawnIdsAreFresh, Ids
<1>2. Lifecycle!Transition("created", Pending(submitting[c]))
  BY RecordIsTransition DEF Submit, closerVars
<1>3. Lifecycle!Create(submitting[c])
  BY <1>1, <1>2, SameDomain DEF Lifecycle!Create
<1>4. QED BY <1>1, <1>3, SameDomain DEF Implements, Lifecycle!Next

LEMMA CancelImplements ==
  ASSUME IInv, NEW id \in Ids, Cancel(id) PROVE Implements
<1>1. Lifecycle!Transition("finished", Cancelled(task[id]))
  BY RecordIsTransition DEF Cancel, closerVars
<1>2. Lifecycle!Cancel(id)
  BY <1>1, SameDomain DEF Lifecycle!Cancel, Cancel
<1>3. QED BY <1>2, SameDomain DEF Implements, Lifecycle!Next

LEMMA StartTaskImplements ==
  ASSUME IInv, NEW w \in Workers, StartTask(w) PROVE Implements
<1>1. held[w] \in Ids /\ task[held[w]].state = "pending"
  BY TaskDomainAssumption
     DEF IInv, Typed, TypeOK, HeldFitsPlace, StartTask, Startable, IsLive, Ids
<1>2. Lifecycle!Transition("started", Started(task[held[w]]))
  BY RecordIsTransition DEF StartTask, closerVars
<1>3. Lifecycle!Start(held[w])
  BY <1>1, <1>2, SameDomain DEF Lifecycle!Start
<1>4. QED BY <1>1, <1>3, SameDomain DEF Implements, Lifecycle!Next

(* A report above the total stores the same snapshot as one of the total.  *)
LEMMA ReportImplements ==
  ASSUME IInv, NEW id \in Ids, NEW completed \in Nat, Report(id, completed),
         UNCHANGED unpublished
  PROVE  Implements
<1>1. CASE ~Reportable(id)
  BY <1>1 DEF Report, Implements, owed
<1>2. CASE Reportable(id)
  <2> DEFINE stored == IF completed <= Total THEN completed ELSE Total
  <2>1. stored \in 0..Total
    BY TaskDomainAssumption
  <2>2. Update(task[id], completed) = Update(task[id], stored)
    BY TaskDomainAssumption DEF Update
  <2>3. Lifecycle!Transition("progressed", Update(task[id], stored))
    BY <1>2, <2>2, RecordIsTransition DEF Report
  <2>4. Lifecycle!Progress(id, stored)
    BY <1>2, <2>3, SameDomain DEF Lifecycle!Progress, Reportable
  <2>5. QED BY <2>1, <2>4, SameDomain DEF Implements, Lifecycle!Next
<1>3. QED BY <1>1, <1>2

LEMMA JobStepImplements ==
  ASSUME IInv, NEW w \in Workers, JobStep(w) PROVE Implements
<1>1. wpc[w] \in Executing => held[w] \in Ids
  BY TaskDomainAssumption DEF IInv, Typed, TypeOK, HeldFitsPlace, Ids
<1>2. step[w] + 1 \in Nat
  BY DEF IInv, Typed, TypeOK
<1>3. CASE ProgressTop(w)
  BY <1>3 DEF ProgressTop, recordVars, closerVars, Implements, owed
<1>4. CASE ProgressStep(w)
  <2>1. /\ Report(held[w], step[w] + 1)
        /\ wpc[w] = "sleeping"
        /\ UNCHANGED unpublished
    BY <1>4 DEF ProgressStep, closerVars
  <2>2. QED BY <1>1, <1>2, <2>1, ReportImplements DEF Executing
<1>5. ASSUME NEW completed \in 0..(Total + 1), GenericReport(w, completed)
      PROVE  Implements
  <2>1. /\ Report(held[w], completed)
        /\ wpc[w] = "top"
        /\ completed \in Nat
        /\ UNCHANGED unpublished
    BY <1>5, TaskDomainAssumption DEF GenericReport, closerVars
  <2>2. QED BY <1>1, <2>1, ReportImplements DEF Executing
<1>6. ASSUME NEW outcome \in Outcomes, GenericReturn(w, outcome)
      PROVE  Implements
  BY <1>6 DEF GenericReturn, recordVars, closerVars, Implements, owed
<1>7. QED BY <1>3, <1>4, <1>5, <1>6 DEF JobStep

LEMMA FinishImplements ==
  ASSUME IInv, NEW w \in Workers, Finish(w) PROVE Implements
<1> DEFINE id == held[w]
<1>1. id \in Ids /\ result[w] \in Outcomes
  BY TaskDomainAssumption
     DEF IInv, Typed, TypeOK, HeldFitsPlace, Executing, Finish, Ids
<1>2. CASE ~Finishable(id)
  BY <1>2 DEF Finish, closerVars, Implements, owed
<1>3. CASE Finishable(id)
  <2>1. task[id].state = "running"
    BY <1>1, <1>3 DEF IInv, HeldFitsPlace, Executing, Finish, Finishable, IsLive
  <2>2. CASE result[w] = "ok"
    <3>1. Lifecycle!Transition("finished", Succeeded(task[id]))
      BY <1>3, <2>2, RecordIsTransition DEF Finish, closerVars
    <3>2. Lifecycle!Succeed(id)
      BY <2>1, <3>1, SameDomain DEF Lifecycle!Succeed
    <3>3. QED BY <1>1, <3>2, SameDomain DEF Implements, Lifecycle!Next
  <2>3. CASE result[w] # "ok"
    <3>1. Lifecycle!Transition("finished", Failed(task[id], result[w]))
      BY <1>3, <2>3, RecordIsTransition DEF Finish, closerVars
    <3>2. Lifecycle!Fail(id, result[w]) /\ result[w] \in {"failure", "crash"}
      BY <1>1, <2>1, <2>3, <3>1, SameDomain DEF Lifecycle!Fail, Outcomes
    <3>3. QED BY <1>1, <3>2, SameDomain DEF Implements, Lifecycle!Next
  <2>4. QED BY <2>2, <2>3
<1>4. QED BY <1>2, <1>3

LEMMA CancelAllImplements ==
  ASSUME IInv, NEW k \in Closers, CancelAll(k) PROVE Implements
<1> DEFINE live == {id \in Ids : IsLive(task[id])}
<1>1. /\ task' = [id \in Ids |-> IF IsLive(task[id]) THEN Cancelled(task[id])
                                                     ELSE task[id]]
      /\ unpublished' = [unpublished EXCEPT ![k] = {task'[id] : id \in live}]
      /\ UNCHANGED events
      /\ cpc[k] = "closed"
  BY DEF CancelAll
<1>2. unpublished[k] = {}
  BY <1>1 DEF IInv, ClosersFit
<1>3. /\ unpublished \in [Closers -> SUBSET Snapshots]
      /\ \A j \in Closers : j # k => unpublished'[j] = unpublished[j]
      /\ unpublished'[k] = {task'[id] : id \in live}
  BY <1>1 DEF IInv, Typed, TypeOK
<1>4. owed' = owed \cup {task'[id] : id \in live}
  BY <1>2, <1>3 DEF owed
<1>5. Lifecycle!CancelAll
  BY <1>1, <1>4, SameDomain DEF Lifecycle!CancelAll, owed
<1>6. QED BY <1>5 DEF Implements, Lifecycle!Next

(* The calls owe disjoint sets, so what one publishes nobody still owes.   *)
LEMMA PublishCancelledImplements ==
  ASSUME IInv, NEW k \in Closers, PublishCancelled(k) PROVE Implements
<1>1. PICK snapshot \in unpublished[k] :
        /\ Publish("finished", snapshot)
        /\ unpublished' = [unpublished EXCEPT ![k] = @ \ {snapshot}]
        /\ UNCHANGED task
  BY DEF PublishCancelled
<1>2. /\ unpublished \in [Closers -> SUBSET Snapshots]
      /\ \A j \in Closers : j # k => unpublished'[j] = unpublished[j]
      /\ unpublished'[k] = unpublished[k] \ {snapshot}
  BY <1>1 DEF IInv, Typed, TypeOK
<1>3. \A j \in Closers : j # k => snapshot \notin unpublished[j]
  BY <1>1 DEF IInv, ClosersFit
<1>4. owed' = owed \ {snapshot} /\ snapshot \in owed
  BY <1>1, <1>2, <1>3 DEF owed
<1>5. Lifecycle!AnnounceOwed(snapshot)
  BY <1>1, <1>4 DEF Lifecycle!AnnounceOwed, Lifecycle!Announce, Publish, owed
<1>6. QED BY <1>4, <1>5 DEF Implements, Lifecycle!Next, owed

LEMMA NextImplements == IInv /\ [Next]_vars => [Lifecycle!Next]_(Lifecycle!vars)
<1> SUFFICES ASSUME IInv, [Next]_vars PROVE Implements
  BY DEF Implements, Lifecycle!vars, owed
<1>1. ASSUME NEW c \in Clients, ClientStep(c) PROVE Implements
  <2>1. CASE Submit(c)
    BY <2>1, SubmitImplements
  <2>2. CASE DrawId(c) \/ SubmitRejected(c)
    BY <2>2 DEF DrawId, SubmitRejected, recordVars, closerVars, Implements, owed
  <2>3. QED BY <1>1, <2>1, <2>2 DEF ClientStep
<1>2. ASSUME NEW id \in Ids, Cancel(id) PROVE Implements
  BY <1>2, CancelImplements
<1>3. ASSUME NEW w \in Workers, WorkerStep(w) PROVE Implements
  <2>1. CASE StartTask(w)
    BY <2>1, StartTaskImplements
  <2>2. CASE Finish(w)
    BY <2>2, FinishImplements
  <2>3. CASE LockReceiver(w) \/ Receive(w) \/ Stop(w) \/ SkipTask(w)
    BY <2>3 DEF LockReceiver, Receive, Stop, SkipTask, recordVars, closerVars,
       Implements, owed
  <2>4. QED BY <1>3, <2>1, <2>2, <2>3 DEF WorkerStep
<1>4. ASSUME NEW w \in Workers, JobStep(w) PROVE Implements
  BY <1>4, JobStepImplements
<1>5. ASSUME NEW k \in Closers, ShutdownStep(k) PROVE Implements
  <2>1. CASE CancelAll(k)
    BY <2>1, CancelAllImplements
  <2>2. CASE PublishCancelled(k)
    BY <2>2, PublishCancelledImplements
  <2>3. CASE CloseSender(k) \/ ShutdownReturns(k)
    BY <2>3 DEF CloseSender, ShutdownReturns, recordVars, Implements, owed
  <2>4. QED BY <1>5, <2>1, <2>2, <2>3 DEF ShutdownStep
<1>6. CASE UNCHANGED vars
  BY <1>6 DEF vars, recordVars, closerVars, Implements, owed
<1>7. CASE Terminated
  BY <1>6, <1>7 DEF Terminated
<1>8. QED
  BY <1>1, <1>2, <1>3, <1>4, <1>5, <1>6, <1>7 DEF Next

LEMMA InitImplements == Init => Lifecycle!Init
BY SameDomain DEF Init, Lifecycle!Init

(* Queue, workers, locks and shutdown calls together implement the life    *)
(* cycle that readers of snapshots and events were promised.               *)
THEOREM ManagerImplementsLifecycle == Spec => ImplementsLifecycle
<1>1. Spec => Lifecycle!Spec
  BY InitImplements, NextImplements, ManagerInvariant, PTL
     DEF Spec, Lifecycle!Spec
<1>2. QED BY <1>1 DEF ImplementsLifecycle
-----------------------------------------------------------------------------
(* What is proved of the life cycle carries over.                          *)

(* Every behavior is one of the life cycle the theorems of                 *)
(* TaskLifecycleProofs are about: L names the same formulas.               *)
LEMMA ManagerIsLifecycle == Spec => L!Spec
<1>1. Lifecycle!Init => L!Init
  BY DEF Lifecycle!Init, L!Init, Lifecycle!NoRecord, L!NoRecord, Lifecycle!Ids,
     L!Ids
<1>2. Lifecycle!Next => L!Next
  BY DEF Lifecycle!Next, L!Next, Lifecycle!Ids, L!Ids,
     Lifecycle!Create, L!Create, Lifecycle!Start, L!Start,
     Lifecycle!Progress, L!Progress, Lifecycle!Succeed, L!Succeed,
     Lifecycle!Fail, L!Fail, Lifecycle!Cancel, L!Cancel,
     Lifecycle!CancelAll, L!CancelAll, Lifecycle!AnnounceOwed, L!AnnounceOwed,
     Lifecycle!Transition, L!Transition, Lifecycle!Announce, L!Announce,
     Lifecycle!Pending, L!Pending, Lifecycle!Started, L!Started,
     Lifecycle!Update, L!Update, Lifecycle!Succeeded, L!Succeeded,
     Lifecycle!Failed, L!Failed, Lifecycle!Cancelled, L!Cancelled,
     Lifecycle!IsLive, L!IsLive
<1>3. Lifecycle!vars = L!vars
  BY DEF Lifecycle!vars, L!vars
<1>4. [Lifecycle!Next]_(Lifecycle!vars) => [L!Next]_(L!vars)
  BY <1>2, <1>3 DEF Lifecycle!vars, L!vars
<1>5. Lifecycle!Spec => L!Spec
  BY <1>1, <1>4, PTL DEF Lifecycle!Spec, L!Spec
<1>6. QED
  BY <1>5, ManagerImplementsLifecycle DEF ImplementsLifecycle

(* Whatever cancel, completion, progress and shutdown race for, a task's   *)
(* events are created, started, progressed*, finished, with one finished.  *)
THEOREM EventsFollowProtocol == Spec => []EventProtocol
<1>1. L!EventProtocol => EventProtocol
  BY DEF L!EventProtocol, EventProtocol, L!InProtocol, InProtocol,
     L!MayPrecede, MayPrecede
<1>2. L!Spec => []L!EventProtocol
  BY L!LifecycleEventProtocol, TaskDomainAssumption, PTL DEF L!TaskDomainAssumption
<1>3. QED BY <1>1, <1>2, ManagerIsLifecycle, PTL

(* A listener that has seen every event knows the table, except for tasks  *)
(* a shutdown still has to announce.                                       *)
THEOREM EventsAgreeWithRecords == Spec => []EventsTellRecords
<1>1. L!EventsTellRecords => EventsTellRecords
  <2>1. \A id : L!Owed(id) => Owed(id)
    BY DEF L!Owed, Owed
  <2>2. QED
    BY <2>1 DEF L!EventsTellRecords, EventsTellRecords, L!HasEvent, HasEvent,
       L!LastEventIs, LastEventIs, L!Ids, Ids
<1>2. L!Spec => []L!EventsTellRecords
  BY L!LifecycleEventsTellRecords, TaskDomainAssumption, PTL DEF L!TaskDomainAssumption
<1>3. QED BY <1>1, <1>2, ManagerIsLifecycle, PTL

(* After a shutdown has cancelled the table nothing is live any more, and  *)
(* once no call is publishing every task has been announced as finished.   *)
THEOREM ShutdownFinality == Spec => []ShutdownIsFinal
<1>1. IInv /\ L!TerminalAnnouncedOrOwed => ShutdownIsFinal
  <2> SUFFICES ASSUME IInv, L!TerminalAnnouncedOrOwed PROVE ShutdownIsFinal
    OBVIOUS
  <2>1. ASSUME NEW k \in Closers, cpc[k] \in {"publishing", "done"}
        PROVE  \A id \in Ids : ~IsLive(task[id])
    BY <2>1 DEF IInv, ClosersFit
  <2>2. ASSUME NEW k \in Closers, cpc[k] = "done",
               \A j \in Closers : cpc[j] # "publishing",
               NEW id \in Ids, task[id].state # "absent"
        PROVE  HasEvent(events, "finished", id)
    <3>1. IsTerminal(task[id])
      <4>1. ~IsLive(task[id])
        BY <2>1, <2>2
      <4>2. task[id].state \in TaskStates
        BY DEF IInv, Typed, TypeOK, Snapshots
      <4>3. QED
        BY <4>1, <4>2, <2>2 DEF IsLive, IsTerminal, TaskStates
    <3>2. ~L!Owed(id)
      BY <2>2 DEF L!Owed, IInv, ClosersFit
    <3>3. QED
      BY <3>1, <3>2 DEF L!TerminalAnnouncedOrOwed, L!IsTerminal, IsTerminal,
         L!TerminalStates, TerminalStates, L!HasEvent, HasEvent, L!Ids, Ids
  <2>3. QED BY <2>1, <2>2 DEF ShutdownIsFinal
<1>2. L!Spec => []L!TerminalAnnouncedOrOwed
  BY L!LifecycleTerminalAnnounced, TaskDomainAssumption, PTL DEF L!TaskDomainAssumption
<1>3. QED BY <1>1, <1>2, ManagerIsLifecycle, ManagerInvariant, PTL
-----------------------------------------------------------------------------
(* Order: what the events tell of the queue and of the jobs.               *)

(* Events are only appended, one at a time, and each is about a task.      *)
Grows == events' = events \/ \E e \in Events : events' = Append(events, e)

LEMMA PublishGrows ==
  ASSUME NEW kind \in EventKinds, NEW snapshot \in Snapshots,
         Publish(kind, snapshot)
  PROVE  Grows
<1>1. [kind |-> kind, task |-> snapshot] \in Events
  BY DEF Events
<1>2. QED BY <1>1 DEF Publish, Grows

LEMMA EventsGrow == IInv /\ [Next]_vars => Grows
<1> SUFFICES ASSUME IInv, [Next]_vars PROVE Grows
  OBVIOUS
<1> USE DEF EventKinds
<1>1. ASSUME NEW id \in Ids PROVE task[id] \in Snapshots
  BY DEF IInv, Typed, TypeOK
<1>2. ASSUME NEW w \in Workers, wpc[w] = "dequeued" \/ wpc[w] \in Executing
      PROVE  held[w] \in Ids
  BY <1>2, TaskDomainAssumption DEF IInv, Typed, TypeOK, HeldFitsPlace, Ids
<1>3. ASSUME NEW w \in Workers, wpc[w] \in Executing, NEW n \in Nat,
             Report(held[w], n)
      PROVE  Grows
  <2>1. Update(task[held[w]], n) \in Snapshots
    BY <1>1, <1>2, <1>3, SnapshotTransitions
  <2>2. QED BY <1>3, <2>1, PublishGrows DEF Report, Record, Grows
<1>4. ASSUME NEW c \in Clients, ClientStep(c) PROVE Grows
  <2>1. CASE Submit(c)
    <3>1. submitting[c] \in Ids
      BY <2>1, TaskDomainAssumption DEF Submit, IInv, Typed, TypeOK, Ids
    <3>2. Pending(submitting[c]) \in Snapshots
      BY <3>1, TaskDomainAssumption DEF Pending, Snapshots, TaskStates, Errors
    <3>3. QED BY <2>1, <3>2, PublishGrows DEF Submit, Record
  <2>2. CASE DrawId(c) \/ SubmitRejected(c)
    BY <2>2 DEF DrawId, SubmitRejected, recordVars, Grows
  <2>3. QED BY <1>4, <2>1, <2>2 DEF ClientStep
<1>5. ASSUME NEW id \in Ids, Cancel(id) PROVE Grows
  BY <1>1, <1>5, SnapshotTransitions, PublishGrows DEF Cancel, Record
<1>6. ASSUME NEW w \in Workers, WorkerStep(w) PROVE Grows
  <2>1. CASE StartTask(w)
    <3>1. Started(task[held[w]]) \in Snapshots
      BY <1>1, <1>2, <2>1, SnapshotTransitions DEF StartTask
    <3>2. QED BY <2>1, <3>1, PublishGrows DEF StartTask, Record
  <2>2. CASE Finish(w)
    <3>1. held[w] \in Ids /\ result[w] \in Outcomes
      BY <1>2, <2>2 DEF Finish, Executing, IInv, Typed, TypeOK
    <3>2. (IF result[w] = "ok" THEN Succeeded(task[held[w]])
                               ELSE Failed(task[held[w]], result[w]))
            \in Snapshots
      BY <1>1, <3>1, SnapshotTransitions DEF Outcomes
    <3>3. QED BY <2>2, <3>2, PublishGrows DEF Finish, Record, Grows
  <2>3. CASE LockReceiver(w) \/ Receive(w) \/ Stop(w) \/ SkipTask(w)
    BY <2>3 DEF LockReceiver, Receive, Stop, SkipTask, recordVars, Grows
  <2>4. QED BY <1>6, <2>1, <2>2, <2>3 DEF WorkerStep
<1>7. ASSUME NEW w \in Workers, JobStep(w) PROVE Grows
  <2>1. CASE ProgressTop(w) \/ \E outcome \in Outcomes : GenericReturn(w, outcome)
    BY <2>1 DEF ProgressTop, GenericReturn, recordVars, Grows
  <2>2. CASE ProgressStep(w)
    <3>1. step[w] + 1 \in Nat
      BY DEF IInv, Typed, TypeOK
    <3>2. QED BY <1>3, <2>2, <3>1 DEF ProgressStep, Executing
  <2>3. CASE \E n \in 0..(Total + 1) : GenericReport(w, n)
    <3>1. \A n \in 0..(Total + 1) : n \in Nat
      BY TaskDomainAssumption
    <3>2. QED BY <1>3, <2>3, <3>1 DEF GenericReport, Executing
  <2>4. QED BY <1>7, <2>1, <2>2, <2>3 DEF JobStep
<1>8. ASSUME NEW k \in Closers, ShutdownStep(k) PROVE Grows
  <2>1. CASE PublishCancelled(k)
    <3>1. unpublished[k] \subseteq Snapshots
      BY DEF IInv, Typed, TypeOK
    <3>2. QED BY <2>1, <3>1, PublishGrows DEF PublishCancelled
  <2>2. CASE CloseSender(k) \/ CancelAll(k) \/ ShutdownReturns(k)
    BY <2>2 DEF CloseSender, CancelAll, ShutdownReturns, recordVars, Grows
  <2>3. QED BY <1>8, <2>1, <2>2 DEF ShutdownStep
<1>9. CASE UNCHANGED vars
  BY <1>9 DEF vars, recordVars, Grows
<1>10. CASE Terminated
  BY <1>9, <1>10 DEF Terminated
<1>11. QED
  BY <1>4, <1>5, <1>6, <1>7, <1>8, <1>9, <1>10 DEF Next

(* So whatever the log has told, it goes on telling.                       *)
LEMMA ToldStaysTold ==
  ASSUME IInv, Grows, NEW i \in DOMAIN events
  PROVE  i \in DOMAIN events' /\ events'[i] = events[i]
<1>1. events \in Seq(Events)
  BY DEF IInv, Typed, TypeOK
<1>2. ASSUME NEW e \in Events, events' = Append(events, e)
      PROVE  i \in DOMAIN events' /\ events'[i] = events[i]
  BY <1>1, <1>2
<1>3. QED BY <1>2 DEF Grows

(* CreatedBefore in a given log.                                           *)
Precedes(log, a, b) ==
  \E i, j \in DOMAIN log :
    /\ i < j
    /\ log[i].kind = "created" /\ log[i].task.id = a
    /\ log[j].kind = "created" /\ log[j].task.id = b

InOrder(log, waiting, taken) ==
  \A j \in DOMAIN waiting :
    /\ \A i \in DOMAIN waiting : i < j => Precedes(log, waiting[i], waiting[j])
    /\ \A w \in Workers : taken[w] # 0 => Precedes(log, taken[w], waiting[j])

LEMMA FifoIsOrder ==
  /\ FifoOrder <=> InOrder(events, queue, held)
  /\ FifoOrder' <=> InOrder(events', queue', held')
BY DEF FifoOrder, CreatedBefore, InOrder, Precedes

LEMMA OrderStays ==
  ASSUME IInv, Grows, NEW a, NEW b, Precedes(events, a, b)
  PROVE  Precedes(events', a, b)
BY ToldStaysTold DEF Precedes

(* What waits, or is in the hands of a worker, has been announced.         *)
LEMMA AcceptedWereCreated ==
  ASSUME IInv, EventsTellRecords, NEW id \in Ids, task[id].state # "absent"
  PROVE  \E i \in DOMAIN events :
           events[i].kind = "created" /\ events[i].task.id = id
BY DEF EventsTellRecords, HasEvent

LEMMA SubmitKeepsOrder ==
  ASSUME IInv, EventsTellRecords, FifoOrder, NEW c \in Clients, Submit(c), Grows
  PROVE  FifoOrder'
<1> DEFINE id == submitting[c]
           n == Len(events) + 1
<1>1. /\ queue \in Seq(Ids) /\ events \in Seq(Events) /\ id \in Ids
      /\ held \in [Workers -> 0..MaxId] /\ wpc \in [Workers -> WorkerPlaces]
  BY TaskDomainAssumption DEF IInv, Typed, TypeOK, Submit, Ids
<1>2. /\ queue' = Append(queue, id) /\ held' = held
      /\ events' = Append(events, [kind |-> "created", task |-> Pending(id)])
  BY DEF Submit, Enqueue, workerVars, Record, Publish
<1>3. /\ n \in DOMAIN events' /\ events'[n].kind = "created"
      /\ events'[n].task.id = id
      /\ \A i \in DOMAIN events : i < n
  BY <1>1, <1>2 DEF Pending
<1>4. ASSUME NEW a \in Ids, task[a].state # "absent"
      PROVE  Precedes(events', a, id)
  <2>1. PICK i \in DOMAIN events :
          events[i].kind = "created" /\ events[i].task.id = a
    BY <1>4, AcceptedWereCreated
  <2>2. i \in DOMAIN events' /\ events'[i] = events[i]
    BY ToldStaysTold
  <2>3. QED
    BY <1>3, <2>1, <2>2 DEF Precedes
<1>5. \A i \in DOMAIN queue : queue[i] \in Ids /\ task[queue[i]].state # "absent"
  BY <1>1 DEF IInv, QueuedIsWaiting
<1>6. ASSUME NEW w \in Workers, held[w] # 0
      PROVE  held[w] \in Ids /\ task[held[w]].state # "absent"
  <2>1. held[w] \in Ids
    BY <1>1, <1>6, TaskDomainAssumption DEF Ids
  <2>2. wpc[w] = "dequeued" \/ wpc[w] \in Executing
    BY <1>1, <1>6 DEF IInv, HeldFitsPlace, WorkerPlaces, Executing
  <2>3. QED
    BY <2>1, <2>2 DEF IInv, HeldFitsPlace
<1>7. ASSUME NEW j \in DOMAIN queue'
      PROVE  /\ \/ j \in DOMAIN queue /\ queue'[j] = queue[j]
                \/ queue'[j] = id
             /\ \A i \in DOMAIN queue' :
                  i < j => i \in DOMAIN queue /\ queue'[i] = queue[i]
  BY <1>1, <1>2
<1>8. ASSUME NEW j \in DOMAIN queue', NEW i \in DOMAIN queue', i < j
      PROVE  Precedes(events', queue'[i], queue'[j])
  BY <1>4, <1>5, <1>7, <1>8, OrderStays, FifoIsOrder DEF InOrder
<1>9. ASSUME NEW j \in DOMAIN queue', NEW w \in Workers, held'[w] # 0
      PROVE  Precedes(events', held'[w], queue'[j])
  BY <1>2, <1>4, <1>6, <1>7, <1>9, OrderStays, FifoIsOrder DEF InOrder
<1>10. QED
  BY <1>8, <1>9, FifoIsOrder DEF InOrder

LEMMA ReceiveKeepsOrder ==
  ASSUME IInv, FifoOrder, NEW w \in Workers, Receive(w)
  PROVE  FifoOrder'
<1>1. /\ queue \in Seq(Ids) /\ held \in [Workers -> 0..MaxId]
  BY DEF IInv, Typed, TypeOK
<1>2. /\ queue # <<>> /\ queue' = Tail(queue) /\ events' = events
      /\ held' = [held EXCEPT ![w] = Head(queue)]
  BY DEF Receive, recordVars
<1>3. \A i \in DOMAIN queue' :
        i + 1 \in DOMAIN queue /\ 1 < i + 1 /\ queue'[i] = queue[i + 1]
  BY <1>1, <1>2
<1>4. 1 \in DOMAIN queue /\ Head(queue) = queue[1]
  BY <1>1, <1>2
<1>5. \A i, j \in DOMAIN queue' : i < j => i + 1 < j + 1
  BY <1>1, <1>2
<1>6. InOrder(events, queue, held)
  BY FifoIsOrder
<1>7. ASSUME NEW i \in DOMAIN queue', NEW j \in DOMAIN queue', i < j
      PROVE  Precedes(events', queue'[i], queue'[j])
  BY <1>2, <1>3, <1>5, <1>6, <1>7 DEF InOrder
<1>8. ASSUME NEW v \in Workers, held'[v] # 0, NEW j \in DOMAIN queue'
      PROVE  Precedes(events', held'[v], queue'[j])
  <2>1. held'[v] = queue[1] \/ held'[v] = held[v]
    BY <1>1, <1>2, <1>4
  <2>2. QED BY <1>2, <1>3, <1>4, <1>6, <1>8, <2>1 DEF InOrder
<1>9. QED BY <1>7, <1>8, FifoIsOrder DEF InOrder

(* The other steps take nothing from the channel and add nothing to it.    *)
LEMMA OthersKeepOrder ==
  ASSUME IInv, FifoOrder, Grows, queue' = queue,
         \A w \in Workers : held'[w] \in {held[w], 0}
  PROVE  FifoOrder'
BY OrderStays, FifoIsOrder DEF InOrder

(* Jobs are taken in the order in which their submission was announced.    *)
THEOREM JobsAreTakenInOrder == Spec => []FifoOrder
<1>1. Init => FifoOrder
  BY DEF Init, FifoOrder
<1>2. IInv /\ EventsTellRecords /\ FifoOrder /\ [Next]_vars => FifoOrder'
  <2> SUFFICES ASSUME IInv, EventsTellRecords, FifoOrder, [Next]_vars
               PROVE  FifoOrder'
    OBVIOUS
  <2>1. Grows
    BY EventsGrow
  <2>2. ASSUME NEW c \in Clients, Submit(c) PROVE FifoOrder'
    BY <2>1, <2>2, SubmitKeepsOrder
  <2>3. ASSUME NEW w \in Workers, Receive(w) PROVE FifoOrder'
    BY <2>3, ReceiveKeepsOrder
  <2>4. ASSUME NEW w \in Workers, SkipTask(w) \/ Finish(w) PROVE FifoOrder'
    <3>1. /\ queue' = queue /\ held' = [held EXCEPT ![w] = 0]
          /\ held \in [Workers -> 0..MaxId]
      BY <2>4 DEF SkipTask, Finish, queueVars, IInv, Typed, TypeOK
    <3>2. QED BY <2>1, <3>1, OthersKeepOrder
  <2>5. CASE UNCHANGED <<queue, held>>
    BY <2>1, <2>5, OthersKeepOrder
  <2>6. ASSUME NEW c \in Clients, DrawId(c) \/ SubmitRejected(c)
        PROVE  UNCHANGED <<queue, held>>
    BY <2>6 DEF DrawId, SubmitRejected, workerVars
  <2>7. ASSUME NEW id \in Ids, Cancel(id) PROVE UNCHANGED <<queue, held>>
    BY <2>7 DEF Cancel, queueVars, workerVars
  <2>8. ASSUME NEW w \in Workers,
               LockReceiver(w) \/ Stop(w) \/ StartTask(w) \/ JobStep(w)
        PROVE  UNCHANGED <<queue, held>>
    BY <2>8 DEF LockReceiver, Stop, StartTask, JobStep, ProgressTop, ProgressStep,
       GenericReport, GenericReturn, queueVars
  <2>9. ASSUME NEW k \in Closers, ShutdownStep(k) PROVE UNCHANGED <<queue, held>>
    BY <2>9 DEF ShutdownStep, CloseSender, CancelAll, PublishCancelled,
       ShutdownReturns, queueVars, workerVars
  <2>10. CASE UNCHANGED vars \/ Terminated
    BY <2>5, <2>10 DEF Terminated, vars, queueVars, workerVars
  <2>11. QED
    BY <2>2, <2>3, <2>4, <2>5, <2>6, <2>7, <2>8, <2>9, <2>10
       DEF Next, ClientStep, WorkerStep
<1>3. QED
  BY <1>1, <1>2, ManagerInvariant, EventsAgreeWithRecords, PTL DEF Spec

-----------------------------------------------------------------------------
(* Progress: a job that ends successfully has reported every step.         *)

Reported(log, id, n) ==
  \E i \in DOMAIN log : /\ log[i].kind = "progressed"
                        /\ log[i].task.id = id
                        /\ log[i].task.completed = n

Progressing(w) == wpc[w] \in Executing /\ job[held[w]] = "progress"

(* The loop variable of a job counts what the job has reported, and only a *)
(* job whose task was cancelled returns before the last step.              *)
StepsFit ==
  \A w \in Workers :
    /\ wpc[w] \notin Executing => step[w] = 0
    /\ Progressing(w) =>
         /\ step[w] <= Total
         /\ wpc[w] = "sleeping" => step[w] < Total
         /\ wpc[w] = "returned" => step[w] = Total \/ flag[held[w]]
         /\ \A n \in 1..step[w] : Reported(events, held[w], n)

ReportsInv == StepsFit /\ SuccessReportedEveryStep

LEMMA ReportsStay ==
  ASSUME IInv, Grows, NEW id, NEW n, Reported(events, id, n)
  PROVE  Reported(events', id, n)
BY ToldStaysTold DEF Reported

LEMMA SuccessIsReported ==
  /\ SuccessReportedEveryStep <=>
       \A id \in Ids : task[id].state = "success" /\ job[id] = "progress"
         => \A n \in 1..Total : Reported(events, id, n)
  /\ SuccessReportedEveryStep' <=>
       \A id \in Ids : task'[id].state = "success" /\ job'[id] = "progress"
         => \A n \in 1..Total : Reported(events', id, n)
BY DEF SuccessReportedEveryStep, Reported

(* Steps that leave the workers where they are, and lower no flag of a     *)
(* task that a worker holds.                                               *)
LEMMA StepsStay ==
  ASSUME IInv, StepsFit, Grows, UNCHANGED <<wpc, held, step>>,
         \A w \in Workers : wpc[w] \in Executing =>
           job'[held[w]] = job[held[w]] /\ (flag[held[w]] => flag'[held[w]])
  PROVE  StepsFit'
BY ReportsStay DEF StepsFit, Progressing

(* Steps that make no task succeed and change no job of one that did.      *)
LEMMA SuccessesStay ==
  ASSUME IInv, SuccessReportedEveryStep, Grows,
         \A id \in Ids : task'[id].state = "success" =>
           task[id].state = "success" /\ job'[id] = job[id]
  PROVE  SuccessReportedEveryStep'
BY ReportsStay, SuccessIsReported

LEMMA ExecutingHolds ==
  ASSUME IInv, NEW w \in Workers, wpc[w] \in Executing
  PROVE  /\ held[w] \in Ids
         /\ task[held[w]] \in Snapshots /\ task[held[w]].id = held[w]
         /\ task[held[w]].state \in {"running", "cancelled"}
         /\ flag[held[w]] <=> task[held[w]].state = "cancelled"
         /\ \A v \in Workers : v # w => held[v] # held[w]
BY TaskDomainAssumption DEF IInv, Typed, TypeOK, HeldFitsPlace,
   FlagMeansCancelled, Ids

LEMMA SubmitKeepsReports ==
  ASSUME IInv, ReportsInv, Grows, NEW c \in Clients, Submit(c)
  PROVE  ReportsInv'
<1> DEFINE id == submitting[c]
<1>1. /\ id \in Ids /\ task[id].state = "absent"
      /\ task \in [Ids -> Snapshots] /\ flag \in [Ids -> BOOLEAN]
      /\ job \in [Ids -> JobKinds \cup {"none"}]
  BY TaskDomainAssumption DEF IInv, Typed, TypeOK, DrawnIdsAreFresh, Submit, Ids
<1>2. /\ \E kind \in JobKinds : job' = [job EXCEPT ![id] = kind]
      /\ flag' = [flag EXCEPT ![id] = FALSE]
      /\ task' = [task EXCEPT ![id] = Pending(id)]
      /\ UNCHANGED <<wpc, held, step>>
  BY DEF Submit, Record, workerVars, Pending
<1>3. \A i \in Ids : i # id =>
        job'[i] = job[i] /\ flag'[i] = flag[i] /\ task'[i] = task[i]
  BY <1>1, <1>2
<1>4. task'[id].state = "pending"
  BY <1>1, <1>2 DEF Pending
<1>5. ASSUME NEW w \in Workers, wpc[w] \in Executing
      PROVE  held[w] \in Ids /\ held[w] # id
  BY <1>1, <1>5, ExecutingHolds
<1>6. StepsFit'
  BY <1>2, <1>3, <1>5, StepsStay DEF ReportsInv
<1>7. SuccessReportedEveryStep'
  BY <1>3, <1>4, SuccessesStay DEF ReportsInv
<1>8. QED BY <1>6, <1>7 DEF ReportsInv

(* Cancelling, be it one task or all of them, makes nothing succeed.       *)
LEMMA CancellingKeepsReports ==
  ASSUME IInv, ReportsInv, Grows, UNCHANGED <<workerVars, job>>,
         \A id \in Ids : flag[id] => flag'[id],
         \A id \in Ids : task'[id].state = "success" => task[id].state = "success"
  PROVE  ReportsInv'
<1>1. StepsFit'
  BY ExecutingHolds, StepsStay DEF ReportsInv, workerVars
<1>2. SuccessReportedEveryStep'
  BY SuccessesStay DEF ReportsInv
<1>3. QED BY <1>1, <1>2 DEF ReportsInv

(* A worker moves between places where it runs no job, or begins one.      *)
LEMMA MovingKeepsReports ==
  ASSUME IInv, ReportsInv, Grows, NEW w \in Workers,
         wpc[w] \notin Executing,
         NEW place \in WorkerPlaces \ {"sleeping", "returned"},
         wpc' = [wpc EXCEPT ![w] = place],
         \A v \in Workers : v # w => held'[v] = held[v],
         UNCHANGED <<step, job, flag>>,
         \A id \in Ids : task'[id].state = "success" => task[id].state = "success"
  PROVE  ReportsInv'
<1>1. /\ wpc \in [Workers -> WorkerPlaces]
      /\ step[w] = 0 /\ Total \in Nat
  BY TaskDomainAssumption DEF IInv, Typed, TypeOK, ReportsInv, StepsFit
<1>2. /\ wpc'[w] = place
      /\ \A v \in Workers : v # w => wpc'[v] = wpc[v]
  BY <1>1
<1>3. StepsFit'
  BY <1>1, <1>2, ReportsStay DEF ReportsInv, StepsFit, Progressing
<1>4. SuccessReportedEveryStep'
  BY SuccessesStay DEF ReportsInv
<1>5. QED BY <1>3, <1>4 DEF ReportsInv

(* What the other workers' jobs have reported stays reported.              *)
OthersFit(w) ==
  \A v \in Workers \ {w} :
    /\ wpc'[v] \notin Executing => step'[v] = 0
    /\ (Progressing(v))' =>
         /\ step'[v] <= Total
         /\ wpc'[v] = "sleeping" => step'[v] < Total
         /\ wpc'[v] = "returned" => step'[v] = Total \/ flag'[held'[v]]
         /\ \A n \in 1..step'[v] : Reported(events', held'[v], n)

LEMMA OthersStepsStay ==
  ASSUME IInv, StepsFit, Grows, NEW w \in Workers,
         \A v \in Workers \ {w} :
           wpc'[v] = wpc[v] /\ held'[v] = held[v] /\ step'[v] = step[v],
         UNCHANGED <<job, flag>>
  PROVE  OthersFit(w)
BY ReportsStay DEF StepsFit, Progressing, OthersFit

(* An update of the progress makes nothing succeed.                        *)
LEMMA ReportMakesNoSuccess ==
  ASSUME IInv, NEW w \in Workers, wpc[w] \in Executing, NEW n \in Nat,
         Report(held[w], n)
  PROVE  \A id \in Ids : task'[id].state = task[id].state
<1>1. task \in [Ids -> Snapshots]
  BY DEF IInv, Typed, TypeOK
<1>2. CASE Reportable(held[w])
  BY <1>1, <1>2, ExecutingHolds, SnapshotTransitions DEF Report, Record
<1>3. CASE ~Reportable(held[w])
  BY <1>3 DEF Report
<1>4. QED BY <1>2, <1>3

LEMMA ProgressTopKeepsReports ==
  ASSUME IInv, ReportsInv, Grows, NEW w \in Workers, ProgressTop(w)
  PROVE  ReportsInv'
<1>1. /\ wpc \in [Workers -> WorkerPlaces] /\ step \in [Workers -> Nat]
      /\ Total \in Nat /\ wpc[w] = "top" /\ wpc[w] \in Executing
      /\ job[held[w]] = "progress"
      /\ UNCHANGED <<job, task, flag, events, held, step>>
  BY TaskDomainAssumption
     DEF IInv, Typed, TypeOK, ProgressTop, queueVars, recordVars, Executing
<1>2. /\ \A v \in Workers \ {w} : wpc'[v] = wpc[v]
      /\ \/ wpc'[w] = "sleeping" /\ step[w] # Total
         \/ wpc'[w] = "returned" /\ (step[w] = Total \/ flag[held[w]])
  <2>1. CASE LoopDone(w) \/ flag[held[w]]
    <3>1. wpc' = [wpc EXCEPT ![w] = "returned"]
      BY <2>1 DEF ProgressTop, Return
    <3>2. QED BY <1>1, <2>1, <3>1 DEF LoopDone
  <2>2. CASE ~(LoopDone(w) \/ flag[held[w]])
    <3>1. wpc' = [wpc EXCEPT ![w] = "sleeping"]
      BY <2>2 DEF ProgressTop
    <3>2. QED BY <1>1, <2>2, <3>1 DEF LoopDone
  <2>3. QED BY <2>1, <2>2
<1>3. OthersFit(w)
  BY <1>1, <1>2, OthersStepsStay DEF ReportsInv
<1>4. /\ step[w] <= Total
      /\ \A n \in 1..step[w] : Reported(events, held[w], n)
  BY <1>1 DEF ReportsInv, StepsFit, Progressing
<1>5. StepsFit'
  BY <1>1, <1>2, <1>3, <1>4 DEF StepsFit, OthersFit, Executing
<1>6. SuccessReportedEveryStep'
  BY <1>1, SuccessesStay DEF ReportsInv
<1>7. QED BY <1>5, <1>6 DEF ReportsInv

LEMMA ProgressStepKeepsReports ==
  ASSUME IInv, ReportsInv, Grows, NEW w \in Workers, ProgressStep(w)
  PROVE  ReportsInv'
<1> DEFINE id == held[w]
           n == step[w] + 1
<1>1. /\ wpc \in [Workers -> WorkerPlaces] /\ step \in [Workers -> Nat]
      /\ Total \in Nat /\ wpc[w] = "sleeping" /\ wpc[w] \in Executing
      /\ Report(id, n) /\ n \in Nat
      /\ UNCHANGED <<job, flag, held>>
  BY TaskDomainAssumption
     DEF IInv, Typed, TypeOK, ProgressStep, queueVars, Executing
<1>2. \A i \in Ids : task'[i].state = task[i].state
  BY <1>1, ReportMakesNoSuccess
<1>3. SuccessReportedEveryStep'
  BY <1>1, <1>2, SuccessesStay DEF ReportsInv
<1>4. CASE ~Reportable(id)
  <2>1. flag[id]
    BY <1>1, <1>4, ExecutingHolds DEF Reportable
  <2>2. /\ wpc'[w] = "returned" /\ step' = step
        /\ \A v \in Workers \ {w} : wpc'[v] = wpc[v]
    BY <1>1, <1>4 DEF ProgressStep, Return
  <2>3. OthersFit(w)
    BY <1>1, <2>2, OthersStepsStay DEF ReportsInv
  <2>4. /\ job[id] = "progress" =>
             step[w] <= Total /\ \A m \in 1..step[w] : Reported(events', id, m)
    BY <1>1, ReportsStay DEF ReportsInv, StepsFit, Progressing
  <2>5. StepsFit'
    BY <1>1, <2>1, <2>2, <2>3, <2>4 DEF StepsFit, OthersFit, Progressing, Executing
  <2>6. QED BY <1>3, <2>5 DEF ReportsInv
<1>5. CASE Reportable(id)
  <2>1. /\ wpc'[w] = "top" /\ step'[w] = n
        /\ \A v \in Workers \ {w} : wpc'[v] = wpc[v] /\ step'[v] = step[v]
    BY <1>1, <1>5 DEF ProgressStep
  <2>2. OthersFit(w)
    BY <1>1, <2>1, OthersStepsStay DEF ReportsInv
  <2>3. ASSUME job[id] = "progress" PROVE n <= Total /\ Reported(events', id, n)
    <3>1. n <= Total
      BY <1>1, <2>3 DEF ReportsInv, StepsFit, Progressing
    <3>2. events' = Append(events, [kind |-> "progressed",
                                    task |-> Update(task[id], n)])
      BY <1>1, <1>5 DEF Report, Record, Publish
    <3>3. Update(task[id], n).id = id /\ Update(task[id], n).completed = n
      BY <1>1, <3>1, ExecutingHolds DEF Update, Snapshots
    <3>4. events \in Seq(Events)
      BY DEF IInv, Typed, TypeOK
    <3>5. Len(events) + 1 \in DOMAIN events'
          /\ events'[Len(events) + 1] = [kind |-> "progressed",
                                         task |-> Update(task[id], n)]
      BY <3>2, <3>4
    <3>6. QED BY <3>1, <3>3, <3>5 DEF Reported
  <2>4. job[id] = "progress" => \A m \in 1..n : Reported(events', id, m)
    <3>1. job[id] = "progress" => \A m \in 1..step[w] : Reported(events', id, m)
      BY <1>1, ReportsStay DEF ReportsInv, StepsFit, Progressing
    <3>2. \A m \in 1..n : m \in 1..step[w] \/ m = n
      BY <1>1
    <3>3. QED BY <2>3, <3>1, <3>2
  <2>5. StepsFit'
    BY <1>1, <2>1, <2>2, <2>3, <2>4 DEF StepsFit, OthersFit, Progressing, Executing
  <2>6. QED BY <1>3, <2>5 DEF ReportsInv
<1>6. QED BY <1>4, <1>5

(* Any other job moves on.                                                 *)
LEMMA GenericKeepsReports ==
  ASSUME IInv, ReportsInv, Grows, NEW w \in Workers,
         job[held[w]] = "generic", wpc[w] \in Executing, wpc'[w] \in Executing,
         \A v \in Workers \ {w} : wpc'[v] = wpc[v] /\ step'[v] = step[v],
         UNCHANGED <<job, flag, held>>,
         \A id \in Ids : task'[id].state = task[id].state
  PROVE  ReportsInv'
<1>1. OthersFit(w)
  BY OthersStepsStay DEF ReportsInv
<1>2. StepsFit'
  BY <1>1 DEF StepsFit, OthersFit, Progressing
<1>3. SuccessReportedEveryStep'
  BY SuccessesStay DEF ReportsInv
<1>4. QED BY <1>2, <1>3 DEF ReportsInv

LEMMA FinishKeepsReports ==
  ASSUME IInv, ReportsInv, Grows, NEW w \in Workers, Finish(w)
  PROVE  ReportsInv'
<1> DEFINE id == held[w]
<1>1. /\ wpc \in [Workers -> WorkerPlaces] /\ step \in [Workers -> Nat]
      /\ held \in [Workers -> 0..MaxId] /\ task \in [Ids -> Snapshots]
      /\ wpc[w] = "returned" /\ wpc[w] \in Executing
      /\ result[w] \in Outcomes
  BY DEF IInv, Typed, TypeOK, Finish, Executing
<1>2. /\ wpc' = [wpc EXCEPT ![w] = "idle"] /\ held' = [held EXCEPT ![w] = 0]
      /\ step' = [step EXCEPT ![w] = 0]
      /\ UNCHANGED <<job, flag>>
  BY DEF Finish, queueVars
<1>3. OthersFit(w)
  BY <1>1, <1>2, OthersStepsStay DEF ReportsInv
<1>4. StepsFit'
  BY <1>1, <1>2, <1>3 DEF StepsFit, OthersFit, Progressing, Executing
<1>5. id \in Ids /\ task[id].id = id /\ task[id] \in Snapshots
  BY <1>1, ExecutingHolds
<1>6. /\ \A i \in Ids : i # id => task'[i] = task[i]
      /\ task'[id].state = "success" => ~flag[id]
  <2>1. CASE ~Finishable(id)
    BY <1>1, <2>1, ExecutingHolds DEF Finish
  <2>2. CASE Finishable(id)
    <3>1. \E s \in Snapshots : s.id = id /\ task' = [task EXCEPT ![id] = s]
      BY <1>1, <1>5, <2>2, SnapshotTransitions DEF Finish, Record, Outcomes
    <3>2. QED BY <1>1, <2>2, <3>1 DEF Finishable
  <2>3. QED BY <2>1, <2>2
<1>7. ~flag[id] /\ job[id] = "progress" =>
        \A n \in 1..Total : Reported(events', id, n)
  BY <1>1, ReportsStay DEF ReportsInv, StepsFit, Progressing
<1>8. ASSUME NEW i \in Ids, i # id, task[i].state = "success", job[i] = "progress",
             NEW n \in 1..Total
      PROVE  Reported(events', i, n)
  BY <1>8, ReportsStay, SuccessIsReported DEF ReportsInv
<1>9. SuccessReportedEveryStep'
  BY <1>2, <1>6, <1>7, <1>8, SuccessIsReported
<1>10. QED BY <1>4, <1>9 DEF ReportsInv

(* A successful job of create_progress_task reported every step: the other *)
(* way out of its loop is a cancellation, and that never succeeds.         *)
THEOREM SuccessMeansEveryStep == Spec => []SuccessReportedEveryStep
<1>1. Init => ReportsInv
  BY DEF Init, ReportsInv, StepsFit, Progressing, Executing,
     SuccessReportedEveryStep, NoRecord
<1>2. IInv /\ EventsTellRecords /\ ReportsInv /\ [Next]_vars => ReportsInv'
  <2> SUFFICES ASSUME IInv, EventsTellRecords, ReportsInv, [Next]_vars
               PROVE  ReportsInv'
    OBVIOUS
  <2>1. Grows
    BY EventsGrow
  <2>2. /\ flag \in [Ids -> BOOLEAN] /\ task \in [Ids -> Snapshots]
        /\ wpc \in [Workers -> WorkerPlaces] /\ held \in [Workers -> 0..MaxId]
    BY DEF IInv, Typed, TypeOK
  <2>3. ASSUME NEW c \in Clients, Submit(c) PROVE ReportsInv'
    BY <2>1, <2>3, SubmitKeepsReports
  <2>4. CASE UNCHANGED <<workerVars, job, task, flag>>
    BY <2>1, <2>4, CancellingKeepsReports
  <2>5. ASSUME NEW c \in Clients, DrawId(c) \/ SubmitRejected(c)
        PROVE  UNCHANGED <<workerVars, job, task, flag>>
    BY <2>5 DEF DrawId, SubmitRejected, recordVars
  <2>6. ASSUME NEW id \in Ids, Cancel(id) PROVE ReportsInv'
    <3>1. /\ UNCHANGED <<workerVars, job>>
          /\ flag' = [flag EXCEPT ![id] = TRUE]
          /\ task' = [task EXCEPT ![Cancelled(task[id]).id] = Cancelled(task[id])]
      BY <2>6 DEF Cancel, queueVars, Record
    <3>2. Cancelled(task[id]).state = "cancelled"
      BY <2>2 DEF Cancelled, Snapshots
    <3>3. \A i \in Ids : flag[i] => flag'[i]
      BY <2>2, <3>1
    <3>4. \A i \in Ids : task'[i].state = "success" => task[i].state = "success"
      BY <2>2, <3>1, <3>2
    <3>5. QED BY <2>1, <3>1, <3>3, <3>4, CancellingKeepsReports
  <2>7. ASSUME NEW k \in Closers, CancelAll(k) PROVE ReportsInv'
    <3>1. /\ UNCHANGED <<workerVars, job>>
          /\ \A id \in Ids : flag[id] => flag'[id]
          /\ \A id \in Ids : task'[id] = task[id] \/ task'[id] = Cancelled(task[id])
      BY <2>7 DEF CancelAll, queueVars
    <3>2. \A id \in Ids : Cancelled(task[id]).state = "cancelled"
      BY <2>2 DEF Cancelled, Snapshots
    <3>3. \A i \in Ids : task'[i].state = "success" => task[i].state = "success"
      BY <3>1, <3>2
    <3>4. QED BY <2>1, <3>1, <3>3, CancellingKeepsReports
  <2>8. ASSUME NEW k \in Closers,
               CloseSender(k) \/ PublishCancelled(k) \/ ShutdownReturns(k)
        PROVE  UNCHANGED <<workerVars, job, task, flag>>
    BY <2>8 DEF CloseSender, PublishCancelled, ShutdownReturns, queueVars, recordVars
  <2>9. ASSUME NEW w \in Workers, NEW place \in {"idle", "receiving", "dequeued", "stopped"},
               wpc[w] \notin Executing, wpc' = [wpc EXCEPT ![w] = place],
               \A v \in Workers : v # w => held'[v] = held[v],
               UNCHANGED <<step, job, flag, task>>
        PROVE  ReportsInv'
    BY <2>1, <2>9, MovingKeepsReports DEF WorkerPlaces
  <2>10. ASSUME NEW w \in Workers,
                LockReceiver(w) \/ Receive(w) \/ Stop(w) \/ SkipTask(w)
         PROVE  ReportsInv'
    BY <2>2, <2>9, <2>10
       DEF LockReceiver, Receive, Stop, SkipTask, Executing, queueVars, recordVars
  <2>11. ASSUME NEW w \in Workers, StartTask(w) PROVE ReportsInv'
    <3>1. /\ wpc[w] \notin Executing /\ wpc' = [wpc EXCEPT ![w] = "top"]
          /\ UNCHANGED <<step, job, flag, held>>
          /\ task' = [task EXCEPT ![Started(task[held[w]]).id] = Started(task[held[w]])]
      BY <2>11 DEF StartTask, Record, queueVars, Executing
    <3>2. held[w] \in Ids
      BY TaskDomainAssumption, <2>11
         DEF StartTask, IInv, Typed, TypeOK, HeldFitsPlace, Ids
    <3>3. Started(task[held[w]]).state # "success"
      BY <2>2, <3>2 DEF Started, Snapshots
    <3>4. \A i \in Ids : task'[i].state = "success" => task[i].state = "success"
      BY <2>2, <3>1, <3>3
    <3>5. QED BY <2>1, <3>1, <3>4, MovingKeepsReports DEF WorkerPlaces
  <2>12. ASSUME NEW w \in Workers, NEW n \in 0..(Total + 1), GenericReport(w, n)
         PROVE  ReportsInv'
    <3>1. /\ wpc[w] \in Executing /\ wpc' = wpc /\ job[held[w]] = "generic"
          /\ Report(held[w], n) /\ UNCHANGED <<job, flag, held>>
          /\ \A v \in Workers \ {w} : step'[v] = step[v]
      BY <2>12 DEF GenericReport, queueVars, Executing, IInv, Typed, TypeOK
    <3>2. \A id \in Ids : task'[id].state = task[id].state
      BY <3>1, ReportMakesNoSuccess, TaskDomainAssumption
    <3>3. QED BY <2>1, <3>1, <3>2, GenericKeepsReports
  <2>13. ASSUME NEW w \in Workers, NEW outcome \in Outcomes, GenericReturn(w, outcome)
         PROVE  ReportsInv'
    <3>1. /\ wpc[w] \in Executing /\ wpc' = [wpc EXCEPT ![w] = "returned"]
          /\ job[held[w]] = "generic"
          /\ UNCHANGED <<job, flag, held, step, task>>
      BY <2>13 DEF GenericReturn, Return, queueVars, recordVars, Executing
    <3>2. /\ wpc'[w] \in Executing /\ \A v \in Workers \ {w} : wpc'[v] = wpc[v]
      BY <2>2, <3>1 DEF Executing
    <3>3. QED BY <2>1, <3>1, <3>2, GenericKeepsReports
  <2>14. ASSUME NEW w \in Workers, ProgressTop(w) \/ ProgressStep(w) \/ Finish(w)
         PROVE  ReportsInv'
    BY <2>1, <2>14, ProgressTopKeepsReports, ProgressStepKeepsReports,
       FinishKeepsReports
  <2>15. CASE UNCHANGED vars \/ Terminated
    BY <2>4, <2>15 DEF Terminated, vars, queueVars, recordVars
  <2>16. QED
    BY <2>3, <2>4, <2>5, <2>6, <2>7, <2>8, <2>10, <2>11, <2>12, <2>13, <2>14,
       <2>15 DEF Next, ClientStep, WorkerStep, JobStep, ShutdownStep
<1>3. ReportsInv => SuccessReportedEveryStep
  BY DEF ReportsInv
<1>4. QED
  BY <1>1, <1>2, <1>3, ManagerInvariant, EventsAgreeWithRecords, PTL DEF Spec
=============================================================================
