--------------------------- MODULE TaskLifecycle ----------------------------
(***************************************************************************)
(* What the task manager promises to someone who reads snapshots and       *)
(* listens to task events, with no queue, no worker and no lock:           *)
(*                                                                         *)
(*   absent -> pending -> running -> success | failed                      *)
(*             pending, running   -> cancelled                             *)
(*                                                                         *)
(* Every transition of a single task is announced in the same step.  The   *)
(* one exception is the mass cancellation of a shutdown: it changes all    *)
(* live tasks at once and announces them afterwards, one at a time.        *)
(***************************************************************************)
EXTENDS TaskDomain, Sequences

VARIABLES
  task,    (* the snapshot of every id                                      *)
  events,  (* every task event published so far, in publication order       *)
  owed     (* snapshots of cancelled tasks not announced yet                *)

vars == <<task, events, owed>>

Announce(kind, snapshot) ==
  events' = Append(events, [kind |-> kind, task |-> snapshot])

(* One task moves to snapshot and the step publishes it as a kind event. *)
Transition(kind, snapshot) ==
  /\ task' = [task EXCEPT ![snapshot.id] = snapshot]
  /\ Announce(kind, snapshot)
  /\ UNCHANGED owed

Init ==
  /\ task = [id \in Ids |-> NoRecord(id)]
  /\ events = <<>>
  /\ owed = {}

Create(id) ==
  /\ task[id].state = "absent"
  /\ Transition("created", Pending(id))

Start(id) ==
  /\ task[id].state = "pending"
  /\ Transition("started", Started(task[id]))

Progress(id, completed) ==
  /\ task[id].state = "running"
  /\ Transition("progressed", Update(task[id], completed))

Succeed(id) ==
  /\ task[id].state = "running"
  /\ Transition("finished", Succeeded(task[id]))

Fail(id, error) ==
  /\ task[id].state = "running"
  /\ Transition("finished", Failed(task[id], error))

Cancel(id) ==
  /\ IsLive(task[id])
  /\ Transition("finished", Cancelled(task[id]))

CancelAll ==
  /\ task' = [id \in Ids |-> IF IsLive(task[id]) THEN Cancelled(task[id])
                                                 ELSE task[id]]
  /\ owed' = owed \cup {task'[id] : id \in {i \in Ids : IsLive(task[i])}}
  /\ UNCHANGED events

AnnounceOwed(snapshot) ==
  /\ snapshot \in owed
  /\ owed' = owed \ {snapshot}
  /\ Announce("finished", snapshot)
  /\ UNCHANGED task

Next ==
  \/ \E id \in Ids :
       \/ Create(id)
       \/ Start(id)
       \/ \E completed \in 0..Total : Progress(id, completed)
       \/ Succeed(id)
       \/ \E error \in {"failure", "crash"} : Fail(id, error)
       \/ Cancel(id)
  \/ CancelAll
  \/ \E snapshot \in owed : AnnounceOwed(snapshot)

Spec == Init /\ [][Next]_vars

-----------------------------------------------------------------------------
Owed(id) == \E snapshot \in owed : snapshot.id = id

(* Types, and each record is filed under its own id.                       *)
TypeOK ==
  /\ task \in [Ids -> Snapshots]
  /\ \A id \in Ids : task[id].id = id
  /\ events \in Seq(Events)
  /\ owed \subseteq Snapshots

(* The events of every task follow the protocol.                           *)
EventProtocol == InProtocol(events)

(* A record appears with its created event; from then on the last event of *)
(* the task carries the record, unless its cancellation is still owed.     *)
EventsTellRecords ==
  \A id \in Ids :
    IF HasEvent(events, "created", id)
    THEN task[id].state # "absent" /\ (Owed(id) \/ LastEventIs(events, task[id]))
    ELSE task[id].state = "absent"

(* A task in a terminal state has been announced, or its cancellation is   *)
(* owed, and never both.                                                   *)
TerminalAnnouncedOrOwed ==
  \A id \in Ids :
    IsTerminal(task[id]) => (HasEvent(events, "finished", id) <=> ~Owed(id))

(* A terminal record never changes again.                                  *)
TerminalIsFinal ==
  [][\A id \in Ids : IsTerminal(task[id]) => task'[id] = task[id]]_vars
=============================================================================
