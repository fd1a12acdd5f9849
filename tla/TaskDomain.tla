----------------------------- MODULE TaskDomain -----------------------------
(***************************************************************************)
(* The task data model of domain/task.rs: the states of a task, the        *)
(* snapshot that is stored in the record table and copied into events, and *)
(* the progress arithmetic.  Names, and the wording of error messages, are *)
(* left out; an error is only told apart by where it came from.            *)
(***************************************************************************)
EXTENDS Integers

CONSTANTS
  MaxId,   (* bound: how many task ids the id counter hands out             *)
  Total    (* the number of work units every task declares                  *)

ASSUME TaskDomainAssumption ==
  /\ MaxId \in Nat \ {0}
  /\ Total \in Nat \ {0}

Ids == 1..MaxId

TerminalStates == {"success", "failed", "cancelled"}

(* "absent" stands for an id that has no record in the table. *)
TaskStates == {"absent", "pending", "running"} \cup TerminalStates

Errors == {"none", "failure", "crash"}

Snapshots ==
  [id : Ids, state : TaskStates, completed : 0..Total, error : Errors]

EventKinds == {"created", "started", "progressed", "finished"}

Events == [kind : EventKinds, task : Snapshots]

IsTerminal(snapshot) == snapshot.state \in TerminalStates

IsLive(snapshot) == snapshot.state \in {"pending", "running"}

NoRecord(id) ==
  [id |-> id, state |-> "absent", completed |-> 0, error |-> "none"]

Pending(id) ==
  [id |-> id, state |-> "pending", completed |-> 0, error |-> "none"]

(* Faulty variant: the reported amount is stored as it is. *)
UpdateUnclamped(snapshot, completed) ==
  [snapshot EXCEPT !.completed = completed]

(* Absolute progress: clamped to the declared total, and allowed to fall. *)
Update(snapshot, completed) ==
  [snapshot EXCEPT !.completed = IF completed <= Total THEN completed ELSE Total]

Started(snapshot) == [snapshot EXCEPT !.state = "running", !.error = "none"]

Succeeded(snapshot) ==
  [Update(snapshot, Total) EXCEPT !.state = "success", !.error = "none"]

Failed(snapshot, error) ==
  [snapshot EXCEPT !.state = "failed", !.error = error]

Cancelled(snapshot) ==
  [snapshot EXCEPT !.state = "cancelled", !.error = "none"]

(* The integer arithmetic of calculate_percentage: widened before the      *)
(* product, truncated by the division.                                     *)
Percentage(completed, total) ==
  IF total = 0 THEN 0 ELSE (completed * 100) \div total

-----------------------------------------------------------------------------
(* What a log of task events may look like.                                *)

(* The orders in which two events of one task may be published.            *)
MayPrecede ==
  ({"created"} \X {"started", "progressed", "finished"})
    \cup ({"started", "progressed"} \X {"progressed", "finished"})

(* The events of one task are created, started, progressed*, finished,     *)
(* each of them once except progressed, and nothing follows finished.      *)
InProtocol(log) ==
  \A i, j \in DOMAIN log :
    i < j /\ log[i].task.id = log[j].task.id
      => <<log[i].kind, log[j].kind>> \in MayPrecede

HasEvent(log, kind, id) ==
  \E i \in DOMAIN log : log[i].kind = kind /\ log[i].task.id = id

(* The last event of the task carries exactly this snapshot.               *)
LastEventIs(log, snapshot) ==
  \E i \in DOMAIN log :
    /\ log[i].task = snapshot
    /\ \A j \in DOMAIN log : log[j].task.id = snapshot.id => j <= i
=============================================================================
