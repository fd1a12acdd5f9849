------------------------ MODULE TaskLifecycleProofs -------------------------
(***************************************************************************)
(* Proofs about the abstract life cycle of tasks: its events follow the    *)
(* protocol and tell the records, for any number of ids and work units.    *)
(***************************************************************************)
EXTENDS TaskLifecycle, TLAPS

(* What the pure transitions of a snapshot yield.                          *)
LEMMA SnapshotTransitions ==
  ASSUME NEW s \in Snapshots
  PROVE  /\ Pending(s.id) \in Snapshots
         /\ Started(s) \in Snapshots /\ Started(s).id = s.id
         /\ Started(s).state = "running"
         /\ Succeeded(s) \in Snapshots /\ Succeeded(s).id = s.id
         /\ Succeeded(s).state = "success"
         /\ Cancelled(s) \in Snapshots /\ Cancelled(s).id = s.id
         /\ Cancelled(s).state = "cancelled"
         /\ \A error \in {"failure", "crash"} :
              /\ Failed(s, error) \in Snapshots /\ Failed(s, error).id = s.id
              /\ Failed(s, error).state = "failed"
         /\ \A n \in Nat : /\ Update(s, n) \in Snapshots
                           /\ Update(s, n).id = s.id
                           /\ Update(s, n).state = s.state
<1>1. /\ s.id \in Ids /\ s.state \in TaskStates
      /\ s.completed \in 0..Total /\ s.error \in Errors
      /\ s = [id |-> s.id, state |-> s.state,
              completed |-> s.completed, error |-> s.error]
  BY DEF Snapshots
<1>2. 0 \in 0..Total /\ Total \in 0..Total
  BY TaskDomainAssumption
<1>3. \A n \in Nat : (IF n <= Total THEN n ELSE Total) \in 0..Total
  BY TaskDomainAssumption
<1>4. Pending(s.id) \in Snapshots
  BY <1>1, <1>2 DEF Pending, Snapshots, TaskStates, Errors
<1>5. /\ Started(s) \in Snapshots /\ Started(s).id = s.id
      /\ Started(s).state = "running"
  BY <1>1 DEF Started, Snapshots, TaskStates, Errors
<1>6. /\ Cancelled(s) \in Snapshots /\ Cancelled(s).id = s.id
      /\ Cancelled(s).state = "cancelled"
  BY <1>1 DEF Cancelled, Snapshots, TaskStates, Errors, TerminalStates
<1>7. ASSUME NEW error \in {"failure", "crash"}
      PROVE  /\ Failed(s, error) \in Snapshots /\ Failed(s, error).id = s.id
             /\ Failed(s, error).state = "failed"
  BY <1>1, <1>7 DEF Failed, Snapshots, TaskStates, Errors, TerminalStates
<1>8. ASSUME NEW n \in Nat
      PROVE  /\ Update(s, n) \in Snapshots
             /\ Update(s, n).id = s.id
             /\ Update(s, n).state = s.state
  BY <1>1, <1>3 DEF Update, Snapshots
<1>9. /\ Succeeded(s) \in Snapshots /\ Succeeded(s).id = s.id
      /\ Succeeded(s).state = "success"
  BY <1>1, <1>2, <1>8, TaskDomainAssumption
     DEF Succeeded, Update, Snapshots, TaskStates, Errors, TerminalStates
<1>10. QED BY <1>4, <1>5, <1>6, <1>7, <1>8, <1>9

-----------------------------------------------------------------------------

(* The published events fit the state of their task: nothing is published  *)
(* about an absent task, a pending one has only been created, and finished *)
(* is published for terminal tasks whose cancellation is not owed.         *)
Fits(kind, state, isOwed) ==
  /\ state # "absent"
  /\ state = "pending" => kind = "created"
  /\ kind = "finished" => state \in TerminalStates /\ ~isOwed

EventsFitState ==
  \A i \in DOMAIN events :
    Fits(events[i].kind, task[events[i].task.id].state,
         \E s \in owed : s.id = events[i].task.id)

RecordsWereCreated ==
  \A id \in Ids : task[id].state # "absent" => HasEvent(events, "created", id)

OwedAreCancelled ==
  \A s \in owed : s.state = "cancelled" /\ task[s.id] = s

RecordsToldOrOwed ==
  \A id \in Ids :
    task[id].state # "absent" /\ ~Owed(id) => LastEventIs(events, task[id])

FinishedOrOwed ==
  \A id \in Ids :
    IsTerminal(task[id]) /\ ~Owed(id) => HasEvent(events, "finished", id)

IInv ==
  /\ TypeOK
  /\ EventProtocol
  /\ EventsFitState
  /\ RecordsWereCreated
  /\ OwedAreCancelled
  /\ RecordsToldOrOwed
  /\ FinishedOrOwed

-----------------------------------------------------------------------------
(* How the log operators change when one event is appended.                *)

(* HasEvent of a log with one more event.                                  *)
LEMMA AppendHasEvent ==
  ASSUME NEW log \in Seq(Events), NEW e \in Events, NEW kind, NEW id
  PROVE  HasEvent(Append(log, e), kind, id)
           <=> HasEvent(log, kind, id) \/ (e.kind = kind /\ e.task.id = id)
<1> DEFINE longer == Append(log, e)
<1>1. /\ DOMAIN log = 1..Len(log)
      /\ DOMAIN longer = 1..(Len(log) + 1)
      /\ Len(log) \in Nat
      /\ longer[Len(log) + 1] = e
      /\ \A i \in 1..Len(log) : longer[i] = log[i]
  OBVIOUS
<1>2. QED BY <1>1 DEF HasEvent

(* The event appended last is the last event of its task, and an event of  *)
(* another task does not disturb the last event of this one.               *)
LEMMA AppendLastEvent ==
  ASSUME NEW log \in Seq(Events), NEW e \in Events
  PROVE  /\ LastEventIs(Append(log, e), e.task)
         /\ \A s \in Snapshots :
              s.id # e.task.id /\ LastEventIs(log, s)
                => LastEventIs(Append(log, e), s)
<1> DEFINE longer == Append(log, e)
<1>1. /\ DOMAIN log = 1..Len(log)
      /\ DOMAIN longer = 1..(Len(log) + 1)
      /\ Len(log) \in Nat
      /\ longer[Len(log) + 1] = e
      /\ \A i \in 1..Len(log) : longer[i] = log[i]
  OBVIOUS
<1>2. LastEventIs(longer, e.task)
  BY <1>1 DEF LastEventIs
<1>3. ASSUME NEW s \in Snapshots, s.id # e.task.id, LastEventIs(log, s)
      PROVE  LastEventIs(longer, s)
  <2>1. PICK i \in DOMAIN log :
          /\ log[i].task = s
          /\ \A j \in DOMAIN log : log[j].task.id = s.id => j <= i
    BY <1>3 DEF LastEventIs
  <2>2. i \in DOMAIN longer /\ longer[i].task = s
    BY <2>1, <1>1
  <2>3. \A j \in DOMAIN longer : longer[j].task.id = s.id => j <= i
    BY <2>1, <1>1, <1>3
  <2>4. QED BY <2>2, <2>3 DEF LastEventIs
<1>4. QED BY <1>2, <1>3

(* A log in protocol stays in protocol when the new event may follow every *)
(* earlier event of its task.                                              *)
LEMMA AppendInProtocol ==
  ASSUME NEW log \in Seq(Events), NEW e \in Events,
         InProtocol(log),
         \A i \in DOMAIN log : log[i].task.id = e.task.id
                                 => <<log[i].kind, e.kind>> \in MayPrecede
  PROVE  InProtocol(Append(log, e))
<1> DEFINE longer == Append(log, e)
<1>1. /\ DOMAIN log = 1..Len(log)
      /\ DOMAIN longer = 1..(Len(log) + 1)
      /\ Len(log) \in Nat
      /\ longer[Len(log) + 1] = e
      /\ \A i \in 1..Len(log) : longer[i] = log[i]
  OBVIOUS
<1>2. SUFFICES ASSUME NEW i \in DOMAIN longer, NEW j \in DOMAIN longer,
                      i < j, longer[i].task.id = longer[j].task.id
               PROVE  <<longer[i].kind, longer[j].kind>> \in MayPrecede
  BY DEF InProtocol
<1>3. i \in DOMAIN log /\ longer[i] = log[i]
  BY <1>1, <1>2
<1>4. CASE j \in DOMAIN log
  BY <1>1, <1>2, <1>3, <1>4 DEF InProtocol
<1>5. CASE j = Len(log) + 1
  BY <1>1, <1>2, <1>3, <1>5
<1>6. QED BY <1>1, <1>4, <1>5, SMTT(30)

-----------------------------------------------------------------------------
(* The transitions of a single task and the events that announce them.     *)
LegalMove(before, kind, after) ==
  \/ before = "absent"  /\ kind = "created"    /\ after = "pending"
  \/ before = "pending" /\ kind = "started"    /\ after = "running"
  \/ before = "running" /\ kind = "progressed" /\ after = "running"
  \/ before \in {"pending", "running"} /\ kind = "finished"
       /\ after \in TerminalStates

(* A legal transition announced in the same step preserves the invariant.  *)
LEMMA TransitionKeepsIInv ==
  ASSUME IInv,
         NEW kind \in EventKinds, NEW snapshot \in Snapshots,
         LegalMove(task[snapshot.id].state, kind, snapshot.state),
         Transition(kind, snapshot)
  PROVE  IInv'
<1> DEFINE id == snapshot.id
           e == [kind |-> kind, task |-> snapshot]
<1>1. /\ id \in Ids
      /\ e \in Events
      /\ e.kind = kind
      /\ e.task = snapshot
      /\ e.task.id = id
  BY DEF Snapshots, Events
<1>2. /\ task' = [task EXCEPT ![id] = snapshot]
      /\ events' = Append(events, e)
      /\ owed' = owed
  BY DEF Transition, Announce
<1>3. /\ task'[id] = snapshot
      /\ \A other \in Ids \ {id} : task'[other] = task[other]
      /\ task' \in [Ids -> Snapshots]
  BY <1>1, <1>2 DEF IInv, TypeOK
<1>4. /\ task[id].state \in {"absent", "pending", "running"}
      /\ snapshot.state # "absent"
      /\ ~IsTerminal(task[id])
  BY DEF LegalMove, TerminalStates, IsTerminal
<1>5. ~Owed(id) /\ \A i \in Ids : Owed(i)' <=> Owed(i)
  BY <1>2, <1>4 DEF IInv, OwedAreCancelled, Owed, IsTerminal, TerminalStates
<1>6. \A i \in DOMAIN events : events[i] \in Events /\ events[i].task.id \in Ids
  <2>1. \A i \in DOMAIN events : events[i] \in Events
    BY DEF IInv, TypeOK
  <2>2. \A x \in Events : x.task.id \in Ids
    BY DEF Events, Snapshots
  <2>3. QED BY <2>1, <2>2
<1>7. /\ DOMAIN events = 1..Len(events)
      /\ DOMAIN events' = 1..(Len(events) + 1)
      /\ Len(events) \in Nat
      /\ events'[Len(events) + 1] = e
      /\ \A i \in 1..Len(events) : events'[i] = events[i]
  BY <1>1, <1>2 DEF IInv, TypeOK
<1>8. TypeOK'
  <2>1. events' \in Seq(Events)
    BY <1>1, <1>2 DEF IInv, TypeOK
  <2>2. \A i \in Ids : task'[i].id = i
    BY <1>3 DEF IInv, TypeOK
  <2>3. QED BY <2>1, <2>2, <1>2, <1>3 DEF IInv, TypeOK
<1>9. EventProtocol'
  <2>1. \A i \in DOMAIN events :
          events[i].task.id = id => <<events[i].kind, kind>> \in MayPrecede
    BY <1>4, <1>6 DEF LegalMove, IInv, EventsFitState, Events, EventKinds,
                      MayPrecede, TerminalStates, IsTerminal, Fits
  <2>2. QED
    BY <2>1, <1>1, <1>2, AppendInProtocol DEF IInv, TypeOK, EventProtocol
<1>10. EventsFitState'
  <2> SUFFICES ASSUME NEW i \in DOMAIN events'
               PROVE  Fits(events'[i].kind, task'[events'[i].task.id].state,
                           \E s \in owed : s.id = events'[i].task.id)
    BY <1>2 DEF EventsFitState
  <2>1. CASE i = Len(events) + 1
    BY <2>1, <1>1, <1>3, <1>5, <1>7 DEF LegalMove, Fits, Owed, TerminalStates
  <2>2. CASE i \in DOMAIN events /\ events[i].task.id # id
    BY <2>2, <1>3, <1>6, <1>7, ZenonT(30) DEF IInv, EventsFitState
  <2>3. CASE i \in DOMAIN events /\ events[i].task.id = id
    BY <2>3, <1>3, <1>4, <1>5, <1>7
       DEF IInv, EventsFitState, LegalMove, TerminalStates, Fits, IsTerminal
  <2>4. i \in DOMAIN events \/ i = Len(events) + 1
    BY <1>7
  <2>5. QED BY <2>1, <2>2, <2>3, <2>4
<1>11. RecordsWereCreated'
  <2>1. kind = "created" \/ task[id].state # "absent"
    BY DEF LegalMove
  <2>2. \A i \in Ids : HasEvent(events', "created", i)
                         <=> HasEvent(events, "created", i)
                               \/ (kind = "created" /\ i = id)
    BY <1>1, <1>2, AppendHasEvent DEF IInv, TypeOK
  <2>3. QED BY <2>1, <2>2, <1>3 DEF IInv, RecordsWereCreated
<1>12. OwedAreCancelled'
  BY <1>1, <1>2, <1>3, <1>5 DEF IInv, TypeOK, OwedAreCancelled, Owed, Snapshots
<1>13. RecordsToldOrOwed'
  <2> SUFFICES ASSUME NEW i \in Ids, task'[i].state # "absent", ~Owed(i)
               PROVE  LastEventIs(events', task'[i])
    BY <1>5 DEF RecordsToldOrOwed
  <2>1. CASE i = id
    BY <2>1, <1>1, <1>2, <1>3, AppendLastEvent DEF IInv, TypeOK
  <2>2. CASE i # id
    <3>1. task'[i] = task[i] /\ task[i] \in Snapshots /\ task[i].id = i
      BY <2>2, <1>3 DEF IInv, TypeOK
    <3>2. LastEventIs(events, task[i])
      BY <3>1 DEF IInv, RecordsToldOrOwed
    <3>3. QED
      BY <3>1, <3>2, <2>2, <1>1, <1>2, AppendLastEvent DEF IInv, TypeOK
  <2>3. QED BY <2>1, <2>2
<1>14. FinishedOrOwed'
  <2>1. snapshot.state \in TerminalStates => kind = "finished"
    BY DEF LegalMove, TerminalStates
  <2>2. \A i \in Ids : HasEvent(events', "finished", i)
                         <=> HasEvent(events, "finished", i)
                               \/ (kind = "finished" /\ i = id)
    BY <1>1, <1>2, AppendHasEvent DEF IInv, TypeOK
  <2>3. QED BY <2>1, <2>2, <1>3, <1>5 DEF IInv, FinishedOrOwed, IsTerminal
<1>15. QED
  BY <1>8, <1>9, <1>10, <1>11, <1>12, <1>13, <1>14 DEF IInv

-----------------------------------------------------------------------------
LEMMA InitIInv == Init => IInv
<1> SUFFICES ASSUME Init PROVE IInv
  OBVIOUS
<1>1. TypeOK
  BY TaskDomainAssumption
     DEF Init, TypeOK, NoRecord, Snapshots, TaskStates, Errors
<1>2. DOMAIN events = {} /\ owed = {} /\ \A id \in Ids : task[id].state = "absent"
  BY DEF Init, NoRecord
<1>3. QED
  BY <1>1, <1>2 DEF IInv, EventProtocol, InProtocol, EventsFitState,
     RecordsWereCreated, OwedAreCancelled, RecordsToldOrOwed, FinishedOrOwed,
     IsTerminal, TerminalStates

(* Mass cancellation: the cancellations become owed in the same step.      *)
LEMMA CancelAllKeepsIInv == IInv /\ CancelAll => IInv'
<1> SUFFICES ASSUME IInv, CancelAll PROVE IInv'
  OBVIOUS
<1> DEFINE live == {id \in Ids : IsLive(task[id])}
<1>1. /\ task' = [id \in Ids |-> IF IsLive(task[id]) THEN Cancelled(task[id])
                                                    ELSE task[id]]
      /\ owed' = owed \cup {task'[id] : id \in live}
      /\ events' = events
  BY DEF CancelAll
<1>2. \A id \in Ids : task[id] \in Snapshots /\ task[id].id = id
  BY DEF IInv, TypeOK
<1>3. \A id \in live : /\ task'[id] \in Snapshots
                       /\ task'[id].id = id
                       /\ task'[id].state = "cancelled"
  BY <1>1, <1>2, SnapshotTransitions
<1>4. \A id \in Ids \ live : task'[id] = task[id]
  BY <1>1
<1>5. \A s \in owed : s.id \in Ids /\ s.id \notin live /\ task[s.id] = s
                        /\ s.state = "cancelled"
  BY DEF IInv, TypeOK, OwedAreCancelled, IsLive, Snapshots
<1>6. \A id \in Ids : Owed(id)' <=> Owed(id) \/ id \in live
  BY <1>1, <1>2, <1>3, <1>5 DEF Owed
<1>7. TypeOK'
  BY <1>1, <1>2, <1>3, <1>4 DEF IInv, TypeOK
<1>8. EventProtocol'
  BY <1>1 DEF IInv, EventProtocol
<1>9. EventsFitState'
  <2> SUFFICES ASSUME NEW i \in DOMAIN events
               PROVE  Fits(events[i].kind, task'[events[i].task.id].state,
                           \E s \in owed' : s.id = events[i].task.id)
    BY <1>1 DEF EventsFitState
  <2> DEFINE id == events[i].task.id
  <2>1. id \in Ids
    <3>1. events[i] \in Events
      BY DEF IInv, TypeOK
    <3>2. QED BY <3>1 DEF Events, Snapshots
  <2>2. Fits(events[i].kind, task[id].state, \E s \in owed : s.id = id)
    BY DEF IInv, EventsFitState
  <2>3. CASE id \in live
    BY <2>1, <2>2, <2>3, <1>3 DEF Fits, IsLive, TerminalStates
  <2>4. CASE id \notin live
    <3>1. (\E s \in owed' : s.id = id) <=> (\E s \in owed : s.id = id)
      BY <2>1, <2>4, <1>1, <1>3
    <3>2. QED BY <2>1, <2>2, <2>4, <3>1, <1>4
  <2>5. QED BY <2>3, <2>4
<1>10. RecordsWereCreated'
  BY <1>1, <1>4 DEF IInv, RecordsWereCreated, IsLive
<1>11. OwedAreCancelled'
  BY <1>1, <1>3, <1>4, <1>5 DEF OwedAreCancelled
<1>12. RecordsToldOrOwed'
  BY <1>1, <1>4, <1>6 DEF IInv, RecordsToldOrOwed
<1>13. FinishedOrOwed'
  BY <1>1, <1>4, <1>6 DEF IInv, FinishedOrOwed
<1>14. QED
  BY <1>7, <1>8, <1>9, <1>10, <1>11, <1>12, <1>13 DEF IInv

(* Announcing an owed cancellation.                                        *)
LEMMA AnnounceOwedKeepsIInv ==
  ASSUME IInv, NEW snapshot \in owed, AnnounceOwed(snapshot)
  PROVE  IInv'
<1> DEFINE id == snapshot.id
           e == [kind |-> "finished", task |-> snapshot]
<1>1. /\ events' = Append(events, e)
      /\ owed' = owed \ {snapshot}
      /\ task' = task
  BY DEF AnnounceOwed, Announce
<1>2. /\ snapshot \in Snapshots /\ id \in Ids
      /\ snapshot.state = "cancelled"
      /\ task[id] = snapshot
  BY DEF IInv, TypeOK, OwedAreCancelled, Snapshots
<1>3. e \in Events /\ e.task.id = id
  BY <1>2 DEF Events, EventKinds
<1>4. \A i \in Ids : Owed(i)' <=> Owed(i) /\ i # id
  BY <1>1, <1>2 DEF IInv, OwedAreCancelled, Owed
<1>5. Owed(id)
  BY DEF Owed
<1>6. /\ DOMAIN events = 1..Len(events)
      /\ DOMAIN events' = 1..(Len(events) + 1)
      /\ Len(events) \in Nat
      /\ events'[Len(events) + 1] = e
      /\ \A i \in 1..Len(events) : events'[i] = events[i]
  BY <1>1, <1>3 DEF IInv, TypeOK
<1>7. \A i \in DOMAIN events : events[i].task.id \in Ids /\ events[i].kind \in EventKinds
  <2>1. \A i \in DOMAIN events : events[i] \in Events
    BY DEF IInv, TypeOK
  <2>2. \A x \in Events : x.task.id \in Ids /\ x.kind \in EventKinds
    BY DEF Events, Snapshots
  <2>3. QED BY <2>1, <2>2
<1>8. \A i \in DOMAIN events : events[i].task.id = id => events[i].kind # "finished"
  BY <1>5 DEF IInv, EventsFitState, Fits, Owed
<1>9. TypeOK'
  BY <1>1, <1>3 DEF IInv, TypeOK
<1>10. EventProtocol'
  <2>1. \A i \in DOMAIN events : events[i].task.id = id
          => <<events[i].kind, "finished">> \in MayPrecede
    BY <1>7, <1>8 DEF EventKinds, MayPrecede
  <2>2. QED
    BY <2>1, <1>1, <1>3, AppendInProtocol DEF IInv, TypeOK, EventProtocol
<1>11. EventsFitState'
  <2> SUFFICES ASSUME NEW i \in DOMAIN events'
               PROVE  Fits(events'[i].kind, task[events'[i].task.id].state,
                           \E s \in owed' : s.id = events'[i].task.id)
    BY <1>1 DEF EventsFitState
  <2>1. CASE i = Len(events) + 1
    <3>1. ~\E s \in owed' : s.id = id
      BY <1>1, <1>2 DEF IInv, OwedAreCancelled
    <3>2. QED BY <2>1, <3>1, <1>2, <1>3, <1>6 DEF Fits, TerminalStates
  <2>2. CASE i \in DOMAIN events
    <3>1. Fits(events[i].kind, task[events[i].task.id].state,
               \E s \in owed : s.id = events[i].task.id)
      BY <2>2 DEF IInv, EventsFitState
    <3>2. QED BY <3>1, <2>2, <1>1, <1>6 DEF Fits
  <2>3. i \in DOMAIN events \/ i = Len(events) + 1
    BY <1>6
  <2>4. QED BY <2>1, <2>2, <2>3
<1>12. RecordsWereCreated'
  BY <1>1, <1>3, AppendHasEvent DEF IInv, TypeOK, RecordsWereCreated
<1>13. OwedAreCancelled'
  BY <1>1 DEF IInv, OwedAreCancelled
<1>14. RecordsToldOrOwed'
  <2> SUFFICES ASSUME NEW i \in Ids, task[i].state # "absent", ~Owed(i)'
               PROVE  LastEventIs(events', task[i])
    BY <1>1 DEF RecordsToldOrOwed
  <2>1. CASE i = id
    BY <2>1, <1>1, <1>2, <1>3, AppendLastEvent DEF IInv, TypeOK
  <2>2. CASE i # id
    <3>1. LastEventIs(events, task[i])
      BY <2>2, <1>4 DEF IInv, RecordsToldOrOwed
    <3>2. task[i] \in Snapshots /\ task[i].id = i
      BY DEF IInv, TypeOK
    <3>3. QED
      BY <3>1, <3>2, <2>2, <1>1, <1>3, AppendLastEvent DEF IInv, TypeOK
  <2>3. QED BY <2>1, <2>2
<1>15. FinishedOrOwed'
  BY <1>1, <1>3, <1>4, AppendHasEvent DEF IInv, TypeOK, FinishedOrOwed
<1>16. QED
  BY <1>9, <1>10, <1>11, <1>12, <1>13, <1>14, <1>15 DEF IInv

(* Every step of the abstract life cycle preserves the invariant.          *)
LEMMA NextIInv == IInv /\ [Next]_vars => IInv'
<1> SUFFICES ASSUME IInv, [Next]_vars PROVE IInv'
  OBVIOUS
<1>1. \A id \in Ids : task[id] \in Snapshots /\ task[id].id = id
  BY DEF IInv, TypeOK
<1>2. ASSUME NEW id \in Ids, Create(id) PROVE IInv'
  <2>1. /\ Pending(id) \in Snapshots
        /\ Pending(id).id = id /\ Pending(id).state = "pending"
    BY <1>1, SnapshotTransitions DEF Pending
  <2>2. "created" \in EventKinds
    BY DEF EventKinds
  <2>3. LegalMove(task[id].state, "created", Pending(id).state)
    BY <1>2, <2>1 DEF Create, LegalMove
  <2>4. QED BY <1>2, <2>1, <2>2, <2>3, TransitionKeepsIInv DEF Create
<1>3. ASSUME NEW id \in Ids, Start(id) PROVE IInv'
  BY <1>1, <1>3, SnapshotTransitions, TransitionKeepsIInv
     DEF Start, LegalMove, EventKinds
<1>4. ASSUME NEW id \in Ids, NEW n \in 0..Total, Progress(id, n) PROVE IInv'
  <2>1. n \in Nat
    BY TaskDomainAssumption
  <2>2. QED
    BY <1>1, <1>4, <2>1, SnapshotTransitions, TransitionKeepsIInv
       DEF Progress, LegalMove, EventKinds
<1>5. ASSUME NEW id \in Ids, Succeed(id) PROVE IInv'
  BY <1>1, <1>5, SnapshotTransitions, TransitionKeepsIInv
     DEF Succeed, LegalMove, EventKinds, TerminalStates
<1>6. ASSUME NEW id \in Ids, NEW error \in {"failure", "crash"}, Fail(id, error)
      PROVE  IInv'
  BY <1>1, <1>6, SnapshotTransitions, TransitionKeepsIInv
     DEF Fail, LegalMove, EventKinds, TerminalStates
<1>7. ASSUME NEW id \in Ids, Cancel(id) PROVE IInv'
  BY <1>1, <1>7, SnapshotTransitions, TransitionKeepsIInv
     DEF Cancel, LegalMove, EventKinds, TerminalStates, IsLive
<1>8. CASE CancelAll
  BY <1>8, CancelAllKeepsIInv
<1>9. ASSUME NEW snapshot \in owed, AnnounceOwed(snapshot) PROVE IInv'
  BY <1>9, AnnounceOwedKeepsIInv
<1>10. CASE UNCHANGED vars
  BY <1>10 DEF vars, IInv, TypeOK, EventProtocol, EventsFitState,
     RecordsWereCreated, OwedAreCancelled, RecordsToldOrOwed, FinishedOrOwed,
     Owed
<1>11. QED
  BY <1>2, <1>3, <1>4, <1>5, <1>6, <1>7, <1>8, <1>9, <1>10 DEF Next

-----------------------------------------------------------------------------
(* The inductive invariant holds in every behavior of the life cycle.      *)
THEOREM LifecycleInvariant == Spec => []IInv
<1>1. QED BY InitIInv, NextIInv, PTL DEF Spec

(* What the invariant says about one state.                                *)
LEMMA IInvImplies ==
  IInv => EventProtocol /\ EventsTellRecords /\ TerminalAnnouncedOrOwed
<1> SUFFICES ASSUME IInv
             PROVE  EventProtocol /\ EventsTellRecords /\ TerminalAnnouncedOrOwed
  OBVIOUS
<1>1. EventProtocol
  BY DEF IInv
<1>2. \A id \in Ids :
        /\ HasEvent(events, "created", id) => task[id].state # "absent"
        /\ HasEvent(events, "finished", id) => ~Owed(id)
  BY DEF IInv, EventsFitState, Fits, HasEvent, Owed
<1>3. EventsTellRecords
  BY <1>2 DEF IInv, EventsTellRecords, RecordsWereCreated, RecordsToldOrOwed
<1>4. TerminalAnnouncedOrOwed
  BY <1>2 DEF IInv, TerminalAnnouncedOrOwed, FinishedOrOwed
<1>5. QED BY <1>1, <1>3, <1>4

(* The events of a task are created, started, progressed*, finished, in    *)
(* every life cycle: the promise of docs/task-manager.md that nothing      *)
(* follows task_finished.                                                  *)
THEOREM LifecycleEventProtocol == Spec => []EventProtocol
<1>1. QED BY LifecycleInvariant, IInvImplies, PTL

(* The last event of a task carries its record.                            *)
THEOREM LifecycleEventsTellRecords == Spec => []EventsTellRecords
<1>1. QED BY LifecycleInvariant, IInvImplies, PTL

(* A terminal task has been announced, or its announcement is still owed.  *)
THEOREM LifecycleTerminalAnnounced == Spec => []TerminalAnnouncedOrOwed
<1>1. QED BY LifecycleInvariant, IInvImplies, PTL

(* A terminal record is final: no transition of the documented state       *)
(* machine leaves success, failed or cancelled.                            *)
THEOREM LifecycleTerminalIsFinal == Spec => TerminalIsFinal
<1>1. IInv /\ [Next]_vars =>
        [\A id \in Ids : IsTerminal(task[id]) => task'[id] = task[id]]_vars
  <2> SUFFICES ASSUME IInv, Next, NEW id \in Ids, IsTerminal(task[id])
               PROVE  task'[id] = task[id]
    OBVIOUS
  <2>1. /\ task \in [Ids -> Snapshots]
        /\ \A i \in Ids : task[i] \in Snapshots /\ task[i].id = i
        /\ task[id].state \notin {"absent", "pending", "running"}
    BY DEF IInv, TypeOK, IsTerminal, TerminalStates
  <2>2. ASSUME NEW other \in Ids, NEW kind, NEW snapshot, snapshot.id = other,
               Transition(kind, snapshot), other # id
        PROVE  task'[id] = task[id]
    BY <2>1, <2>2 DEF Transition
  <2>3. ASSUME NEW other \in Ids, Create(other) PROVE task'[id] = task[id]
    BY <2>1, <2>2, <2>3 DEF Create, Pending
  <2>4. ASSUME NEW other \in Ids, Start(other) PROVE task'[id] = task[id]
    BY <2>1, <2>2, <2>4, SnapshotTransitions DEF Start
  <2>5. ASSUME NEW other \in Ids, NEW n \in 0..Total, Progress(other, n)
        PROVE  task'[id] = task[id]
    <3>1. n \in Nat
      BY TaskDomainAssumption
    <3>2. QED BY <2>1, <2>2, <2>5, <3>1, SnapshotTransitions DEF Progress
  <2>6. ASSUME NEW other \in Ids, Succeed(other) PROVE task'[id] = task[id]
    BY <2>1, <2>2, <2>6, SnapshotTransitions DEF Succeed
  <2>7. ASSUME NEW other \in Ids, NEW error \in {"failure", "crash"},
               Fail(other, error)
        PROVE  task'[id] = task[id]
    BY <2>1, <2>2, <2>7, SnapshotTransitions DEF Fail
  <2>8. ASSUME NEW other \in Ids, Cancel(other) PROVE task'[id] = task[id]
    BY <2>1, <2>2, <2>8, SnapshotTransitions DEF Cancel, IsLive
  <2>9. CASE CancelAll
    BY <2>1, <2>9 DEF CancelAll, IsLive
  <2>10. ASSUME NEW snapshot \in owed, AnnounceOwed(snapshot)
         PROVE  task'[id] = task[id]
    BY <2>10 DEF AnnounceOwed
  <2>11. QED
    BY <2>3, <2>4, <2>5, <2>6, <2>7, <2>8, <2>9, <2>10 DEF Next
<1>2. QED BY <1>1, LifecycleInvariant, PTL DEF Spec, TerminalIsFinal
=============================================================================
