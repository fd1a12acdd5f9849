---------------------------- MODULE OfficeService ---------------------------
(***************************************************************************)
(* OfficeService of application/office_service.rs together with the        *)
(* OfficeCLI runtime of infrastructure/office/mod.rs: document sessions    *)
(* whose residents outlive the command that opened them, one async lock    *)
(* per path, documents staged, closed and then committed under a new name, *)
(* cancellation by the caller, and a shutdown that kills running children  *)
(* and closes the sessions registered at that moment.                      *)
(*                                                                         *)
(* Every await is the end of a step.  The OfficeCLI program is external:   *)
(* open starts a resident or reuses the one of the document, close ends    *)
(* it, and each may fail before or after it had its effect, or leave its   *)
(* streams open, which holds up its caller for good.                       *)
(***************************************************************************)
EXTENDS Integers, FiniteSets

CONSTANTS
  Operations,   (* calls to the service; also names of their staging files  *)
  Documents,    (* existing documents                                       *)
  Targets,      (* names of documents to be created                         *)
  Requests,     (* what callers ask for: [kind, path, target]               *)
  MaxFailures,  (* bound: how often OfficeCLI fails to open, close or end   *)
  Shutdown,     (* the one call of shutdown, made by the exit handler       *)
  Nobody        (* no holder of a lock                                      *)

Files == Documents \cup Targets
Paths == Files \cup Operations
Actors == Operations \cup {Shutdown}
Kinds == {"open", "close", "inspect", "apply", "create"}

ASSUME OfficeServiceAssumption ==
  /\ Requests \subseteq [kind : Kinds, path : Files, target : Files]
  /\ MaxFailures \in Nat
  /\ Shutdown \notin Paths
  /\ Nobody \notin Actors \cup Files
  /\ Operations \cap Files = {}

VARIABLES
  accepting,  (* accepting                                                  *)
  lock,       (* the holder of each path's lock                             *)
  owned,      (* owned_sessions                                             *)
  resident,   (* the OfficeCLI resident of each path: "none", "ours" when   *)
              (* the service started it, "foreign" otherwise                *)
  file,       (* what is on disk under each name                            *)
  request,    (* what each operation was asked                              *)
  pc,         (* where each operation and shutdown are                      *)
  at,         (* the path each of them is working on                        *)
  owns,       (* owns_session of the operation's open                       *)
  failed,     (* the operation has failed                                   *)
  cancelled,  (* the caller's cancellation token                            *)
  killed,     (* operations whose running child cancel_all has killed       *)
  todo,       (* paths shutdown has still to lock and close                 *)
  failures,   (* children that failed or hung of themselves                 *)
  lost,       (* history: paths where the result of such a call was dropped *)
  stale       (* history: paths whose failed close had ended the resident   *)

callVars == <<request, at, owns>>
outsideVars == <<accepting, cancelled, todo>>
cliVars == <<resident, failures, lost, stale, killed>>
vars == <<lock, owned, file, pc, failed, callVars, outsideVars, cliVars>>

ClosingPlaces ==
  {"idle", "locking", "closing", "child close", "deregistering", "hung", "done"}
ShutdownPlaces == ClosingPlaces \cup {"cancelling", "collecting", "looping"}
OperationPlaces ==
  ClosingPlaces \cup
  {"preparing", "opening", "child open", "opened", "registering",
   "operating", "child discard", "concluding", "committing"}

(* Where an operation has a child process that cancel_all can kill.        *)
Killable == {"operating", "child close", "child discard"}

NoRequest == [kind |-> "none"]

Init ==
  /\ accepting = TRUE
  /\ lock = [p \in Paths |-> Nobody]
  /\ owned = {}
  /\ resident = [p \in Paths |-> "none"]
  /\ file = [f \in Files |-> IF f \in Documents THEN "theirs" ELSE "absent"]
  /\ request = [o \in Operations |-> NoRequest]
  /\ pc = [a \in Actors |-> "idle"]
  /\ at = [a \in Actors |-> Nobody]
  /\ owns = [o \in Operations |-> FALSE]
  /\ failed = [o \in Operations |-> FALSE]
  /\ cancelled = [o \in Operations |-> FALSE]
  /\ killed = {}
  /\ todo = {}
  /\ failures = 0
  /\ lost = {}
  /\ stale = {}

Goto(a, place) == pc' = [pc EXCEPT ![a] = place]

(* Faulty variant: only the lock taken last is released.                   *)
EndReleasingLast(o) ==
  /\ Goto(o, "done")
  /\ lock' = [lock EXCEPT ![at[o]] = Nobody]

(* The call returns: its lock guards are dropped.                          *)
End(o) ==
  /\ Goto(o, "done")
  /\ lock' = [p \in Paths |-> IF lock[p] = o THEN Nobody ELSE lock[p]]

EndFailed(o) == End(o) /\ failed' = [failed EXCEPT ![o] = TRUE]

(* The call goes on: locks are kept.                                       *)
Continue(o, place) == Goto(o, place) /\ UNCHANGED <<lock, failed>>

-----------------------------------------------------------------------------
(* The OfficeCLI program.                                                  *)

OpenStarts(p) ==
  /\ resident[p] = "none"
  /\ resident' = [resident EXCEPT ![p] = "ours"]
  /\ UNCHANGED <<failures, lost, stale, killed>>

OpenReuses(p) ==
  /\ resident[p] # "none"
  /\ UNCHANGED cliVars

(* The open child failed or timed out, possibly after it forked a resident *)
(* nobody was told of.                                                     *)
OpenFails(p) ==
  /\ failures < MaxFailures
  /\ failures' = failures + 1
  /\ \/ UNCHANGED <<resident, lost>>
     \/ /\ resident[p] = "none"
        /\ resident' = [resident EXCEPT ![p] = "ours"]
        /\ lost' = lost \cup {p}
  /\ UNCHANGED <<stale, killed>>

CloseSucceeds(a, p) ==
  /\ resident' = [resident EXCEPT ![p] = "none"]
  /\ killed' = killed \ {a}
  /\ UNCHANGED <<failures, lost, stale>>

(* The close child failed, timed out or was killed, before or after the    *)
(* resident got the message.                                               *)
CloseFails(a, p) ==
  /\ IF a \in killed THEN UNCHANGED failures
     ELSE failures < MaxFailures /\ failures' = failures + 1
  /\ killed' = killed \ {a}
  /\ \/ UNCHANGED <<resident, stale>>
     \/ /\ resident' = [resident EXCEPT ![p] = "none"]
        /\ stale' = stale \cup {p}

(* run_process: a child that was killed or has exited is waited for until  *)
(* its streams end, which something it started may keep open for good; the *)
(* path stays locked, and the child is no longer one that can be killed.   *)
ChildHangs(a) ==
  /\ failures < MaxFailures
  /\ \/ pc[a] = "child open" /\ OpenFails(at[a])
     \/ pc[a] = "child close" /\ CloseFails(a, at[a]) /\ UNCHANGED lost
     \/ /\ pc[a] = "child discard"
        /\ CloseFails(a, at[a]) /\ lost' = lost \cup {at[a]}
     \/ /\ pc[a] = "operating"
        /\ failures' = failures + 1 /\ killed' = killed \ {a}
        /\ UNCHANGED <<resident, lost, stale>>
  /\ Goto(a, "hung")
  /\ UNCHANGED <<lock, owned, file, failed, callVars, outsideVars>>

-----------------------------------------------------------------------------
(* The beginning of every call.                                            *)

Exists(f) == file[f] # "absent"

(* ensure_accepting (close_document has none) and path normalisation.      *)
Begin(o, r) ==
  /\ pc[o] = "idle"
  /\ accepting \/ r.kind = "close"
  /\ r.kind # "create" => Exists(r.path)
  /\ request' = [request EXCEPT ![o] = r]
  /\ at' = [at EXCEPT ![o] = r.path]
  /\ Goto(o, "locking")
  /\ UNCHANGED <<lock, owned, file, failed, owns, outsideVars, cliVars>>

FirstPlace ==
  [open |-> "opening", inspect |-> "opening", close |-> "closing",
   apply |-> "preparing", create |-> "preparing"]

LockPath(o) ==
  /\ pc[o] = "locking"
  /\ lock[at[o]] = Nobody
  /\ lock' = [lock EXCEPT ![at[o]] = o]
  /\ Goto(o, FirstPlace[request[o].kind])
  /\ UNCHANGED <<owned, file, failed, callVars, outsideVars, cliVars>>

(* apply_operations and create_document: the output must be free; then the *)
(* staging directory, the lock of the staged file, and for apply the copy, *)
(* which may fail.                                                         *)
Prepare(o) ==
  /\ pc[o] = "preparing"
  /\ \/ /\ ~Exists(request[o].target)
        /\ at' = [at EXCEPT ![o] = o]
        /\ lock' = [lock EXCEPT ![o] = o]
        /\ Goto(o, "opening")
        /\ UNCHANGED failed
     \/ EndFailed(o) /\ UNCHANGED at
  /\ UNCHANGED <<owned, file, request, owns, outsideVars, cliVars>>

(* open_locked and runtime.open or runtime.create: a cancelled call does   *)
(* not start the child.                                                    *)
StartOpen(o) ==
  /\ pc[o] = "opening"
  /\ IF cancelled[o] THEN EndFailed(o) ELSE Continue(o, "child open")
  /\ UNCHANGED <<owned, file, callVars, outsideVars, cliVars>>

Creates(o) == request[o].kind = "create"

(* The handshake came through.  A resident that was started for a call     *)
(* cancelled meanwhile is closed at once.                                  *)
OpenReturns(o) ==
  /\ pc[o] = "child open"
  /\ \/ OpenStarts(at[o]) /\ owns' = [owns EXCEPT ![o] = TRUE]
     \/ OpenReuses(at[o]) /\ owns' = [owns EXCEPT ![o] = Creates(o)]
  /\ IF cancelled[o]
     THEN IF owns'[o] THEN Continue(o, "child discard") ELSE EndFailed(o)
     ELSE Continue(o, IF Creates(o) THEN "registering" ELSE "opened")
  /\ UNCHANGED <<owned, file, request, at, outsideVars>>

(* Only create tries to close after a failure.                             *)
OpenErrs(o) ==
  /\ pc[o] = "child open"
  /\ OpenFails(at[o])
  /\ IF Creates(o) THEN Continue(o, "child discard") ELSE EndFailed(o)
  /\ UNCHANGED <<owned, file, callVars, outsideVars>>

(* Faulty variant: open_locked gives up without closing the session.       *)
CheckAcceptingDropping(o) ==
  /\ pc[o] = "opened"
  /\ IF accepting THEN Continue(o, "registering") ELSE EndFailed(o)
  /\ UNCHANGED <<owned, file, callVars, outsideVars, cliVars>>

(* open_locked looks at accepting again once the session is open; create   *)
(* does not.                                                               *)
CheckAccepting(o) ==
  /\ pc[o] = "opened"
  /\ IF accepting THEN Continue(o, "registering")
     ELSE IF owns[o] THEN Continue(o, "child discard") ELSE EndFailed(o)
  /\ UNCHANGED <<owned, file, callVars, outsideVars, cliVars>>

(* A best-effort close whose result is ignored before the call fails.      *)
Discarded(o) ==
  /\ pc[o] = "child discard"
  /\ \/ CloseSucceeds(o, at[o])
     \/ CloseFails(o, at[o]) /\ lost' = lost \cup {at[o]}
  /\ EndFailed(o)
  /\ UNCHANGED <<owned, file, callVars, outsideVars>>

(* open_document returns, create closes what it created, the others work.  *)
ProceedWithSession(o) ==
  CASE request[o].kind = "open"   -> End(o) /\ UNCHANGED failed
    [] request[o].kind = "create" -> Continue(o, "closing")
    [] OTHER                      -> Continue(o, "operating")

(* Faulty variant: a reused session is registered as well.                 *)
RegisterAlways(o) ==
  /\ pc[o] = "registering"
  /\ owned' = owned \cup {at[o]}
  /\ ProceedWithSession(o)
  /\ UNCHANGED <<file, callVars, outsideVars, cliVars>>

Register(o) ==
  /\ pc[o] = "registering"
  /\ owned' = IF owns[o] THEN owned \cup {at[o]} ELSE owned
  /\ ProceedWithSession(o)
  /\ UNCHANGED <<file, callVars, outsideVars, cliVars>>

(* inspect, render_preview or apply_batch on the open session: a cancelled *)
(* or killed child may still have been quicker.  A session that is not the *)
(* service's own is left open.                                             *)
Operate(o) ==
  /\ pc[o] = "operating"
  /\ \/ UNCHANGED failed
     \/ failed' = [failed EXCEPT ![o] = TRUE]
  /\ Goto(o, IF owns[o] THEN "closing" ELSE "concluding")
  /\ killed' = killed \ {o}
  /\ UNCHANGED <<lock, owned, file, callVars, outsideVars, resident, failures,
                 lost, stale>>

-----------------------------------------------------------------------------
(* close_locked, on behalf of an operation or of shutdown.                 *)

(* Faulty variant: shutdown goes on as an operation does.                  *)
AfterCloseConcluding(a) == "concluding"

AfterClose(a) == IF a = Shutdown THEN "looping" ELSE "concluding"

StartClose(a) ==
  /\ pc[a] = "closing"
  /\ Goto(a, IF at[a] \in owned THEN "child close" ELSE AfterClose(a))
  /\ UNCHANGED <<lock, owned, file, failed, callVars, outsideVars, cliVars>>

(* Faulty variant: the session is forgotten whether or not it was closed. *)
CloseErrsForgetting(a) ==
  /\ pc[a] = "child close"
  /\ CloseFails(a, at[a]) /\ UNCHANGED lost
  /\ owned' = owned \ {at[a]}
  /\ failed' = IF a = Shutdown THEN failed ELSE [failed EXCEPT ![a] = TRUE]
  /\ Goto(a, AfterClose(a))
  /\ UNCHANGED <<lock, file, callVars, outsideVars>>

(* A failed close leaves the session registered.                           *)
CloseErrs(a) ==
  /\ pc[a] = "child close"
  /\ CloseFails(a, at[a]) /\ UNCHANGED lost
  /\ failed' = IF a = Shutdown THEN failed ELSE [failed EXCEPT ![a] = TRUE]
  /\ Goto(a, AfterClose(a))
  /\ UNCHANGED <<lock, owned, file, callVars, outsideVars>>

CloseReturns(a) ==
  /\ pc[a] = "child close"
  /\ CloseSucceeds(a, at[a])
  /\ Goto(a, "deregistering")
  /\ UNCHANGED <<lock, owned, file, failed, callVars, outsideVars>>

Deregister(a) ==
  /\ pc[a] = "deregistering"
  /\ owned' = owned \ {at[a]}
  /\ Goto(a, AfterClose(a))
  /\ UNCHANGED <<lock, file, failed, callVars, outsideVars, cliVars>>

-----------------------------------------------------------------------------
(* The end of a call.                                                      *)

Commits(o) == request[o].kind \in {"apply", "create"}

(* Faulty variant: the result of the close is not looked at. *)
ConcludeIgnoringClose(o) ==
  /\ pc[o] = "concluding"
  /\ IF Commits(o) /\ ~cancelled[o] /\ accepting THEN Continue(o, "committing")
     ELSE End(o) /\ UNCHANGED failed
  /\ UNCHANGED <<owned, file, callVars, outsideVars, cliVars>>

(* operation_result?, close_result?, the cancellation token and            *)
(* ensure_accepting stand between a staged document and its commit.        *)
Conclude(o) ==
  /\ pc[o] = "concluding"
  /\ IF ~Commits(o) THEN End(o) /\ UNCHANGED failed
     ELSE IF failed[o] \/ cancelled[o] \/ ~accepting THEN EndFailed(o)
     ELSE Continue(o, "committing")
  /\ UNCHANGED <<owned, file, callVars, outsideVars, cliVars>>

(* commit_staged_file: persist_noclobber, which may also fail.             *)
Commit(o) ==
  LET target == request[o].target
  IN  /\ pc[o] = "committing"
      /\ \/ /\ ~Exists(target)
            /\ file' = [file EXCEPT ![target] = "committed"]
            /\ End(o)
            /\ UNCHANGED failed
         \/ EndFailed(o) /\ UNCHANGED file
      /\ UNCHANGED <<owned, callVars, outsideVars, cliVars>>

-----------------------------------------------------------------------------
(* shutdown.                                                               *)

StopAccepting ==
  /\ pc[Shutdown] = "idle"
  /\ accepting' = FALSE
  /\ Goto(Shutdown, "cancelling")
  /\ UNCHANGED <<lock, owned, file, failed, cancelled, todo, callVars, cliVars>>

CancelChildren ==
  /\ pc[Shutdown] = "cancelling"
  /\ killed' = {o \in Operations : pc[o] \in Killable}
  /\ Goto(Shutdown, "collecting")
  /\ UNCHANGED <<lock, owned, file, failed, callVars, outsideVars, resident,
                 failures, lost, stale>>

CollectSessions ==
  /\ pc[Shutdown] = "collecting"
  /\ todo' = owned
  /\ Goto(Shutdown, "looping")
  /\ UNCHANGED <<accepting, lock, owned, file, failed, cancelled, callVars,
                 cliVars>>

(* The sessions are closed one after the other, in no particular order:    *)
(* each is waited for until whoever works on its path lets go of it.       *)
ChooseNext(p) ==
  /\ pc[Shutdown] = "looping"
  /\ at[Shutdown] = Nobody
  /\ p \in todo
  /\ at' = [at EXCEPT ![Shutdown] = p]
  /\ Goto(Shutdown, "locking")
  /\ UNCHANGED <<lock, owned, file, failed, request, owns, outsideVars, cliVars>>

LockNext ==
  /\ pc[Shutdown] = "locking"
  /\ lock[at[Shutdown]] = Nobody
  /\ lock' = [lock EXCEPT ![at[Shutdown]] = Shutdown]
  /\ todo' = todo \ {at[Shutdown]}
  /\ Goto(Shutdown, "closing")
  /\ UNCHANGED <<accepting, owned, file, failed, cancelled, callVars, cliVars>>

(* The guard is dropped at the end of the loop's body.                     *)
ReleaseSession ==
  /\ pc[Shutdown] = "looping"
  /\ at[Shutdown] # Nobody
  /\ lock' = [lock EXCEPT ![at[Shutdown]] = Nobody]
  /\ at' = [at EXCEPT ![Shutdown] = Nobody]
  /\ UNCHANGED <<owned, file, pc, failed, request, owns, outsideVars, cliVars>>

ShutdownReturns ==
  /\ pc[Shutdown] = "looping"
  /\ at[Shutdown] = Nobody
  /\ todo = {}
  /\ Goto(Shutdown, "done")
  /\ UNCHANGED <<lock, owned, file, failed, callVars, outsideVars, cliVars>>

-----------------------------------------------------------------------------
(* The callers and other programs.                                         *)

Cancel(o) ==
  /\ pc[o] \notin {"idle", "done"}
  /\ ~cancelled[o]
  /\ cancelled' = [cancelled EXCEPT ![o] = TRUE]
  /\ UNCHANGED <<lock, owned, file, pc, failed, callVars, accepting, todo,
                 cliVars>>

ForeignOpen(f) ==
  /\ Exists(f)
  /\ resident[f] = "none"
  /\ resident' = [resident EXCEPT ![f] = "foreign"]
  /\ UNCHANGED <<failures, lost, stale, killed, lock, owned, file, pc, failed,
                 callVars, outsideVars>>

ForeignClose(f) ==
  /\ resident[f] = "foreign"
  /\ resident' = [resident EXCEPT ![f] = "none"]
  /\ UNCHANGED <<failures, lost, stale, killed, lock, owned, file, pc, failed,
                 callVars, outsideVars>>

ForeignCreate(f) ==
  /\ ~Exists(f)
  /\ file' = [file EXCEPT ![f] = "theirs"]
  /\ UNCHANGED <<lock, owned, pc, failed, callVars, outsideVars, cliVars>>

-----------------------------------------------------------------------------
CloseStep(a) == StartClose(a) \/ CloseReturns(a) \/ CloseErrs(a) \/ Deregister(a)

OperationStep(o) ==
  \/ LockPath(o) \/ Prepare(o)
  \/ StartOpen(o) \/ OpenReturns(o) \/ OpenErrs(o) \/ CheckAccepting(o)
  \/ Discarded(o) \/ Register(o) \/ Operate(o) \/ CloseStep(o)
  \/ Conclude(o) \/ Commit(o)

ShutdownProceeds ==
  \/ CancelChildren \/ CollectSessions
  \/ (\E p \in Paths : ChooseNext(p)) \/ LockNext \/ CloseStep(Shutdown)
  \/ ReleaseSession \/ ShutdownReturns

OtherProgramStep ==
  \E f \in Files : ForeignOpen(f) \/ ForeignClose(f) \/ ForeignCreate(f)

(* A call whose child hangs, and one that waits for the path of such a     *)
(* call: neither goes on.                                                  *)
Hung(a) == pc[a] = "hung"
WaitsForHung(a) ==
  /\ pc[a] = "locking"
  /\ lock[at[a]] # Nobody
  /\ Hung(lock[at[a]])
Over(a) == pc[a] = "done" \/ Hung(a) \/ WaitsForHung(a)

Terminated == (\A a \in Actors : Over(a)) /\ UNCHANGED vars

Next ==
  \/ \E o \in Operations :
       (\E r \in Requests : Begin(o, r)) \/ OperationStep(o) \/ Cancel(o)
  \/ StopAccepting \/ ShutdownProceeds
  \/ \E a \in Actors : ChildHangs(a)
  \/ OtherProgramStep
  \/ Terminated

Spec == Init /\ [][Next]_vars

(* Every child exits or is killed within its timeout and every lock is a   *)
(* fair async mutex, so a call that has begun goes on until its child      *)
(* hangs, which is no part of these steps; nobody has to begin, cancel or  *)
(* shut down.                                                              *)
Fairness ==
  /\ \A o \in Operations : WF_vars(OperationStep(o))
  /\ WF_vars(ShutdownProceeds)

FairSpec == Spec /\ Fairness

-----------------------------------------------------------------------------
TypeOK ==
  /\ accepting \in BOOLEAN
  /\ lock \in [Paths -> Actors \cup {Nobody}]
  /\ owned \subseteq Paths
  /\ resident \in [Paths -> {"none", "ours", "foreign"}]
  /\ file \in [Files -> {"absent", "theirs", "committed"}]
  /\ request \in [Operations -> Requests \cup {NoRequest}]
  /\ pc \in [Actors -> OperationPlaces \cup ShutdownPlaces]
  /\ \A o \in Operations : pc[o] \in OperationPlaces
  /\ pc[Shutdown] \in ShutdownPlaces
  /\ at \in [Actors -> Paths \cup {Nobody}]
  /\ owns \in [Operations -> BOOLEAN]
  /\ failed \in [Operations -> BOOLEAN]
  /\ cancelled \in [Operations -> BOOLEAN]
  /\ killed \subseteq Operations
  /\ todo \subseteq Paths
  /\ failures \in 0..MaxFailures
  /\ lost \subseteq Paths /\ stale \subseteq Paths

(* No resident is forgotten: one the service started is registered, or in  *)
(* the hands of the call that holds its path lock, unless OfficeCLI failed *)
(* to answer an open or the result of a best-effort close was dropped.     *)
NoForgottenResident ==
  \A p \in Paths :
    resident[p] = "ours" => p \in owned \/ lock[p] # Nobody \/ p \in lost

(* A session stays registered until its resident is gone, so that a close  *)
(* that failed is tried again by close_document or by shutdown.            *)
RegisteredUntilGone ==
  [][\A p \in Paths : p \in owned /\ p \notin owned' => resident[p] # "ours"]_vars

(* docs/officecli-integration.md: a resident another program started may   *)
(* be reused but is never closed, except where a close of the service's    *)
(* own resident failed after it had worked, which leaves the path          *)
(* registered.                                                             *)
ForeignResidentsSurvive ==
  [][~OtherProgramStep =>
       \A p \in Paths \ stale :
         resident[p] = "foreign" => resident'[p] = "foreign"]_vars

(* Only complete documents appear: a commit never replaces a file, and     *)
(* never happens while the service's resident may still write the staged   *)
(* file, nor after the operation on it failed.                             *)
CommittedOnlyWhenClosed ==
  [][\A o \in Operations :
       pc[o] = "committing" /\ pc'[o] # pc[o] /\ file' # file
         => /\ resident[o] # "ours" /\ o \notin owned /\ ~failed[o]
            /\ file[request[o].target] = "absent"]_vars

(* Every call that has begun returns, and so does shutdown: whoever waits  *)
(* for a path lock gets it.  A child whose streams stay open holds up its  *)
(* own call, and those that wait for the same path, and nobody else.       *)
CallsReturn ==
  /\ \A o \in Operations : pc[o] # "idle" ~> Over(o)
  /\ ~accepting ~> Over(Shutdown)

(* docs/officecli-integration-prd.md: leaving ShenDesk leaves no resident  *)
(* behind, once shutdown and every call have returned.                     *)
ExitLeavesNoResident ==
  (\A a \in Actors : pc[a] = "done") => \A p \in Paths : resident[p] # "ours"
=============================================================================
