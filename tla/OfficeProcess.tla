---------------------------- MODULE OfficeProcess ----------------------------
(***************************************************************************)
(* OfficeCliRuntime of infrastructure/office/mod.rs below OfficeService:   *)
(* each command runs one child process of the OfficeCLI program, with two  *)
(* readers that give up at the output limit, a registry through which      *)
(* cancel_all reaches the children, the caller's cancellation token and a  *)
(* timeout; what the child printed is then parsed and validated.           *)
(*                                                                         *)
(* The program itself is external: it applies the operations of a batch in *)
(* order and reports each of them, may fail at any one, and ends when and  *)
(* how it likes.                                                           *)
(***************************************************************************)
EXTENDS Integers, Sequences, FiniteSets, Functions

CONSTANTS
  Runs,        (* calls of run_process                                      *)
  Commands,    (* the commands that are run                                 *)
  BatchLength  (* how many operations a batch has                           *)

AllCommands ==
  {"probe", "open", "close", "create", "inspect", "batch", "preview"}

OfficeProcessAssumption ==
  /\ Commands \subseteq AllCommands
  /\ BatchLength \in Nat \ {0}

VARIABLES
  run,              (* each call                                            *)
  activeChildren,   (* active_children                                      *)
  sweep,            (* the tokens cancel_all has copied and not yet         *)
                    (* cancelled                                            *)
  runtimeCancelled, (* calls whose token in the registry was cancelled      *)
  callerCancelled   (* calls whose caller has cancelled                     *)

tokenVars == <<sweep, runtimeCancelled, callerCancelled>>
vars == <<run, activeChildren, tokenVars>>

(* open and create finish their handshake: no cancellation reaches their   *)
(* child.  close is only stopped by cancel_all.                            *)
CallerCancellable == {"inspect", "batch", "preview"}
RuntimeCancellable == AllCommands \ {"open", "create"}

Unstarted ==
  [command |-> "none", stage |-> "idle", child |-> "none",
   stdout |-> "none", stderr |-> "none", applied |-> <<>>,
   response |-> "none", verdict |-> "none", result |-> "none"]

Init ==
  /\ run = [r \in Runs |-> Unstarted]
  /\ activeChildren = {} /\ sweep = {}
  /\ runtimeCancelled = {} /\ callerCancelled = {}

In(r, stage) == run[r].stage = stage
Set(r, fields) ==
  run' = [run EXCEPT ![r] =
            [name \in DOMAIN @ |-> IF name \in DOMAIN fields THEN fields[name]
                                                             ELSE @[name]]]

-----------------------------------------------------------------------------
(* run_process.                                                            *)

(* The call was cancelled before, the commands of a batch are too long for *)
(* an argument, the sidecar is missing, or the spawn failed: no child ever *)
(* was.                                                                    *)
StartFails(r, command) ==
  /\ In(r, "idle")
  /\ \E result \in {"cancelled", "output_limit", "missing_sidecar", "spawn"} :
       /\ result = "cancelled"
            => command \in CallerCancellable /\ r \in callerCancelled
       /\ result = "output_limit" => command = "batch"
       /\ Set(r, [command |-> command, stage |-> "returned", result |-> result])
  /\ UNCHANGED <<activeChildren, tokenVars>>

Spawn(r, command) ==
  /\ In(r, "idle")
  /\ ~(command \in CallerCancellable /\ r \in callerCancelled)
  /\ Set(r, [command |-> command, stage |-> "spawned", child |-> "alive",
             stdout |-> "reading", stderr |-> "reading"])
  /\ UNCHANGED <<activeChildren, tokenVars>>

(* Between the spawn and this step cancel_all does not see the child.      *)
Register(r) ==
  /\ In(r, "spawned")
  /\ activeChildren' = IF run[r].command \in RuntimeCancellable
                       THEN activeChildren \cup {r} ELSE activeChildren
  /\ Set(r, [stage |-> "waiting"])
  /\ UNCHANGED tokenVars

Ready(r) ==
  {verdict \in {"exited", "io", "cancelled", "timeout", "output_limit"} :
     \/ verdict = "exited" /\ run[r].child # "alive"
     \/ verdict = "io"
     \/ verdict = "cancelled" /\ run[r].command \in CallerCancellable
                              /\ r \in callerCancelled
     \/ verdict = "cancelled" /\ r \in runtimeCancelled
     \/ verdict = "timeout"
     \/ verdict = "output_limit" /\ "limit" \in {run[r].stdout, run[r].stderr}}

(* select! takes any branch that is ready; waiting for the child may fail. *)
Decide(r) ==
  /\ In(r, "waiting")
  /\ \E verdict \in Ready(r) :
       Set(r, [stage |-> "deregistering", verdict |-> verdict])
  /\ UNCHANGED <<activeChildren, tokenVars>>

Deregister(r) ==
  /\ In(r, "deregistering")
  /\ activeChildren' = activeChildren \ {r}
  /\ Set(r, [stage |-> IF run[r].verdict = "exited" THEN "joining" ELSE "killing"])
  /\ UNCHANGED tokenVars

(* kill, and wait until the child is gone; it may have been quicker.       *)
Kill(r) ==
  /\ In(r, "killing")
  /\ Set(r, [stage |-> "joining",
             child |-> IF run[r].child = "alive" THEN "signalled" ELSE run[r].child])
  /\ UNCHANGED <<activeChildren, tokenVars>>

(* validate_success_envelope: all that open, close, create and preview ask *)
(* of a response.                                                          *)
ValidateEnvelope(response) ==
  CASE response \in {"garbage", "none"} -> "invalid_json"
    [] response = "failure"             -> "non_zero_exit"
    [] OTHER                            -> "ok"

(* success_data: the data must be there as well.                           *)
ValidateData(response) ==
  IF response = "no data" THEN "invalid_json" ELSE ValidateEnvelope(response)

(* Faulty variant: the success flag of a batch is believed. *)
ValidateBatchByFlag(response, applied) == ValidateEnvelope(response)

(* validate_batch_envelope: every operation was executed and succeeded.    *)
ValidateBatch(response, applied) ==
  IF ValidateData(response) # "ok" THEN ValidateData(response)
  ELSE IF Len(applied) = BatchLength /\ FALSE \notin Range(applied) THEN "ok"
  ELSE "invalid_json"

(* probe compares the version that was printed with the manifest's.        *)
ValidateVersion(response) ==
  IF response = "success" THEN "ok" ELSE "version_mismatch"

Validate(r) ==
  CASE run[r].command = "probe"   -> ValidateVersion(run[r].response)
    [] run[r].command = "batch"   -> ValidateBatch(run[r].response, run[r].applied)
    [] run[r].command = "inspect" -> ValidateData(run[r].response)
    [] OTHER                      -> ValidateEnvelope(run[r].response)

(* What the readers failed with comes before what ended the wait, and that *)
(* before the exit status.                                                 *)
Outcome(r) ==
  CASE run[r].stdout = "limit"      -> "output_limit"
    [] run[r].stdout = "io"         -> "io"
    [] run[r].stderr = "limit"      -> "output_limit"
    [] run[r].stderr = "io"         -> "io"
    [] run[r].verdict # "exited"    -> run[r].verdict
    [] run[r].child = "nonzero"     -> "non_zero_exit"
    [] run[r].child = "signalled"   -> "crashed"
    [] OTHER                        -> Validate(r)

(* join_reader waits without a timeout, for the reader of stderr only when *)
(* that of stdout did not fail.                                            *)
Return(r) ==
  /\ In(r, "joining")
  /\ run[r].stdout # "reading"
  /\ run[r].stdout = "whole" => run[r].stderr # "reading"
  /\ Set(r, [stage |-> "returned", result |-> Outcome(r)])
  /\ UNCHANGED <<activeChildren, tokenVars>>

-----------------------------------------------------------------------------
(* The readers.                                                            *)

(* End of file comes when the child is gone; a limit or an error sooner.   *)
Read(r, stream, end) ==
  /\ run[r][stream] = "reading"
  /\ end = "whole" => run[r].child # "alive"
  /\ Set(r, [name \in {stream} |-> end])
  /\ UNCHANGED <<activeChildren, tokenVars>>

-----------------------------------------------------------------------------
(* The OfficeCLI program.                                                  *)

(* The next operation of a batch is applied, or refused.                   *)
Apply(r, succeeds) ==
  /\ run[r].child = "alive" /\ run[r].command = "batch"
  /\ Len(run[r].applied) < BatchLength
  /\ Set(r, [applied |-> Append(run[r].applied, succeeds)])
  /\ UNCHANGED <<activeChildren, tokenVars>>

(* It prints its response and exits, or dies of a signal; a batch may say  *)
(* success although some of its operations failed or were not executed.    *)
ChildExits(r, status, response) ==
  /\ run[r].child = "alive"
  /\ Set(r, [child |-> status, response |-> response])
  /\ UNCHANGED <<activeChildren, tokenVars>>

-----------------------------------------------------------------------------
(* Cancellation.                                                           *)

CallerCancels(r) ==
  /\ r \notin callerCancelled /\ ~In(r, "returned")
  /\ callerCancelled' = callerCancelled \cup {r}
  /\ UNCHANGED <<run, activeChildren, sweep, runtimeCancelled>>

(* cancel_all copies the tokens under the lock and cancels them after it.  *)
CancelAll ==
  /\ sweep = {}
  /\ sweep' = activeChildren \ runtimeCancelled
  /\ UNCHANGED <<run, activeChildren, runtimeCancelled, callerCancelled>>

CancelNext(r) ==
  /\ r \in sweep
  /\ sweep' = sweep \ {r}
  /\ runtimeCancelled' = runtimeCancelled \cup {r}
  /\ UNCHANGED <<run, activeChildren, callerCancelled>>

-----------------------------------------------------------------------------
Streams == {"stdout", "stderr"}
ReaderEnds == {"whole", "limit", "io"}
Responses == {"success", "no data", "failure", "garbage", "none"}

Proceed(r) ==
  Register(r) \/ Decide(r) \/ Deregister(r) \/ Kill(r) \/ Return(r)

Program(r) ==
  \/ \E succeeds \in BOOLEAN : Apply(r, succeeds)
  \/ \E status \in {"zero", "nonzero", "signalled"}, response \in Responses :
       ChildExits(r, status, response)

Next ==
  \/ \E r \in Runs :
       \/ \E command \in Commands : StartFails(r, command) \/ Spawn(r, command)
       \/ Proceed(r)
       \/ \E stream \in Streams, end \in ReaderEnds : Read(r, stream, end)
       \/ Program(r)
       \/ CallerCancels(r) \/ CancelNext(r)
  \/ CancelAll

Spec == Init /\ [][Next]_vars

-----------------------------------------------------------------------------
TypeOK ==
  /\ \A r \in Runs :
       /\ run[r].command \in Commands \cup {"none"}
       /\ run[r].stage \in {"idle", "spawned", "waiting", "deregistering",
                            "killing", "joining", "returned"}
       /\ run[r].child \in {"none", "alive", "zero", "nonzero", "signalled"}
       /\ {run[r].stdout, run[r].stderr} \subseteq ReaderEnds \cup {"none", "reading"}
       /\ run[r].applied \in Seq(BOOLEAN)
       /\ run[r].response \in Responses
       /\ run[r].verdict \in {"none", "exited", "io", "cancelled", "timeout",
                               "output_limit"}
  /\ activeChildren \subseteq Runs /\ sweep \subseteq Runs
  /\ runtimeCancelled \subseteq Runs /\ callerCancelled \subseteq Runs

(* A command never leaves its child behind and never believes half of it:  *)
(* when it returns, its child is gone and out of the registry, whichever   *)
(* of exit, cancellation, timeout and output limit came first; it succeeds *)
(* only if the child exited with 0 and both streams were read whole, a     *)
(* batch only if every operation was applied; and it says cancelled only   *)
(* when its caller or cancel_all asked for that.                           *)
RunsEndCleanly ==
  \A r \in Runs :
    /\ In(r, "returned") => run[r].child # "alive" /\ r \notin activeChildren
    /\ run[r].result = "ok" =>
         /\ run[r].child = "zero"
         /\ run[r].stdout = "whole" /\ run[r].stderr = "whole"
         /\ run[r].command = "batch" =>
              run[r].applied = [i \in 1..BatchLength |-> TRUE]
    /\ run[r].result = "cancelled" =>
         \/ r \in callerCancelled /\ run[r].command \in CallerCancellable
         \/ r \in runtimeCancelled /\ run[r].command \in RuntimeCancellable
    /\ r \in activeChildren => run[r].stage \in {"waiting", "deregistering"}
=============================================================================
