---------------------------- MODULE UpdateService ----------------------------
(***************************************************************************)
(* UpdateService of application/update_service.rs over TauriUpdateBackend: *)
(* checks and installations of a signed update, kept apart by an operation *)
(* lock that is only tried, never waited for.  A check retains what it     *)
(* found as the pending update, an installation takes whatever is pending. *)
(*                                                                         *)
(* The release channel, the download and the signature check are Tauri's:  *)
(* they answer what is newest, deliver chunks, and may fail at any moment. *)
(***************************************************************************)
EXTENDS Integers, Sequences

CONSTANTS
  UpdateCallers,  (* check_for_updates and install_update commands          *)
  Unlocked,       (* nobody holds operation_lock                            *)
  MaxRelease,     (* bound: releases, numbered from 1, version 0 is none    *)
  ChunkLengths,   (* lengths of the chunks of a download                    *)
  MaxDownload     (* bound: length of a download                            *)

UpdateServiceAssumption ==
  /\ Unlocked \notin UpdateCallers
  /\ MaxRelease \in Nat \ {0} /\ MaxDownload \in Nat
  /\ ChunkLengths \subseteq Nat \ {0}

VARIABLES
  latest,        (* the newest release of the channel                       *)
  version,       (* the version that is running                             *)
  onDisk,        (* the version the next start will run                     *)
  pendingUpdate, (* pending: the update retained for an installation        *)
  operation,     (* the caller that holds operation_lock                    *)
  call,          (* what each caller is doing                               *)
  progress,      (* the events its channel has delivered                    *)
  channelOpen,   (* the window still listens to it                          *)
  outcome,       (* what its last command answered                          *)
  announced,     (* the version of the last UpdateAvailable event           *)
  reported       (* history: what the last check that succeeded answered    *)

worldVars == <<latest, version, onDisk>>
callerVars == <<call, progress, channelOpen, outcome>>
vars == <<worldVars, pendingUpdate, operation, callerVars, announced, reported>>

Versions == 0..MaxRelease
NoUpdate == 0

Idle == [doing |-> "idle", update |-> NoUpdate, started |-> FALSE,
         downloaded |-> 0]

Started == [event |-> "started"]
Progress(length, total) ==
  [event |-> "progress", chunk |-> length, downloaded |-> total]
Finished(total) == [event |-> "finished", downloaded |-> total]

Init ==
  /\ latest = 1 /\ version = 0 /\ onDisk = 0
  /\ pendingUpdate = NoUpdate
  /\ operation = Unlocked
  /\ call = [c \in UpdateCallers |-> Idle]
  /\ progress = [c \in UpdateCallers |-> <<>>]
  /\ channelOpen = [c \in UpdateCallers |-> FALSE]
  /\ outcome = [c \in UpdateCallers |-> "none"]
  /\ announced = NoUpdate /\ reported = NoUpdate

-----------------------------------------------------------------------------
Become(c, state) == call' = [call EXCEPT ![c] = state]

Doing(c, what) == call[c].doing = what

Answer(c, result) ==
  /\ outcome' = [outcome EXCEPT ![c] = result]
  /\ Become(c, Idle)

(* The lock guard is dropped when the operation returns.                   *)
Release(c) == operation' = Unlocked

(* try_lock failed: Busy, and nothing has happened.                        *)
Busy(c) ==
  /\ Doing(c, "idle") /\ operation # Unlocked
  /\ Answer(c, "busy")
  /\ UNCHANGED <<worldVars, pendingUpdate, operation, progress, channelOpen,
                 announced, reported>>

(* check.                                                                  *)
BeginCheck(c) ==
  /\ Doing(c, "idle") /\ operation = Unlocked
  /\ operation' = c
  /\ Become(c, [Idle EXCEPT !.doing = "asking"])
  /\ outcome' = [outcome EXCEPT ![c] = "none"]
  /\ UNCHANGED <<worldVars, pendingUpdate, progress, channelOpen, announced,
                 reported>>

(* The build has no update key, or the request failed: the pending update  *)
(* stays what it was.                                                      *)
CheckFails(c, error) ==
  /\ Doing(c, "asking")
  /\ Answer(c, error)
  /\ Release(c)
  /\ UNCHANGED <<worldVars, pendingUpdate, progress, channelOpen, announced,
                 reported>>

(* The backend has an answer, an update or none, and retains it.           *)
Retain(c) ==
  LET update == IF latest > version THEN latest ELSE NoUpdate
  IN  /\ Doing(c, "asking")
      /\ pendingUpdate' = update
      /\ Become(c, [Idle EXCEPT !.doing = "reporting", !.update = update])
      /\ UNCHANGED <<worldVars, operation, progress, channelOpen, outcome,
                     announced, reported>>

Report(c) ==
  /\ Doing(c, "reporting")
  /\ reported' = call[c].update
  /\ announced' = IF call[c].update # NoUpdate THEN call[c].update ELSE announced
  /\ Answer(c, "checked")
  /\ Release(c)
  /\ UNCHANGED <<worldVars, pendingUpdate, progress, channelOpen>>

(* install.                                                                *)
InstallNothing(c) ==
  /\ Doing(c, "idle") /\ operation = Unlocked
  /\ pendingUpdate = NoUpdate
  /\ Answer(c, "update_not_available")
  /\ UNCHANGED <<worldVars, pendingUpdate, operation, progress, channelOpen,
                 announced, reported>>

Download(c) ==
  /\ pendingUpdate # NoUpdate
  /\ Become(c, [Idle EXCEPT !.doing = "downloading", !.update = pendingUpdate])
  /\ outcome' = [outcome EXCEPT ![c] = "none"]
  /\ progress' = [progress EXCEPT ![c] = <<>>]
  /\ channelOpen' = [channelOpen EXCEPT ![c] = TRUE]
  /\ UNCHANGED <<worldVars, pendingUpdate, announced, reported>>

(* Faulty variant: an installation does not try the operation lock. *)
BeginInstallUnlocked(c) ==
  Doing(c, "idle") /\ Download(c) /\ UNCHANGED operation

BeginInstall(c) ==
  Doing(c, "idle") /\ operation = Unlocked /\ Download(c) /\ operation' = c

(* The handler of the command sends nothing more once a send has failed.   *)
Send(c, events) ==
  progress' = IF channelOpen[c] THEN [progress EXCEPT ![c] = @ \o events]
                                ELSE progress

StartIfNew(c) == IF call[c].started THEN <<>> ELSE <<Started>>

Chunk(c, length) ==
  LET total == call[c].downloaded + length
  IN  /\ Doing(c, "downloading") /\ total <= MaxDownload
      /\ Become(c, [call[c] EXCEPT !.started = TRUE, !.downloaded = total])
      /\ Send(c, StartIfNew(c) \o <<Progress(length, total)>>)
      /\ UNCHANGED <<worldVars, pendingUpdate, operation, channelOpen, outcome,
                     announced, reported>>

(* The last chunk has come; the signature is verified after this.          *)
FinishDownload(c) ==
  /\ Doing(c, "downloading")
  /\ Become(c, [call[c] EXCEPT !.doing = "verifying", !.started = TRUE])
  /\ Send(c, StartIfNew(c) \o <<Finished(call[c].downloaded)>>)
  /\ UNCHANGED <<worldVars, pendingUpdate, operation, channelOpen, outcome,
                 announced, reported>>

(* Download, signature or installation failed: the update stays pending.   *)
InstallFails(c) ==
  /\ call[c].doing \in {"downloading", "verifying"}
  /\ Answer(c, "update_install_failed")
  /\ Release(c)
  /\ UNCHANGED <<worldVars, pendingUpdate, progress, channelOpen, announced,
                 reported>>

Install(c) ==
  /\ Doing(c, "verifying")
  /\ onDisk' = call[c].update
  /\ pendingUpdate' = NoUpdate
  /\ Answer(c, "installed")
  /\ Release(c)
  /\ UNCHANGED <<latest, version, progress, channelOpen, announced, reported>>

(* The window that listened has been closed or reloaded.                   *)
LoseChannel(c) ==
  /\ channelOpen[c]
  /\ channelOpen' = [channelOpen EXCEPT ![c] = FALSE]
  /\ UNCHANGED <<worldVars, pendingUpdate, operation, call, progress, outcome,
                 announced, reported>>

-----------------------------------------------------------------------------
Publish ==
  /\ latest < MaxRelease
  /\ latest' = latest + 1
  /\ UNCHANGED <<version, onDisk, pendingUpdate, operation, callerVars,
                 announced, reported>>

(* request_restart, an exit or a crash: what is on the disk runs next, and *)
(* the pending update is gone with the process.                            *)
Restart ==
  /\ version' = onDisk
  /\ pendingUpdate' = NoUpdate /\ announced' = NoUpdate /\ reported' = NoUpdate
  /\ operation' = Unlocked
  /\ call' = [c \in UpdateCallers |-> Idle]
  /\ progress' = [c \in UpdateCallers |-> <<>>]
  /\ channelOpen' = [c \in UpdateCallers |-> FALSE]
  /\ outcome' = [c \in UpdateCallers |-> "none"]
  /\ UNCHANGED <<latest, onDisk>>

CheckErrors == {"update_not_configured", "update_check_failed",
                "update_operation_failed"}

Check(c) ==
  \/ BeginCheck(c) \/ Retain(c) \/ Report(c)
  \/ \E error \in CheckErrors : CheckFails(c, error)

Installation(c) ==
  \/ InstallNothing(c) \/ BeginInstall(c)
  \/ \E length \in ChunkLengths : Chunk(c, length)
  \/ FinishDownload(c) \/ InstallFails(c) \/ Install(c) \/ LoseChannel(c)

Next ==
  \/ \E c \in UpdateCallers : Busy(c) \/ Check(c) \/ Installation(c)
  \/ Publish
  \/ Restart

Spec == Init /\ [][Next]_vars

-----------------------------------------------------------------------------
Events ==
  {Started} \cup {Finished(n) : n \in 0..MaxDownload}
    \cup {Progress(length, n) : length \in ChunkLengths, n \in 0..MaxDownload}

TypeOK ==
  /\ {latest, version, onDisk, pendingUpdate, announced, reported} \subseteq Versions
  /\ operation \in UpdateCallers \cup {Unlocked}
  /\ call \in [UpdateCallers ->
       [doing : {"idle", "asking", "reporting", "downloading", "verifying"},
        update : Versions, started : BOOLEAN, downloaded : 0..MaxDownload]]
  /\ progress \in [UpdateCallers -> Seq(Events)]
  /\ channelOpen \in [UpdateCallers -> BOOLEAN]
  /\ outcome \in [UpdateCallers -> CheckErrors \cup
       {"none", "busy", "checked", "update_not_available",
        "update_install_failed", "installed"}]

(* What one channel delivers: started, then the chunks with their running  *)
(* total, then finished; a lost channel cuts it short, never open in the   *)
(* middle.                                                                 *)
WellFormed(events) ==
  /\ events # <<>> => events[1] = Started
  /\ \A i \in 2..Len(events) :
       LET before == IF i = 2 THEN 0 ELSE events[i - 1].downloaded
       IN  \/ \E length \in ChunkLengths :
                events[i] = Progress(length, before + length)
           \/ i = Len(events) /\ events[i] = Finished(before)

(* What is installed is the update that the last check answered to the     *)
(* user and announced to the other components, however checks,             *)
(* installations, retries and new releases interleave; nothing but its     *)
(* installation, another check or the end of the process takes that update *)
(* away from a retry; and the progress of every attempt is told in order.  *)
InstallsWhatWasReported ==
  [][/\ \A c \in UpdateCallers :
          outcome'[c] = "installed" /\ outcome[c] # "installed"
            => onDisk' = reported /\ reported = announced /\ reported # NoUpdate
     /\ operation = Unlocked /\ pendingUpdate # reported
          => pendingUpdate = NoUpdate /\ onDisk = reported
     /\ \A c \in UpdateCallers : WellFormed(progress[c])]_vars
=============================================================================
