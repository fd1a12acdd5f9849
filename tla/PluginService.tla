--------------------------- MODULE PluginService ----------------------------
(***************************************************************************)
(* PluginService of application/plugin_service.rs on the repository of     *)
(* infrastructure/plugins/mod.rs: installed plugins as records in memory   *)
(* and as directories on disk, hooks that run when a plugin is enabled and *)
(* disabled, a disk that may fail, and a process that may end at any step  *)
(* and is started again.                                                   *)
(*                                                                         *)
(* One mutex serialises every call that is not a mere read, so at most one *)
(* is under way; it is taken step by step because the process may end, or  *)
(* the disk fail, between two of its effects.                              *)
(***************************************************************************)
EXTENDS Integers, FiniteSets

CONSTANTS
  Plugins,      (* plugin identifiers                                       *)
  MaxFailures,  (* bound: disk operations that fail                         *)
  MaxRestarts,  (* bound: how often the process is started again            *)
  None          (* no directory, no event, no call                          *)

Files == {"manifest", "module", "state"}
Statuses == {"disabled", "enabled"}
PluginDirectories == [files : SUBSET Files, status : Statuses]
PluginCalls == {"install", "enable", "disable", "execute", "uninstall"}
Passes == {"restore", "shutdown"}

PluginServiceAssumption ==
  /\ MaxFailures \in Nat /\ MaxRestarts \in Nat
  /\ None \notin Plugins \cup PluginDirectories \cup Statuses \cup {"absent"}
                   \cup PluginCalls \cup Passes

VARIABLES
  records,   (* LocalPluginRepository.records: status, or "absent"          *)
  dir,       (* the plugin's directory: which files it has, which status    *)
  started,   (* the enable hook has run since the last disable hook         *)
  place,     (* where the call that holds lifecycle_lock is                 *)
  kind,      (* what it is                                                  *)
  plugin,    (* the plugin it works on                                      *)
  status,    (* the status it is about to persist                           *)
  todo,      (* plugins restore or shutdown have still to visit             *)
  event,     (* the last status event published about each plugin           *)
  shut,      (* shutdown has begun in this process                          *)
  unclean,   (* history: a hook ran and its result could not be persisted   *)
  rejected,  (* history: the enable hook failed when this process restored  *)
  failures,
  restarts

callVars == <<place, kind, plugin, status, todo>>
historyVars == <<shut, unclean, rejected, restarts>>
vars == <<records, dir, started, callVars, event, historyVars, failures>>

Places == {"idle", "staging", "activating", "recording install", "hook",
           "persisting", "recording", "publishing", "removing", "forgetting",
           "visiting", "visit hook"}

Complete(d) == d # None /\ d.files = Files

(* load_installed_plugins: what a new process makes of a directory.        *)
Loaded(d) == IF Complete(d) THEN d.status ELSE "absent"

Init ==
  /\ records = [p \in Plugins |-> "absent"]
  /\ dir = [p \in Plugins |-> None]
  /\ started = {}
  /\ place = "idle" /\ kind = None /\ plugin = None /\ status = None
  /\ todo = {}
  /\ event = [p \in Plugins |-> None]
  /\ shut = FALSE /\ unclean = {} /\ rejected = {}
  /\ failures = 0 /\ restarts = 0

Goto(where) == place' = where /\ UNCHANGED <<kind, plugin, status, todo>>

(* The call returns and the guard of lifecycle_lock is dropped.            *)
End ==
  /\ place' = "idle" /\ kind' = None /\ plugin' = None /\ status' = None
  /\ UNCHANGED todo

(* Faulty variant: a pass ends with the first plugin that makes trouble.   *)
EndOfCall == End

(* The call returns, or the pass goes on to its next plugin.               *)
EndOfPlugin ==
  IF kind \in Passes
  THEN /\ place' = "visiting" /\ plugin' = None /\ status' = None
       /\ UNCHANGED <<kind, todo>>
  ELSE End

Fail ==
  /\ failures < MaxFailures
  /\ failures' = failures + 1

-----------------------------------------------------------------------------
(* The beginning of a call; one whose checks fail has no effect.           *)

Begin(what, p, where) ==
  /\ place = "idle"
  /\ place' = where /\ kind' = what /\ plugin' = p
  /\ UNCHANGED <<records, dir, started, todo, event, historyVars, failures>>

(* An installed plugin, and a directory that is in the way, are conflicts. *)
BeginInstall(p) ==
  /\ records[p] = "absent" /\ dir[p] = None
  /\ Begin("install", p, "staging")
  /\ status' = "disabled"

BeginEnable(p) ==
  /\ records[p] = "disabled"
  /\ Begin("enable", p, "hook")
  /\ status' = "enabled"

BeginDisable(p) ==
  /\ records[p] = "enabled"
  /\ Begin("disable", p, "hook")
  /\ status' = "disabled"

(* An enabled plugin is disabled first.                                    *)
BeginUninstall(p) ==
  /\ records[p] # "absent"
  /\ Begin("uninstall", p, IF records[p] = "enabled" THEN "hook" ELSE "removing")
  /\ status' = "disabled"

BeginExecute(p) ==
  /\ records[p] = "enabled"
  /\ Begin("execute", p, "hook")
  /\ UNCHANGED status

-----------------------------------------------------------------------------
(* install: files are written to a staging directory that is then renamed. *)
(* The name of that directory is no plugin's id: load_installed_plugins     *)
(* passes over one that a failure or the end of a process leaves behind,   *)
(* and nothing else reads it, so only the place of the call tells of it.   *)

Stage ==
  /\ place = "staging"
  /\ Goto("activating")
  /\ UNCHANGED <<records, dir, started, event, historyVars, failures>>

New == [files |-> Files, status |-> "disabled"]

(* Faulty variant: the files are written where they are loaded from.       *)
ActivateInPlace ==
  /\ place = "activating"
  /\ IF dir[plugin] = None
     THEN /\ dir' = [dir EXCEPT ![plugin] = [New EXCEPT !.files = {"manifest"}]]
          /\ UNCHANGED callVars
     ELSE /\ dir' = [dir EXCEPT ![plugin] = New]
          /\ Goto("recording install")
  /\ UNCHANGED <<records, started, event, historyVars, failures>>

Activate ==
  /\ place = "activating"
  /\ dir' = [dir EXCEPT ![plugin] = New]
  /\ Goto("recording install")
  /\ UNCHANGED <<records, started, event, historyVars, failures>>

(* Writing the files to the staging directory, or renaming it, failed.     *)
ActivateFails ==
  /\ place = "activating"
  /\ Fail /\ End
  /\ UNCHANGED <<records, dir, started, event, historyVars>>

RecordInstall ==
  /\ place = "recording install"
  /\ records' = [records EXCEPT ![plugin] = "disabled"]
  /\ Goto("publishing")
  /\ UNCHANGED <<dir, started, event, historyVars, failures>>

-----------------------------------------------------------------------------
(* enable, disable and execute run an export of the module on disk.        *)

Readable == dir[plugin] # None /\ "module" \in dir[plugin].files

(* The enable hook, the disable hook or the command did what it should.    *)
HookSucceeds ==
  /\ place = "hook"
  /\ Readable
  /\ started' = CASE kind = "execute" -> started
                  [] kind = "enable"  -> started \cup {plugin}
                  [] OTHER            -> started \ {plugin}
  /\ rejected' = IF kind = "enable" THEN rejected \ {plugin} ELSE rejected
  /\ IF kind = "execute" THEN End ELSE Goto("persisting")
  /\ UNCHANGED <<records, dir, event, shut, unclean, restarts, failures>>

(* It trapped, ran out of fuel, returned another code or was not there.    *)
HookFails ==
  /\ place = "hook"
  /\ End
  /\ UNCHANGED <<records, dir, started, event, historyVars, failures>>

(* Faulty variant: the state file is removed, then written anew.           *)
PersistInPlace ==
  /\ place = "persisting"
  /\ dir[plugin] # None
  /\ IF "state" \in dir[plugin].files /\ dir[plugin].status # status
     THEN /\ dir' = [dir EXCEPT ![plugin].files = @ \ {"state"},
                                ![plugin].status = status]
          /\ UNCHANGED callVars
     ELSE /\ dir' = [dir EXCEPT ![plugin].files = @ \cup {"state"}]
          /\ Goto("recording")
  /\ UNCHANGED <<records, started, event, historyVars, failures>>

(* write_json_atomically replaces the state file, or leaves it.            *)
Persist ==
  /\ place = "persisting"
  /\ dir[plugin] # None
  /\ dir' = [dir EXCEPT ![plugin] = [files |-> @.files \cup {"state"},
                                     status |-> status]]
  /\ Goto("recording")
  /\ UNCHANGED <<records, started, event, historyVars, failures>>

(* Faulty variant: a status that could not be persisted is recorded.       *)
PersistFailureIgnored ==
  /\ place = "persisting"
  /\ Fail
  /\ unclean' = unclean \cup {plugin}
  /\ Goto("recording")
  /\ UNCHANGED <<records, dir, started, event, shut, rejected, restarts>>

PersistFails ==
  /\ place = "persisting"
  /\ IF dir[plugin] = None THEN UNCHANGED failures ELSE Fail
  /\ unclean' = unclean \cup {plugin}
  /\ EndOfPlugin
  /\ UNCHANGED <<records, dir, started, event, shut, rejected, restarts>>

RecordStatus ==
  /\ place = "recording"
  /\ records' = [records EXCEPT ![plugin] = status]
  /\ unclean' = unclean \ {plugin}
  /\ Goto("publishing")
  /\ UNCHANGED <<dir, started, event, shut, rejected, restarts, failures>>

(* PluginInstalled, PluginEnabled, PluginDisabled or PluginRemoved.        *)
Publish ==
  /\ place = "publishing"
  /\ event' = [event EXCEPT ![plugin] = records[plugin]]
  /\ IF kind = "uninstall" /\ records[plugin] # "absent" THEN Goto("removing")
     ELSE EndOfPlugin
  /\ UNCHANGED <<records, dir, started, historyVars, failures>>

-----------------------------------------------------------------------------
(* uninstall: remove_dir_all removes one file after the other.             *)

RemoveFile(f) ==
  /\ place = "removing"
  /\ dir[plugin] # None /\ f \in dir[plugin].files
  /\ dir' = [dir EXCEPT ![plugin].files = @ \ {f}]
  /\ UNCHANGED <<records, started, callVars, event, historyVars,
                 failures>>

RemoveDirectory ==
  /\ place = "removing"
  /\ dir[plugin] # None /\ dir[plugin].files = {}
  /\ dir' = [dir EXCEPT ![plugin] = None]
  /\ Goto("forgetting")
  /\ UNCHANGED <<records, started, event, historyVars, failures>>

RemoveFails ==
  /\ place = "removing"
  /\ IF dir[plugin] = None THEN UNCHANGED failures ELSE Fail
  /\ End
  /\ UNCHANGED <<records, dir, started, event, historyVars>>

Forget ==
  /\ place = "forgetting"
  /\ records' = [records EXCEPT ![plugin] = "absent"]
  /\ Goto("publishing")
  /\ UNCHANGED <<dir, started, event, historyVars, failures>>

-----------------------------------------------------------------------------
(* restore_enabled_plugins and shutdown visit every enabled plugin.        *)

EnabledPlugins == {p \in Plugins : records[p] = "enabled"}

Shutdown ==
  /\ place = "idle" /\ ~shut
  /\ shut' = TRUE
  /\ place' = "visiting" /\ kind' = "shutdown" /\ todo' = EnabledPlugins
  /\ UNCHANGED <<records, dir, started, plugin, status, event, unclean,
                 rejected, restarts, failures>>

Visit(p) ==
  /\ place = "visiting"
  /\ p \in todo
  /\ todo' = todo \ {p}
  /\ place' = "visit hook" /\ plugin' = p /\ status' = "disabled"
  /\ UNCHANGED <<records, dir, started, kind, event, historyVars, failures>>

PassEnds ==
  /\ place = "visiting"
  /\ todo = {}
  /\ End
  /\ UNCHANGED <<records, dir, started, event, historyVars, failures>>

VisitSucceeds ==
  /\ place = "visit hook"
  /\ Readable
  /\ started' = IF kind = "restore" THEN started \cup {plugin}
                ELSE started \ {plugin}
  /\ EndOfPlugin
  /\ UNCHANGED <<records, dir, event, historyVars, failures>>

(* Faulty variant: a plugin that fails to restore stays as it is.          *)
VisitFailsKeeping ==
  /\ place = "visit hook"
  /\ EndOfPlugin
  /\ UNCHANGED <<records, dir, started, event, historyVars, failures>>

(* A plugin that cannot be restored is disabled, one that cannot be        *)
(* stopped is left alone.                                                  *)
VisitFails ==
  /\ place = "visit hook"
  /\ IF kind = "restore"
     THEN Goto("persisting") /\ rejected' = rejected \cup {plugin}
     ELSE EndOfPlugin /\ UNCHANGED rejected
  /\ UNCHANGED <<records, dir, started, event, shut, unclean, restarts,
                 failures>>

(* The process ends, at whatever step, and a new one loads the directories *)
(* and restores the enabled plugins before it takes calls.                 *)
Restart ==
  /\ restarts < MaxRestarts
  /\ restarts' = restarts + 1
  /\ records' = [p \in Plugins |-> Loaded(dir[p])]
  /\ place' = "visiting" /\ kind' = "restore" /\ plugin' = None /\ status' = None
  /\ todo' = {p \in Plugins : records'[p] = "enabled"}
  /\ started' = {}
  /\ event' = [p \in Plugins |-> None]
  /\ shut' = FALSE /\ unclean' = {} /\ rejected' = {}
  /\ UNCHANGED <<dir, failures>>

(* After shutdown the process may be gone for good.                        *)
Exited ==
  /\ shut /\ place = "idle"
  /\ UNCHANGED vars

Next ==
  \/ \E p \in Plugins :
       \/ BeginInstall(p) \/ BeginEnable(p) \/ BeginDisable(p)
       \/ BeginUninstall(p) \/ BeginExecute(p) \/ Visit(p)
  \/ Stage \/ Activate \/ ActivateFails \/ RecordInstall
  \/ HookSucceeds \/ HookFails \/ Persist \/ PersistFails \/ RecordStatus
  \/ Publish
  \/ RemoveDirectory \/ RemoveFails \/ Forget
  \/ \E f \in Files : RemoveFile(f)
  \/ Shutdown \/ PassEnds \/ VisitSucceeds \/ VisitFails
  \/ Restart \/ Exited

Spec == Init /\ [][Next]_vars

-----------------------------------------------------------------------------
TypeOK ==
  /\ records \in [Plugins -> Statuses \cup {"absent"}]
  /\ dir \in [Plugins -> PluginDirectories \cup {None}]
  /\ started \subseteq Plugins
  /\ place \in Places
  /\ kind \in PluginCalls \cup Passes \cup {None}
  /\ kind = None <=> place = "idle"
  /\ plugin \in Plugins \cup {None}
  /\ (plugin = None <=> place \in {"idle", "visiting"})
  /\ status \in Statuses \cup {None}
  /\ todo \subseteq Plugins /\ (todo # {} => kind \in Passes)
  /\ event \in [Plugins -> Statuses \cup {"absent", None}]
  /\ shut \in BOOLEAN /\ unclean \subseteq Plugins /\ rejected \subseteq Plugins
  /\ failures \in 0..MaxFailures /\ restarts \in 0..MaxRestarts

(* Between calls there is one answer to what a plugin's status is: what is *)
(* in memory, what the last event about the plugin said, and what a new    *)
(* process would find, except for a plugin whose removal failed half-way.  *)
StatusesAgree ==
  place = "idle" =>
    \A p \in Plugins :
      /\ \/ records[p] = Loaded(dir[p])
         \/ dir[p] # None /\ ~Complete(dir[p])
      /\ event[p] # None => event[p] = records[p]

(* docs/plugin-system.md: an interrupted write does not destroy the last   *)
(* valid state.  A directory appears complete, and only its removal makes  *)
(* it incomplete, whatever fails and wherever the process ends.            *)
OnlyRemovalDamages ==
  [][\A p \in Plugins :
       dir'[p] # None /\ ~Complete(dir'[p])
         => dir[p] # None /\ (~Complete(dir[p])
                               \/ (kind = "uninstall" /\ plugin = p))]_vars

(* A command runs only after the enable hook and before the disable hook,  *)
(* as long as the disk let the service persist what the hooks did and      *)
(* until shutdown, which runs the disable hooks but keeps the plugins      *)
(* enabled.                                                                *)
ExecutedWhileStarted ==
  place = "hook" /\ kind = "execute" =>
    plugin \in started \/ plugin \in unclean \/ shut

(* docs/lifecycle.md: a plugin whose enable hook fails at startup is       *)
(* isolated as disabled.                                                   *)
FailedPluginsAreIsolated ==
  place = "idle" => \A p \in rejected : records[p] # "enabled"
=============================================================================
