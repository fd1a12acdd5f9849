--------------------------- MODULE PluginPackage ----------------------------
(***************************************************************************)
(* What PluginService of application/plugin_service.rs accepts and runs,   *)
(* with the package reader and the WASM runtime of infrastructure/plugins: *)
(* a manifest and a module are checked, written anew to the managed        *)
(* directory, checked again whenever the process starts and, as for the    *)
(* module, whenever the plugin is enabled.                                 *)
(*                                                                         *)
(* A call is one step here: lifecycle_lock keeps calls apart, and module   *)
(* PluginService takes them step by step with failures of the disk and the *)
(* end of the process between two effects.                                 *)
(***************************************************************************)
EXTENDS PluginManifest

CONSTANTS
  Packages,      (* what install_plugin is called with: path, manifest file, *)
                 (* module file                                             *)
  Calls,         (* command names that execute_plugin_command is given      *)
  Modules,       (* modules that another program puts in place              *)
  Times,         (* readings of the wall clock, 0 at or before the epoch    *)
  MaxReplaced    (* bound: modules replaced behind the program's back       *)

PluginPackageAssumption ==
  /\ PluginManifestAssumption /\ Times \subseteq Nat /\ MaxReplaced \in Nat
  /\ \A package \in Packages :
       LET manifest == package.manifest.content
       IN  ParsesAs(package.manifest, "manifest")
             => /\ manifest.commands \in Seq(Range(manifest.commands))
                /\ manifest.rewritten \in Nat \ {0}

VARIABLES
  records,    (* LocalPluginRepository.records: None, or the snapshot       *)
  directory,  (* the three files of the managed directory of each plugin    *)
  now,        (* what unix_time_ms returns                                  *)
  reply,      (* what the last call answered                                *)
  replaced    (* history: plugins whose module another program replaced     *)

vars == <<records, directory, now, reply, replaced>>

State(status, installedAt, updatedAt) ==
  [kind |-> "state", status |-> status, installedAt |-> installedAt,
   updatedAt |-> updatedAt]

Init ==
  /\ records = [id \in Ids |-> None]
  /\ directory = [id \in Ids |-> None]
  /\ now \in Times
  /\ reply = "none"
  /\ replaced = {}

-----------------------------------------------------------------------------
(* The managed directories.                                                *)

(* Faulty variant: the time of a change is the clock's reading. *)
NextUpdatedAtByClock(snapshot) == now

NextUpdatedAt(snapshot) ==
  Max({now, snapshot.installedAt, snapshot.updatedAt})

SnapshotOf(manifest, status, installedAt, updatedAt) ==
  [kind |-> "snapshot", manifest |-> manifest, status |-> status,
   installedAt |-> installedAt, updatedAt |-> updatedAt]

(* The snapshot with a status it takes now.                                *)
Changed(snapshot, status) ==
  SnapshotOf(snapshot.manifest, status, snapshot.installedAt,
             NextUpdatedAt(snapshot))

(* The directory with the snapshot's state file.                           *)
Written(d, snapshot) ==
  [kind |-> "directory", manifest |-> d.manifest, module |-> d.module,
   state |-> Regular(1, State(snapshot.status, snapshot.installedAt,
                              snapshot.updatedAt))]

WriteState(id, status) ==
  LET snapshot == Changed(records[id], status)
  IN  /\ records' = [records EXCEPT ![id] = snapshot]
      /\ directory' = [directory EXCEPT ![id] = Written(directory[id], snapshot)]

(* snapshot_from_disk: what a new process accepts of a directory.          *)
Loads(d) ==
  /\ d # None
  /\ ReadRegularFile(d.manifest, MaxManifest) = "ok"
  /\ ParsesAs(d.manifest, "manifest") /\ ValidManifest(d.manifest.content)
  /\ ReadRegularFile(d.module, MaxModule) = "ok"
  /\ ReadRegularFile(d.state, MaxManifest) = "ok"
  /\ d.state.content.installedAt # 0
  /\ d.state.content.updatedAt >= d.state.content.installedAt

Snapshot(d) ==
  SnapshotOf(d.manifest.content, d.state.content.status,
             d.state.content.installedAt, d.state.content.updatedAt)

ModuleOf(id) == directory[id].module.content

-----------------------------------------------------------------------------
(* Calls.                                                                  *)

(* A call that changes nothing.                                            *)
Refuse(error) == reply' = error /\ UNCHANGED <<records, directory, now, replaced>>

(* The first thing install finds wrong with a package.                     *)
Refusal(package) ==
  LET manifest == package.manifest.content
  IN  CASE ~ValidPath(package.path) -> "invalid_input"
        [] ReadRegularFile(package.manifest, MaxManifest) # "ok" ->
             ReadRegularFile(package.manifest, MaxManifest)
        [] ~ParsesAs(package.manifest, "manifest") -> "invalid_manifest"
        [] ~ValidManifest(manifest) -> "invalid_manifest"
        [] ReadRegularFile(package.module, MaxModule) # "ok" ->
             ReadRegularFile(package.module, MaxModule)
        [] ~Validate(package.module.content, manifest) -> "runtime_rejected"
        [] records[manifest.id] # None -> "already_installed"
        [] directory[manifest.id] # None -> "conflict"
        [] OTHER -> "ok"

InstallRefused(package) ==
  Refusal(package) # "ok" /\ Refuse(Refusal(package))

(* install writes the manifest anew, in the pretty form of serde_json,     *)
(* whose length is not that of the file it was read from.                  *)
Install(package) ==
  LET manifest == package.manifest.content
      d == [kind |-> "directory",
            manifest |-> Regular(manifest.rewritten, manifest),
            module |-> package.module,
            state |-> Regular(1, State("disabled", now, now))]
  IN  /\ Refusal(package) = "ok"
      /\ directory' = [directory EXCEPT ![manifest.id] = d]
      /\ records' = [records EXCEPT ![manifest.id] = Snapshot(d)]
      /\ replaced' = replaced \ {manifest.id}
      /\ reply' = "installed"
      /\ UNCHANGED now

NotFound(id) == records[id] = None /\ Refuse("not_found")

(* enable and disable answer a plugin that is there already unchanged.     *)
Unchanged(id, status) ==
  /\ records[id] # None /\ records[id].status = status
  /\ Refuse(status)

Enable(id) ==
  LET outcome == EnableHookRuns(ModuleOf(id), records[id].manifest)
  IN  /\ records[id] # None /\ records[id].status = "disabled"
      /\ IF outcome = "ok"
         THEN /\ WriteState(id, "enabled")
              /\ reply' = "enabled"
              /\ UNCHANGED <<now, replaced>>
         ELSE Refuse(outcome)

Disable(id) ==
  /\ records[id] # None /\ records[id].status = "enabled"
  /\ IF HookSucceeds(ModuleOf(id), DisableHook)
     THEN /\ WriteState(id, "disabled")
          /\ reply' = "disabled"
          /\ UNCHANGED <<now, replaced>>
     ELSE Refuse("execution_failed")

(* A command runs with the module as it is on the disk at that moment.     *)
Execute(id, name) ==
  LET manifest == records[id].manifest
      command == manifest.commands[CHOOSE i \in DOMAIN manifest.commands :
                                     manifest.commands[i].name = name]
  IN  /\ records[id] # None
      /\ CASE records[id].status # "enabled" -> Refuse("conflict")
           [] name \notin Names(manifest)    -> Refuse("invalid_input")
           [] CallFails(ModuleOf(id), command.export) -> Refuse("execution_failed")
           [] OTHER -> Refuse("executed")

(* An enabled plugin is disabled first, and stays when that fails.         *)
Uninstall(id) ==
  /\ records[id] # None
  /\ IF records[id].status = "enabled" /\ ~HookSucceeds(ModuleOf(id), DisableHook)
     THEN Refuse("execution_failed")
     ELSE /\ records' = [records EXCEPT ![id] = None]
          /\ directory' = [directory EXCEPT ![id] = None]
          /\ replaced' = replaced \ {id}
          /\ reply' = "removed"
          /\ UNCHANGED now

(* The process ends and starts again: load_installed_plugins, then         *)
(* restore_enabled_plugins, which disables what it cannot enable.          *)
Restart ==
  LET loaded == {id \in Ids : Loads(directory[id])}
      fails(id) ==
        /\ Snapshot(directory[id]).status = "enabled"
        /\ EnableHookRuns(ModuleOf(id), directory[id].manifest.content) # "ok"
      restored(id) ==
        LET snapshot == Snapshot(directory[id])
        IN  IF fails(id) THEN Changed(snapshot, "disabled") ELSE snapshot
  IN  /\ records' = [id \in Ids |-> IF id \in loaded THEN restored(id) ELSE None]
      /\ directory' = [id \in Ids |->
           IF id \in loaded /\ fails(id) THEN Written(directory[id], restored(id))
           ELSE directory[id]]
      /\ reply' = "none"
      /\ UNCHANGED <<now, replaced>>

-----------------------------------------------------------------------------
(* Outside the program.                                                    *)

SetClock(t) == now' = t /\ UNCHANGED <<records, directory, reply, replaced>>

Replace(id, module) ==
  LET d == directory[id]
      file == Regular(1, module)
  IN  /\ d # None /\ Cardinality(replaced) < MaxReplaced
      /\ directory' = [directory EXCEPT ![id] =
           [kind |-> "directory", manifest |-> d.manifest, module |-> file,
            state |-> d.state]]
      /\ replaced' = replaced \cup {id}
      /\ UNCHANGED <<records, now, reply>>

Next ==
  \/ \E package \in Packages : InstallRefused(package) \/ Install(package)
  \/ \E id \in Ids :
       \/ NotFound(id) \/ Enable(id) \/ Disable(id) \/ Uninstall(id)
       \/ \E status \in {"disabled", "enabled"} : Unchanged(id, status)
       \/ \E name \in Calls : Execute(id, name)
       \/ \E module \in Modules : Replace(id, module)
  \/ \E t \in Times : SetClock(t)
  \/ Restart

Spec == Init /\ [][Next]_vars

-----------------------------------------------------------------------------
Installed == {id \in Ids : records[id] # None}

TypeOK ==
  /\ \A id \in Installed :
       /\ records[id].status \in {"disabled", "enabled"}
       /\ records[id].manifest.id = id
       /\ directory[id] # None
  /\ now \in Times
  /\ replaced \subseteq Ids

(* docs/plugin-system.md:94 (a clock that goes back does not lose a plugin *)
(* at the next start) and :37-42.  What was admitted stays admitted and    *)
(* runs: every installed plugin has its status and times on the disk as in *)
(* memory; however the clock moves, a new process loads it, unless the     *)
(* rewritten manifest outgrew the limit or the clock stood before the      *)
(* epoch when it was installed; and each of its commands runs an export of *)
(* its own, that exists with the right type and is no hook.                *)
AdmittedPackagesRun ==
  \A id \in Installed :
    LET manifest == records[id].manifest
    IN  /\ records[id] = Snapshot(directory[id])
        /\ \/ Loads(directory[id])
           \/ manifest.rewritten > MaxManifest \/ records[id].installedAt = 0
        /\ \A i, j \in DOMAIN manifest.commands :
             LET one == manifest.commands[i]
                 other == manifest.commands[j]
             IN  /\ one.export \notin {VersionExport, EnableHook, DisableHook}
                 /\ i # j => one.name # other.name /\ one.export # other.export
                 /\ id \notin replaced => TypedExport(ModuleOf(id), one.export)

(* docs/plugin-system.md:91: the preference of an enabled plugin is kept   *)
(* for the next start, which therefore loads it.                           *)
EnabledPluginsReload ==
  \A id \in Installed :
    records[id].status = "enabled" => Loads(directory[id])
=============================================================================
