--------------------------- MODULE PluginManifest ---------------------------
(***************************************************************************)
(* What is checked about a plugin package: the files it is read from, its  *)
(* manifest and its WASM module, by application/plugin_service.rs and      *)
(* infrastructure/plugins.                                                 *)
(*                                                                         *)
(* Wasmtime is external: it instantiates a module or does not, and runs an *)
(* export to the code it returns or to a trap, which includes the end of   *)
(* its fuel.                                                               *)
(***************************************************************************)
EXTENDS Integers, Sequences, FiniteSets, FiniteSetsExt

CONSTANTS
  Ids,           (* the identifiers validate_plugin_id accepts              *)
  Texts,         (* names, versions, entrypoints, descriptions, command and *)
                 (* export names that their validators accept               *)
  MaxManifest,   (* MAX_PLUGIN_MANIFEST_BYTES                               *)
  MaxModule,     (* MAX_PLUGIN_MODULE_BYTES                                 *)
  MaxCommands    (* MAX_PLUGIN_COMMANDS                                     *)

PluginManifestAssumption ==
  MaxManifest \in Nat \ {0} /\ MaxModule \in Nat \ {0} /\ MaxCommands \in Nat

None == [kind |-> "none"]
NoFile == [kind |-> "missing", size |-> 0, content |-> None]
Regular(length, content) ==
  [kind |-> "regular", size |-> length, content |-> content]
ApiVersion == 1
ReturnsApiVersion == "returns 1"
VersionExport == "shendesk_plugin_api_version"
EnableHook == "shendesk_on_enable"
DisableHook == "shendesk_on_disable"

-----------------------------------------------------------------------------
(* Manifests and files.                                                    *)

Exports(manifest) == {command.export : command \in Range(manifest.commands)}
Names(manifest) == {command.name : command \in Range(manifest.commands)}

ValidCommands(manifest) ==
  /\ Len(manifest.commands) <= MaxCommands
  /\ Names(manifest) \cup Exports(manifest) \subseteq Texts
  /\ Exports(manifest) \cap {VersionExport, EnableHook, DisableHook} = {}
  /\ Cardinality(Names(manifest)) = Len(manifest.commands)
  /\ Cardinality(Exports(manifest)) = Len(manifest.commands)

(* validate_manifest.                                                      *)
ValidManifest(manifest) ==
  /\ manifest.apiVersion = ApiVersion
  /\ manifest.id \in Ids
  /\ {manifest.name, manifest.version, manifest.entrypoint,
      manifest.description} \subseteq Texts
  /\ ValidCommands(manifest)

(* validate_manifest_path: absolute, and called plugin.json.               *)
ValidPath(path) == path = "absolute plugin.json"

(* read_regular_file.                                                      *)
ReadRegularFile(file, limit) ==
  CASE file.kind = "missing"  -> "io"
    [] file.kind # "regular"  -> "invalid_manifest"
    [] file.size = 0          -> "invalid_manifest"
    [] file.size > limit      -> "package_too_large"
    [] OTHER                  -> "ok"

(* serde: the bytes are a manifest, with every field and no other.         *)
ParsesAs(file, what) == file.content.kind = what

-----------------------------------------------------------------------------
(* The runtime.                                                            *)

(* compile and instantiate: binary format, no imports, within the limits.  *)
Instantiates(module) ==
  module.kind = "module" /\ ~module.imports /\ module.instantiates

(* typed_export: the export exists and takes nothing to an i32.            *)
TypedExport(module, export) ==
  /\ export \in DOMAIN module.functions
  /\ module.functions[export] # "another type"

Validate(module, manifest) ==
  /\ Instantiates(module)
  /\ TypedExport(module, VersionExport)
  /\ module.functions[VersionExport] = ReturnsApiVersion
  /\ \A hook \in {EnableHook, DisableHook} \cap DOMAIN module.functions :
       TypedExport(module, hook)
  /\ \A export \in Exports(manifest) : TypedExport(module, export)

CallFails(module, export) ==
  ~Instantiates(module) \/ ~TypedExport(module, export)
    \/ module.functions[export] = "trap"

(* call_optional and ensure_hook_succeeded.                                *)
HookSucceeds(module, hook) ==
  /\ Instantiates(module)
  /\ hook \in DOMAIN module.functions =>
       module.functions[hook] = "returns 0"

(* run_enable_hook.                                                        *)
EnableHookRuns(module, manifest) ==
  CASE ~Validate(module, manifest)           -> "runtime_rejected"
    [] ~HookSucceeds(module, EnableHook)     -> "execution_failed"
    [] OTHER                                 -> "ok"
=============================================================================
