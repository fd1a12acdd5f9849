------------------------------- MODULE Services -------------------------------
(***************************************************************************)
(* The services that share nothing but the process: those of LongCommands  *)
(* and, by INSTANCE, four others.  A behaviour is about one of them, its   *)
(* part, and leaves the others where they begin, so that the states of a   *)
(* run are the sum and not the product of theirs.                          *)
(***************************************************************************)
EXTENDS LongCommands

CONSTANTS
  (* ConfigService, its Drafts under the name SettingsDrafts                *)
  Callers, Boot, Schemas, CurrentSchema, Themes, KnownThemes, DefaultTheme,
  Languages, BlankLanguages, DefaultLanguage, SettingsDrafts, Garbage, Absent,
  Unavailable, NoAnswer, MaxFaults, MaxEdits,
  (* OfficeProcess                                                          *)
  Runs, Commands, BatchLength,
  (* PluginService, its Plugins and None under the names PluginIds and      *)
  (* NoPlugin                                                               *)
  PluginIds, MaxFailures, MaxRestarts, NoPlugin,
  (* PluginPackage, its Packages under the name PackageFiles                *)
  Ids, Texts, MaxManifest, MaxModule, MaxCommands, PackageFiles, Calls,
  Modules, Times, MaxReplaced

Parts == {"bus", "settings", "updates", "images", "index", "office", "plugins",
          "packages"}

VARIABLES
  part,
  row, backups, refused, pool, phase, op, step, value, answer, resetBegun,
  faults, edits,
  run, activeChildren, sweep, runtimeCancelled, callerCancelled,
  records, dir, started, place, kind, plugin, status, todo, event,
  shut, unclean, rejected, failures, restarts,
  packages, directory, now, reply, replaced

settingsVars == <<row, backups, refused, pool, phase, op, step, value, answer,
                  resetBegun, faults, edits>>
officeVars == <<run, activeChildren, sweep, runtimeCancelled, callerCancelled>>
pluginsVars == <<records, dir, started, place, kind, plugin, status,
                 todo, event, shut, unclean, rejected, failures, restarts>>
packagesVars == <<packages, directory, now, reply, replaced>>

-----------------------------------------------------------------------------
Settings == INSTANCE ConfigService WITH Drafts <- SettingsDrafts

Office == INSTANCE OfficeProcess

Plugins == INSTANCE PluginService WITH Plugins <- PluginIds, None <- NoPlugin

Packages == INSTANCE PluginPackage WITH
  records <- packages, Packages <- PackageFiles

ASSUME ServicesAssumption ==
  /\ Settings!ConfigServiceAssumption /\ Office!OfficeProcessAssumption
  /\ Plugins!PluginServiceAssumption /\ Packages!PluginPackageAssumption

-----------------------------------------------------------------------------
(* A part that is not being checked has one initial state.                 *)
ServicesInit ==
  /\ part \in Parts
  /\ Init /\ Settings!Init /\ Updates!Init /\ Images!Init /\ Index!Init
  /\ Office!Init /\ Plugins!Init /\ Packages!Init
  /\ part # "index" => tree = CHOOSE t \in FirstTrees : TRUE
  /\ part # "packages" => now = CHOOSE time \in Times : TRUE

ServicesNext ==
  \/ /\ part = "bus" /\ Next
     /\ UNCHANGED <<part, settingsVars, updatesVars, imagesVars, indexVars,
                    officeVars, pluginsVars, packagesVars>>
  \/ /\ part = "settings" /\ Settings!Next
     /\ UNCHANGED <<part, vars, updatesVars, imagesVars, indexVars,
                    officeVars, pluginsVars, packagesVars>>
  \/ /\ part = "updates" /\ Updates!Next
     /\ UNCHANGED <<part, vars, settingsVars, imagesVars, indexVars,
                    officeVars, pluginsVars, packagesVars>>
  \/ /\ part = "images" /\ Images!Next
     /\ UNCHANGED <<part, vars, settingsVars, updatesVars, indexVars,
                    officeVars, pluginsVars, packagesVars>>
  \/ /\ part = "index" /\ Index!Next
     /\ UNCHANGED <<part, vars, settingsVars, updatesVars, imagesVars,
                    officeVars, pluginsVars, packagesVars>>
  \/ /\ part = "office" /\ Office!Next
     /\ UNCHANGED <<part, vars, settingsVars, updatesVars, imagesVars,
                    indexVars, pluginsVars, packagesVars>>
  \/ /\ part = "plugins" /\ Plugins!Next
     /\ UNCHANGED <<part, vars, settingsVars, updatesVars, imagesVars,
                    indexVars, officeVars, packagesVars>>
  \/ /\ part = "packages" /\ Packages!Next
     /\ UNCHANGED <<part, vars, settingsVars, updatesVars, imagesVars,
                    indexVars, officeVars, pluginsVars>>

Services ==
  ServicesInit /\ [][ServicesNext]_<<part, vars, settingsVars, updatesVars,
    imagesVars, indexVars, officeVars, pluginsVars, packagesVars>>

-----------------------------------------------------------------------------
(* The properties of the parts, under the names their modules give them.   *)

(* The type invariant of every part.                                       *)
EveryTypeOK ==
  /\ part = "bus" => TypeOK
  /\ part = "settings" => Settings!TypeOK
  /\ part = "updates" => Updates!TypeOK
  /\ part = "images" => Images!TypeOK
  /\ part = "index" => Index!TypeOK
  /\ part = "office" => Office!TypeOK
  /\ part = "plugins" => Plugins!TypeOK
  /\ part = "packages" => Packages!TypeOK

(* ConfigService: acknowledged settings are what stays stored.             *)
SettingsAreKept == Settings!SettingsAreKept

(* UpdateService: what is installed is what a check reported.              *)
InstallsWhatWasReported == Updates!InstallsWhatWasReported

(* ImageService: no batch ever costs the user a whole file.                *)
ImagesKeepFiles == Images!ImagesKeepFiles

(* ImageService: results agree with what was told and with the disk.       *)
BatchesAddUp == part = "images" => Images!BatchesAddUp

(* FileIndex: an index is the beginning of the tree, whoever changes it.   *)
IndexIsPrefixOfTree == part = "index" => Index!IndexIsPrefixOfTree

(* OfficeProcess: no child is left behind, no failure passes for success.  *)
RunsEndCleanly == part = "office" => Office!RunsEndCleanly

(* PluginService: memory, events and disk agree on a plugin's status.      *)
StatusesAgree == part = "plugins" => Plugins!StatusesAgree

(* PluginService: commands run between the enable and the disable hook.    *)
ExecutedWhileStarted == part = "plugins" => Plugins!ExecutedWhileStarted

(* PluginService: directories appear complete, only removal damages them.  *)
OnlyRemovalDamages == Plugins!OnlyRemovalDamages

(* PluginPackage: what was admitted can be loaded again and can run.       *)
AdmittedPackagesRun == part = "packages" => Packages!AdmittedPackagesRun
=============================================================================
