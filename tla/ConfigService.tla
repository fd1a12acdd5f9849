---------------------------- MODULE ConfigService ----------------------------
(***************************************************************************)
(* ConfigService of application/config_service.rs over DatabaseService:    *)
(* one row of app_config holds the settings as JSON.  load, save and reset *)
(* are sequences of single SQL statements without a transaction or a lock, *)
(* called by any number of IPC commands at once, once by bootstrap before  *)
(* any command, and until the process has ended, which may be after        *)
(* on_exit has closed the pool.                                            *)
(***************************************************************************)
EXTENDS Integers, FiniteSets

CONSTANTS
  Callers,           (* get_config, save_config and reset_config commands   *)
  Boot,              (* the load of app/bootstrap.rs                        *)
  Schemas,           (* values of schema_version                            *)
  CurrentSchema,     (* CURRENT_CONFIG_SCHEMA_VERSION                       *)
  Themes, KnownThemes, DefaultTheme,
  Languages, BlankLanguages, DefaultLanguage,
  Drafts,            (* the settings that callers save, or that an older or *)
                     (* a newer version of the program left in the row      *)
  Garbage,           (* contents of the row that do not parse               *)
  Absent,            (* there is no row                                     *)
  Unavailable,       (* the answer DatabaseUnavailable                      *)
  NoAnswer,
  MaxFaults,         (* bound: statements refused while the pool is open    *)
  MaxEdits           (* bound: changes of the row between two runs          *)

Configs == [schema : Schemas, theme : Themes, language : Languages]
Actors == Callers \cup {Boot}

ConfigServiceAssumption ==
  /\ Boot \notin Callers
  /\ Schemas \subseteq Nat /\ CurrentSchema \in Schemas
  /\ KnownThemes \subseteq Themes /\ DefaultTheme \in KnownThemes
  /\ DefaultLanguage \in Languages \ BlankLanguages
  /\ Drafts \subseteq Configs
  /\ Garbage \cap Configs = {}
  /\ Absent \notin Configs \cup Garbage
  /\ {Unavailable, NoAnswer} \cap Configs = {} /\ Unavailable # NoAnswer
  /\ MaxFaults \in Nat /\ MaxEdits \in Nat

VARIABLES
  row,         (* the value stored under app.settings                       *)
  backups,     (* the contents stored under app.settings.corrupt.<time>     *)
  refused,     (* history: the contents whose backup was refused            *)
  pool,        (* the connection pool is open                               *)
  phase,       (* of the process: down, starting, running, exiting          *)
  op,          (* what each actor was asked for                             *)
  step,        (* the statement it executes next, idle when in no call      *)
  value,       (* what it is about to write                                 *)
  answer,      (* what its last call answered                               *)
  resetBegun,  (* history: reset_config was called in this run              *)
  faults,
  edits

callVars == <<op, step, value, answer>>
storeVars == <<row, backups, refused>>
processVars == <<pool, phase, resetBegun>>
boundVars == <<faults, edits>>
vars == <<storeVars, processVars, callVars, boundVars>>

(* AppConfig::default and migrate; the module's autoStart has no rule.     *)
Default == [schema |-> CurrentSchema, theme |-> DefaultTheme,
            language |-> DefaultLanguage]

Migrate(config) ==
  [schema |-> IF config.schema < CurrentSchema THEN CurrentSchema
                                               ELSE config.schema,
   theme |-> IF config.theme \in KnownThemes THEN config.theme
                                             ELSE DefaultTheme,
   language |-> IF config.language \in BlankLanguages THEN DefaultLanguage
                                                      ELSE config.language]

Normalized == {config \in Configs : Migrate(config) = config}

Init ==
  /\ row = Absent
  /\ backups = {} /\ refused = {}
  /\ pool = FALSE
  /\ phase = "down"
  /\ op = [a \in Actors |-> "load"]
  /\ step = [a \in Actors |-> "idle"]
  /\ value = [a \in Actors |-> Absent]
  /\ answer = [a \in Actors |-> NoAnswer]
  /\ resetBegun = FALSE
  /\ faults = 0 /\ edits = 0

-----------------------------------------------------------------------------
(* The steps of a call.                                                    *)

Serving == phase \in {"running", "exiting"}

GoOn(a, next, content) ==
  /\ step' = [step EXCEPT ![a] = next]
  /\ value' = [value EXCEPT ![a] = content]
  /\ UNCHANGED <<op, answer>>

Finish(a, result) ==
  /\ step' = [step EXCEPT ![a] = "idle"]
  /\ value' = [value EXCEPT ![a] = Absent]
  /\ answer' = [answer EXCEPT ![a] = result]
  /\ UNCHANGED op

Enter(a, operation, first, content) ==
  /\ step[a] = "idle"
  /\ op' = [op EXCEPT ![a] = operation]
  /\ step' = [step EXCEPT ![a] = first]
  /\ value' = [value EXCEPT ![a] = content]
  /\ answer' = [answer EXCEPT ![a] = NoAnswer]

GetConfig(c) ==
  /\ Serving
  /\ Enter(c, "load", "get", Absent)
  /\ UNCHANGED <<storeVars, processVars, boundVars>>

(* save stores, and later answers, the settings it has normalised.         *)
SaveConfig(c, config) ==
  /\ Serving
  /\ Enter(c, "save", "set", Migrate(config))
  /\ UNCHANGED <<storeVars, processVars, boundVars>>

ResetConfig(c) ==
  /\ Serving
  /\ Enter(c, "reset", "delete", Absent)
  /\ resetBegun' = TRUE
  /\ UNCHANGED <<storeVars, pool, phase, boundVars>>

(* load reads the row and answers it, or decides what to write instead.    *)
Load(a) ==
  /\ pool /\ step[a] = "get"
  /\ \/ row = Absent /\ GoOn(a, "set", Default)
     \/ row \in Garbage /\ GoOn(a, "backup", row)
     \/ row \in Configs \ Normalized /\ GoOn(a, "set", Migrate(row))
     \/ row \in Normalized /\ Finish(a, row)
  /\ UNCHANGED <<storeVars, processVars, boundVars>>

Spend == faults < MaxFaults /\ faults' = faults + 1

(* recover_corrupt: the defaults are written whether or not the backup was *)
(* stored.                                                                 *)
BackUp(a) ==
  /\ step[a] = "backup"
  /\ GoOn(a, "set", Default)
  /\ \/ /\ pool
        /\ backups' = backups \cup {value[a]}
        /\ UNCHANGED <<refused, faults>>
     \/ /\ IF pool THEN Spend ELSE UNCHANGED faults
        /\ refused' = refused \cup {value[a]}
        /\ UNCHANGED backups
  /\ UNCHANGED <<row, processVars, edits>>

(* The upsert of the row, and the answer of save, which load and reset     *)
(* pass on.                                                                *)
Store(a) ==
  /\ pool /\ step[a] = "set"
  /\ row' = value[a]
  /\ Finish(a, value[a])
  /\ UNCHANGED <<backups, refused, processVars, boundVars>>

Delete(a) ==
  /\ pool /\ step[a] = "delete"
  /\ row' = Absent
  /\ GoOn(a, "get", Absent)
  /\ UNCHANGED <<backups, refused, processVars, boundVars>>

(* A statement is refused: always once the pool is closed, and when SQLite *)
(* stays busy or the disk fails.                                           *)
StatementFails(a) ==
  /\ step[a] \in {"get", "set", "delete"}
  /\ IF pool THEN Spend ELSE UNCHANGED faults
  /\ Finish(a, Unavailable)
  /\ UNCHANGED <<storeVars, processVars, edits>>

-----------------------------------------------------------------------------
(* The process.                                                            *)

(* Faulty variant: commands are served without the load at startup. *)
StartWithoutLoad ==
  /\ phase = "down"
  /\ phase' = "running" /\ pool' = TRUE /\ resetBegun' = FALSE
  /\ UNCHANGED <<storeVars, callVars, boundVars>>

(* initialize: connect, then the load.                                     *)
Start ==
  /\ phase = "down"
  /\ phase' = "starting" /\ pool' = TRUE /\ resetBegun' = FALSE
  /\ Enter(Boot, "load", "get", Absent)
  /\ UNCHANGED <<storeVars, boundVars>>

(* The load succeeded and the database is managed: commands can come.      *)
Ready ==
  /\ phase = "starting" /\ answer[Boot] \in Configs
  /\ phase' = "running"
  /\ UNCHANGED <<storeVars, pool, resetBegun, callVars, boundVars>>

(* RunEvent::Exit: on_exit stops the other services, while commands go on. *)
Exit ==
  /\ phase = "running"
  /\ phase' = "exiting"
  /\ UNCHANGED <<storeVars, pool, resetBegun, callVars, boundVars>>

(* shutdown closes the pool whether or not its checkpoint succeeded.       *)
CloseDatabase ==
  /\ phase = "exiting" /\ pool
  /\ pool' = FALSE
  /\ UNCHANGED <<storeVars, phase, resetBegun, callVars, boundVars>>

(* The process ends: after on_exit, because startup failed, or by a crash. *)
(* Every statement that was executed stays in the file, calls are gone.    *)
End ==
  /\ phase # "down"
  /\ phase' = "down" /\ pool' = FALSE
  /\ step' = [a \in Actors |-> "idle"]
  /\ value' = [a \in Actors |-> Absent]
  /\ answer' = [a \in Actors |-> NoAnswer]
  /\ UNCHANGED <<storeVars, resetBegun, op, boundVars>>

(* Another version of the program, or a damaged file.                      *)
Edit(content) ==
  /\ phase = "down" /\ edits < MaxEdits
  /\ row' = content
  /\ edits' = edits + 1
  /\ UNCHANGED <<backups, refused, processVars, callVars, faults>>

-----------------------------------------------------------------------------
Continue(a) ==
  Load(a) \/ BackUp(a) \/ Store(a) \/ Delete(a) \/ StatementFails(a)

Command(c) ==
  \/ GetConfig(c)
  \/ \E config \in Drafts : SaveConfig(c, config)
  \/ ResetConfig(c)

Next ==
  \/ \E c \in Callers : Command(c)
  \/ \E a \in Actors : Continue(a)
  \/ Start \/ Ready \/ Exit \/ CloseDatabase \/ End
  \/ \E content \in Drafts \cup Garbage \cup {Absent} : Edit(content)

Spec == Init /\ [][Next]_vars

-----------------------------------------------------------------------------
TypeOK ==
  /\ row \in Configs \cup Garbage \cup {Absent}
  /\ backups \subseteq Garbage /\ refused \subseteq Garbage
  /\ pool \in BOOLEAN /\ resetBegun \in BOOLEAN
  /\ phase \in {"down", "starting", "running", "exiting"}
  /\ op \in [Actors -> {"load", "save", "reset"}]
  /\ step \in [Actors -> {"idle", "get", "backup", "set", "delete"}]
  /\ value \in [Actors -> Configs \cup Garbage \cup {Absent}]
  /\ answer \in [Actors -> Configs \cup {Unavailable, NoAnswer}]
  /\ faults \in 0..MaxFaults /\ edits \in 0..MaxEdits

Stores(a) == step[a] = "set" /\ step'[a] = "idle"

(* What was acknowledged is what stays stored.  A command that answers     *)
(* settings answers what the row holds at that moment; while no reset has  *)
(* been asked for, only a save changes the row under the commands of a     *)
(* run, although a load may write as well and nothing orders it after the  *)
(* save it would overwrite: the load at startup has already repaired the   *)
(* row, so that the later ones find nothing to write; and a row that does  *)
(* not parse is replaced only after its backup was tried.                  *)
SettingsAreKept ==
  [][/\ \A a \in Actors :
          answer'[a] # answer[a] /\ answer'[a] \in Configs => row' = answer'[a]
     /\ Serving /\ ~resetBegun /\ row' # row
          => \E c \in Callers : op[c] = "save" /\ Stores(c)
     /\ phase # "down" /\ row \in Garbage /\ row' # row
          => row \in backups \cup refused]_vars
=============================================================================
