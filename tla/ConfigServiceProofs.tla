------------------------- MODULE ConfigServiceProofs -------------------------
(***************************************************************************)
(* Theorems about ConfigService, for any number of commands, any schemas,  *)
(* themes and languages, and any number of faults and edits.               *)
(***************************************************************************)
EXTENDS ConfigService, TLAPS

-----------------------------------------------------------------------------
(* migrate is idempotent, and the defaults need no migration: what load    *)
(* writes back it never writes a second time.                              *)
LEMMA MigrateNormalizes ==
  ASSUME ConfigServiceAssumption, NEW config \in Configs
  PROVE  Migrate(config) \in Normalized
BY DEF ConfigServiceAssumption, Configs, Migrate, Normalized

LEMMA DefaultIsNormalized ==
  ASSUME ConfigServiceAssumption
  PROVE  Default \in Normalized
BY DEF ConfigServiceAssumption, Configs, Migrate, Normalized, Default

LEMMA NormalizedAreConfigs == Normalized \subseteq Configs
BY DEF Normalized

-----------------------------------------------------------------------------
(* The inductive invariant.                                                *)

(* What an actor is about to write is normalised, what it is about to back *)
(* up does not parse, and startup deletes nothing.                         *)
WritesFit ==
  /\ \A a \in Actors : step[a] = "set" => value[a] \in Normalized
  /\ \A a \in Actors : step[a] = "backup" => value[a] \in Garbage
  /\ step[Boot] # "delete"

(* Commands come only once the load at startup has answered, and what it   *)
(* answered is in the row; before it overwrites a content that does not    *)
(* parse, it has tried to back that content up.                            *)
StartupFits ==
  /\ phase \in {"down", "starting"} => \A c \in Callers : step[c] = "idle"
  /\ phase = "down" => step[Boot] = "idle"
  /\ phase = "starting" =>
       /\ answer[Boot] \in Configs
            => step[Boot] = "idle" /\ row \in Normalized
       /\ step[Boot] = "backup" => value[Boot] = row
       /\ step[Boot] = "set" /\ row \in Garbage => row \in backups \cup refused

(* While commands are served the row parses, and before the first reset it *)
(* is normalised, so that no load has anything to write.                   *)
ServiceFits ==
  Serving =>
    /\ step[Boot] = "idle"
    /\ row \notin Garbage
    /\ ~resetBegun =>
         /\ row \in Normalized
         /\ \A c \in Callers : /\ step[c] \in {"idle", "get", "set"}
                               /\ step[c] = "set" => op[c] = "save"

IInv == TypeOK /\ WritesFit /\ StartupFits /\ ServiceFits

LEMMA InitEstablishes ==
  ASSUME ConfigServiceAssumption, Init
  PROVE  IInv
<1>1. TypeOK
  <2>1. /\ row \in Configs \cup Garbage \cup {Absent}
        /\ backups \subseteq Garbage /\ refused \subseteq Garbage
        /\ phase \in {"down", "starting", "running", "exiting"}
        /\ faults \in 0..MaxFaults /\ edits \in 0..MaxEdits
    BY DEF ConfigServiceAssumption, Init
  <2>2. pool \in BOOLEAN /\ resetBegun \in BOOLEAN
    BY DEF Init
  <2>3. /\ op \in [Actors -> {"load", "save", "reset"}]
        /\ step \in [Actors -> {"idle", "get", "backup", "set", "delete"}]
        /\ value \in [Actors -> Configs \cup Garbage \cup {Absent}]
        /\ answer \in [Actors -> Configs \cup {Unavailable, NoAnswer}]
    BY DEF Init
  <2>4. QED
    BY <2>1, <2>2, <2>3 DEF TypeOK
<1>2. /\ phase = "down" /\ Boot \in Actors /\ Callers \subseteq Actors
      /\ \A a \in Actors : step[a] = "idle"
  BY DEF Init, Actors
<1>3. QED
  BY <1>1, <1>2 DEF IInv, WritesFit, StartupFits, ServiceFits, Serving

-----------------------------------------------------------------------------
(* Each step keeps the invariant.                                          *)

(* The commands: only while they are served.                               *)
LEMMA CommandKeeps ==
  ASSUME ConfigServiceAssumption, IInv, NEW c \in Callers, Command(c)
  PROVE  IInv'
<1>1. /\ Serving /\ UNCHANGED <<row, backups, refused, pool, phase, boundVars>>
      /\ Boot # c /\ c \in Actors /\ Boot \in Actors /\ Callers \subseteq Actors
  BY DEF ConfigServiceAssumption, Command, GetConfig, SaveConfig, ResetConfig,
         storeVars, processVars, boundVars, Actors
<1>2. /\ step \in [Actors -> {"idle", "get", "backup", "set", "delete"}]
      /\ value \in [Actors -> Configs \cup Garbage \cup {Absent}]
      /\ answer \in [Actors -> Configs \cup {Unavailable, NoAnswer}]
      /\ op \in [Actors -> {"load", "save", "reset"}]
  BY DEF IInv, TypeOK
<1>3. PICK operation \in {"load", "save", "reset"}, first \in {"get", "set", "delete"},
           content \in Configs \cup {Absent} :
        /\ Enter(c, operation, first, content)
        /\ first = "set" => content \in Normalized /\ operation = "save"
        /\ first = "delete" => resetBegun'
        /\ resetBegun' \in BOOLEAN /\ (resetBegun => resetBegun')
  <2>1. CASE GetConfig(c)
    BY <2>1 DEF GetConfig, IInv, TypeOK, processVars
  <2>2. CASE \E config \in Drafts : SaveConfig(c, config)
    <3>1. PICK config \in Drafts : SaveConfig(c, config)
      BY <2>2
    <3>2. Migrate(config) \in Normalized
      BY MigrateNormalizes DEF ConfigServiceAssumption
    <3>3. QED
      BY <3>1, <3>2, NormalizedAreConfigs DEF SaveConfig, IInv, TypeOK,
           processVars
  <2>3. CASE ResetConfig(c)
    BY <2>3 DEF ResetConfig
  <2>4. QED
    BY <2>1, <2>2, <2>3 DEF Command
<1>4. TypeOK'
  BY <1>1, <1>2, <1>3 DEF IInv, TypeOK, Enter, boundVars
<1>5. WritesFit'
  BY <1>1, <1>2, <1>3 DEF IInv, WritesFit, Enter
<1>6. StartupFits'
  BY <1>1 DEF StartupFits, Serving
<1>7. ServiceFits'
  BY <1>1, <1>2, <1>3 DEF IInv, ServiceFits, Serving, Enter
<1>8. QED
  BY <1>4, <1>5, <1>6, <1>7 DEF IInv

(* The statements: of startup while it lasts, of a command otherwise.      *)
LEMMA ContinueKeeps ==
  ASSUME ConfigServiceAssumption, IInv, NEW a \in Actors, Continue(a)
  PROVE  IInv'
<1>1. /\ UNCHANGED <<processVars, edits, op>>
      /\ step[a] # "idle"
      /\ step \in [Actors -> {"idle", "get", "backup", "set", "delete"}]
      /\ value \in [Actors -> Configs \cup Garbage \cup {Absent}]
      /\ answer \in [Actors -> Configs \cup {Unavailable, NoAnswer}]
  BY DEF Continue, Load, BackUp, Store, Delete, StatementFails, Finish, GoOn,
         storeVars, processVars, boundVars, IInv, TypeOK
<1>2. /\ Boot \in Actors /\ Boot \notin Callers /\ Actors = Callers \cup {Boot}
      /\ Normalized \subseteq Configs /\ Default \in Normalized
      /\ Unavailable \notin Configs /\ NoAnswer \notin Configs
      /\ Garbage \cap Configs = {} /\ Absent \notin Garbage \cup Configs
  BY NormalizedAreConfigs, DefaultIsNormalized
     DEF ConfigServiceAssumption, Actors
<1>3. \/ phase = "starting" /\ a = Boot
      \/ Serving /\ a \in Callers
  <2>1. CASE Serving
    BY <1>1, <1>2, <2>1 DEF IInv, ServiceFits
  <2>2. CASE ~Serving
    BY <1>1, <1>2, <2>2 DEF IInv, TypeOK, StartupFits, Serving
  <2>3. QED
    BY <2>1, <2>2
<1>4. CASE Load(a)
  <2>1. /\ UNCHANGED <<row, backups, refused, faults>>
        /\ step[a] = "get" /\ pool
    BY <1>4 DEF Load, storeVars, boundVars
  <2>2. \/ GoOn(a, "set", Default) /\ row = Absent
        \/ GoOn(a, "backup", row) /\ row \in Garbage
        \/ /\ GoOn(a, "set", Migrate(row)) /\ row \in Configs \ Normalized
           /\ Migrate(row) \in Normalized
        \/ Finish(a, row) /\ row \in Normalized
    BY <1>4, MigrateNormalizes DEF Load
  <2>3. TypeOK'
    BY <1>1, <1>2, <2>1, <2>2 DEF IInv, TypeOK, GoOn, Finish, processVars
  <2>4. WritesFit'
    BY <1>1, <1>2, <2>1, <2>2 DEF IInv, WritesFit, GoOn, Finish
  <2>5. StartupFits'
    BY <1>1, <1>2, <1>3, <2>1, <2>2
       DEF IInv, StartupFits, Serving, GoOn, Finish, processVars
  <2>6. ServiceFits'
    BY <1>1, <1>2, <1>3, <2>1, <2>2
       DEF IInv, ServiceFits, Serving, GoOn, Finish, processVars
  <2>7. QED
    BY <2>3, <2>4, <2>5, <2>6 DEF IInv
<1>5. CASE BackUp(a)
  <2>1. /\ step[a] = "backup" /\ GoOn(a, "set", Default) /\ UNCHANGED row
        /\ value[a] \in Garbage
        /\ backups' \in {backups, backups \cup {value[a]}}
        /\ refused' \in {refused, refused \cup {value[a]}}
        /\ value[a] \in backups' \cup refused'
    BY <1>5 DEF BackUp, IInv, WritesFit
  <2>2. faults' \in 0..MaxFaults
    BY <1>5 DEF BackUp, Spend, IInv, TypeOK, ConfigServiceAssumption
  <2>3. TypeOK'
    BY <1>1, <1>2, <2>1, <2>2 DEF IInv, TypeOK, GoOn, processVars
  <2>4. WritesFit'
    BY <1>1, <1>2, <2>1 DEF IInv, WritesFit, GoOn
  <2>5. StartupFits'
    BY <1>1, <1>2, <1>3, <2>1 DEF IInv, StartupFits, Serving, GoOn, processVars
  <2>6. ServiceFits'
    BY <1>1, <1>2, <1>3, <2>1 DEF IInv, ServiceFits, Serving, GoOn, processVars
  <2>7. QED
    BY <2>3, <2>4, <2>5, <2>6 DEF IInv
<1>6. CASE Store(a)
  <2>1. /\ step[a] = "set" /\ row' = value[a] /\ Finish(a, value[a])
        /\ UNCHANGED <<backups, refused, faults>>
        /\ value[a] \in Normalized
    BY <1>6 DEF Store, boundVars, IInv, WritesFit
  <2>2. TypeOK'
    BY <1>1, <1>2, <2>1 DEF IInv, TypeOK, Finish, processVars
  <2>3. WritesFit'
    BY <1>1, <1>2, <2>1 DEF IInv, WritesFit, Finish
  <2>4. StartupFits'
    BY <1>1, <1>2, <1>3, <2>1 DEF IInv, StartupFits, Serving, Finish,
         processVars
  <2>5. ServiceFits'
    BY <1>1, <1>2, <1>3, <2>1 DEF IInv, ServiceFits, Serving, Finish,
         processVars
  <2>6. QED
    BY <2>2, <2>3, <2>4, <2>5 DEF IInv
<1>7. CASE Delete(a)
  <2>1. /\ step[a] = "delete" /\ row' = Absent /\ GoOn(a, "get", Absent)
        /\ UNCHANGED <<backups, refused, faults>>
    BY <1>7 DEF Delete, boundVars
  <2>2. Serving /\ a \in Callers /\ resetBegun
    BY <1>3, <2>1 DEF IInv, WritesFit, ServiceFits, TypeOK
  <2>3. TypeOK'
    BY <1>1, <1>2, <2>1 DEF IInv, TypeOK, GoOn, processVars
  <2>4. WritesFit'
    BY <1>1, <1>2, <2>1 DEF IInv, WritesFit, GoOn
  <2>5. StartupFits'
    BY <1>1, <2>2 DEF StartupFits, Serving, processVars
  <2>6. ServiceFits'
    BY <1>1, <1>2, <2>1, <2>2 DEF IInv, ServiceFits, Serving, GoOn, processVars
  <2>7. QED
    BY <2>3, <2>4, <2>5, <2>6 DEF IInv
<1>8. CASE StatementFails(a)
  <2>1. Finish(a, Unavailable) /\ UNCHANGED storeVars
    BY <1>8 DEF StatementFails
  <2>2. faults' \in 0..MaxFaults
    BY <1>8 DEF StatementFails, Spend, IInv, TypeOK, ConfigServiceAssumption
  <2>3. TypeOK'
    BY <1>1, <1>2, <2>1, <2>2 DEF IInv, TypeOK, Finish, storeVars, processVars
  <2>4. WritesFit'
    BY <1>1, <1>2, <2>1 DEF IInv, WritesFit, Finish
  <2>5. StartupFits'
    BY <1>1, <1>2, <1>3, <2>1
       DEF IInv, StartupFits, Serving, Finish, storeVars, processVars
  <2>6. ServiceFits'
    BY <1>1, <1>2, <1>3, <2>1
       DEF IInv, ServiceFits, Serving, Finish, storeVars, processVars
  <2>7. QED
    BY <2>3, <2>4, <2>5, <2>6 DEF IInv
<1>9. QED
  BY <1>4, <1>5, <1>6, <1>7, <1>8 DEF Continue

(* The process: startup, exit, the end, and what others do to the row.     *)
LEMMA ProcessKeeps ==
  ASSUME ConfigServiceAssumption, IInv,
         \/ Start \/ Ready \/ Exit \/ CloseDatabase \/ End
         \/ \E content \in Drafts \cup Garbage \cup {Absent} : Edit(content)
  PROVE  IInv'
<1>1. /\ Boot \in Actors /\ Boot \notin Callers /\ Callers \subseteq Actors
      /\ Normalized \subseteq Configs /\ NoAnswer \notin Configs
      /\ Garbage \cap Configs = {} /\ Drafts \subseteq Configs
      /\ MaxEdits \in Nat
  BY NormalizedAreConfigs DEF ConfigServiceAssumption, Actors
<1>2. CASE Start
  <2>1. TypeOK'
    BY <1>1, <1>2 DEF Start, Enter, IInv, TypeOK, storeVars, boundVars
  <2>2. WritesFit' /\ StartupFits' /\ ServiceFits'
    BY <1>1, <1>2 DEF Start, Enter, IInv, TypeOK, WritesFit, StartupFits,
       ServiceFits, Serving, storeVars
  <2>3. QED
    BY <2>1, <2>2 DEF IInv
<1>3. CASE Ready
  BY <1>1, <1>3 DEF Ready, IInv, TypeOK, WritesFit, StartupFits, ServiceFits,
     Serving, storeVars, callVars, boundVars
<1>4. CASE Exit \/ CloseDatabase
  BY <1>4 DEF Exit, CloseDatabase, IInv, TypeOK, WritesFit, StartupFits,
     ServiceFits, Serving, storeVars, callVars, boundVars
<1>5. CASE End
  BY <1>1, <1>5 DEF End, IInv, TypeOK, WritesFit, StartupFits, ServiceFits,
     Serving, storeVars, boundVars
<1>6. CASE \E content \in Drafts \cup Garbage \cup {Absent} : Edit(content)
  <2>1. TypeOK'
    BY <1>1, <1>6 DEF Edit, IInv, TypeOK, processVars, callVars
  <2>2. WritesFit' /\ StartupFits' /\ ServiceFits'
    BY <1>6 DEF Edit, IInv, WritesFit, StartupFits, ServiceFits, Serving,
       processVars, callVars
  <2>3. QED
    BY <2>1, <2>2 DEF IInv
<1>7. QED
  BY <1>2, <1>3, <1>4, <1>5, <1>6

LEMMA NextKeeps ==
  ASSUME ConfigServiceAssumption, IInv, [Next]_vars
  PROVE  IInv'
<1>1. CASE UNCHANGED vars
  BY <1>1 DEF vars, callVars, storeVars, processVars, boundVars, IInv, TypeOK,
     WritesFit, StartupFits, ServiceFits, Serving
<1>2. CASE Next
  BY <1>2, CommandKeeps, ContinueKeeps, ProcessKeeps DEF Next
<1>3. QED
  BY <1>1, <1>2

LEMMA InvariantHolds ==
  ASSUME ConfigServiceAssumption
  PROVE  Spec => []IInv
BY InitEstablishes, NextKeeps, PTL DEF Spec

-----------------------------------------------------------------------------
(* Every variable of the configuration service keeps its type: in          *)
(* particular only contents that do not parse are ever backed up.          *)
THEOREM ConfigTypeCorrect ==
  ASSUME ConfigServiceAssumption
  PROVE  Spec => []TypeOK
<1>1. IInv => TypeOK
  BY DEF IInv
<1>2. QED
  BY <1>1, InvariantHolds, PTL

(* Once the load at startup has repaired the row, commands find settings   *)
(* that parse for as long as they are served; and that need no migration   *)
(* until somebody resets them.                                             *)
RowIsUsable ==
  Serving => /\ row \notin Garbage
             /\ ~resetBegun => row \in Normalized

THEOREM RowStaysUsable ==
  ASSUME ConfigServiceAssumption
  PROVE  Spec => []RowIsUsable
<1>1. IInv => RowIsUsable
  BY DEF IInv, ServiceFits, RowIsUsable
<1>2. QED
  BY <1>1, InvariantHolds, PTL

-----------------------------------------------------------------------------
(* The three parts of SettingsAreKept.                                     *)

LEMMA AnswersAreStored ==
  ASSUME ConfigServiceAssumption, IInv, Next, NEW a \in Actors,
         answer'[a] # answer[a], answer'[a] \in Configs
  PROVE  row' = answer'[a]
<1>1. /\ answer \in [Actors -> Configs \cup {Unavailable, NoAnswer}]
      /\ Unavailable \notin Configs /\ NoAnswer \notin Configs
      /\ Callers \subseteq Actors /\ Boot \in Actors
  BY DEF IInv, TypeOK, ConfigServiceAssumption, Actors
<1>2. PICK b \in Actors : Load(b) \/ Store(b)
  <2>1. ASSUME NEW c \in Callers, Command(c)
        PROVE  FALSE
    BY <1>1, <2>1 DEF Command, GetConfig, SaveConfig, ResetConfig, Enter
  <2>2. ASSUME NEW b \in Actors, BackUp(b) \/ Delete(b) \/ StatementFails(b)
        PROVE  FALSE
    BY <1>1, <2>2 DEF BackUp, Delete, StatementFails, GoOn, Finish
  <2>3. ~(Start \/ Ready \/ Exit \/ CloseDatabase \/ End)
    BY <1>1 DEF Start, Ready, Exit, CloseDatabase, End, Enter, callVars
  <2>4. ASSUME NEW content \in Drafts \cup Garbage \cup {Absent}, Edit(content)
        PROVE  FALSE
    BY <2>4 DEF Edit, callVars
  <2>5. QED
    BY <2>1, <2>2, <2>3, <2>4 DEF Next, Continue
<1>3. QED
  BY <1>1, <1>2 DEF Load, Store, GoOn, Finish, storeVars

LEMMA RowIsWrittenBy ==
  ASSUME ConfigServiceAssumption, Next, row' # row
  PROVE  \/ \E a \in Actors : Store(a) \/ Delete(a)
         \/ phase = "down"
<1>1. ASSUME NEW c \in Callers, Command(c)
      PROVE  FALSE
  BY <1>1 DEF Command, GetConfig, SaveConfig, ResetConfig, storeVars
<1>2. ASSUME NEW a \in Actors, Load(a) \/ BackUp(a) \/ StatementFails(a)
      PROVE  FALSE
  BY <1>2 DEF Load, BackUp, StatementFails, storeVars
<1>3. ~(Start \/ Ready \/ Exit \/ CloseDatabase \/ End)
  BY DEF Start, Ready, Exit, CloseDatabase, End, storeVars
<1>4. QED
  BY <1>1, <1>2, <1>3 DEF Next, Continue, Edit

LEMMA OnlySavesWrite ==
  ASSUME ConfigServiceAssumption, IInv, Next, Serving, ~resetBegun, row' # row
  PROVE  \E c \in Callers : op[c] = "save" /\ Stores(c)
<1>1. PICK a \in Actors : Store(a) \/ Delete(a)
  BY RowIsWrittenBy DEF Serving
<1>2. a \in Callers /\ step[a] = "set" /\ op[a] = "save"
  BY <1>1 DEF Store, Delete, IInv, ServiceFits, Actors
<1>3. Store(a)
  BY <1>1, <1>2 DEF Delete
<1>4. Stores(a)
  BY <1>2, <1>3 DEF Store, Finish, Stores, IInv, TypeOK
<1>5. QED
  BY <1>2, <1>4

LEMMA GarbageIsBackedUp ==
  ASSUME ConfigServiceAssumption, IInv, Next, phase # "down", row \in Garbage,
         row' # row
  PROVE  row \in backups \cup refused
<1>1. PICK a \in Actors : Store(a) \/ Delete(a)
  BY RowIsWrittenBy
<1>2. phase = "starting"
  BY DEF IInv, TypeOK, ServiceFits, Serving
<1>3. a = Boot
  BY <1>1, <1>2 DEF IInv, StartupFits, Store, Delete, Actors
<1>4. QED
  BY <1>1, <1>2, <1>3 DEF IInv, WritesFit, StartupFits, Store, Delete

(* What was acknowledged is what stays stored: an answer is what the row   *)
(* holds, only saves change it under the commands of a run until somebody  *)
(* resets it, and nothing is overwritten before its backup was tried.      *)
THEOREM AcknowledgedSettingsAreKept ==
  ASSUME ConfigServiceAssumption
  PROVE  Spec => SettingsAreKept
<1> DEFINE Kept ==
      /\ \A a \in Actors :
           answer'[a] # answer[a] /\ answer'[a] \in Configs => row' = answer'[a]
      /\ Serving /\ ~resetBegun /\ row' # row
           => \E c \in Callers : op[c] = "save" /\ Stores(c)
      /\ phase # "down" /\ row \in Garbage /\ row' # row
           => row \in backups \cup refused
<1>1. IInv /\ Next => Kept
  BY AnswersAreStored, OnlySavesWrite, GarbageIsBackedUp
<1>2. IInv /\ [Next]_vars => [Kept]_vars
  BY <1>1
<1>3. SettingsAreKept <=> [][Kept]_vars
  BY DEF SettingsAreKept
<1>4. QED
  BY <1>2, <1>3, InvariantHolds, PTL DEF Spec
=============================================================================
