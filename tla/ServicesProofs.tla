--------------------------- MODULE ServicesProofs ---------------------------
(***************************************************************************)
(* Proofs about PluginService, OfficeProcess and PluginPackage, and about  *)
(* all the services in one process: every behaviour of Services is one of  *)
(* each part, so that what is proved of a part holds of them together.     *)
(***************************************************************************)
EXTENDS Services, LongCommandsProofs

-----------------------------------------------------------------------------
(* PluginService.                                                          *)

(* What a call is, by the place it has reached.                            *)
CallFitsPlace ==
  /\ place = "idle" => status = NoPlugin
  /\ place \in {"staging", "activating", "recording install"} => kind = "install"
  /\ place = "hook" => kind \in Plugins!PluginCalls \ {"install"}
  /\ place = "hook" /\ kind = "enable" => status = "enabled"
  /\ place = "hook" /\ kind \in {"disable", "uninstall"} => status = "disabled"
  /\ place \in {"persisting", "recording"} =>
       kind \in {"enable", "disable", "uninstall", "restore"}
         /\ status \in Plugins!Statuses
  /\ place = "publishing" =>
       kind \in {"install", "enable", "disable", "uninstall", "restore"}
  /\ place \in {"removing", "forgetting"} => kind = "uninstall"
  /\ place \in {"visiting", "visit hook"} => kind \in Plugins!Passes
  /\ place = "visit hook" => status = "disabled"

PluginTyped == Plugins!TypeOK /\ CallFitsPlace

(* Memory and disk agree, but for the plugin whose call is between the two. *)
MemoryFitsDisk ==
  /\ \A p \in PluginIds :
       \/ records[p] = Plugins!Loaded(dir[p])
       \/ dir[p] # NoPlugin /\ ~Plugins!Complete(dir[p])
       \/ plugin = p /\ place \in {"recording install", "recording", "forgetting"}
  /\ place = "recording install" => dir[plugin] = Plugins!New
  /\ place = "recording" =>
       dir[plugin] # NoPlugin
         /\ (Plugins!Complete(dir[plugin]) => dir[plugin].status = status)
  /\ place = "forgetting" => dir[plugin] = NoPlugin

EventsFitMemory ==
  \A p \in PluginIds :
    event[p] # NoPlugin =>
      event[p] = records[p] \/ (plugin = p /\ place = "publishing")

PluginsAgree == MemoryFitsDisk /\ EventsFitMemory

(* The enable hook has run for every plugin that is enabled, but for those *)
(* that this process has still to restore.                                 *)
EnabledAreStarted ==
  /\ kind = "shutdown" => shut
  /\ \A p \in PluginIds :
       records[p] = "enabled" =>
         \/ p \in started \cup unclean \/ shut
         \/ kind = "restore" /\ p \in todo
         \/ kind = "restore" /\ plugin = p /\ place # "publishing"
         \/ plugin = p /\ place \in {"persisting", "recording"}
  /\ place \in {"persisting", "recording"} /\ status = "enabled" =>
       plugin \in started
  /\ place \in {"persisting", "recording"} /\ kind = "restore" =>
       status = "disabled"
  /\ place = "publishing" /\ kind = "restore" => records[plugin] = "disabled"
  /\ place = "hook" /\ kind = "execute" => records[plugin] = "enabled"

LEMMA RestartKeepsTypes ==
  ASSUME Plugins!PluginServiceAssumption, PluginTyped, Plugins!Restart
  PROVE  PluginTyped'
<1>1. \A p \in PluginIds :
        Plugins!Loaded(dir[p]) \in Plugins!Statuses \cup {"absent"}
  BY DEF PluginTyped, Plugins!TypeOK, CallFitsPlace, Plugins!Places,
         Plugins!Statuses, Plugins!PluginCalls, Plugins!Passes,
         Plugins!PluginDirectories,
         Plugins!Files, Plugins!Loaded, Plugins!Complete,
         Plugins!PluginServiceAssumption
<1>2. /\ records' \in [PluginIds -> Plugins!Statuses \cup {"absent"}]
      /\ todo' \subseteq PluginIds
      /\ event' \in [PluginIds -> Plugins!Statuses \cup {"absent", NoPlugin}]
      /\ restarts' \in 0..MaxRestarts
  BY <1>1
     DEF Plugins!Restart, PluginTyped, Plugins!TypeOK,
         Plugins!PluginServiceAssumption
<1>3. QED
  BY <1>2
     DEF Plugins!Restart, Plugins!callVars,
         Plugins!historyVars, PluginTyped, Plugins!TypeOK, CallFitsPlace,
         Plugins!Places, Plugins!Statuses, Plugins!PluginCalls, Plugins!Passes,
         Plugins!PluginServiceAssumption

LEMMA RecordInstallKeepsAgreement ==
  ASSUME Plugins!PluginServiceAssumption, PluginTyped, PluginsAgree,
         Plugins!RecordInstall
  PROVE  PluginsAgree'
<1>1. Plugins!Complete(Plugins!New) /\ Plugins!Loaded(Plugins!New) = "disabled"
  BY DEF Plugins!Complete, Plugins!Loaded, Plugins!New,
         Plugins!PluginServiceAssumption, Plugins!PluginDirectories,
         Plugins!Statuses, Plugins!Files
<1>2. /\ plugin \in PluginIds /\ dir[plugin] = Plugins!New
      /\ records'[plugin] = "disabled"
      /\ \A p \in PluginIds : p # plugin => records'[p] = records[p]
      /\ place' = "publishing" /\ UNCHANGED <<dir, plugin, event>>
  BY DEF Plugins!RecordInstall, Plugins!Goto, PluginTyped,
         Plugins!TypeOK, PluginsAgree, MemoryFitsDisk
<1>3. QED
  BY <1>1, <1>2
     DEF Plugins!RecordInstall, PluginsAgree, MemoryFitsDisk, EventsFitMemory

LEMMA PluginsStayTyped ==
  ASSUME Plugins!PluginServiceAssumption, PluginTyped, [Plugins!Next]_Plugins!vars
  PROVE  PluginTyped'
<1> USE DEF Plugins!PluginServiceAssumption, Plugins!callVars,
            Plugins!historyVars, PluginTyped, Plugins!TypeOK,
            CallFitsPlace, Plugins!Places, Plugins!Statuses, Plugins!PluginCalls,
            Plugins!Passes, Plugins!PluginDirectories, Plugins!Files,
            Plugins!Loaded,
            Plugins!Complete
<1>1. ASSUME NEW p \in PluginIds, Plugins!BeginInstall(p) PROVE PluginTyped'
  BY <1>1 DEF Plugins!BeginInstall, Plugins!Begin
<1>2. ASSUME NEW p \in PluginIds, Plugins!BeginEnable(p) PROVE PluginTyped'
  BY <1>2 DEF Plugins!BeginEnable, Plugins!Begin
<1>3. ASSUME NEW p \in PluginIds, Plugins!BeginDisable(p) PROVE PluginTyped'
  BY <1>3 DEF Plugins!BeginDisable, Plugins!Begin
<1>4. ASSUME NEW p \in PluginIds, Plugins!BeginUninstall(p) PROVE PluginTyped'
  BY <1>4 DEF Plugins!BeginUninstall, Plugins!Begin
<1>5. ASSUME NEW p \in PluginIds, Plugins!BeginExecute(p) PROVE PluginTyped'
  BY <1>5 DEF Plugins!BeginExecute, Plugins!Begin
<1>6. ASSUME NEW p \in PluginIds, Plugins!Visit(p) PROVE PluginTyped'
  BY <1>6 DEF Plugins!Visit
<1>7. CASE Plugins!Stage
  BY <1>7 DEF Plugins!Stage, Plugins!Goto
<1>8. CASE Plugins!Activate
  BY <1>8 DEF Plugins!Activate, Plugins!Goto, Plugins!New
<1>9. CASE Plugins!ActivateFails
  BY <1>9 DEF Plugins!ActivateFails, Plugins!Fail, Plugins!End
<1>10. CASE Plugins!RecordInstall
  BY <1>10 DEF Plugins!RecordInstall, Plugins!Goto
<1>11. CASE Plugins!HookSucceeds
  BY <1>11
     DEF Plugins!HookSucceeds, Plugins!Goto, Plugins!End, Plugins!Readable
<1>12. CASE Plugins!HookFails
  BY <1>12 DEF Plugins!HookFails, Plugins!End
<1>13. CASE Plugins!Persist
  BY <1>13 DEF Plugins!Persist, Plugins!Goto
<1>14. CASE Plugins!PersistFails
  <2>1. /\ plugin \in PluginIds /\ kind \notin {NoPlugin, "shutdown"}
        /\ failures' \in 0..MaxFailures /\ unclean' \subseteq PluginIds
        /\ UNCHANGED <<records, dir, started, event, shut, rejected,
             restarts>>
    BY <1>14 DEF Plugins!PersistFails, Plugins!Fail
  <2>2. CASE kind \in Plugins!Passes
    BY <1>14, <2>1, <2>2 DEF Plugins!PersistFails, Plugins!EndOfPlugin
  <2>3. CASE kind \notin Plugins!Passes
    BY <1>14, <2>1, <2>3
       DEF Plugins!PersistFails, Plugins!EndOfPlugin, Plugins!End
  <2>4. QED BY <2>2, <2>3
<1>15. CASE Plugins!RecordStatus
  BY <1>15 DEF Plugins!RecordStatus, Plugins!Goto
<1>16. CASE Plugins!Publish
  BY <1>16 DEF Plugins!Publish, Plugins!Goto, Plugins!EndOfPlugin, Plugins!End
<1>17. CASE Plugins!RemoveDirectory
  BY <1>17 DEF Plugins!RemoveDirectory, Plugins!Goto
<1>18. CASE Plugins!RemoveFails
  BY <1>18 DEF Plugins!RemoveFails, Plugins!End, Plugins!Fail
<1>19. CASE Plugins!Forget
  BY <1>19 DEF Plugins!Forget, Plugins!Goto
<1>20. ASSUME NEW f \in Plugins!Files, Plugins!RemoveFile(f) PROVE PluginTyped'
  BY <1>20 DEF Plugins!RemoveFile
<1>21. CASE Plugins!Shutdown
  BY <1>21 DEF Plugins!Shutdown, Plugins!EnabledPlugins
<1>22. CASE Plugins!PassEnds
  BY <1>22 DEF Plugins!PassEnds, Plugins!End
<1>23. CASE Plugins!VisitSucceeds
  BY <1>23
     DEF Plugins!VisitSucceeds, Plugins!EndOfPlugin, Plugins!End,
         Plugins!Readable
<1>24. CASE Plugins!VisitFails
  BY <1>24
     DEF Plugins!VisitFails, Plugins!Goto, Plugins!EndOfPlugin, Plugins!End
<1>25. CASE Plugins!Restart
  BY <1>25, RestartKeepsTypes
<1>26. CASE UNCHANGED Plugins!vars
  BY <1>26, ZenonT(30) DEF Plugins!vars
<1> QED
  BY <1>1, <1>2, <1>3, <1>4, <1>5, <1>6, <1>7, <1>8, <1>9, <1>10, <1>11, <1>12,
     <1>13, <1>14, <1>15, <1>16, <1>17, <1>18, <1>19, <1>20, <1>21, <1>22,
     <1>23, <1>24, <1>25, <1>26
     DEF Plugins!Next, Plugins!Exited

LEMMA AgreementStays ==
  ASSUME Plugins!PluginServiceAssumption, PluginTyped, PluginsAgree,
         [Plugins!Next]_Plugins!vars
  PROVE  PluginsAgree'
<1> USE DEF Plugins!PluginServiceAssumption, Plugins!callVars,
            Plugins!historyVars, PluginTyped, PluginsAgree,
            MemoryFitsDisk, EventsFitMemory, Plugins!TypeOK, CallFitsPlace,
            Plugins!Places, Plugins!Statuses, Plugins!PluginCalls, Plugins!Passes,
            Plugins!PluginDirectories, Plugins!Files, Plugins!Loaded,
            Plugins!Complete
<1>1. ASSUME NEW p \in PluginIds, Plugins!BeginInstall(p) PROVE PluginsAgree'
  BY <1>1 DEF Plugins!BeginInstall, Plugins!Begin
<1>2. ASSUME NEW p \in PluginIds, Plugins!BeginEnable(p) PROVE PluginsAgree'
  BY <1>2 DEF Plugins!BeginEnable, Plugins!Begin
<1>3. ASSUME NEW p \in PluginIds, Plugins!BeginDisable(p) PROVE PluginsAgree'
  BY <1>3 DEF Plugins!BeginDisable, Plugins!Begin
<1>4. ASSUME NEW p \in PluginIds, Plugins!BeginUninstall(p) PROVE PluginsAgree'
  BY <1>4 DEF Plugins!BeginUninstall, Plugins!Begin
<1>5. ASSUME NEW p \in PluginIds, Plugins!BeginExecute(p) PROVE PluginsAgree'
  BY <1>5 DEF Plugins!BeginExecute, Plugins!Begin
<1>6. ASSUME NEW p \in PluginIds, Plugins!Visit(p) PROVE PluginsAgree'
  BY <1>6 DEF Plugins!Visit
<1>7. CASE Plugins!Stage
  BY <1>7 DEF Plugins!Stage, Plugins!Goto
<1>8. CASE Plugins!Activate
  BY <1>8 DEF Plugins!Activate, Plugins!Goto, Plugins!New
<1>9. CASE Plugins!ActivateFails
  BY <1>9 DEF Plugins!ActivateFails, Plugins!Fail, Plugins!End
<1>10. CASE Plugins!RecordInstall
  BY <1>10, RecordInstallKeepsAgreement
<1>11. CASE Plugins!HookSucceeds
  BY <1>11
     DEF Plugins!HookSucceeds, Plugins!Goto, Plugins!End, Plugins!Readable
<1>12. CASE Plugins!HookFails
  BY <1>12 DEF Plugins!HookFails, Plugins!End
<1>13. CASE Plugins!Persist
  BY <1>13 DEF Plugins!Persist, Plugins!Goto
<1>14. CASE Plugins!PersistFails
  BY <1>14
     DEF Plugins!PersistFails, Plugins!EndOfPlugin, Plugins!End, Plugins!Fail
<1>15. CASE Plugins!RecordStatus
  BY <1>15 DEF Plugins!RecordStatus, Plugins!Goto
<1>16. CASE Plugins!Publish
  BY <1>16 DEF Plugins!Publish, Plugins!Goto, Plugins!EndOfPlugin, Plugins!End
<1>17. CASE Plugins!RemoveDirectory
  BY <1>17 DEF Plugins!RemoveDirectory, Plugins!Goto
<1>18. CASE Plugins!RemoveFails
  BY <1>18 DEF Plugins!RemoveFails, Plugins!End, Plugins!Fail
<1>19. CASE Plugins!Forget
  BY <1>19 DEF Plugins!Forget, Plugins!Goto
<1>20. ASSUME NEW f \in Plugins!Files, Plugins!RemoveFile(f) PROVE PluginsAgree'
  BY <1>20 DEF Plugins!RemoveFile
<1>21. CASE Plugins!Shutdown
  BY <1>21 DEF Plugins!Shutdown, Plugins!EnabledPlugins
<1>22. CASE Plugins!PassEnds
  BY <1>22 DEF Plugins!PassEnds, Plugins!End
<1>23. CASE Plugins!VisitSucceeds
  BY <1>23
     DEF Plugins!VisitSucceeds, Plugins!EndOfPlugin, Plugins!End,
         Plugins!Readable
<1>24. CASE Plugins!VisitFails
  BY <1>24
     DEF Plugins!VisitFails, Plugins!Goto, Plugins!EndOfPlugin, Plugins!End
<1>25. CASE Plugins!Restart
  BY <1>25 DEF Plugins!Restart
<1>26. CASE UNCHANGED Plugins!vars
  BY <1>26 DEF Plugins!vars
<1> QED
  BY <1>1, <1>2, <1>3, <1>4, <1>5, <1>6, <1>7, <1>8, <1>9, <1>10, <1>11, <1>12,
     <1>13, <1>14, <1>15, <1>16, <1>17, <1>18, <1>19, <1>20, <1>21, <1>22,
     <1>23, <1>24, <1>25, <1>26
     DEF Plugins!Next, Plugins!Exited

LEMMA EnabledStayStarted ==
  ASSUME Plugins!PluginServiceAssumption, PluginTyped, EnabledAreStarted,
         [Plugins!Next]_Plugins!vars
  PROVE  EnabledAreStarted'
<1> USE DEF Plugins!PluginServiceAssumption, Plugins!callVars,
            Plugins!historyVars, PluginTyped,
            EnabledAreStarted, Plugins!TypeOK, CallFitsPlace, Plugins!Places,
            Plugins!Statuses, Plugins!PluginCalls, Plugins!Passes,
            Plugins!PluginDirectories, Plugins!Files, Plugins!Loaded,
            Plugins!Complete
<1>1. ASSUME NEW p \in PluginIds, Plugins!BeginInstall(p) PROVE EnabledAreStarted'
  BY <1>1 DEF Plugins!BeginInstall, Plugins!Begin
<1>2. ASSUME NEW p \in PluginIds, Plugins!BeginEnable(p) PROVE EnabledAreStarted'
  BY <1>2 DEF Plugins!BeginEnable, Plugins!Begin
<1>3. ASSUME NEW p \in PluginIds, Plugins!BeginDisable(p) PROVE EnabledAreStarted'
  BY <1>3 DEF Plugins!BeginDisable, Plugins!Begin
<1>4. ASSUME NEW p \in PluginIds, Plugins!BeginUninstall(p) PROVE EnabledAreStarted'
  BY <1>4 DEF Plugins!BeginUninstall, Plugins!Begin
<1>5. ASSUME NEW p \in PluginIds, Plugins!BeginExecute(p) PROVE EnabledAreStarted'
  BY <1>5 DEF Plugins!BeginExecute, Plugins!Begin
<1>6. ASSUME NEW p \in PluginIds, Plugins!Visit(p) PROVE EnabledAreStarted'
  BY <1>6 DEF Plugins!Visit
<1>7. CASE Plugins!Stage
  BY <1>7 DEF Plugins!Stage, Plugins!Goto
<1>8. CASE Plugins!Activate
  BY <1>8 DEF Plugins!Activate, Plugins!Goto, Plugins!New
<1>9. CASE Plugins!ActivateFails
  BY <1>9 DEF Plugins!ActivateFails, Plugins!Fail, Plugins!End
<1>10. CASE Plugins!RecordInstall
  BY <1>10 DEF Plugins!RecordInstall, Plugins!Goto
<1>11. CASE Plugins!HookSucceeds
  <2>1. CASE kind = "execute"
    BY <1>11, <2>1 DEF Plugins!HookSucceeds, Plugins!End
  <2>2. CASE kind = "enable"
    BY <1>11, <2>2 DEF Plugins!HookSucceeds, Plugins!Goto
  <2>3. CASE kind \notin {"execute", "enable"}
    BY <1>11, <2>3 DEF Plugins!HookSucceeds, Plugins!Goto
  <2>4. QED BY <2>1, <2>2, <2>3
<1>12. CASE Plugins!HookFails
  BY <1>12 DEF Plugins!HookFails, Plugins!End
<1>13. CASE Plugins!Persist
  BY <1>13 DEF Plugins!Persist, Plugins!Goto
<1>14. CASE Plugins!PersistFails
  BY <1>14
     DEF Plugins!PersistFails, Plugins!EndOfPlugin, Plugins!End, Plugins!Fail
<1>15. CASE Plugins!RecordStatus
  BY <1>15 DEF Plugins!RecordStatus, Plugins!Goto
<1>16. CASE Plugins!Publish
  BY <1>16 DEF Plugins!Publish, Plugins!Goto, Plugins!EndOfPlugin, Plugins!End
<1>17. CASE Plugins!RemoveDirectory
  BY <1>17 DEF Plugins!RemoveDirectory, Plugins!Goto
<1>18. CASE Plugins!RemoveFails
  BY <1>18 DEF Plugins!RemoveFails, Plugins!End, Plugins!Fail
<1>19. CASE Plugins!Forget
  BY <1>19 DEF Plugins!Forget, Plugins!Goto
<1>20. ASSUME NEW f \in Plugins!Files, Plugins!RemoveFile(f)
       PROVE  EnabledAreStarted'
  BY <1>20 DEF Plugins!RemoveFile
<1>21. CASE Plugins!Shutdown
  BY <1>21 DEF Plugins!Shutdown, Plugins!EnabledPlugins
<1>22. CASE Plugins!PassEnds
  BY <1>22 DEF Plugins!PassEnds, Plugins!End
<1>23. CASE Plugins!VisitSucceeds
  BY <1>23
     DEF Plugins!VisitSucceeds, Plugins!EndOfPlugin, Plugins!End,
         Plugins!Readable
<1>24. CASE Plugins!VisitFails
  BY <1>24
     DEF Plugins!VisitFails, Plugins!Goto, Plugins!EndOfPlugin, Plugins!End
<1>25. CASE Plugins!Restart
  BY <1>25 DEF Plugins!Restart
<1>26. CASE UNCHANGED Plugins!vars
  BY <1>26 DEF Plugins!vars
<1> QED
  BY <1>1, <1>2, <1>3, <1>4, <1>5, <1>6, <1>7, <1>8, <1>9, <1>10, <1>11, <1>12,
     <1>13, <1>14, <1>15, <1>16, <1>17, <1>18, <1>19, <1>20, <1>21, <1>22,
     <1>23, <1>24, <1>25, <1>26
     DEF Plugins!Next, Plugins!Exited

LEMMA PluginsBeginTyped ==
  ASSUME Plugins!PluginServiceAssumption, Plugins!Init
  PROVE  PluginTyped
<1>1. CallFitsPlace
  BY DEF Plugins!Init, CallFitsPlace
<1>2. /\ place \in Plugins!Places /\ kind = NoPlugin /\ plugin = NoPlugin
      /\ status = NoPlugin
      /\ todo = {}
      /\ event \in [PluginIds -> Plugins!Statuses \cup {"absent", NoPlugin}]
      /\ kind = NoPlugin <=> place = "idle"
      /\ plugin = NoPlugin <=> place \in {"idle", "visiting"}
  BY DEF Plugins!Init, Plugins!Places
<1>3. /\ records \in [PluginIds -> Plugins!Statuses \cup {"absent"}]
      /\ dir \in [PluginIds -> Plugins!PluginDirectories \cup {NoPlugin}]
  BY DEF Plugins!Init
<1>4. failures \in 0..MaxFailures /\ restarts \in 0..MaxRestarts
  BY DEF Plugins!Init, Plugins!PluginServiceAssumption
<1>5. Plugins!TypeOK
  BY <1>2, <1>3, <1>4 DEF Plugins!Init, Plugins!TypeOK
<1>6. QED BY <1>1, <1>5 DEF PluginTyped

LEMMA PluginsAgreeAndRun ==
  ASSUME Plugins!PluginServiceAssumption
  PROVE  Plugins!Spec
           => [](Plugins!StatusesAgree /\ Plugins!ExecutedWhileStarted
             /\ Plugins!TypeOK)
<1>1. Plugins!Init => PluginTyped /\ PluginsAgree /\ EnabledAreStarted
  <2> SUFFICES ASSUME Plugins!Init
               PROVE  PluginTyped /\ PluginsAgree /\ EnabledAreStarted
    OBVIOUS
  <2>1. PluginTyped
    BY PluginsBeginTyped
  <2>2. Plugins!Loaded(NoPlugin) = "absent"
    BY DEF Plugins!Loaded, Plugins!Complete
  <2>3. PluginsAgree
    BY <2>2 DEF Plugins!Init, PluginsAgree, MemoryFitsDisk, EventsFitMemory
  <2>4. EnabledAreStarted
    BY DEF Plugins!Init, EnabledAreStarted, Plugins!PluginServiceAssumption,
           Plugins!Passes
  <2>5. QED BY <2>1, <2>3, <2>4
<1>2. PluginTyped /\ PluginsAgree /\ EnabledAreStarted
        => Plugins!StatusesAgree /\ Plugins!ExecutedWhileStarted /\ Plugins!TypeOK
  BY DEF Plugins!PluginServiceAssumption, PluginsAgree, MemoryFitsDisk,
         EventsFitMemory, EnabledAreStarted, Plugins!StatusesAgree,
         Plugins!ExecutedWhileStarted, PluginTyped, Plugins!TypeOK,
         CallFitsPlace, Plugins!Places, Plugins!Statuses, Plugins!PluginCalls,
         Plugins!Passes, Plugins!PluginDirectories, Plugins!Files, Plugins!Loaded,
         Plugins!Complete
<1>3. QED
  BY <1>1, <1>2, PluginsStayTyped, AgreementStays, EnabledStayStarted, PTL
     DEF Plugins!Spec

LEMMA PluginsAreTyped ==
  ASSUME Plugins!PluginServiceAssumption
  PROVE  Plugins!Spec => []PluginTyped
<1>1. Plugins!Init => PluginTyped
  BY PluginsBeginTyped
<1>2. QED BY <1>1, PluginsStayTyped, PTL DEF Plugins!Spec

LEMMA DirectoriesStayComplete ==
  ASSUME Plugins!PluginServiceAssumption
  PROVE  Plugins!Spec => Plugins!OnlyRemovalDamages
<1>1. PluginTyped /\ [Plugins!Next]_Plugins!vars =>
        [\A p \in PluginIds :
           dir'[p] # NoPlugin /\ ~Plugins!Complete(dir'[p])
             => dir[p] # NoPlugin /\ (~Plugins!Complete(dir[p])
                                   \/ (kind = "uninstall"
                                        /\ plugin = p))]_Plugins!vars
  <2> SUFFICES ASSUME PluginTyped, [Plugins!Next]_Plugins!vars, NEW p \in PluginIds,
                      dir'[p] # NoPlugin, ~Plugins!Complete(dir'[p])
      PROVE  dir[p] # NoPlugin
               /\ (~Plugins!Complete(dir[p]) \/ (kind = "uninstall" /\ plugin = p))
    OBVIOUS
  <2>1. CASE Plugins!Activate
    BY <2>1
       DEF Plugins!Activate, Plugins!New, Plugins!PluginServiceAssumption,
           PluginTyped, Plugins!TypeOK, CallFitsPlace, Plugins!Places,
           Plugins!Statuses, Plugins!PluginCalls, Plugins!Passes,
           Plugins!PluginDirectories, Plugins!Files, Plugins!Loaded,
           Plugins!Complete
  <2>2. CASE Plugins!Persist
    BY <2>2
       DEF Plugins!Persist, Plugins!PluginServiceAssumption, PluginTyped,
           Plugins!TypeOK, CallFitsPlace, Plugins!Places, Plugins!Statuses,
           Plugins!PluginCalls, Plugins!Passes, Plugins!PluginDirectories,
           Plugins!Files,
           Plugins!Loaded, Plugins!Complete
  <2>3. CASE \E f \in Plugins!Files : Plugins!RemoveFile(f)
    BY <2>3
       DEF Plugins!RemoveFile, Plugins!PluginServiceAssumption, PluginTyped,
           Plugins!TypeOK, CallFitsPlace, Plugins!Places, Plugins!Statuses,
           Plugins!PluginCalls, Plugins!Passes, Plugins!PluginDirectories,
           Plugins!Files,
           Plugins!Loaded, Plugins!Complete
  <2>4. CASE Plugins!RemoveDirectory
    BY <2>4
       DEF Plugins!RemoveDirectory, Plugins!PluginServiceAssumption,
           PluginTyped, Plugins!TypeOK, CallFitsPlace, Plugins!Places,
           Plugins!Statuses, Plugins!PluginCalls, Plugins!Passes,
           Plugins!PluginDirectories, Plugins!Files, Plugins!Loaded,
           Plugins!Complete
  <2>5. CASE dir' = dir
    BY <2>5 DEF Plugins!Complete
  <2>6. QED
    BY <2>1, <2>2, <2>3, <2>4, <2>5
       DEF Plugins!Next, Plugins!Exited, Plugins!vars,
           Plugins!BeginInstall, Plugins!BeginEnable, Plugins!BeginDisable,
           Plugins!BeginUninstall, Plugins!BeginExecute, Plugins!Begin,
           Plugins!Visit, Plugins!Stage, Plugins!ActivateFails,
           Plugins!RecordInstall, Plugins!HookSucceeds, Plugins!HookFails,
           Plugins!PersistFails, Plugins!RecordStatus, Plugins!Publish,
           Plugins!RemoveFails, Plugins!Forget, Plugins!Shutdown,
           Plugins!PassEnds, Plugins!VisitSucceeds, Plugins!VisitFails,
           Plugins!Restart
<1>2. QED
  BY <1>1, PluginsAreTyped, PTL DEF Plugins!Spec, Plugins!OnlyRemovalDamages

-----------------------------------------------------------------------------
(* OfficeProcess.                                                          *)

RunStages == {"idle", "spawned", "waiting", "deregistering", "killing", "joining",
           "returned"}
RunVerdicts == {"none", "exited", "io", "cancelled", "timeout", "output_limit"}
RunResults == RunVerdicts \cup {"ok", "missing_sidecar", "spawn", "non_zero_exit",
                          "crashed", "invalid_json", "version_mismatch"}
StreamStates == Office!ReaderEnds \cup {"none", "reading"}

RunRecords ==
  [command : Commands \cup {"none"}, stage : RunStages,
   child : {"none", "alive", "zero", "nonzero", "signalled"},
   stdout : StreamStates, stderr : StreamStates, applied : Seq(BOOLEAN),
   response : Office!Responses, verdict : RunVerdicts, result : RunResults]

RunsTyped ==
  /\ run \in [Runs -> RunRecords]
  /\ activeChildren \subseteq Runs /\ sweep \subseteq Runs
  /\ runtimeCancelled \subseteq Runs /\ callerCancelled \subseteq Runs

(* The record of one call at each of its stages: its child is gone before  *)
(* its readers are joined, whole streams end with the child, and it has a  *)
(* result when it has returned.                                            *)
StageFits(c) ==
  /\ c.stage = "idle" => c.command = "none"
  /\ c.stage \in {"idle", "spawned"} => c.verdict = "none"
  /\ c.stage \notin {"idle", "returned"} => c.child # "none"
  /\ c.stage = "deregistering" /\ c.verdict = "exited" => c.child # "alive"
  /\ c.stage \in {"idle", "joining", "returned"} => c.child # "alive"
  /\ c.child = "none" <=> c.stdout = "none"
  /\ c.child = "none" <=> c.stderr = "none"
  /\ c.stage # "returned" => c.result = "none"
  /\ c.result = "ok" =>
       /\ c.child = "zero" /\ c.stdout = "whole" /\ c.stderr = "whole"
       /\ c.command = "batch" => c.applied = [i \in 1..BatchLength |-> TRUE]

(* Who may stop a command.                                                 *)
Stoppable(r, command) ==
  \/ r \in callerCancelled /\ command \in Office!CallerCancellable
  \/ r \in runtimeCancelled /\ command \in Office!RuntimeCancellable

RunsInv ==
  /\ \A r \in Runs :
       /\ StageFits(run[r])
       /\ "cancelled" \in {run[r].verdict, run[r].result}
            => Stoppable(r, run[r].command)
  /\ \A r \in activeChildren : run[r].stage \in {"waiting", "deregistering"}
  /\ \A r \in activeChildren \cup sweep \cup runtimeCancelled :
       run[r].command \in Office!RuntimeCancellable

RunFields == {"command", "stage", "child", "stdout", "stderr", "applied",
           "response", "verdict", "result"}

(* What Set does to a call, field by field.                                *)
LEMMA SetFields ==
  ASSUME RunsTyped, NEW r \in Runs, NEW fields, Office!Set(r, fields)
  PROVE  /\ run' = [run EXCEPT ![r] = run'[r]]
         /\ \A q \in Runs \ {r} : run'[q] = run[q]
         /\ run'[r] = [name \in RunFields |-> run'[r][name]]
         /\ \A name \in RunFields :
              run'[r][name] = IF name \in DOMAIN fields THEN fields[name]
                                                        ELSE run[r][name]
<1>1. /\ run \in [Runs -> RunRecords] /\ DOMAIN run[r] = RunFields
  BY DEF RunsTyped, RunRecords, RunFields
<1>2. run' = [run EXCEPT ![r] =
                [name \in RunFields |-> IF name \in DOMAIN fields THEN fields[name]
                                                             ELSE run[r][name]]]
  BY <1>1 DEF Office!Set
<1>3. QED BY <1>1, <1>2

LEMMA SetFieldByField ==
  ASSUME RunsTyped, NEW r \in Runs, NEW fields, Office!Set(r, fields)
  PROVE  /\ \A name \in RunFields \cap DOMAIN fields : run'[r][name] = fields[name]
         /\ \A name \in RunFields \ DOMAIN fields : run'[r][name] = run[r][name]
BY SetFields

(* The types of the fields of a call.                                      *)
CallTyped(c) ==
  /\ c["command"] \in Commands \cup {"none"} /\ c["stage"] \in RunStages
  /\ c["child"] \in {"none", "alive", "zero", "nonzero", "signalled"}
  /\ c["stdout"] \in StreamStates /\ c["stderr"] \in StreamStates
  /\ c["applied"] \in Seq(BOOLEAN) /\ c["response"] \in Office!Responses
  /\ c["verdict"] \in RunVerdicts /\ c["result"] \in RunResults

LEMMA CallsAreTyped ==
  ASSUME RunsTyped, NEW r \in Runs
  PROVE  CallTyped(run[r])
BY DEF RunsTyped, RunRecords, CallTyped

LEMMA CallsFit ==
  ASSUME RunsTyped, RunsInv, NEW r \in Runs
  PROVE  CallTyped(run[r]) /\ StageFits(run[r])
<1>1. StageFits(run[r])
  BY DEF RunsInv
<1>2. QED BY <1>1, CallsAreTyped

LEMMA SetIsTyped ==
  ASSUME RunsTyped, NEW r \in Runs, NEW fields, Office!Set(r, fields),
         CallTyped(run'[r])
  PROVE  run' \in [Runs -> RunRecords]
<1>1. run' = [run EXCEPT ![r] = [name \in RunFields |-> run'[r][name]]]
  BY SetFields
<1>2. [name \in RunFields |-> run'[r][name]] \in RunRecords
  BY DEF RunRecords, RunFields, CallTyped
<1>3. QED BY <1>1, <1>2 DEF RunsTyped

(* One call moves, and its step cancels nobody.                            *)
LEMMA OneCallMoves ==
  ASSUME RunsTyped, RunsInv, NEW r \in Runs, NEW fields, Office!Set(r, fields),
         UNCHANGED Office!tokenVars, CallTyped(run'[r]), StageFits(run'[r]),
         "cancelled" \in {run'[r].verdict, run'[r].result}
           => Stoppable(r, run'[r].command),
         activeChildren' \in {activeChildren, activeChildren \ {r},
                              activeChildren \cup {r}},
         r \in activeChildren' => run'[r].stage \in {"waiting", "deregistering"},
         run'[r].command = run[r].command \/ run[r].stage = "idle",
         r \in activeChildren' \ activeChildren
           => run'[r].command \in Office!RuntimeCancellable
  PROVE  RunsTyped' /\ RunsInv'
<1>1. run[r].stage = "idle" =>
        r \notin activeChildren \cup sweep \cup runtimeCancelled
  BY DEF RunsInv, StageFits, Office!RuntimeCancellable, Office!AllCommands
<1>2. \A q \in Runs \ {r} : run'[q] = run[q]
  BY SetFields
<1>3. \A q \in Runs : q \in activeChildren' \cup sweep' \cup runtimeCancelled'
        => run'[q].command \in Office!RuntimeCancellable
  BY <1>1, <1>2 DEF RunsInv, Office!tokenVars
<1>4. \A q \in Runs : "cancelled" \in {run'[q].verdict, run'[q].result}
        => Stoppable(q, run'[q].command)
  BY <1>2 DEF RunsInv
<1>5. \A q \in Runs : StageFits(run'[q])
  BY <1>2 DEF RunsInv
<1>6. activeChildren' \cup sweep' \cup runtimeCancelled' \subseteq Runs
  BY DEF RunsTyped, Office!tokenVars
<1>7. \A q \in activeChildren' : run'[q].stage \in {"waiting", "deregistering"}
  BY <1>2, <1>6 DEF RunsInv
<1>8. \A q \in Runs : \A command :
        Stoppable(q, command) => Stoppable(q, command)'
  BY DEF Stoppable, Office!tokenVars
<1>9. RunsInv'
  BY <1>3, <1>4, <1>5, <1>6, <1>7, <1>8 DEF RunsInv
<1>10. RunsTyped'
  BY SetIsTyped DEF RunsTyped, Office!tokenVars
<1>11. QED BY <1>9, <1>10

LEMMA SpawnKeepsRuns ==
  ASSUME Office!OfficeProcessAssumption, RunsTyped, RunsInv, NEW r \in Runs,
         NEW command \in Commands, Office!Spawn(r, command)
  PROVE  RunsTyped' /\ RunsInv'
<1>1. Office!Set(r, [command |-> command, stage |-> "spawned", child |-> "alive",
                     stdout |-> "reading", stderr |-> "reading"])
                       /\ run[r].stage = "idle"
  BY DEF Office!Spawn, Office!In
<1>2. /\ run'[r].command = command
      /\ run'[r].stage = "spawned"
      /\ run'[r].child = "alive"
      /\ run'[r].stdout = "reading"
      /\ run'[r].stderr = "reading"
      /\ \A name \in RunFields \ {"command", "stage", "child", "stdout",
           "stderr"} : run'[r][name] = run[r][name]
  <2>1. DOMAIN [command |-> command, stage |-> "spawned", child |-> "alive",
                     stdout |-> "reading", stderr |-> "reading"]
                       = {"command", "stage", "child", "stdout", "stderr"}
    OBVIOUS
  <2>2. QED BY <1>1, <2>1, SetFieldByField DEF RunFields
<1>3. CallTyped(run[r]) /\ StageFits(run[r])
  BY CallsFit
<1>4. CallTyped(run'[r])
  BY <1>1, <1>2, <1>3 DEF CallTyped, RunFields, RunStages, StreamStates
<1>5. StageFits(run'[r])
  BY <1>1, <1>2, <1>3 DEF CallTyped, StageFits, RunFields
<1>6. "cancelled" \in {run'[r].verdict, run'[r].result}
        => Stoppable(r, run'[r].command)
  BY <1>1, <1>2, <1>3 DEF StageFits, RunFields, RunsInv, Stoppable
<1>7. QED
  BY <1>1, <1>2, <1>3, <1>4, <1>5, <1>6, OneCallMoves
     DEF Office!Spawn, RunsInv, RunFields

LEMMA RegisterKeepsRuns ==
  ASSUME Office!OfficeProcessAssumption, RunsTyped, RunsInv, NEW r \in Runs,
         Office!Register(r)
  PROVE  RunsTyped' /\ RunsInv'
<1>1. Office!Set(r, [stage |-> "waiting"]) /\ run[r].stage = "spawned"
  BY DEF Office!Register, Office!In
<1>2. /\ run'[r].stage = "waiting"
      /\ \A name \in RunFields \ {"stage"} : run'[r][name] = run[r][name]
  <2>1. DOMAIN [stage |-> "waiting"] = {"stage"}
    OBVIOUS
  <2>2. QED BY <1>1, <2>1, SetFieldByField DEF RunFields
<1>3. CallTyped(run[r]) /\ StageFits(run[r])
  BY CallsFit
<1>4. CallTyped(run'[r])
  BY <1>1, <1>2, <1>3 DEF CallTyped, RunFields, RunStages
<1>5. StageFits(run'[r])
  BY <1>1, <1>2, <1>3 DEF CallTyped, StageFits, RunFields
<1>6. "cancelled" \in {run'[r].verdict, run'[r].result}
        => Stoppable(r, run'[r].command)
  BY <1>1, <1>2, <1>3 DEF StageFits, RunFields, RunsInv, Stoppable
<1>7. QED
  BY <1>1, <1>2, <1>3, <1>4, <1>5, <1>6, OneCallMoves
     DEF Office!Register, RunsInv, RunFields

LEMMA DeregisterKeepsRuns ==
  ASSUME Office!OfficeProcessAssumption, RunsTyped, RunsInv, NEW r \in Runs,
         Office!Deregister(r)
  PROVE  RunsTyped' /\ RunsInv'
<1>1. Office!Set(r,
        [stage |-> IF run[r].verdict = "exited" THEN "joining" ELSE "killing"])
          /\ run[r].stage = "deregistering"
  BY DEF Office!Deregister, Office!In
<1>2. /\ run'[r].stage = IF run[r].verdict = "exited" THEN "joining" ELSE "killing"
      /\ \A name \in RunFields \ {"stage"} : run'[r][name] = run[r][name]
  <2>1. DOMAIN [stage |-> IF run[r].verdict = "exited"
          THEN "joining" ELSE "killing"] = {"stage"}
    OBVIOUS
  <2>2. QED BY <1>1, <2>1, SetFieldByField DEF RunFields
<1>3. CallTyped(run[r]) /\ StageFits(run[r])
  BY CallsFit
<1>4. CallTyped(run'[r])
  BY <1>1, <1>2, <1>3 DEF CallTyped, RunFields, RunStages
<1>5. StageFits(run'[r])
  BY <1>1, <1>2, <1>3 DEF CallTyped, StageFits, RunFields
<1>6. "cancelled" \in {run'[r].verdict, run'[r].result}
        => Stoppable(r, run'[r].command)
  BY <1>1, <1>2, <1>3 DEF StageFits, RunFields, RunsInv, Stoppable
<1>7. QED
  BY <1>1, <1>2, <1>3, <1>4, <1>5, <1>6, OneCallMoves
     DEF Office!Deregister, RunsInv, RunFields

LEMMA KillKeepsRuns ==
  ASSUME Office!OfficeProcessAssumption, RunsTyped, RunsInv, NEW r \in Runs,
         Office!Kill(r)
  PROVE  RunsTyped' /\ RunsInv'
<1>0. PICK gone :
             gone = IF run[r].child = "alive" THEN "signalled" ELSE run[r].child
  OBVIOUS
<1>1. Office!Set(r, [stage |-> "joining",
             child |-> gone]) /\ run[r].stage = "killing"
  BY <1>0 DEF Office!Kill, Office!In
<1>2. /\ run'[r].stage = "joining"
      /\ run'[r].child = gone
      /\ \A name \in RunFields \ {"stage", "child"} : run'[r][name] = run[r][name]
  <2>1. DOMAIN [stage |-> "joining",
             child |-> gone] = {"stage", "child"}
    OBVIOUS
  <2>2. QED BY <1>1, <2>1, SetFieldByField DEF RunFields
<1>3. CallTyped(run[r]) /\ StageFits(run[r])
  BY CallsFit
<1>4. CallTyped(run'[r])
  BY <1>0, <1>1, <1>2, <1>3 DEF CallTyped, RunFields, RunStages
<1>5. StageFits(run'[r])
  BY <1>0, <1>1, <1>2, <1>3 DEF CallTyped, StageFits, RunFields
<1>6. "cancelled" \in {run'[r].verdict, run'[r].result}
        => Stoppable(r, run'[r].command)
  BY <1>0, <1>1, <1>2, <1>3 DEF StageFits, RunFields, RunsInv, Stoppable
<1>7. QED
  BY <1>0, <1>1, <1>2, <1>3, <1>4, <1>5, <1>6, OneCallMoves
     DEF Office!Kill, RunsInv, RunFields

LEMMA ReturnKeepsRuns ==
  ASSUME Office!OfficeProcessAssumption, RunsTyped, RunsInv, NEW r \in Runs,
         Office!Return(r)
  PROVE  RunsTyped' /\ RunsInv'
<1>1. Office!Set(r, [stage |-> "returned", result |-> Office!Outcome(r)])
        /\ run[r].stage = "joining"
  BY DEF Office!Return, Office!In
<1>2. /\ run'[r].stage = "returned"
      /\ run'[r].result = Office!Outcome(r)
      /\ \A name \in RunFields \ {"stage", "result"} : run'[r][name] = run[r][name]
  <2>1. DOMAIN [stage |-> "returned", result |-> Office!Outcome(r)]
          = {"stage", "result"}
    OBVIOUS
  <2>2. QED BY <1>1, <2>1, SetFieldByField DEF RunFields
<1>3. CallTyped(run[r]) /\ StageFits(run[r])
  BY CallsFit
<1>4. CallTyped(run'[r])
  <2>1. Office!Outcome(r) \in RunResults
    BY <1>3
       DEF Office!Outcome, Office!Validate, Office!ValidateBatch,
           Office!ValidateData, Office!ValidateEnvelope,
           Office!ValidateVersion, CallTyped, RunResults, RunVerdicts
  <2>2. QED BY <1>1, <1>2, <1>3, <2>1 DEF CallTyped, RunFields, RunStages
<1>5. StageFits(run'[r])
  <2>1. ASSUME Office!Outcome(r) = "ok"
        PROVE  /\ run[r].child = "zero"
               /\ run[r].stdout = "whole" /\ run[r].stderr = "whole"
               /\ run[r].verdict = "exited" /\ Office!Validate(r) = "ok"
    BY <1>1, <1>3, <2>1
       DEF Office!Outcome, StageFits, CallTyped, StreamStates,
           Office!ReaderEnds, RunVerdicts, Office!Return
  <2>2. ASSUME Office!Outcome(r) = "ok", run[r].command = "batch"
        PROVE  run[r].applied = [i \in 1..BatchLength |-> TRUE]
    <3>1. Len(run[r].applied) = BatchLength
            /\ FALSE \notin Office!Range(run[r].applied)
      BY <2>1, <2>2 DEF Office!Validate, Office!ValidateBatch
    <3>2. \A i \in 1..BatchLength : i \in DOMAIN run[r].applied
      BY <1>3, <3>1 DEF CallTyped, Office!OfficeProcessAssumption
    <3>3. \A i \in DOMAIN run[r].applied : run[r].applied[i] \in BOOLEAN
      BY <1>3 DEF CallTyped
    <3>4. \A i \in DOMAIN run[r].applied : run[r].applied[i] # FALSE
      BY <3>1, Zenon DEF Office!Range
    <3>5. \A i \in 1..BatchLength : run[r].applied[i] = TRUE
      BY <3>2, <3>3, <3>4, Zenon
    <3>6. run[r].applied = [i \in 1..BatchLength |-> run[r].applied[i]]
      BY <1>3, <3>1 DEF CallTyped
    <3>7. [i \in 1..BatchLength |-> run[r].applied[i]]
            = [i \in 1..BatchLength |-> TRUE]
      BY <3>5, Zenon
    <3>8. QED BY <3>6, <3>7, Zenon
  <2>3. QED BY <1>1, <1>2, <1>3, <2>1, <2>2 DEF StageFits, RunFields
<1>6. "cancelled" \in {run'[r].verdict, run'[r].result}
        => Stoppable(r, run'[r].command)
  <2>1. Office!Outcome(r) = "cancelled" => run[r].verdict = "cancelled"
    BY DEF Office!Outcome, Office!Validate, Office!ValidateBatch,
           Office!ValidateData, Office!ValidateEnvelope, Office!ValidateVersion
  <2>2. QED
    BY <1>1, <1>2, <1>3, <2>1
       DEF StageFits, RunFields, RunsInv, Stoppable
<1>7. QED
  BY <1>1, <1>2, <1>3, <1>4, <1>5, <1>6, OneCallMoves
     DEF Office!Return, RunsInv, RunFields

LEMMA ReadKeepsRuns ==
  ASSUME Office!OfficeProcessAssumption, RunsTyped, RunsInv, NEW r \in Runs,
         NEW stream \in Office!Streams, NEW end \in Office!ReaderEnds,
           Office!Read(r, stream, end)
  PROVE  RunsTyped' /\ RunsInv'
<1>1. Office!Set(r, [name \in {stream} |-> end]) /\ run[r][stream] = "reading"
        /\ (end = "whole" => run[r].child # "alive")
  BY DEF Office!Read, Office!In, Office!Streams
<1>2. /\ run'[r][stream] = end
      /\ \A name \in RunFields \ {stream} : run'[r][name] = run[r][name]
  <2>1. /\ DOMAIN [name \in {stream} |-> end] = {stream} /\ stream \in RunFields
        /\ [name \in {stream} |-> end][stream] = end
    BY DEF Office!Streams, RunFields
  <2>2. QED BY <1>1, <2>1, SetFieldByField DEF RunFields, Office!Streams
<1>3. CallTyped(run[r]) /\ StageFits(run[r])
  BY CallsFit
<1>4. CallTyped(run'[r])
  BY <1>1, <1>2, <1>3 DEF CallTyped, RunFields, Office!Streams, StreamStates
<1>5. StageFits(run'[r])
  BY <1>1, <1>2, <1>3
     DEF CallTyped, StageFits, RunFields, Office!ReaderEnds, Office!Streams
<1>6. "cancelled" \in {run'[r].verdict, run'[r].result}
        => Stoppable(r, run'[r].command)
  BY <1>1, <1>2, <1>3
     DEF StageFits, RunFields, RunsInv, Stoppable, Office!Streams
<1>7. QED
  BY <1>1, <1>2, <1>3, <1>4, <1>5, <1>6, OneCallMoves
     DEF Office!Read, RunsInv, RunFields, Office!Streams

LEMMA ApplyKeepsRuns ==
  ASSUME Office!OfficeProcessAssumption, RunsTyped, RunsInv, NEW r \in Runs,
         NEW succeeds \in BOOLEAN, Office!Apply(r, succeeds)
  PROVE  RunsTyped' /\ RunsInv'
<1>1. Office!Set(r, [applied |-> Append(run[r].applied, succeeds)])
        /\ run[r].child = "alive"
  BY DEF Office!Apply, Office!In
<1>2. /\ run'[r].applied = Append(run[r].applied, succeeds)
      /\ \A name \in RunFields \ {"applied"} : run'[r][name] = run[r][name]
  <2>1. DOMAIN [applied |-> Append(run[r].applied, succeeds)] = {"applied"}
    OBVIOUS
  <2>2. QED BY <1>1, <2>1, SetFieldByField DEF RunFields
<1>3. CallTyped(run[r]) /\ StageFits(run[r])
  BY CallsFit
<1>4. CallTyped(run'[r])
  <2>1. run[r].applied \in Seq(BOOLEAN)
    BY <1>3 DEF CallTyped
  <2>2. Append(run[r].applied, succeeds) \in Seq(BOOLEAN)
    BY <2>1, AppendProperties, Zenon
  <2>3. QED BY <1>1, <1>2, <1>3, <2>2 DEF CallTyped, RunFields
<1>5. StageFits(run'[r])
  BY <1>1, <1>2, <1>3 DEF CallTyped, StageFits, RunFields
<1>6. "cancelled" \in {run'[r].verdict, run'[r].result}
        => Stoppable(r, run'[r].command)
  BY <1>1, <1>2, <1>3 DEF StageFits, RunFields, RunsInv, Stoppable
<1>7. QED
  BY <1>1, <1>2, <1>3, <1>4, <1>5, <1>6, OneCallMoves
     DEF Office!Apply, RunsInv, RunFields

LEMMA ChildExitsKeepsRuns ==
  ASSUME Office!OfficeProcessAssumption, RunsTyped, RunsInv, NEW r \in Runs,
         NEW exit \in {"zero", "nonzero", "signalled"},
         NEW response \in Office!Responses, Office!ChildExits(r, exit, response)
  PROVE  RunsTyped' /\ RunsInv'
<1>1. Office!Set(r, [child |-> exit, response |-> response])
        /\ run[r].child = "alive"
  BY DEF Office!ChildExits, Office!In
<1>2. /\ run'[r].child = exit
      /\ run'[r].response = response
      /\ \A name \in RunFields \ {"child", "response"} :
           run'[r][name] = run[r][name]
  <2>1. DOMAIN [child |-> exit, response |-> response] = {"child", "response"}
    OBVIOUS
  <2>2. QED BY <1>1, <2>1, SetFieldByField DEF RunFields
<1>3. CallTyped(run[r]) /\ StageFits(run[r])
  BY CallsFit
<1>4. CallTyped(run'[r])
  BY <1>1, <1>2, <1>3 DEF CallTyped, RunFields
<1>5. StageFits(run'[r])
  BY <1>1, <1>2, <1>3 DEF CallTyped, StageFits, RunFields
<1>6. "cancelled" \in {run'[r].verdict, run'[r].result}
        => Stoppable(r, run'[r].command)
  BY <1>1, <1>2, <1>3 DEF StageFits, RunFields, RunsInv, Stoppable
<1>7. QED
  BY <1>1, <1>2, <1>3, <1>4, <1>5, <1>6, OneCallMoves
     DEF Office!ChildExits, RunsInv, RunFields

LEMMA DecideKeepsRuns ==
  ASSUME Office!OfficeProcessAssumption, RunsTyped, RunsInv, NEW r \in Runs,
         Office!Decide(r)
  PROVE  RunsTyped' /\ RunsInv'
<1>1. PICK verdict \in Office!Ready(r) :
             Office!Set(r, [stage |-> "deregistering", verdict |-> verdict])
  BY DEF Office!Decide
<1>2. /\ run'[r].stage = "deregistering" /\ run'[r].verdict = verdict
      /\ \A name \in RunFields \ {"stage", "verdict"} : run'[r][name] = run[r][name]
  <2>1. DOMAIN [stage |-> "deregistering", verdict |-> verdict]
          = {"stage", "verdict"}
    OBVIOUS
  <2>2. QED BY <1>1, <2>1, SetFieldByField DEF RunFields
<1>3. CallTyped(run[r]) /\ StageFits(run[r]) /\ run[r].stage = "waiting"
  BY CallsFit DEF Office!Decide, Office!In
<1>4. /\ verdict \in RunVerdicts \ {"none"}
      /\ verdict = "exited" => run[r].child # "alive"
      /\ verdict = "cancelled" => Stoppable(r, run[r].command)
  BY <1>1 DEF Office!Ready, RunVerdicts, Stoppable, RunsInv
<1>5. CallTyped(run'[r])
  BY <1>2, <1>3, <1>4 DEF CallTyped, RunFields, RunStages
<1>6. StageFits(run'[r])
  BY <1>2, <1>3, <1>4 DEF CallTyped, StageFits, RunFields
<1>7. "cancelled" \in {run'[r].verdict, run'[r].result}
        => Stoppable(r, run'[r].command)
  BY <1>2, <1>3, <1>4 DEF StageFits, RunFields
<1>8. QED
  BY <1>1, <1>2, <1>3, <1>5, <1>6, <1>7, OneCallMoves
     DEF Office!Decide, RunFields

LEMMA StartFailsKeepsRuns ==
  ASSUME Office!OfficeProcessAssumption, RunsTyped, RunsInv, NEW r \in Runs,
         NEW command \in Commands, Office!StartFails(r, command)
  PROVE  RunsTyped' /\ RunsInv'
<1>1. PICK result \in {"cancelled", "output_limit", "missing_sidecar", "spawn"} :
        /\ result = "cancelled"
             => command \in Office!CallerCancellable /\ r \in callerCancelled
        /\ Office!Set(r,
             [command |-> command, stage |-> "returned", result |-> result])
  BY DEF Office!StartFails
<1>2. /\ run'[r].command = command /\ run'[r].stage = "returned"
      /\ run'[r].result = result
      /\ \A name \in RunFields \ {"command", "stage", "result"} :
           run'[r][name] = run[r][name]
  <2>1. DOMAIN [command |-> command, stage |-> "returned", result |-> result]
          = {"command", "stage", "result"}
    OBVIOUS
  <2>2. QED BY <1>1, <2>1, SetFieldByField DEF RunFields
<1>3. CallTyped(run[r]) /\ StageFits(run[r]) /\ run[r].stage = "idle"
  BY CallsFit DEF Office!StartFails, Office!In
<1>4. CallTyped(run'[r])
  BY <1>1, <1>2, <1>3
     DEF CallTyped, RunFields, RunStages, RunResults, RunVerdicts
<1>5. StageFits(run'[r])
  BY <1>1, <1>2, <1>3 DEF CallTyped, StageFits, RunFields
<1>6. "cancelled" \in {run'[r].verdict, run'[r].result}
        => Stoppable(r, run'[r].command)
  BY <1>1, <1>2, <1>3 DEF StageFits, RunFields, Stoppable
<1>7. QED
  BY <1>1, <1>2, <1>3, <1>4, <1>5, <1>6, OneCallMoves
     DEF Office!StartFails, RunsInv, RunFields

(* Cancelling reaches calls, and changes none.                             *)
LEMMA CancellingKeepsRuns ==
  ASSUME RunsTyped, RunsInv,
         \/ Office!CancelAll
         \/ \E r \in Runs : Office!CallerCancels(r) \/ Office!CancelNext(r)
         \/ UNCHANGED Office!vars
  PROVE  RunsTyped' /\ RunsInv'
<1>1. /\ UNCHANGED <<run, activeChildren>>
      /\ sweep' \subseteq sweep \cup activeChildren
      /\ runtimeCancelled \subseteq runtimeCancelled'
      /\ runtimeCancelled' \subseteq runtimeCancelled \cup sweep
      /\ callerCancelled \subseteq callerCancelled'
      /\ callerCancelled' \subseteq Runs
  BY DEF Office!CancelAll, Office!CallerCancels, Office!CancelNext, RunsTyped,
         Office!vars, Office!tokenVars
<1>2. QED BY <1>1 DEF RunsTyped, RunsInv, Stoppable

LEMMA RunsInvariant ==
  ASSUME Office!OfficeProcessAssumption
  PROVE  Office!Spec => [](RunsTyped /\ RunsInv)
<1>1. Office!Init => RunsTyped /\ RunsInv
  <2> SUFFICES ASSUME Office!Init PROVE RunsTyped /\ RunsInv
    OBVIOUS
  <2>1. Office!Unstarted \in RunRecords
    BY DEF Office!Unstarted, RunRecords, RunStages, StreamStates,
           Office!Responses, RunVerdicts, RunResults
  <2>2. StageFits(Office!Unstarted)
    BY DEF Office!Unstarted, StageFits
  <2>3. QED BY <2>1, <2>2 DEF Office!Init, RunsTyped, RunsInv, Office!Unstarted
<1>2. RunsTyped /\ RunsInv /\ [Office!Next]_Office!vars => RunsTyped' /\ RunsInv'
  BY SpawnKeepsRuns, RegisterKeepsRuns, DeregisterKeepsRuns, KillKeepsRuns,
     ReturnKeepsRuns, ReadKeepsRuns, ApplyKeepsRuns, ChildExitsKeepsRuns,
     DecideKeepsRuns, StartFailsKeepsRuns, CancellingKeepsRuns
     DEF Office!Next, Office!Proceed, Office!Program
<1>3. QED BY <1>1, <1>2, PTL DEF Office!Spec

LEMMA RunsAreRight == RunsTyped /\ RunsInv => Office!TypeOK /\ Office!RunsEndCleanly
<1> SUFFICES ASSUME RunsTyped, RunsInv PROVE Office!TypeOK /\ Office!RunsEndCleanly
  OBVIOUS
<1>1. Office!TypeOK
  BY CallsAreTyped
     DEF RunsTyped, Office!TypeOK, CallTyped, RunStages, StreamStates,
         RunVerdicts
<1>2. Office!RunsEndCleanly
  BY DEF Office!RunsEndCleanly, RunsInv, StageFits, Office!In, Stoppable,
         RunsTyped
<1>3. QED BY <1>1, <1>2

-----------------------------------------------------------------------------
(* PluginPackage.                                                          *)

(* The cardinality that a service's module means is the one the theorems   *)
(* about finite sets mean.                                                 *)
LEMMA PackagesCardinality ==
  /\ \A S : Packages!IsFiniteSet(S) <=> IsFiniteSet(S)
  /\ \A S : Packages!Cardinality(S) = Cardinality(S)
BY DEF Packages!IsFiniteSet, Packages!Cardinality, IsFiniteSet, Cardinality

TypedFile(m) == /\ m.kind = "manifest" /\ Packages!ValidManifest(m)
                /\ m.rewritten \in Nat \ {0}
                /\ m.commands \in Seq(Packages!Range(m.commands))

(* A managed directory with the files that install has written.            *)
Managed(manifest, module, standing, installedAt, updatedAt) ==
  [kind |-> "directory",
    manifest |-> Packages!Regular(manifest.rewritten, manifest),
   module |-> module,
   state |-> Packages!Regular(1, Packages!State(standing, installedAt, updatedAt))]

(* A managed directory is what install has written, but for a state that   *)
(* has been written since and a module that may have been replaced.        *)
DirectoryFits(d) ==
  LET m == d.manifest.content
      s == d.state.content
  IN  /\ d = Managed(m, d.module, s.status, s.installedAt, s.updatedAt)
      /\ TypedFile(m)
      /\ Packages!ReadRegularFile(d.module, MaxModule) = "ok"
      /\ s.status \in {"disabled", "enabled"}
      /\ s.installedAt \in Nat /\ s.updatedAt \in Nat
      /\ s.updatedAt >= s.installedAt

ExportsFit(d) ==
  \A export \in Packages!Exports(d.manifest.content) :
    Packages!TypedExport(d.module.content, export)

PackagesInv ==
  /\ packages = [id \in Ids |-> packages[id]]
  /\ directory = [id \in Ids |-> directory[id]]
  /\ now \in Times /\ replaced \subseteq Ids
  /\ \A id \in Ids :
       /\ directory[id] # Packages!None =>
            /\ DirectoryFits(directory[id])
            /\ directory[id].manifest.content.id = id
            /\ id \notin replaced => ExportsFit(directory[id])
       /\ packages[id] # Packages!None =>
            directory[id] # Packages!None
              /\ packages[id] = Packages!Snapshot(directory[id])

LEMMA ManagedDirectories ==
  ASSUME NEW m, NEW module, NEW standing, NEW installedAt, NEW updatedAt
  PROVE  LET d == Managed(m, module, standing, installedAt, updatedAt)
         IN  /\ d.manifest = Packages!Regular(m.rewritten, m)
             /\ d.manifest.content = m
             /\ d.module = module
             /\ d.state = Packages!Regular(1,
                  Packages!State(standing, installedAt, updatedAt))
             /\ d.state.content.status = standing
             /\ d.state.content.installedAt = installedAt
             /\ d.state.content.updatedAt = updatedAt
             /\ d # Packages!None
             /\ Packages!Snapshot(d)
                  = Packages!SnapshotOf(m, standing, installedAt, updatedAt)
             /\ Packages!Snapshot(d) # Packages!None
BY DEF Managed, Packages!Regular, Packages!State, Packages!None,
       Packages!Snapshot, Packages!SnapshotOf

LEMMA ManagedFit ==
  ASSUME NEW m, TypedFile(m), NEW module,
         Packages!ReadRegularFile(module, MaxModule) = "ok",
         NEW standing \in {"disabled", "enabled"},
         NEW installedAt \in Nat, NEW updatedAt \in Nat, updatedAt >= installedAt
  PROVE  DirectoryFits(Managed(m, module, standing, installedAt, updatedAt))
<1> DEFINE d == Managed(m, module, standing, installedAt, updatedAt)
<1>1. /\ d.manifest.content = m /\ d.module = module
      /\ d.state.content.status = standing
      /\ d.state.content.installedAt = installedAt
      /\ d.state.content.updatedAt = updatedAt
  BY ManagedDirectories
<1>2. d = Managed(m, module, standing, installedAt, updatedAt)
  OBVIOUS
<1> HIDE DEF d
<1>3. DirectoryFits(d)
  BY <1>1, <1>2 DEF DirectoryFits
<1>4. QED BY <1>3 DEF d

LEMMA PackageConstants ==
  ASSUME Packages!PluginPackageAssumption
  PROVE  /\ MaxManifest \in Nat \ {0} /\ MaxModule \in Nat \ {0}
         /\ Times \subseteq Nat
         /\ \A content : \A length \in Nat \ {0}, limit \in Nat \ {0} :
              Packages!ReadRegularFile(Packages!Regular(length, content), limit)
                = "ok" <=> length <= limit
<1>1. ASSUME NEW length \in Nat \ {0}, NEW limit \in Nat \ {0}, NEW content
      PROVE  Packages!ReadRegularFile(Packages!Regular(length, content), limit)
               = "ok" <=> length <= limit
  BY DEF Packages!ReadRegularFile, Packages!Regular
<1>2. QED
  BY <1>1
     DEF Packages!PluginPackageAssumption, Packages!PluginManifestAssumption

(* The time of a change lies in no installed snapshot's future.            *)
LEMMA TheTimeOfAChange ==
  ASSUME NEW snapshot, snapshot.installedAt \in Nat, snapshot.updatedAt \in Nat,
         now \in Nat
  PROVE  /\ Packages!NextUpdatedAt(snapshot) \in Nat
         /\ Packages!NextUpdatedAt(snapshot) >= snapshot.installedAt
<1> DEFINE S == {now, snapshot.installedAt, snapshot.updatedAt}
<1>1. \E x \in S : \A y \in S : x >= y
  OBVIOUS
<1>2. Packages!NextUpdatedAt(snapshot) \in S
        /\ \A y \in S : Packages!NextUpdatedAt(snapshot) >= y
  BY <1>1 DEF Packages!NextUpdatedAt, Packages!Max
<1>3. QED BY <1>2

(* A directory that is complete loads, unless its manifest has outgrown    *)
(* the limit or its clock stood at the epoch.                              *)
LEMMA FittingLoads ==
  ASSUME Packages!PluginPackageAssumption, NEW d, DirectoryFits(d)
  PROVE  Packages!Loads(d) <=> /\ d.manifest.content.rewritten <= MaxManifest
                      /\ d.state.content.installedAt # 0
<1> DEFINE m == d.manifest.content
           s == d.state.content
<1>1. /\ d = Managed(m, d.module, s.status, s.installedAt, s.updatedAt)
      /\ TypedFile(m) /\ Packages!ReadRegularFile(d.module, MaxModule) = "ok"
      /\ s.updatedAt >= s.installedAt
  BY DEF DirectoryFits
<1>2. /\ d.manifest = Packages!Regular(m.rewritten, m) /\ d # Packages!None
      /\ d.state = Packages!Regular(1,
           Packages!State(s.status, s.installedAt, s.updatedAt))
  <2> HIDE DEF m, s
  <2>1. QED BY <1>1, ManagedDirectories
<1>3. m.rewritten \in Nat \ {0} /\ m.kind = "manifest" /\ Packages!ValidManifest(m)
  BY <1>1 DEF TypedFile
<1>4. Packages!ReadRegularFile(d.manifest, MaxManifest) = "ok"
        <=> m.rewritten <= MaxManifest
  BY <1>2, <1>3, PackageConstants
<1>5. Packages!ReadRegularFile(d.state, MaxManifest) = "ok"
  BY <1>2, PackageConstants
<1>6. Packages!ParsesAs(d.manifest, "manifest")
  BY <1>3 DEF Packages!ParsesAs
<1>7. QED BY <1>1, <1>2, <1>3, <1>4, <1>5, <1>6 DEF Packages!Loads

(* What install accepts.                                                   *)
LEMMA AcceptedPackages ==
  ASSUME Packages!PluginPackageAssumption, NEW package \in PackageFiles,
         Packages!Refusal(package) = "ok"
  PROVE  LET m == package.manifest.content
         IN  /\ TypedFile(m)
             /\ Packages!ReadRegularFile(package.module, MaxModule) = "ok"
             /\ \A export \in Packages!Exports(m) :
                  Packages!TypedExport(package.module.content, export)
             /\ m.id \in Ids
<1> DEFINE m == package.manifest.content
<1>1. /\ Packages!ParsesAs(package.manifest, "manifest")
      /\ Packages!ValidManifest(m)
      /\ Packages!ReadRegularFile(package.module, MaxModule) = "ok"
      /\ Packages!Validate(package.module.content, m)
  BY DEF Packages!Refusal
<1>2. m.kind = "manifest"
  BY <1>1 DEF Packages!ParsesAs
<1>3. m.commands \in Seq(Packages!Range(m.commands)) /\ m.rewritten \in Nat \ {0}
  BY <1>1 DEF Packages!PluginPackageAssumption
<1>4. QED
  BY <1>1, <1>2, <1>3 DEF TypedFile, Packages!Validate, Packages!ValidManifest

(* The plugins whose record and directory a step leaves alone.             *)
PackageFits(id) ==
  /\ directory[id] # Packages!None =>
       /\ DirectoryFits(directory[id]) /\ directory[id].manifest.content.id = id
       /\ id \notin replaced => ExportsFit(directory[id])
  /\ packages[id] # Packages!None =>
       directory[id] # Packages!None
         /\ packages[id] = Packages!Snapshot(directory[id])

(* A directory whose state is written anew.                                *)
LEMMA AWrittenStateFits ==
  ASSUME Packages!PluginPackageAssumption, NEW id \in Ids, PackageFits(id),
         directory[id] # Packages!None,
         now \in Times, NEW standing \in {"disabled", "enabled"}
  PROVE  LET snapshot == Packages!Changed(Packages!Snapshot(directory[id]),
           standing)
             new == Packages!Written(directory[id], snapshot)
         IN  /\ new # Packages!None /\ DirectoryFits(new)
             /\ new.manifest.content.id = id
             /\ id \notin replaced => ExportsFit(new)
             /\ Packages!Snapshot(new) = snapshot
<1> DEFINE d == directory[id]
           m == d.manifest.content
           s == d.state.content
           at == Packages!NextUpdatedAt(Packages!Snapshot(d))
           snapshot == Packages!Changed(Packages!Snapshot(d), standing)
           new == Managed(m, d.module, standing, s.installedAt, at)
<1>1. /\ d = Managed(m, d.module, s.status, s.installedAt, s.updatedAt)
      /\ TypedFile(m) /\ Packages!ReadRegularFile(d.module, MaxModule) = "ok"
      /\ s.installedAt \in Nat /\ s.updatedAt \in Nat
      /\ m.id = id /\ (id \notin replaced => ExportsFit(d))
  BY DEF PackageFits, DirectoryFits
<1>2. d.manifest = Packages!Regular(m.rewritten, m)
  <2> HIDE DEF m, s
  <2>1. QED BY <1>1, ManagedDirectories
<1>3. at \in Nat /\ at >= s.installedAt
  <2>1. now \in Nat
    BY PackageConstants
  <2>2. Packages!Snapshot(d).installedAt = s.installedAt
          /\ Packages!Snapshot(d).updatedAt = s.updatedAt
    BY DEF Packages!Snapshot, Packages!SnapshotOf
  <2>3. QED BY <1>1, <2>1, <2>2, TheTimeOfAChange
<1>4. snapshot = Packages!SnapshotOf(m, standing, s.installedAt, at)
  BY DEF Packages!Changed, Packages!Snapshot, Packages!SnapshotOf
<1> HIDE DEF at, snapshot
<1>5. Packages!Written(d, snapshot) = new
  BY <1>2, <1>4 DEF Packages!Written, Managed, Packages!SnapshotOf
<1> HIDE DEF m, s, new
<1>6. DirectoryFits(new)
  BY <1>1, <1>3, ManagedFit DEF new
<1>7. /\ new # Packages!None /\ new.manifest.content = m /\ new.module = d.module
      /\ Packages!Snapshot(new)
           = Packages!SnapshotOf(m, standing, s.installedAt, at)
  BY ManagedDirectories DEF new
<1>8. ExportsFit(d) => ExportsFit(new)
  BY <1>7 DEF ExportsFit, m
<1>9. QED BY <1>1, <1>4, <1>5, <1>6, <1>7, <1>8 DEF snapshot

PackagesShaped ==
  /\ packages = [id \in Ids |-> packages[id]]
  /\ directory = [id \in Ids |-> directory[id]]
  /\ now \in Times /\ replaced \subseteq Ids

LEMMA WritingFits ==
  ASSUME Packages!PluginPackageAssumption, PackagesShaped, NEW id \in Ids,
         PackageFits(id),
         packages[id] # Packages!None, NEW standing \in {"disabled", "enabled"},
         Packages!WriteState(id, standing), UNCHANGED <<now, replaced>>
  PROVE  /\ PackagesShaped' /\ PackageFits(id)'
         /\ \A other \in Ids : other # id => /\ packages'[other] = packages[other]
                                             /\ directory'[other] = directory[other]
<1> DEFINE snapshot == Packages!Changed(Packages!Snapshot(directory[id]), standing)
           new == Packages!Written(directory[id], snapshot)
<1>1. directory[id] # Packages!None
        /\ packages[id] = Packages!Snapshot(directory[id])
  BY DEF PackageFits
<1>2. /\ packages' = [packages EXCEPT ![id] = snapshot]
      /\ directory' = [directory EXCEPT ![id] = new]
  BY <1>1 DEF Packages!WriteState
<1>3. /\ new # Packages!None /\ DirectoryFits(new) /\ new.manifest.content.id = id
      /\ id \notin replaced => ExportsFit(new)
      /\ Packages!Snapshot(new) = snapshot
  BY <1>1, AWrittenStateFits DEF PackagesShaped
<1> HIDE DEF snapshot, new
<1>4. /\ packages'[id] = snapshot /\ directory'[id] = new
      /\ packages' = [i \in Ids |-> packages'[i]]
      /\ directory' = [i \in Ids |-> directory'[i]]
      /\ \A other \in Ids : other # id => /\ packages'[other] = packages[other]
                                          /\ directory'[other] = directory[other]
  BY <1>2 DEF PackagesShaped
<1>5. QED BY <1>3, <1>4 DEF PackageFits, PackagesShaped

LEMMA PackagesInvKept ==
  ASSUME Packages!PluginPackageAssumption, PackagesInv,
         [Packages!Next]_Packages!vars
  PROVE  PackagesInv'
<1>0. PackagesShaped /\ \A id \in Ids : PackageFits(id)
  BY DEF PackagesInv, PackagesShaped, PackageFits
<1>1. SUFFICES PackagesShaped' /\ \A id \in Ids : PackageFits(id)'
  BY DEF PackagesInv, PackagesShaped, PackageFits
<1>2. ASSUME NEW id \in Ids, packages'[id] = packages[id],
             directory'[id] = directory[id],
             id \in replaced' <=> id \in replaced
      PROVE  PackageFits(id)'
  BY <1>0, <1>2 DEF PackageFits
<1>3. ASSUME UNCHANGED <<packages, directory, replaced>>, now' \in Times
      PROVE  PackagesShaped' /\ \A id \in Ids : PackageFits(id)'
  BY <1>0, <1>2, <1>3 DEF PackagesShaped
<1>4. ASSUME NEW package \in PackageFiles, Packages!Install(package)
      PROVE  PackagesShaped' /\ \A id \in Ids : PackageFits(id)'
  <2> DEFINE m == package.manifest.content
             d == Managed(m, package.module, "disabled", now, now)
  <2>1. /\ TypedFile(m)
        /\ Packages!ReadRegularFile(package.module, MaxModule) = "ok"
        /\ m.id \in Ids
        /\ \A export \in Packages!Exports(m) :
             Packages!TypedExport(package.module.content, export)
    BY <1>4, AcceptedPackages DEF Packages!Install
  <2>2. now \in Nat
    BY <1>0, PackageConstants DEF PackagesShaped
  <2>3. DirectoryFits(d)
    BY <2>1, <2>2, ManagedFit
  <2>4. d.manifest.content = m /\ d.module = package.module
          /\ Packages!Snapshot(d) # Packages!None
    BY ManagedDirectories
  <2>5. /\ directory' = [directory EXCEPT ![m.id] = d]
        /\ packages' = [packages EXCEPT ![m.id] = Packages!Snapshot(d)]
        /\ replaced' = replaced \ {m.id} /\ now' = now
    BY <1>4 DEF Packages!Install, Managed
  <2> HIDE DEF d, m
  <2>6. PackageFits(m.id)'
    <3>1. directory'[m.id] = d /\ packages'[m.id] = Packages!Snapshot(d)
      BY <1>0, <2>1, <2>5 DEF PackagesShaped
    <3>2. ExportsFit(d)
      BY <2>1, <2>4 DEF ExportsFit
    <3>3. d # Packages!None
      BY ManagedDirectories DEF d
    <3>4. QED BY <2>3, <2>4, <3>1, <3>2, <3>3 DEF PackageFits
  <2>7. \A id \in Ids : id # m.id => PackageFits(id)'
    BY <1>0, <1>2, <2>5 DEF PackagesShaped
  <2>8. QED BY <1>0, <2>5, <2>6, <2>7 DEF PackagesShaped
<1>5. ASSUME NEW id \in Ids, Packages!Enable(id) \/ Packages!Disable(id)
      PROVE  PackagesShaped' /\ \A other \in Ids : PackageFits(other)'
  <2>1. CASE UNCHANGED <<packages, directory, now, replaced>>
    BY <1>0, <1>3, <2>1 DEF PackagesShaped
  <2>2. ASSUME NEW standing \in {"disabled", "enabled"},
               packages[id] # Packages!None,
               Packages!WriteState(id, standing), UNCHANGED <<now, replaced>>
        PROVE  PackagesShaped' /\ \A other \in Ids : PackageFits(other)'
    <3>1. /\ PackagesShaped' /\ PackageFits(id)'
          /\ \A other \in Ids : other # id => /\ packages'[other] = packages[other]
                                              /\ directory'[other]
                                                   = directory[other]
      BY <1>0, <2>2, WritingFits
    <3>2. QED BY <1>2, <2>2, <3>1
  <2>3. QED
    BY <1>5, <2>1, <2>2 DEF Packages!Enable, Packages!Disable, Packages!Refuse
<1>6. ASSUME NEW id \in Ids, Packages!Uninstall(id)
      PROVE  PackagesShaped' /\ \A other \in Ids : PackageFits(other)'
  <2>1. CASE UNCHANGED <<packages, directory, now, replaced>>
    BY <1>0, <1>3, <2>1 DEF PackagesShaped
  <2>2. CASE /\ packages' = [packages EXCEPT ![id] = Packages!None]
             /\ directory' = [directory EXCEPT ![id] = Packages!None]
             /\ replaced' = replaced \ {id} /\ now' = now
    <3>1. packages'[id] = Packages!None /\ directory'[id] = Packages!None
            /\ PackagesShaped'
      BY <1>0, <2>2 DEF PackagesShaped
    <3>2. \A other \in Ids : other # id => PackageFits(other)'
      BY <1>0, <1>2, <2>2 DEF PackagesShaped
    <3>3. QED BY <3>1, <3>2 DEF PackageFits
  <2>3. QED BY <1>6, <2>1, <2>2 DEF Packages!Uninstall, Packages!Refuse
<1>7. ASSUME NEW id \in Ids, NEW module \in Modules, Packages!Replace(id, module)
      PROVE  PackagesShaped' /\ \A other \in Ids : PackageFits(other)'
  <2> DEFINE d == directory[id]
             m == d.manifest.content
             s == d.state.content
             file == Packages!Regular(1, module)
             new == Managed(m, file, s.status, s.installedAt, s.updatedAt)
  <2>1. /\ d # Packages!None
        /\ d = Managed(m, d.module, s.status, s.installedAt, s.updatedAt)
        /\ TypedFile(m) /\ s.status \in {"disabled", "enabled"}
        /\ s.installedAt \in Nat /\ s.updatedAt \in Nat
        /\ s.updatedAt >= s.installedAt
        /\ m.id = id
    BY <1>0, <1>7 DEF Packages!Replace, PackageFits, DirectoryFits
  <2>2. /\ directory' = [directory EXCEPT ![id] = 
             [kind |-> "directory", manifest |-> d.manifest, module |-> file,
              state |-> d.state]]
        /\ replaced' = replaced \cup {id} /\ UNCHANGED <<packages, now>>
    BY <1>7 DEF Packages!Replace
  <2> HIDE DEF m, s, file
  <2>3. new = [kind |-> "directory", manifest |-> d.manifest, module |-> file,
               state |-> d.state]
    BY <2>1, ManagedDirectories DEF Managed
  <2>4. directory'[id] = new /\ PackagesShaped'
    BY <1>0, <2>2, <2>3 DEF PackagesShaped
  <2>5. Packages!ReadRegularFile(file, MaxModule) = "ok"
    BY PackageConstants DEF file
  <2>6. DirectoryFits(new) /\ new # Packages!None /\ new.manifest.content.id = id
    BY <2>1, <2>5, ManagedFit, ManagedDirectories
  <2>7. Packages!Snapshot(new) = Packages!Snapshot(d)
    <3>1. Packages!Snapshot(new)
            = Packages!SnapshotOf(m, s.status, s.installedAt, s.updatedAt)
      BY ManagedDirectories
    <3>2. QED BY <3>1 DEF Packages!Snapshot, Packages!SnapshotOf, m, s
  <2> HIDE DEF new, d
  <2>8. PackageFits(id)'
    <3>1. packages[id] # Packages!None => packages[id] = Packages!Snapshot(d)
      BY <1>0 DEF PackageFits, d
    <3>2. QED BY <2>2, <2>4, <2>6, <2>7, <3>1 DEF PackageFits
  <2>9. \A other \in Ids : other # id => PackageFits(other)'
    BY <1>0, <1>2, <2>2 DEF PackagesShaped
  <2>10. QED BY <2>4, <2>8, <2>9
<1>8. CASE Packages!Restart
  <2> DEFINE fails(id) ==
               /\ Packages!Snapshot(directory[id]).status = "enabled"
               /\ Packages!EnableHookRuns(Packages!ModuleOf(id),
                    directory[id].manifest.content) # "ok"
             disabled(id) == Packages!Changed(Packages!Snapshot(directory[id]),
                               "disabled")
  <2>1. /\ packages' = [id \in Ids |->
             IF Packages!Loads(directory[id])
             THEN IF fails(id) THEN disabled(id)
                    ELSE Packages!Snapshot(directory[id])
             ELSE Packages!None]
        /\ directory' = [id \in Ids |->
             IF Packages!Loads(directory[id]) /\ fails(id)
             THEN Packages!Written(directory[id], disabled(id)) ELSE directory[id]]
        /\ UNCHANGED <<now, replaced>>
    BY <1>8, Zenon DEF Packages!Restart
  <2> HIDE DEF fails, disabled
  <2>2. PackagesShaped'
    BY <1>0, <2>1 DEF PackagesShaped
  <2>3. ASSUME NEW id \in Ids PROVE PackageFits(id)'
    <3>1. CASE ~Packages!Loads(directory[id])
      BY <1>0, <2>1, <3>1 DEF PackageFits
    <3>2. CASE Packages!Loads(directory[id]) /\ ~fails(id)
      <4>1. /\ packages'[id] = Packages!Snapshot(directory[id])
            /\ directory'[id] = directory[id]
            /\ directory[id] # Packages!None
        BY <2>1, <3>2 DEF Packages!Loads
      <4>2. QED BY <1>0, <2>1, <4>1 DEF PackageFits
    <3>3. CASE Packages!Loads(directory[id]) /\ fails(id)
      <4> DEFINE new == Packages!Written(directory[id], disabled(id))
      <4>1. packages'[id] = disabled(id) /\ directory'[id] = new
              /\ directory[id] # Packages!None
        BY <2>1, <3>3 DEF Packages!Loads
      <4>2. /\ new # Packages!None /\ DirectoryFits(new)
            /\ new.manifest.content.id = id
            /\ id \notin replaced => ExportsFit(new)
            /\ Packages!Snapshot(new) = disabled(id)
        BY <1>0, <4>1, AWrittenStateFits DEF disabled, PackagesShaped
      <4> HIDE DEF new
      <4>3. QED BY <2>1, <4>1, <4>2 DEF PackageFits
    <3>4. QED BY <3>1, <3>2, <3>3
  <2>4. QED BY <2>2, <2>3
<1>9. QED
  BY <1>0, <1>3, <1>4, <1>5, <1>6, <1>7, <1>8
     DEF Packages!Next, Packages!InstallRefused, Packages!NotFound,
         Packages!Unchanged, Packages!Execute, Packages!Refuse,
         Packages!SetClock, Packages!vars, PackagesShaped

LEMMA AsManyValuesAsPlaces ==
  ASSUME NEW n \in Nat, NEW f, f = [i \in 1..n |-> f[i]],
         Packages!Cardinality({f[i] : i \in 1..n}) = n
  PROVE  \A i, j \in 1..n : i # j => f[i] # f[j]
<1> DEFINE T == {f[i] : i \in 1..n}
<1>1. f \in Surjection(1..n, T)
  BY DEF Surjection
<1>2. Packages!IsFiniteSet(1..n) /\ Packages!Cardinality(1..n) = n
  BY PackagesCardinality, FS_Interval
<1>3. f \in Injection(1..n, T)
  BY <1>1, <1>2, PackagesCardinality, FS_SurjSameCardinalityImpliesInj
<1>4. QED BY <1>3 DEF Injection, IsInjective

(* The commands of an accepted manifest have names and exports of their    *)
(* own.                                                                    *)
LEMMA CommandsAreDistinct ==
  ASSUME NEW m, TypedFile(m)
  PROVE  \A i, j \in DOMAIN m.commands :
           LET one == m.commands[i]
               other == m.commands[j]
           IN  /\ one.export \in Packages!Exports(m)
               /\ one.export \notin {Packages!VersionExport, Packages!EnableHook,
                    Packages!DisableHook}
               /\ i # j => one.name # other.name /\ one.export # other.export
<1> DEFINE s == m.commands
           n == Len(s)
           name == [i \in 1..n |-> s[i].name]
           export == [i \in 1..n |-> s[i].export]
<1>1. /\ s \in Seq(Packages!Range(s))
      /\ Packages!Exports(m) \cap {Packages!VersionExport, Packages!EnableHook,
           Packages!DisableHook} = {}
      /\ Packages!Cardinality(Packages!Names(m)) = n
      /\ Packages!Cardinality(Packages!Exports(m)) = n
  BY DEF TypedFile, Packages!ValidManifest, Packages!ValidCommands
<1>2. n \in Nat /\ DOMAIN s = 1..n
  BY <1>1
<1>3. Packages!Range(s) = {s[i] : i \in 1..n}
  BY <1>2 DEF Packages!Range
<1> HIDE DEF s, n
<1>4. Packages!Names(m) = {name[i] : i \in 1..n}
  BY <1>3 DEF Packages!Names, s
<1>5. Packages!Exports(m) = {export[i] : i \in 1..n}
  BY <1>3 DEF Packages!Exports, s
<1>6. \A i, j \in 1..n : i # j => name[i] # name[j]
  <2>1. name = [i \in 1..n |-> name[i]]
          /\ Packages!Cardinality({name[i] : i \in 1..n}) = n
    BY <1>1, <1>4
  <2> HIDE DEF name
  <2>2. QED BY <1>2, <2>1, AsManyValuesAsPlaces
<1>7. \A i, j \in 1..n : i # j => export[i] # export[j]
  <2>1. export = [i \in 1..n |-> export[i]]
          /\ Packages!Cardinality({export[i] : i \in 1..n}) = n
    BY <1>1, <1>5
  <2> HIDE DEF export
  <2>2. QED BY <1>2, <2>1, AsManyValuesAsPlaces
<1>8. \A i \in 1..n : s[i].export \in Packages!Exports(m)
  BY <1>5
<1>9. QED BY <1>1, <1>2, <1>6, <1>7, <1>8 DEF s

LEMMA PackagesAreRight ==
  ASSUME Packages!PluginPackageAssumption, PackagesInv
  PROVE  Packages!TypeOK /\ Packages!AdmittedPackagesRun
<1>1. ASSUME NEW id \in Ids, packages[id] # Packages!None
      PROVE  LET d == directory[id]
                 m == d.manifest.content
             IN  /\ d # Packages!None /\ DirectoryFits(d)
                 /\ packages[id] = Packages!Snapshot(d)
                 /\ TypedFile(m) /\ m.id = id
                 /\ id \notin replaced => ExportsFit(d)
                 /\ packages[id].manifest = m
                 /\ packages[id].status = d.state.content.status
                 /\ packages[id].installedAt = d.state.content.installedAt
  BY <1>1
     DEF PackagesInv, DirectoryFits, Packages!Snapshot, Packages!SnapshotOf
<1>2. Packages!TypeOK
  BY <1>1 DEF Packages!TypeOK, Packages!Installed, PackagesInv, DirectoryFits
<1>3. ASSUME NEW id \in Packages!Installed
      PROVE  /\ packages[id] = Packages!Snapshot(directory[id])
             /\ \/ Packages!Loads(directory[id])
                \/ packages[id].manifest.rewritten > MaxManifest
                \/ packages[id].installedAt = 0
  <2>1. id \in Ids /\ packages[id] # Packages!None
    BY <1>3 DEF Packages!Installed
  <2>2. packages[id].manifest.rewritten \in Nat /\ MaxManifest \in Nat
    BY <1>1, <2>1, PackageConstants DEF TypedFile
  <2>3. QED BY <1>1, <2>1, <2>2, FittingLoads
<1>4. ASSUME NEW id \in Packages!Installed,
             NEW i \in DOMAIN packages[id].manifest.commands,
             NEW j \in DOMAIN packages[id].manifest.commands
      PROVE  LET one == packages[id].manifest.commands[i]
                 other == packages[id].manifest.commands[j]
             IN  /\ one.export \notin {Packages!VersionExport, Packages!EnableHook,
                      Packages!DisableHook}
                 /\ i # j => one.name # other.name /\ one.export # other.export
                 /\ id \notin replaced
                      => Packages!TypedExport(Packages!ModuleOf(id), one.export)
  <2>1. id \in Ids /\ packages[id] # Packages!None
    BY <1>4 DEF Packages!Installed
  <2> DEFINE m == packages[id].manifest
  <2>2. TypedFile(m) /\ m = directory[id].manifest.content
        /\ (id \notin replaced => ExportsFit(directory[id]))
    BY <1>1, <2>1
  <2> HIDE DEF m
  <2>3. /\ m.commands[i].export \in Packages!Exports(m)
        /\ m.commands[i].export \notin {Packages!VersionExport,
             Packages!EnableHook, Packages!DisableHook}
        /\ i # j => /\ m.commands[i].name # m.commands[j].name
                    /\ m.commands[i].export # m.commands[j].export
    BY <2>2, CommandsAreDistinct DEF m
  <2>4. id \notin replaced
          => Packages!TypedExport(Packages!ModuleOf(id), m.commands[i].export)
    BY <2>2, <2>3 DEF ExportsFit, Packages!ModuleOf
  <2>5. QED BY <2>3, <2>4 DEF m
<1>5. Packages!AdmittedPackagesRun
  BY <1>3, <1>4 DEF Packages!AdmittedPackagesRun
<1>6. QED BY <1>2, <1>5

LEMMA InitPackages ==
  ASSUME Packages!Init PROVE PackagesInv
BY DEF Packages!Init, PackagesInv

LEMMA PackagesInvariant ==
  ASSUME Packages!PluginPackageAssumption PROVE Packages!Spec => []PackagesInv
<1>1. Packages!Init => PackagesInv
  BY InitPackages
<1>2. PackagesInv /\ [Packages!Next]_Packages!vars => PackagesInv'
  BY PackagesInvKept
<1>3. QED BY <1>1, <1>2, PTL DEF Packages!Spec

LEMMA PackagesHold ==
  ASSUME Packages!PluginPackageAssumption
  PROVE  Packages!Spec => [](Packages!TypeOK /\ Packages!AdmittedPackagesRun)
<1>1. PackagesInv => Packages!TypeOK /\ Packages!AdmittedPackagesRun
  BY PackagesAreRight
<1>2. QED BY <1>1, PackagesInvariant, PTL

-----------------------------------------------------------------------------
(* Services.                                                               *)

(* ConfigService, with what ConfigServiceProofs proves of it.              *)
SettingsProofs ==
  INSTANCE ConfigServiceProofs WITH Drafts <- SettingsDrafts

(* Its definitions are those that Services has under the name Settings.    *)
LEMMA SettingsAreTheSame ==
  /\ SettingsProofs!ConfigServiceAssumption <=> Settings!ConfigServiceAssumption
  /\ SettingsProofs!Init <=> Settings!Init
  /\ SettingsProofs!vars = Settings!vars
  /\ SettingsProofs!Next <=> Settings!Next
  /\ SettingsProofs!TypeOK <=> Settings!TypeOK
<1>1. SettingsProofs!ConfigServiceAssumption <=> Settings!ConfigServiceAssumption
  BY DEF Settings!ConfigServiceAssumption,
         SettingsProofs!ConfigServiceAssumption, Settings!Configs,
         SettingsProofs!Configs
<1>2. SettingsProofs!Init <=> Settings!Init
  BY DEF Settings!Configs, SettingsProofs!Configs, Settings!Actors,
         SettingsProofs!Actors, Settings!Init, SettingsProofs!Init,
         Settings!Default, SettingsProofs!Default, Settings!Migrate,
         SettingsProofs!Migrate, Settings!Normalized, SettingsProofs!Normalized
<1>3. SettingsProofs!vars = Settings!vars
  BY DEF Settings!vars, SettingsProofs!vars, Settings!storeVars,
         SettingsProofs!storeVars, Settings!processVars,
         SettingsProofs!processVars, Settings!callVars,
         SettingsProofs!callVars, Settings!boundVars, SettingsProofs!boundVars
<1>4. SettingsProofs!Next <=> Settings!Next
  BY DEF Settings!Configs, SettingsProofs!Configs, Settings!Actors,
         SettingsProofs!Actors, Settings!callVars, SettingsProofs!callVars,
         Settings!storeVars, SettingsProofs!storeVars, Settings!processVars,
         SettingsProofs!processVars, Settings!vars, SettingsProofs!vars,
         Settings!Default, SettingsProofs!Default, Settings!Migrate,
         SettingsProofs!Migrate, Settings!Normalized,
         SettingsProofs!Normalized, Settings!Serving, SettingsProofs!Serving,
         Settings!GoOn, SettingsProofs!GoOn, Settings!Finish,
         SettingsProofs!Finish, Settings!Enter, SettingsProofs!Enter,
         Settings!GetConfig, SettingsProofs!GetConfig, Settings!SaveConfig,
         SettingsProofs!SaveConfig, Settings!ResetConfig,
         SettingsProofs!ResetConfig, Settings!Load, SettingsProofs!Load,
         Settings!Spend, SettingsProofs!Spend, Settings!BackUp,
         SettingsProofs!BackUp, Settings!Store, SettingsProofs!Store,
         Settings!Delete, SettingsProofs!Delete, Settings!StatementFails,
         SettingsProofs!StatementFails, Settings!StartWithoutLoad,
         SettingsProofs!StartWithoutLoad, Settings!Start, SettingsProofs!Start,
         Settings!Ready, SettingsProofs!Ready, Settings!Exit,
         SettingsProofs!Exit, Settings!CloseDatabase,
         SettingsProofs!CloseDatabase, Settings!End, SettingsProofs!End,
         Settings!Edit, SettingsProofs!Edit, Settings!Continue,
         SettingsProofs!Continue, Settings!Command, SettingsProofs!Command,
         Settings!Next, SettingsProofs!Next, Settings!boundVars,
         SettingsProofs!boundVars
<1>5. SettingsProofs!TypeOK <=> Settings!TypeOK
  BY DEF Settings!TypeOK, SettingsProofs!TypeOK, Settings!Actors,
         SettingsProofs!Actors, Settings!Configs, SettingsProofs!Configs,
         Settings!Normalized, SettingsProofs!Normalized, Settings!Migrate,
         SettingsProofs!Migrate, Settings!Default, SettingsProofs!Default
<1>6. QED BY <1>1, <1>2, <1>3, <1>4, <1>5

allVars == <<part, vars, settingsVars, updatesVars, imagesVars, indexVars,
             officeVars, pluginsVars, packagesVars>>

(* A step of the process is a step of every part, or leaves it alone.      *)
LEMMA StepsOfTheParts ==
  ASSUME [ServicesNext]_allVars
  PROVE  /\ [Next]_vars
         /\ [SettingsProofs!Next]_SettingsProofs!vars
         /\ [Updates!Next]_Updates!vars
         /\ [Images!Next]_Images!vars
         /\ [Index!Next]_Index!vars
         /\ [Office!Next]_Office!vars
         /\ [Plugins!Next]_Plugins!vars
         /\ [Packages!Next]_Packages!vars
<1>1. /\ Next \/ UNCHANGED vars
      /\ Settings!Next \/ UNCHANGED settingsVars
      /\ Updates!Next \/ UNCHANGED updatesVars
      /\ Images!Next \/ UNCHANGED imagesVars
      /\ Index!Next \/ UNCHANGED indexVars
      /\ Office!Next \/ UNCHANGED officeVars
      /\ Plugins!Next \/ UNCHANGED pluginsVars
      /\ Packages!Next \/ UNCHANGED packagesVars
  BY DEF ServicesNext, allVars
<1>2. UNCHANGED settingsVars => UNCHANGED SettingsProofs!vars
  BY DEF settingsVars, SettingsProofs!vars, SettingsProofs!storeVars,
         SettingsProofs!processVars, SettingsProofs!callVars,
         SettingsProofs!boundVars
<1>3. UNCHANGED updatesVars => UNCHANGED Updates!vars
  BY DEF updatesVars, Updates!vars, Updates!worldVars, Updates!callerVars
<1>4. UNCHANGED imagesVars => UNCHANGED Images!vars
  BY DEF imagesVars, Images!vars
<1>5. UNCHANGED indexVars => UNCHANGED Index!vars
  BY DEF indexVars, Index!vars, Index!walkVars, Index!treeVars
<1>6. UNCHANGED officeVars => UNCHANGED Office!vars
  BY DEF officeVars, Office!vars, Office!tokenVars
<1>7. UNCHANGED pluginsVars => UNCHANGED Plugins!vars
  BY DEF pluginsVars, Plugins!vars, Plugins!callVars,
         Plugins!historyVars
<1>8. UNCHANGED packagesVars => UNCHANGED Packages!vars
  BY DEF packagesVars, Packages!vars
<1>9. QED
  BY <1>1, <1>2, <1>3, <1>4, <1>5, <1>6, <1>7, <1>8, SettingsAreTheSame

(* Every behaviour of the process is a behaviour of each of its parts.     *)
LEMMA PartsRun ==
  Services => /\ Spec /\ SettingsProofs!Spec /\ Updates!Spec /\ Images!Spec
              /\ Index!Spec /\ Office!Spec /\ Plugins!Spec /\ Packages!Spec
<1>1. ServicesInit =>
        /\ Init /\ SettingsProofs!Init /\ Updates!Init /\ Images!Init
        /\ Index!Init /\ Office!Init /\ Plugins!Init /\ Packages!Init
  BY SettingsAreTheSame DEF ServicesInit
<1>2. QED
  BY <1>1, StepsOfTheParts, PTL
     DEF Services, Spec, SettingsProofs!Spec, Updates!Spec, Images!Spec,
         Index!Spec, Office!Spec, Plugins!Spec, Packages!Spec, allVars

(* What the constants of every part satisfy.                               *)
LEMMA PartsAssume ==
  /\ SettingsProofs!ConfigServiceAssumption
  /\ Updates!UpdateServiceAssumption /\ Images!ImageServiceAssumption
  /\ Index!FileIndexAssumption /\ Office!OfficeProcessAssumption
  /\ Plugins!PluginServiceAssumption /\ Packages!PluginPackageAssumption
BY SettingsAreTheSame, LongCommandsAssumption, ServicesAssumption
   DEF LongCommandsAssumption, ServicesAssumption

(* Every variable of the part at work keeps its type.                      *)
THEOREM EveryPartIsTyped == Services => []EveryTypeOK
<1>1. Services => []TypeOK
  BY PartsRun, BusTypeCorrect, PTL
<1>2. Services => []Settings!TypeOK
  BY PartsRun, PartsAssume, SettingsProofs!ConfigTypeCorrect,
     SettingsAreTheSame, PTL
<1>3. Services => []Updates!TypeOK
  BY PartsRun, PartsAssume, UpdatesInvariant, PTL
<1>4. Services => [](Images!TypeOK /\ Index!TypeOK)
  BY PartsRun, PartsAssume, ImagesHold, IndexHolds, PTL
<1>5. Services => [](Office!TypeOK)
  BY PartsRun, PartsAssume, RunsInvariant, RunsAreRight, PTL
<1>6. Services => [](Plugins!TypeOK /\ Packages!TypeOK)
  BY PartsRun, PartsAssume, PluginsAgreeAndRun, PackagesHold, PTL
<1>7. /\ TypeOK /\ Settings!TypeOK /\ Updates!TypeOK /\ Images!TypeOK
      /\ Index!TypeOK /\ Office!TypeOK /\ Plugins!TypeOK /\ Packages!TypeOK
      => EveryTypeOK
  BY DEF EveryTypeOK
<1>8. QED BY <1>1, <1>2, <1>3, <1>4, <1>5, <1>6, <1>7, PTL

(* ConfigService: a command that answers settings answers what the row     *)
(* holds; while no reset was asked for, only a save changes the row under  *)
(* the commands of a run; and contents that do not parse are replaced only *)
(* after their backup was tried.                                           *)
THEOREM AcknowledgedSettingsStay == Services => SettingsAreKept
<1>1. SettingsProofs!SettingsAreKept <=> Settings!SettingsAreKept
  BY DEF Settings!SettingsAreKept, SettingsProofs!SettingsAreKept,
         Settings!Stores, SettingsProofs!Stores, Settings!Serving,
         SettingsProofs!Serving, Settings!Actors, SettingsProofs!Actors,
         Settings!Configs, SettingsProofs!Configs, Settings!vars,
         SettingsProofs!vars, Settings!storeVars, SettingsProofs!storeVars,
         Settings!processVars, SettingsProofs!processVars, Settings!callVars,
         SettingsProofs!callVars, Settings!boundVars, SettingsProofs!boundVars
<1>2. QED
  BY <1>1, PartsRun, PartsAssume, SettingsProofs!AcknowledgedSettingsAreKept,
     PTL
     DEF SettingsAreKept

(* UpdateService: what an installation puts on the disk is what the last   *)
(* check answered and announced, in whatever order checks, installations   *)
(* and releases come; nothing but its installation, another check or the   *)
(* end of the process takes it from a retry; and every attempt tells its   *)
(* progress in order, for downloads of any length.                         *)
THEOREM OnlyReportedVersionsAreInstalled == Services => InstallsWhatWasReported
BY PartsRun, PartsAssume, InstallsHold, PTL DEF InstallsWhatWasReported

(* ImageService: however many batches run and however many of their writes *)
(* and removals fail, none overwrites, truncates or removes a file that    *)
(* was whole, a source or an earlier output.                               *)
THEOREM NoBatchCostsAFile == Services => ImagesKeepFiles
BY PartsRun, PartsAssume, ImagesHold, PTL DEF ImagesKeepFiles

(* ImageService: what a batch told, the counts and byte totals it is       *)
(* answered with and the files on the disk agree, for any number of        *)
(* batches of any length beside each other.                                *)
THEOREM ResultsOfBatchesAddUp == Services => []BatchesAddUp
<1>1. Images!BatchesAddUp => BatchesAddUp
  BY DEF BatchesAddUp
<1>2. QED BY <1>1, PartsRun, PartsAssume, ImagesHold, PTL

(* FileIndex: whoever changes the tree during the walk, entries come once  *)
(* each, in the order of their paths and within both limits, and nothing   *)
(* that was there all the time is left out before the last of them, or at  *)
(* all unless the answer says that it is truncated; for trees of any size  *)
(* and depth.                                                              *)
THEOREM IndexesAreBeginningsOfTrees == Services => []IndexIsPrefixOfTree
<1>1. Index!IndexIsPrefixOfTree => IndexIsPrefixOfTree
  BY DEF IndexIsPrefixOfTree
<1>2. QED BY <1>1, PartsRun, PartsAssume, IndexHolds, PTL

(* OfficeProcess: however many commands run and whichever of exit,         *)
(* cancellation, timeout and output limit ends each, none returns before   *)
(* its child is gone and out of the registry, and none succeeds whose      *)
(* child, streams or batch operations did not.                             *)
THEOREM RunsLeaveNothingBehind == Services => []RunsEndCleanly
<1>1. Office!RunsEndCleanly => RunsEndCleanly
  BY DEF RunsEndCleanly
<1>2. QED BY <1>1, PartsRun, PartsAssume, RunsInvariant, RunsAreRight, PTL

(* PluginService: between calls the memory, the last event about a plugin  *)
(* and what a new process would load from the disk agree, except for a     *)
(* plugin whose removal failed half-way, through any failures, ends and    *)
(* restarts.                                                               *)
THEOREM PluginStatusesAgree == Services => []StatusesAgree
<1>1. Plugins!StatusesAgree => StatusesAgree
  BY DEF StatusesAgree
<1>2. QED BY <1>1, PartsRun, PartsAssume, PluginsAgreeAndRun, PTL

(* PluginService: a command runs only between the enable hook and the      *)
(* disable hook of its plugin, unless the disk refused to persist what     *)
(* they did, or shutdown has run the disable hooks.                        *)
THEOREM CommandsRunWhileStarted == Services => []ExecutedWhileStarted
<1>1. Plugins!ExecutedWhileStarted => ExecutedWhileStarted
  BY DEF ExecutedWhileStarted
<1>2. QED BY <1>1, PartsRun, PartsAssume, PluginsAgreeAndRun, PTL

(* PluginService: the directory of a plugin appears complete, and only its *)
(* own removal makes it incomplete, whatever fails and wherever the        *)
(* process ends.                                                           *)
THEOREM OnlyUninstallDamages == Services => OnlyRemovalDamages
BY PartsRun, PartsAssume, DirectoriesStayComplete, PTL DEF OnlyRemovalDamages

(* PluginPackage: an installed plugin is on the disk as in memory; a new   *)
(* process loads it unless its rewritten manifest outgrew the limit or the *)
(* clock stood before the epoch; and its commands run distinct exports     *)
(* that exist with the right type and are no hooks, for every set of       *)
(* packages and clock readings.                                            *)
THEOREM AdmittedPluginsRun == Services => []AdmittedPackagesRun
<1>1. Packages!AdmittedPackagesRun => AdmittedPackagesRun
  BY DEF AdmittedPackagesRun
<1>2. QED BY <1>1, PartsRun, PartsAssume, PackagesHold, PTL
=============================================================================
