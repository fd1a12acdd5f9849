SPECIFICATION Services
CONSTANTS
  TaskFinished = TaskFinished
  TaskProgressed = TaskProgressed
  Publishers = {p1, p2}
  Subscribers = {s1, s2}
  Kinds <- MCKinds
  Filters <- MCFilters
  Slots = 2
  MaxSequence = 3
  Nobody = Nobody
\* Two commands and the load at startup.
  Callers = {"first", "second"}
  Boot = "boot"
  Schemas = {0, 1}
  CurrentSchema = 1
  Themes = {"light", "system", "neon"}
  KnownThemes = {"light", "system"}
  DefaultTheme = "system"
  Languages = {"en", "zh", "blank"}
  BlankLanguages = {"blank"}
  DefaultLanguage = "zh"
  SettingsDrafts <- MCDrafts
  Garbled = Garbled
  Garbage = {Garbled}
  Absent = Absent
  Unavailable = Unavailable
  NoAnswer = NoAnswer
  MaxFaults = 1
  MaxEdits = 1
\* Two commands, two releases after the one that runs.
  UpdateCallers = {"first", "second"}
  Unlocked = "unlocked"
  MaxRelease = 2
  ChunkLengths = {1}
  MaxDownload = 2
\* Two batches.
  Batches = {"first", "second"}
  Requests <- MCImages
  Paths <- MCPaths
  Directories = {"in", "out"}
  Supported = {"a.jpg"}
  Sources <- MCSources
  MaxLength = 2
  MaxWriteFaults = 2
\* Six places in three levels.
  Parent <- MCParent
  FirstTrees <- MCTrees
  EntryLimits = {0, 2, 3, 5}
  DepthLimits = {0, 1, 2, 3}
  MaxIndexEntries = 4
  MaxIndexDepth = 2
  MaxChanges = 3
\* One child process of every kind: calls meet only in the registry.
  Runs = {"run"}
  BatchLength = 2
  Commands = {"probe", "open", "close", "create", "inspect", "batch", "preview"}
\* Two plugins, through two failures of the disk and two restarts.
  PluginIds = {"p", "q"}
  MaxFailures = 2
  MaxRestarts = 2
  NoPlugin = NoPlugin
\* One plugin's packages.
  Ids = {"shencom.a"}
  Texts = {"hello", "again", "greet", "1.0.0", "hello.wasm", "shendesk_plugin_api_version", "shendesk_on_enable", "shendesk_on_disable"}
  MaxManifest = 2
  MaxModule = 1
  MaxCommands = 2
  PackageFiles <- MCPackages
  Calls = {"hello", "again"}
  Modules <- MCModules
  Times = {0, 1, 2}
  MaxReplaced = 1
INVARIANTS
  EveryTypeOK
  SequencesIncrease
  LossIsReported
  BatchesAddUp
  IndexIsPrefixOfTree
  RunsEndCleanly
  StatusesAgree
  ExecutedWhileStarted
  AdmittedPackagesRun
PROPERTIES
  NoneMeansNothingBuffered
  SettingsAreKept
  InstallsWhatWasReported
  ImagesKeepFiles
  OnlyRemovalDamages
