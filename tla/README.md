# ShenDesk core: TLA+ models and proofs

This directory models the Rust core of the ShenDesk desktop application
(`src/apps/desktop/src-tauri/src`): the services that keep state, run things
concurrently, persist, or talk to other processes. TLC checks the models on
small instances; TLAPS proves their safety properties for all values of the
constants. `PROJECT.json` maps every definition to the source lines it stands
for. Paths below are relative to `apps/desktop/src-tauri/src`.

    tlc -config MCTaskPool.cfg MCTaskManager     # a run
    tlapm TaskManagerProofs.tla                  # the proofs of a module

## 1. Inventory

| Component | State | Operations | What is hard |
|---|---|---|---|
| TaskManager (`application/task_service.rs`, `domain/task.rs`) | records behind a RwLock, a bounded channel, cancellation flags, worker threads sharing one receiver | submit, cancel, get, list, shutdown, the worker loop, `report_progress` | clients, workers and shutdown race for a record; channel full; shutdown wakes blocked workers; events have to tell the records |
| EventBus (`application/event_bus.rs`, `domain/event.rs`) | sequence counter, publish lock, broadcast ring, a cursor and a filter per subscriber | publish, subscribe, subscribe_to, recv, try_recv | one order for everybody; overwritten events; filters that consume |
| OfficeService (`application/office_service.rs`) | registered sessions, a lock per path, `accepting`; outside: resident processes and files | open, close, create, inspect, preview, apply, cancel, shutdown | an await between any two steps; child processes killed, timing out or failing after their effect; residents of other programs; staged commit; exit |
| OfficeCLI runtime (`infrastructure/office/mod.rs`) | the registry of children, two readers per child | run a command as a child, cancel_all | exit, cancellations, timeout and output limit are ready at once; what a child printed must not be believed by half |
| AuthService (`application/auth_service.rs`, `infrastructure/auth/mod.rs`) | session in memory, token in the credential store, refresh lock | login, state (with refresh), logout, restore at start | rotated tokens, lost answers, failing store, concurrent callers, process end |
| PluginService (`application/plugin_service.rs`, `infrastructure/plugins/mod.rs`) | records in memory, one directory per plugin, lifecycle mutex | install, enable, disable, execute, uninstall, restore, shutdown | disk failures and process ends between the effects of a call; hooks that fail; what one process admits and the next has to load and run |
| FileService (`application/file_service.rs`, `infrastructure/filesystem/mod.rs`) | text cache, watch registry, watcher callbacks; the stack of a walk | read_text_file, index_directory, start_watch, stop_watch, clear_cache, shutdown | files change between metadata and content; readers share a cache; stops race with shutdown; the tree changes under a walk |
| ConfigService and DatabaseService (`application/config_service.rs`, `infrastructure/database/service.rs`) | one row, backup rows, the pool | connect, load (migrate, recover), save, reset, close | read-modify-write without a lock or a transaction; foreign contents of the row; the pool closes under calls |
| ImageService (`application/image_service.rs`, `infrastructure/image/mod.rs`) | none but the output files | a sequential batch, several at once | outputs among the sources, equal names, writes and removals that fail, counts |
| UpdateService (`application/update_service.rs`, `infrastructure/updater/mod.rs`) | operation lock, pending update | check, install | busy, retry after failure, a new release meanwhile, progress order |
| Lifecycle (`app/lifecycle.rs`, `app/bootstrap.rs`) | the managed services | setup, ready, exit | order of shutdown with commands still in flight |
| Not stateful | | | logging, IPC commands, error mapping, React views, build scripts |

Interaction. IPC commands call one service each, on the async runtime or on a
blocking thread. TaskManager, AuthService, PluginService, FileService and the
update and lifecycle code publish on the one EventBus; no production code
subscribes yet, so nothing flows back. At start the plugins are restored
before commands are served; at exit `on_exit` publishes `application_exiting`
and stops Office, plugins, file watches, tasks, the database pool and the log,
in this order, while calls that were already running may still run.

What makes each correct is stated in section 4; the complete list of what is
hard to test, with its line and the properties about it, is `hazards` in
`PROJECT.json`.

## 2. Modules

| Module | Models |
|---|---|
| `TaskDomain` | task snapshots, their transitions, the event protocol of a task |
| `TaskLifecycle` | the abstract specification: what snapshots and events promise, without queue, workers or locks |
| `TaskManager` | the implementation: channel, workers, records, flags, shutdown; `ImplementsLifecycle` is its refinement of `TaskLifecycle`, with `owed` mapped to the cancellations that shutdown calls have still to publish |
| `EventBus` | publishers, ring, subscribers |
| `OfficeService` | sessions, path locks, children, residents, staging, exit |
| `OfficeProcess` | the runtime below it: one child per command, readers, registry, cancellation, timeout, validation of the response |
| `AuthService` | session, store, refresh lock, server, restart |
| `PluginService` | records, directories, hooks, disk failures, restart, one step per effect |
| `PluginManifest` | what makes a file, a manifest and a WASM module acceptable, and which calls fail: operators only |
| `PluginPackage` | what is installed, enabled, run and loaded again, one step per call |
| `FileService` | text cache, readers, watches, shutdown |
| `FileIndex` | the directory walk with its limits, over a tree that changes |
| `ConfigService` | the settings row, its loads, saves and resets, startup, exit, crash |
| `UpdateService` | check, install, pending update, progress, releases |
| `ImageService` | batches over one file system |
| `LongCommands` | EventBus (extended) and, by INSTANCE, the services whose commands tell how far they are or take a limit: updates, images, the index |
| `Services` | `LongCommands` (extended) and, by INSTANCE, settings, office processes, plugins and packages: the services that share nothing but the process |
| `*Proofs` | theorems about the module of that name |
| `MC*` | the instances TLC checks: request sets, filters, sizes, symmetry |
| `PluginExamples` | the packages TLC installs: right ones, and one for each thing that can be wrong |

Conventions. An action is what one thread or async task does between two
points where another may run: while it holds a lock, or from one await to the
next. The action's comment names the code only where the name differs. Names
that end in what goes wrong (`SubmitRejectedKeepsRecord`, `FinishableUnchecked`,
`PersistInPlace`, ...) and are commented *Faulty variant* are not part of the
model: `PROJECT.json` pairs each with the definition it replaces and the
property that then fails.

How state corresponds to code:

* `TaskManager`: `task` is the record table (absent where the map has no
  entry), `queue` the mpsc channel, `wpc`/`held` the worker loop of
  `run_worker` and the task in its hands, `flag` the `cancellation` atomics,
  `submitting` the id a client drew before it got the sender lock,
  `unpublished` the vector of snapshots that `shutdown` publishes after it
  has released the records, `events` what was handed to the bus.
* `EventBus`: `sent` is everything the channel accepted; only the last `Slots`
  positions can be read, which is tokio's ring. `calling` and `seen` are the
  receive call a subscriber is in and what its calls returned.
* `OfficeService`: `owned` is `owned_sessions`, `lock` the path locks,
  `resident` the OfficeCLI processes outside; a call's place is the await it
  stands at. `killed`, `lost` and `stale` remember which operations had their
  child killed and which residents the engine failed to report, so that the
  properties can say what the service could know. A call at the place `hung`
  waits for the end of its child's streams, which nothing limits in time.
* `AuthService`: `session` is the RwLock, `stored` the credential; a token is
  a number and `info` says whose it is. `entry` says whether this process got
  the credential store: where `bootstrap.rs` had to fall back to the disabled
  one, which stores nothing and answers Ok, it is FALSE.
* `PluginService`: `records` is the map in memory, `dir` what the disk holds
  per plugin; the call under way holds the lifecycle mutex.
* `FileService`: a state of a file is a version; `Size` and `Stamp` are its
  length and its `FileSignature`. A read is stat, lookup, invalidation, load,
  insertion, each a step. `watch[w]` is the stage of a registration.
* `ConfigService`: `row` is the value under `app.settings`, `backups` those
  under `app.settings.corrupt.*`; `step[a]` is the statement an actor executes
  next and `value[a]` what it will write, so that any other statement can come
  between. The load of `bootstrap.rs` is an actor of its own, `Boot`. A crash
  and the normal end are one action, `End`: every executed statement stays.
* `UpdateService`: `operation` is the holder of `operation_lock`,
  `pendingUpdate` the mutex of `TauriUpdateBackend`, `call[c]` where a command
  stands; `progress[c]` what its `tauri::ipc::Channel` delivered.
* `ImageService`: `batch[b].step` is the system call an item is at; a file is
  its length and whether it is whole.
* `FileIndex`: the recursion of `visit_directory` is the stack `stack`, the
  innermost directory first, each with the children still to visit. The code
  sorts them; here they are a set and `NextChild` is its smallest.
* `OfficeProcess`: `run[r]` is the state of `run_process` with its child and
  its two reader tasks, `activeChildren` the registry, `sweep` the tokens that
  `cancel_all` has copied out of it and has yet to cancel.
* `PluginPackage`: `records` and `directory` are the repository's two copies
  of a plugin; a module is the types of its exports and what each call does.

## 3. Abstractions

* Text of names, messages, paths, JSON and time stamps is left out; ids are
  the order in which they were drawn. What a validator accepts is a set.
* Of the settings, `schemaVersion`, `theme` and `language` are kept, the fields
  `migrate` has rules for. Themes nobody knows and blank languages are values.
* A directory tree has its nodes numbered in the order of their paths, which is
  the order `children.sort()` produces. Entries are a file, a directory, a
  directory that cannot be read, a link to a directory (whose nodes are what it
  leads to), another link, or one whose metadata is refused. Other programs
  change what is below the root while a walk runs: an entry appears, goes with
  all that is below it, or a directory and a link to it take each other's place.
* A WASM module is whether it imports, whether it instantiates, and for each
  export its type and what calling it does; fuel and traps are one outcome.
* The response of an OfficeCLI child is one of five kinds (success, success
  without data, failure, unparseable, nothing), and a batch also has what
  became of each operation.
* `told` in `ImageService` is what a batch reports to its handler. Once sending
  on the channel of the window fails, `commands/image.rs` stops forwarding, and
  the batch goes on as before: the window is told a beginning of `told`.
* The staging directory of a plugin's installation has a name that is no
  plugin's id. `load_installed_plugins` passes over one that is left behind and
  nothing else reads it, so that only the place of the call stands for it.
* Image codecs refuse a source or return any length up to a bound. A download
  is chunks of given lengths; signature checks are a failure like any other.
* A panicking job is one of the outcomes of a generic job (`crash`).
* A job of `create_progress_task` reports 1..total; a generic job may report
  any number and end in any way, also twice or after a cancellation.
* OfficeCLI, the credential store, the servers, the broadcast ring, the file
  system and other programs are external: they are modelled by what the code
  expects of them, including failure after the effect where the code cannot
  tell the difference.
* OfficeService's commands never cancel today; the model lets a caller cancel,
  because the service accepts a token.
* `read_text` reads a content in one step, so it never mixes two versions. The
  stamps in the checked instance do not recur; section 6 says what happens
  when one does.
* Calls the code refuses without a change (unknown task, watch or plugin,
  invalid input) are either stuttering steps or left out.

## 4. Runs

| Run | Instance | Shows |
|---|---|---|
| `task_pool` | 2 clients, 2 workers, 1 shutdown, 2 ids, capacity 1, both job kinds | `EventProtocol`, `EventsTellRecords`, `NoStrandedTask`, `ImplementsLifecycle` |
| `task_queue` | 2 clients, 1 worker, 2 shutdowns, 3 ids, capacity 2, 2 steps | `FifoOrder`, `ShutdownIsFinal`, `SuccessReportedEveryStep` |
| `task_liveness` | 1 client, 2 workers, 1 shutdown, 2 ids, fair | `AcceptedTasksFinish`, `WorkersStopAfterShutdown`, `TerminalIsAnnounced` |
| `office_sessions` | 2 operations of any kind, 1 document, 1 new name, 1 failure or hang | `NoForgottenResident`, `RegisteredUntilGone`, `ForeignResidentsSurvive`, `CommittedOnlyWhenClosed` |
| `office_returns` | 2 operations (inspect, apply), 1 failure or hang, fair | `CallsReturn` |
| `office_exit` | 2 operations, commands only, no failure | `ExitLeavesNoResident` does **not** hold |
| `auth_session` | 2 callers, 2 users, 3 tokens, 1 failure, 1 restart, processes with and without the credential store | `MemoryAgreesWithStore`, `RenewalsAreFresh`, `EventsTellTheSession`, `SessionsBeginWithLogin` |
| `plugin_isolation` | 1 plugin, 1 failure, 1 restart | `FailedPluginsAreIsolated` does **not** hold |
| `plugin_reload` | the packages of `PluginExamples` | `EnabledPluginsReload` does **not** hold |
| `files` | 2 readers, 2 stops, 1 shutdown, 2 watches, 3 versions (one longer, one not UTF-8), 2 limits | `AnswersAreCurrent`, `WatchEndsOnce`, `ShutdownStopsWatches` |
| `file_limit` | the same | `AnswersWithinLimit` does **not** hold |
| `services` | eight parts, see below | see below |

The run `services` checks the eight services of `Services`. Its initial state
chooses a `part`; the behaviour then takes the steps of that service and leaves
the others at their beginning. Services that share no state
cannot disturb each other, so interleaving them would multiply states and show
nothing; this way the run has the sum of their states.

| `part` | Instance | Shows |
|---|---|---|
| `bus` | 2 publishers, 2 subscribers, 3 events, ring of 2 | `SequencesIncrease`, `LossIsReported`, `NoneMeansNothingBuffered` |
| `settings` | 2 commands and the load at startup, any number of restarts, 1 refused statement, 1 foreign edit; drafts that are current, or old with unknown values; a content that does not parse | `SettingsAreKept` |
| `updates` | 2 commands, 2 releases, downloads of up to 2 chunks | `InstallsWhatWasReported` |
| `images` | 2 batches of up to 2 items over 3 directories, one of them missing; 2 failing writes or removals | `ImagesKeepFiles`, `BatchesAddUp` |
| `index` | 7 trees of up to 6 nodes in 3 levels below the root, 3 changes during the walk, limits below, at and above what is there | `IndexIsPrefixOfTree` |
| `office` | 1 child of each of the 7 commands, batches of 2 | `RunsEndCleanly` |
| `plugins` | 2 plugins, 2 failures, 2 restarts | `StatusesAgree`, `ExecutedWhileStarted`, `OnlyRemovalDamages` |
| `packages` | 25 packages, 3 clock readings (one at the epoch), 1 replaced module | `AdmittedPackagesRun` |

What these properties say:

* `SettingsAreKept`. `load` may write, without a lock, what it migrated or
  recovered, and that could overwrite a save acknowledged in between. It does
  not, because the load at startup, which runs before any command, leaves
  nothing to repair. The property says so step by step: an answer is what the
  row holds; until the first reset only saves change the row; a content that
  does not parse is replaced only after its backup was tried. The limit is
  real: between the two statements of a reset a reader can write the defaults,
  and they can land on a later save.
* `InstallsWhatWasReported`. What an installation puts on the disk is what the
  last successful check told the user and announced on the bus, whatever is
  released, refused or retried in between; progress is well-formed.
* `ImagesKeepFiles`, `BatchesAddUp`. No batch overwrites, truncates or removes
  a whole file, also when a failed write is cleaned up; results, progress and
  files tell the same story.
* `IndexIsPrefixOfTree`. Entries come in path order, within both limits, and
  no entry that was there all the time is missing before the last one listed;
  an answer that is not truncated leaves nothing out, and one that is has used
  up the limit (a link that is left over is enough to say truncated). Of a walk
  that fails it says nothing: section 6 tells when that happens.
* `RunsEndCleanly`. Whatever ends the wait for a child, the child is gone and
  out of the registry when the call returns; success is only claimed for a
  clean exit with both streams whole, and for a batch only if all of it ran.
* `StatusesAgree`. Between calls memory, the last event and what a new process
  would load agree, except for a plugin whose removal failed half-way.
* `OnlyRemovalDamages`. Only an uninstall takes files out of a plugin's
  directory, whatever fails between two steps. A removal that fails half-way
  may leave a damaged directory: that is the exception, not checked further.
* `MemoryAgreesWithStore`. In a process that has the credential store memory
  and store hold one session between calls, also after a write that failed; only
  a start that could not use what is stored may leave a token there with nobody
  signed in. A process without the store keeps its session to itself, and the
  property does not speak of it (section 6).
* `ShutdownStopsWatches`. It is about the watches that were registered when
  shutdown took the registry; one that registers later ends with the process.
* `CallsReturn`. Whatever is cancelled, shut down or fails, every call that has
  begun returns, and shutdown ends. The exception is a call whose child hangs
  (see Fairness) and those that wait for the path of such a call, shutdown
  among them: the property says that nobody else is held up.
* `AdmittedPackagesRun`. An installed plugin loads again in the next process,
  however the clock moves, and its commands run exports that exist. It names
  the two exceptions, one of which is the finding of `plugin_reload`.

`EveryTypeOK` of `services`, and `TypeOK` in other runs, is the type invariant
of each module.

Why the bounds are enough. Each race in the code is between two parties, or
between two and a shutdown, for one record, one path, one token or one
registration: two of each actor, and one shutdown, give every pair of them
every order. Capacity 1 makes the channel full with the second task, a ring of
two slots lags with the third event, three ids in a channel of two can be
submitted in an order other than that of the ids. One failure is enough to
separate "failed before" from "failed after its effect"; two for plugins and
images let the failure of a repair follow the failure it repairs. One child is
enough for `office`: calls meet only in the registry, where each has its own
entry. One foreign edit gives every content of the row to every start. Two
releases let a newer one appear between a check and the installation.
Three versions allow a read between two writes and a third that is refused.

Symmetry is used where clients, workers, callers, readers or plugins are only
told apart by identity, and never with a liveness property. Where everything
has ended, the model has an explicit terminal step or refuses further calls
without a change.

### Fairness

* `task_liveness`: weak fairness of each worker's loop and of the progress
  job it runs (a thread of its own that only sleeps), and of shutdown calls
  that have begun. Clients are not fair: nobody has to submit, cancel or call
  shutdown. Generic jobs may never end in the code, so this run has none.
* `office_returns`: weak fairness of each operation that has begun and of
  shutdown: tasks on the async runtime are polled, and a child exits or is
  killed when its timeout has passed. That does not make every call return:
  `run_process` then waits, without a timeout, for the end of the child's two
  streams (`join_reader`, `infrastructure/office/mod.rs:209-210`), and a
  resident that inherited them may keep them open. `ChildHangs` takes a call
  from any of its children to `hung`; it may happen and is not fair, and no
  step leaves `hung`. tokio's mutex is fair (FIFO), and with two operations
  and a shutdown weak fairness of each is enough. Callers are not fair, and
  neither are other programs.

## 5. Proofs

TLAPS proves every safety property and every action property of the passing
runs, for every value of the constants: any number of clients, workers, callers,
batches or plugins, channels and rings of any size, trees of any shape. Only
what section 6 reports as violated, and liveness, has no theorem.

| Module | Theorems about |
|---|---|
| `TaskLifecycleProofs` | the abstract life cycle of tasks |
| `TaskManagerProofs` | the manager, and that it implements the life cycle |
| `OfficeServiceProofs`, `AuthServiceProofs`, `FileServiceProofs`, `ConfigServiceProofs` | the module of that name |
| `LongCommandsProofs` | EventBus, UpdateService, ImageService, FileIndex |
| `ServicesProofs` | PluginService, OfficeProcess, PluginPackage, and all parts of `Services` together |

### Tasks

* `TaskLifecycleProofs`. The abstract specification satisfies `EventProtocol`,
  `EventsTellRecords`, `TerminalAnnouncedOrOwed` and `TerminalIsFinal`.
* `TaskManagerProofs`. `TypeCorrect`, `TasksAreNotStranded`, `ShutdownFinality`,
  and `ManagerImplementsLifecycle`: every behaviour of the manager is one of
  `TaskLifecycle`. Through the refinement, `EventsFollowProtocol` and
  `EventsAgreeWithRecords` carry the theorems of `TaskLifecycleProofs` to the
  manager rather than prove them again. The inductive invariant `IInv` adds to
  the properties what makes them inductive: a drawn id has no record until its
  client holds the sender (`DrawnIdsAreFresh`); a flag is set exactly for
  cancelled tasks; what is queued is queued once, not in a worker's hands and not
  started (`QueuedIsWaiting`); what a worker holds fits its place
  (`HeldFitsPlace`); and what a shutdown still owes is cancelled and unchanged,
  and owed by one call only (`ClosersFit`). `NoStrandedTask` alone is not
  inductive: a worker that takes a task from the channel must be known to be the
  only one. From `IInv` also follow `JobsAreTakenInOrder` (`FifoOrder`), by what
  is in the channel and what has been taken out of it, and
  `SuccessMeansEveryStep` (`SuccessReportedEveryStep`), by what a progress job
  has reported at each place of its worker.

### Sessions, files and settings

* `FileServiceProofs`. `FilesTypeCorrect`; `AnswersStayCurrent` under the
  hypothesis `StampsDoNotRecur` (equal signatures mean equal versions, on which
  the validation of the cache rests); `WatchesEndOnce` and `ShutdownStopsThem`.
  The first invariant, `ReadInv`, says that a content is never older than the
  metadata it goes with in the three places where it can be: on the disk of a
  reader about to load, in a reader's hands, and in the cache. The second,
  `WatchInv`, says that a removed registration is in the hands of exactly one
  stop_watch or of the shutdown, and that a watch was counted as ended once
  exactly when it has stopped.
* `ConfigServiceProofs`. `ConfigTypeCorrect`, `RowStaysUsable` and
  `AcknowledgedSettingsAreKept` (`SettingsAreKept`). The property is about
  steps; what makes it true is an invariant over the whole life of a process:
  commands come only after the load at startup has answered, and then the row
  holds that answer (`StartupFits`); what an actor is about to write is
  normalised (`WritesFit`, from `MigrateNormalizes`: migrating twice changes
  nothing); so while commands are served and nobody has reset, the row is
  normalised and the only pending writes are saves (`ServiceFits`).
* `AuthServiceProofs`. `AuthTypeCorrect`, `MemoryFollowsStore`
  (`MemoryAgreesWithStore`), `RefreshTokensAreSpentOnce` (`RenewalsAreFresh`),
  `EventsFollowTheSession` (`EventsTellTheSession`) and
  `SessionsOnlyBeginWithLogin` (`SessionsBeginWithLogin`). That one call at
  most is inside `refresh_lock` is part of `TypeOK`. The invariant adds that
  nothing refers to a token the server has not issued (`IssuedOnly`), what the
  call inside has done at each of its places (`CallFits`), that memory and
  store differ only between its two writes (`Agreement`), that a token already
  spent is in use only while the call that spent it is about to replace it
  (`Freshness`), and that only a login not yet told separates the last event
  from the session (`EventFits`). A process without the store is kept
  apart throughout: its session is never the stored one.
* `OfficeServiceProofs`. `OfficeTypeCorrect`, `ResidentsAreKnown`
  (`NoForgottenResident`), `SessionsStayRegistered` (`RegisteredUntilGone`),
  `ForeignResidentsAreSpared` (`ForeignResidentsSurvive`) and
  `StagedFilesAreClosed` (`CommittedOnlyWhenClosed`). The argument is the
  exclusion of the path locks (`Exclusive`): two actors never work on one path,
  so a step leaves the others' facts alone (`OthersKeep`, proved once for every
  step) and each action is looked at from its own actor only (`OwnStepKeeps`).
  The invariant says what a call knows of its session (`CallFits`), that its
  staging file is nobody else's (`StagedFits`), and that on every path a
  registered session is the service's own and an own resident is registered or
  being dealt with (`PathFits`). A hung call keeps its lock and what it knows
  for ever, which is why `PathFits` holds with it.

### The parts of `Services`

`LongCommandsProofs` and `ServicesProofs` have one inductive invariant per part.

* Events: `BusTypeCorrect`, `OneOrderForEverybody` (`SequencesIncrease`),
  `NoSilentLoss` (`LossIsReported`) and `NoneIsTrue`
  (`NoneMeansNothingBuffered`). `IInv` says that the lock protects assignment
  and sending together, that the log is sorted and older than anything still
  being sent, and that what a subscriber saw lies behind its cursor. `Books`,
  inductive on top of it, is kept per subscriber: what its cursor has passed it
  was told, or told that it lost some; the events and losses it was told of add
  up to the distance the cursor has moved; and `Closed` was told last, with
  nobody inside publish.
* Updates: `OneAtATime` (the lock is held by the one command that is not idle),
  `PendingFits` (the pending update is the one reported and announced, and what
  was reported and is no longer pending is installed; between retaining and
  reporting, the check that does so is the exception) and `ProgressTold`, which
  for a download that goes on has to know the sum of the chunks told so far.
* Images: `ItemsFit` counts the events of a batch by the step it is at,
  `CountsFit` relates the counts and totals to what was told, `OutputsFit` says
  that a batch between create_new and the end of its write has an incomplete
  file of its own, and `WrittenIsThere` that what was reported is on the disk.
  `ImagesKeepFiles` follows from `OutputsFit`: a batch writes or removes only
  where nothing whole is.
* Index: with the directories in path order, `AboveIsBefore`,
  `AboveIsTransitive` and `BelowIsContiguous` say what the order means for the
  tree. The invariant says that the children left on the stack come after all
  entries and after the directories above them on the stack (`ChildrenFit`,
  `StackFits`, `OpeningFits`), and that every place that is still to be listed
  is an entry or lies ahead (`NothingSkipped`); the property is what remains of
  this when nothing is ahead. The changes of the tree keep it because they only
  remove places from those that were there all the time.
* Office processes: `StageFits` says what a child, its streams and its result
  can be at each stage of a call, and `RunsInv` that a cancellation was asked
  for by somebody who may, and that the registry has only calls that wait for
  their child or are about to take it out.
* Plugins: `CallFitsPlace` says which call is at which place with which status;
  `MemoryFitsDisk` and `EventsFitMemory` that memory, disk and events differ
  only for the plugin of the call between its effects; `EnabledAreStarted` that
  the enable hook of an enabled plugin ran, or is about to in the restore.
* Packages: a directory is what `install` has written but for its state and a
  replaced module (`DirectoryFits`), its exports fit the manifest until the
  module is replaced (`ExportsFit`). `AsManyValuesAsPlaces` (a sequence with as
  many values as places repeats none) turns the comparison of cardinalities in
  the validation into distinct commands and exports.
* Together: the lemma `PartsRun` says that every behaviour of `Services` is one
  of each part, since its steps are steps or stutters of the part
  (`StepsOfTheParts`). With it the results hold of `Services`:
  `EveryPartIsTyped`, `AcknowledgedSettingsStay`,
  `OnlyReportedVersionsAreInstalled`, `NoBatchCostsAFile`,
  `ResultsOfBatchesAddUp`, `IndexesAreBeginningsOfTrees`,
  `RunsLeaveNothingBehind`, `PluginStatusesAgree`, `CommandsRunWhileStarted`,
  `OnlyUninstallDamages` and `AdmittedPluginsRun`. The theorems of
  `ConfigServiceProofs` are instantiated for the settings (`SettingsProofs`).

Induction. The induction theorems of the library take an operator as parameter,
which the provers cannot instantiate. Sums over what was told (`Accounted`,
`Total`), cardinalities of what was told and the depth of a directory need
induction all the same. `InductionOnNaturals` states it with a set in the place
of the operator and derives it from the well-foundedness of < on the naturals;
`SumsExist`, `SumsAgree` and `SumsOfOneMore` are what the sums need of it,
`UpsExist` what the way up to the root of a tree needs. This is why the
recursive definitions are functions, why the properties count positions
(`Told(b, statuses)`) rather than filter sequences, and why a frame of the walk
keeps a set of children.

### Assumptions

The named `ASSUME` of each module: capacities and totals are positive, filters
are non-empty sets of kinds, "nobody" values are not members of the sets they
are added to, a path is any directory with any name, a manifest that parses has
a finite sequence of commands. Modules used through INSTANCE name theirs as a
definition (`ConfigServiceAssumption`), which `LongCommands` and `Services`
assume of their instances, or which is the hypothesis of a theorem. TLC
evaluates all of them in the runs. The bounds (`MaxId`, `MaxSequence`, ...) are
constants too, so the theorems hold for every bound. One theorem has a
hypothesis of its own, `AnswersStayCurrent`.

### Only model-checked

The temporal properties under fairness: `AcceptedTasksFinish`,
`WorkersStopAfterShutdown`, `TerminalIsAnnounced` and `CallsReturn`; TLAPS proves
neither liveness under fairness nor ENABLED. And the four properties that do
not hold, where the runs show the behaviour that breaks them.

## 6. What the checks found

* **Exit can leave a resident** (`office_exit`). An operation whose `open`
  returns while shutdown begins finds `accepting` false and closes the session
  it never registered, best effort; `cancel_all` of shutdown kills that close;
  shutdown then closes the registered sessions only.
  `docs/officecli-integration-prd.md:115` and `:121` promise otherwise.
* **A cached read can exceed `max_bytes`** (`file_limit`). The cache stores the
  content under the metadata seen before it was read; a file that grew in
  between is cached under the signature of its shorter version, and a
  concurrent read with a smaller limit that saw the shorter version is
  answered with the longer content (`docs/file-service.md:29-32`).
* **A failing plugin can stay enabled** (`plugin_isolation`). Quarantine is a
  disk write; when it fails it is only logged (`docs/lifecycle.md:13`).
* **An enabled plugin can be missing after a restart** (`plugin_reload`).
  `install` applies the 64 KiB limit to the manifest as it was read and stores
  it pretty-printed, which can be longer; the next start applies the limit to
  what was stored, ignores the plugin, and its directory makes another
  installation a conflict (`docs/plugin-system.md:91`).
* Not a run: `docs/event-bus.md:104` says that a task's transition and its
  event are completed under one record lock. `cancel`, progress and completion
  do so; `shutdown` cancels under the lock and publishes after releasing it
  (`application/task_service.rs:278-299`). The abstract life cycle has the
  mass cancellation and the owed announcements for this reason, and
  `TerminalIsAnnounced` shows that they follow.
* Not a run: `AnswersAreCurrent` rests on signatures that do not recur. With a
  stamp that recurs (an older file moved back with its modification time, or
  two writes of one length within the clock's granularity) the cache answers
  the wrong content, also when a watch is active, since a reader may insert
  after the watcher has emptied the cache.

* Not a run: an unreadable directory fails the whole index.
  `docs/file-service.md:66` says 无法读取的子条目会记录诊断并跳过, children that
  cannot be read are logged and skipped. `visit_directory` does skip those whose
  metadata is refused, but the error of `fs::read_dir` on a directory below the
  root (`infrastructure/filesystem/mod.rs:311-312`) goes up with `?` and no index
  is answered. `OpenFails` is that step.
* Not a run: `docs/file-service.md:65` says that links are not followed, to
  avoid cycles. An entry's kind is taken from `symlink_metadata` (`:329`), and
  `fs::read_dir` is called on its path later (`:311`): a directory that has
  become a link in between is followed. `max_depth` still ends the walk.
* Not a run: without a credential store (`app/bootstrap.rs:73-82`) login answers
  Ok and the session ends with the process; `docs/ipc.md:81` has
  `auth_storage_unavailable` for a session that cannot be stored safely. A logout
  in such a process answers Ok and leaves the credential of an earlier one
  (`docs/security.md:74`: logout clears store and memory), which a later process
  that gets the store restores. The model has both.
* Not a run: `docs/officecli-integration-prd.md:175` promises every call of a
  process a fixed timeout. Waiting for the streams of a child has none (see
  Fairness). A shutdown that waits for a hung call never ends, and `on_exit`
  blocks on it (`app/lifecycle.rs:36`).
* Not a run: `docs/auto-update.md:78` says of the progress event `finished` that
  the signature has been verified. The callback that sends it runs when the
  download has ended, before the updater verifies: `InstallFails` may follow it.

## 7. Not modelled, and what could follow

Left out, with the reason:

* The order in which `on_exit` stops the services. They share only the bus and
  the process; each module models its own stop with calls in flight, and no
  state of one tells whether another has stopped.
* Of Office: the validation of cell operations before they are sent and the
  checks of a rendered image (pure predicates over strings and bytes), the
  staging directories that a crash leaves behind, and the sidecar's digest.
* Of the database: the schema migrations SQLx runs once at `connect`.
* Validation of IPC arguments in `commands/task.rs` and the table of error
  codes and texts in `commands/error.rs`: functions without state.
* The interior of Wasmtime, the image codecs, the Tauri updater, SQLite, tokio
  and the operating system's watchers: third-party code, modelled by what the
  callers rely on.
* Logging (only output), the React views (no state the services depend on),
  build and release scripts (not part of the running program).

Worth doing next: an abstract specification of the plugin service (a status per
plugin, changed by whole calls) that `PluginService` implements, as a theorem;
the properties of section 6 that fail, proved under the hypothesis that excludes
the failure (`EnabledPluginsReload` where no rewritten manifest outgrows the
limit, `FailedPluginsAreIsolated` where no write of the disk fails); an instance
of `services` with two faults and two foreign edits, and one with two children.
