---------------------------- MODULE FileService -----------------------------
(***************************************************************************)
(* FileService of application/file_service.rs over the LocalFileRepository *)
(* of infrastructure/filesystem/mod.rs: bounded text reads through a cache *)
(* keyed by path and validated by a metadata signature, and a registry of  *)
(* operating-system watches whose callback empties the cache.              *)
(*                                                                         *)
(* Reads, start_watch, stop_watch and shutdown run on threads of their own *)
(* and meet in the cache and in the mutex-guarded registry.  The files are *)
(* not the program's: anything may write or remove one between two steps.  *)
(* A state of a file is a version number, new for every write; versions    *)
(* have a size and a stamp, which is the signature of their metadata.  Two *)
(* versions may have one stamp: a length and a modification time that      *)
(* recur.                                                                  *)
(***************************************************************************)
EXTENDS Integers

CONSTANTS
  Files,       (* canonical paths                                          *)
  Roots,       (* sets of files a watch can cover                          *)
  Readers,     (* threads in read_text_file                                *)
  Stoppers,    (* threads in stop_watch                                    *)
  Limits,      (* the max_bytes that callers pass                          *)
  Size,        (* length of each version                                   *)
  Stamp,       (* FileSignature of each version                            *)
  Binary,      (* the versions that are not UTF-8                          *)
  MaxVersion,  (* bound: writes to the disk                                *)
  MaxWatches   (* bound: start_watch calls that get an id                  *)

Versions == 1..MaxVersion
WatchIds == 1..MaxWatches
Absent == 0

ASSUME FileServiceAssumption ==
  /\ MaxVersion \in Nat /\ MaxWatches \in Nat
  /\ Files # {}
  /\ Roots \subseteq (SUBSET Files) \ {{}}
  /\ Limits \subseteq Nat \ {0}
  /\ Size \in [Versions -> Nat]
  /\ Stamp \in [Versions -> Nat]
  /\ Binary \subseteq Versions

VARIABLES
  disk,       (* the version of each file, Absent when there is none       *)
  written,    (* versions written so far                                   *)
  textCache,  (* text_cache: the signature and the content kept for a path *)
  reading,    (* the read_text call of each reader                         *)
  watch,      (* the stage of each watch id                                *)
  covers,     (* the files below the root of each watch                    *)
  pending,    (* changes the system has not delivered to the callback yet  *)
  stopping,   (* the registration each stop_watch has removed, 0 for none  *)
  ended,      (* how many calls counted each watch as stopped by them      *)
  shutdown,   (* stage of shutdown                                         *)
  taken,      (* registrations shutdown has taken and not yet unwatched    *)
  atExit      (* history: the watches registered when shutdown was called  *)

diskVars == <<disk, written>>
watchVars == <<watch, covers>>
stopVars == <<stopping, ended>>
exitVars == <<shutdown, taken, atExit>>
vars == <<diskVars, textCache, reading, watchVars, pending,
          stopVars, exitVars>>

Empty == [stamp |-> 0, content |-> Absent]
Cached(version, content) == [stamp |-> Stamp[version], content |-> content]
Cleared == [f \in Files |-> Empty]

(* A call that is not reading: nothing of the previous one is left. *)
Idle(f) == [step |-> "idle", file |-> f, limit |-> 0, seen |-> Absent,
            content |-> Absent]
AnyFile == CHOOSE f \in Files : TRUE

(* The watches whose operating-system watcher exists: its callback runs    *)
(* from before the registration until the watcher is unwatched or dropped. *)
Running == {w \in WatchIds : watch[w] \in {"created", "registered", "removed"}}
Registered == {w \in WatchIds : watch[w] = "registered"}

Init ==
  /\ disk = [f \in Files |-> Absent] /\ written = 0
  /\ textCache = Cleared
  /\ reading = [r \in Readers |-> Idle(AnyFile)]
  /\ watch = [w \in WatchIds |-> "unused"]
  /\ covers = [w \in WatchIds |-> {}]
  /\ pending = [w \in WatchIds |-> {}]
  /\ stopping = [s \in Stoppers |-> 0]
  /\ ended = [w \in WatchIds |-> 0]
  /\ shutdown = "none" /\ taken = {} /\ atExit = {}

-----------------------------------------------------------------------------
(* The file system and its notifications, which may be merged.             *)

Notified(f) ==
  pending' = [w \in WatchIds |->
                IF w \in Running /\ f \in covers[w]
                THEN pending[w] \cup {f} ELSE pending[w]]

Write(f) ==
  /\ written < MaxVersion
  /\ written' = written + 1
  /\ disk' = [disk EXCEPT ![f] = written + 1]
  /\ Notified(f)
  /\ UNCHANGED <<textCache, reading, watchVars, stopVars, exitVars>>

Remove(f) ==
  /\ disk[f] # Absent
  /\ disk' = [disk EXCEPT ![f] = Absent]
  /\ Notified(f)
  /\ UNCHANGED <<written, textCache, reading, watchVars, stopVars,
                 exitVars>>

(* The callback: one event with the paths that changed empties the cache.  *)
(* The FileChanged it then publishes for each path goes to the bus that    *)
(* EventBus models, and nothing here reads it back.                        *)
Callback(w) ==
  /\ w \in Running /\ pending[w] # {}
  /\ textCache' = Cleared
  /\ pending' = [pending EXCEPT ![w] = {}]
  /\ UNCHANGED <<diskVars, reading, watchVars, stopVars, exitVars>>

-----------------------------------------------------------------------------
(* read_text: metadata, cache, content, insertion.                         *)

UnchangedByReads ==
  UNCHANGED <<diskVars, watchVars, pending, stopVars, exitVars>>

Move(r, step) == reading' = [reading EXCEPT ![r].step = step]
Got(r, step, content) ==
  reading' = [reading EXCEPT ![r] = [@ EXCEPT !.step = step, !.content = content]]
End(r) == reading' = [reading EXCEPT ![r] = Idle(AnyFile)]

Accepted(f, limit) == disk[f] # Absent /\ Size[disk[f]] <= limit

Stat(r, f, limit) ==
  /\ reading[r].step = "idle" /\ Accepted(f, limit)
  /\ reading' = [reading EXCEPT ![r] =
       [step |-> "stat", file |-> f, limit |-> limit, seen |-> disk[f],
        content |-> Absent]]
  /\ UNCHANGED textCache /\ UnchangedByReads

(* No file, or one that is too long: an error that leaves no trace. *)
StatFails(r, f, limit) ==
  /\ reading[r].step = "idle" /\ ~ Accepted(f, limit)
  /\ UNCHANGED <<textCache, reading>> /\ UnchangedByReads

Entry(r) == textCache[reading[r].file]

Valid(r) ==
  /\ Entry(r) # Empty
  /\ Entry(r).stamp = Stamp[reading[r].seen]

Hit(r) ==
  /\ reading[r].step = "stat" /\ Valid(r)
  /\ Got(r, "answered", Entry(r).content)
  /\ UNCHANGED textCache /\ UnchangedByReads

Miss(r) ==
  /\ reading[r].step = "stat" /\ ~ Valid(r)
  /\ Move(r, IF Entry(r) = Empty THEN "load" ELSE "outdated")
  /\ UNCHANGED textCache /\ UnchangedByReads

(* The lookup and the invalidation are two calls of the cache: another     *)
(* reader may have replaced the entry between them.                        *)
Invalidate(r) ==
  /\ reading[r].step = "outdated"
  /\ textCache' = [textCache EXCEPT ![reading[r].file] = Empty]
  /\ Move(r, "load")
  /\ UnchangedByReads

(* Faulty variant: bytes that are not UTF-8 are kept. *)
ReadableBytes(r) ==
  LET version == disk[reading[r].file]
  IN  version # Absent /\ Size[version] <= reading[r].limit

(* The content is read in one step: bytes of two versions are not mixed. *)
Readable(r) ==
  LET version == disk[reading[r].file]
  IN  /\ version # Absent /\ version \notin Binary
      /\ Size[version] <= reading[r].limit

Load(r) ==
  /\ reading[r].step = "load" /\ Readable(r)
  /\ Got(r, "loaded", disk[reading[r].file])
  /\ UNCHANGED textCache /\ UnchangedByReads

(* The file is gone, has grown beyond max_bytes, or is not UTF-8. *)
LoadFails(r) ==
  /\ reading[r].step = "load" /\ ~ Readable(r)
  /\ End(r)
  /\ UNCHANGED textCache /\ UnchangedByReads

(* Faulty variant: the signature is taken again after the content. *)
SignatureAfterwards(r) ==
  LET version == disk[reading[r].file]
  IN  IF version = Absent THEN reading[r].seen ELSE version

Signature(r) == reading[r].seen

Insert(r) ==
  /\ reading[r].step = "loaded"
  /\ textCache' = [textCache EXCEPT ![reading[r].file] =
                     Cached(Signature(r), reading[r].content)]
  /\ Move(r, "answered")
  /\ UnchangedByReads

Answered(r) ==
  /\ reading[r].step = "answered"
  /\ End(r)
  /\ UNCHANGED textCache /\ UnchangedByReads

(* clear_cache empties the cache; capacity and time to live drop an entry. *)
ClearCache ==
  /\ textCache # Cleared
  /\ textCache' = Cleared
  /\ UNCHANGED reading /\ UnchangedByReads

Evict(f) ==
  /\ textCache[f] # Empty
  /\ textCache' = [textCache EXCEPT ![f] = Empty]
  /\ UNCHANGED reading /\ UnchangedByReads

-----------------------------------------------------------------------------
(* start_watch: the id, the watcher, the registration.                     *)

UnchangedByWatches ==
  UNCHANGED <<diskVars, textCache, reading>>

NextWatchId(w) == watch[w] = "unused" /\ \A v \in 1..(w - 1) : watch[v] # "unused"

StartWatch(w, root) ==
  /\ NextWatchId(w)
  /\ \E f \in root : disk[f] # Absent
  /\ watch' = [watch EXCEPT ![w] = "created"]
  /\ covers' = [covers EXCEPT ![w] = root]
  /\ UNCHANGED <<pending, stopVars, exitVars>> /\ UnchangedByWatches

(* The platform refuses the watch: the id is spent, the watcher dropped. *)
StartWatchFails(w) ==
  /\ NextWatchId(w)
  /\ watch' = [watch EXCEPT ![w] = "refused"]
  /\ UNCHANGED <<covers, pending, stopVars, exitVars>> /\ UnchangedByWatches

Register(w) ==
  /\ watch[w] = "created"
  /\ watch' = [watch EXCEPT ![w] = "registered"]
  /\ UNCHANGED <<covers, pending, stopVars, exitVars>> /\ UnchangedByWatches

-----------------------------------------------------------------------------
(* stop_watch: the registration is removed under the lock, and what was    *)
(* removed is unwatched after it is released.                              *)

(* Faulty variant: the registration is found first and removed later. *)
RemoveRegistrationLate(s, w) ==
  /\ stopping[s] = 0 /\ w \in Registered
  /\ stopping' = [stopping EXCEPT ![s] = w]
  /\ UNCHANGED <<watchVars, pending, ended, exitVars>> /\ UnchangedByWatches

RemoveRegistration(s, w) ==
  /\ stopping[s] = 0 /\ w \in Registered
  /\ watch' = [watch EXCEPT ![w] = "removed"]
  /\ stopping' = [stopping EXCEPT ![s] = w]
  /\ UNCHANGED <<covers, pending, ended, exitVars>> /\ UnchangedByWatches

(* The watcher ends, and what it had not delivered is not delivered. *)
Unwatched(w) ==
  /\ watch' = [watch EXCEPT ![w] = "stopped"]
  /\ pending' = [pending EXCEPT ![w] = {}]
  /\ ended' = [ended EXCEPT ![w] = @ + 1]
  /\ UNCHANGED covers /\ UnchangedByWatches

Unwatch(s) ==
  /\ stopping[s] # 0
  /\ Unwatched(stopping[s])
  /\ stopping' = [stopping EXCEPT ![s] = 0]
  /\ UNCHANGED exitVars

-----------------------------------------------------------------------------
(* shutdown takes the whole registry under the lock, unwatches what it     *)
(* took and empties the cache.                                             *)

(* Faulty variant: only the last registration is unwatched. *)
TakenPartly == {w \in Registered : \A v \in Registered : v <= w}
Registrations == Registered

Take ==
  /\ shutdown = "none"
  /\ shutdown' = "stopping"
  /\ watch' = [w \in WatchIds |->
                IF w \in Registered THEN "removed" ELSE watch[w]]
  /\ taken' = Registrations
  /\ atExit' = Registered
  /\ UNCHANGED <<covers, pending, stopVars>> /\ UnchangedByWatches

(* In the order of the ids. *)
UnwatchTaken(w) ==
  /\ shutdown = "stopping"
  /\ w \in taken /\ \A v \in taken : w <= v
  /\ Unwatched(w)
  /\ taken' = taken \ {w}
  /\ UNCHANGED <<stopping, shutdown, atExit>>

ShutdownReturns ==
  /\ shutdown = "stopping" /\ taken = {}
  /\ shutdown' = "returned"
  /\ textCache' = Cleared
  /\ UNCHANGED <<diskVars, reading, watchVars, pending, stopVars,
                 taken, atExit>>

-----------------------------------------------------------------------------
FileSystemNext == \E f \in Files : Write(f) \/ Remove(f)

ReadNext ==
  \/ \E r \in Readers :
       \/ \E f \in Files, limit \in Limits :
            Stat(r, f, limit) \/ StatFails(r, f, limit)
       \/ Hit(r) \/ Miss(r) \/ Invalidate(r)
       \/ Load(r) \/ LoadFails(r) \/ Insert(r) \/ Answered(r)
  \/ ClearCache
  \/ \E f \in Files : Evict(f)

WatchNext ==
  \/ \E w \in WatchIds :
       \/ Callback(w)
       \/ \E root \in Roots : StartWatch(w, root)
       \/ StartWatchFails(w) \/ Register(w) \/ UnwatchTaken(w)
       \/ \E s \in Stoppers : RemoveRegistration(s, w)
  \/ \E s \in Stoppers : Unwatch(s)
  \/ Take \/ ShutdownReturns

Next == FileSystemNext \/ ReadNext \/ WatchNext

Spec == Init /\ [][Next]_vars

-----------------------------------------------------------------------------
(* Every variable stays in the set its comment gives. *)
TypeOK ==
  /\ disk \in [Files -> 0..MaxVersion] /\ written \in 0..MaxVersion
  /\ textCache \in [Files -> {Empty} \cup
       {Cached(version, content) : version \in Versions,
                                   content \in Versions \ Binary}]
  /\ reading \in [Readers ->
       [step : {"idle", "stat", "outdated", "load", "loaded", "answered"},
        file : Files, limit : Limits \cup {0}, seen : 0..MaxVersion,
        content : {Absent} \cup (Versions \ Binary)]]
  /\ watch \in [WatchIds -> {"unused", "refused", "created", "registered",
                             "removed", "stopped"}]
  /\ covers \in [WatchIds -> Roots \cup {{}}]
  /\ pending \in [WatchIds -> SUBSET Files]
  /\ stopping \in [Stoppers -> {0} \cup WatchIds]
  /\ ended \in [WatchIds -> Nat]
  /\ shutdown \in {"none", "stopping", "returned"}
  /\ taken \subseteq WatchIds /\ atExit \subseteq WatchIds

(* What a read answers, from the cache or not, was the content of the file *)
(* at some moment of that call: never older than the metadata the call     *)
(* itself saw.  It needs stamps that do not recur, on which the validation *)
(* of read_text rests.                                                     *)
AnswersAreCurrent ==
  \A r \in Readers :
    reading[r].step = "answered" => reading[r].content >= reading[r].seen

(* A watch is stopped by one call: of the stop_watch calls and the         *)
(* shutdown that race for it, one answers that it stopped it and the       *)
(* others that they found nothing.                                         *)
WatchEndsOnce == \A w \in WatchIds : ended[w] <= 1

(* When shutdown has returned, every watch that was registered when it was *)
(* called has ended, and no callback of it runs any more.                  *)
ShutdownStopsWatches ==
  shutdown = "returned" => \A w \in atExit : watch[w] = "stopped"

(* What read_text_file answers is no longer than the max_bytes of that     *)
(* call: the file-service document says that both the metadata check and   *)
(* the bounded read enforce it, the second one against growth during the   *)
(* read.                                                                   *)
AnswersWithinLimit ==
  \A r \in Readers :
    reading[r].step = "answered" => Size[reading[r].content] <= reading[r].limit
=============================================================================
