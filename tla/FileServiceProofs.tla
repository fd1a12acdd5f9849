-------------------------- MODULE FileServiceProofs -------------------------
(***************************************************************************)
(* Proofs about FileService for any files, readers, limits, versions and   *)
(* watches: types, that cached answers are current when stamps do not      *)
(* recur, that one call ends a watch, and that shutdown ends all.          *)
(***************************************************************************)
EXTENDS FileService, TLAPS

(* What the validation of the cache rests on: equal signatures mean equal  *)
(* versions.                                                               *)
StampsDoNotRecur ==
  \A v, w \in Versions : Stamp[v] = Stamp[w] => v = w

(* A content is never older than the metadata it goes with: in the hands   *)
(* of a reader, on the disk a reader is about to read, and in the cache.   *)
DiskIsWritten == \A f \in Files : disk[f] <= written

SeenWasWritten ==
  \A r \in Readers :
    reading[r].step # "idle" => reading[r].seen \in 1..written

UnreadIsNewer ==
  \A r \in Readers :
    reading[r].step \in {"stat", "outdated", "load"}
      => \/ disk[reading[r].file] = Absent
         \/ disk[reading[r].file] >= reading[r].seen

ReadIsText ==
  \A r \in Readers :
    reading[r].step \in {"loaded", "answered"}
      => reading[r].content \in Versions \ Binary

ReadIsNewer ==
  \A r \in Readers :
    reading[r].step \in {"loaded", "answered"}
      => reading[r].content >= reading[r].seen

CachedIsNewer ==
  \A f \in Files :
    textCache[f] # Empty
      => \E v \in Versions : /\ textCache[f].stamp = Stamp[v]
                             /\ textCache[f].content >= v

Typed == TypeOK /\ DiskIsWritten /\ SeenWasWritten /\ ReadIsText

ReadInv == Typed /\ UnreadIsNewer /\ ReadIsNewer /\ CachedIsNewer

(* The types of the registry and of the calls that end watches.           *)
RegistryTyped ==
  /\ watch \in [WatchIds -> {"unused", "refused", "created", "registered",
                             "removed", "stopped"}]
  /\ covers \in [WatchIds -> Roots \cup {{}}]
  /\ pending \in [WatchIds -> SUBSET Files]
  /\ stopping \in [Stoppers -> {0} \cup WatchIds]
  /\ ended \in [WatchIds -> Nat]
  /\ shutdown \in {"none", "stopping", "returned"}
  /\ taken \subseteq WatchIds /\ atExit \subseteq WatchIds

(* A registration that has been removed is in the hands of one call.       *)
HeldRegistrations ==
  /\ \A s \in Stoppers : stopping[s] # 0 => watch[stopping[s]] = "removed"
  /\ \A w \in taken : watch[w] = "removed"
  /\ \A s \in Stoppers : stopping[s] \notin taken
  /\ \A s, t \in Stoppers :
       stopping[s] # 0 /\ stopping[s] = stopping[t] => s = t

EndedIsStopped ==
  \A w \in WatchIds : ended[w] = IF watch[w] = "stopped" THEN 1 ELSE 0

ExitIsUnderWay ==
  /\ shutdown = "none" => taken = {} /\ atExit = {}
  /\ shutdown = "returned" => taken = {}
  /\ \A w \in atExit : w \in taken \/ watch[w] = "stopped"

WatchInv ==
  RegistryTyped /\ HeldRegistrations /\ EndedIsStopped /\ ExitIsUnderWay

-----------------------------------------------------------------------------
(* Types.                                                                  *)

ReaderStep(r) ==
  \/ \E f \in Files, limit \in Limits :
       Stat(r, f, limit) \/ StatFails(r, f, limit)
  \/ Hit(r) \/ Miss(r) \/ Invalidate(r)
  \/ Load(r) \/ LoadFails(r) \/ Insert(r) \/ Answered(r)

Calls == [step : {"idle", "stat", "outdated", "load", "loaded", "answered"},
          file : Files, limit : Limits \cup {0}, seen : 0..MaxVersion,
          content : {Absent} \cup (Versions \ Binary)]

LEMMA GotIsCall ==
  ASSUME NEW call \in Calls, NEW content \in Versions \ Binary,
         NEW step \in {"loaded", "answered"}
  PROVE  [call EXCEPT !.step = step, !.content = content] \in Calls
BY DEF Calls

LEMMA IdleIsCall == Idle(AnyFile) \in Calls
BY FileServiceAssumption DEF Idle, AnyFile, Calls, Absent

LEMMA InitTyped == Init => Typed
<1> SUFFICES ASSUME Init PROVE Typed
  OBVIOUS
<1>1. disk \in [Files -> 0..MaxVersion] /\ written \in 0..MaxVersion
  BY FileServiceAssumption DEF Init, Absent
<1>2. reading \in [Readers -> Calls]
  BY IdleIsCall DEF Init
<1> QED
  BY <1>1, <1>2, FileServiceAssumption
     DEF Init, Typed, TypeOK, Cleared, Calls, DiskIsWritten, SeenWasWritten,
         ReadIsText, Idle, Absent

LEMMA FileSystemKeepsTyped == Typed /\ FileSystemNext => Typed'
<1> SUFFICES ASSUME Typed, NEW f \in Files, Write(f) \/ Remove(f) PROVE Typed'
  BY DEF FileSystemNext
<1>1. /\ disk' \in [Files -> 0..MaxVersion] /\ written' \in 0..MaxVersion
      /\ written' >= written /\ DiskIsWritten'
  BY FileServiceAssumption DEF Typed, TypeOK, DiskIsWritten, Write, Remove, Absent
<1>2. pending' \in [WatchIds -> SUBSET Files]
  BY DEF Typed, TypeOK, Write, Remove, Notified
<1>3. UNCHANGED <<textCache, reading, watchVars, stopVars, exitVars>>
  BY DEF Write, Remove
<1>4. TypeOK'
  BY <1>1, <1>2, <1>3 DEF Typed, TypeOK, watchVars, stopVars, exitVars
<1> QED
  BY <1>1, <1>3, <1>4 DEF Typed, TypeOK, SeenWasWritten, ReadIsText

LEMMA ReaderStepKeepsTyped ==
  ASSUME Typed, NEW r \in Readers, ReaderStep(r) PROVE Typed'
<1>0. TypeOK /\ DiskIsWritten
  BY DEF Typed
<1>1. /\ reading \in [Readers -> Calls]
      /\ reading[r].step # "idle" => reading[r].seen \in 1..written
      /\ reading[r].step \in {"loaded", "answered"}
           => reading[r].content \in Versions \ Binary
  BY DEF Typed, TypeOK, Calls, SeenWasWritten, ReadIsText
<1>2. reading[r] \in Calls /\ reading[r].file \in Files
  BY <1>1 DEF Calls
<1>3. /\ disk \in [Files -> 0..MaxVersion] /\ written \in 0..MaxVersion
      /\ textCache \in [Files -> {Empty} \cup
           {Cached(version, content) : version \in Versions,
                                       content \in Versions \ Binary}]
  BY <1>0 DEF TypeOK
<1> DEFINE NewCall ==
      /\ reading' = [reading EXCEPT ![r] = reading'[r]]
      /\ reading'[r] \in Calls
      /\ reading'[r].step # "idle" => reading'[r].seen \in 1..written
      /\ reading'[r].step \in {"loaded", "answered"}
           => reading'[r].content \in Versions \ Binary
    NewCache ==
      textCache' \in [Files -> {Empty} \cup
        {Cached(version, content) : version \in Versions,
                                    content \in Versions \ Binary}]
<1>4. NewCall /\ NewCache
  <2>1. ASSUME NEW f \in Files, NEW limit \in Limits,
               Stat(r, f, limit) \/ StatFails(r, f, limit)
        PROVE  NewCall /\ NewCache
    <3>1. CASE Stat(r, f, limit)
      <4>1. disk[f] \in 1..written
        BY <1>0, <1>3, <3>1 DEF Stat, Accepted, DiskIsWritten, Absent
      <4> QED
        BY <1>1, <1>3, <3>1, <4>1, FileServiceAssumption
           DEF Stat, Calls, Absent
    <3>2. CASE StatFails(r, f, limit)
      BY <1>1, <1>2, <1>3, <3>2 DEF StatFails
    <3> QED
      BY <2>1, <3>1, <3>2
  <2>2. CASE Hit(r)
    <3>1. Entry(r).content \in Versions \ Binary
      BY <1>2, <1>3, <2>2 DEF Hit, Valid, Entry, Cached
    <3>2. reading'[r] = [reading[r] EXCEPT !.step = "answered",
                                           !.content = Entry(r).content]
      BY <1>1, <2>2 DEF Hit, Got
    <3>3. reading' = [reading EXCEPT ![r] = reading'[r]]
      BY <1>1, <2>2 DEF Hit, Got
    <3>4. /\ reading'[r].seen = reading[r].seen
          /\ reading'[r].content = Entry(r).content
      BY <1>2, <3>2 DEF Calls
    <3>5. reading'[r] \in Calls
      BY <1>2, <3>1, <3>2, GotIsCall
    <3>6. reading'[r].seen \in 1..written
      BY <1>1, <2>2, <3>4 DEF Hit
    <3>7. NewCall
      BY <3>1, <3>3, <3>4, <3>5, <3>6
    <3> QED
      BY <1>3, <2>2, <3>7 DEF Hit
  <2>3. CASE Miss(r)
    BY <1>1, <1>2, <1>3, <2>3 DEF Miss, Move, Calls
  <2>4. CASE Invalidate(r)
    BY <1>1, <1>2, <1>3, <2>4 DEF Invalidate, Move, Calls
  <2>5. CASE Load(r)
    <3>1. disk[reading[r].file] \in Versions \ Binary
      BY <1>2, <1>3, <2>5 DEF Load, Readable, Versions, Absent
    <3>2. reading'[r] = [reading[r] EXCEPT !.step = "loaded",
                                           !.content = disk[reading[r].file]]
      BY <1>1, <2>5 DEF Load, Got
    <3>3. reading' = [reading EXCEPT ![r] = reading'[r]]
      BY <1>1, <2>5 DEF Load, Got
    <3>4. /\ reading'[r].seen = reading[r].seen
          /\ reading'[r].content = disk[reading[r].file]
      BY <1>2, <3>2 DEF Calls
    <3>5. reading'[r] \in Calls
      BY <1>2, <3>1, <3>2, GotIsCall
    <3>6. reading'[r].seen \in 1..written
      BY <1>1, <2>5, <3>4 DEF Load
    <3>7. NewCall
      BY <3>1, <3>3, <3>4, <3>5, <3>6
    <3> QED
      BY <1>3, <2>5, <3>7 DEF Load
  <2>6. CASE LoadFails(r) \/ Answered(r)
    BY <1>1, <1>3, <2>6, IdleIsCall DEF LoadFails, Answered, End, Idle
  <2>7. CASE Insert(r)
    <3>1. /\ reading[r].seen \in Versions
          /\ reading[r].content \in Versions \ Binary
      BY <1>1, <1>3, <2>7, FileServiceAssumption DEF Insert, Versions
    <3>2. NewCache
      BY <1>2, <1>3, <2>7, <3>1 DEF Insert, Signature
    <3>3. NewCall
      BY <1>1, <1>2, <1>3, <2>7, <3>1 DEF Insert, Move, Calls
    <3> QED
      BY <3>2, <3>3
  <2> QED
    BY <2>1, <2>2, <2>3, <2>4, <2>5, <2>6, <2>7 DEF ReaderStep
<1>5. UNCHANGED <<diskVars, watchVars, pending, stopVars, exitVars>>
  BY DEF ReaderStep, Stat, StatFails, Hit, Miss, Invalidate, Load, LoadFails,
         Insert, Answered, UnchangedByReads
<1>6. reading' \in [Readers -> Calls]
  BY <1>1, <1>4
<1>7. TypeOK'
  BY <1>0, <1>4, <1>5, <1>6
     DEF TypeOK, Calls, diskVars, watchVars, stopVars, exitVars
<1>8. DiskIsWritten' /\ SeenWasWritten' /\ ReadIsText'
  BY <1>0, <1>1, <1>4, <1>5
     DEF Typed, DiskIsWritten, SeenWasWritten, ReadIsText, diskVars
<1> QED
  BY <1>7, <1>8 DEF Typed

CacheDrops == ClearCache \/ \E f \in Files : Evict(f)

LEMMA CacheDropsKeepTyped == Typed /\ CacheDrops => Typed'
<1> SUFFICES ASSUME Typed, CacheDrops PROVE Typed'
  OBVIOUS
<1>1. textCache' \in [Files -> {Empty} \cup
        {Cached(version, content) : version \in Versions,
                                    content \in Versions \ Binary}]
  BY DEF Typed, TypeOK, CacheDrops, ClearCache, Evict, Cleared
<1>2. UNCHANGED <<diskVars, reading, watchVars, pending, stopVars, exitVars>>
  BY DEF CacheDrops, ClearCache, Evict, UnchangedByReads
<1> QED
  BY <1>1, <1>2 DEF Typed, TypeOK, DiskIsWritten, SeenWasWritten, ReadIsText,
                    diskVars, watchVars, stopVars, exitVars

(* Neither watches nor shutdown touch the disk or a call that reads; the   *)
(* cache they leave alone or empty.                                        *)
LEMMA WatchStepReads ==
  WatchNext => /\ UNCHANGED <<diskVars, reading>>
               /\ textCache' = textCache \/ textCache' = Cleared
BY DEF WatchNext, Callback, StartWatch, StartWatchFails, Register,
       RemoveRegistration, Unwatch, Unwatched, Take, UnwatchTaken,
       ShutdownReturns, UnchangedByWatches

LEMMA UnwatchedTyped ==
  ASSUME RegistryTyped, NEW w \in WatchIds, Unwatched(w)
  PROVE  /\ watch' \in [WatchIds -> {"unused", "refused", "created",
                                    "registered", "removed", "stopped"}]
         /\ covers' \in [WatchIds -> Roots \cup {{}}]
         /\ pending' \in [WatchIds -> SUBSET Files]
         /\ ended' \in [WatchIds -> Nat]
BY DEF RegistryTyped, Unwatched

LEMMA WatchStepKeepsRegistryTyped ==
  RegistryTyped /\ WatchNext => RegistryTyped'
<1> SUFFICES ASSUME RegistryTyped, WatchNext PROVE RegistryTyped'
  OBVIOUS
<1>1. ASSUME NEW w \in WatchIds, Callback(w) PROVE RegistryTyped'
  BY <1>1 DEF RegistryTyped, Callback, watchVars, stopVars, exitVars
<1>2. ASSUME NEW w \in WatchIds, NEW root \in Roots, StartWatch(w, root)
      PROVE  RegistryTyped'
  BY <1>2 DEF RegistryTyped, StartWatch, stopVars, exitVars
<1>3. ASSUME NEW w \in WatchIds, StartWatchFails(w) \/ Register(w)
      PROVE  RegistryTyped'
  BY <1>3 DEF RegistryTyped, StartWatchFails, Register, stopVars, exitVars
<1>4. ASSUME NEW w \in WatchIds, UnwatchTaken(w) PROVE RegistryTyped'
  BY <1>4, UnwatchedTyped DEF RegistryTyped, UnwatchTaken
<1>5. ASSUME NEW w \in WatchIds, NEW s \in Stoppers, RemoveRegistration(s, w)
      PROVE  RegistryTyped'
  BY <1>5 DEF RegistryTyped, RemoveRegistration, exitVars
<1>6. ASSUME NEW s \in Stoppers, Unwatch(s) PROVE RegistryTyped'
  <2>1. stopping[s] \in WatchIds
    BY <1>6 DEF RegistryTyped, Unwatch
  <2> QED
    BY <1>6, <2>1, UnwatchedTyped DEF RegistryTyped, Unwatch, exitVars
<1>7. CASE Take
  BY <1>7 DEF RegistryTyped, Take, Registrations, Registered, stopVars
<1>8. CASE ShutdownReturns
  BY <1>8 DEF RegistryTyped, ShutdownReturns, watchVars, stopVars
<1> QED
  BY <1>1, <1>2, <1>3, <1>4, <1>5, <1>6, <1>7, <1>8 DEF WatchNext

LEMMA WatchStepKeepsTyped == Typed /\ WatchNext => Typed'
<1> SUFFICES ASSUME Typed, WatchNext PROVE Typed'
  OBVIOUS
<1>1. RegistryTyped'
  BY WatchStepKeepsRegistryTyped DEF Typed, TypeOK, RegistryTyped
<1>2. textCache' \in [Files -> {Empty} \cup
        {Cached(version, content) : version \in Versions,
                                    content \in Versions \ Binary}]
  BY WatchStepReads DEF Typed, TypeOK, Cleared
<1> QED
  BY <1>1, <1>2, WatchStepReads
     DEF Typed, TypeOK, RegistryTyped, DiskIsWritten, SeenWasWritten,
         ReadIsText, diskVars

(* The steps of Next, as the lemmas group them.                            *)
LEMMA NextSteps ==
  Next => \/ FileSystemNext
          \/ \E r \in Readers : ReaderStep(r)
          \/ CacheDrops
          \/ WatchNext
BY DEF Next, ReadNext, ReaderStep, CacheDrops

LEMMA NextTyped == Typed /\ [Next]_vars => Typed'
<1> SUFFICES ASSUME Typed, [Next]_vars PROVE Typed'
  OBVIOUS
<1>1. CASE UNCHANGED vars
  BY <1>1 DEF vars, diskVars, watchVars, stopVars, exitVars, Typed, TypeOK,
              DiskIsWritten, SeenWasWritten, ReadIsText
<1>2. CASE Next
  BY <1>2, NextSteps, FileSystemKeepsTyped, ReaderStepKeepsTyped,
     CacheDropsKeepTyped, WatchStepKeepsTyped
<1> QED
  BY <1>1, <1>2

LEMMA AlwaysTyped == Spec => []Typed
BY InitTyped, NextTyped, PTL DEF Spec

(* Types are kept: every variable of the file service stays in its set. *)
THEOREM FilesTypeCorrect == Spec => []TypeOK
<1>1. Typed => TypeOK
  BY DEF Typed
<1> QED
  BY <1>1, AlwaysTyped, PTL

-----------------------------------------------------------------------------
(* Answers are current.                                                    *)

LEMMA InitReadInv == Init => ReadInv
BY InitTyped DEF Init, ReadInv, UnreadIsNewer, ReadIsNewer, CachedIsNewer,
                 Cleared, Idle

LEMMA FileSystemKeepsReadInv == ReadInv /\ FileSystemNext => ReadInv'
<1> SUFFICES ASSUME ReadInv, NEW f \in Files, Write(f) \/ Remove(f)
             PROVE  UnreadIsNewer' /\ ReadIsNewer' /\ CachedIsNewer'
  BY FileSystemKeepsTyped DEF ReadInv, FileSystemNext
<1>1. UNCHANGED <<textCache, reading>>
  BY DEF Write, Remove
<1>2. ReadIsNewer' /\ CachedIsNewer'
  BY <1>1 DEF ReadInv, ReadIsNewer, CachedIsNewer
<1>3. ASSUME NEW r \in Readers, reading[r].step \in {"stat", "outdated", "load"}
      PROVE  \/ disk'[reading[r].file] = Absent
             \/ disk'[reading[r].file] >= reading[r].seen
  <2>1. reading[r].seen \in 1..written /\ reading[r].file \in Files
    BY <1>3 DEF ReadInv, Typed, TypeOK, SeenWasWritten
  <2>2. disk' = [disk EXCEPT ![f] = written + 1] \/ disk' = [disk EXCEPT ![f] = Absent]
    BY DEF Write, Remove
  <2>3. disk \in [Files -> 0..MaxVersion] /\ written \in 0..MaxVersion
    BY DEF ReadInv, Typed, TypeOK
  <2> QED
    BY <1>3, <2>1, <2>2, <2>3, FileServiceAssumption DEF ReadInv, UnreadIsNewer
<1> QED
  BY <1>1, <1>2, <1>3 DEF UnreadIsNewer

(* A cached content that passes the validation is not older than the       *)
(* metadata of the call: its signature stands for that very version.       *)
LEMMA ValidIsNewer ==
  ASSUME StampsDoNotRecur, ReadInv, NEW r \in Readers,
         reading[r].step = "stat", Valid(r)
  PROVE  Entry(r).content >= reading[r].seen
<1>1. reading[r].file \in Files /\ reading[r].seen \in 1..written
      /\ written \in 0..MaxVersion
  BY DEF ReadInv, Typed, TypeOK, SeenWasWritten
<1>2. PICK v \in Versions : /\ Entry(r).stamp = Stamp[v]
                            /\ Entry(r).content >= v
  BY <1>1 DEF ReadInv, CachedIsNewer, Valid, Entry
<1>3. reading[r].seen \in Versions
  BY <1>1, FileServiceAssumption DEF Versions
<1>4. v = reading[r].seen
  BY <1>2, <1>3 DEF StampsDoNotRecur, Valid
<1> QED
  BY <1>2, <1>4

LEMMA ReaderStepKeepsReadInv ==
  ASSUME StampsDoNotRecur, ReadInv, NEW r \in Readers, ReaderStep(r)
  PROVE  ReadInv'
<1>1. Typed /\ Typed'
  BY ReaderStepKeepsTyped DEF ReadInv
<1>2. /\ reading \in [Readers -> Calls] /\ reading[r] \in Calls
      /\ reading[r].file \in Files
      /\ disk \in [Files -> 0..MaxVersion]
      /\ reading[r].step # "idle" => reading[r].seen \in 1..written
      /\ written \in 0..MaxVersion
  BY <1>1 DEF Typed, TypeOK, SeenWasWritten, Calls
<1>3. UNCHANGED diskVars
  BY DEF ReaderStep, Stat, StatFails, Hit, Miss, Invalidate, Load, LoadFails,
         Insert, Answered, UnchangedByReads
<1> DEFINE CallFits(call) ==
      /\ call.step \in {"stat", "outdated", "load"}
           => disk[call.file] = Absent \/ disk[call.file] >= call.seen
      /\ call.step \in {"loaded", "answered"} => call.content >= call.seen
    NewCall == /\ reading' = [reading EXCEPT ![r] = reading'[r]]
               /\ CallFits(reading'[r])
<1>4. CallFits(reading[r])
  BY DEF ReadInv, UnreadIsNewer, ReadIsNewer
<1>5. NewCall /\ CachedIsNewer'
  <2>1. ASSUME NEW f \in Files, NEW limit \in Limits,
               Stat(r, f, limit) \/ StatFails(r, f, limit)
        PROVE  NewCall /\ CachedIsNewer'
    <3>1. UNCHANGED textCache
      BY <2>1 DEF Stat, StatFails
    <3>2. CASE Stat(r, f, limit)
      BY <1>2, <3>1, <3>2 DEF Stat, ReadInv, CachedIsNewer
    <3>3. CASE StatFails(r, f, limit)
      BY <1>2, <1>4, <3>1, <3>3 DEF StatFails, ReadInv, CachedIsNewer
    <3> QED
      BY <2>1, <3>2, <3>3
  <2>2. CASE Hit(r)
    <3>1. Entry(r).content >= reading[r].seen
      BY <2>2, ValidIsNewer DEF Hit
    <3>2. reading'[r] = [reading[r] EXCEPT !.step = "answered",
                                           !.content = Entry(r).content]
          /\ reading' = [reading EXCEPT ![r] = reading'[r]]
      BY <1>2, <2>2 DEF Hit, Got
    <3>3. /\ reading'[r].step = "answered"
          /\ reading'[r].seen = reading[r].seen
          /\ reading'[r].content = Entry(r).content
      BY <1>2, <3>2 DEF Calls
    <3> QED
      BY <2>2, <3>1, <3>2, <3>3 DEF Hit, ReadInv, CachedIsNewer
  <2>3. CASE Miss(r)
    BY <1>2, <1>4, <2>3 DEF Miss, Move, Calls, ReadInv, CachedIsNewer
  <2>4. CASE Invalidate(r)
    <3>1. NewCall
      BY <1>2, <1>4, <2>4 DEF Invalidate, Move, Calls
    <3>2. CachedIsNewer'
      BY <1>1, <1>2, <2>4 DEF Invalidate, ReadInv, CachedIsNewer, Typed, TypeOK
    <3> QED
      BY <3>1, <3>2
  <2>5. CASE Load(r)
    <3>1. disk[reading[r].file] >= reading[r].seen
      BY <1>4, <2>5 DEF Load, Readable
    <3>2. reading'[r] = [reading[r] EXCEPT !.step = "loaded",
                                           !.content = disk[reading[r].file]]
          /\ reading' = [reading EXCEPT ![r] = reading'[r]]
      BY <1>2, <2>5 DEF Load, Got
    <3>3. /\ reading'[r].step = "loaded"
          /\ reading'[r].seen = reading[r].seen
          /\ reading'[r].content = disk[reading[r].file]
      BY <1>2, <3>2 DEF Calls
    <3> QED
      BY <2>5, <3>1, <3>2, <3>3 DEF Load, ReadInv, CachedIsNewer
  <2>6. CASE LoadFails(r) \/ Answered(r)
    BY <1>2, <2>6 DEF LoadFails, Answered, End, Idle, ReadInv, CachedIsNewer
  <2>7. CASE Insert(r)
    <3>1. NewCall
      BY <1>2, <1>4, <2>7 DEF Insert, Move, Calls
    <3>2. reading[r].seen \in Versions /\ reading[r].content >= reading[r].seen
      BY <1>2, <1>4, <2>7, FileServiceAssumption DEF Insert, Versions
    <3>3. textCache' = [textCache EXCEPT ![reading[r].file] =
                          Cached(reading[r].seen, reading[r].content)]
      BY <2>7 DEF Insert, Signature
    <3>4. CachedIsNewer'
      BY <1>1, <1>2, <3>2, <3>3 DEF ReadInv, CachedIsNewer, Cached, Typed, TypeOK
    <3> QED
      BY <3>1, <3>4
  <2> QED
    BY <2>1, <2>2, <2>3, <2>4, <2>5, <2>6, <2>7 DEF ReaderStep
<1>6. UnreadIsNewer' /\ ReadIsNewer'
  BY <1>2, <1>3, <1>5 DEF ReadInv, UnreadIsNewer, ReadIsNewer, diskVars
<1> QED
  BY <1>1, <1>5, <1>6 DEF ReadInv

LEMMA NextReadInv ==
  StampsDoNotRecur /\ ReadInv /\ [Next]_vars => ReadInv'
<1> SUFFICES ASSUME StampsDoNotRecur, ReadInv, [Next]_vars PROVE ReadInv'
  OBVIOUS
<1>1. Typed'
  BY NextTyped DEF ReadInv
<1>2. CASE UNCHANGED vars
  BY <1>1, <1>2 DEF vars, diskVars, ReadInv, UnreadIsNewer, ReadIsNewer,
                    CachedIsNewer
<1>3. CASE CacheDrops
  BY <1>1, <1>3 DEF CacheDrops, ClearCache, Evict, UnchangedByReads, diskVars,
                    Cleared, ReadInv, UnreadIsNewer, ReadIsNewer, CachedIsNewer,
                    Typed, TypeOK
<1>4. CASE WatchNext
  BY <1>1, <1>4, WatchStepReads
     DEF diskVars, Cleared, ReadInv, UnreadIsNewer, ReadIsNewer, CachedIsNewer
<1> QED
  BY <1>2, <1>3, <1>4, NextSteps, FileSystemKeepsReadInv, ReaderStepKeepsReadInv

(* If signatures do not recur, what a read answers was the content of the  *)
(* file at some moment of that call, however readers, writers, evictions   *)
(* and watcher callbacks interleave.                                       *)
THEOREM AnswersStayCurrent == StampsDoNotRecur /\ Spec => []AnswersAreCurrent
<1> SUFFICES ASSUME StampsDoNotRecur PROVE Spec => []AnswersAreCurrent
  OBVIOUS
<1>1. ReadInv => AnswersAreCurrent
  BY DEF ReadInv, ReadIsNewer, AnswersAreCurrent
<1>2. Init => ReadInv
  BY InitReadInv
<1>3. ReadInv /\ [Next]_vars => ReadInv'
  BY NextReadInv
<1> QED
  BY <1>1, <1>2, <1>3, PTL DEF Spec

-----------------------------------------------------------------------------
(* Every watch is ended by one call.                                       *)

LEMMA InitWatchInv == Init => WatchInv
<1> SUFFICES ASSUME Init PROVE WatchInv
  OBVIOUS
<1>1. RegistryTyped
  BY InitTyped DEF Typed, TypeOK, RegistryTyped
<1> QED
  BY <1>1 DEF Init, WatchInv, HeldRegistrations, EndedIsStopped, ExitIsUnderWay,
              WatchIds

(* A step that moves a watch no call holds, between two stages of which    *)
(* neither is the last, keeps what is said of the held and the ended ones. *)
LEMMA FreeWatchMoves ==
  ASSUME WatchInv, RegistryTyped', NEW w \in WatchIds,
         NEW stage \in {"refused", "created", "registered"},
         watch[w] \in {"unused", "created"},
         watch' = [watch EXCEPT ![w] = stage],
         UNCHANGED <<stopVars, exitVars>>
  PROVE  WatchInv'
<1>1. \A v \in WatchIds : watch'[v] = IF v = w THEN stage ELSE watch[v]
  BY DEF WatchInv, RegistryTyped
<1>2. HeldRegistrations'
  BY <1>1 DEF WatchInv, RegistryTyped, HeldRegistrations, stopVars, exitVars
<1>3. EndedIsStopped'
  BY <1>1 DEF WatchInv, EndedIsStopped, stopVars
<1>4. ExitIsUnderWay'
  BY <1>1 DEF WatchInv, RegistryTyped, HeldRegistrations, ExitIsUnderWay, exitVars
<1> QED
  BY <1>2, <1>3, <1>4 DEF WatchInv

(* What ending a watch that some call holds does to the watches. *)
LEMMA UnwatchedEnds ==
  ASSUME WatchInv, NEW w \in WatchIds, watch[w] = "removed", Unwatched(w)
  PROVE  /\ \A v \in WatchIds :
               watch'[v] = IF v = w THEN "stopped" ELSE watch[v]
         /\ EndedIsStopped'
<1>1. \A v \in WatchIds : watch'[v] = IF v = w THEN "stopped" ELSE watch[v]
  BY DEF WatchInv, RegistryTyped, Unwatched
<1>2. /\ ended[w] = 0
      /\ \A v \in WatchIds : ended'[v] = IF v = w THEN ended[w] + 1 ELSE ended[v]
  BY DEF WatchInv, RegistryTyped, EndedIsStopped, Unwatched
<1> QED
  BY <1>1, <1>2 DEF WatchInv, EndedIsStopped

LEMMA RemoveKeepsWatchInv ==
  ASSUME WatchInv, RegistryTyped', NEW s \in Stoppers, NEW w \in WatchIds,
         RemoveRegistration(s, w)
  PROVE  WatchInv'
<1>1. /\ watch[w] = "registered" /\ stopping[s] = 0
      /\ \A v \in WatchIds : watch'[v] = IF v = w THEN "removed" ELSE watch[v]
      /\ \A t \in Stoppers : stopping'[t] = IF t = s THEN w ELSE stopping[t]
      /\ UNCHANGED <<ended, taken, atExit, shutdown>>
  BY DEF WatchInv, RegistryTyped, RemoveRegistration, Registered, exitVars
<1>2. w \notin taken /\ w \in Nat \ {0} /\ \A t \in Stoppers : stopping[t] # w
  BY <1>1, FileServiceAssumption DEF WatchInv, HeldRegistrations, WatchIds
<1>3. HeldRegistrations'
  <2>1. ASSUME NEW t \in Stoppers, stopping'[t] # 0
        PROVE  watch'[stopping'[t]] = "removed" /\ stopping'[t] \notin taken
    <3>1. CASE t = s
      BY <1>1, <1>2, <3>1
    <3>2. CASE t # s
      <4>1. /\ stopping'[t] = stopping[t] /\ stopping[t] \in WatchIds
            /\ stopping[t] # w
        BY <1>1, <1>2, <2>1, <3>2 DEF WatchInv, RegistryTyped
      <4> QED
        BY <1>1, <2>1, <4>1 DEF WatchInv, HeldRegistrations
    <3> QED
      BY <3>1, <3>2
  <2>2. 0 \notin taken
    BY FileServiceAssumption DEF WatchInv, RegistryTyped, WatchIds
  <2>3. \A v \in taken : watch'[v] = "removed"
    BY <1>1, <1>2 DEF WatchInv, RegistryTyped, HeldRegistrations
  <2>4. \A t, u \in Stoppers :
          stopping'[t] # 0 /\ stopping'[t] = stopping'[u] => t = u
    BY <1>1, <1>2 DEF WatchInv, HeldRegistrations
  <2> QED
    BY <1>1, <2>1, <2>2, <2>3, <2>4 DEF HeldRegistrations
<1>4. EndedIsStopped'
  BY <1>1 DEF WatchInv, EndedIsStopped
<1>5. ExitIsUnderWay'
  BY <1>1, <1>2 DEF WatchInv, RegistryTyped, ExitIsUnderWay
<1> QED
  BY <1>3, <1>4, <1>5 DEF WatchInv

LEMMA UnwatchKeepsWatchInv ==
  ASSUME WatchInv, RegistryTyped', NEW s \in Stoppers, Unwatch(s)
  PROVE  WatchInv'
<1> DEFINE w == stopping[s]
<1>1. w \in WatchIds /\ watch[w] = "removed" /\ Unwatched(w) /\ w \notin taken
  BY DEF WatchInv, RegistryTyped, HeldRegistrations, Unwatch
<1>2. /\ \A v \in WatchIds : watch'[v] = IF v = w THEN "stopped" ELSE watch[v]
      /\ EndedIsStopped'
  BY <1>1, UnwatchedEnds
<1>3. /\ \A t \in Stoppers : stopping'[t] = IF t = s THEN 0 ELSE stopping[t]
      /\ UNCHANGED <<taken, atExit, shutdown>>
      /\ w # 0
  BY DEF WatchInv, RegistryTyped, Unwatch, exitVars
<1>4. 0 \notin taken
  BY FileServiceAssumption DEF WatchInv, RegistryTyped, WatchIds
<1> HIDE DEF w
<1>5. \A t \in Stoppers : stopping'[t] # 0 => stopping'[t] = stopping[t] /\ stopping[t] # w
  BY <1>3 DEF WatchInv, HeldRegistrations, w
<1>6. HeldRegistrations'
  BY <1>1, <1>2, <1>3, <1>4, <1>5 DEF WatchInv, RegistryTyped, HeldRegistrations
<1>7. ExitIsUnderWay'
  BY <1>2, <1>3 DEF WatchInv, RegistryTyped, ExitIsUnderWay
<1> QED
  BY <1>2, <1>6, <1>7 DEF WatchInv

LEMMA TakeKeepsWatchInv ==
  ASSUME WatchInv, RegistryTyped', Take
  PROVE  WatchInv'
<1>1. /\ \A v \in WatchIds :
           watch'[v] = IF watch[v] = "registered" THEN "removed" ELSE watch[v]
      /\ taken' = Registered /\ atExit' = Registered /\ shutdown' = "stopping"
      /\ UNCHANGED <<stopping, ended>>
  BY DEF Take, Registrations, Registered, stopVars
<1>2. \A v \in Registered : watch'[v] = "removed"
  BY <1>1 DEF Registered
<1>3. \A s \in Stoppers : stopping[s] \notin Registered
  <2>1. 0 \notin Registered
    BY FileServiceAssumption DEF Registered, WatchIds
  <2>2. \A s \in Stoppers : stopping[s] # 0 => watch[stopping[s]] = "removed"
    BY DEF WatchInv, HeldRegistrations
  <2> QED
    BY <2>1, <2>2 DEF Registered
<1>4. HeldRegistrations'
  BY <1>1, <1>2, <1>3 DEF WatchInv, RegistryTyped, HeldRegistrations
<1>5. EndedIsStopped'
  BY <1>1 DEF WatchInv, EndedIsStopped
<1>6. ExitIsUnderWay'
  BY <1>1 DEF ExitIsUnderWay
<1> QED
  BY <1>4, <1>5, <1>6 DEF WatchInv

LEMMA UnwatchTakenKeepsWatchInv ==
  ASSUME WatchInv, RegistryTyped', NEW w \in WatchIds, UnwatchTaken(w)
  PROVE  WatchInv'
<1>1. /\ watch[w] = "removed" /\ w \in taken /\ Unwatched(w)
      /\ taken' = taken \ {w} /\ shutdown = "stopping"
      /\ UNCHANGED <<stopping, atExit, shutdown>>
  BY DEF WatchInv, HeldRegistrations, UnwatchTaken
<1>2. /\ \A v \in WatchIds : watch'[v] = IF v = w THEN "stopped" ELSE watch[v]
      /\ EndedIsStopped'
  BY <1>1, UnwatchedEnds
<1>3. \A s \in Stoppers : stopping[s] # w
  BY <1>1 DEF WatchInv, HeldRegistrations
<1>4. HeldRegistrations'
  BY <1>1, <1>2, <1>3 DEF WatchInv, RegistryTyped, HeldRegistrations
<1>5. ExitIsUnderWay'
  BY <1>1, <1>2 DEF WatchInv, RegistryTyped, ExitIsUnderWay
<1> QED
  BY <1>2, <1>4, <1>5 DEF WatchInv

(* Readers, writers and evictions leave the registry alone. *)
LEMMA OtherStepsLeaveRegistry ==
  FileSystemNext \/ ReadNext => UNCHANGED <<watchVars, stopVars, exitVars>>
BY DEF FileSystemNext, Write, Remove, ReadNext, Stat, StatFails, Hit, Miss,
       Invalidate, Load, LoadFails, Insert, Answered, ClearCache, Evict,
       UnchangedByReads

LEMMA RegistryUntouched ==
  ASSUME WatchInv, RegistryTyped', UNCHANGED <<watchVars, stopVars, exitVars>>
  PROVE  WatchInv'
BY DEF WatchInv, HeldRegistrations, EndedIsStopped, ExitIsUnderWay, watchVars,
       stopVars, exitVars

LEMMA NextWatchInv == Typed /\ WatchInv /\ [Next]_vars /\ Typed' => WatchInv'
<1> SUFFICES ASSUME Typed, WatchInv, [Next]_vars, Typed' PROVE WatchInv'
  OBVIOUS
<1>1. RegistryTyped'
  BY DEF Typed, TypeOK, RegistryTyped
<1>2. CASE UNCHANGED vars \/ FileSystemNext \/ ReadNext
  BY <1>1, <1>2, OtherStepsLeaveRegistry, RegistryUntouched DEF vars
<1>3. CASE WatchNext
  <2>1. ASSUME NEW w \in WatchIds, Callback(w) PROVE WatchInv'
    BY <1>1, <2>1, RegistryUntouched DEF Callback
  <2>2. ASSUME NEW w \in WatchIds, NEW root \in Roots, StartWatch(w, root)
        PROVE  WatchInv'
    BY <1>1, <2>2, FreeWatchMoves DEF StartWatch, NextWatchId
  <2>3. ASSUME NEW w \in WatchIds, StartWatchFails(w) PROVE WatchInv'
    BY <1>1, <2>3, FreeWatchMoves DEF StartWatchFails, NextWatchId
  <2>4. ASSUME NEW w \in WatchIds, Register(w) PROVE WatchInv'
    BY <1>1, <2>4, FreeWatchMoves DEF Register
  <2>5. CASE ShutdownReturns
    BY <1>1, <2>5 DEF ShutdownReturns, WatchInv, HeldRegistrations,
                      EndedIsStopped, ExitIsUnderWay, watchVars, stopVars
  <2> QED
    BY <1>1, <1>3, <2>1, <2>2, <2>3, <2>4, <2>5, RemoveKeepsWatchInv,
       UnwatchKeepsWatchInv, TakeKeepsWatchInv, UnwatchTakenKeepsWatchInv
       DEF WatchNext
<1> QED
  BY <1>2, <1>3 DEF Next

LEMMA AlwaysWatchInv == Spec => []WatchInv
BY InitWatchInv, NextWatchInv, AlwaysTyped, PTL DEF Spec

(* Of the stop_watch calls and the shutdown that race for a watch, no more *)
(* than one ends it, for any number of them.                               *)
THEOREM WatchesEndOnce == Spec => []WatchEndsOnce
<1>1. WatchInv => WatchEndsOnce
  BY DEF WatchInv, EndedIsStopped, WatchEndsOnce
<1> QED
  BY <1>1, AlwaysWatchInv, PTL

(* When shutdown returns, the watches it found registered have ended.      *)
THEOREM ShutdownStopsThem == Spec => []ShutdownStopsWatches
<1>1. WatchInv => ShutdownStopsWatches
  BY DEF WatchInv, ExitIsUnderWay, ShutdownStopsWatches
<1> QED
  BY <1>1, AlwaysWatchInv, PTL
=============================================================================
