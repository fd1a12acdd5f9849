---------------------------- MODULE ImageService ----------------------------
(***************************************************************************)
(* compress_images of application/image_service.rs over the processor of   *)
(* infrastructure/image: batches run on blocking threads, beside each      *)
(* other, over one file system.  Every item reads its source, compresses   *)
(* it in memory and writes a file of the same name to the output           *)
(* directory, which may be the directory of a source, the output directory *)
(* of another batch, or the place two items of one batch want.             *)
(*                                                                         *)
(* The JPEG and PNG codecs are external: they refuse a source or return    *)
(* bytes of some length.                                                   *)
(***************************************************************************)
EXTENDS Integers, Sequences, FiniteSets, Functions

CONSTANTS
  Batches,      (* compress_images commands                                 *)
  Requests,     (* what they are called with                                *)
  Paths,        (* absolute paths of images: [dir, name]                    *)
  Directories,  (* absolute output directories that exist                   *)
  Supported,    (* the names with extension jpg, jpeg or png                *)
  Sources,      (* lengths of the files there are at first, by path         *)
  MaxLength,    (* bound: length of an image                                *)
  MaxWriteFaults (* bound: writes and removals that fail                    *)

ImageServiceAssumption ==
  /\ MaxLength \in Nat \ {0} /\ MaxWriteFaults \in Nat
  /\ Paths = [dir : {path.dir : path \in Paths}, name : {path.name : path \in Paths}]
  /\ \A request \in Requests : request.items \in Seq(Range(request.items))
  /\ DOMAIN Sources \subseteq Paths
  /\ \A path \in DOMAIN Sources : Sources[path] \in 1..MaxLength

VARIABLES
  files,       (* what each path holds                                      *)
  batch,       (* where each command is in its batch                        *)
  tally,       (* its CompressImagesResult so far                           *)
  told,        (* the progress it has reported                              *)
  writeFaults

vars == <<files, batch, tally, told, writeFaults>>

NoFile == [length |-> 0, whole |-> FALSE]
File(length) == [length |-> length, whole |-> TRUE]
(* What create_new and a write in progress leave: anything up to all.      *)
Piece == [length |-> 1, whole |-> FALSE]

NoRequest == [items |-> <<>>, dir |-> "none", quality |-> 0]
Resting(step) == [step |-> step, request |-> NoRequest, index |-> 0,
                  source |-> 0, output |-> 0]
NoTally == [total |-> 0, succeeded |-> 0, skipped |-> 0, failed |-> 0,
            original |-> 0, compressed |-> 0]
Event(index, status, original, compressed) ==
  [index |-> index, status |-> status, original |-> original,
   compressed |-> compressed]

Init ==
  /\ files = [path \in Paths |-> IF path \in DOMAIN Sources
                                   THEN File(Sources[path]) ELSE NoFile]
  /\ batch = [b \in Batches |-> Resting("idle")]
  /\ tally = [b \in Batches |-> NoTally]
  /\ told = [b \in Batches |-> <<>>]
  /\ writeFaults = 0

At(b, step) == batch[b].step = step
Item(b) == batch[b].request.items[batch[b].index]
OutputOf(request, index) ==
  [dir |-> request.dir, name |-> request.items[index].name]
Output(b) == OutputOf(batch[b].request, batch[b].index)

(* validate_request.                                                       *)
Valid(request) ==
  /\ request.items # <<>>
  /\ request.quality \in 1..100
  /\ request.dir \in {path.dir : path \in Paths}
  /\ Range(request.items) \subseteq Paths

-----------------------------------------------------------------------------
(* One batch; the next item begins where the last one ended.               *)

Step(b, step) == batch' = [batch EXCEPT ![b].step = step]

Begin(b, request) ==
  /\ At(b, "idle")
  /\ IF Valid(request)
     THEN /\ batch' = [batch EXCEPT ![b] =
                         [Resting("next") EXCEPT !.request = request]]
          /\ tally' = [tally EXCEPT ![b].total = Len(request.items)]
     ELSE Step(b, "refused") /\ UNCHANGED tally
  /\ UNCHANGED <<files, told, writeFaults>>

Tell(b, index, status, original, compressed) ==
  told' = [told EXCEPT ![b] =
             Append(@, Event(index, status, original, compressed))]

NextItem(b) ==
  /\ At(b, "next") /\ batch[b].index < tally[b].total
  /\ batch' = [batch EXCEPT ![b].index = @ + 1, ![b].step = "read"]
  /\ Tell(b, batch[b].index + 1, "processing", 0, 0)
  /\ UNCHANGED <<files, tally, writeFaults>>

Done(b) ==
  /\ At(b, "next") /\ batch[b].index = tally[b].total
  /\ Step(b, "done")
  /\ UNCHANGED <<files, tally, told, writeFaults>>

ItemFails(b) ==
  /\ Step(b, "next")
  /\ tally' = [tally EXCEPT ![b].failed = @ + 1]
  /\ Tell(b, batch[b].index, "failed", 0, 0)

(* The source cannot be read, has no supported extension, or the codec     *)
(* refuses it.                                                             *)
ProcessFails(b) ==
  /\ At(b, "read")
  /\ ItemFails(b)
  /\ UNCHANGED <<files, writeFaults>>

(* The source has been read and compressed to this length; the shorter of  *)
(* the two is what will be written.                                        *)
Compress(b, length) ==
  /\ At(b, "read")
  /\ files[Item(b)] # NoFile /\ Item(b).name \in Supported
  /\ LET source == files[Item(b)].length
     IN  batch' = [batch EXCEPT ![b].step = "create",
                                ![b].source = source,
                                ![b].output = IF length < source THEN length
                                                                 ELSE source]
  /\ UNCHANGED <<files, tally, told, writeFaults>>

(* Faulty variant: an existing file is truncated instead of refused. *)
CreateOrTruncate(b) ==
  /\ At(b, "create")
  /\ Output(b).dir \in Directories
  /\ files' = [files EXCEPT ![Output(b)] = Piece]
  /\ Step(b, "write")
  /\ UNCHANGED <<tally, told, writeFaults>>

(* create_new: the output must not exist.                                  *)
Create(b) ==
  /\ At(b, "create")
  /\ Output(b).dir \in Directories
  /\ files[Output(b)] = NoFile
  /\ files' = [files EXCEPT ![Output(b)] = Piece]
  /\ Step(b, "write")
  /\ UNCHANGED <<tally, told, writeFaults>>

CreateFails(b) ==
  /\ At(b, "create")
  /\ Output(b).dir \in Directories => files[Output(b)] # NoFile
  /\ ItemFails(b)
  /\ UNCHANGED <<files, writeFaults>>

(* Faulty variant: an item that was only copied counts as succeeded too. *)
WriteCountedTwice(b) ==
  LET completed == batch[b].output < batch[b].source
  IN  /\ At(b, "write")
      /\ files' = [files EXCEPT ![Output(b)] = File(batch[b].output)]
      /\ Step(b, "next")
      /\ tally' = [tally EXCEPT ![b].succeeded = @ + 1,
                                ![b].skipped = @ + IF completed THEN 0 ELSE 1,
                                ![b].original = @ + batch[b].source,
                                ![b].compressed = @ + batch[b].output]
      /\ Tell(b, batch[b].index, IF completed THEN "completed" ELSE "skipped",
              batch[b].source, batch[b].output)
      /\ UNCHANGED writeFaults

Write(b) ==
  LET completed == batch[b].output < batch[b].source
  IN  /\ At(b, "write")
      /\ files' = [files EXCEPT ![Output(b)] = File(batch[b].output)]
      /\ Step(b, "next")
      /\ tally' = [tally EXCEPT ![b].succeeded = @ + IF completed THEN 1 ELSE 0,
                                ![b].skipped = @ + IF completed THEN 0 ELSE 1,
                                ![b].original = @ + batch[b].source,
                                ![b].compressed = @ + batch[b].output]
      /\ Tell(b, batch[b].index, IF completed THEN "completed" ELSE "skipped",
              batch[b].source, batch[b].output)
      /\ UNCHANGED writeFaults

WriteFails(b) ==
  /\ At(b, "write") /\ writeFaults < MaxWriteFaults
  /\ Step(b, "remove")
  /\ writeFaults' = writeFaults + 1
  /\ UNCHANGED <<files, tally, told>>

(* What was written is removed; whether that succeeds is ignored.          *)
CleanUp(b) ==
  /\ At(b, "remove")
  /\ \/ files' = [files EXCEPT ![Output(b)] = NoFile] /\ UNCHANGED writeFaults
     \/ /\ writeFaults < MaxWriteFaults
        /\ writeFaults' = writeFaults + 1
        /\ UNCHANGED files
  /\ ItemFails(b)

(* The process ends, on_exit waits for no batch: the files stay as they    *)
(* are, a half-written output included.                                    *)
EndOfProcess ==
  /\ \E b \in Batches : batch[b].step \notin {"idle", "gone"}
  /\ batch' = [b \in Batches |-> Resting("gone")]
  /\ tally' = [b \in Batches |-> NoTally]
  /\ told' = [b \in Batches |-> <<>>]
  /\ UNCHANGED <<files, writeFaults>>

Terminated ==
  /\ \A b \in Batches : batch[b].step \in {"refused", "done", "gone"}
  /\ UNCHANGED vars

-----------------------------------------------------------------------------
Process(b) ==
  \/ NextItem(b) \/ Done(b) \/ ProcessFails(b)
  \/ \E length \in 1..MaxLength : Compress(b, length)
  \/ Create(b) \/ CreateFails(b) \/ Write(b) \/ WriteFails(b) \/ CleanUp(b)

Next ==
  \/ \E b \in Batches : (\E request \in Requests : Begin(b, request)) \/ Process(b)
  \/ EndOfProcess
  \/ Terminated

Spec == Init /\ [][Next]_vars

-----------------------------------------------------------------------------
Lengths == 0..MaxLength

TypeOK ==
  /\ files \in [Paths -> [length : Lengths, whole : BOOLEAN]]
  /\ \A b \in Batches :
       /\ batch[b].step \in {"idle", "refused", "next", "read", "create", "write",
                             "remove", "done", "gone"}
       /\ batch[b].request \in Requests \cup {NoRequest}
       /\ {batch[b].source, batch[b].output} \subseteq Lengths
       /\ batch[b].index \in 0..tally[b].total
       /\ \A field \in DOMAIN NoTally : tally[b][field] \in Nat
       /\ \A event \in Range(told[b]) :
            event.status \in {"processing", "completed", "skipped", "failed"}
  /\ writeFaults \in 0..MaxWriteFaults

(* A compression never costs the user a file: whatever batches run beside  *)
(* each other, into whatever directories, that of the sources included,    *)
(* and whatever writes and removals fail, a whole file, a source or an     *)
(* earlier output, is never overwritten, cut short or removed.             *)
ImagesKeepFiles ==
  [][\A path \in Paths :
       files[path].whole => files'[path] = files[path]]_vars

(* The sum of a field over the events, those of processing have 0 there.    *)
Total(events, field) ==
  LET upTo[n \in 0..Len(events)] ==
        IF n = 0 THEN 0 ELSE upTo[n - 1] + events[n][field]
  IN  upTo[Len(events)]

Told(b, statuses) == {i \in DOMAIN told[b] : told[b][i].status \in statuses}

Place(b, i) == OutputOf(batch[b].request, told[b][i].index)

(* What a batch has told and counted agrees with the disk: items are       *)
(* reported one after the other, each with one outcome; the counts and the *)
(* byte totals of the result are those outcomes; an item reported as       *)
(* completed or skipped has its whole output in place, no larger than its  *)
(* source, and no two of them share it.                                    *)
BatchesAddUp ==
  \A b \in Batches :
    /\ \A i \in DOMAIN told[b] :
         /\ told[b][i].index = (i + 1) \div 2
         /\ told[b][i].status = "processing" <=> i % 2 = 1
    /\ tally[b].succeeded = Cardinality(Told(b, {"completed"}))
    /\ tally[b].skipped = Cardinality(Told(b, {"skipped"}))
    /\ tally[b].failed = Cardinality(Told(b, {"failed"}))
    /\ tally[b].original = Total(told[b], "original")
    /\ tally[b].compressed = Total(told[b], "compressed")
    /\ At(b, "done") => Len(told[b]) = 2 * tally[b].total
    /\ \A i \in Told(b, {"completed", "skipped"}) :
         /\ files[Place(b, i)] = File(told[b][i].compressed)
         /\ told[b][i].compressed <= told[b][i].original
         /\ \A j \in Told(b, {"completed", "skipped"}) :
              i # j => Place(b, i) # Place(b, j)
=============================================================================
