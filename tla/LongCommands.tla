---------------------------- MODULE LongCommands ----------------------------
(***************************************************************************)
(* EventBus and, by INSTANCE, the three services whose commands take long  *)
(* enough for their callers to be told how far they are or to be given a   *)
(* limit: the download of an update, a batch of images, and the index of a *)
(* directory.  They share nothing but the process (Services).              *)
(***************************************************************************)
EXTENDS EventBus

CONSTANTS
  (* UpdateService                                                          *)
  UpdateCallers, Unlocked, MaxRelease, ChunkLengths, MaxDownload,
  (* ImageService                                                           *)
  Batches, Requests, Paths, Directories, Supported, Sources, MaxLength,
  MaxWriteFaults,
  (* FileIndex                                                              *)
  Parent, FirstTrees, EntryLimits, DepthLimits, MaxIndexEntries,
  MaxIndexDepth, MaxChanges

VARIABLES
  latest, version, onDisk, pendingUpdate, operation, call, progress,
  channelOpen, outcome, announced, reported,
  files, batch, tally, told, writeFaults,
  tree, stack, opening, entries, limits, truncated, indexed, stable, changes

updatesVars == <<latest, version, onDisk, pendingUpdate, operation, call,
                 progress, channelOpen, outcome, announced, reported>>
imagesVars == <<files, batch, tally, told, writeFaults>>
indexVars == <<tree, stack, opening, entries, limits, truncated, indexed,
               stable, changes>>

Updates == INSTANCE UpdateService

Images == INSTANCE ImageService

Index == INSTANCE FileIndex

ASSUME LongCommandsAssumption ==
  /\ Updates!UpdateServiceAssumption
  /\ Images!ImageServiceAssumption
  /\ Index!FileIndexAssumption
=============================================================================
