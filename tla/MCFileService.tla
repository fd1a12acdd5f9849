--------------------------- MODULE MCFileService ----------------------------
(* Small instances of FileService.                                         *)
EXTENDS FileService, TLC

(* The second version is longer than the others, so that the limits 1 and  *)
(* 2 differ on it; no two versions have one stamp.                         *)
MCSize == [v \in Versions |-> IF v = 2 THEN 2 ELSE 1]
MCStamp == [v \in Versions |-> v]

(* A watch covers one file, or the directory of all of them. *)
MCRoots == {Files} \cup {{f} : f \in Files}

Interchangeable == Permutations(Readers) \cup Permutations(Stoppers)
=============================================================================
