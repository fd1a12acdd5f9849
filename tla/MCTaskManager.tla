--------------------------- MODULE MCTaskManager ----------------------------
(* Small instances of TaskManager.                                         *)
EXTENDS TaskManager, TLC

(* Clients, workers and shutdown calls are only told apart by identity.    *)
Interchangeable ==
  Permutations(Clients) \cup Permutations(Workers) \cup Permutations(Closers)
=============================================================================
