------------------------------ MODULE FileIndex ------------------------------
(***************************************************************************)
(* index_directory of application/file_service.rs and                      *)
(* infrastructure/filesystem: a depth-first walk with a limit on entries   *)
(* and on depth, over a tree that other programs change while it runs.     *)
(* The recursion of visit_directory is kept as a stack of the children     *)
(* that each open directory still has to visit.                            *)
(*                                                                         *)
(* Nodes are numbered in the order of their paths, so that a directory     *)
(* comes right before what is below it; node 0 is the root.                *)
(***************************************************************************)
EXTENDS Integers, Sequences, FiniteSets, FiniteSetsExt

CONSTANTS
  Parent,           (* the directory of each node but the root              *)
  FirstTrees,       (* what the nodes are when the command comes            *)
  EntryLimits,      (* the max_entries and                                  *)
  DepthLimits,      (* the max_depth that callers pass                      *)
  MaxIndexEntries,  (* MAX_INDEX_ENTRIES                                    *)
  MaxIndexDepth,    (* MAX_INDEX_DEPTH                                      *)
  MaxChanges        (* bound: changes of the tree during a walk             *)

(* sealed is a directory that read_dir is refused, unreadable an entry     *)
(* whose metadata is, dirlink a link to a directory that can be read: the  *)
(* nodes below it are what its target holds.  link is any other link.      *)
EntryKinds ==
  {"absent", "file", "directory", "sealed", "link", "dirlink", "unreadable"}
Listed == {"file", "directory", "sealed"}

(* What read_dir reads: it follows links.                                  *)
Opens == {"directory", "dirlink"}

Nodes == DOMAIN Parent
Places == Nodes \cup {0}

Above(n) ==
  LET up[m \in Places] == IF m = 0 THEN {} ELSE {Parent[m]} \cup up[Parent[m]]
  IN  up[n]

(* The depth visit_directory is called with for the directory of a node.   *)
Depth(n) == Cardinality(Above(n)) - 1

FileIndexAssumption ==
  /\ IsFiniteSet(Nodes) /\ Nodes = 1..Cardinality(Nodes)
  /\ \A n \in Nodes : Parent[n] \in 0..(n - 1)
  /\ \A n \in Nodes \ {1} : Parent[n] \in Above(n - 1) \cup {n - 1}
  /\ FirstTrees \subseteq [Places -> EntryKinds] /\ DepthLimits \subseteq Nat
  /\ MaxIndexEntries \in Nat /\ MaxIndexDepth \in Nat /\ MaxChanges \in Nat

VARIABLES
  tree,       (* what each node is at present                               *)
  stack,      (* the directories being visited, the innermost first         *)
  opening,    (* the directory that read_dir is about to be called on, or -1 *)
  entries,    (* the entries found, in order                                *)
  limits,     (* max_entries and max_depth of the call                      *)
  truncated,
  indexed,    (* what the command answered                                  *)
  stable,     (* history: the nodes that nobody has changed since it came   *)
  changes

walkVars == <<stack, opening, entries, limits, truncated, indexed>>
treeVars == <<tree, stable, changes>>
vars == <<walkVars, treeVars>>

Nowhere == -1

Init ==
  /\ tree \in FirstTrees
  /\ stack = <<>> /\ opening = Nowhere
  /\ entries = <<>>
  /\ limits = [entries |-> 0, depth |-> 0]
  /\ truncated = FALSE
  /\ indexed = "none"
  /\ stable = Places
  /\ changes = 0

-----------------------------------------------------------------------------
Answer(result) ==
  /\ indexed' = result
  /\ stack' = <<>> /\ opening' = Nowhere

(* The service checks the path and the limits, the repository the root,    *)
(* which canonicalize has freed of links.                                  *)
Refuse(maxEntries, maxDepth, error) ==
  /\ indexed = "none" /\ opening = Nowhere /\ stack = <<>>
  /\ \/ error = "invalid_input"
     \/ error = "not_found" /\ tree[0] = "absent"
     \/ error = "not_a_directory" /\ tree[0] = "file"
  /\ error # "invalid_input"
       => maxEntries \in 1..MaxIndexEntries /\ maxDepth <= MaxIndexDepth
  /\ Answer(error)
  /\ UNCHANGED <<entries, limits, truncated, treeVars>>

Begin(maxEntries, maxDepth) ==
  /\ indexed = "none" /\ opening = Nowhere /\ stack = <<>>
  /\ maxEntries \in 1..MaxIndexEntries /\ maxDepth <= MaxIndexDepth
  /\ tree[0] \in {"directory", "sealed"}
  /\ limits' = [entries |-> maxEntries, depth |-> maxDepth]
  /\ opening' = 0
  /\ UNCHANGED <<stack, entries, truncated, indexed, treeVars>>

Children(directory) ==
  {n \in Nodes : Parent[n] = directory /\ tree[n] # "absent"}

Frame(directory, children) == [directory |-> directory, children |-> children]

(* read_dir finds the children, which are sorted and visited in that order *)
(* (NextChild); a frame keeps those that are left.  A directory that has   *)
(* become a link since its entry was made is followed.                     *)
Open ==
  /\ opening # Nowhere
  /\ tree[opening] \in Opens
  /\ stack' = <<Frame(opening, Children(opening))>> \o stack
  /\ opening' = Nowhere
  /\ UNCHANGED <<entries, limits, truncated, indexed, treeVars>>

(* A directory that cannot be read, or is gone since its entry was made,   *)
(* ends the whole walk.                                                    *)
OpenFails ==
  /\ opening # Nowhere
  /\ tree[opening] \notin Opens
  /\ Answer("failed")
  /\ UNCHANGED <<entries, limits, truncated, treeVars>>

Visiting == opening = Nowhere /\ stack # <<>>

(* Faulty variant: the children come as the file system lists them. *)
NextChildUnsorted == Max(Head(stack).children)

NextChild == Min(Head(stack).children)

PassChild ==
  <<Frame(Head(stack).directory, Head(stack).children \ {NextChild})>>
    \o Tail(stack)

(* The limit is reached and something is left to look at.                  *)
Truncate ==
  /\ Visiting /\ Head(stack).children # {}
  /\ Len(entries) >= limits.entries
  /\ truncated' = TRUE
  /\ Answer("ok")
  /\ UNCHANGED <<entries, limits, treeVars>>

(* Symbolic links are not listed, nor what has gone since read_dir or      *)
(* refuses its metadata.                                                   *)
Skip ==
  /\ Visiting /\ Head(stack).children # {}
  /\ Len(entries) < limits.entries
  /\ tree[NextChild] \notin Listed
  /\ stack' = PassChild
  /\ UNCHANGED <<opening, entries, limits, truncated, indexed, treeVars>>

List ==
  /\ Visiting /\ Head(stack).children # {}
  /\ Len(entries) < limits.entries
  /\ tree[NextChild] \in Listed
  /\ entries' = Append(entries, NextChild)
  /\ stack' = PassChild
  /\ opening' = IF tree[NextChild] # "file" /\ Depth(NextChild) < limits.depth
                THEN NextChild ELSE Nowhere
  /\ UNCHANGED <<limits, truncated, indexed, treeVars>>

(* visit_directory returns to the directory above, or to the command.      *)
Leave ==
  /\ Visiting /\ Head(stack).children = {}
  /\ IF Len(stack) = 1 THEN Answer("ok")
                       ELSE stack' = Tail(stack) /\ UNCHANGED <<opening, indexed>>
  /\ UNCHANGED <<entries, limits, truncated, treeVars>>

-----------------------------------------------------------------------------
(* Other programs, below the root.  An entry appears; goes, with all that  *)
(* is below it; or a directory moves elsewhere and a link to it takes its  *)
(* place, or the reverse.                                                  *)

Change(n, kind) ==
  /\ indexed = "none" /\ changes < MaxChanges
  /\ tree[Parent[n]] \in Opens
  /\ \/ (tree[n] = "absent") # (kind = "absent")
     \/ {tree[n], kind} = Opens
  /\ tree' = [m \in Places |->
               IF m = n THEN kind
               ELSE IF kind = "absent" /\ n \in Above(m) THEN "absent"
               ELSE tree[m]]
  /\ stable' = {m \in stable : m # n /\ n \notin Above(m)}
  /\ changes' = changes + 1
  /\ UNCHANGED walkVars

Answered == indexed # "none" /\ UNCHANGED vars

Next ==
  \/ \E maxEntries \in EntryLimits, maxDepth \in DepthLimits :
       \/ Begin(maxEntries, maxDepth)
       \/ \E error \in {"invalid_input", "not_found", "not_a_directory"} :
            Refuse(maxEntries, maxDepth, error)
  \/ Open \/ OpenFails \/ Truncate \/ Skip \/ List \/ Leave
  \/ \E n \in Nodes, kind \in EntryKinds : Change(n, kind)
  \/ Answered

Spec == Init /\ [][Next]_vars

-----------------------------------------------------------------------------
TypeOK ==
  /\ tree \in [Places -> EntryKinds]
  /\ stack \in Seq([directory : Places, children : SUBSET Nodes])
  /\ opening \in Places \cup {Nowhere}
  /\ entries \in Seq(Nodes)
  /\ limits \in [entries : 0..MaxIndexEntries, depth : 0..MaxIndexDepth]
  /\ truncated \in BOOLEAN
  /\ indexed \in {"none", "ok", "failed", "invalid_input", "not_found",
                  "not_a_directory"}
  /\ stable \subseteq Places
  /\ changes \in 0..MaxChanges

(* What the walk would list if nobody changed the tree: below directories, *)
(* no links and nothing unreadable, down to the depth asked for.           *)
Listable ==
  {n \in stable \cap Nodes :
     /\ tree[n] \in Listed /\ Depth(n) <= limits.depth
     /\ \A m \in Above(n) : tree[m] = "directory" /\ m \in stable}

(* An index is the beginning of the tree in the order of its paths,        *)
(* however other programs change the tree meanwhile: no entry twice, none  *)
(* deeper or more than asked for, and nothing that was there all the time  *)
(* left out before the last entry, or at all unless the answer says that   *)
(* it is truncated, which it only says when the limit is used up.  Of a    *)
(* walk that fails nothing is said: the command answers no index then.     *)
IndexIsPrefixOfTree ==
  /\ \A i, j \in DOMAIN entries : i < j => entries[i] < entries[j]
  /\ Len(entries) <= limits.entries
  /\ \A n \in Range(entries) : Depth(n) <= limits.depth
  /\ truncated => indexed = "ok" /\ Len(entries) = limits.entries
  /\ indexed = "ok" =>
       \A n \in Listable :
         ~truncated \/ n < entries[Len(entries)] => n \in Range(entries)
=============================================================================
