----------------------------- MODULE MCServices -----------------------------
(* One instance of Services for TLC.                                       *)
EXTENDS Services, TLC

CONSTANTS
  TaskFinished, TaskProgressed,  (* kinds of events                         *)
  Garbled                        (* no settings                             *)

MCKinds == {TaskFinished, TaskProgressed}
MCFilters == {MCKinds, {TaskFinished}}

-----------------------------------------------------------------------------
(* Two commands and the load at startup; settings that are current, that   *)
(* an older version wrote with values nobody knows, or that do not parse.  *)
MCDrafts == {[schema |-> 1, theme |-> "light", language |-> "en"],
             [schema |-> 0, theme |-> "neon", language |-> "blank"]}

(* Two batches over two directories and one that is not there: an item of  *)
(* each kind, outputs among the sources, and two items with one output.    *)
Path(d, name) == [dir |-> d, name |-> name]
MCPaths == {Path(d, name) : d \in {"in", "out", "gone"}, name \in {"a.jpg", "b.txt"}}
MCSources == [path \in {Path("in", "a.jpg"), Path("in", "b.txt")} |-> 2]
Request(names, d, quality) ==
  [items |-> [i \in DOMAIN names |-> names[i]], dir |-> d, quality |-> quality]
A == Path("in", "a.jpg")
B == Path("in", "b.txt")
MCImages ==
  {Request(<<A, Path("out", "a.jpg")>>, "out", 80), Request(<<A, B>>, "in", 80),
   Request(<<A, A>>, "out", 80), Request(<<A>>, "gone", 1),
   Request(<<A>>, "relative", 100), Request(<<A>>, "out", 0),
   Request(<<>>, "out", 80)}

(* Six places in three levels, with files, links, one of them to a         *)
(* directory, directories that can and that cannot be read, and a root     *)
(* that is no directory or not there.                                      *)
MCParent == <<0, 1, 1, 0, 4, 5>>
Tree(kindsInOrder) == [n \in 0..6 |-> kindsInOrder[n + 1]]
Full == Tree(<<"directory", "directory", "file", "link", "directory",
               "directory", "file">>)
MCTrees ==
  {Full,
   Tree(<<"directory", "directory", "file", "link", "dirlink", "directory", "file">>),
   Tree(<<"directory", "directory", "directory", "file", "unreadable", "absent",
          "absent">>),
   Tree(<<"directory", "directory", "absent", "absent", "sealed", "file", "absent">>),
   [n \in 0..6 |-> IF n = 0 THEN "file" ELSE "absent"],
   [n \in 0..6 |-> IF n = 0 THEN "sealed" ELSE "absent"],
   [n \in 0..6 |-> "absent"]}

(* One plugin's packages, each thing that can be wrong with one.           *)
Packaged == INSTANCE PluginExamples
MCPackages == Packaged!Examples
MCModules == Packaged!Replacements
=============================================================================
