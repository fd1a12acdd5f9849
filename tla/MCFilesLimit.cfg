SPECIFICATION Spec
CONSTANTS
  Files = {f1}
  Roots <- MCRoots
  Readers = {r1, r2}
  Stoppers = {s1, s2}
  Limits = {1, 2}
  Size <- MCSize
  Stamp <- MCStamp
  Binary = {3}
  MaxVersion = 3
  MaxWatches = 2
INVARIANTS
  AnswersWithinLimit
