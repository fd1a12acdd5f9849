------------------------- MODULE OfficeServiceProofs -------------------------
(***************************************************************************)
(* Theorems about OfficeService, for any number of calls, documents and    *)
(* failures of OfficeCLI.                                                  *)
(***************************************************************************)
EXTENDS OfficeService, TLAPS

-----------------------------------------------------------------------------
(* The inductive invariant.                                                *)

Fresh == {"idle", "locking", "preparing"}
Unopened == Fresh \cup {"opening", "child open"}
Working ==
  {"opening", "child open", "opened", "registering", "operating",
   "child discard", "closing", "child close", "deregistering", "concluding",
   "committing", "hung"}
Unregistered == {"opened", "registering", "child discard"}
Closing == {"closing", "child close", "deregistering"}

(* What a call has done at each of its places: it works under the lock of  *)
(* its path, and knows of its session whether it is its own.               *)
CallFits(o) ==
  /\ pc[o] # "idle" => request[o] \in Requests
  /\ pc[o] \in {"locking", "preparing"} => at[o] = request[o].path
  /\ pc[o] \in {"preparing", "committing"} => Commits(o)
  /\ pc[o] \in Working => at[o] = IF Commits(o) THEN o ELSE request[o].path
  /\ pc[o] \in Working \cup {"preparing"} => lock[at[o]] = o
  /\ pc[o] \in Unopened => ~owns[o]
  /\ pc[o] = "child discard" => owns[o] \/ Creates(o)
  /\ pc[o] \in Unregistered /\ owns[o]
       => at[o] \in stale \/ resident[at[o]] = "ours"
  /\ pc[o] \in Unregistered /\ (owns[o] \/ pc[o] = "child discard")
       => at[o] \in stale \/ at[o] \notin owned

(* The staging file of a call is nobody else's: it has no session before   *)
(* the call opens one, and none when the call commits it.                  *)
StagedFits(o) ==
  /\ resident[o] # "foreign"
  /\ pc[o] \in Fresh => o \notin owned \cup todo /\ lock[o] = Nobody
  /\ pc[o] \in Unopened => resident[o] = "none"
  /\ pc[o] = "committing" => ~failed[o]
  /\ Commits(o) =>
       /\ pc[o] \in {"opening", "child open"} => o \notin owned
       /\ pc[o] \in {"opened", "registering"} => owns[o]
       /\ pc[o] \in {"operating", "closing", "child close"}
            => owns[o] /\ o \in owned
       /\ pc[o] \in {"concluding", "committing"} /\ ~failed[o]
            => o \notin owned /\ resident[o] # "ours"

(* A session is being closed while it is registered, and is taken off only *)
(* when the resident is gone.                                              *)
CloseFits(a) ==
  /\ pc[a] = "child close" => at[a] \in owned
  /\ pc[a] = "deregistering" => resident[at[a]] # "ours"

(* Shutdown holds the lock of the path it works on, and waits for one that *)
(* it has still to close.                                                  *)
ShutdownFits ==
  /\ at[Shutdown] # Nobody /\ pc[Shutdown] # "locking"
       => lock[at[Shutdown]] = Shutdown
  /\ pc[Shutdown] \in Closing => at[Shutdown] # Nobody
  /\ pc[Shutdown] = "locking" => at[Shutdown] \in todo

(* Somebody knows of every resident of the service, and what is registered *)
(* is the service's own, except where OfficeCLI kept the outcome to itself.*)
PathFits(p) ==
  /\ resident[p] = "ours" =>
       \/ p \in owned \cup lost
       \/ \E o \in Operations :
            /\ at[o] = p
            /\ \/ pc[o] = "child discard"
               \/ pc[o] \in {"opened", "registering"} /\ owns[o]
  /\ p \in owned =>
       \/ p \in stale \/ resident[p] = "ours"
       \/ \E a \in Actors : pc[a] = "deregistering" /\ at[a] = p

(* Whose the path is that an actor works on.                               *)
Busy(a) == IF a = Shutdown THEN at[Shutdown] # Nobody /\ pc[Shutdown] # "locking"
           ELSE pc[a] \in Working \cup {"preparing"}

IInv ==
  /\ TypeOK
  /\ \A o \in Operations : CallFits(o) /\ StagedFits(o)
  /\ \A a \in Actors : CloseFits(a)
  /\ ShutdownFits
  /\ \A p \in Paths : PathFits(p)

-----------------------------------------------------------------------------
(* Facts about the constants and about who works where.                    *)

LEMMA Names ==
  /\ Shutdown \notin Operations /\ Nobody \notin Operations
  /\ Nobody # Shutdown /\ Nobody \notin Paths /\ Shutdown \notin Paths
  /\ MaxFailures \in Nat
  /\ Operations \subseteq Actors /\ Operations \subseteq Paths
  /\ Files \subseteq Paths /\ Operations \cap Files = {}
  /\ \A r \in Requests : r.kind \in Kinds /\ r.path \in Files
                                          /\ r.target \in Files
BY OfficeServiceAssumption DEF Actors, Paths

(* Two actors never work on one path at once.                              *)
LEMMA Exclusive ==
  ASSUME IInv
  PROVE  /\ \A a \in Actors : Busy(a) => at[a] \in Paths /\ lock[at[a]] = a
         /\ \A o \in Operations :
              /\ pc[o] \in {"locking", "preparing"} => at[o] \in Files
              /\ pc[o] \in Working =>
                   at[o] \in IF Commits(o) THEN {o} ELSE Files
<1>1. \A o \in Operations :
        /\ pc[o] \in {"locking", "preparing"} => at[o] \in Files
        /\ pc[o] \in Working => at[o] \in IF Commits(o) THEN {o} ELSE Files
  BY Names DEF IInv, CallFits, Working
<1>2. ASSUME NEW a \in Actors, Busy(a)
      PROVE  at[a] \in Paths /\ lock[at[a]] = a
  <2>1. CASE a = Shutdown
    BY <1>2, <2>1, Names DEF Busy, IInv, ShutdownFits, TypeOK
  <2>2. CASE a # Shutdown
    <3>1. a \in Operations /\ pc[a] \in Working \cup {"preparing"}
      BY <1>2, <2>2 DEF Busy, Actors
    <3>2. CallFits(a)
      BY <3>1 DEF IInv
    <3>3. lock[at[a]] = a
      BY <3>1, <3>2 DEF CallFits
    <3>4. at[a] \in Files \cup {a}
      BY <1>1, <3>1
    <3>5. QED
      BY <3>1, <3>3, <3>4, Names
  <2>3. QED
    BY <2>1, <2>2
<1>3. QED
  BY <1>1, <1>2

PlacesOK ==
  /\ pc \in [Actors -> OperationPlaces \cup ShutdownPlaces]
  /\ \A o \in Operations : pc[o] \in OperationPlaces
  /\ pc[Shutdown] \in ShutdownPlaces

(* An actor that goes to a place of its own leaves the others where they   *)
(* are.                                                                    *)
LEMMA Moving ==
  ASSUME TypeOK, NEW a \in Actors, NEW place, Goto(a, place),
         place \in IF a = Shutdown THEN ShutdownPlaces ELSE OperationPlaces
  PROVE  /\ PlacesOK'
         /\ pc'[a] = place
         /\ \A b \in Actors \ {a} : pc'[b] = pc[b]
<1> USE Names DEF Goto
<1>1. pc \in [Actors -> OperationPlaces \cup ShutdownPlaces]
  BY DEF TypeOK
<1>2. /\ pc' \in [Actors -> OperationPlaces \cup ShutdownPlaces]
      /\ pc'[a] = place
      /\ \A b \in Actors \ {a} : pc'[b] = pc[b]
  BY <1>1
<1>3. \A o \in Operations : pc'[o] \in OperationPlaces
  BY <1>2 DEF TypeOK
<1>4. pc'[Shutdown] \in ShutdownPlaces
  BY <1>2 DEF TypeOK, Actors
<1>5. QED
  BY <1>2, <1>3, <1>4 DEF PlacesOK

LEMMA Alone ==
  ASSUME IInv, NEW a \in Actors, Busy(a), NEW b \in Actors, at[b] = at[a],
         pc[b] \in Closing \/ (b \in Operations /\ pc[b] \in Unregistered)
  PROVE  b = a
<1>1. Busy(b)
  BY Names DEF Busy, Working, Closing, Unregistered, IInv, ShutdownFits
<1>2. lock[at[a]] = a /\ lock[at[b]] = b
  BY <1>1, Exclusive
<1>3. QED
  BY <1>2

LEMMA FirstPlaces ==
  \A k \in Kinds :
    FirstPlace[k] = IF k \in {"apply", "create"} THEN "preparing"
                    ELSE IF k = "close" THEN "closing" ELSE "opening"
BY DEF Kinds, FirstPlace

LEMMA FailuresBounded ==
  ASSUME TypeOK, NEW a, NEW p, OpenFails(p) \/ CloseFails(a, p)
  PROVE  failures' \in 0..MaxFailures
<1>1. failures \in Nat /\ failures <= MaxFailures /\ MaxFailures \in Nat
  BY Names DEF TypeOK
<1>2. \/ failures' = failures
      \/ failures < MaxFailures /\ failures' = failures + 1
  BY DEF OpenFails, CloseFails
<1>3. QED
  BY <1>1, <1>2

LEMMA GoingSomewhere ==
  ASSUME TypeOK, NEW a \in Actors, NEW place, Goto(a, place)
  PROVE  pc'[a] = place
BY DEF TypeOK, Goto

(* A call that goes on keeps its locks, and one that returns drops them.   *)
Drops(o) ==
  /\ lock' \in [Paths -> Actors \cup {Nobody}]
  /\ \A p \in Paths :
       lock'[p] = lock[p] \/ (lock[p] = o /\ lock'[p] = Nobody)
  /\ failed' \in [Operations -> BOOLEAN]
  /\ \A q \in Operations \ {o} : failed'[q] = failed[q]

LEMMA GoingOnOrReturning ==
  ASSUME TypeOK, NEW o \in Operations,
         \/ EndFailed(o) \/ (End(o) /\ failed' = failed)
         \/ \E x \in OperationPlaces : Continue(o, x)
  PROVE  Drops(o)
<1>1. CASE \E x \in OperationPlaces : Continue(o, x)
  BY <1>1 DEF Continue, Drops, TypeOK
<1>2. CASE End(o) /\ failed' = failed
  BY <1>2 DEF End, Drops, TypeOK
<1>3. CASE EndFailed(o)
  BY <1>3 DEF EndFailed, End, Drops, TypeOK
<1>4. QED
  BY <1>1, <1>2, <1>3

(* What a step of one actor leaves to the others: where they are, the locks*)
(* they hold, and every path that is not the one it works on itself.       *)
Touches(a, p) == Busy(a) /\ p = at[a]

LeavesOthers(a) ==
  /\ \A b \in Actors \ {a} : pc'[b] = pc[b] /\ at'[b] = at[b]
  /\ \A q \in Operations \ {a} :
       /\ request'[q] = request[q] /\ owns'[q] = owns[q]
       /\ failed'[q] = failed[q]
       /\ resident'[q] \in {resident[q], "none"}
       /\ pc[q] \in Fresh /\ lock[q] = Nobody => lock'[q] = Nobody
  /\ \A p \in Paths :
       /\ lock[p] \notin {a, Nobody} => lock'[p] = lock[p]
       /\ ~Touches(a, p) =>
            /\ resident'[p] = resident[p]
            /\ (p \in owned' <=> p \in owned)
  /\ stale \subseteq stale' /\ lost \subseteq lost'
  /\ todo' \subseteq owned \cup todo
  /\ a # Shutdown => todo' = todo

LEMMA OthersKeep ==
  ASSUME IInv, NEW a \in Actors, LeavesOthers(a)
  PROVE  /\ \A q \in Operations \ {a} : CallFits(q)' /\ StagedFits(q)'
         /\ \A b \in Actors \ {a} : CloseFits(b)'
         /\ a # Shutdown => ShutdownFits'
         /\ \A p \in Paths : ~Touches(a, p) => PathFits(p)'
<1> USE Names
<1>1. ASSUME NEW b \in Actors, b # a, Busy(b)
      PROVE  /\ at[b] \in Paths /\ lock[at[b]] = b
             /\ ~Touches(a, at[b]) /\ lock'[at[b]] = b
  <2>1. at[b] \in Paths /\ lock[at[b]] = b /\ ~Touches(a, at[b])
    BY <1>1, Exclusive DEF Touches
  <2>2. b # Nobody
    BY <1>1 DEF Actors
  <2>3. QED
    BY <1>1, <2>1, <2>2 DEF LeavesOthers
<1>2. ASSUME NEW q \in Operations, q # a
      PROVE  CallFits(q)'
  <2>1. /\ pc'[q] = pc[q] /\ at'[q] = at[q] /\ request'[q] = request[q]
        /\ owns'[q] = owns[q] /\ CallFits(q) /\ stale \subseteq stale'
    BY <1>2 DEF LeavesOthers, IInv
  <2>2. pc[q] \in Working \cup {"preparing"}
          => /\ lock'[at[q]] = q /\ resident'[at[q]] = resident[at[q]]
             /\ at[q] \in owned' <=> at[q] \in owned
    BY <1>1, <1>2 DEF Busy, LeavesOthers
  <2>3. pc[q] \in Unregistered => pc[q] \in Working
    BY DEF Unregistered, Working
  <2>4. QED
    BY <2>1, <2>2, <2>3 DEF CallFits, Commits, Creates
<1>3. ASSUME NEW q \in Operations, q # a
      PROVE  StagedFits(q)'
  <2>1. /\ pc'[q] = pc[q] /\ at'[q] = at[q] /\ request'[q] = request[q]
        /\ owns'[q] = owns[q] /\ failed'[q] = failed[q]
        /\ resident'[q] \in {resident[q], "none"}
        /\ StagedFits(q) /\ CallFits(q)
    BY <1>3 DEF LeavesOthers, IInv
  <2>2. ASSUME pc[q] \in Fresh
        PROVE  q \notin owned' \cup todo' /\ lock'[q] = Nobody
    <3>1. q \notin owned \cup todo /\ lock[q] = Nobody
      BY <2>1, <2>2 DEF StagedFits
    <3>2. ~Touches(a, q)
      BY <3>1, Exclusive DEF Touches, Actors
    <3>3. QED
      BY <1>3, <2>2, <3>1, <3>2 DEF LeavesOthers
  <2>3. ASSUME pc[q] \in Working, Commits(q)
        PROVE  q \in owned' <=> q \in owned
    <3>1. at[q] = q
      BY <2>1, <2>3 DEF CallFits
    <3>2. QED
      BY <1>1, <1>3, <2>3, <3>1 DEF Busy, LeavesOthers
  <2>4. QED
    BY <2>1, <2>2, <2>3 DEF StagedFits, Commits, Fresh, Unopened, Working
<1>4. ASSUME NEW b \in Actors, b # a
      PROVE  CloseFits(b)'
  <2>1. pc[b] \in {"child close", "deregistering"} => Busy(b)
    BY DEF Busy, Working, IInv, ShutdownFits, Closing
  <2>2. QED
    <3>1. pc'[b] = pc[b] /\ at'[b] = at[b] /\ CloseFits(b)
      BY <1>4 DEF LeavesOthers, IInv
    <3>2. ASSUME pc[b] \in {"child close", "deregistering"}
          PROVE  /\ resident'[at[b]] = resident[at[b]]
                 /\ at[b] \in owned' <=> at[b] \in owned
      BY <1>1, <1>4, <2>1, <3>2 DEF LeavesOthers
    <3>3. QED
      BY <3>1, <3>2 DEF CloseFits
<1>5. ASSUME a # Shutdown
      PROVE  ShutdownFits'
  <2>1. /\ Shutdown \in Actors \ {a} /\ pc'[Shutdown] = pc[Shutdown]
        /\ at'[Shutdown] = at[Shutdown] /\ todo' = todo
    BY <1>5 DEF Actors, LeavesOthers
  <2>2. Busy(Shutdown) => lock'[at[Shutdown]] = Shutdown
    BY <1>1, <2>1
  <2>3. QED
    BY <2>1, <2>2 DEF ShutdownFits, IInv, Busy
<1>6. ASSUME NEW p \in Paths, ~Touches(a, p)
      PROVE  PathFits(p)'
  <2>1. /\ resident'[p] = resident[p]
        /\ p \in owned' <=> p \in owned
        /\ p \in stale => p \in stale'
        /\ p \in lost => p \in lost'
    BY <1>6 DEF LeavesOthers
  <2>2. ASSUME NEW o \in Operations, at[o] = p,
               pc[o] \in {"child discard", "opened", "registering"}
        PROVE  at'[o] = p /\ pc'[o] = pc[o] /\ owns'[o] = owns[o]
    BY <1>6, <2>2 DEF Touches, Busy, Working, LeavesOthers
  <2>3. ASSUME NEW b \in Actors, pc[b] = "deregistering", at[b] = p
        PROVE  pc'[b] = "deregistering" /\ at'[b] = p
    BY <1>6, <2>3 DEF Touches, Busy, Working, LeavesOthers, IInv, ShutdownFits,
                      Closing
  <2>4. PathFits(p)
    BY DEF IInv
  <2>5. QED
    BY <2>1, <2>2, <2>3, <2>4 DEF PathFits
<1>7. QED
  BY <1>2, <1>3, <1>4, <1>5, <1>6

(* Nobody else closes or has just opened a session on the path an actor    *)
(* works on.                                                               *)
HasAlone(a, p) ==
  /\ p = at[a] /\ Busy(a) /\ PathFits(p)
  /\ \A b \in Actors : pc[b] = "deregistering" /\ at[b] = p => b = a
  /\ \A q \in Operations :
       pc[q] \in {"child discard", "opened", "registering"} /\ at[q] = p
         => q = a

LEMMA OnOwnPath ==
  ASSUME IInv, NEW a \in Actors, NEW p \in Paths, Touches(a, p)
  PROVE  HasAlone(a, p)
<1>1. p = at[a] /\ Busy(a) /\ PathFits(p)
  BY DEF Touches, IInv
<1>2. \A b \in Actors : pc[b] = "deregistering" /\ at[b] = p => b = a
  BY <1>1, Alone DEF Closing
<1>3. \A q \in Operations :
        pc[q] \in {"child discard", "opened", "registering"} /\ at[q] = p
          => q = a
  BY <1>1, Alone DEF Unregistered, Actors
<1>4. QED
  BY <1>1, <1>2, <1>3 DEF HasAlone

(* It is enough to look at the actor that takes the step.                  *)
LEMMA OwnStepKeeps ==
  ASSUME IInv, NEW a \in Actors, TypeOK', LeavesOthers(a),
         a # Shutdown => CallFits(a)' /\ StagedFits(a)',
         CloseFits(a)',
         a = Shutdown => ShutdownFits',
         \A p \in Paths : Touches(a, p) => PathFits(p)'
  PROVE  IInv'
<1> USE Names, OthersKeep
<1>1. \A q \in Operations : CallFits(q)' /\ StagedFits(q)'
  OBVIOUS
<1>2. (\A b \in Actors : CloseFits(b)') /\ ShutdownFits'
  OBVIOUS
<1>3. \A p \in Paths : PathFits(p)'
  OBVIOUS
<1>4. QED
  BY <1>1, <1>2, <1>3 DEF IInv

LEMMA InitEstablishes == Init => IInv
<1> SUFFICES ASSUME Init PROVE IInv
  OBVIOUS
<1> USE Names
<1>1. TypeOK
  <2>1. /\ pc \in [Actors -> OperationPlaces \cup ShutdownPlaces]
        /\ \A o \in Operations : pc[o] \in OperationPlaces
        /\ pc[Shutdown] \in ShutdownPlaces
    BY DEF Init, OperationPlaces, ShutdownPlaces, ClosingPlaces, Actors
  <2>2. failures \in 0..MaxFailures
    BY OfficeServiceAssumption DEF Init
  <2>3. QED
    BY <2>1, <2>2 DEF Init, TypeOK
<1>2. ASSUME NEW o \in Operations PROVE CallFits(o) /\ StagedFits(o)
  BY DEF Init, CallFits, StagedFits, Working, Fresh, Unopened, Unregistered,
         Commits, NoRequest
<1>3. ASSUME NEW a \in Actors PROVE CloseFits(a)
  BY DEF Init, CloseFits
<1>4. ShutdownFits
  BY DEF Init, ShutdownFits, Closing, Actors
<1>5. ASSUME NEW p \in Paths PROVE PathFits(p)
  BY DEF Init, PathFits
<1>6. QED
  BY <1>1, <1>2, <1>3, <1>4, <1>5 DEF IInv

-----------------------------------------------------------------------------
(* Each step keeps the invariant.                                          *)

(* A call begins.                                                          *)
LEMMA BeginKeeps ==
  ASSUME IInv, NEW o \in Operations, NEW r \in Requests, Begin(o, r)
  PROVE  IInv'
<1> USE Names DEF Begin, NoRequest, callVars, outsideVars, cliVars
<1>1. /\ TypeOK /\ o \in Actors
      /\ CallFits(o) /\ StagedFits(o) /\ CloseFits(o) /\ ShutdownFits
  BY DEF IInv, Actors
<1>2. \E x \in {"locking"} : Goto(o, x)
  BY <1>1
<1>3. /\ PlacesOK'
      /\ \A x : Goto(o, x) => pc'[o] = x
      /\ \A b \in Actors \ {o} : pc'[b] = pc[b]
  BY <1>1, <1>2, Moving, GoingSomewhere DEF OperationPlaces, ClosingPlaces
<1>4. /\ pc[o] \in {"locking", "preparing"} => at[o] \in Files
      /\ pc[o] \in Working => at[o] \in IF Commits(o) THEN {o} ELSE Files
      /\ pc[o] \in Working \cup {"preparing"}
           => at[o] \in Paths /\ lock[at[o]] = o
  BY <1>1, Exclusive DEF Busy
<1>5. TypeOK'
  BY <1>1, <1>2, <1>3, <1>4 DEF TypeOK, PlacesOK, Working
<1>6. LeavesOthers(o)
  BY <1>1, <1>2, <1>3, <1>4 DEF TypeOK, LeavesOthers, Touches, Busy, Working
<1>7. CallFits(o)'
  BY <1>1, <1>2, <1>3, <1>4 DEF TypeOK, CallFits, StagedFits, Working, Fresh,
      Unopened, Unregistered, Commits, Creates
<1>8. StagedFits(o)'
  BY <1>1, <1>2, <1>3, <1>4 DEF TypeOK, CallFits, StagedFits, CloseFits,
      Working, Fresh, Unopened, Unregistered, Commits, Creates
<1>9. CloseFits(o)'
  BY <1>1, <1>2, <1>3, <1>4 DEF TypeOK, CloseFits, StagedFits, CallFits,
      Working, Commits
<1>10. ASSUME NEW p \in Paths, Touches(o, p) PROVE PathFits(p)'
  BY <1>1, <1>10 DEF Touches, Busy, Working
<1>11. QED
  BY <1>1, <1>5, <1>6, <1>7, <1>8, <1>9, <1>10, OwnStepKeeps

(* It gets the lock of its path.                                           *)
LEMMA LockPathKeeps ==
  ASSUME IInv, NEW o \in Operations, LockPath(o)
  PROVE  IInv'
<1> USE Names DEF LockPath, callVars, outsideVars, cliVars
<1>1. /\ TypeOK /\ o \in Actors
      /\ CallFits(o) /\ StagedFits(o) /\ CloseFits(o) /\ ShutdownFits
  BY DEF IInv, Actors
<1>2. \E x \in {"opening", "closing", "preparing"} : Goto(o, x)
  BY <1>1, FirstPlaces DEF CallFits
<1>3. /\ PlacesOK'
      /\ \A x : Goto(o, x) => pc'[o] = x
      /\ \A b \in Actors \ {o} : pc'[b] = pc[b]
  BY <1>1, <1>2, Moving, GoingSomewhere DEF OperationPlaces, ClosingPlaces
<1>4. /\ pc[o] \in {"locking", "preparing"} => at[o] \in Files
      /\ pc[o] \in Working => at[o] \in IF Commits(o) THEN {o} ELSE Files
      /\ pc[o] \in Working \cup {"preparing"}
           => at[o] \in Paths /\ lock[at[o]] = o
  BY <1>1, Exclusive DEF Busy
<1>5. TypeOK'
  BY <1>1, <1>2, <1>3, FirstPlaces, <1>4 DEF TypeOK, PlacesOK, Working
<1>6. LeavesOthers(o)
  BY <1>1, <1>2, <1>3, FirstPlaces, <1>4 DEF TypeOK, LeavesOthers, Touches,
      Busy, Working
<1>7. CallFits(o)'
  BY <1>1, <1>2, <1>3, FirstPlaces, <1>4 DEF TypeOK, CallFits, StagedFits,
      Working, Fresh, Unopened, Unregistered, Commits, Creates
<1>8. StagedFits(o)'
  BY <1>1, <1>2, <1>3, FirstPlaces, <1>4, ZenonT(30) DEF TypeOK, CallFits, StagedFits,
      CloseFits, Working, Fresh, Unopened, Unregistered, Commits, Creates
<1>9. CloseFits(o)'
  BY <1>1, <1>2, <1>3, FirstPlaces, <1>4 DEF TypeOK, CloseFits, StagedFits,
      CallFits, Working, Commits
<1>10. ASSUME NEW p \in Paths, Touches(o, p) PROVE PathFits(p)'
  BY <1>1, <1>10 DEF Touches, Busy, Working
<1>11. QED
  BY <1>1, <1>5, <1>6, <1>7, <1>8, <1>9, <1>10, OwnStepKeeps

(* It stages its document, under a lock of the staged file as well.        *)
LEMMA PrepareKeeps ==
  ASSUME IInv, NEW o \in Operations, Prepare(o)
  PROVE  IInv'
<1> USE Names DEF Prepare, EndFailed, End, callVars, outsideVars, cliVars
<1>1. /\ TypeOK /\ o \in Actors
      /\ CallFits(o) /\ StagedFits(o) /\ CloseFits(o) /\ ShutdownFits
  BY DEF IInv, Actors
<1>2. \E x \in {"opening", "done"} : Goto(o, x)
  BY <1>1
<1>3. /\ PlacesOK'
      /\ \A x : Goto(o, x) => pc'[o] = x
      /\ \A b \in Actors \ {o} : pc'[b] = pc[b]
  BY <1>1, <1>2, Moving, GoingSomewhere DEF OperationPlaces, ClosingPlaces
<1>4. /\ pc[o] \in {"locking", "preparing"} => at[o] \in Files
      /\ pc[o] \in Working => at[o] \in IF Commits(o) THEN {o} ELSE Files
      /\ pc[o] \in Working \cup {"preparing"}
           => at[o] \in Paths /\ lock[at[o]] = o
  BY <1>1, Exclusive DEF Busy
<1>5. /\ lock' \in [Paths -> Actors \cup {Nobody}]
      /\ \A p \in Paths :
           \/ lock'[p] = lock[p]
           \/ lock[p] = o /\ lock'[p] = Nobody
           \/ p = o /\ lock'[p] = o /\ lock[p] = Nobody /\ at'[o] = o
  BY <1>1, <1>2, <1>3, <1>4 DEF TypeOK, StagedFits, Fresh
<1>6. failed' \in [Operations -> BOOLEAN]
  BY <1>1 DEF TypeOK
<1>7. at' \in [Actors -> Paths \cup {Nobody}]
  BY <1>1 DEF TypeOK
<1>8. TypeOK'
  BY <1>1, <1>2, <1>3, <1>4, <1>5, <1>6, <1>7 DEF TypeOK, PlacesOK, Working
<1>9. LeavesOthers(o)
  BY <1>1, <1>2, <1>3, <1>4, <1>5, <1>6, <1>7 DEF TypeOK, LeavesOthers,
      Touches, Busy, Working
<1>10. CallFits(o)'
  <2>1. CASE at'[o] = o /\ lock'[o] = o /\ pc'[o] = "opening"
    BY <1>1, <1>3, <2>1 DEF CallFits, Commits, Working, Fresh, Unopened,
                             Unregistered
  <2>2. CASE pc'[o] = "done"
    BY <1>1, <1>3, <2>2 DEF CallFits, Working, Fresh, Unopened, Unregistered
  <2>3. QED
    BY <1>1, <1>3, <2>1, <2>2 DEF TypeOK
<1>11. StagedFits(o)'
  BY <1>1, <1>2, <1>3, <1>4, <1>5, <1>6, <1>7 DEF TypeOK, CallFits, StagedFits,
      CloseFits, Working, Fresh, Unopened, Unregistered, Commits, Creates
<1>12. CloseFits(o)'
  BY <1>1, <1>2, <1>3, <1>4, <1>5, <1>6, <1>7 DEF TypeOK, CloseFits,
      StagedFits, CallFits, Working, Commits
<1>13. ASSUME NEW p \in Paths, Touches(o, p) PROVE PathFits(p)'
  <2>1. HasAlone(o, p)
    BY <1>1, <1>13, OnOwnPath
  <2>2. QED
    BY <1>1, <1>2, <1>3, <1>4, <1>5, <1>6, <1>7, <2>1 DEF TypeOK, HasAlone,
        CloseFits, PathFits, CallFits, Unregistered, Creates
<1>14. QED
  BY <1>1, <1>8, <1>9, <1>10, <1>11, <1>12, <1>13, OwnStepKeeps

(* It starts the child that opens the session, unless it was cancelled.    *)
LEMMA StartOpenKeeps ==
  ASSUME IInv, NEW o \in Operations, StartOpen(o)
  PROVE  IInv'
<1> USE Names DEF StartOpen, callVars, outsideVars, cliVars
<1>1. /\ TypeOK /\ o \in Actors
      /\ CallFits(o) /\ StagedFits(o) /\ CloseFits(o) /\ ShutdownFits
  BY DEF IInv, Actors
<1>2. \E x \in {"child open", "done"} : Goto(o, x)
  BY <1>1 DEF EndFailed, End, Continue
<1>3. /\ PlacesOK'
      /\ \A x : Goto(o, x) => pc'[o] = x
      /\ \A b \in Actors \ {o} : pc'[b] = pc[b]
  BY <1>1, <1>2, Moving, GoingSomewhere DEF OperationPlaces, ClosingPlaces
<1>4. /\ pc[o] \in {"locking", "preparing"} => at[o] \in Files
      /\ pc[o] \in Working => at[o] \in IF Commits(o) THEN {o} ELSE Files
      /\ pc[o] \in Working \cup {"preparing"}
           => at[o] \in Paths /\ lock[at[o]] = o
  BY <1>1, Exclusive DEF Busy
<1>5. Drops(o)
  BY <1>1, GoingOnOrReturning DEF OperationPlaces, ClosingPlaces
<1>6. TypeOK'
  BY <1>1, <1>2, <1>3, <1>4, <1>5 DEF TypeOK, PlacesOK, Drops, Working
<1>7. LeavesOthers(o)
  BY <1>1, <1>2, <1>3, <1>4, <1>5 DEF TypeOK, LeavesOthers, Touches, Busy,
      Working, Drops
<1>8. CallFits(o)'
  BY <1>1, <1>2, <1>3, <1>4, <1>5 DEF TypeOK, CallFits, StagedFits, Working,
      Fresh, Unopened, Unregistered, Commits, Creates, EndFailed, End, Continue
<1>9. StagedFits(o)'
  BY <1>1, <1>2, <1>3, <1>4, <1>5 DEF TypeOK, CallFits, StagedFits, CloseFits,
      Working, Fresh, Unopened, Unregistered, Commits, Creates, EndFailed, End,
      Continue
<1>10. CloseFits(o)'
  BY <1>1, <1>2, <1>3, <1>4, <1>5 DEF TypeOK, CloseFits, StagedFits, CallFits,
      Working, Commits, EndFailed, End, Continue
<1>11. ASSUME NEW p \in Paths, Touches(o, p) PROVE PathFits(p)'
  <2>1. HasAlone(o, p)
    BY <1>1, <1>11, OnOwnPath
  <2>2. QED
    BY <1>1, <1>2, <1>3, <1>4, <1>5, <2>1 DEF TypeOK, HasAlone, CloseFits,
        PathFits, CallFits, Unregistered, Creates, EndFailed, End, Continue
<1>12. QED
  BY <1>1, <1>6, <1>7, <1>8, <1>9, <1>10, <1>11, OwnStepKeeps

(* The child answers: there was a session already, or there is one now.    *)
LEMMA OpenReturnsKeeps ==
  ASSUME IInv, NEW o \in Operations, OpenReturns(o)
  PROVE  IInv'
<1> USE Names DEF OpenReturns, OpenStarts, OpenReuses, callVars, outsideVars,
    cliVars
<1>1. /\ TypeOK /\ o \in Actors
      /\ CallFits(o) /\ StagedFits(o) /\ CloseFits(o) /\ ShutdownFits
  BY DEF IInv, Actors
<1>2. \E x \in {"child discard", "done", "registering", "opened"} : Goto(o, x)
  BY <1>1 DEF EndFailed, End, Continue
<1>3. /\ PlacesOK'
      /\ \A x : Goto(o, x) => pc'[o] = x
      /\ \A b \in Actors \ {o} : pc'[b] = pc[b]
  BY <1>1, <1>2, Moving, GoingSomewhere DEF OperationPlaces, ClosingPlaces
<1>4. /\ pc[o] \in {"locking", "preparing"} => at[o] \in Files
      /\ pc[o] \in Working => at[o] \in IF Commits(o) THEN {o} ELSE Files
      /\ pc[o] \in Working \cup {"preparing"}
           => at[o] \in Paths /\ lock[at[o]] = o
  BY <1>1, Exclusive DEF Busy
<1>5. Drops(o)
  BY <1>1, GoingOnOrReturning DEF OperationPlaces, ClosingPlaces
<1>6. /\ resident' \in [Paths -> {"none", "ours", "foreign"}]
      /\ \A p \in Paths : p # at[o] => resident'[p] = resident[p]
  BY <1>1, <1>2, <1>3, <1>4, <1>5 DEF TypeOK
<1>7. /\ owns' \in [Operations -> BOOLEAN]
      /\ \A q \in Operations \ {o} : owns'[q] = owns[q]
  BY <1>1, <1>2, <1>3, <1>4, <1>5, ZenonT(30) DEF TypeOK, Creates
<1>8. at[o] \in Files \cup {o}
  BY <1>1, <1>2, <1>3, <1>4, <1>5 DEF TypeOK, Working
<1>9. TypeOK'
  BY <1>1, <1>2, <1>3, <1>4, <1>5, <1>6, <1>7, <1>8, ZenonT(30) DEF TypeOK, PlacesOK,
      Drops, Working
<1>10. LeavesOthers(o)
  <2>1. \A b \in Actors \ {o} : pc'[b] = pc[b] /\ at'[b] = at[b]
    BY <1>1, <1>2, <1>3, <1>4, <1>5, <1>6, <1>7, <1>8 DEF TypeOK
  <2>2. \A q \in Operations \ {o} :
          /\ request'[q] = request[q] /\ owns'[q] = owns[q]
          /\ failed'[q] = failed[q]
    BY <1>1, <1>2, <1>3, <1>4, <1>5, <1>6, <1>7, <1>8 DEF TypeOK, Working,
        Drops
  <2>3. \A p \in Paths :
          lock[p] \notin {o, Nobody} => lock'[p] = lock[p]
    BY <1>1, <1>5 DEF TypeOK, Drops
  <2>4. \A q \in Operations \ {o} :
          pc[q] \in Fresh /\ lock[q] = Nobody => lock'[q] = Nobody
    BY <1>1, <1>5 DEF TypeOK, Drops
  <2>5. \A p \in Paths :
          ~Touches(o, p) =>
            /\ resident'[p] = resident[p]
            /\ p \in owned' <=> p \in owned
    BY <1>1, <1>2, <1>3, <1>4, <1>5, <1>6, <1>7, <1>8 DEF TypeOK, Touches,
        Busy, Working
  <2>6. /\ stale \subseteq stale' /\ lost \subseteq lost'
        /\ todo' \subseteq owned \cup todo
    OBVIOUS
  <2>7. \A q \in Operations \ {o} : resident'[q] \in {resident[q], "none"}
    BY <1>6, <1>8
  <2>8. QED
    BY <2>1, <2>2, <2>3, <2>4, <2>5, <2>6, <2>7 DEF LeavesOthers
<1>11. CallFits(o)'
  <2>1. at[o] \in Paths /\ Busy(o)
    BY <1>1, <1>4 DEF Busy, Working
  <2>2. at[o] \in owned /\ resident[at[o]] = "none" => at[o] \in stale
    <3>1. PathFits(at[o])
      BY <2>1 DEF IInv
    <3>2. \A b \in Actors : pc[b] = "deregistering" => at[b] # at[o]
      BY <1>1, <2>1, Alone DEF Closing
    <3>3. QED
      BY <3>1, <3>2 DEF PathFits
  <2>3. Creates(o) => resident[at[o]] = "none"
    BY <1>1, <1>4 DEF StagedFits, Creates, Commits, Unopened, Working
  <2>4. /\ owns'[o] => resident[at[o]] = "none" /\ resident'[at[o]] = "ours"
        /\ pc'[o] = "child discard" => owns'[o]
        /\ pc'[o] # "done" => lock' = lock
    BY <1>1, <1>3, <2>1, <2>3 DEF TypeOK, EndFailed, End, Continue
  <2>5. pc'[o] \in {"child discard", "done", "registering", "opened"}
    BY <1>2, <1>3
  <2>6. QED
    BY <1>1, <1>4, <2>1, <2>2, <2>4, <2>5
       DEF CallFits, Working, Fresh, Unopened, Unregistered, Commits, Creates
<1>12. StagedFits(o)'
  BY <1>1, <1>2, <1>3, <1>4, <1>5, <1>6, <1>7, <1>8, ZenonT(30) DEF TypeOK, CallFits,
      StagedFits, CloseFits, Working, Fresh, Unopened, Unregistered, Commits,
      Creates, EndFailed, End, Continue
<1>13. CloseFits(o)'
  BY <1>1, <1>2, <1>3, <1>4, <1>5, <1>6, <1>7, <1>8 DEF TypeOK, CloseFits,
      StagedFits, CallFits, Working, Commits, EndFailed, End, Continue
<1>14. ASSUME NEW p \in Paths, Touches(o, p) PROVE PathFits(p)'
  <2>1. HasAlone(o, p)
    BY <1>1, <1>14, OnOwnPath
  <2>2. QED
    BY <1>1, <1>2, <1>3, <1>4, <1>5, <1>6, <1>7, <1>8, <2>1, ZenonT(30) DEF TypeOK,
        HasAlone, CloseFits, PathFits, CallFits, Unregistered, Creates,
        EndFailed, End, Continue
<1>15. QED
  BY <1>1, <1>9, <1>10, <1>11, <1>12, <1>13, <1>14, OwnStepKeeps

(* The child fails, with or without having started a resident.             *)
LEMMA OpenErrsKeeps ==
  ASSUME IInv, NEW o \in Operations, OpenErrs(o)
  PROVE  IInv'
<1> USE Names DEF OpenErrs, OpenFails, callVars, outsideVars, cliVars
<1>1. /\ TypeOK /\ o \in Actors
      /\ CallFits(o) /\ StagedFits(o) /\ CloseFits(o) /\ ShutdownFits
  BY DEF IInv, Actors
<1>2. \E x \in {"child discard", "done"} : Goto(o, x)
  BY <1>1 DEF EndFailed, End, Continue
<1>3. /\ PlacesOK'
      /\ \A x : Goto(o, x) => pc'[o] = x
      /\ \A b \in Actors \ {o} : pc'[b] = pc[b]
  BY <1>1, <1>2, Moving, GoingSomewhere DEF OperationPlaces, ClosingPlaces
<1>4. /\ pc[o] \in {"locking", "preparing"} => at[o] \in Files
      /\ pc[o] \in Working => at[o] \in IF Commits(o) THEN {o} ELSE Files
      /\ pc[o] \in Working \cup {"preparing"}
           => at[o] \in Paths /\ lock[at[o]] = o
  BY <1>1, Exclusive DEF Busy
<1>5. Drops(o)
  BY <1>1, GoingOnOrReturning DEF OperationPlaces, ClosingPlaces
<1>6. /\ resident' \in [Paths -> {"none", "ours", "foreign"}]
      /\ \A p \in Paths : p # at[o] => resident'[p] = resident[p]
  BY <1>1, <1>2, <1>3, <1>4, <1>5 DEF TypeOK
<1>7. failures' \in 0..MaxFailures
  BY <1>1, FailuresBounded
<1>8. at[o] \in Files \cup {o}
  BY <1>1, <1>2, <1>3, <1>4, <1>5 DEF TypeOK, Working
<1>9. TypeOK'
  BY <1>1, <1>2, <1>3, <1>4, <1>5, <1>6, <1>7, <1>8 DEF TypeOK, PlacesOK,
      Drops, Working
<1>10. LeavesOthers(o)
  <2>1. \A b \in Actors \ {o} : pc'[b] = pc[b] /\ at'[b] = at[b]
    BY <1>1, <1>2, <1>3, <1>4, <1>5, <1>6, <1>7, <1>8 DEF TypeOK
  <2>2. \A q \in Operations \ {o} :
          /\ request'[q] = request[q] /\ owns'[q] = owns[q]
          /\ failed'[q] = failed[q]
    BY <1>1, <1>2, <1>3, <1>4, <1>5, <1>6, <1>7, <1>8 DEF TypeOK, Working,
        Drops
  <2>3. \A p \in Paths :
          lock[p] \notin {o, Nobody} => lock'[p] = lock[p]
    BY <1>1, <1>5 DEF TypeOK, Drops
  <2>4. \A q \in Operations \ {o} :
          pc[q] \in Fresh /\ lock[q] = Nobody => lock'[q] = Nobody
    BY <1>1, <1>5 DEF TypeOK, Drops
  <2>5. \A p \in Paths :
          ~Touches(o, p) =>
            /\ resident'[p] = resident[p]
            /\ p \in owned' <=> p \in owned
    BY <1>1, <1>2, <1>3, <1>4, <1>5, <1>6, <1>7, <1>8 DEF TypeOK, Touches,
        Busy, Working
  <2>6. /\ stale \subseteq stale' /\ lost \subseteq lost'
        /\ todo' \subseteq owned \cup todo
    OBVIOUS
  <2>7. \A q \in Operations \ {o} : resident'[q] \in {resident[q], "none"}
    BY <1>6, <1>8
  <2>8. QED
    BY <2>1, <2>2, <2>3, <2>4, <2>5, <2>6, <2>7 DEF LeavesOthers
<1>11. CallFits(o)'
  BY <1>1, <1>2, <1>3, <1>4, <1>5, <1>6, <1>7, <1>8, ZenonT(30) DEF TypeOK, CallFits,
      StagedFits, Working, Fresh, Unopened, Unregistered, Commits, Creates,
      EndFailed, End, Continue
<1>12. StagedFits(o)'
  BY <1>1, <1>2, <1>3, <1>4, <1>5, <1>6, <1>7, <1>8 DEF TypeOK, CallFits,
      StagedFits, CloseFits, Working, Fresh, Unopened, Unregistered, Commits,
      Creates, EndFailed, End, Continue
<1>13. CloseFits(o)'
  BY <1>1, <1>2, <1>3, <1>4, <1>5, <1>6, <1>7, <1>8 DEF TypeOK, CloseFits,
      StagedFits, CallFits, Working, Commits, EndFailed, End, Continue
<1>14. ASSUME NEW p \in Paths, Touches(o, p) PROVE PathFits(p)'
  <2>1. HasAlone(o, p)
    BY <1>1, <1>14, OnOwnPath
  <2>2. QED
    BY <1>1, <1>2, <1>3, <1>4, <1>5, <1>6, <1>7, <1>8, <2>1 DEF TypeOK,
        HasAlone, CloseFits, PathFits, CallFits, Unregistered, Creates,
        EndFailed, End, Continue
<1>15. QED
  BY <1>1, <1>9, <1>10, <1>11, <1>12, <1>13, <1>14, OwnStepKeeps

(* A session opened during a shutdown is closed again.                     *)
LEMMA CheckAcceptingKeeps ==
  ASSUME IInv, NEW o \in Operations, CheckAccepting(o)
  PROVE  IInv'
<1> USE Names DEF CheckAccepting, callVars, outsideVars, cliVars
<1>1. /\ TypeOK /\ o \in Actors
      /\ CallFits(o) /\ StagedFits(o) /\ CloseFits(o) /\ ShutdownFits
  BY DEF IInv, Actors
<1>2. \E x \in {"registering", "child discard", "done"} : Goto(o, x)
  BY <1>1 DEF EndFailed, End, Continue
<1>3. /\ PlacesOK'
      /\ \A x : Goto(o, x) => pc'[o] = x
      /\ \A b \in Actors \ {o} : pc'[b] = pc[b]
  BY <1>1, <1>2, Moving, GoingSomewhere DEF OperationPlaces, ClosingPlaces
<1>4. /\ pc[o] \in {"locking", "preparing"} => at[o] \in Files
      /\ pc[o] \in Working => at[o] \in IF Commits(o) THEN {o} ELSE Files
      /\ pc[o] \in Working \cup {"preparing"}
           => at[o] \in Paths /\ lock[at[o]] = o
  BY <1>1, Exclusive DEF Busy
<1>5. Drops(o)
  BY <1>1, GoingOnOrReturning DEF OperationPlaces, ClosingPlaces
<1>6. TypeOK'
  BY <1>1, <1>2, <1>3, <1>4, <1>5 DEF TypeOK, PlacesOK, Drops, Working
<1>7. LeavesOthers(o)
  BY <1>1, <1>2, <1>3, <1>4, <1>5 DEF TypeOK, LeavesOthers, Touches, Busy,
      Working, Drops
<1>8. CallFits(o)'
  BY <1>1, <1>2, <1>3, <1>4, <1>5 DEF TypeOK, CallFits, StagedFits, Working,
      Fresh, Unopened, Unregistered, Commits, Creates, EndFailed, End, Continue
<1>9. StagedFits(o)'
  BY <1>1, <1>2, <1>3, <1>4, <1>5 DEF TypeOK, CallFits, StagedFits, CloseFits,
      Working, Fresh, Unopened, Unregistered, Commits, Creates, EndFailed, End,
      Continue
<1>10. CloseFits(o)'
  BY <1>1, <1>2, <1>3, <1>4, <1>5 DEF TypeOK, CloseFits, StagedFits, CallFits,
      Working, Commits, EndFailed, End, Continue
<1>11. ASSUME NEW p \in Paths, Touches(o, p) PROVE PathFits(p)'
  <2>1. HasAlone(o, p)
    BY <1>1, <1>11, OnOwnPath
  <2>2. QED
    BY <1>1, <1>2, <1>3, <1>4, <1>5, <2>1 DEF TypeOK, HasAlone, CloseFits,
        PathFits, CallFits, Unregistered, Creates, EndFailed, End, Continue
<1>12. QED
  BY <1>1, <1>6, <1>7, <1>8, <1>9, <1>10, <1>11, OwnStepKeeps

(* The close whose result is ignored.                                      *)
LEMMA DiscardedKeeps ==
  ASSUME IInv, NEW o \in Operations, Discarded(o)
  PROVE  IInv'
<1> USE Names DEF Discarded, CloseSucceeds, CloseFails, callVars, outsideVars,
    cliVars
<1>1. /\ TypeOK /\ o \in Actors
      /\ CallFits(o) /\ StagedFits(o) /\ CloseFits(o) /\ ShutdownFits
  BY DEF IInv, Actors
<1>2. \E x \in {"done"} : Goto(o, x)
  BY <1>1 DEF EndFailed, End
<1>3. /\ PlacesOK'
      /\ \A x : Goto(o, x) => pc'[o] = x
      /\ \A b \in Actors \ {o} : pc'[b] = pc[b]
  BY <1>1, <1>2, Moving, GoingSomewhere DEF OperationPlaces, ClosingPlaces
<1>4. /\ pc[o] \in {"locking", "preparing"} => at[o] \in Files
      /\ pc[o] \in Working => at[o] \in IF Commits(o) THEN {o} ELSE Files
      /\ pc[o] \in Working \cup {"preparing"}
           => at[o] \in Paths /\ lock[at[o]] = o
  BY <1>1, Exclusive DEF Busy
<1>5. Drops(o)
  BY <1>1, GoingOnOrReturning DEF OperationPlaces, ClosingPlaces
<1>6. /\ resident' \in [Paths -> {"none", "ours", "foreign"}]
      /\ \A p \in Paths : p # at[o] => resident'[p] = resident[p]
  BY <1>1, <1>2, <1>3, <1>4, <1>5, ZenonT(30) DEF TypeOK
<1>7. failures' \in 0..MaxFailures
  BY <1>1, FailuresBounded DEF TypeOK
<1>8. /\ killed' \subseteq Operations
      /\ stale' \subseteq Paths /\ lost' \subseteq Paths
  BY <1>1, <1>2, <1>3, <1>4, <1>5 DEF TypeOK, Working
<1>9. at[o] \in Files \cup {o}
  BY <1>1, <1>2, <1>3, <1>4, <1>5 DEF TypeOK, Working
<1>10. TypeOK'
  BY <1>1, <1>2, <1>3, <1>4, <1>5, <1>6, <1>7, <1>8, <1>9 DEF TypeOK, PlacesOK,
      Drops, Working
<1>11. LeavesOthers(o)
  BY <1>1, <1>2, <1>3, <1>4, <1>5, <1>6, <1>7, <1>8, <1>9, ZenonT(30) DEF TypeOK,
      LeavesOthers, Touches, Busy, Working, Drops
<1>12. CallFits(o)'
  BY <1>1, <1>2, <1>3, <1>4, <1>5, <1>6, <1>7, <1>8, <1>9 DEF TypeOK, CallFits,
      StagedFits, Working, Fresh, Unopened, Unregistered, Commits, Creates,
      EndFailed, End
<1>13. StagedFits(o)'
  BY <1>1, <1>2, <1>3, <1>4, <1>5, <1>6, <1>7, <1>8, <1>9, ZenonT(30) DEF TypeOK, CallFits,
      StagedFits, CloseFits, Working, Fresh, Unopened, Unregistered, Commits,
      Creates, EndFailed, End
<1>14. CloseFits(o)'
  BY <1>1, <1>2, <1>3, <1>4, <1>5, <1>6, <1>7, <1>8, <1>9 DEF TypeOK,
      CloseFits, StagedFits, CallFits, Working, Commits, EndFailed, End
<1>15. ASSUME NEW p \in Paths, Touches(o, p) PROVE PathFits(p)'
  <2>1. HasAlone(o, p)
    BY <1>1, <1>15, OnOwnPath
  <2>2. p = at[o]
    BY <2>1 DEF HasAlone
  <2>3. resident'[p] = "ours" => p \in lost'
    BY <1>1, <2>2 DEF TypeOK
  <2>4. owned' = owned /\ stale \subseteq stale'
    OBVIOUS
  <2>5. p \in owned' => p \in stale'
    BY <1>1, <2>2, <2>4 DEF CallFits, Unregistered
  <2>6. QED
    BY <2>3, <2>5 DEF PathFits
<1>16. QED
  BY <1>1, <1>10, <1>11, <1>12, <1>13, <1>14, <1>15, OwnStepKeeps

(* The session is registered when it is the call's own.                    *)
LEMMA RegisterKeeps ==
  ASSUME IInv, NEW o \in Operations, Register(o)
  PROVE  IInv'
<1> USE Names DEF Register, ProceedWithSession, callVars, outsideVars, cliVars
<1>1. /\ TypeOK /\ o \in Actors
      /\ CallFits(o) /\ StagedFits(o) /\ CloseFits(o) /\ ShutdownFits
  BY DEF IInv, Actors
<1>2. \E x \in {"done", "closing", "operating"} : Goto(o, x)
  BY <1>1 DEF EndFailed, End, Continue
<1>3. /\ PlacesOK'
      /\ \A x : Goto(o, x) => pc'[o] = x
      /\ \A b \in Actors \ {o} : pc'[b] = pc[b]
  BY <1>1, <1>2, Moving, GoingSomewhere DEF OperationPlaces, ClosingPlaces
<1>4. /\ pc[o] \in {"locking", "preparing"} => at[o] \in Files
      /\ pc[o] \in Working => at[o] \in IF Commits(o) THEN {o} ELSE Files
      /\ pc[o] \in Working \cup {"preparing"}
           => at[o] \in Paths /\ lock[at[o]] = o
  BY <1>1, Exclusive DEF Busy
<1>5. Drops(o)
  BY <1>1, GoingOnOrReturning DEF OperationPlaces, ClosingPlaces
<1>6. TypeOK'
  BY <1>1, <1>2, <1>3, <1>4, <1>5 DEF TypeOK, PlacesOK, Drops, Working
<1>7. LeavesOthers(o)
  BY <1>1, <1>2, <1>3, <1>4, <1>5 DEF TypeOK, LeavesOthers, Touches, Busy,
      Working, Drops
<1>8. CallFits(o)'
  BY <1>1, <1>2, <1>3, <1>4, <1>5 DEF TypeOK, CallFits, StagedFits, Working,
      Fresh, Unopened, Unregistered, Commits, Creates, EndFailed, End, Continue
<1>9. StagedFits(o)'
  BY <1>1, <1>2, <1>3, <1>4, <1>5 DEF TypeOK, CallFits, StagedFits, CloseFits,
      Working, Fresh, Unopened, Unregistered, Commits, Creates, EndFailed, End,
      Continue
<1>10. CloseFits(o)'
  BY <1>1, <1>2, <1>3, <1>4, <1>5 DEF TypeOK, CloseFits, StagedFits, CallFits,
      Working, Commits, EndFailed, End, Continue
<1>11. ASSUME NEW p \in Paths, Touches(o, p) PROVE PathFits(p)'
  <2>1. HasAlone(o, p)
    BY <1>1, <1>11, OnOwnPath
  <2>2. QED
    BY <1>1, <1>2, <1>3, <1>4, <1>5, <2>1 DEF TypeOK, HasAlone, CloseFits,
        PathFits, CallFits, Unregistered, Creates, EndFailed, End, Continue
<1>12. QED
  BY <1>1, <1>6, <1>7, <1>8, <1>9, <1>10, <1>11, OwnStepKeeps

(* The work on the open session.                                           *)
LEMMA OperateKeeps ==
  ASSUME IInv, NEW o \in Operations, Operate(o)
  PROVE  IInv'
<1> USE Names DEF Operate, EndFailed, End, Continue, callVars, outsideVars,
    cliVars
<1>1. /\ TypeOK /\ o \in Actors
      /\ CallFits(o) /\ StagedFits(o) /\ CloseFits(o) /\ ShutdownFits
  BY DEF IInv, Actors
<1>2. \E x \in {"closing", "concluding"} : Goto(o, x)
  BY <1>1
<1>3. /\ PlacesOK'
      /\ \A x : Goto(o, x) => pc'[o] = x
      /\ \A b \in Actors \ {o} : pc'[b] = pc[b]
  BY <1>1, <1>2, Moving, GoingSomewhere DEF OperationPlaces, ClosingPlaces
<1>4. /\ pc[o] \in {"locking", "preparing"} => at[o] \in Files
      /\ pc[o] \in Working => at[o] \in IF Commits(o) THEN {o} ELSE Files
      /\ pc[o] \in Working \cup {"preparing"}
           => at[o] \in Paths /\ lock[at[o]] = o
  BY <1>1, Exclusive DEF Busy
<1>5. TypeOK'
  BY <1>1, <1>2, <1>3, <1>4 DEF TypeOK, PlacesOK, Working
<1>6. LeavesOthers(o)
  BY <1>1, <1>2, <1>3, <1>4 DEF TypeOK, LeavesOthers, Touches, Busy, Working
<1>7. CallFits(o)'
  BY <1>1, <1>2, <1>3, <1>4 DEF TypeOK, CallFits, StagedFits, Working, Fresh,
      Unopened, Unregistered, Commits, Creates
<1>8. StagedFits(o)'
  BY <1>1, <1>2, <1>3, <1>4 DEF TypeOK, CallFits, StagedFits, CloseFits,
      Working, Fresh, Unopened, Unregistered, Commits, Creates
<1>9. CloseFits(o)'
  BY <1>1, <1>2, <1>3, <1>4 DEF TypeOK, CloseFits, StagedFits, CallFits,
      Working, Commits
<1>10. ASSUME NEW p \in Paths, Touches(o, p) PROVE PathFits(p)'
  <2>1. HasAlone(o, p)
    BY <1>1, <1>10, OnOwnPath
  <2>2. QED
    BY <1>1, <1>2, <1>3, <1>4, <2>1 DEF TypeOK, HasAlone, CloseFits, PathFits,
        CallFits, Unregistered, Creates
<1>11. QED
  BY <1>1, <1>5, <1>6, <1>7, <1>8, <1>9, <1>10, OwnStepKeeps

(* A child's streams stay open after its end.                              *)
LEMMA ChildHangsKeeps ==
  ASSUME IInv, NEW a \in Actors, ChildHangs(a)
  PROVE  IInv'
<1> USE Names
<1>1. /\ TypeOK /\ a \in Actors
      /\ CloseFits(a) /\ ShutdownFits
      /\ a # Shutdown => a \in Operations
      /\ a \in Operations => CallFits(a) /\ StagedFits(a)
  BY DEF IInv, Actors
<1>2. /\ \/ pc[a] = "child open" /\ OpenFails(at[a])
         \/ pc[a] = "child close" /\ CloseFails(a, at[a]) /\ lost' = lost
         \/ /\ pc[a] = "child discard"
            /\ CloseFails(a, at[a]) /\ lost' = lost \cup {at[a]}
         \/ /\ pc[a] = "operating"
            /\ failures' = failures + 1 /\ killed' = killed \ {a}
            /\ UNCHANGED <<resident, lost, stale>>
      /\ failures < MaxFailures
      /\ UNCHANGED <<lock, owned, file, failed, request, at, owns, accepting,
                     cancelled, todo>>
      /\ Goto(a, "hung")
      /\ pc[a] \in {"child open", "child close", "child discard", "operating"}
  BY DEF ChildHangs, callVars, outsideVars
<1>3. /\ PlacesOK'
      /\ pc'[a] = "hung"
      /\ \A b \in Actors \ {a} : pc'[b] = pc[b]
  BY <1>1, <1>2, Moving DEF OperationPlaces, ShutdownPlaces, ClosingPlaces
<1>4. /\ at[a] \in Paths /\ lock[at[a]] = a /\ Busy(a)
      /\ a = Shutdown => pc[a] = "child close"
  <2>1. a = Shutdown => pc[a] = "child close"
    BY <1>1, <1>2 DEF TypeOK, ShutdownPlaces, ClosingPlaces
  <2>2. pc[a] \in Working
    BY <1>2 DEF Working
  <2>3. Busy(a)
    BY <1>1, <2>1, <2>2 DEF Busy, ShutdownFits, Closing
  <2>4. QED
    BY <1>1, <2>1, <2>3, Exclusive
<1>5. failures' \in 0..MaxFailures
  <2>1. CASE OpenFails(at[a]) \/ CloseFails(a, at[a])
    BY <1>1, <2>1, FailuresBounded
  <2>2. CASE failures' = failures + 1
    <3>1. failures \in 0..MaxFailures /\ MaxFailures \in Nat
      BY <1>1 DEF TypeOK
    <3>2. failures < MaxFailures
      BY <1>2
    <3>3. QED
      BY <2>2, <3>1, <3>2
  <2>3. QED
    BY <1>2, <2>1, <2>2
<1>6. /\ resident' \in [Paths -> {"none", "ours", "foreign"}]
      /\ \A p \in Paths : p # at[a] => resident'[p] = resident[p]
      /\ \/ resident'[at[a]] \in {resident[at[a]], "none"}
         \/ /\ pc[a] = "child open" /\ resident[at[a]] = "none"
            /\ resident'[at[a]] = "ours" /\ at[a] \in lost'
      /\ \/ resident'[at[a]] = resident[at[a]]
         \/ resident'[at[a]] = "ours" /\ at[a] \in lost'
         \/ at[a] \in stale'
  <2>1. \/ resident' = resident
        \/ /\ resident' = [resident EXCEPT ![at[a]] = "none"]
           /\ stale' = stale \cup {at[a]}
        \/ /\ pc[a] = "child open" /\ resident[at[a]] = "none"
           /\ resident' = [resident EXCEPT ![at[a]] = "ours"]
           /\ lost' = lost \cup {at[a]}
    BY <1>2 DEF OpenFails, CloseFails
  <2>2. resident \in [Paths -> {"none", "ours", "foreign"}] /\ at[a] \in Paths
    BY <1>1, <1>4 DEF TypeOK
  <2>3. QED
    BY <2>1, <2>2
<1>7. /\ killed' \subseteq Operations
      /\ stale \subseteq stale' /\ stale' \subseteq Paths
      /\ lost \subseteq lost' /\ lost' \subseteq Paths
      /\ pc[a] = "child discard" => at[a] \in lost'
  BY <1>1, <1>2, <1>4 DEF TypeOK, OpenFails, CloseFails
<1>8. TypeOK'
  BY <1>1, <1>2, <1>3, <1>5, <1>6, <1>7 DEF TypeOK, PlacesOK
<1>9. LeavesOthers(a)
  <2>1. ASSUME NEW q \in Operations \ {a}
        PROVE  resident'[q] \in {resident[q], "none"}
    <3>1. CASE q = at[a]
      <4>1. pc[a] # "child open"
        <5>1. a \in Operations => at[a] \in Files \cup {a} \/ pc[a] # "child open"
          BY Exclusive DEF Working
        <5>2. QED
          BY <1>1, <1>4, <2>1, <3>1, <5>1
      <4>2. QED
        BY <1>6, <3>1, <4>1
    <3>2. CASE q # at[a]
      BY <1>6, <3>2
    <3>3. QED
      BY <3>1, <3>2
  <2>2. QED
    BY <1>2, <1>3, <1>4, <1>6, <1>7, <2>1 DEF LeavesOthers, Touches
<1>10. a # Shutdown => CallFits(a)' /\ StagedFits(a)'
  <2> SUFFICES ASSUME a # Shutdown PROVE CallFits(a)' /\ StagedFits(a)'
    OBVIOUS
  <2>1. a \in Operations /\ CallFits(a) /\ StagedFits(a)
    BY <1>1
  <2>2. CallFits(a)'
    BY <1>2, <1>3, <2>1
       DEF CallFits, Working, Unopened, Fresh, Unregistered, Commits
  <2>3. resident'[a] # "foreign"
    BY <1>6, <2>1 DEF StagedFits
  <2>4. StagedFits(a)'
    BY <1>3, <2>3 DEF StagedFits, Fresh, Unopened
  <2>5. QED
    BY <2>2, <2>4
<1>11. CloseFits(a)'
  BY <1>3 DEF CloseFits
<1>12. a = Shutdown => ShutdownFits'
  BY <1>2, <1>3, <1>4 DEF ShutdownFits, Closing
<1>13. ASSUME NEW p \in Paths, Touches(a, p) PROVE PathFits(p)'
  <2>1. HasAlone(a, p)
    BY <1>1, <1>13, OnOwnPath
  <2>2. p = at[a] /\ PathFits(p)
    BY <2>1 DEF HasAlone
  <2>3. resident'[p] = "ours" => p \in owned \cup lost'
    <3>1. CASE resident[p] = "ours"
      <4>1. p \in owned \cup lost \/ pc[a] = "child discard"
        BY <1>2, <2>1, <2>2, <3>1 DEF PathFits, HasAlone
      <4>2. QED
        BY <1>7, <2>2, <4>1
    <3>2. CASE resident[p] # "ours"
      BY <1>6, <2>2, <3>2
    <3>3. QED
      BY <3>1, <3>2
  <2>4. p \in owned => p \in stale' \/ resident'[p] = "ours"
    <3>1. p \in owned => p \in stale \/ resident[p] = "ours"
      BY <1>2, <2>1, <2>2 DEF PathFits, HasAlone
    <3>2. QED
      BY <1>6, <1>7, <2>2, <3>1
  <2>5. QED
    BY <1>2, <2>3, <2>4 DEF PathFits
<1>14. QED
  BY <1>1, <1>8, <1>9, <1>10, <1>11, <1>12, <1>13, OwnStepKeeps

(* close_locked looks whether the session is registered.                   *)
LEMMA StartCloseKeeps ==
  ASSUME IInv, NEW a \in Actors, StartClose(a)
  PROVE  IInv'
<1> USE Names DEF StartClose, AfterClose, callVars, outsideVars, cliVars
<1>1. /\ TypeOK /\ a \in Actors
      /\ CloseFits(a) /\ ShutdownFits
  BY DEF IInv, Actors
<1>2. \E x \in {"child close", "looping", "concluding"} : Goto(a, x)
  BY <1>1
<1>3. /\ PlacesOK'
      /\ \A x : Goto(a, x) => pc'[a] = x
      /\ \A b \in Actors \ {a} : pc'[b] = pc[b]
  BY <1>1, <1>2, Moving, GoingSomewhere DEF OperationPlaces, ShutdownPlaces,
      ClosingPlaces
<1>4. at[a] \in Paths /\ lock[at[a]] = a /\ Busy(a)
  BY <1>1, Exclusive DEF Busy, Working, ShutdownFits, Closing
<1>5. TypeOK'
  BY <1>1, <1>2, <1>3, <1>4 DEF TypeOK, PlacesOK
<1>6. LeavesOthers(a)
  BY <1>1, <1>2, <1>3, <1>4 DEF TypeOK, LeavesOthers, Touches, Busy
<1>7. a # Shutdown => CallFits(a)' /\ StagedFits(a)'
  <2> SUFFICES ASSUME a # Shutdown PROVE CallFits(a)' /\ StagedFits(a)'
    OBVIOUS
  <2>1. a \in Operations
    BY <1>1 DEF Actors
  <2>2. CallFits(a) /\ StagedFits(a)
    BY <2>1 DEF IInv
  <2>3. CallFits(a)'
    BY <1>1, <1>2, <1>3, <1>4, <2>1, <2>2 DEF TypeOK, CallFits, Working, Fresh,
        Unopened, Unregistered, Commits, Creates
  <2>4. StagedFits(a)'
    BY <1>1, <1>2, <1>3, <1>4, <2>1, <2>2 DEF TypeOK, CallFits, StagedFits,
        CloseFits, Working, Fresh, Unopened, Unregistered, Commits, Creates
  <2>5. QED
    BY <2>3, <2>4
<1>8. CloseFits(a)'
  BY <1>1, <1>2, <1>3, <1>4 DEF TypeOK, CloseFits
<1>9. a = Shutdown => ShutdownFits'
  BY <1>1, <1>2, <1>3, <1>4 DEF TypeOK, ShutdownFits, Closing
<1>10. ASSUME NEW p \in Paths, Touches(a, p) PROVE PathFits(p)'
  <2>1. HasAlone(a, p)
    BY <1>1, <1>10, OnOwnPath
  <2>2. QED
    BY <1>1, <1>2, <1>3, <1>4, <2>1 DEF TypeOK, HasAlone, CloseFits, PathFits,
        Busy
<1>11. QED
  BY <1>1, <1>5, <1>6, <1>7, <1>9, <1>8, <1>10, OwnStepKeeps

(* A close that fails leaves the session registered.                       *)
LEMMA CloseErrsKeeps ==
  ASSUME IInv, NEW a \in Actors, CloseErrs(a)
  PROVE  IInv'
<1> USE Names DEF CloseErrs, CloseFails, AfterClose, callVars, outsideVars,
    cliVars
<1>1. /\ TypeOK /\ a \in Actors
      /\ CloseFits(a) /\ ShutdownFits
  BY DEF IInv, Actors
<1>2. \E x \in {"looping", "concluding"} : Goto(a, x)
  BY <1>1
<1>3. /\ PlacesOK'
      /\ \A x : Goto(a, x) => pc'[a] = x
      /\ \A b \in Actors \ {a} : pc'[b] = pc[b]
  BY <1>1, <1>2, Moving, GoingSomewhere DEF OperationPlaces, ShutdownPlaces,
      ClosingPlaces
<1>4. at[a] \in Paths /\ lock[at[a]] = a /\ Busy(a)
  BY <1>1, Exclusive DEF Busy, Working, ShutdownFits, Closing
<1>5. failures' \in 0..MaxFailures
  BY <1>1, FailuresBounded
<1>6. /\ failed' \in [Operations -> BOOLEAN]
      /\ \A q \in Operations \ {a} : failed'[q] = failed[q]
      /\ a # Shutdown => failed'[a]
  <2>1. CASE a = Shutdown
    BY <1>1, <2>1 DEF TypeOK
  <2>2. CASE a # Shutdown
    BY <1>1, <2>2, ZenonT(30) DEF TypeOK, Actors
  <2>3. QED
    BY <2>1, <2>2
<1>7. \A p \in Paths : resident'[p] \in {resident[p], "none"}
  BY <1>1 DEF TypeOK
<1>8. /\ resident' \in [Paths -> {"none", "ours", "foreign"}]
      /\ \A p \in Paths : p # at[a] => resident'[p] = resident[p]
  BY <1>1 DEF TypeOK
<1>9. killed' \subseteq Operations /\ stale' \subseteq Paths
  BY <1>1, <1>2, <1>3, <1>4 DEF TypeOK
<1>10. TypeOK'
  BY <1>1, <1>2, <1>3, <1>4, <1>5, <1>6, <1>7, <1>8, <1>9 DEF TypeOK, PlacesOK
<1>11. LeavesOthers(a)
  BY <1>1, <1>2, <1>3, <1>4, <1>5, <1>6, <1>7, <1>8, <1>9 DEF TypeOK,
      LeavesOthers, Touches, Busy
<1>12. a # Shutdown => CallFits(a)' /\ StagedFits(a)'
  <2> SUFFICES ASSUME a # Shutdown PROVE CallFits(a)' /\ StagedFits(a)'
    OBVIOUS
  <2>1. a \in Operations
    BY <1>1 DEF Actors
  <2>2. CallFits(a) /\ StagedFits(a)
    BY <2>1 DEF IInv
  <2>3. CallFits(a)'
    BY <1>1, <1>2, <1>3, <1>4, <1>5, <1>6, <1>7, <1>8, <1>9, <2>1, <2>2 DEF
        TypeOK, CallFits, Working, Fresh, Unopened, Unregistered, Commits,
        Creates
  <2>4. StagedFits(a)'
    BY <1>1, <1>2, <1>3, <1>4, <1>5, <1>6, <1>7, <1>8, <1>9, <2>1, <2>2 DEF
        TypeOK, CallFits, StagedFits, CloseFits, Working, Fresh, Unopened,
        Unregistered, Commits, Creates
  <2>5. QED
    BY <2>3, <2>4
<1>13. CloseFits(a)'
  BY <1>1, <1>2, <1>3, <1>4, <1>5, <1>6, <1>7, <1>8, <1>9 DEF TypeOK, CloseFits
<1>14. a = Shutdown => ShutdownFits'
  BY <1>1, <1>2, <1>3, <1>4, <1>5, <1>6, <1>7, <1>8, <1>9 DEF TypeOK,
      ShutdownFits, Closing
<1>15. ASSUME NEW p \in Paths, Touches(a, p) PROVE PathFits(p)'
  <2>1. HasAlone(a, p)
    BY <1>1, <1>15, OnOwnPath
  <2>2. QED
    BY <1>1, <1>2, <1>3, <1>4, <1>5, <1>6, <1>7, <1>8, <1>9, <2>1 DEF TypeOK,
        HasAlone, CloseFits, PathFits, Busy
<1>16. QED
  BY <1>1, <1>10, <1>11, <1>12, <1>14, <1>13, <1>15, OwnStepKeeps

(* A close that succeeds ends the resident.                                *)
LEMMA CloseReturnsKeeps ==
  ASSUME IInv, NEW a \in Actors, CloseReturns(a)
  PROVE  IInv'
<1> USE Names DEF CloseReturns, CloseSucceeds, callVars, outsideVars, cliVars
<1>1. /\ TypeOK /\ a \in Actors
      /\ CloseFits(a) /\ ShutdownFits
  BY DEF IInv, Actors
<1>2. \E x \in {"deregistering"} : Goto(a, x)
  BY <1>1
<1>3. /\ PlacesOK'
      /\ \A x : Goto(a, x) => pc'[a] = x
      /\ \A b \in Actors \ {a} : pc'[b] = pc[b]
  BY <1>1, <1>2, Moving, GoingSomewhere DEF OperationPlaces, ShutdownPlaces,
      ClosingPlaces
<1>4. at[a] \in Paths /\ lock[at[a]] = a /\ Busy(a)
  BY <1>1, Exclusive DEF Busy, Working, ShutdownFits, Closing
<1>5. TypeOK'
  BY <1>1, <1>2, <1>3, <1>4 DEF TypeOK, PlacesOK
<1>6. LeavesOthers(a)
  BY <1>1, <1>2, <1>3, <1>4 DEF TypeOK, LeavesOthers, Touches, Busy
<1>7. a # Shutdown => CallFits(a)' /\ StagedFits(a)'
  <2> SUFFICES ASSUME a # Shutdown PROVE CallFits(a)' /\ StagedFits(a)'
    OBVIOUS
  <2>1. a \in Operations
    BY <1>1 DEF Actors
  <2>2. CallFits(a) /\ StagedFits(a)
    BY <2>1 DEF IInv
  <2>3. CallFits(a)'
    BY <1>1, <1>2, <1>3, <1>4, <2>1, <2>2 DEF TypeOK, CallFits, Working, Fresh,
        Unopened, Unregistered, Commits, Creates
  <2>4. StagedFits(a)'
    BY <1>1, <1>2, <1>3, <1>4, <2>1, <2>2 DEF TypeOK, CallFits, StagedFits,
        CloseFits, Working, Fresh, Unopened, Unregistered, Commits, Creates
  <2>5. QED
    BY <2>3, <2>4
<1>8. CloseFits(a)'
  BY <1>1, <1>2, <1>3, <1>4 DEF TypeOK, CloseFits
<1>9. a = Shutdown => ShutdownFits'
  BY <1>1, <1>2, <1>3, <1>4 DEF TypeOK, ShutdownFits, Closing
<1>10. ASSUME NEW p \in Paths, Touches(a, p) PROVE PathFits(p)'
  <2>1. HasAlone(a, p)
    BY <1>1, <1>10, OnOwnPath
  <2>2. QED
    BY <1>1, <1>2, <1>3, <1>4, <2>1 DEF TypeOK, HasAlone, CloseFits, PathFits,
        Busy
<1>11. QED
  BY <1>1, <1>5, <1>6, <1>7, <1>9, <1>8, <1>10, OwnStepKeeps

(* Then the session is taken off the list.                                 *)
LEMMA DeregisterKeeps ==
  ASSUME IInv, NEW a \in Actors, Deregister(a)
  PROVE  IInv'
<1> USE Names DEF Deregister, AfterClose, callVars, outsideVars, cliVars
<1>1. /\ TypeOK /\ a \in Actors
      /\ CloseFits(a) /\ ShutdownFits
  BY DEF IInv, Actors
<1>2. \E x \in {"looping", "concluding"} : Goto(a, x)
  BY <1>1
<1>3. /\ PlacesOK'
      /\ \A x : Goto(a, x) => pc'[a] = x
      /\ \A b \in Actors \ {a} : pc'[b] = pc[b]
  BY <1>1, <1>2, Moving, GoingSomewhere DEF OperationPlaces, ShutdownPlaces,
      ClosingPlaces
<1>4. at[a] \in Paths /\ lock[at[a]] = a /\ Busy(a)
  BY <1>1, Exclusive DEF Busy, Working, ShutdownFits, Closing
<1>5. TypeOK'
  BY <1>1, <1>2, <1>3, <1>4 DEF TypeOK, PlacesOK
<1>6. LeavesOthers(a)
  BY <1>1, <1>2, <1>3, <1>4 DEF TypeOK, LeavesOthers, Touches, Busy
<1>7. a # Shutdown => CallFits(a)' /\ StagedFits(a)'
  <2> SUFFICES ASSUME a # Shutdown PROVE CallFits(a)' /\ StagedFits(a)'
    OBVIOUS
  <2>1. a \in Operations
    BY <1>1 DEF Actors
  <2>2. CallFits(a) /\ StagedFits(a)
    BY <2>1 DEF IInv
  <2>3. CallFits(a)'
    BY <1>1, <1>2, <1>3, <1>4, <2>1, <2>2 DEF TypeOK, CallFits, Working, Fresh,
        Unopened, Unregistered, Commits, Creates
  <2>4. StagedFits(a)'
    BY <1>1, <1>2, <1>3, <1>4, <2>1, <2>2 DEF TypeOK, CallFits, StagedFits,
        CloseFits, Working, Fresh, Unopened, Unregistered, Commits, Creates
  <2>5. QED
    BY <2>3, <2>4
<1>8. CloseFits(a)'
  BY <1>1, <1>2, <1>3, <1>4 DEF TypeOK, CloseFits
<1>9. a = Shutdown => ShutdownFits'
  BY <1>1, <1>2, <1>3, <1>4 DEF TypeOK, ShutdownFits, Closing
<1>10. ASSUME NEW p \in Paths, Touches(a, p) PROVE PathFits(p)'
  <2>1. HasAlone(a, p)
    BY <1>1, <1>10, OnOwnPath
  <2>2. QED
    BY <1>1, <1>2, <1>3, <1>4, <2>1 DEF TypeOK, HasAlone, CloseFits, PathFits,
        Busy
<1>11. QED
  BY <1>1, <1>5, <1>6, <1>7, <1>9, <1>8, <1>10, OwnStepKeeps

(* The results decide whether the staged document is committed.            *)
LEMMA ConcludeKeeps ==
  ASSUME IInv, NEW o \in Operations, Conclude(o)
  PROVE  IInv'
<1> USE Names DEF Conclude, callVars, outsideVars, cliVars
<1>1. /\ TypeOK /\ o \in Actors
      /\ CallFits(o) /\ StagedFits(o) /\ CloseFits(o) /\ ShutdownFits
  BY DEF IInv, Actors
<1>2. \E x \in {"done", "committing"} : Goto(o, x)
  BY <1>1 DEF EndFailed, End, Continue
<1>3. /\ PlacesOK'
      /\ \A x : Goto(o, x) => pc'[o] = x
      /\ \A b \in Actors \ {o} : pc'[b] = pc[b]
  BY <1>1, <1>2, Moving, GoingSomewhere DEF OperationPlaces, ClosingPlaces
<1>4. /\ pc[o] \in {"locking", "preparing"} => at[o] \in Files
      /\ pc[o] \in Working => at[o] \in IF Commits(o) THEN {o} ELSE Files
      /\ pc[o] \in Working \cup {"preparing"}
           => at[o] \in Paths /\ lock[at[o]] = o
  BY <1>1, Exclusive DEF Busy
<1>5. Drops(o)
  BY <1>1, GoingOnOrReturning DEF OperationPlaces, ClosingPlaces
<1>6. TypeOK'
  BY <1>1, <1>2, <1>3, <1>4, <1>5 DEF TypeOK, PlacesOK, Drops, Working
<1>7. LeavesOthers(o)
  BY <1>1, <1>2, <1>3, <1>4, <1>5 DEF TypeOK, LeavesOthers, Touches, Busy,
      Working, Drops
<1>8. CallFits(o)'
  BY <1>1, <1>2, <1>3, <1>4, <1>5 DEF TypeOK, CallFits, StagedFits, Working,
      Fresh, Unopened, Unregistered, Commits, Creates, EndFailed, End, Continue
<1>9. StagedFits(o)'
  BY <1>1, <1>2, <1>3, <1>4, <1>5 DEF TypeOK, CallFits, StagedFits, CloseFits,
      Working, Fresh, Unopened, Unregistered, Commits, Creates, EndFailed, End,
      Continue
<1>10. CloseFits(o)'
  BY <1>1, <1>2, <1>3, <1>4, <1>5 DEF TypeOK, CloseFits, StagedFits, CallFits,
      Working, Commits, EndFailed, End, Continue
<1>11. ASSUME NEW p \in Paths, Touches(o, p) PROVE PathFits(p)'
  <2>1. HasAlone(o, p)
    BY <1>1, <1>11, OnOwnPath
  <2>2. QED
    BY <1>1, <1>2, <1>3, <1>4, <1>5, <2>1 DEF TypeOK, HasAlone, CloseFits,
        PathFits, CallFits, Unregistered, Creates, EndFailed, End, Continue
<1>12. QED
  BY <1>1, <1>6, <1>7, <1>8, <1>9, <1>10, <1>11, OwnStepKeeps

(* The staged document gets its name.                                      *)
LEMMA CommitKeeps ==
  ASSUME IInv, NEW o \in Operations, Commit(o)
  PROVE  IInv'
<1> USE Names DEF Commit, callVars, outsideVars, cliVars
<1>1. /\ TypeOK /\ o \in Actors
      /\ CallFits(o) /\ StagedFits(o) /\ CloseFits(o) /\ ShutdownFits
  BY DEF IInv, Actors
<1>2. \E x \in {"done"} : Goto(o, x)
  BY <1>1 DEF EndFailed, End
<1>3. /\ PlacesOK'
      /\ \A x : Goto(o, x) => pc'[o] = x
      /\ \A b \in Actors \ {o} : pc'[b] = pc[b]
  BY <1>1, <1>2, Moving, GoingSomewhere DEF OperationPlaces, ClosingPlaces
<1>4. /\ pc[o] \in {"locking", "preparing"} => at[o] \in Files
      /\ pc[o] \in Working => at[o] \in IF Commits(o) THEN {o} ELSE Files
      /\ pc[o] \in Working \cup {"preparing"}
           => at[o] \in Paths /\ lock[at[o]] = o
  BY <1>1, Exclusive DEF Busy
<1>5. Drops(o)
  BY <1>1, GoingOnOrReturning DEF OperationPlaces, ClosingPlaces
<1>6. TypeOK'
  BY <1>1, <1>2, <1>3, <1>4, <1>5 DEF TypeOK, PlacesOK, Drops, Working
<1>7. LeavesOthers(o)
  BY <1>1, <1>2, <1>3, <1>4, <1>5 DEF TypeOK, LeavesOthers, Touches, Busy,
      Working, Drops
<1>8. CallFits(o)'
  BY <1>1, <1>2, <1>3, <1>4, <1>5 DEF TypeOK, CallFits, StagedFits, Working,
      Fresh, Unopened, Unregistered, Commits, Creates, EndFailed, End
<1>9. StagedFits(o)'
  BY <1>1, <1>2, <1>3, <1>4, <1>5 DEF TypeOK, CallFits, StagedFits, CloseFits,
      Working, Fresh, Unopened, Unregistered, Commits, Creates, EndFailed, End
<1>10. CloseFits(o)'
  BY <1>1, <1>2, <1>3, <1>4, <1>5 DEF TypeOK, CloseFits, StagedFits, CallFits,
      Working, Commits, EndFailed, End
<1>11. ASSUME NEW p \in Paths, Touches(o, p) PROVE PathFits(p)'
  <2>1. HasAlone(o, p)
    BY <1>1, <1>11, OnOwnPath
  <2>2. QED
    BY <1>1, <1>2, <1>3, <1>4, <1>5, <2>1 DEF TypeOK, HasAlone, CloseFits,
        PathFits, CallFits, Unregistered, Creates, EndFailed, End
<1>12. QED
  BY <1>1, <1>6, <1>7, <1>8, <1>9, <1>10, <1>11, OwnStepKeeps

(* Shutdown begins.                                                        *)
LEMMA StopAcceptingKeeps ==
  ASSUME IInv, StopAccepting
  PROVE  IInv'
<1> USE Names DEF StopAccepting, callVars, outsideVars, cliVars
<1>1. /\ TypeOK /\ Shutdown \in Actors
      /\ CloseFits(Shutdown) /\ ShutdownFits
  BY DEF IInv, Actors
<1>2. \E x \in {"cancelling"} : Goto(Shutdown, x)
  BY <1>1
<1>3. /\ PlacesOK'
      /\ \A x : Goto(Shutdown, x) => pc'[Shutdown] = x
      /\ \A b \in Actors \ {Shutdown} : pc'[b] = pc[b]
  BY <1>1, <1>2, Moving, GoingSomewhere DEF ShutdownPlaces, ClosingPlaces
<1>4. at[Shutdown] # Nobody
        => at[Shutdown] \in Paths /\ lock[at[Shutdown]] = Shutdown
  BY <1>1, Exclusive DEF Busy
<1>5. TypeOK'
  BY <1>1, <1>2, <1>3, <1>4 DEF TypeOK, PlacesOK
<1>6. LeavesOthers(Shutdown)
  BY <1>1, <1>2, <1>3, <1>4 DEF TypeOK, LeavesOthers, Touches, Busy
<1>7. CloseFits(Shutdown)'
  BY <1>1, <1>2, <1>3, <1>4 DEF TypeOK, CloseFits
<1>8. ShutdownFits'
  BY <1>1, <1>2, <1>3, <1>4 DEF TypeOK, ShutdownFits, Closing
<1>9. ASSUME NEW p \in Paths, Touches(Shutdown, p) PROVE PathFits(p)'
  <2>1. HasAlone(Shutdown, p)
    BY <1>1, <1>9, OnOwnPath
  <2>2. QED
    BY <1>1, <1>2, <1>3, <1>4, <2>1 DEF TypeOK, HasAlone, CloseFits, PathFits,
        Busy
<1>10. QED
  BY <1>1, <1>5, <1>6, <1>8, <1>7, <1>9, OwnStepKeeps

(* It kills the children that run.                                         *)
LEMMA CancelChildrenKeeps ==
  ASSUME IInv, CancelChildren
  PROVE  IInv'
<1> USE Names DEF CancelChildren, callVars, outsideVars, cliVars
<1>1. /\ TypeOK /\ Shutdown \in Actors
      /\ CloseFits(Shutdown) /\ ShutdownFits
  BY DEF IInv, Actors
<1>2. \E x \in {"collecting"} : Goto(Shutdown, x)
  BY <1>1
<1>3. /\ PlacesOK'
      /\ \A x : Goto(Shutdown, x) => pc'[Shutdown] = x
      /\ \A b \in Actors \ {Shutdown} : pc'[b] = pc[b]
  BY <1>1, <1>2, Moving, GoingSomewhere DEF ShutdownPlaces, ClosingPlaces
<1>4. at[Shutdown] # Nobody
        => at[Shutdown] \in Paths /\ lock[at[Shutdown]] = Shutdown
  BY <1>1, Exclusive DEF Busy
<1>5. TypeOK'
  BY <1>1, <1>2, <1>3, <1>4 DEF TypeOK, PlacesOK
<1>6. LeavesOthers(Shutdown)
  BY <1>1, <1>2, <1>3, <1>4 DEF TypeOK, LeavesOthers, Touches, Busy
<1>7. CloseFits(Shutdown)'
  BY <1>1, <1>2, <1>3, <1>4 DEF TypeOK, CloseFits
<1>8. ShutdownFits'
  BY <1>1, <1>2, <1>3, <1>4 DEF TypeOK, ShutdownFits, Closing
<1>9. ASSUME NEW p \in Paths, Touches(Shutdown, p) PROVE PathFits(p)'
  <2>1. HasAlone(Shutdown, p)
    BY <1>1, <1>9, OnOwnPath
  <2>2. QED
    BY <1>1, <1>2, <1>3, <1>4, <2>1 DEF TypeOK, HasAlone, CloseFits, PathFits,
        Busy
<1>10. QED
  BY <1>1, <1>5, <1>6, <1>8, <1>7, <1>9, OwnStepKeeps

(* It notes the sessions registered now.                                   *)
LEMMA CollectSessionsKeeps ==
  ASSUME IInv, CollectSessions
  PROVE  IInv'
<1> USE Names DEF CollectSessions, callVars, outsideVars, cliVars
<1>1. /\ TypeOK /\ Shutdown \in Actors
      /\ CloseFits(Shutdown) /\ ShutdownFits
  BY DEF IInv, Actors
<1>2. \E x \in {"looping"} : Goto(Shutdown, x)
  BY <1>1
<1>3. /\ PlacesOK'
      /\ \A x : Goto(Shutdown, x) => pc'[Shutdown] = x
      /\ \A b \in Actors \ {Shutdown} : pc'[b] = pc[b]
  BY <1>1, <1>2, Moving, GoingSomewhere DEF ShutdownPlaces, ClosingPlaces
<1>4. at[Shutdown] # Nobody
        => at[Shutdown] \in Paths /\ lock[at[Shutdown]] = Shutdown
  BY <1>1, Exclusive DEF Busy
<1>5. TypeOK'
  BY <1>1, <1>2, <1>3, <1>4 DEF TypeOK, PlacesOK
<1>6. LeavesOthers(Shutdown)
  BY <1>1, <1>2, <1>3, <1>4 DEF TypeOK, LeavesOthers, Touches, Busy
<1>7. CloseFits(Shutdown)'
  BY <1>1, <1>2, <1>3, <1>4 DEF TypeOK, CloseFits
<1>8. ShutdownFits'
  BY <1>1, <1>2, <1>3, <1>4 DEF TypeOK, ShutdownFits, Closing
<1>9. ASSUME NEW p \in Paths, Touches(Shutdown, p) PROVE PathFits(p)'
  <2>1. HasAlone(Shutdown, p)
    BY <1>1, <1>9, OnOwnPath
  <2>2. QED
    BY <1>1, <1>2, <1>3, <1>4, <2>1 DEF TypeOK, HasAlone, CloseFits, PathFits,
        Busy
<1>10. QED
  BY <1>1, <1>5, <1>6, <1>8, <1>7, <1>9, OwnStepKeeps

(* It lets go of the session it has seen to.                               *)
LEMMA ReleaseSessionKeeps ==
  ASSUME IInv, ReleaseSession
  PROVE  IInv'
<1> USE Names DEF ReleaseSession, callVars, outsideVars, cliVars
<1>1. /\ TypeOK /\ Shutdown \in Actors
      /\ CloseFits(Shutdown) /\ ShutdownFits
  BY DEF IInv, Actors
<1>2. PlacesOK' /\ pc' = pc
  BY <1>1 DEF TypeOK, PlacesOK
<1>3. at[Shutdown] # Nobody
        => at[Shutdown] \in Paths /\ lock[at[Shutdown]] = Shutdown
  BY <1>1, Exclusive DEF Busy
<1>4. TypeOK'
  BY <1>1, <1>2, <1>3 DEF TypeOK, PlacesOK
<1>5. LeavesOthers(Shutdown)
  BY <1>1, <1>2, <1>3 DEF TypeOK, LeavesOthers, Touches, Busy
<1>6. CloseFits(Shutdown)'
  BY <1>1, <1>2, <1>3 DEF TypeOK, CloseFits
<1>7. ShutdownFits'
  BY <1>1, <1>2, <1>3 DEF TypeOK, ShutdownFits, Closing
<1>8. ASSUME NEW p \in Paths, Touches(Shutdown, p) PROVE PathFits(p)'
  <2>1. HasAlone(Shutdown, p)
    BY <1>1, <1>8, OnOwnPath
  <2>2. QED
    BY <1>1, <1>2, <1>3, <2>1 DEF TypeOK, HasAlone, CloseFits, PathFits, Busy
<1>9. QED
  BY <1>1, <1>4, <1>5, <1>7, <1>6, <1>8, OwnStepKeeps

(* It returns when it has seen to all of them.                             *)
LEMMA ShutdownReturnsKeeps ==
  ASSUME IInv, ShutdownReturns
  PROVE  IInv'
<1> USE Names DEF ShutdownReturns, callVars, outsideVars, cliVars
<1>1. /\ TypeOK /\ Shutdown \in Actors
      /\ CloseFits(Shutdown) /\ ShutdownFits
  BY DEF IInv, Actors
<1>2. \E x \in {"done"} : Goto(Shutdown, x)
  BY <1>1
<1>3. /\ PlacesOK'
      /\ \A x : Goto(Shutdown, x) => pc'[Shutdown] = x
      /\ \A b \in Actors \ {Shutdown} : pc'[b] = pc[b]
  BY <1>1, <1>2, Moving, GoingSomewhere DEF ShutdownPlaces, ClosingPlaces
<1>4. at[Shutdown] # Nobody
        => at[Shutdown] \in Paths /\ lock[at[Shutdown]] = Shutdown
  BY <1>1, Exclusive DEF Busy
<1>5. TypeOK'
  BY <1>1, <1>2, <1>3, <1>4 DEF TypeOK, PlacesOK
<1>6. LeavesOthers(Shutdown)
  BY <1>1, <1>2, <1>3, <1>4 DEF TypeOK, LeavesOthers, Touches, Busy
<1>7. CloseFits(Shutdown)'
  BY <1>1, <1>2, <1>3, <1>4 DEF TypeOK, CloseFits
<1>8. ShutdownFits'
  BY <1>1, <1>2, <1>3, <1>4 DEF TypeOK, ShutdownFits, Closing
<1>9. ASSUME NEW p \in Paths, Touches(Shutdown, p) PROVE PathFits(p)'
  <2>1. HasAlone(Shutdown, p)
    BY <1>1, <1>9, OnOwnPath
  <2>2. QED
    BY <1>1, <1>2, <1>3, <1>4, <2>1 DEF TypeOK, HasAlone, CloseFits, PathFits,
        Busy
<1>10. QED
  BY <1>1, <1>5, <1>6, <1>8, <1>7, <1>9, OwnStepKeeps

(* It turns to the next session.                                           *)
LEMMA ChooseNextKeeps ==
  ASSUME IInv, NEW s \in Paths, ChooseNext(s)
  PROVE  IInv'
<1> USE Names DEF ChooseNext, outsideVars, cliVars
<1>1. /\ TypeOK /\ Shutdown \in Actors
      /\ CloseFits(Shutdown) /\ ShutdownFits
  BY DEF IInv, Actors
<1>2. /\ PlacesOK' /\ pc'[Shutdown] = "locking"
      /\ \A b \in Actors \ {Shutdown} : pc'[b] = pc[b]
  BY <1>1, Moving DEF ShutdownPlaces, ClosingPlaces
<1>3. /\ at' \in [Actors -> Paths \cup {Nobody}] /\ at'[Shutdown] = s
      /\ \A b \in Actors \ {Shutdown} : at'[b] = at[b]
  BY <1>1 DEF TypeOK
<1>4. TypeOK'
  BY <1>1, <1>2, <1>3 DEF TypeOK, PlacesOK
<1>5. LeavesOthers(Shutdown)
  BY <1>2, <1>3 DEF LeavesOthers
<1>6. CloseFits(Shutdown)'
  BY <1>2 DEF CloseFits
<1>7. ShutdownFits'
  BY <1>2, <1>3 DEF ShutdownFits, Closing
<1>8. \A p \in Paths : ~Touches(Shutdown, p)
  BY DEF Touches, Busy
<1>9. QED
  BY <1>1, <1>4, <1>5, <1>6, <1>7, <1>8, OwnStepKeeps

(* It gets the lock of the session it waits for.                           *)
LEMMA LockNextKeeps ==
  ASSUME IInv, LockNext
  PROVE  IInv'
<1> USE Names DEF LockNext, callVars, outsideVars, cliVars
<1>1. /\ TypeOK /\ Shutdown \in Actors
      /\ CloseFits(Shutdown) /\ ShutdownFits
  BY DEF IInv, Actors
<1>2. \E x \in {"closing"} : Goto(Shutdown, x)
  BY <1>1
<1>3. /\ PlacesOK'
      /\ \A x : Goto(Shutdown, x) => pc'[Shutdown] = x
      /\ \A b \in Actors \ {Shutdown} : pc'[b] = pc[b]
  BY <1>1, <1>2, Moving, GoingSomewhere DEF ShutdownPlaces, ClosingPlaces
<1>4. at[Shutdown] \in todo /\ at[Shutdown] \in Paths
  BY <1>1 DEF TypeOK, ShutdownFits
<1>5. TypeOK'
  BY <1>1, <1>2, <1>3, <1>4 DEF TypeOK, PlacesOK
<1>6. LeavesOthers(Shutdown)
  <2>1. \A b \in Actors \ {Shutdown} : pc'[b] = pc[b] /\ at'[b] = at[b]
    BY <1>1, <1>2, <1>3, <1>4 DEF TypeOK
  <2>2. \A q \in Operations \ {Shutdown} :
          /\ request'[q] = request[q] /\ owns'[q] = owns[q]
          /\ failed'[q] = failed[q]
    BY <1>1, <1>2, <1>3, <1>4 DEF TypeOK
  <2>3. \A p \in Paths :
          lock[p] \notin {Shutdown, Nobody} => lock'[p] = lock[p]
    BY <1>1, <1>2, <1>3, <1>4 DEF TypeOK
  <2>4. \A q \in Operations \ {Shutdown} :
          pc[q] \in Fresh /\ lock[q] = Nobody => lock'[q] = Nobody
    <3>1. \A q \in Operations : pc[q] \in Fresh => q \notin todo
      BY DEF IInv, StagedFits
    <3>2. \A q \in Paths : q # at[Shutdown] => lock'[q] = lock[q]
      BY <1>1 DEF TypeOK
    <3>3. QED
      BY <1>4, <3>1, <3>2
  <2>5. \A p \in Paths :
          ~Touches(Shutdown, p) =>
            /\ resident'[p] = resident[p]
            /\ p \in owned' <=> p \in owned
    BY <1>1, <1>2, <1>3, <1>4 DEF TypeOK, Touches, Busy, Working
  <2>6. /\ stale \subseteq stale' /\ lost \subseteq lost'
        /\ todo' \subseteq owned \cup todo
    OBVIOUS
  <2>7. \A q \in Operations \ {Shutdown} :
          resident'[q] \in {resident[q], "none"}
    BY <1>1, <1>2, <1>3, <1>4 DEF TypeOK
  <2>8. QED
    BY <2>1, <2>2, <2>3, <2>4, <2>5, <2>6, <2>7 DEF LeavesOthers
<1>7. CloseFits(Shutdown)'
  BY <1>1, <1>2, <1>3, <1>4 DEF TypeOK, CloseFits
<1>8. ShutdownFits'
  BY <1>1, <1>2, <1>3, <1>4 DEF TypeOK, ShutdownFits, Closing
<1>9. ASSUME NEW p \in Paths, Touches(Shutdown, p) PROVE PathFits(p)'
  BY <1>9 DEF Touches, Busy
<1>10. QED
  BY <1>1, <1>5, <1>6, <1>8, <1>7, <1>9, OwnStepKeeps

(* The caller cancels.                                                     *)
LEMMA CancelKeeps ==
  ASSUME IInv, NEW o \in Operations, Cancel(o)
  PROVE  IInv'
<1> USE Names DEF Cancel, callVars, outsideVars, cliVars
<1>1. /\ TypeOK /\ o \in Actors
      /\ CallFits(o) /\ StagedFits(o) /\ CloseFits(o) /\ ShutdownFits
  BY DEF IInv, Actors
<1>2. PlacesOK' /\ pc' = pc
  BY <1>1 DEF TypeOK, PlacesOK
<1>3. /\ pc[o] \in {"locking", "preparing"} => at[o] \in Files
      /\ pc[o] \in Working => at[o] \in IF Commits(o) THEN {o} ELSE Files
      /\ pc[o] \in Working \cup {"preparing"}
           => at[o] \in Paths /\ lock[at[o]] = o
  BY <1>1, Exclusive DEF Busy
<1>4. TypeOK'
  BY <1>1, <1>2, <1>3 DEF TypeOK, PlacesOK, Working
<1>5. LeavesOthers(o)
  BY <1>1, <1>2, <1>3 DEF TypeOK, LeavesOthers, Touches, Busy, Working
<1>6. CallFits(o)'
  BY <1>1, <1>2, <1>3 DEF TypeOK, CallFits, StagedFits, Working, Fresh,
      Unopened, Unregistered, Commits, Creates
<1>7. StagedFits(o)'
  BY <1>1, <1>2, <1>3 DEF TypeOK, CallFits, StagedFits, CloseFits, Working,
      Fresh, Unopened, Unregistered, Commits, Creates
<1>8. CloseFits(o)'
  BY <1>1, <1>2, <1>3 DEF TypeOK, CloseFits, StagedFits, CallFits, Working,
      Commits
<1>9. ASSUME NEW p \in Paths, Touches(o, p) PROVE PathFits(p)'
  <2>1. HasAlone(o, p)
    BY <1>1, <1>9, OnOwnPath
  <2>2. QED
    BY <1>1, <1>2, <1>3, <2>1 DEF TypeOK, HasAlone, CloseFits, PathFits,
        CallFits, Unregistered, Creates
<1>10. QED
  BY <1>1, <1>4, <1>5, <1>6, <1>7, <1>8, <1>9, OwnStepKeeps

(* Other programs open and close residents of documents and create files.  *)
LEMMA OtherProgramKeeps ==
  ASSUME IInv, OtherProgramStep
  PROVE  IInv'
<1> USE Names
<1>1. PICK f \in Files : ForeignOpen(f) \/ ForeignClose(f) \/ ForeignCreate(f)
  BY DEF OtherProgramStep
<1>2. /\ UNCHANGED <<lock, owned, pc, failed, request, at, owns, accepting,
                     cancelled, todo, failures, lost, stale, killed>>
      /\ file' \in [Files -> {"absent", "theirs", "committed"}]
      /\ resident' \in [Paths -> {"none", "ours", "foreign"}]
      /\ \A p \in Paths : resident'[p] = "ours" <=> resident[p] = "ours"
      /\ \A o \in Operations : resident'[o] = resident[o]
  BY <1>1 DEF ForeignOpen, ForeignClose, ForeignCreate, IInv, TypeOK, callVars,
              outsideVars, cliVars
<1>3. TypeOK'
  BY <1>2 DEF IInv, TypeOK
<1>4. ASSUME NEW o \in Operations PROVE CallFits(o)' /\ StagedFits(o)'
  <2>1. pc[o] \in Unregistered => at[o] \in Paths
    BY Exclusive DEF Unregistered, Working
  <2>2. QED
    BY <1>2, <2>1, ZenonT(30) DEF IInv, CallFits, StagedFits, Commits, Creates
<1>5. ASSUME NEW a \in Actors PROVE CloseFits(a)'
  <2>1. pc[a] = "deregistering" => at[a] \in Paths
    BY Exclusive DEF Busy, Working, IInv, ShutdownFits, Closing
  <2>2. QED
    BY <1>2, <2>1 DEF IInv, CloseFits
<1>6. ShutdownFits'
  BY <1>2 DEF IInv, ShutdownFits
<1>7. ASSUME NEW p \in Paths PROVE PathFits(p)'
  <2>1. PathFits(p)
    BY DEF IInv
  <2>2. QED
    BY <1>2, <2>1 DEF PathFits
<1>8. QED
  BY <1>3, <1>4, <1>5, <1>6, <1>7 DEF IInv

-----------------------------------------------------------------------------
LEMMA StutteringKeeps ==
  ASSUME IInv, UNCHANGED vars
  PROVE  IInv'
<1> USE DEF vars, callVars, outsideVars, cliVars
<1>1. TypeOK'
  BY DEF IInv, TypeOK
<1>2. ASSUME NEW o \in Operations PROVE CallFits(o)' /\ StagedFits(o)'
  <2>1. CallFits(o) /\ StagedFits(o)
    BY DEF IInv
  <2>2. CallFits(o)'
    BY <2>1 DEF CallFits, Commits, Creates
  <2>3. StagedFits(o)'
    BY <2>1 DEF StagedFits, Commits
  <2>4. QED
    BY <2>2, <2>3
<1>3. ASSUME NEW a \in Actors PROVE CloseFits(a)'
  BY DEF IInv, CloseFits
<1>4. ShutdownFits'
  BY DEF IInv, ShutdownFits
<1>5. ASSUME NEW p \in Paths PROVE PathFits(p)'
  <2>1. PathFits(p)
    BY DEF IInv
  <2>2. QED
    BY <2>1 DEF PathFits
<1>6. QED
  BY <1>1, <1>2, <1>3, <1>4, <1>5 DEF IInv

LEMMA StepKeeps ==
  ASSUME IInv, [Next]_vars
  PROVE  IInv'
<1>1. ASSUME NEW a \in Actors, CloseStep(a)
      PROVE  IInv'
  BY <1>1, StartCloseKeeps, CloseReturnsKeeps, CloseErrsKeeps, DeregisterKeeps
     DEF CloseStep
<1>2. ASSUME NEW o \in Operations, OperationStep(o)
      PROVE  IInv'
  BY <1>1, <1>2, Names, LockPathKeeps, PrepareKeeps, StartOpenKeeps,
     OpenReturnsKeeps, OpenErrsKeeps, CheckAcceptingKeeps, DiscardedKeeps,
     RegisterKeeps, OperateKeeps, ConcludeKeeps, CommitKeeps
     DEF OperationStep
<1>3. CASE ShutdownProceeds
  BY <1>1, <1>3, CancelChildrenKeeps, CollectSessionsKeeps,
     ReleaseSessionKeeps, ShutdownReturnsKeeps, ChooseNextKeeps, LockNextKeeps
     DEF ShutdownProceeds, Actors
<1>4. QED
  BY <1>2, <1>3, BeginKeeps, CancelKeeps, StopAcceptingKeeps, ChildHangsKeeps,
     OtherProgramKeeps, StutteringKeeps DEF Next, Terminated

LEMMA InvariantHolds == Spec => []IInv
<1>1. QED
  BY InitEstablishes, StepKeeps, PTL DEF Spec

(* The types of the state, among them what OfficeCLI can be asked to do    *)
(* and how often it may fail.                                              *)
THEOREM OfficeTypeCorrect == Spec => []TypeOK
<1>1. IInv => TypeOK
  BY DEF IInv
<1>2. QED
  BY <1>1, InvariantHolds, PTL

(* open_locked, runtime.open and runtime.create: whatever is cancelled,    *)
(* fails or shuts down meanwhile, a resident the service started is        *)
(* registered or in the hands of the call that holds the lock of its path. *)
THEOREM ResidentsAreKnown == Spec => []NoForgottenResident
<1>1. ASSUME IInv, NEW p \in Paths, resident[p] = "ours"
      PROVE  p \in owned \/ lock[p] # Nobody \/ p \in lost
  <2>1. PathFits(p)
    BY <1>1 DEF IInv
  <2>2. ASSUME NEW o \in Operations, at[o] = p,
               pc[o] \in {"child discard", "opened", "registering"}
        PROVE  lock[p] # Nobody
    <3>1. lock[at[o]] = o
      BY <1>1, <2>2 DEF IInv, CallFits, Working
    <3>2. QED
      BY <2>2, <3>1, Names
  <2>3. QED
    BY <1>1, <2>1, <2>2 DEF PathFits
<1>2. IInv => NoForgottenResident
  BY <1>1 DEF NoForgottenResident
<1>3. QED
  BY <1>2, InvariantHolds, PTL

-----------------------------------------------------------------------------
(* Only a call that has seen its close succeed takes a session off the     *)
(* list.                                                                   *)
LEMMA OnlyDeregisterForgets ==
  ASSUME Next, NEW p \in owned, p \notin owned'
  PROVE  \E a \in Actors : Deregister(a) /\ p = at[a]
<1>1. ASSUME NEW a \in Actors, CloseStep(a)
      PROVE  Deregister(a) /\ p = at[a]
  BY <1>1 DEF CloseStep, StartClose, CloseReturns, CloseErrs, Deregister
<1>2. ASSUME NEW o \in Operations, OperationStep(o), ~CloseStep(o)
      PROVE  FALSE
  BY <1>2 DEF OperationStep, LockPath, Prepare, StartOpen, OpenReturns,
     OpenErrs, CheckAccepting, Discarded, Register, Operate, Conclude, Commit
<1>3. ASSUME ShutdownProceeds, ~CloseStep(Shutdown)
      PROVE  FALSE
  BY <1>3 DEF ShutdownProceeds, CancelChildren, CollectSessions, ChooseNext, LockNext,
     ReleaseSession, ShutdownReturns
<1>4. ~StopAccepting /\ ~OtherProgramStep /\ ~Terminated
  BY DEF StopAccepting, OtherProgramStep, ForeignOpen, ForeignClose,
     ForeignCreate, Terminated, vars
<1>5. \A o \in Operations : ~Cancel(o) /\ \A r \in Requests : ~Begin(o, r)
  BY DEF Cancel, Begin
<1>6. \A a \in Actors : ~ChildHangs(a)
  BY DEF ChildHangs
<1>7. QED
  BY <1>1, <1>2, <1>3, <1>4, <1>5, <1>6 DEF Next, Actors

(* close_locked: a session whose close failed stays registered, for        *)
(* close_document or shutdown to try again.                                *)
THEOREM SessionsStayRegistered == Spec => RegisteredUntilGone
<1> DEFINE Kept == \A p \in Paths :
                     p \in owned /\ p \notin owned' => resident[p] # "ours"
<1>1. ASSUME IInv, Next
      PROVE  Kept
  <2>1. ASSUME NEW p \in owned, p \notin owned'
        PROVE  resident[p] # "ours"
    <3>1. PICK a \in Actors : Deregister(a) /\ p = at[a]
      BY <1>1, <2>1, OnlyDeregisterForgets
    <3>2. CloseFits(a)
      BY <1>1 DEF IInv
    <3>3. QED
      BY <3>1, <3>2 DEF Deregister, CloseFits
  <2>2. QED
    BY <2>1
<1>2. IInv /\ [Next]_vars => [Kept]_vars
  BY <1>1
<1>3. RegisteredUntilGone <=> [][Kept]_vars
  BY DEF RegisteredUntilGone
<1>4. QED
  BY <1>2, <1>3, InvariantHolds, PTL DEF Spec

-----------------------------------------------------------------------------
(* The steps after which a resident may be gone.                           *)
LEMMA OnlyClosesEndResidents ==
  ASSUME TypeOK, Next, ~OtherProgramStep, NEW p \in Paths,
         resident[p] = "foreign", resident'[p] # "foreign"
  PROVE  \E a \in Actors :
           /\ p = at[a]
           /\ pc[a] = "child close" \/ (a \in Operations /\ pc[a] = "child discard")
<1> USE DEF TypeOK
<1>1. ASSUME NEW a \in Actors, CloseStep(a)
      PROVE  pc[a] = "child close" /\ p = at[a]
  <2>1. ~StartClose(a) /\ ~Deregister(a)
    BY DEF StartClose, Deregister, cliVars
  <2>2. CASE CloseReturns(a)
    BY <2>2 DEF CloseReturns, CloseSucceeds
  <2>3. CASE CloseErrs(a)
    BY <2>3 DEF CloseErrs, CloseFails
  <2>4. QED
    BY <1>1, <2>1, <2>2, <2>3 DEF CloseStep
<1>2. ASSUME NEW o \in Operations, OperationStep(o), ~CloseStep(o)
      PROVE  pc[o] = "child discard" /\ p = at[o]
  <2>1. /\ ~LockPath(o) /\ ~Prepare(o) /\ ~StartOpen(o) /\ ~CheckAccepting(o)
        /\ ~Register(o) /\ ~Operate(o) /\ ~Conclude(o) /\ ~Commit(o)
    BY DEF LockPath, Prepare, StartOpen, CheckAccepting, Register, Operate,
           Conclude, Commit, cliVars
  <2>2. ~OpenReturns(o)
    BY DEF OpenReturns, OpenStarts, OpenReuses, cliVars
  <2>3. ~OpenErrs(o)
    BY DEF OpenErrs, OpenFails
  <2>4. CASE Discarded(o)
    BY <2>4 DEF Discarded, CloseSucceeds, CloseFails
  <2>5. QED
    BY <1>2, <2>1, <2>2, <2>3, <2>4 DEF OperationStep
<1>3. ASSUME ShutdownProceeds, ~CloseStep(Shutdown)
      PROVE  FALSE
  BY <1>3 DEF ShutdownProceeds, CancelChildren, CollectSessions, ChooseNext, LockNext,
     ReleaseSession, ShutdownReturns, cliVars
<1>4. ~StopAccepting /\ ~Terminated
  BY DEF StopAccepting, Terminated, vars, cliVars
<1>5. \A o \in Operations : ~Cancel(o) /\ \A r \in Requests : ~Begin(o, r)
  BY DEF Cancel, Begin, cliVars
<1>6. ASSUME NEW a \in Actors, ChildHangs(a)
      PROVE  /\ p = at[a]
             /\ pc[a] = "child close" \/ (a \in Operations /\ pc[a] = "child discard")
  <2>1. pc[a] = "child discard" => a \in Operations
    BY Names DEF Actors, ShutdownPlaces, ClosingPlaces
  <2>2. ~(pc[a] = "child open" /\ OpenFails(at[a]))
    BY DEF OpenFails
  <2>3. CASE CloseFails(a, at[a]) /\ pc[a] \in {"child close", "child discard"}
    BY <2>1, <2>3 DEF CloseFails
  <2>4. QED
    BY <1>6, <2>2, <2>3 DEF ChildHangs
<1>7. QED
  BY <1>1, <1>2, <1>3, <1>4, <1>5, <1>6 DEF Next, Actors

(* A resident another program started is reused and never closed, unless   *)
(* the path was registered when the resident the service had there ended   *)
(* in a close that reported a failure.                                     *)
THEOREM ForeignResidentsAreSpared == Spec => ForeignResidentsSurvive
<1> DEFINE Spared ==
      ~OtherProgramStep =>
        \A p \in Paths \ stale :
          resident[p] = "foreign" => resident'[p] = "foreign"
<1>1. ASSUME IInv, Next, ~OtherProgramStep, NEW p \in Paths,
             resident[p] = "foreign", resident'[p] # "foreign"
      PROVE  p \in stale
  <2>1. TypeOK /\ PathFits(p)
    BY <1>1 DEF IInv
  <2>2. PICK a \in Actors :
          /\ p = at[a]
          /\ pc[a] = "child close" \/ (a \in Operations /\ pc[a] = "child discard")
    BY <1>1, <2>1, OnlyClosesEndResidents
  <2>3. CASE pc[a] = "child close"
    <3>1. p \in owned /\ Busy(a)
      BY <1>1, <2>2, <2>3
         DEF IInv, CloseFits, Busy, Working, ShutdownFits, Closing
    <3>2. \A b \in Actors : pc[b] = "deregistering" => at[b] # p
      BY <1>1, <2>2, <2>3, <3>1, Alone DEF Closing
    <3>3. QED
      BY <1>1, <2>1, <3>1, <3>2 DEF PathFits
  <2>4. CASE a \in Operations /\ pc[a] = "child discard"
    <3>1. CallFits(a) /\ StagedFits(a) /\ pc[a] = "child discard"
      BY <1>1, <2>4 DEF IInv
    <3>2. CASE owns[a]
      BY <1>1, <2>2, <3>1, <3>2 DEF CallFits, Unregistered
    <3>3. CASE ~owns[a]
      BY <1>1, <2>2, <3>1, <3>3
         DEF CallFits, StagedFits, Working, Creates, Commits
    <3>4. QED
      BY <3>2, <3>3
  <2>5. QED
    BY <2>2, <2>3, <2>4
<1>2. IInv /\ [Next]_vars => [Spared]_vars
  BY <1>1
<1>3. ForeignResidentsSurvive <=> [][Spared]_vars
  BY DEF ForeignResidentsSurvive
<1>4. QED
  BY <1>2, <1>3, InvariantHolds, PTL DEF Spec

-----------------------------------------------------------------------------
(* Nobody but a call itself leaves the place where it commits.             *)
LEMMA OnlyCommitLeavesCommitting ==
  ASSUME TypeOK, Next, NEW o \in Operations, pc[o] = "committing",
         pc'[o] # pc[o]
  PROVE  Commit(o)
<1> USE Names
<1>1. ASSUME NEW a \in Actors, NEW x, Goto(a, x)
      PROVE  a = o
  BY <1>1 DEF Goto, TypeOK
<1>2. pc' # pc
  OBVIOUS
<1>3. ASSUME NEW a \in Actors, CloseStep(a)
      PROVE  a = o
  BY <1>1, <1>3 DEF CloseStep, StartClose, CloseReturns, CloseErrs, Deregister
<1>4. ASSUME NEW q \in Operations, OperationStep(q), ~CloseStep(q)
      PROVE  q = o
  <2>1. \/ \E x : Goto(q, x)
        \/ \E x : Continue(q, x)
        \/ End(q) \/ EndFailed(q)
    BY <1>4 DEF OperationStep, LockPath, Prepare, StartOpen, OpenReturns,
       OpenErrs, CheckAccepting, Discarded, Register, ProceedWithSession,
       Operate, Conclude, Commit
  <2>2. \E x : Goto(q, x)
    BY <2>1 DEF Continue, End, EndFailed
  <2>3. QED
    BY <1>1, <2>2
<1>5. ~ShutdownProceeds \/ CloseStep(Shutdown)
  BY <1>1, <1>2 DEF ShutdownProceeds, CancelChildren, CollectSessions,
     ChooseNext, LockNext, ReleaseSession, ShutdownReturns, Actors
<1>6. ~StopAccepting /\ ~OtherProgramStep /\ ~Terminated
  BY <1>1, <1>2 DEF StopAccepting, OtherProgramStep, ForeignOpen,
     ForeignClose, ForeignCreate, Terminated, vars, Actors
<1>7. \A q \in Operations : ~Cancel(q) /\ \A r \in Requests : ~Begin(q, r)
  BY <1>1, <1>2 DEF Cancel, Begin
<1>8. \A a \in Actors : ~ChildHangs(a)
  BY <1>1 DEF ChildHangs
<1>9. OperationStep(o)
  BY <1>3, <1>4, <1>5, <1>6, <1>7, <1>8 DEF Next, OperationStep, Actors
<1>10. QED
  BY <1>9 DEF OperationStep, LockPath, Prepare, StartOpen, OpenReturns,
     OpenErrs, CheckAccepting, Discarded, Register, Operate, Conclude,
     CloseStep, StartClose, CloseReturns, CloseErrs, Deregister

(* apply_operations and create_document: a document gets its name when the *)
(* work on it succeeded and its session is closed, and replaces nothing.   *)
THEOREM StagedFilesAreClosed == Spec => CommittedOnlyWhenClosed
<1> DEFINE Closed ==
      \A o \in Operations :
        pc[o] = "committing" /\ pc'[o] # pc[o] /\ file' # file
          => /\ resident[o] # "ours" /\ o \notin owned /\ ~failed[o]
             /\ file[request[o].target] = "absent"
<1>1. ASSUME IInv, Next, NEW o \in Operations,
             pc[o] = "committing", pc'[o] # pc[o], file' # file
      PROVE  /\ resident[o] # "ours" /\ o \notin owned /\ ~failed[o]
             /\ file[request[o].target] = "absent"
  <2>1. TypeOK /\ CallFits(o) /\ StagedFits(o)
    BY <1>1 DEF IInv
  <2>2. Commit(o)
    BY <1>1, <2>1, OnlyCommitLeavesCommitting
  <2>3. QED
    BY <1>1, <2>1, <2>2 DEF Commit, Exists, CallFits, StagedFits
<1>2. IInv /\ [Next]_vars => [Closed]_vars
  BY <1>1
<1>3. CommittedOnlyWhenClosed <=> [][Closed]_vars
  BY DEF CommittedOnlyWhenClosed
<1>4. QED
  BY <1>2, <1>3, InvariantHolds, PTL DEF Spec
=============================================================================
