---------------------------- MODULE AuthService -----------------------------
(***************************************************************************)
(* AuthService of application/auth_service.rs with the credential store of *)
(* infrastructure/auth/mod.rs: a session in memory and a copy of it in the *)
(* system's credential store, one async lock around every call that        *)
(* changes them, a server that rotates refresh tokens, expiry by the wall  *)
(* clock, and a process that may end between any two steps.  A process     *)
(* that cannot reach the credential store when it starts goes on without   *)
(* one: nothing is loaded, and writes answer Ok and store nothing.         *)
(*                                                                         *)
(* A token is a number; info says whose it is and whether it carries a     *)
(* usable refresh token, which the server takes once.                      *)
(***************************************************************************)
EXTENDS Integers, FiniteSets

CONSTANTS
  Callers,      (* windows and tasks that call the service                  *)
  Users,        (* accounts                                                 *)
  MaxTokens,    (* bound: tokens the server issues                          *)
  MaxFailures,  (* bound: storage failures and lost answers                 *)
  MaxRestarts,  (* bound: how often the process is started again            *)
  None          (* no token, no holder, no event                            *)

Tokens == 1..MaxTokens

ASSUME AuthServiceAssumption ==
  /\ MaxTokens \in Nat /\ MaxFailures \in Nat /\ MaxRestarts \in Nat
  /\ None \notin Callers \cup Users \cup Nat

VARIABLES
  session,   (* session: the token in memory                                *)
  stored,    (* the token in the credential store                           *)
  entry,     (* entry: this process has the credential store                *)
  locked,    (* the holder of refresh_lock                                  *)
  pc,        (* where each call is                                          *)
  call,      (* what each caller called: "login", "state" or "logout"       *)
  token,     (* the token a call sends, then the one it was answered        *)
  event,     (* the last event published since the process started          *)
  issued,    (* how many tokens the server issued                           *)
  info,      (* what is known of each token                                 *)
  expired,   (* tokens whose expiration has passed                          *)
  spent,     (* tokens whose refresh token the server has taken             *)
  revoked,   (* tokens whose refresh token the server no longer accepts     *)
  failures,  (* storage failures and lost answers                           *)
  restarts,
  lossy      (* history: an answer with a rotated token was lost            *)

sessionVars == <<session, stored, entry>>
serverVars == <<issued, info, spent>>
clockVars == <<expired, revoked>>
boundVars == <<failures, restarts, lossy>>
vars == <<sessionVars, locked, pc, call, token, event, serverVars, clockVars,
          boundVars>>

Calls == {"login", "state", "logout"}
(* Places at which a call holds refresh_lock.                              *)
Inside == {"checking", "asking", "saving", "setting", "clearing", "taking",
           "publishing"}
Places == Inside \cup {"idle", "reporting", "locking"}

Infos == [user : Users, renewable : BOOLEAN]
Events == [kind : {"UserLoggedIn", "UserLoggedOut"}, user : Users]

Init ==
  /\ session = None /\ stored = None
  /\ entry \in BOOLEAN
  /\ locked = None
  /\ pc = [c \in Callers |-> "idle"]
  /\ call = [c \in Callers |-> None]
  /\ token = [c \in Callers |-> None]
  /\ event = None
  /\ issued = 0
  /\ info = [t \in Tokens |-> None]
  /\ expired = {} /\ spent = {} /\ revoked = {}
  /\ failures = 0 /\ restarts = 0
  /\ lossy = FALSE

Goto(c, place) == pc' = [pc EXCEPT ![c] = place]

(* The call returns and the guard of refresh_lock is dropped.              *)
End(c) ==
  /\ Goto(c, "idle")
  /\ locked' = IF locked = c THEN None ELSE locked
  /\ token' = [token EXCEPT ![c] = None]
  /\ call' = [call EXCEPT ![c] = None]

Continue(c, place) == Goto(c, place) /\ UNCHANGED <<locked, call>>

Fail ==
  /\ failures < MaxFailures
  /\ failures' = failures + 1
  /\ UNCHANGED restarts

IsExpired == session # None /\ session \in expired

-----------------------------------------------------------------------------
(* login (credentials that are empty never get here), logout and state,    *)
(* which only takes the lock when the session looks expired.               *)
Begin(c, what) ==
  /\ pc[c] = "idle"
  /\ call' = [call EXCEPT ![c] = what]
  /\ Goto(c, IF what # "state" \/ IsExpired THEN "locking" ELSE "reporting")
  /\ UNCHANGED <<sessionVars, locked, token, event, serverVars, clockVars, boundVars>>

(* current_state reads the session a second time.                          *)
Report(c) ==
  /\ pc[c] = "reporting"
  /\ End(c)
  /\ UNCHANGED <<sessionVars, event, serverVars, clockVars, boundVars>>

FirstPlace == [login |-> "asking", logout |-> "clearing", state |-> "checking"]

(* Faulty variant: nobody waits for the lock.                              *)
LockUnguarded(c) ==
  /\ pc[c] = "locking"
  /\ locked' = c
  /\ Goto(c, FirstPlace[call[c]])
  /\ UNCHANGED <<sessionVars, call, token, event, serverVars, clockVars,
                 boundVars>>

Lock(c) ==
  /\ pc[c] = "locking"
  /\ locked = None
  /\ locked' = c
  /\ Goto(c, FirstPlace[call[c]])
  /\ UNCHANGED <<sessionVars, call, token, event, serverVars, clockVars,
                 boundVars>>

(* refresh_expired_session: somebody else may have renewed or ended the    *)
(* session; one without a usable refresh token is cleared.                 *)
Check(c) ==
  /\ pc[c] = "checking"
  /\ \/ ~IsExpired /\ End(c)
     \/ /\ IsExpired /\ ~info[session].renewable
        /\ Continue(c, "clearing") /\ UNCHANGED token
     \/ /\ IsExpired /\ info[session].renewable
        /\ token' = [token EXCEPT ![c] = session]
        /\ Continue(c, "asking")
  /\ UNCHANGED <<sessionVars, event, serverVars, clockVars, boundVars>>

-----------------------------------------------------------------------------
(* The request to the server.                                              *)

(* A refresh is answered for the user of the token sent, which is spent.   *)
Issue(c) ==
  /\ issued < MaxTokens
  /\ issued' = issued + 1
  /\ \E new \in Infos :
       /\ info' = [info EXCEPT ![issued'] = new]
       /\ call[c] = "state" => new.user = info[token[c]].user
  /\ IF call[c] = "login" THEN UNCHANGED spent
     ELSE /\ token[c] \notin spent \cup revoked
          /\ spent' = spent \cup {token[c]}

(* Faulty variant: the lock is not held while the answer is stored.        *)
ServerAcceptsUnlocking(c) ==
  /\ pc[c] = "asking"
  /\ Issue(c)
  /\ token' = [token EXCEPT ![c] = issued']
  /\ Goto(c, "saving")
  /\ locked' = None
  /\ UNCHANGED <<sessionVars, call, event, clockVars, boundVars>>

ServerAccepts(c) ==
  /\ pc[c] = "asking"
  /\ Issue(c)
  /\ token' = [token EXCEPT ![c] = issued']
  /\ Continue(c, "saving")
  /\ UNCHANGED <<sessionVars, event, clockVars, boundVars>>

(* The server did what was asked, but its answer does not arrive, is not a *)
(* 200 or lacks its data: the call fails and the session stays.            *)
AnswerIsLost(c) ==
  /\ pc[c] = "asking"
  /\ Issue(c)
  /\ Fail
  /\ lossy' = (lossy \/ call[c] = "state")
  /\ End(c)
  /\ UNCHANGED <<sessionVars, event, clockVars>>

(* The request does not arrive: nothing changes.                           *)
ServerUnreachable(c) ==
  /\ pc[c] = "asking"
  /\ End(c)
  /\ UNCHANGED <<sessionVars, event, serverVars, clockVars, boundVars>>

(* An errcode other than 0000: a login fails, a refresh ends the session.  *)
ServerRejects(c) ==
  /\ pc[c] = "asking"
  /\ \/ call[c] = "login" /\ End(c)
     \/ /\ call[c] = "state"
        /\ token[c] \in spent \cup revoked
        /\ Continue(c, "clearing") /\ UNCHANGED token
  /\ UNCHANGED <<sessionVars, event, serverVars, clockVars, boundVars>>

-----------------------------------------------------------------------------
(* Storing a token: the credential store first, then memory.               *)

(* Faulty variant: a token that could not be stored is used all the same.  *)
SaveIgnoringFailure(c) ==
  /\ pc[c] = "saving"
  /\ \/ /\ stored' = IF entry THEN token[c] ELSE stored
        /\ UNCHANGED <<boundVars>>
     \/ entry /\ Fail /\ UNCHANGED <<stored, lossy>>
  /\ Continue(c, "setting") /\ UNCHANGED token
  /\ UNCHANGED <<session, entry, event, serverVars, clockVars>>

Save(c) ==
  /\ pc[c] = "saving"
  /\ \/ /\ stored' = IF entry THEN token[c] ELSE stored
        /\ Continue(c, "setting")
        /\ UNCHANGED <<token, boundVars>>
     \/ /\ entry /\ Fail
        /\ lossy' = (lossy \/ call[c] = "state")
        /\ End(c)
        /\ UNCHANGED stored
  /\ UNCHANGED <<session, entry, event, serverVars, clockVars>>

SetSession(c) ==
  /\ pc[c] = "setting"
  /\ session' = token[c]
  /\ IF call[c] = "login" THEN Continue(c, "publishing") /\ UNCHANGED token
     ELSE End(c)
  /\ UNCHANGED <<stored, entry, event, serverVars, clockVars, boundVars>>

(* clear_session: the credential store first, then memory.                 *)
Clear(c) ==
  /\ pc[c] = "clearing"
  /\ \/ /\ stored' = IF entry THEN None ELSE stored
        /\ Continue(c, "taking")
        /\ UNCHANGED <<token, boundVars>>
     \/ entry /\ Fail /\ End(c) /\ UNCHANGED <<stored, lossy>>
  /\ UNCHANGED <<session, entry, event, serverVars, clockVars>>

(* Only a logout that found a session publishes.                           *)
Publishes(c) == call[c] = "logout" /\ session # None

(* Faulty variant: the lock is released before the event is published.     *)
TakeUnlocking(c) ==
  /\ pc[c] = "taking"
  /\ session' = None
  /\ IF Publishes(c)
     THEN /\ token' = [token EXCEPT ![c] = session]
          /\ Goto(c, "publishing") /\ locked' = None /\ UNCHANGED call
     ELSE End(c)
  /\ UNCHANGED <<stored, entry, event, serverVars, clockVars, boundVars>>

Take(c) ==
  /\ pc[c] = "taking"
  /\ session' = None
  /\ IF Publishes(c)
     THEN token' = [token EXCEPT ![c] = session] /\ Continue(c, "publishing")
     ELSE End(c)
  /\ UNCHANGED <<stored, entry, event, serverVars, clockVars, boundVars>>

Publish(c) ==
  /\ pc[c] = "publishing"
  /\ event' = [kind |-> IF call[c] = "login" THEN "UserLoggedIn"
                        ELSE "UserLoggedOut",
               user |-> info[token[c]].user]
  /\ End(c)
  /\ UNCHANGED <<sessionVars, serverVars, clockVars, boundVars>>

-----------------------------------------------------------------------------
(* Time, the server and the process.                                       *)

Expire(t) ==
  /\ t \in 1..issued \ expired
  /\ expired' = expired \cup {t}
  /\ UNCHANGED <<sessionVars, locked, pc, call, token, event, serverVars,
                 revoked, boundVars>>

Revoke(t) ==
  /\ t \in 1..issued \ (revoked \cup spent)
  /\ revoked' = revoked \cup {t}
  /\ UNCHANGED <<sessionVars, locked, pc, call, token, event, serverVars,
                 expired, boundVars>>

(* load: what is stored, nothing where it cannot be read, and nothing      *)
(* where it does not decode, which is then removed if that succeeds.       *)
Load ==
  \/ session' = stored /\ UNCHANGED <<stored, failures>>
  \/ /\ failures < MaxFailures
     /\ failures' = failures + 1
     /\ session' = None
     /\ stored' \in {stored, None}

(* The process ends, whatever it was doing, and the next one loads what is *)
(* stored, or starts without the store.                                    *)
Restart ==
  /\ restarts < MaxRestarts
  /\ restarts' = restarts + 1
  /\ entry' \in BOOLEAN
  /\ IF entry' THEN Load ELSE session' = None /\ UNCHANGED <<stored, failures>>
  /\ lossy' = \/ lossy
              \/ entry /\ \E c \in Callers : pc[c] = "saving" /\ call[c] = "state"
  /\ locked' = None
  /\ pc' = [c \in Callers |-> "idle"]
  /\ token' = [c \in Callers |-> None]
  /\ call' = [c \in Callers |-> None]
  /\ event' = None
  /\ UNCHANGED <<serverVars, clockVars>>

CallStep(c) ==
  \/ \E what \in Calls : Begin(c, what)
  \/ Report(c) \/ Lock(c) \/ Check(c)
  \/ ServerAccepts(c) \/ AnswerIsLost(c) \/ ServerUnreachable(c)
  \/ ServerRejects(c)
  \/ Save(c) \/ SetSession(c) \/ Clear(c) \/ Take(c) \/ Publish(c)

Next ==
  \/ \E c \in Callers : CallStep(c)
  \/ \E t \in Tokens : Expire(t) \/ Revoke(t)
  \/ Restart

Spec == Init /\ [][Next]_vars

-----------------------------------------------------------------------------
(* Types; and the lock is held by the one call that is inside.             *)
TypeOK ==
  /\ session \in Tokens \cup {None} /\ stored \in Tokens \cup {None}
  /\ entry \in BOOLEAN
  /\ pc \in [Callers -> Places]
  /\ \A c \in Callers : pc[c] \in Inside <=> locked = c
  /\ locked \in Callers \cup {None}
  /\ call \in [Callers -> Calls \cup {None}]
  /\ token \in [Callers -> Tokens \cup {None}]
  /\ event \in Events \cup {None}
  /\ issued \in 0..MaxTokens
  /\ info \in [Tokens -> Infos \cup {None}]
  /\ expired \subseteq Tokens /\ spent \subseteq Tokens /\ revoked \subseteq Tokens
  /\ failures \in 0..MaxFailures
  /\ restarts \in 0..MaxRestarts
  /\ lossy \in BOOLEAN

(* In a process that has the credential store the session in memory is,    *)
(* between calls, the stored one: a write that fails leaves both as they   *)
(* were.  Only after a start that could not use what is stored is somebody *)
(* signed out in memory with a token left in the store.  (A process that   *)
(* started without the store keeps its session to itself.)                 *)
MemoryAgreesWithStore ==
  entry /\ locked = None => session = stored \/ (session = None /\ restarts > 0)

(* A refresh token is sent once: calls that find the session expired at    *)
(* the same time do not make the server reject one of them, which would    *)
(* sign the user out.  An answer that was lost on the way is the exception *)
(* the code has no remedy for.                                             *)
RenewalsAreFresh ==
  \A c \in Callers :
    pc[c] = "asking" /\ call[c] = "state" => lossy \/ token[c] \notin spent

(* docs/event-bus.md: only login and logout publish.  Whoever heard of a   *)
(* logout finds nobody signed in, whoever heard of a login finds that user *)
(* or, when the session could not be renewed, nobody.                      *)
EventsTellTheSession ==
  locked = None /\ event # None =>
    \/ session = None
    \/ event.kind = "UserLoggedIn" /\ event.user = info[session].user

SameUser(new, old) ==
  old # None /\ (new = None \/ info'[new].user = info[old].user)

(* Nobody is signed in, in memory or for the next start, but by a login:   *)
(* a renewal under way when the user logs out, or logs in as somebody      *)
(* else, does not bring the old session back.                              *)
SessionsBeginWithLogin ==
  [][LET login == \E c \in Callers : call[c] = "login" /\ pc[c] # pc'[c]
     IN  /\ stored' # stored /\ stored' # None
              => login \/ SameUser(stored', stored)
         /\ session' # session /\ session' # None
              => login \/ SameUser(session', session) \/ restarts' # restarts]_vars
=============================================================================
