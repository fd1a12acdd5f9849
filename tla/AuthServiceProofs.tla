-------------------------- MODULE AuthServiceProofs --------------------------
(***************************************************************************)
(* Theorems about AuthService, for any number of callers, users, tokens,   *)
(* failures and restarts.                                                  *)
(***************************************************************************)
EXTENDS AuthService, TLAPS

-----------------------------------------------------------------------------
(* The inductive invariant.                                                *)

(* Nothing refers to a token the server has not issued.                    *)
IssuedOnly ==
  /\ session \in 1..issued \cup {None} /\ stored \in 1..issued \cup {None}
  /\ token \in [Callers -> 1..issued \cup {None}]
  /\ spent \subseteq 1..issued
  /\ \A t \in 1..issued : info[t] \in Infos

Storing == {"saving", "setting"}

(* What a call knows and has done at each of its places.                   *)
CallFits(c) ==
  /\ pc[c] = "locking" => call[c] \in Calls
  /\ pc[c] = "checking" => call[c] = "state"
  /\ pc[c] \in Storing \cup {"asking"} => call[c] \in {"login", "state"}
  /\ pc[c] \in {"clearing", "taking"} => call[c] \in {"state", "logout"}
  /\ pc[c] = "asking" /\ call[c] = "state"
       => token[c] = session /\ session # None
  /\ pc[c] \in Storing => token[c] # None /\ token[c] \notin spent
  /\ pc[c] \in Storing /\ call[c] = "state"
       => session # None /\ info[token[c]].user = info[session].user
  /\ pc[c] \in Storing /\ ~entry => token[c] # stored
  /\ pc[c] = "setting" /\ entry => stored = token[c]
  /\ pc[c] = "taking" /\ entry => stored = None
  /\ pc[c] = "publishing" =>
       /\ token[c] # None
       /\ \/ call[c] = "login" /\ session = token[c]
          \/ call[c] = "logout" /\ session = None

(* Memory and store differ only between the two writes of a call, or after *)
(* a start that could not load what is stored.  A process without the      *)
(* store never has the stored token.                                       *)
Agree == session = stored \/ (session = None /\ restarts > 0)

Agreement ==
  /\ entry /\ (\A c \in Callers : pc[c] \notin {"setting", "taking"}) => Agree
  /\ ~entry => session = None \/ session # stored

(* Until an answer is lost, a token that was spent is only still in use    *)
(* while the call that spent it is about to replace it.                    *)
Freshness ==
  ~lossy =>
    /\ stored \in spent
         => entry /\ \E c \in Callers : pc[c] = "saving" /\ call[c] = "state"
    /\ session \in spent
         => \E c \in Callers : pc[c] \in Storing /\ call[c] = "state"

(* The last event tells the session, but for a login still to be told.     *)
EventFits ==
  \/ event = None \/ session = None
  \/ event.kind = "UserLoggedIn" /\ event.user = info[session].user
  \/ \E c \in Callers : pc[c] = "publishing" /\ call[c] = "login"

IInv ==
  /\ TypeOK /\ IssuedOnly /\ (\A c \in Callers : CallFits(c))
  /\ Agreement /\ Freshness /\ EventFits

-----------------------------------------------------------------------------
(* Each step keeps the invariant.                                          *)

LEMMA InitEstablishes == Init => IInv
<1> SUFFICES ASSUME Init PROVE IInv
  OBVIOUS
<1>1. TypeOK
  <2>1. \A c \in Callers : pc[c] \in Inside <=> locked = c
    BY AuthServiceAssumption DEF Init, Inside
  <2>2. lossy \in BOOLEAN
    BY DEF Init
  <2>3. QED
    BY <2>1, <2>2, AuthServiceAssumption DEF Init, TypeOK, Tokens, Places
<1>2. IssuedOnly /\ Agreement /\ EventFits
  BY AuthServiceAssumption DEF Init, IssuedOnly, Agreement, Agree, EventFits
<1>3. Freshness /\ \A c \in Callers : CallFits(c)
  BY DEF Init, Freshness, CallFits, Storing
<1>4. QED
  BY <1>1, <1>2, <1>3 DEF IInv

LEMMA NoneIsNotSpent ==
  ASSUME IInv
  PROVE  None \notin spent
<1>1. spent \subseteq 1..issued /\ issued \in Nat /\ None \notin Nat
  BY AuthServiceAssumption DEF IInv, TypeOK, IssuedOnly
<1>2. \A t \in 1..issued : t \in Nat
  BY <1>1
<1>3. QED
  BY <1>1, <1>2

(* What the server does for a login or a refresh it accepts: the new token *)
(* is nobody's yet, and a refresh spends the session's.                    *)
LEMMA Issuing ==
  ASSUME IInv, NEW c \in Callers, pc[c] = "asking", Issue(c)
  PROVE  /\ issued' = issued + 1 /\ issued' \in Tokens
         /\ info' \in [Tokens -> Infos \cup {None}]
         /\ info'[issued'] \in Infos
         /\ \A t \in 1..issued : info'[t] = info[t]
         /\ call[c] = "state" => info'[issued'].user = info[session].user
         /\ spent \subseteq spent' /\ spent' \subseteq 1..issued
         /\ issued' \notin spent' /\ issued' # None
<1>1. /\ issued \in Nat /\ issued \in 0..MaxTokens /\ MaxTokens \in Nat
      /\ info \in [Tokens -> Infos \cup {None}]
      /\ spent \subseteq 1..issued /\ None \notin Nat
  BY AuthServiceAssumption DEF IInv, TypeOK, IssuedOnly
<1>2. issued' = issued + 1 /\ issued' \in Tokens
  BY <1>1 DEF Issue, Tokens
<1>3. PICK new \in Infos : /\ info' = [info EXCEPT ![issued'] = new]
                           /\ call[c] = "state" => new.user = info[token[c]].user
  BY DEF Issue
<1>4. /\ info' \in [Tokens -> Infos \cup {None}]
      /\ info'[issued'] = new
      /\ \A t \in 1..issued : info'[t] = info[t]
  BY <1>1, <1>2, <1>3 DEF Tokens
<1>5. /\ call[c] \in {"login", "state"}
      /\ call[c] = "state" => token[c] = session /\ session \in 1..issued
  BY DEF IInv, CallFits, IssuedOnly
<1>6. spent \subseteq spent' /\ spent' \subseteq 1..issued
  BY <1>1, <1>5 DEF Issue
<1>7. issued' \notin spent' /\ issued' # None
  BY <1>1, <1>2, <1>6
<1>8. QED
  BY <1>2, <1>3, <1>4, <1>5, <1>6, <1>7

(* A call begins, and takes the lock unless a look at the session is enough. *)
LEMMA BeginKeeps ==
  ASSUME IInv, NEW c \in Callers, NEW what \in Calls, Begin(c, what)
  PROVE  IInv'
<1> USE AuthServiceAssumption DEF Begin, Goto, sessionVars, serverVars,
     clockVars, boundVars
<1>1. TypeOK'
  BY DEF IInv, TypeOK, IssuedOnly, CallFits, Tokens, Places, Inside
<1>2. IssuedOnly'
  BY DEF IInv, TypeOK, IssuedOnly
<1>3. ASSUME NEW d \in Callers PROVE CallFits(d)'
  BY DEF IInv, TypeOK, IssuedOnly, CallFits, Inside, Storing, Calls
<1>4. Agreement'
  BY DEF IInv, TypeOK, CallFits, Agreement, Agree, Inside
<1>5. Freshness'
  BY DEF IInv, TypeOK, IssuedOnly, CallFits, Freshness, Inside, Storing
<1>6. EventFits'
  BY DEF IInv, TypeOK, IssuedOnly, CallFits, EventFits, Inside, Storing
<1>7. QED
  BY <1>1, <1>2, <1>3, <1>4, <1>5, <1>6 DEF IInv

(* A call that needs no lock answers.                                      *)
LEMMA ReportKeeps ==
  ASSUME IInv, NEW c \in Callers, Report(c)
  PROVE  IInv'
<1> USE AuthServiceAssumption DEF Report, End, Goto, sessionVars, serverVars,
     clockVars, boundVars
<1>1. TypeOK'
  BY DEF IInv, TypeOK, IssuedOnly, CallFits, Tokens, Places, Inside
<1>2. IssuedOnly'
  BY DEF IInv, TypeOK, IssuedOnly
<1>3. ASSUME NEW d \in Callers PROVE CallFits(d)'
  BY DEF IInv, TypeOK, IssuedOnly, CallFits, Inside, Storing, Calls
<1>4. Agreement'
  BY DEF IInv, TypeOK, CallFits, Agreement, Agree, Inside
<1>5. Freshness'
  BY DEF IInv, TypeOK, IssuedOnly, CallFits, Freshness, Inside, Storing
<1>6. EventFits'
  BY DEF IInv, TypeOK, IssuedOnly, CallFits, EventFits, Inside, Storing
<1>7. QED
  BY <1>1, <1>2, <1>3, <1>4, <1>5, <1>6 DEF IInv

(* The lock is taken.                                                      *)
LEMMA LockKeeps ==
  ASSUME IInv, NEW c \in Callers, Lock(c)
  PROVE  IInv'
<1> USE AuthServiceAssumption DEF Lock, Goto, FirstPlace, sessionVars,
     serverVars, clockVars, boundVars
<1>1. TypeOK'
  <2>1. \A d \in Callers : pc'[d] \in Inside <=> locked' = d
    BY DEF IInv, TypeOK, CallFits, Calls, Inside
  <2>2. lossy' \in BOOLEAN
    BY DEF IInv, TypeOK
  <2>3. pc' \in [Callers -> Places]
    BY DEF IInv, TypeOK, CallFits, Calls, Places, Inside
  <2>4. QED
    BY <2>1, <2>2, <2>3 DEF IInv, TypeOK, IssuedOnly, Tokens
<1>2. IssuedOnly'
  BY DEF IInv, TypeOK, IssuedOnly
<1>3. ASSUME NEW d \in Callers PROVE CallFits(d)'
  BY DEF IInv, TypeOK, IssuedOnly, CallFits, Inside, Storing, Calls
<1>4. Agreement'
  BY DEF IInv, TypeOK, CallFits, Agreement, Agree, Inside
<1>5. Freshness'
  BY DEF IInv, TypeOK, IssuedOnly, CallFits, Freshness, Inside, Storing
<1>6. EventFits'
  BY DEF IInv, TypeOK, IssuedOnly, CallFits, EventFits, Inside, Storing
<1>7. QED
  BY <1>1, <1>2, <1>3, <1>4, <1>5, <1>6 DEF IInv

(* The second look at the session, under the lock.                         *)
LEMMA CheckKeeps ==
  ASSUME IInv, NEW c \in Callers, Check(c)
  PROVE  IInv'
<1> USE AuthServiceAssumption DEF Check, IsExpired, End, Continue, Goto,
     sessionVars, serverVars, clockVars, boundVars
<1>1. TypeOK'
  BY SMTT(30) DEF IInv, TypeOK, IssuedOnly, CallFits, Tokens, Places, Inside
<1>2. IssuedOnly'
  BY DEF IInv, TypeOK, IssuedOnly
<1>3. ASSUME NEW d \in Callers PROVE CallFits(d)'
  BY DEF IInv, TypeOK, IssuedOnly, CallFits, Inside, Storing, Calls
<1>4. Agreement'
  BY DEF IInv, TypeOK, CallFits, Agreement, Agree, Inside
<1>5. Freshness'
  BY DEF IInv, TypeOK, IssuedOnly, CallFits, Freshness, Inside, Storing
<1>6. EventFits'
  BY DEF IInv, TypeOK, IssuedOnly, CallFits, EventFits, Inside, Storing
<1>7. QED
  BY <1>1, <1>2, <1>3, <1>4, <1>5, <1>6 DEF IInv

(* The server answers a login or a refresh.                                *)
LEMMA ServerAcceptsKeeps ==
  ASSUME IInv, NEW c \in Callers, ServerAccepts(c)
  PROVE  IInv'
<1> USE AuthServiceAssumption DEF sessionVars, clockVars, boundVars
<1>1. /\ pc[c] = "asking" /\ locked = c
      /\ call[c] \in {"login", "state"}
      /\ call[c] = "state" => session # None /\ token[c] = session
      /\ \A d \in Callers : d # c => pc[d] \notin Inside
  BY DEF ServerAccepts, IInv, TypeOK, CallFits, Inside
<1>2. /\ issued' = issued + 1 /\ issued' \in Tokens
      /\ info' \in [Tokens -> Infos \cup {None}]
      /\ info'[issued'] \in Infos
      /\ \A t \in 1..issued : info'[t] = info[t]
      /\ call[c] = "state" => info'[issued'].user = info[session].user
      /\ spent \subseteq spent' /\ spent' \subseteq 1..issued
      /\ issued' \notin spent' /\ issued' # None
  BY <1>1, Issuing DEF ServerAccepts
<1>3. /\ token' = [token EXCEPT ![c] = issued'] /\ pc' = [pc EXCEPT ![c] = "saving"]
      /\ UNCHANGED <<session, stored, entry, locked, call, event, expired, revoked,
                     failures, restarts, lossy>>
  BY DEF ServerAccepts, Continue, Goto
<1>4. issued \in 0..MaxTokens /\ issued' \in 0..MaxTokens /\ MaxTokens \in Nat
  BY <1>2 DEF IInv, TypeOK, Tokens
<1>5. TypeOK'
  <2>1. \A d \in Callers : pc'[d] \in Inside <=> locked' = d
    BY <1>1, <1>3 DEF IInv, TypeOK, Inside
  <2>2. spent' \subseteq Tokens
    BY <1>2, <1>4 DEF Tokens
  <2>3. pc' \in [Callers -> Places] /\ token' \in [Callers -> Tokens \cup {None}]
    BY <1>2, <1>3 DEF IInv, TypeOK, Places, Inside
  <2>4. QED
    BY <1>2, <1>3, <1>4, <2>1, <2>2, <2>3 DEF IInv, TypeOK
<1>6. IssuedOnly'
  <2>1. 1..issued' = 1..issued \cup {issued'}
    BY <1>2, <1>4
  <2>2. QED
    BY <1>2, <1>3, <2>1 DEF IInv, IssuedOnly
<1>7. ASSUME NEW d \in Callers PROVE CallFits(d)'
  <2>1. CASE d = c
    <3>1. pc'[d] = "saving" /\ token'[d] = issued' /\ call'[d] = call[c]
      BY <1>3, <2>1 DEF IInv, TypeOK
    <3>2. session # None => session' \in 1..issued /\ info'[session'] = info[session]
      BY <1>2, <1>3 DEF IInv, IssuedOnly
    <3>3. call[c] = "state" =>
            session' # None /\ info'[token'[d]].user = info'[session'].user
      BY <1>1, <1>2, <1>3, <3>1, <3>2
    <3>4. token'[d] # stored'
      BY <1>2, <1>3, <1>4, <3>1 DEF IInv, IssuedOnly
    <3>5. QED
      BY <1>1, <1>2, <3>1, <3>3, <3>4 DEF CallFits, Storing
  <2>2. CASE d # c
    BY <1>1, <1>3, <2>2 DEF IInv, TypeOK, CallFits, Inside, Storing, Calls
  <2>3. QED
    BY <2>1, <2>2
<1>8. Agreement'
  BY <1>1, <1>3 DEF IInv, TypeOK, Agreement, Agree, Inside
<1>9. Freshness'
  <2>1. ASSUME ~lossy', stored' \in spent'
        PROVE  entry' /\ pc'[c] = "saving" /\ call'[c] = "state"
    <3>1. \A d \in Callers : pc[d] # "saving"
      BY <1>1 DEF Inside
    <3>2. stored \notin spent
      BY <1>3, <2>1, <3>1 DEF IInv, Freshness
    <3>3. call[c] = "state" /\ stored = session
      BY <1>1, <1>3, <2>1, <3>2 DEF ServerAccepts, Issue
    <3>4. QED
      BY <1>1, <1>3, <3>3 DEF IInv, TypeOK, Agreement
  <2>2. ASSUME ~lossy', session' \in spent'
        PROVE  pc'[c] = "saving" /\ call'[c] = "state"
    <3>1. \A d \in Callers : pc[d] \notin Storing
      BY <1>1 DEF Inside, Storing
    <3>2. session \notin spent
      BY <1>3, <2>2, <3>1 DEF IInv, Freshness
    <3>3. call[c] = "state"
      BY <1>1, <1>3, <2>2, <3>2 DEF ServerAccepts, Issue
    <3>4. pc'[c] = "saving" /\ call'[c] = call[c]
      BY <1>3 DEF IInv, TypeOK
    <3>5. QED
      BY <3>3, <3>4
  <2>3. QED
    BY <2>1, <2>2 DEF Freshness, Storing
<1>10. EventFits'
  BY <1>1, <1>2, <1>3 DEF IInv, TypeOK, IssuedOnly, EventFits, Inside
<1>11. QED
  BY <1>5, <1>6, <1>7, <1>8, <1>9, <1>10 DEF IInv

(* Its answer is lost.                                                     *)
LEMMA AnswerIsLostKeeps ==
  ASSUME IInv, NEW c \in Callers, AnswerIsLost(c)
  PROVE  IInv'
<1> USE AuthServiceAssumption DEF sessionVars, clockVars
<1>1. /\ pc[c] = "asking" /\ locked = c
      /\ call[c] \in {"login", "state"}
      /\ \A d \in Callers : d # c => pc[d] \notin Inside
  BY DEF AnswerIsLost, IInv, TypeOK, CallFits, Inside
<1>2. /\ issued' = issued + 1 /\ issued' \in Tokens
      /\ info' \in [Tokens -> Infos \cup {None}]
      /\ info'[issued'] \in Infos
      /\ \A t \in 1..issued : info'[t] = info[t]
      /\ spent \subseteq spent' /\ spent' \subseteq 1..issued
  BY <1>1, Issuing DEF AnswerIsLost
<1>3. /\ token' = [token EXCEPT ![c] = None] /\ pc' = [pc EXCEPT ![c] = "idle"]
      /\ call' = [call EXCEPT ![c] = None] /\ locked' = None
      /\ failures' = failures + 1 /\ failures < MaxFailures
      /\ UNCHANGED <<session, stored, entry, event, expired, revoked, restarts>>
  BY <1>1 DEF AnswerIsLost, Fail, End, Goto
<1>4. lossy' \in BOOLEAN /\ (~lossy' => ~lossy /\ call[c] # "state")
  BY DEF AnswerIsLost, IInv, TypeOK
<1>5. issued \in 0..MaxTokens /\ issued' \in 0..MaxTokens /\ MaxTokens \in Nat
  BY <1>2 DEF IInv, TypeOK, Tokens
<1>6. TypeOK'
  <2>1. \A d \in Callers : pc'[d] \in Inside <=> locked' = d
    BY <1>1, <1>3 DEF IInv, TypeOK, Inside
  <2>2. spent' \subseteq Tokens
    BY <1>2, <1>5 DEF Tokens
  <2>3. /\ pc' \in [Callers -> Places] /\ token' \in [Callers -> Tokens \cup {None}]
        /\ call' \in [Callers -> Calls \cup {None}]
        /\ failures' \in 0..MaxFailures
    BY <1>3 DEF IInv, TypeOK, Places, Inside
  <2>4. QED
    BY <1>2, <1>3, <1>4, <1>5, <2>1, <2>2, <2>3 DEF IInv, TypeOK
<1>7. IssuedOnly'
  <2>1. 1..issued' = 1..issued \cup {issued'}
    BY <1>2, <1>5
  <2>2. QED
    BY <1>2, <1>3, <2>1 DEF IInv, IssuedOnly
<1>8. ASSUME NEW d \in Callers PROVE CallFits(d)'
  BY <1>1, <1>3 DEF IInv, TypeOK, CallFits, Inside, Storing, Calls
<1>9. Agreement'
  BY <1>1, <1>3 DEF IInv, TypeOK, Agreement, Agree, Inside
<1>10. Freshness'
  BY <1>1, <1>3, <1>4
     DEF IInv, TypeOK, Freshness, Inside, Storing, Issue, AnswerIsLost
<1>11. EventFits'
  BY <1>1, <1>2, <1>3 DEF IInv, TypeOK, IssuedOnly, EventFits, Inside
<1>12. QED
  BY <1>6, <1>7, <1>8, <1>9, <1>10, <1>11 DEF IInv

(* It was never asked.                                                     *)
LEMMA ServerUnreachableKeeps ==
  ASSUME IInv, NEW c \in Callers, ServerUnreachable(c)
  PROVE  IInv'
<1> USE AuthServiceAssumption DEF ServerUnreachable, End, Goto, sessionVars,
     serverVars, clockVars, boundVars
<1>1. TypeOK'
  BY DEF IInv, TypeOK, IssuedOnly, CallFits, Tokens, Places, Inside
<1>2. IssuedOnly'
  BY DEF IInv, TypeOK, IssuedOnly
<1>3. ASSUME NEW d \in Callers PROVE CallFits(d)'
  BY DEF IInv, TypeOK, IssuedOnly, CallFits, Inside, Storing, Calls
<1>4. Agreement'
  BY DEF IInv, TypeOK, CallFits, Agreement, Agree, Inside
<1>5. Freshness'
  BY DEF IInv, TypeOK, IssuedOnly, CallFits, Freshness, Inside, Storing
<1>6. EventFits'
  BY DEF IInv, TypeOK, IssuedOnly, CallFits, EventFits, Inside, Storing
<1>7. QED
  BY <1>1, <1>2, <1>3, <1>4, <1>5, <1>6 DEF IInv

(* It refuses.                                                             *)
LEMMA ServerRejectsKeeps ==
  ASSUME IInv, NEW c \in Callers, ServerRejects(c)
  PROVE  IInv'
<1> USE AuthServiceAssumption DEF ServerRejects, End, Continue, Goto,
     sessionVars, serverVars, clockVars, boundVars
<1>1. TypeOK'
  BY SMTT(30) DEF IInv, TypeOK, IssuedOnly, CallFits, Tokens, Places, Inside
<1>2. IssuedOnly'
  BY DEF IInv, TypeOK, IssuedOnly
<1>3. ASSUME NEW d \in Callers PROVE CallFits(d)'
  BY DEF IInv, TypeOK, IssuedOnly, CallFits, Inside, Storing, Calls
<1>4. Agreement'
  BY DEF IInv, TypeOK, CallFits, Agreement, Agree, Inside
<1>5. Freshness'
  BY DEF IInv, TypeOK, IssuedOnly, CallFits, Freshness, Inside, Storing
<1>6. EventFits'
  BY DEF IInv, TypeOK, IssuedOnly, CallFits, EventFits, Inside, Storing
<1>7. QED
  BY <1>1, <1>2, <1>3, <1>4, <1>5, <1>6 DEF IInv

(* The first write of a new token.                                         *)
LEMMA SaveKeeps ==
  ASSUME IInv, NEW c \in Callers, Save(c)
  PROVE  IInv'
<1> USE AuthServiceAssumption DEF Save, Fail, End, Continue, Goto, sessionVars,
     serverVars, clockVars, boundVars
<1>1. TypeOK'
  <2>1. \A d \in Callers : pc'[d] \in Inside <=> locked' = d
    BY DEF IInv, TypeOK, CallFits, Calls, Inside
  <2>2. lossy' \in BOOLEAN
    BY DEF IInv, TypeOK
  <2>3. pc' \in [Callers -> Places]
    BY DEF IInv, TypeOK, CallFits, Calls, Places, Inside
  <2>4. QED
    BY <2>1, <2>2, <2>3, SMTT(30) DEF IInv, TypeOK, IssuedOnly, Tokens
<1>2. IssuedOnly'
  BY DEF IInv, TypeOK, IssuedOnly
<1>3. ASSUME NEW d \in Callers PROVE CallFits(d)'
  BY DEF IInv, TypeOK, IssuedOnly, CallFits, Inside, Storing, Calls
<1>4. Agreement'
  BY DEF IInv, TypeOK, CallFits, Agreement, Agree, Inside
<1>5. Freshness'
  BY ZenonT(30) DEF IInv, TypeOK, IssuedOnly, CallFits, Freshness, Inside, Storing
<1>6. EventFits'
  BY DEF IInv, TypeOK, IssuedOnly, CallFits, EventFits, Inside, Storing
<1>7. QED
  BY <1>1, <1>2, <1>3, <1>4, <1>5, <1>6 DEF IInv

(* The second.                                                             *)
LEMMA SetSessionKeeps ==
  ASSUME IInv, NEW c \in Callers, SetSession(c)
  PROVE  IInv'
<1> USE AuthServiceAssumption DEF SetSession, End, Continue, Goto, sessionVars,
     serverVars, clockVars, boundVars
<1>1. TypeOK'
  BY SMTT(30) DEF IInv, TypeOK, IssuedOnly, CallFits, Tokens, Places, Inside
<1>2. IssuedOnly'
  BY DEF IInv, TypeOK, IssuedOnly
<1>3. ASSUME NEW d \in Callers PROVE CallFits(d)'
  BY DEF IInv, TypeOK, IssuedOnly, CallFits, Inside, Storing, Calls
<1>4. Agreement'
  <2>1. /\ session' = token[c] /\ stored' = stored /\ entry' = entry
        /\ entry => stored = token[c]
        /\ ~entry => token[c] # stored
    BY DEF IInv, CallFits, Storing
  <2>2. QED
    BY <2>1 DEF Agreement, Agree
<1>5. Freshness'
  BY DEF IInv, TypeOK, IssuedOnly, CallFits, Freshness, Inside, Storing
<1>6. EventFits'
  BY DEF IInv, TypeOK, IssuedOnly, CallFits, EventFits, Inside, Storing
<1>7. QED
  BY <1>1, <1>2, <1>3, <1>4, <1>5, <1>6 DEF IInv

(* The first write of the end of a session.                                *)
LEMMA ClearKeeps ==
  ASSUME IInv, NEW c \in Callers, Clear(c)
  PROVE  IInv'
<1> USE AuthServiceAssumption DEF Clear, Fail, End, Continue, Goto,
     sessionVars, serverVars, clockVars, boundVars
<1>1. TypeOK'
  <2>1. \A d \in Callers : pc'[d] \in Inside <=> locked' = d
    BY DEF IInv, TypeOK, CallFits, Calls, Inside
  <2>2. lossy' \in BOOLEAN
    BY DEF IInv, TypeOK
  <2>3. pc' \in [Callers -> Places]
    BY DEF IInv, TypeOK, CallFits, Calls, Places, Inside
  <2>4. QED
    BY <2>1, <2>2, <2>3, SMTT(30) DEF IInv, TypeOK, IssuedOnly, Tokens
<1>2. IssuedOnly'
  BY DEF IInv, TypeOK, IssuedOnly
<1>3. ASSUME NEW d \in Callers PROVE CallFits(d)'
  BY DEF IInv, TypeOK, IssuedOnly, CallFits, Inside, Storing, Calls
<1>4. Agreement'
  BY DEF IInv, TypeOK, CallFits, Agreement, Agree, Inside
<1>5. Freshness'
  <2>1. /\ pc[c] = "clearing" /\ \A d \in Callers : pc[d] \notin Storing
        /\ session' = session /\ lossy' = lossy /\ spent' = spent
        /\ stored' \in {stored, None}
    BY DEF IInv, TypeOK, Inside, Storing
  <2>2. None \notin spent
    BY NoneIsNotSpent
  <2>3. QED
    BY <2>1, <2>2 DEF IInv, Freshness, Storing
<1>6. EventFits'
  BY DEF IInv, TypeOK, IssuedOnly, CallFits, EventFits, Inside, Storing
<1>7. QED
  BY <1>1, <1>2, <1>3, <1>4, <1>5, <1>6 DEF IInv

(* The second.                                                             *)
LEMMA TakeKeeps ==
  ASSUME IInv, NEW c \in Callers, Take(c)
  PROVE  IInv'
<1> USE AuthServiceAssumption DEF Take, Publishes, End, Continue, Goto,
     sessionVars, serverVars, clockVars, boundVars
<1>1. TypeOK'
  BY SMTT(30) DEF IInv, TypeOK, IssuedOnly, CallFits, Tokens, Places, Inside
<1>2. IssuedOnly'
  BY DEF IInv, TypeOK, IssuedOnly
<1>3. ASSUME NEW d \in Callers PROVE CallFits(d)'
  BY DEF IInv, TypeOK, IssuedOnly, CallFits, Inside, Storing, Calls
<1>4. Agreement'
  BY DEF IInv, TypeOK, CallFits, Agreement, Agree, Inside
<1>5. Freshness'
  <2>1. /\ pc[c] = "taking" /\ session' = None /\ stored' = stored
        /\ spent' = spent /\ lossy' = lossy
    OBVIOUS
  <2>2. \A d \in Callers : pc[d] # "saving"
    BY <2>1 DEF IInv, TypeOK, Inside
  <2>3. QED
    BY <2>1, <2>2, NoneIsNotSpent DEF IInv, Freshness
<1>6. EventFits'
  BY DEF IInv, TypeOK, IssuedOnly, CallFits, EventFits, Inside, Storing
<1>7. QED
  BY <1>1, <1>2, <1>3, <1>4, <1>5, <1>6 DEF IInv

(* A login or a logout is announced.                                       *)
LEMMA PublishKeeps ==
  ASSUME IInv, NEW c \in Callers, Publish(c)
  PROVE  IInv'
<1> USE AuthServiceAssumption DEF Publish, End, Goto, Infos, Events,
     sessionVars, serverVars, clockVars, boundVars
<1>1. TypeOK'
  BY DEF IInv, TypeOK, IssuedOnly, CallFits, Tokens, Places, Inside
<1>2. IssuedOnly'
  BY DEF IInv, TypeOK, IssuedOnly
<1>3. ASSUME NEW d \in Callers PROVE CallFits(d)'
  BY DEF IInv, TypeOK, IssuedOnly, CallFits, Inside, Storing, Calls
<1>4. Agreement'
  BY DEF IInv, TypeOK, CallFits, Agreement, Agree, Inside
<1>5. Freshness'
  BY DEF IInv, TypeOK, IssuedOnly, CallFits, Freshness, Inside, Storing
<1>6. EventFits'
  BY DEF IInv, TypeOK, IssuedOnly, CallFits, EventFits, Inside, Storing
<1>7. QED
  BY <1>1, <1>2, <1>3, <1>4, <1>5, <1>6 DEF IInv

(* Time passes, at the server as well; the process ends and starts again.  *)
LEMMA WorldKeeps ==
  ASSUME IInv, NEW t \in Tokens, Expire(t) \/ Revoke(t)
  PROVE  IInv'
<1> USE DEF Expire, Revoke, sessionVars, serverVars, clockVars, boundVars
<1>1. TypeOK'
  BY DEF IInv, TypeOK
<1>2. IssuedOnly' /\ Agreement' /\ Freshness' /\ EventFits'
  <2>1. IssuedOnly' /\ EventFits'
    BY DEF IInv, IssuedOnly, EventFits
  <2>2. Agreement'
    BY DEF IInv, Agreement, Agree
  <2>3. Freshness'
    BY DEF IInv, Freshness
  <2>4. QED
    BY <2>1, <2>2, <2>3
<1>3. \A c \in Callers : CallFits(c)'
  BY DEF IInv, CallFits
<1>4. QED
  BY <1>1, <1>2, <1>3 DEF IInv

LEMMA RestartKeeps ==
  ASSUME IInv, Restart
  PROVE  IInv'
<1> USE AuthServiceAssumption DEF Restart, Load, serverVars, clockVars
<1>1. TypeOK'
  BY DEF IInv, TypeOK, Places, Inside
<1>2. IssuedOnly' /\ EventFits'
  BY DEF IInv, IssuedOnly, EventFits
<1>3. Agreement'
  BY DEF IInv, TypeOK, Agreement, Agree
<1>4. Freshness'
  <2>1. ~lossy' => ~lossy /\ stored \notin spent
    BY DEF IInv, Freshness
  <2>2. /\ None \notin spent /\ spent' = spent
        /\ stored' \in {stored, None} /\ session' \in {stored, None}
    BY NoneIsNotSpent
  <2>3. QED
    BY <2>1, <2>2 DEF Freshness
<1>5. \A c \in Callers : CallFits(c)'
  BY DEF CallFits, Storing
<1>6. QED
  BY <1>1, <1>2, <1>3, <1>4, <1>5 DEF IInv

LEMMA NextKeeps == IInv /\ [Next]_vars => IInv'
<1> SUFFICES ASSUME IInv, [Next]_vars PROVE IInv'
  OBVIOUS
<1>1. ASSUME NEW c \in Callers, CallStep(c) PROVE IInv'
  BY <1>1, BeginKeeps, ReportKeeps, LockKeeps, CheckKeeps, ServerAcceptsKeeps,
     AnswerIsLostKeeps, ServerUnreachableKeeps, ServerRejectsKeeps, SaveKeeps,
     SetSessionKeeps, ClearKeeps, TakeKeeps, PublishKeeps DEF CallStep
<1>2. CASE UNCHANGED vars
  <2>1. TypeOK' /\ IssuedOnly' /\ Agreement' /\ Freshness' /\ EventFits'
    BY <1>2 DEF vars, sessionVars, serverVars, clockVars, boundVars, IInv,
       TypeOK, IssuedOnly, Agreement, Agree, Freshness, EventFits
  <2>2. \A c \in Callers : CallFits(c)'
    BY <1>2 DEF vars, sessionVars, serverVars, IInv, CallFits
  <2>3. QED
    BY <2>1, <2>2 DEF IInv
<1>3. QED
  BY <1>1, <1>2, WorldKeeps, RestartKeeps DEF Next

LEMMA InvariantHolds == Spec => []IInv
BY InitEstablishes, NextKeeps, PTL DEF Spec

-----------------------------------------------------------------------------
(* Every variable keeps its type, and the lock excludes: at most one call  *)
(* is between its first and its last change of the session.                *)
THEOREM AuthTypeCorrect == Spec => []TypeOK
<1>1. IInv => TypeOK
  BY DEF IInv
<1>2. QED
  BY <1>1, InvariantHolds, PTL

(* In a process with the credential store the session in memory is the     *)
(* stored one between calls, whichever write failed and whenever the       *)
(* process before it ended; only a start that could not use what is stored *)
(* leaves a token in the store of somebody who is signed out.              *)
THEOREM MemoryFollowsStore == Spec => []MemoryAgreesWithStore
<1>1. IInv => MemoryAgreesWithStore
  BY AuthServiceAssumption
     DEF IInv, TypeOK, Agreement, Agree, MemoryAgreesWithStore, Inside
<1>2. QED
  BY <1>1, InvariantHolds, PTL

(* A refresh token is sent once, however many callers find the session     *)
(* expired together, unless an answer was lost.                            *)
THEOREM RefreshTokensAreSpentOnce == Spec => []RenewalsAreFresh
<1>1. IInv => RenewalsAreFresh
  BY AuthServiceAssumption
     DEF IInv, TypeOK, CallFits, Freshness, Storing, RenewalsAreFresh, Inside
<1>2. QED
  BY <1>1, InvariantHolds, PTL

(* Whoever follows the events knows who is signed in.                      *)
THEOREM EventsFollowTheSession == Spec => []EventsTellTheSession
<1>1. IInv => EventsTellTheSession
  BY AuthServiceAssumption
     DEF IInv, TypeOK, EventFits, EventsTellTheSession, Inside
<1>2. QED
  BY <1>1, InvariantHolds, PTL

-----------------------------------------------------------------------------
(* Only these steps put a token into the store or into memory.             *)
LEMMA WritersOfTheSession ==
  ASSUME Next, <<session', stored'>> # <<session, stored>>
  PROVE  \/ \E c \in Callers : Save(c) \/ SetSession(c)
         \/ Restart
         \/ stored' \in {stored, None} /\ session' \in {session, None}
<1>1. ASSUME NEW c \in Callers, CallStep(c), ~Save(c), ~SetSession(c)
      PROVE  stored' \in {stored, None} /\ session' \in {session, None}
  <2>1. CASE Clear(c) \/ Take(c)
    BY <2>1 DEF Clear, Take
  <2>2. CASE ~Clear(c) /\ ~Take(c)
    BY <1>1, <2>2 DEF CallStep, Begin, Report, Lock, Check, ServerAccepts,
       AnswerIsLost, ServerUnreachable, ServerRejects, Publish, sessionVars
  <2>3. QED
    BY <2>1, <2>2
<1>2. ASSUME NEW t \in Tokens
      PROVE  ~Expire(t) /\ ~Revoke(t)
  BY DEF Expire, Revoke, sessionVars
<1>3. QED
  BY <1>1, <1>2 DEF Next

(* Nobody is signed in, in memory or for the next start, but by a login: a *)
(* renewal that races a logout or another login brings nobody back.        *)
THEOREM SessionsOnlyBeginWithLogin == Spec => SessionsBeginWithLogin
<1> DEFINE Begun ==
      LET login == \E c \in Callers : call[c] = "login" /\ pc[c] # pc'[c]
      IN  /\ stored' # stored /\ stored' # None
               => login \/ SameUser(stored', stored)
          /\ session' # session /\ session' # None
               => login \/ SameUser(session', session) \/ restarts' # restarts
<1>1. ASSUME IInv, NEW c \in Callers, Save(c)
      PROVE  Begun
  <2>1. /\ session' = session /\ info' = info
        /\ stored' # stored => entry /\ stored' = token[c] /\ pc'[c] = "setting"
    BY <1>1 DEF Save, Continue, Goto, serverVars, IInv, TypeOK
  <2>2. call[c] = "state" => session # None /\ (entry => session = stored)
                             /\ info[token[c]].user = info[session].user
    <3>1. entry => Agree
      BY <1>1, AuthServiceAssumption DEF Save, IInv, TypeOK, Agreement, Inside
    <3>2. QED
      BY <1>1, <3>1 DEF Save, IInv, CallFits, Storing, Agree
  <2>3. call[c] \in {"login", "state"} /\ pc[c] = "saving"
    BY <1>1 DEF Save, IInv, CallFits, Storing
  <2>4. QED
    BY <2>1, <2>2, <2>3 DEF SameUser
<1>2. ASSUME IInv, NEW c \in Callers, SetSession(c)
      PROVE  Begun
  <2>1. /\ stored' = stored /\ info' = info /\ session' = token[c]
        /\ pc[c] = "setting" /\ pc'[c] # "setting"
    BY <1>2 DEF SetSession, Continue, End, Goto, serverVars, IInv, TypeOK
  <2>2. /\ call[c] \in {"login", "state"}
        /\ call[c] = "state" => session # None
                                /\ info[token[c]].user = info[session].user
    BY <1>2, <2>1 DEF IInv, CallFits, Storing
  <2>3. QED
    BY <2>1, <2>2 DEF SameUser
<1>3. ASSUME IInv, Restart
      PROVE  Begun
  <2>1. stored' \in {stored, None} /\ restarts' # restarts
    BY <1>3 DEF Restart, Load, IInv, TypeOK
  <2>2. QED
    BY <2>1
<1>4. IInv /\ [Next]_vars => [Begun]_vars
  <2> SUFFICES ASSUME IInv, Next PROVE Begun
    OBVIOUS
  <2>1. CASE <<session', stored'>> # <<session, stored>>
    BY <1>1, <1>2, <1>3, <2>1, WritersOfTheSession
  <2>2. CASE <<session', stored'>> = <<session, stored>>
    BY <2>2
  <2>3. QED
    BY <2>1, <2>2
<1>5. SessionsBeginWithLogin <=> [][Begun]_vars
  BY DEF SessionsBeginWithLogin
<1>6. QED
  BY <1>4, <1>5, InvariantHolds, PTL DEF Spec
=============================================================================
