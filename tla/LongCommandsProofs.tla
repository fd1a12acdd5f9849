------------------------- MODULE LongCommandsProofs -------------------------
(***************************************************************************)
(* Proofs about EventBus, UpdateService, ImageService and FileIndex, for   *)
(* any number of publishers, subscribers, callers and batches, any ring    *)
(* size, downloads of any length, batches of any length and any tree.      *)
(* Counts and sums over sequences, and the depth of a directory, are       *)
(* recursive functions: what they compute is proved by induction on the    *)
(* naturals, which is the well-foundedness of their order.                 *)
(***************************************************************************)
EXTENDS LongCommands, TLAPS, SequenceTheorems, FiniteSetTheorems,
        WellFoundedInduction

-----------------------------------------------------------------------------
(* Induction and sums.                                                     *)

(* Induction on the naturals, from the well-foundedness of their order.    *)
LEMMA InductionOnNaturals ==
  ASSUME NEW S, 0 \in S, \A n \in Nat : n \in S => n + 1 \in S
  PROVE  Nat \subseteq S
<1> DEFINE R == OpToRel(<, Nat)
           T == Nat \ S
<1>1. SUFFICES ASSUME T # {} PROVE FALSE
  OBVIOUS
<1>2. PICK least \in T : \A n \in T : ~(<<n, least>> \in R)
  <2>1. IsWellFoundedOn(R, Nat)
    BY NatLessThanWellFounded
  <2> HIDE DEF R
  <2>2. QED BY <1>1, <2>1, WFMin
<1>3. least # 0 /\ least \in Nat
  OBVIOUS
<1>4. \A n \in T : ~(n < least)
  BY <1>2, <1>3 DEF OpToRel
<1>5. least - 1 \in Nat /\ least - 1 < least
  BY <1>3
<1>6. QED BY <1>3, <1>4, <1>5

(* f gives the sums of the first numbers of w, the way a recursive         *)
(* definition adds them up.                                                *)
Sums(w, f, m) == f = [n \in 0..m |-> IF n = 0 THEN 0 ELSE f[n - 1] + w[n]]

Continues(w, v, m) == \A i \in 1..m : w[i] = v[i]

LEMMA SumsExist == ASSUME NEW w PROVE \A m \in Nat : \E f : Sums(w, f, m)
<1> DEFINE S == {m \in Nat : \E f : Sums(w, f, m)}
<1>1. 0 \in S
  <2>1. Sums(w, [n \in 0..0 |-> 0], 0)
    BY DEF Sums
  <2>2. QED BY <2>1
<1>2. ASSUME NEW m \in Nat, m \in S PROVE m + 1 \in S
  <2>1. PICK f : Sums(w, f, m)
    BY <1>2
  <2> DEFINE g == [n \in 0..(m + 1) |->
                     IF n = m + 1 THEN f[m] + w[m + 1] ELSE f[n]]
  <2>2. ASSUME NEW n \in 0..(m + 1)
        PROVE  g[n] = IF n = 0 THEN 0 ELSE g[n - 1] + w[n]
    <3>1. CASE n = m + 1
      BY <3>1
    <3>2. CASE n # m + 1
      BY <2>1, <3>2 DEF Sums
    <3>3. QED BY <3>1, <3>2
  <2>3. g = [n \in 0..(m + 1) |-> g[n]]
    OBVIOUS
  <2>4. Sums(w, g, m + 1)
    BY <2>2, <2>3 DEF Sums
  <2>5. QED BY <2>4
<1>3. QED
  <2> HIDE DEF S
  <2>1. Nat \subseteq S
    BY <1>1, <1>2, InductionOnNaturals
  <2>2. QED BY <2>1 DEF S

(* The sums of a sequence are those of its continuation.                   *)
LEMMA SumsAgree ==
  ASSUME NEW v, NEW w, NEW m \in Nat, NEW k \in Nat, m <= k, Continues(w, v, m),
         NEW f, Sums(v, f, m), NEW g, Sums(w, g, k)
  PROVE  f[m] = g[m]
<1> DEFINE S == {n \in Nat : n <= m => f[n] = g[n]}
<1>1. 0 \in S
  BY DEF Sums
<1>2. ASSUME NEW n \in Nat, n \in S PROVE n + 1 \in S
  BY <1>2 DEF Sums, Continues
<1>3. Nat \subseteq S
  <2> HIDE DEF S
  <2>1. QED BY <1>1, <1>2, InductionOnNaturals
<1>4. QED BY <1>3

LEMMA SumsOfOneMore ==
  ASSUME NEW v, NEW w, NEW m \in Nat, Continues(w, v, m),
         NEW f, Sums(v, f, m), NEW g, Sums(w, g, m + 1)
  PROVE  g[m + 1] = f[m] + w[m + 1]
<1>1. m + 1 \in Nat /\ m <= m + 1
  OBVIOUS
<1>2. f[m] = g[m]
  BY <1>1, SumsAgree
<1>3. QED BY <1>2 DEF Sums

-----------------------------------------------------------------------------
(* EventBus: types and the order of what is seen.                          *)

(* The lock: whoever is inside publish holds it.                           *)
LockedWhileSending ==
  \A p \in Publishers : sending[p] # Nothing => publishLock = p

(* Numbers are sent in the order they were assigned, each of them once;    *)
(* what is assigned and not sent yet is newer than everything sent.        *)
SentInOrder ==
  /\ \A i, j \in DOMAIN sent : i < j => sent[i].sequence < sent[j].sequence
  /\ \A i \in DOMAIN sent : sent[i].sequence < nextSequence
  /\ Len(sent) < nextSequence
  /\ \A p \in Publishers : sending[p] \in Envelopes =>
       /\ sending[p].sequence < nextSequence
       /\ Len(sent) + 1 < nextSequence
       /\ \A i \in DOMAIN sent : sent[i].sequence < sending[p].sequence

CursorInLog == \A s \in Subscribers : cursor[s] <= Len(sent) + 1

(* Whatever a subscriber was given lies behind its cursor.                 *)
SeenIsBehindCursor ==
  \A s \in Subscribers : \A i \in DOMAIN seen[s] :
    IsEvent(seen[s][i])
      => \E k \in DOMAIN sent : k < cursor[s] /\ sent[k] = seen[s][i]

IInv ==
  /\ TypeOK
  /\ LockedWhileSending
  /\ SentInOrder
  /\ CursorInLog
  /\ SeenIsBehindCursor
  /\ SequencesIncrease

-----------------------------------------------------------------------------
(* Envelopes, drafts and the other records are told apart.                 *)
LEMMA Kinded ==
  /\ \A e \in Envelopes : /\ e.sequence \in 1..MaxSequence /\ e.kind \in Kinds
                          /\ e.type = "event" /\ e # Nothing /\ e \notin Drafts
                          /\ e = Envelope(e.sequence, e.kind)
  /\ \A e \in Drafts : /\ e.sequence = 0 /\ e.kind \in Kinds
                       /\ e.type = "event" /\ e # Nothing
                       /\ e = Envelope(0, e.kind)
  /\ \A r \in Reports : IsEvent(r) <=> r \in Envelopes
  /\ \A n : Lagged(n).type = "lagged" /\ ~IsEvent(Lagged(n))
  /\ Closed.type = "closed" /\ ~IsEvent(Closed)
BY EventBusAssumption DEF Envelopes, Drafts, Reports, Envelope, Lagged, Closed,
   Nothing, IsEvent

LEMMA InitIInv == Init => IInv
<1> SUFFICES ASSUME Init PROVE IInv
  OBVIOUS
<1>1. TypeOK
  BY EventBusAssumption DEF Init, TypeOK
<1>2. DOMAIN sent = {} /\ Len(sent) = 0
        /\ \A s \in Subscribers : DOMAIN seen[s] = {}
  BY DEF Init
<1>3. \A p \in Publishers : sending[p] \notin Envelopes
  BY Kinded DEF Init
<1>4. QED
  BY <1>1, <1>2, <1>3 DEF Init, IInv, LockedWhileSending, SentInOrder,
     CursorInLog, SeenIsBehindCursor, SequencesIncrease

(* A step that only moves publishers outside the channel.                  *)
LEMMA PublisherStep ==
  ASSUME IInv, TypeOK', UNCHANGED <<sent, subscriberVars>>
  PROVE  CursorInLog' /\ SeenIsBehindCursor' /\ SequencesIncrease'
BY DEF IInv, CursorInLog, SeenIsBehindCursor, SequencesIncrease, subscriberVars

LEMMA LockPublishKeepsIInv ==
  ASSUME IInv, NEW p \in Publishers, NEW kind \in Kinds, LockPublish(p, kind)
  PROVE  IInv'
<1>1. Envelope(0, kind) \in Drafts /\ Envelope(0, kind) \notin Envelopes
  BY Kinded DEF Drafts
<1>2. TypeOK'
  BY <1>1 DEF IInv, TypeOK, LockPublish, channelVars, subscriberVars
<1>3. LockedWhileSending'
  BY EventBusAssumption
     DEF IInv, TypeOK, LockPublish, LockedWhileSending
<1>4. SentInOrder'
  BY <1>1 DEF IInv, TypeOK, LockPublish, SentInOrder, channelVars
<1>5. QED
  BY <1>2, <1>3, <1>4, PublisherStep DEF IInv, LockPublish, channelVars

LEMMA AssignSequenceKeepsIInv ==
  ASSUME IInv, NEW p \in Publishers, AssignSequence(p) PROVE IInv'
<1>1. PICK e \in Envelopes :
        /\ sending' = [sending EXCEPT ![p] = e]
        /\ e.sequence = nextSequence
  <2>1. PICK kind \in Kinds : sending[p] = Envelope(0, kind)
    BY DEF AssignSequence, Drafts
  <2>2. nextSequence \in 1..MaxSequence
    BY EventBusAssumption DEF AssignSequence, IInv, TypeOK
  <2>3. [Envelope(0, kind) EXCEPT !.sequence = nextSequence]
          = Envelope(nextSequence, kind)
    BY DEF Envelope
  <2>4. /\ Envelope(nextSequence, kind) \in Envelopes
        /\ Envelope(nextSequence, kind).sequence = nextSequence
    BY <2>2 DEF Envelopes, Envelope
  <2>5. sending' = [sending EXCEPT ![p] = Envelope(nextSequence, kind)]
    BY <2>1, <2>3 DEF AssignSequence
  <2>6. QED BY <2>4, <2>5
<1>2. /\ nextSequence' = nextSequence + 1
      /\ nextSequence \in 1..MaxSequence
      /\ UNCHANGED <<publishLock, channelVars, subscriberVars>>
      /\ sending[p] \in Drafts
  BY EventBusAssumption DEF AssignSequence, IInv, TypeOK
<1>3. TypeOK'
  BY <1>1, <1>2, EventBusAssumption DEF IInv, TypeOK, channelVars, subscriberVars
<1>4. LockedWhileSending'
  BY <1>1, <1>2, Kinded DEF IInv, TypeOK, LockedWhileSending
<1>5. \A q \in Publishers : q # p => sending[q] = Nothing
  BY <1>2, Kinded DEF IInv, LockedWhileSending
<1>6. SentInOrder'
  <2>1. \A q \in Publishers : sending'[q] \in Envelopes => q = p
    BY <1>1, <1>5, Kinded DEF IInv, TypeOK
  <2>2. sending'[p] = e
    BY <1>1 DEF IInv, TypeOK
  <2>3. /\ Len(sent) \in Nat /\ DOMAIN sent = 1..Len(sent)
        /\ \A i \in DOMAIN sent : sent[i].sequence \in Nat
    BY Kinded DEF IInv, TypeOK
  <2>4. QED
    BY <1>1, <1>2, <2>1, <2>2, <2>3 DEF IInv, SentInOrder, channelVars
<1>7. QED
  BY <1>2, <1>3, <1>4, <1>6, PublisherStep DEF IInv, channelVars

LEMMA SendKeepsIInv ==
  ASSUME IInv, NEW p \in Publishers, Send(p) PROVE IInv'
<1>1. PICK e \in Envelopes :
      /\ e = sending[p] /\ e.sequence \in 1..MaxSequence
      /\ sent' = sent \/ sent' = Append(sent, e)
      /\ sending' = [sending EXCEPT ![p] = Nothing]
      /\ publishLock' = Nobody
      /\ UNCHANGED <<nextSequence, open, subscriberVars>>
  BY Kinded DEF Send, Offer
<1>2. /\ sent \in Seq(Envelopes) /\ sent' \in Seq(Envelopes)
      /\ Len(sent) \in Nat /\ DOMAIN sent = 1..Len(sent)
      /\ DOMAIN sent' = 1..Len(sent')
      /\ \A i \in DOMAIN sent : i \in DOMAIN sent' /\ sent'[i] = sent[i]
      /\ \/ Len(sent') = Len(sent)
         \/ Len(sent') = Len(sent) + 1 /\ sent'[Len(sent) + 1] = e
  <2>1. sent \in Seq(Envelopes)
    BY DEF IInv, TypeOK
  <2>2. CASE sent' = sent
    BY <2>1, <2>2
  <2>3. CASE sent' = Append(sent, e)
    BY <2>1, <2>3
  <2>4. QED BY <1>1, <2>2, <2>3
<1>3. TypeOK'
  BY <1>1, <1>2 DEF IInv, TypeOK, subscriberVars
<1>4. \A q \in Publishers : sending'[q] = Nothing
  BY <1>1, Kinded DEF IInv, TypeOK, LockedWhileSending
<1>5. LockedWhileSending'
  BY <1>4 DEF LockedWhileSending
<1>6. SentInOrder'
  <2>1. \A i \in DOMAIN sent : sent[i].sequence < e.sequence
    BY <1>1 DEF IInv, SentInOrder
  <2>2. Len(sent) + 1 < nextSequence /\ e.sequence < nextSequence
    BY <1>1 DEF IInv, SentInOrder
  <2>3. \A q \in Publishers : sending'[q] \notin Envelopes
    BY <1>4, Kinded
  <2>4. \A i, j \in DOMAIN sent' : i < j => sent'[i].sequence < sent'[j].sequence
    <3>1. \A i, j \in DOMAIN sent : i < j => sent[i].sequence < sent[j].sequence
      BY DEF IInv, SentInOrder
    <3>2. CASE Len(sent') = Len(sent)
      BY <1>2, <3>1, <3>2
    <3>3. CASE Len(sent') = Len(sent) + 1 /\ sent'[Len(sent) + 1] = e
      BY <1>2, <2>1, <3>1, <3>3
    <3>4. QED BY <1>2, <3>2, <3>3
  <2>5. \A i \in DOMAIN sent' : sent'[i].sequence < nextSequence
    <3>1. \A i \in DOMAIN sent : sent[i].sequence < nextSequence
      BY DEF IInv, SentInOrder
    <3>2. CASE Len(sent') = Len(sent)
      BY <1>2, <3>1, <3>2
    <3>3. CASE Len(sent') = Len(sent) + 1 /\ sent'[Len(sent) + 1] = e
      BY <1>2, <2>2, <3>1, <3>3
    <3>4. QED BY <1>2, <3>2, <3>3
  <2>6. Len(sent') < nextSequence
    <3>1. Len(sent) < nextSequence
      BY DEF IInv, SentInOrder
    <3>2. QED BY <1>2, <2>2, <3>1
  <2>7. QED
    BY <1>1, <2>3, <2>4, <2>5, <2>6 DEF SentInOrder
<1>7. CursorInLog'
  <2>1. \A s \in Subscribers : cursor[s] \in Nat /\ cursor[s] <= Len(sent) + 1
    BY EventBusAssumption DEF IInv, TypeOK, CursorInLog
  <2>2. cursor' = cursor
    BY <1>1 DEF subscriberVars
  <2>3. /\ Len(sent) \in Nat
        /\ Len(sent') = Len(sent) \/ Len(sent') = Len(sent) + 1
    BY <1>2
  <2>4. QED BY <2>1, <2>2, <2>3 DEF CursorInLog
<1>8. SeenIsBehindCursor' /\ SequencesIncrease'
  <2>1. UNCHANGED <<seen, cursor>>
    BY <1>1 DEF subscriberVars
  <2>2. SequencesIncrease'
    BY <2>1 DEF IInv, SequencesIncrease
  <2>3. ASSUME NEW s \in Subscribers, NEW i \in DOMAIN seen[s], IsEvent(seen[s][i])
        PROVE  \E k \in DOMAIN sent' : k < cursor[s] /\ sent'[k] = seen[s][i]
    <3>1. PICK k \in DOMAIN sent : k < cursor[s] /\ sent[k] = seen[s][i]
      BY <2>3 DEF IInv, SeenIsBehindCursor
    <3>2. QED BY <1>2, <3>1
  <2>4. QED BY <2>1, <2>2, <2>3 DEF SeenIsBehindCursor
<1>9. QED BY <1>3, <1>5, <1>6, <1>7, <1>8 DEF IInv

LEMMA CloseKeepsIInv == ASSUME IInv, Close PROVE IInv'
BY DEF Close, IInv, TypeOK, LockedWhileSending, SentInOrder, CursorInLog,
   SeenIsBehindCursor, SequencesIncrease, publisherVars, subscriberVars

-----------------------------------------------------------------------------
(* A step of subscribers leaves what publishers did alone.                 *)
LEMMA SubscriberStep ==
  ASSUME IInv, UNCHANGED <<publisherVars, channelVars>>
  PROVE  LockedWhileSending' /\ SentInOrder'
BY DEF IInv, LockedWhileSending, SentInOrder, publisherVars, channelVars

LEMMA SubscribeKeepsIInv ==
  ASSUME IInv, NEW s \in Subscribers, NEW filter \in Filters,
         Subscribe(s, filter)
  PROVE  IInv'
<1>1. Len(sent) \in Nat /\ Len(sent) + 1 \in 1..(MaxSequence + 1)
  BY EventBusAssumption DEF IInv, TypeOK, SentInOrder
<1>2. TypeOK'
  BY <1>1 DEF IInv, TypeOK, Subscribe, publisherVars, channelVars
<1>3. CursorInLog'
  BY <1>1 DEF IInv, TypeOK, Subscribe, CursorInLog, channelVars
<1>4. SeenIsBehindCursor'
  <2>1. \A t \in Subscribers : cursor[t] <= cursor'[t]
    BY <1>1 DEF IInv, TypeOK, CursorInLog, Subscribe
  <2>2. \A t \in Subscribers : cursor[t] \in Nat /\ cursor'[t] \in Nat
    BY <1>2, EventBusAssumption, SMTT(30) DEF IInv, TypeOK
  <2>3. DOMAIN sent \subseteq Nat
    BY DEF IInv, TypeOK
  <2>4. QED
    BY <2>1, <2>2, <2>3 DEF IInv, SeenIsBehindCursor, Subscribe, channelVars
<1>5. SequencesIncrease'
  BY DEF IInv, SequencesIncrease, Subscribe
<1>6. QED
  BY <1>2, <1>3, <1>4, <1>5, SubscriberStep DEF IInv, Subscribe

LEMMA UnsubscribeKeepsIInv ==
  ASSUME IInv, NEW s \in Subscribers, Unsubscribe(s) PROVE IInv'
<1>1. TypeOK'
  BY EventBusAssumption
     DEF IInv, TypeOK, Unsubscribe, publisherVars, channelVars
<1>2. CursorInLog'
  BY DEF IInv, TypeOK, Unsubscribe, CursorInLog, channelVars
<1>3. SeenIsBehindCursor' /\ SequencesIncrease'
  BY DEF IInv, TypeOK, Unsubscribe, SeenIsBehindCursor, SequencesIncrease,
     channelVars
<1>4. QED
  BY <1>1, <1>2, <1>3, SubscriberStep DEF IInv, Unsubscribe

LEMMA CallKeepsIInv ==
  ASSUME IInv, NEW s \in Subscribers, NEW method \in {"recv", "try_recv"},
         Call(s, method)
  PROVE  IInv'
<1>1. TypeOK'
  BY DEF IInv, TypeOK, Call, publisherVars, channelVars
<1>2. QED
  BY <1>1, SubscriberStep DEF IInv, Call, CursorInLog, SeenIsBehindCursor,
     SequencesIncrease, channelVars

(* The cursor moves forward inside the log, and a call may return a report *)
(* which, when it is an event, is the one the cursor has just passed.      *)
LEMMA CursorMoves ==
  ASSUME IInv, NEW s \in Subscribers,
         NEW position \in cursor[s]..(Len(sent) + 1),
         cursor' = [cursor EXCEPT ![s] = position],
         UNCHANGED <<kinds, start, publisherVars, channelVars>>,
         \/ UNCHANGED <<calling, seen>>
         \/ \E report \in Reports :
              /\ Return(s, report)
              /\ IsEvent(report) => /\ cursor[s] \in DOMAIN sent
                                    /\ cursor[s] < position
                                    /\ report = sent[cursor[s]]
  PROVE  IInv'
<1>1. /\ sent \in Seq(Envelopes) /\ Len(sent) \in Nat
      /\ DOMAIN sent = 1..Len(sent)
      /\ cursor \in [Subscribers -> 1..(MaxSequence + 1)]
      /\ cursor[s] \in Nat
      /\ position \in 1..(MaxSequence + 1)
      /\ seen \in [Subscribers -> Seq(Reports)]
  BY EventBusAssumption DEF IInv, TypeOK, SentInOrder
<1>2. /\ cursor'[s] = position
      /\ \A t \in Subscribers : t # s => cursor'[t] = cursor[t]
      /\ \A t \in Subscribers : cursor[t] <= cursor'[t]
  BY <1>1
<1>3. LockedWhileSending' /\ SentInOrder'
  BY SubscriberStep
<1>4. CursorInLog'
  BY <1>1, <1>2 DEF IInv, CursorInLog, channelVars
<1>5. \A t \in Subscribers : \A i \in DOMAIN seen[t] :
        IsEvent(seen[t][i])
          => \E k \in DOMAIN sent : k < cursor'[t] /\ sent[k] = seen[t][i]
  <2>1. \A t \in Subscribers : cursor[t] \in Nat /\ cursor'[t] \in Nat
    BY <1>1, <1>2, EventBusAssumption
  <2>2. QED
    BY <1>1, <1>2, <2>1 DEF IInv, SeenIsBehindCursor
<1>6. CASE UNCHANGED <<calling, seen>>
  <2>1. TypeOK'
    BY <1>1, <1>6 DEF IInv, TypeOK, publisherVars, channelVars
  <2>2. SeenIsBehindCursor'
    BY <1>5, <1>6 DEF SeenIsBehindCursor, channelVars
  <2>3. SequencesIncrease'
    BY <1>6 DEF IInv, SequencesIncrease
  <2>4. QED BY <1>3, <1>4, <2>1, <2>2, <2>3 DEF IInv
<1>7. ASSUME NEW report \in Reports, Return(s, report),
             IsEvent(report) => /\ cursor[s] \in DOMAIN sent
                                /\ cursor[s] < position
                                /\ report = sent[cursor[s]]
      PROVE  IInv'
  <2>1. /\ seen' = [seen EXCEPT ![s] = Append(seen[s], report)]
        /\ calling' = [calling EXCEPT ![s] = "idle"]
    BY <1>7 DEF Return
  <2>2. TypeOK'
    BY <1>1, <2>1 DEF IInv, TypeOK, publisherVars, channelVars
  <2>3. /\ seen'[s] = Append(seen[s], report)
        /\ \A t \in Subscribers : t # s => seen'[t] = seen[t]
        /\ Len(seen[s]) \in Nat /\ DOMAIN seen[s] = 1..Len(seen[s])
        /\ DOMAIN seen'[s] = 1..(Len(seen[s]) + 1)
        /\ seen'[s][Len(seen[s]) + 1] = report
        /\ \A i \in DOMAIN seen[s] : seen'[s][i] = seen[s][i]
    BY <1>1, <2>1
  <2>4. SeenIsBehindCursor'
    <3>1. IsEvent(report)
            => \E k \in DOMAIN sent : k < cursor'[s] /\ sent[k] = report
      BY <1>2, <1>7
    <3>2. \A i \in DOMAIN seen'[s] : IsEvent(seen'[s][i])
            => \E k \in DOMAIN sent : k < cursor'[s] /\ sent[k] = seen'[s][i]
      BY <1>5, <2>3, <3>1
    <3>3. ASSUME NEW t \in Subscribers, NEW i \in DOMAIN seen'[t],
                 IsEvent(seen'[t][i])
          PROVE  \E k \in DOMAIN sent : k < cursor'[t] /\ sent[k] = seen'[t][i]
      <4>1. CASE t = s
        BY <3>2, <3>3, <4>1
      <4>2. CASE t # s
        BY <1>5, <2>3, <3>3, <4>2
      <4>3. QED BY <4>1, <4>2
    <3>4. QED
      BY <3>3 DEF SeenIsBehindCursor, channelVars
  <2>5. SequencesIncrease'
    <3>1. ASSUME NEW i \in DOMAIN seen[s], IsEvent(seen[s][i]), IsEvent(report)
          PROVE  seen[s][i].sequence < report.sequence
      <4>1. PICK k \in DOMAIN sent : k < cursor[s] /\ sent[k] = seen[s][i]
        BY <3>1 DEF IInv, SeenIsBehindCursor
      <4>2. report = sent[cursor[s]] /\ cursor[s] \in DOMAIN sent
        BY <1>7, <3>1
      <4>3. QED BY <4>1, <4>2 DEF IInv, SentInOrder
    <3>2. \A i, j \in DOMAIN seen'[s] :
            i < j /\ IsEvent(seen'[s][i]) /\ IsEvent(seen'[s][j])
              => seen'[s][i].sequence < seen'[s][j].sequence
      BY <2>3, <3>1 DEF IInv, SequencesIncrease
    <3>3. QED BY <2>3, <3>2 DEF IInv, SequencesIncrease
  <2>6. QED BY <1>3, <1>4, <2>2, <2>4, <2>5 DEF IInv
<1>8. QED BY <1>6, <1>7

LEMMA ReceivingKeepsIInv ==
  ASSUME IInv, NEW s \in Subscribers, Receiving(s) PROVE IInv'
<1>1. /\ sent \in Seq(Envelopes) /\ Len(sent) \in Nat
      /\ DOMAIN sent = 1..Len(sent)
      /\ cursor[s] \in Nat \ {0} /\ cursor[s] <= Len(sent) + 1
      /\ Len(sent) <= MaxSequence
      /\ Oldest \in Nat \ {0} /\ Oldest <= Len(sent) + 1
  BY EventBusAssumption DEF IInv, TypeOK, SentInOrder, CursorInLog, Oldest
<1>2. CASE Take(s)
  <2>1. /\ cursor[s] \in DOMAIN sent /\ sent[cursor[s]] \in Reports
        /\ cursor[s] + 1 \in cursor[s]..(Len(sent) + 1)
        /\ cursor[s] < cursor[s] + 1
    BY <1>1, <1>2 DEF Take, Reports
  <2>2. /\ cursor' = [cursor EXCEPT ![s] = cursor[s] + 1]
        /\ Return(s, sent[cursor[s]]) \/ UNCHANGED <<calling, seen>>
        /\ UNCHANGED <<kinds, start, publisherVars, channelVars>>
    BY <1>2 DEF Take
  <2>3. QED BY <2>1, <2>2, CursorMoves
<1>3. CASE Lag(s)
  <2>1. /\ Oldest \in cursor[s]..(Len(sent) + 1)
        /\ Oldest - cursor[s] \in 1..MaxSequence
    BY <1>1, <1>3, EventBusAssumption DEF Lag, Oldest
  <2>2. Lagged(Oldest - cursor[s]) \in Reports
    BY <2>1 DEF Reports
  <2>3. /\ cursor' = [cursor EXCEPT ![s] = Oldest]
        /\ Return(s, Lagged(Oldest - cursor[s]))
        /\ UNCHANGED <<kinds, start, publisherVars, channelVars>>
    BY <1>3 DEF Lag
  <2>4. QED BY <2>1, <2>2, <2>3, CursorMoves, Kinded
<1>4. CASE ReturnNone(s)
  <2>1. TypeOK'
    BY <1>4 DEF IInv, TypeOK, ReturnNone, publisherVars, channelVars
  <2>2. QED
    BY <1>4, <2>1, SubscriberStep DEF IInv, ReturnNone, CursorInLog,
       SeenIsBehindCursor, SequencesIncrease, channelVars
<1>5. CASE ReturnClosed(s)
  <2>1. /\ cursor[s] \in cursor[s]..(Len(sent) + 1)
        /\ cursor' = [cursor EXCEPT ![s] = cursor[s]]
        /\ Closed \in Reports /\ ~IsEvent(Closed)
    BY <1>1, <1>5, Kinded DEF ReturnClosed, Reports, IInv, TypeOK
  <2>2. /\ Return(s, Closed)
        /\ UNCHANGED <<kinds, start, publisherVars, channelVars>>
    BY <1>5 DEF ReturnClosed
  <2>3. QED BY <2>1, <2>2, CursorMoves
<1>6. QED BY <1>2, <1>3, <1>4, <1>5 DEF Receiving

LEMMA NextIInv == IInv /\ [Next]_vars => IInv'
<1> SUFFICES ASSUME IInv, [Next]_vars PROVE IInv'
  OBVIOUS
<1>1. ASSUME NEW p \in Publishers, NEW kind \in Kinds, LockPublish(p, kind)
      PROVE  IInv'
  BY <1>1, LockPublishKeepsIInv
<1>2. ASSUME NEW p \in Publishers, Publishing(p) PROVE IInv'
  BY <1>2, AssignSequenceKeepsIInv, SendKeepsIInv DEF Publishing
<1>3. ASSUME NEW s \in Subscribers, NEW filter \in Filters, Subscribe(s, filter)
      PROVE  IInv'
  BY <1>3, SubscribeKeepsIInv
<1>4. ASSUME NEW s \in Subscribers,
             \/ Unsubscribe(s)
             \/ \E method \in {"recv", "try_recv"} : Call(s, method)
             \/ Receiving(s)
      PROVE  IInv'
  BY <1>4, UnsubscribeKeepsIInv, CallKeepsIInv, ReceivingKeepsIInv
<1>5. CASE Close
  BY <1>5, CloseKeepsIInv
<1>6. CASE UNCHANGED vars
  BY <1>6 DEF vars, publisherVars, channelVars, subscriberVars, IInv, TypeOK,
     LockedWhileSending, SentInOrder, CursorInLog, SeenIsBehindCursor,
     SequencesIncrease
<1>7. CASE Terminated
  BY <1>6, <1>7 DEF Terminated
<1>8. QED
  BY <1>1, <1>2, <1>3, <1>4, <1>5, <1>6, <1>7 DEF Next

(* The inductive invariant holds in every reachable state.                 *)
THEOREM BusInvariant == Spec => []IInv
<1>1. QED BY InitIInv, NextIInv, PTL DEF Spec

(* Every variable keeps its type.                                          *)
THEOREM BusTypeCorrect == Spec => []TypeOK
<1>1. IInv => TypeOK
  BY DEF IInv
<1>2. QED BY <1>1, BusInvariant, PTL

(* Because numbers are assigned and sent under one lock, no subscriber     *)
(* ever sees them out of order, so all agree on one order of events.       *)
THEOREM OneOrderForEverybody == Spec => []SequencesIncrease
<1>1. IInv => SequencesIncrease
  BY DEF IInv
<1>2. QED BY <1>1, BusInvariant, PTL

-----------------------------------------------------------------------------
(* EventBus: nothing is lost in silence.                                   *)

Worths(reports) == [i \in DOMAIN reports |-> Worth(reports[i])]

LEMMA AccountedIsASum ==
  ASSUME NEW S, NEW reports \in Seq(S)
  PROVE  \E f : /\ Sums(Worths(reports), f, Len(reports))
                /\ Accounted(reports) = f[Len(reports)]
<1> DEFINE m == Len(reports)
           Adds(f) == f = [n \in 0..m |-> IF n = 0 THEN 0
                                          ELSE f[n - 1] + Worth(reports[n])]
           f == CHOOSE f : Adds(f)
<1>1. m \in Nat /\ DOMAIN reports = 1..m
  BY LenProperties
<1>2. ASSUME NEW g PROVE Adds(g) <=> Sums(Worths(reports), g, m)
  <2>1. \A n \in 0..m : n # 0 => Worths(reports)[n] = Worth(reports[n])
    BY <1>1 DEF Worths
  <2> HIDE DEF m
  <2>2. [n \in 0..m |-> IF n = 0 THEN 0 ELSE g[n - 1] + Worth(reports[n])]
          = [n \in 0..m |-> IF n = 0 THEN 0 ELSE g[n - 1] + Worths(reports)[n]]
    BY <2>1
  <2>3. QED BY <2>2 DEF Sums
<1>3. \E g : Adds(g)
  BY <1>1, <1>2, SumsExist
<1>4. Adds(f)
  <2> HIDE DEF Adds
  <2>1. QED BY <1>3
<1>5. Accounted(reports) = f[m]
  BY DEF Accounted
<1>6. QED
  <2> HIDE DEF f, Adds
  <2>1. QED BY <1>2, <1>4, <1>5

LEMMA AccountedOneMore ==
  ASSUME NEW S, NEW reports \in Seq(S), NEW report \in S
  PROVE  Accounted(Append(reports, report)) = Accounted(reports) + Worth(report)
<1> DEFINE longer == Append(reports, report)
           m == Len(reports)
<1>1. /\ longer \in Seq(S) /\ Len(longer) = m + 1
      /\ \A i \in 1..m : longer[i] = reports[i]
      /\ longer[m + 1] = report
      /\ DOMAIN reports = 1..m /\ DOMAIN longer = 1..(m + 1)
      /\ m \in Nat
  BY AppendProperties, LenProperties
<1>2. PICK f : Sums(Worths(reports), f, m) /\ Accounted(reports) = f[m]
  BY AccountedIsASum
<1> HIDE DEF longer, m
<1>3. PICK g : Sums(Worths(longer), g, m + 1) /\ Accounted(longer) = g[m + 1]
  BY <1>1, AccountedIsASum
<1>4. /\ Continues(Worths(longer), Worths(reports), m)
      /\ Worths(longer)[m + 1] = Worth(report)
  BY <1>1 DEF Worths, Continues
<1>5. g[m + 1] = f[m] + Worths(longer)[m + 1]
  BY <1>1, <1>2, <1>3, <1>4, SumsOfOneMore
<1>6. QED BY <1>2, <1>3, <1>4, <1>5 DEF longer

LEMMA AccountedNothing == Accounted(<<>>) = 0
<1>1. <<>> \in Seq({}) /\ Len(<<>>) = 0
  BY EmptySeq
<1>2. PICK f : Sums(Worths(<<>>), f, 0) /\ Accounted(<<>>) = f[0]
  BY <1>1, AccountedIsASum
<1>3. QED BY <1>2 DEF Sums

(* What a subscriber holds accounts for all that its cursor has passed.    *)
Passed(s) == start[s]..(cursor[s] - 1)
WasTold(s) ==
  \/ \A k \in Passed(s) : Accepts(s, sent[k]) => Told(s, sent[k])
  \/ \E i \in DOMAIN seen[s] : IsLagged(seen[s][i])
NothingElse(s) ==
  \A i \in DOMAIN seen[s] :
    IsEvent(seen[s][i])
      => \E k \in Passed(s) : sent[k] = seen[s][i] /\ Accepts(s, sent[k])
AddsUp(s) == kinds[s] = Kinds => Accounted(seen[s]) = cursor[s] - start[s]
ClosedIsLast(s) ==
  Told(s, Closed) => /\ ~open /\ cursor[s] = Len(sent) + 1
                     /\ seen[s][Len(seen[s])] = Closed
                     /\ calling[s] = "idle"

Books ==
  /\ ~open => \A p \in Publishers : sending[p] = Nothing
  /\ \A s \in Subscribers :
       /\ start[s] <= cursor[s]
       /\ IF Subscribed(s)
          THEN WasTold(s) /\ NothingElse(s) /\ AddsUp(s) /\ ClosedIsLast(s)
          ELSE seen[s] = <<>> /\ calling[s] = "idle"

LEMMA InitBooks == Init => Books
BY DEF Init, Books, Subscribed

(* The account of a subscriber whose own variables a step leaves alone.    *)
LEMMA AccountStays ==
  ASSUME IInv, NEW s \in Subscribers,
         WasTold(s), NothingElse(s), AddsUp(s), ClosedIsLast(s),
         kinds'[s] = kinds[s], start'[s] = start[s], cursor'[s] = cursor[s],
         seen'[s] = seen[s], calling'[s] = calling[s],
         \A k \in DOMAIN sent : k \in DOMAIN sent' /\ sent'[k] = sent[k],
         ~open => ~open' /\ Len(sent') = Len(sent)
  PROVE  /\ WasTold(s)' /\ NothingElse(s)' /\ AddsUp(s)' /\ ClosedIsLast(s)'
<1>1. Passed(s) \subseteq DOMAIN sent /\ Passed(s)' = Passed(s)
  BY EventBusAssumption DEF IInv, TypeOK, CursorInLog, Passed
<1>2. \A k \in Passed(s) : sent'[k] = sent[k]
  BY <1>1
<1>3. /\ \A e : Accepts(s, e)' <=> Accepts(s, e)
      /\ \A r : Told(s, r)' <=> Told(s, r)
  BY DEF Accepts, Told
<1>4. WasTold(s)'
  BY <1>1, <1>2 DEF WasTold, Accepts, Told
<1>5. NothingElse(s)'
  BY <1>1, <1>2 DEF NothingElse, Accepts
<1>6. AddsUp(s)' /\ ClosedIsLast(s)'
  BY DEF AddsUp, ClosedIsLast, Told
<1>7. QED BY <1>4, <1>5, <1>6

(* A step of the publishers or of the bus itself.                          *)
LEMMA LogStepKeepsBooks ==
  ASSUME IInv, Books, UNCHANGED subscriberVars,
         \A k \in DOMAIN sent : k \in DOMAIN sent' /\ sent'[k] = sent[k],
         ~open => ~open' /\ Len(sent') = Len(sent),
         ~open' => \A p \in Publishers : sending'[p] = Nothing
  PROVE  Books'
<1>1. ASSUME NEW t \in Subscribers
      PROVE  /\ start'[t] <= cursor'[t]
             /\ IF Subscribed(t)'
                THEN WasTold(t)' /\ NothingElse(t)' /\ AddsUp(t)'
                       /\ ClosedIsLast(t)'
                ELSE seen'[t] = <<>> /\ calling'[t] = "idle"
  <2>1. Subscribed(t)' = Subscribed(t)
    BY DEF Subscribed, subscriberVars
  <2>2. /\ kinds'[t] = kinds[t] /\ start'[t] = start[t] /\ cursor'[t] = cursor[t]
        /\ seen'[t] = seen[t] /\ calling'[t] = calling[t]
    BY DEF subscriberVars
  <2>3. QED BY <2>1, <2>2, AccountStays DEF Books
<1>2. QED BY <1>1 DEF Books

LEMMA PublishingKeepsBooks ==
  ASSUME IInv, Books, NEW p \in Publishers,
         Publishing(p) \/ \E kind \in Kinds : LockPublish(p, kind)
  PROVE  Books'
<1>1. CASE \E kind \in Kinds : LockPublish(p, kind)
  BY <1>1, LogStepKeepsBooks DEF LockPublish, channelVars, subscriberVars
<1>2. CASE AssignSequence(p)
  <2>1. open
    BY <1>2, Kinded DEF AssignSequence, Books
  <2>2. QED
    BY <1>2, <2>1, LogStepKeepsBooks DEF AssignSequence, channelVars
<1>3. CASE Send(p)
  <2>1. open
    BY <1>3, Kinded DEF Send, Books
  <2>2. sent \in Seq(Envelopes) /\ sending[p] \in Envelopes
    BY <1>3 DEF Send, IInv, TypeOK
  <2>3. sent' = sent \/ sent' = Append(sent, sending[p])
    BY <1>3 DEF Send, Offer
  <2>4. \A k \in DOMAIN sent : k \in DOMAIN sent' /\ sent'[k] = sent[k]
    BY <2>2, <2>3
  <2>5. QED BY <1>3, <2>1, <2>4, LogStepKeepsBooks DEF Send
<1>4. QED BY <1>1, <1>2, <1>3 DEF Publishing

LEMMA CloseKeepsBooks == ASSUME IInv, Books, Close PROVE Books'
BY LogStepKeepsBooks DEF Close, publisherVars

(* A step of one subscriber.                                               *)
LEMMA SubscriberKeepsBooks ==
  ASSUME IInv, Books, NEW s \in Subscribers,
         UNCHANGED <<publisherVars, channelVars>>,
         \A t \in Subscribers : t # s =>
           /\ kinds'[t] = kinds[t] /\ start'[t] = start[t] /\ cursor'[t] = cursor[t]
           /\ seen'[t] = seen[t] /\ calling'[t] = calling[t],
         start'[s] <= cursor'[s],
         IF Subscribed(s)'
         THEN WasTold(s)' /\ NothingElse(s)' /\ AddsUp(s)' /\ ClosedIsLast(s)'
         ELSE seen'[s] = <<>> /\ calling'[s] = "idle"
  PROVE  Books'
<1>1. UNCHANGED <<sent, open, sending>>
  BY DEF publisherVars, channelVars
<1>2. ASSUME NEW t \in Subscribers, t # s
      PROVE  /\ start'[t] <= cursor'[t]
             /\ IF Subscribed(t)'
                THEN WasTold(t)' /\ NothingElse(t)' /\ AddsUp(t)'
                       /\ ClosedIsLast(t)'
                ELSE seen'[t] = <<>> /\ calling'[t] = "idle"
  <2>1. Subscribed(t)' = Subscribed(t)
    BY <1>2 DEF Subscribed
  <2>2. /\ \A k \in DOMAIN sent : k \in DOMAIN sent' /\ sent'[k] = sent[k]
        /\ ~open => ~open' /\ Len(sent') = Len(sent)
    BY <1>1
  <2>3. QED BY <1>2, <2>1, <2>2, AccountStays DEF Books
<1>3. QED BY <1>1, <1>2 DEF Books

(* The types a step of a subscriber needs.                                 *)
LEMMA SubscriberTypes ==
  ASSUME IInv, NEW s \in Subscribers
  PROVE  /\ sent \in Seq(Envelopes) /\ Len(sent) \in Nat
         /\ DOMAIN sent = 1..Len(sent)
         /\ cursor[s] \in Nat \ {0} /\ start[s] \in Nat \ {0}
         /\ cursor[s] <= Len(sent) + 1
         /\ kinds \in [Subscribers -> SUBSET Kinds]
         /\ start \in [Subscribers -> Nat] /\ cursor \in [Subscribers -> Nat]
         /\ calling \in [Subscribers -> {"idle", "recv", "try_recv"}]
         /\ seen \in [Subscribers -> Seq(Reports)]
         /\ seen[s] \in Seq(Reports)
<1>1. /\ TypeOK /\ CursorInLog /\ {{}} \cup Filters \subseteq SUBSET Kinds
      /\ 1..(MaxSequence + 1) \subseteq Nat \ {0}
  BY EventBusAssumption DEF IInv
<1>2. /\ kinds \in [Subscribers -> SUBSET Kinds]
      /\ start \in [Subscribers -> Nat \ {0}]
      /\ cursor \in [Subscribers -> Nat \ {0}]
  BY <1>1 DEF TypeOK
<1>3. start \in [Subscribers -> Nat] /\ cursor \in [Subscribers -> Nat]
  BY <1>2
<1>4. QED BY <1>1, <1>2, <1>3 DEF TypeOK, CursorInLog

LEMMA SubscribeKeepsBooks ==
  ASSUME IInv, Books, NEW s \in Subscribers, NEW filter \in Filters,
         Subscribe(s, filter)
  PROVE  Books'
<1>1. /\ seen[s] = <<>> /\ calling[s] = "idle"
      /\ UNCHANGED <<calling, seen, publisherVars, channelVars>>
      /\ kinds' = [kinds EXCEPT ![s] = filter]
      /\ start' = [start EXCEPT ![s] = Len(sent) + 1]
      /\ cursor' = [cursor EXCEPT ![s] = Len(sent) + 1]
  BY DEF Subscribe, Books
<1>2. /\ start'[s] = Len(sent) + 1 /\ cursor'[s] = Len(sent) + 1
      /\ kinds'[s] = filter /\ seen'[s] = <<>> /\ Len(sent) \in Nat
  BY <1>1, SubscriberTypes
<1>3. WasTold(s)' /\ NothingElse(s)'
  <2>1. Passed(s)' = {} /\ DOMAIN seen'[s] = {}
    BY <1>2 DEF Passed
  <2>2. QED BY <2>1 DEF WasTold, NothingElse
<1>4. AddsUp(s)' /\ ClosedIsLast(s)'
  BY <1>2, AccountedNothing DEF AddsUp, ClosedIsLast, Told
<1>5. Subscribed(s)'
  BY <1>2, EventBusAssumption DEF Subscribed
<1>6. \A t \in Subscribers : t # s =>
        /\ kinds'[t] = kinds[t] /\ start'[t] = start[t] /\ cursor'[t] = cursor[t]
        /\ seen'[t] = seen[t] /\ calling'[t] = calling[t]
  BY <1>1, SubscriberTypes
<1>7. start'[s] <= cursor'[s]
  BY <1>2
<1>8. QED BY <1>1, <1>3, <1>4, <1>5, <1>6, <1>7, SubscriberKeepsBooks

LEMMA UnsubscribeKeepsBooks ==
  ASSUME IInv, Books, NEW s \in Subscribers, Unsubscribe(s)
  PROVE  Books'
<1>1. /\ kinds'[s] = {} /\ start'[s] = 1 /\ cursor'[s] = 1
      /\ calling'[s] = "idle" /\ seen'[s] = <<>>
      /\ \A t \in Subscribers : t # s =>
           /\ kinds'[t] = kinds[t] /\ start'[t] = start[t] /\ cursor'[t] = cursor[t]
           /\ seen'[t] = seen[t] /\ calling'[t] = calling[t]
  BY SubscriberTypes DEF Unsubscribe
<1>2. QED BY <1>1, SubscriberKeepsBooks DEF Unsubscribe, Subscribed

(* A step that tells the subscriber nothing and moves no cursor, with the  *)
(* channel open or nothing told yet.                                       *)
LEMMA SilentStepKeepsBooks ==
  ASSUME IInv, Books, NEW s \in Subscribers, NEW method, Subscribed(s),
         calling' = [calling EXCEPT ![s] = method], ~Told(s, Closed),
         UNCHANGED <<kinds, start, cursor, seen, publisherVars, channelVars>>
  PROVE  Books'
<1>1. WasTold(s) /\ NothingElse(s) /\ AddsUp(s) /\ start[s] <= cursor[s]
  BY DEF Books
<1>2. WasTold(s)' /\ NothingElse(s)' /\ AddsUp(s)'
  BY <1>1 DEF WasTold, NothingElse, AddsUp, Passed, Accepts, Told, channelVars
<1>3. ClosedIsLast(s)'
  BY DEF ClosedIsLast, Told
<1>4. Subscribed(s)' /\ start'[s] <= cursor'[s]
  BY <1>1 DEF Subscribed
<1>5. \A t \in Subscribers : t # s => calling'[t] = calling[t]
  BY SubscriberTypes
<1>6. QED BY <1>2, <1>3, <1>4, <1>5, SubscriberKeepsBooks

(* A call that is under way has not been told Closed.                      *)
LEMMA CallingMeansMore ==
  ASSUME Books, NEW s \in Subscribers, calling[s] # "idle"
  PROVE  /\ Subscribed(s) /\ ~Told(s, Closed) /\ start[s] <= cursor[s]
         /\ WasTold(s) /\ NothingElse(s) /\ AddsUp(s)
BY DEF Books, ClosedIsLast

LEMMA ReportsDiffer ==
  /\ \A e \in Envelopes : Worth(e) = 1 /\ e # Closed /\ ~IsLagged(e)
  /\ \A n : Worth(Lagged(n)) = n /\ Lagged(n) # Closed /\ IsLagged(Lagged(n))
  /\ Worth(Closed) = 0
<1>1. ASSUME NEW e \in Envelopes PROVE Worth(e) = 1 /\ e # Closed /\ ~IsLagged(e)
  BY Kinded DEF Worth, IsEvent, IsLagged
<1>2. ASSUME NEW n
      PROVE  Worth(Lagged(n)) = n /\ Lagged(n) # Closed /\ IsLagged(Lagged(n))
  <2>1. Lagged(n).type = "lagged" /\ Lagged(n).skipped = n
    BY DEF Lagged
  <2>2. QED BY <2>1, Kinded DEF Worth, IsEvent, IsLagged
<1>3. Worth(Closed) = 0
  BY Kinded DEF Worth, IsEvent, IsLagged
<1>4. QED BY <1>1, <1>2, <1>3

(* A call that returns a report moves the cursor.                          *)
LEMMA ReportKeepsBooks ==
  ASSUME IInv, Books, NEW s \in Subscribers, calling[s] # "idle",
         NEW report \in Reports, Return(s, report),
         NEW position \in cursor[s]..(Len(sent) + 1),
         cursor' = [cursor EXCEPT ![s] = position],
         UNCHANGED <<kinds, start, publisherVars, channelVars>>,
         Worth(report) \in Nat, position = cursor[s] + Worth(report),
         IsEvent(report) => /\ cursor[s] < position
                            /\ report = sent[cursor[s]] /\ Accepts(s, report),
         ~IsEvent(report) => IsLagged(report) \/ position = cursor[s],
         report = Closed => ~open /\ position = Len(sent) + 1
  PROVE  Books'
<1>1. /\ Subscribed(s) /\ ~Told(s, Closed) /\ start[s] <= cursor[s]
      /\ WasTold(s) /\ NothingElse(s) /\ AddsUp(s)
  BY CallingMeansMore
<1>2. /\ cursor'[s] = position /\ start'[s] = start[s] /\ kinds' = kinds
      /\ UNCHANGED <<sent, open>>
      /\ seen'[s] = Append(seen[s], report) /\ calling'[s] = "idle"
      /\ \A t \in Subscribers : t # s =>
           /\ kinds'[t] = kinds[t] /\ start'[t] = start[t] /\ cursor'[t] = cursor[t]
           /\ seen'[t] = seen[t] /\ calling'[t] = calling[t]
  BY SubscriberTypes DEF Return, channelVars
<1>3. /\ Len(seen[s]) \in Nat /\ DOMAIN seen[s] = 1..Len(seen[s])
      /\ DOMAIN seen'[s] = 1..(Len(seen[s]) + 1) /\ Len(seen'[s]) = Len(seen[s]) + 1
      /\ \A i \in DOMAIN seen[s] : seen'[s][i] = seen[s][i]
      /\ seen'[s][Len(seen[s]) + 1] = report
  BY <1>2, SubscriberTypes
<1>4. /\ cursor[s] \in Nat /\ start[s] \in Nat /\ position \in Nat
      /\ cursor[s] <= position /\ position <= Len(sent) + 1 /\ Len(sent) \in Nat
  BY SubscriberTypes
<1>5. \A r : (\E i \in DOMAIN seen'[s] : seen'[s][i] = r)
               <=> Told(s, r) \/ r = report
  <2>1. Len(seen[s]) + 1 \in DOMAIN seen'[s]
    BY <1>3
  <2>2. ASSUME NEW i \in DOMAIN seen[s]
        PROVE  i \in DOMAIN seen'[s] /\ seen'[s][i] = seen[s][i]
    BY <1>3
  <2>3. ASSUME NEW i \in DOMAIN seen'[s]
        PROVE  (i \in DOMAIN seen[s] /\ seen'[s][i] = seen[s][i])
                 \/ seen'[s][i] = report
    BY <1>3
  <2>4. QED BY <1>3, <2>1, <2>2, <2>3, Zenon DEF Told
<1>6. Passed(s) \subseteq Passed(s)'
  BY <1>2, <1>4 DEF Passed
<1>7. CASE IsEvent(report)
  <2>1. /\ report \in Envelopes /\ position = cursor[s] + 1
        /\ report # Closed /\ ~IsLagged(report)
    BY <1>7, Kinded, ReportsDiffer
  <2>2. Passed(s)' = Passed(s) \cup {cursor[s]}
    BY <1>1, <1>2, <1>4, <2>1 DEF Passed
  <2>3. WasTold(s)'
    <3>1. CASE \E i \in DOMAIN seen[s] : IsLagged(seen[s][i])
      BY <1>3, <3>1 DEF WasTold
    <3>2. CASE \A k \in Passed(s) : Accepts(s, sent[k]) => Told(s, sent[k])
      <4>1. ASSUME NEW k \in Passed(s)', Accepts(s, sent[k])
            PROVE  \E i \in DOMAIN seen'[s] : seen'[s][i] = sent[k]
        BY <1>5, <1>7, <2>2, <3>2, <4>1
      <4>2. QED BY <1>2, <4>1 DEF WasTold, Accepts, Told
    <3>3. QED BY <1>1, <3>1, <3>2 DEF WasTold
  <2>4. QED
    <3>1. NothingElse(s)'
      <4>1. ASSUME NEW i \in DOMAIN seen'[s], IsEvent(seen'[s][i])
            PROVE  \E k \in Passed(s)' :
                     sent[k] = seen'[s][i] /\ Accepts(s, sent[k])
        <5>1. CASE i \in DOMAIN seen[s]
          BY <1>1, <1>3, <1>6, <4>1, <5>1 DEF NothingElse
        <5>2. CASE i = Len(seen[s]) + 1
          BY <1>3, <1>7, <2>2, <5>2
        <5>3. QED BY <1>3, <5>1, <5>2
      <4>2. QED BY <1>2, <4>1 DEF NothingElse, Accepts
    <3>2. AddsUp(s)'
      <4>1. Accounted(seen'[s]) = Accounted(seen[s]) + Worth(report)
        BY <1>2, AccountedOneMore, SubscriberTypes
      <4>2. QED BY <1>1, <1>2, <1>4, <4>1 DEF AddsUp
    <3>3. ClosedIsLast(s)'
      BY <1>1, <1>5, <2>1 DEF ClosedIsLast, Told
    <3>4. Subscribed(s)' /\ start'[s] <= cursor'[s]
      BY <1>1, <1>2, <1>4 DEF Subscribed
    <3>5. QED BY <1>2, <2>3, <3>1, <3>2, <3>3, <3>4, SubscriberKeepsBooks
<1>8. CASE ~IsEvent(report)
  <2>1. WasTold(s)'
    <3>1. CASE IsLagged(report)
      BY <1>3, <3>1 DEF WasTold
    <3>2. CASE position = cursor[s]
      <4>1. Passed(s)' = Passed(s)
        BY <1>2, <3>2 DEF Passed
      <4>2. CASE \E i \in DOMAIN seen[s] : IsLagged(seen[s][i])
        BY <1>3, <4>2 DEF WasTold
      <4>3. CASE \A k \in Passed(s) : Accepts(s, sent[k]) => Told(s, sent[k])
        <5>1. \A k \in Passed(s)' :
                Accepts(s, sent[k])
                  => \E i \in DOMAIN seen'[s] : seen'[s][i] = sent[k]
          BY <1>5, <4>1, <4>3
        <5>2. QED BY <1>2, <5>1 DEF WasTold, Accepts, Told
      <4>4. QED BY <1>1, <4>2, <4>3 DEF WasTold
    <3>3. QED BY <1>8, <3>1, <3>2
  <2>2. NothingElse(s)'
    <3>1. ASSUME NEW i \in DOMAIN seen'[s], IsEvent(seen'[s][i])
          PROVE  \E k \in Passed(s)' : sent[k] = seen'[s][i] /\ Accepts(s, sent[k])
      <4>1. i \in DOMAIN seen[s]
        BY <1>3, <1>8, <3>1
      <4>2. QED BY <1>1, <1>3, <1>6, <3>1, <4>1 DEF NothingElse
    <3>2. QED BY <1>2, <3>1 DEF NothingElse, Accepts
  <2>3. AddsUp(s)'
    <3>1. Accounted(seen'[s]) = Accounted(seen[s]) + Worth(report)
      BY <1>2, AccountedOneMore, SubscriberTypes
    <3>2. QED BY <1>1, <1>2, <1>4, <3>1 DEF AddsUp
  <2>4. ClosedIsLast(s)'
    BY <1>1, <1>2, <1>3, <1>5 DEF ClosedIsLast, Told
  <2>5. Subscribed(s)' /\ start'[s] <= cursor'[s]
    BY <1>1, <1>2, <1>4 DEF Subscribed
  <2>6. QED BY <1>2, <2>1, <2>2, <2>3, <2>4, <2>5, SubscriberKeepsBooks
<1>9. QED BY <1>7, <1>8

LEMMA ReceivingKeepsBooks ==
  ASSUME IInv, Books, NEW s \in Subscribers, Receiving(s) PROVE Books'
<1>1. /\ sent \in Seq(Envelopes) /\ Len(sent) \in Nat /\ DOMAIN sent = 1..Len(sent)
      /\ cursor[s] \in Nat \ {0} /\ cursor[s] <= Len(sent) + 1
      /\ cursor \in [Subscribers -> Nat]
  BY SubscriberTypes
<1>2. CASE Take(s)
  <2>1. /\ calling[s] # "idle" /\ cursor[s] \in DOMAIN sent
        /\ cursor[s] + 1 \in cursor[s]..(Len(sent) + 1)
        /\ cursor' = [cursor EXCEPT ![s] = cursor[s] + 1]
        /\ UNCHANGED <<kinds, start, publisherVars, channelVars>>
        /\ Oldest \in Nat \ {0}
    BY <1>1, <1>2, EventBusAssumption DEF Take, Oldest
  <2>2. sent[cursor[s]] \in Envelopes
    BY <1>1, <2>1
  <2>3. CASE Accepts(s, sent[cursor[s]])
    <3>1. Return(s, sent[cursor[s]])
      BY <1>2, <2>3 DEF Take
    <3>2. /\ sent[cursor[s]] \in Reports /\ IsEvent(sent[cursor[s]])
          /\ Worth(sent[cursor[s]]) = 1 /\ sent[cursor[s]] # Closed
      BY <2>2, Kinded, ReportsDiffer DEF Reports
    <3>3. cursor[s] < cursor[s] + 1 /\ 1 \in Nat
      BY <1>1
    <3> DEFINE position == cursor[s] + 1
    <3>4. /\ position \in cursor[s]..(Len(sent) + 1)
          /\ cursor' = [cursor EXCEPT ![s] = position]
          /\ position = cursor[s] + Worth(sent[cursor[s]]) /\ cursor[s] < position
      BY <2>1, <3>2, <3>3
    <3> HIDE DEF position
    <3>5. Worth(sent[cursor[s]]) \in Nat
      BY <3>2, <3>3
    <3>6. QED
      BY <2>1, <2>3, <3>1, <3>2, <3>4, <3>5, ReportKeepsBooks
  <2>4. CASE ~Accepts(s, sent[cursor[s]])
    <3>1. /\ Subscribed(s) /\ ~Told(s, Closed) /\ start[s] <= cursor[s]
          /\ WasTold(s) /\ NothingElse(s) /\ AddsUp(s)
      BY <2>1, CallingMeansMore
    <3>2. UNCHANGED <<calling, seen, kinds, start, sent>>
      BY <1>2, <2>4 DEF Take, channelVars
    <3>3. start[s] \in Nat
      BY SubscriberTypes
    <3>4. cursor'[s] = cursor[s] + 1
      BY <1>1, <2>1
    <3>5. Passed(s)' = Passed(s) \cup {cursor[s]}
      BY <1>1, <3>1, <3>2, <3>3, <3>4 DEF Passed
    <3>6. WasTold(s)'
      <4>1. CASE \E i \in DOMAIN seen[s] : IsLagged(seen[s][i])
        BY <3>2, <4>1 DEF WasTold
      <4>2. CASE \A k \in Passed(s) : Accepts(s, sent[k]) => Told(s, sent[k])
        <5>1. \A k \in Passed(s)' : Accepts(s, sent[k]) => Told(s, sent[k])
          BY <2>4, <3>5, <4>2
        <5>2. QED BY <3>2, <5>1 DEF WasTold, Accepts, Told
      <4>3. QED BY <3>1, <4>1, <4>2 DEF WasTold
    <3>7. NothingElse(s)'
      <4>1. Passed(s) \subseteq Passed(s)'
        BY <3>5
      <4>2. ASSUME NEW i \in DOMAIN seen[s], IsEvent(seen[s][i])
            PROVE  \E k \in Passed(s)' : sent[k] = seen[s][i] /\ Accepts(s, sent[k])
        BY <3>1, <4>1, <4>2 DEF NothingElse
      <4>3. QED BY <3>2, <4>2 DEF NothingElse, Accepts
    <3>8. AddsUp(s)'
      <4>1. kinds[s] # Kinds
        BY <2>2, <2>4, Kinded DEF Accepts
      <4>2. QED BY <3>2, <4>1 DEF AddsUp
    <3>9. ClosedIsLast(s)'
      BY <3>1, <3>2 DEF ClosedIsLast, Told
    <3>10. Subscribed(s)' /\ start'[s] <= cursor'[s]
      BY <1>1, <3>1, <3>2, <3>3, <3>4 DEF Subscribed
    <3>11. \A t \in Subscribers : t # s => cursor'[t] = cursor[t]
      BY <1>1, <2>1
    <3>12. QED
      BY <2>1, <3>2, <3>6, <3>7, <3>8, <3>9, <3>10, <3>11, SubscriberKeepsBooks
  <2>5. QED BY <2>3, <2>4
<1>3. CASE Lag(s)
  <2> DEFINE lost == Oldest - cursor[s]
  <2>1. /\ calling[s] # "idle" /\ Return(s, Lagged(lost))
        /\ cursor' = [cursor EXCEPT ![s] = Oldest]
        /\ UNCHANGED <<kinds, start, publisherVars, channelVars>>
    BY <1>3 DEF Lag
  <2>2. /\ Oldest \in cursor[s]..(Len(sent) + 1) /\ lost \in 1..MaxSequence
        /\ Oldest = cursor[s] + lost
    <3>1. Len(sent) <= MaxSequence
      BY EventBusAssumption DEF IInv, TypeOK, SentInOrder
    <3>2. QED BY <1>1, <1>3, <3>1, EventBusAssumption DEF Lag, Oldest
  <2> HIDE DEF lost
  <2>3. /\ Lagged(lost) \in Reports /\ ~IsEvent(Lagged(lost))
        /\ IsLagged(Lagged(lost)) /\ Worth(Lagged(lost)) = lost
        /\ Lagged(lost) # Closed
    BY <2>2, Kinded, ReportsDiffer DEF Reports
  <2>4. Worth(Lagged(lost)) \in Nat
    BY <2>2, <2>3, EventBusAssumption
  <2>5. QED BY <2>1, <2>2, <2>3, <2>4, ReportKeepsBooks
<1>4. CASE ReturnNone(s)
  <2>1. calling[s] # "idle"
    BY <1>4 DEF ReturnNone
  <2>2. QED
    BY <1>4, <2>1, CallingMeansMore, SilentStepKeepsBooks DEF ReturnNone
<1>5. CASE ReturnClosed(s)
  <2>1. /\ calling[s] # "idle" /\ Return(s, Closed) /\ ~open
        /\ cursor[s] = Len(sent) + 1
        /\ UNCHANGED <<kinds, start, cursor, publisherVars, channelVars>>
    BY <1>5 DEF ReturnClosed, Drained
  <2>2. /\ cursor' = [cursor EXCEPT ![s] = cursor[s]]
        /\ cursor[s] \in cursor[s]..(Len(sent) + 1)
    BY <1>1, <2>1
  <2>3. /\ Closed \in Reports /\ ~IsEvent(Closed)
        /\ Worth(Closed) \in Nat /\ cursor[s] = cursor[s] + Worth(Closed)
    BY <1>1, Kinded, ReportsDiffer DEF Reports
  <2>4. QED BY <2>1, <2>2, <2>3, ReportKeepsBooks
<1>6. QED BY <1>2, <1>3, <1>4, <1>5 DEF Receiving

LEMMA CallKeepsBooks ==
  ASSUME IInv, Books, NEW s \in Subscribers, NEW method \in {"recv", "try_recv"},
         Call(s, method)
  PROVE  Books'
BY SilentStepKeepsBooks DEF Call

LEMMA NextBooks == IInv /\ Books /\ [Next]_vars => Books'
<1> SUFFICES ASSUME IInv, Books, [Next]_vars PROVE Books'
  OBVIOUS
<1>1. ASSUME NEW p \in Publishers,
             Publishing(p) \/ \E kind \in Kinds : LockPublish(p, kind)
      PROVE  Books'
  BY <1>1, PublishingKeepsBooks
<1>2. ASSUME NEW s \in Subscribers,
             \/ \E filter \in Filters : Subscribe(s, filter)
             \/ Unsubscribe(s)
             \/ \E method \in {"recv", "try_recv"} : Call(s, method)
             \/ Receiving(s)
      PROVE  Books'
  BY <1>2, SubscribeKeepsBooks, UnsubscribeKeepsBooks, CallKeepsBooks,
     ReceivingKeepsBooks
<1>3. CASE Close
  BY <1>3, CloseKeepsBooks
<1>4. CASE UNCHANGED vars
  BY <1>4, LogStepKeepsBooks
     DEF vars, publisherVars, channelVars, subscriberVars, Books
<1>5. QED BY <1>1, <1>2, <1>3, <1>4 DEF Next, Terminated

(* No event is lost in silence, and Closed comes last.                     *)
THEOREM NoSilentLoss == Spec => []LossIsReported
<1>1. Books => LossIsReported
  BY DEF Books, LossIsReported, WasTold, NothingElse, AddsUp, ClosedIsLast,
     Passed
<1>2. QED BY <1>1, InitBooks, NextBooks, BusInvariant, PTL DEF Spec

(* None is the truth: nothing of the subscriber's kinds is buffered.       *)
THEOREM NoneIsTrue == Spec => NoneMeansNothingBuffered
<1>1. ASSUME IInv, [Next]_vars
      PROVE  [\A s \in Subscribers :
                /\ calling[s] = "try_recv" /\ calling'[s] = "idle"
                /\ seen'[s] = seen[s] /\ kinds'[s] # {}
                => \A i \in cursor[s]..Len(sent) : ~Accepts(s, sent[i])]_vars
  <2>1. SUFFICES ASSUME Next, NEW t \in Subscribers,
                        calling[t] = "try_recv", calling'[t] = "idle",
                        seen'[t] = seen[t], kinds'[t] # {}
                 PROVE  cursor[t] = Len(sent) + 1
    <3>1. Len(sent) \in Nat
      BY <1>1 DEF IInv, TypeOK
    <3>2. ASSUME NEW n \in Nat, NEW i \in (n + 1)..n PROVE FALSE
      OBVIOUS
    <3>3. QED BY <1>1, <3>1, <3>2
  <2>2. /\ calling \in [Subscribers -> {"idle", "recv", "try_recv"}]
        /\ seen \in [Subscribers -> Seq(Reports)]
        /\ kinds \in [Subscribers -> SUBSET Kinds]
    BY <1>1, <2>1, SubscriberTypes
  <2>3. ASSUME calling' = calling PROVE FALSE
    BY <2>1, <2>3
  <2>4. ASSUME NEW s \in Subscribers, NEW report, Return(s, report) PROVE FALSE
    <3>1. /\ seen' = [seen EXCEPT ![s] = Append(seen[s], report)]
          /\ calling' = [calling EXCEPT ![s] = "idle"]
      BY <2>4 DEF Return
    <3>2. s = t
      BY <2>1, <2>2, <3>1
    <3>3. seen'[t] = Append(seen[t], report) /\ Len(seen[t]) \in Nat
      BY <2>2, <3>1, <3>2
    <3>4. Len(Append(seen[t], report)) = Len(seen[t]) + 1
      BY <2>2
    <3>5. QED BY <2>1, <3>3, <3>4
  <2>5. ASSUME NEW p \in Publishers,
               Publishing(p) \/ \E kind \in Kinds : LockPublish(p, kind)
        PROVE  FALSE
    BY <2>3, <2>5 DEF Publishing, AssignSequence, Send, LockPublish, subscriberVars
  <2>6. ASSUME NEW s \in Subscribers, NEW filter \in Filters, Subscribe(s, filter)
        PROVE  FALSE
    BY <2>3, <2>6 DEF Subscribe
  <2>7. ASSUME NEW s \in Subscribers, Unsubscribe(s) PROVE FALSE
    BY <2>1, <2>2, <2>7 DEF Unsubscribe
  <2>8. ASSUME NEW s \in Subscribers, NEW method \in {"recv", "try_recv"},
               Call(s, method)
        PROVE  FALSE
    BY <2>1, <2>2, <2>8 DEF Call
  <2>9. ASSUME NEW s \in Subscribers, Receiving(s)
        PROVE  cursor[t] = Len(sent) + 1
    <3>1. CASE Take(s)
      BY <2>3, <2>4, <3>1 DEF Take
    <3>2. CASE Lag(s) \/ ReturnClosed(s)
      BY <2>4, <3>2 DEF Lag, ReturnClosed
    <3>3. CASE ReturnNone(s)
      <4>1. s = t
        BY <2>1, <2>2, <3>3 DEF ReturnNone
      <4>2. QED BY <3>3, <4>1 DEF ReturnNone, Drained
    <3>4. QED BY <2>9, <3>1, <3>2, <3>3 DEF Receiving
  <2>10. CASE Close \/ Terminated
    BY <2>3, <2>10 DEF Close, Terminated, vars, subscriberVars
  <2>11. QED
    BY <2>1, <2>5, <2>6, <2>7, <2>8, <2>9, <2>10 DEF Next
<1>2. QED BY <1>1, BusInvariant, PTL DEF Spec, NoneMeansNothingBuffered

-----------------------------------------------------------------------------
(* UpdateService.                                                          *)

(* The lock is held by the one caller that is not idle.                    *)
OneAtATime ==
  \A c \in UpdateCallers : call[c].doing # "idle" <=> operation = c

Reporting == \E c \in UpdateCallers : call[c].doing = "reporting"

(* What is pending is what was reported, and no part of it has got lost    *)
(* but by its installation; a check that has not reported yet has retained *)
(* what it will report, an installation has what is pending.               *)
PendingFits ==
  /\ pendingUpdate # Updates!NoUpdate /\ ~Reporting
       => reported = pendingUpdate /\ announced = pendingUpdate
  /\ pendingUpdate = Updates!NoUpdate /\ ~Reporting /\ reported # Updates!NoUpdate
       => onDisk = reported
  /\ \A c \in UpdateCallers :
       /\ call[c].doing \in {"reporting", "downloading", "verifying"}
            => call[c].update = pendingUpdate
       /\ call[c].doing \in {"downloading", "verifying"}
            => pendingUpdate # Updates!NoUpdate

DownloadedBefore(events, i) == IF i = 2 THEN 0 ELSE events[i - 1].downloaded

(* The events of a download that goes on.                                  *)
Telling(events, total) ==
  /\ events # <<>> /\ events[1] = Updates!Started
  /\ \A i \in 2..Len(events) : \E length \in ChunkLengths :
       events[i] = Updates!Progress(length, DownloadedBefore(events, i) + length)
  /\ total = DownloadedBefore(events, Len(events) + 1)

TellingSoFar(c) ==
  call[c].doing = "downloading" /\ channelOpen[c] =>
    IF call[c].started THEN Telling(progress[c], call[c].downloaded)
                       ELSE progress[c] = <<>> /\ call[c].downloaded = 0

ProgressTold ==
  \A c \in UpdateCallers : Updates!WellFormed(progress[c]) /\ TellingSoFar(c)

UpdatesInv == OneAtATime /\ PendingFits /\ ProgressTold

CallerStates == {"idle", "asking", "reporting", "downloading", "verifying"}
CallRecords == [doing : CallerStates, update : Updates!Versions, started : BOOLEAN,
                downloaded : 0..MaxDownload]

LEMMA EventsAreTyped ==
  ASSUME Updates!UpdateServiceAssumption
  PROVE  /\ Updates!Started \in Updates!Events
         /\ \A n \in 0..MaxDownload : Updates!Finished(n) \in Updates!Events
         /\ \A n \in 0..MaxDownload, length \in ChunkLengths :
              Updates!Progress(length, n) \in Updates!Events
BY DEF Updates!Events

(* Sending keeps the type of what a channel delivered.                     *)
LEMMA SendIsTyped ==
  ASSUME Updates!TypeOK, NEW c \in UpdateCallers,
         NEW events \in Seq(Updates!Events), Updates!Send(c, events)
  PROVE  progress' \in [UpdateCallers -> Seq(Updates!Events)]
<1>1. progress[c] \o events \in Seq(Updates!Events)
  BY ConcatProperties DEF Updates!TypeOK
<1>2. QED BY <1>1 DEF Updates!Send, Updates!TypeOK

LEMMA StepsAreTyped ==
  ASSUME Updates!UpdateServiceAssumption, Updates!TypeOK,
         [Updates!Next]_Updates!vars
  PROVE  Updates!TypeOK'
<1> USE DEF Updates!TypeOK, Updates!CheckErrors
<1>1. Updates!NoUpdate \in Updates!Versions /\ Updates!Idle \in CallRecords
  BY DEF Updates!NoUpdate, Updates!Versions, Updates!Idle, CallRecords,
         CallerStates, Updates!UpdateServiceAssumption
<1>2. call \in [UpdateCallers -> CallRecords]
  BY DEF CallRecords, CallerStates
<1>3. ASSUME NEW c \in UpdateCallers, NEW state \in CallRecords,
             Updates!Become(c, state)
      PROVE  call' \in [UpdateCallers -> CallRecords]
  BY <1>2, <1>3 DEF Updates!Become
<1>4. ASSUME NEW c \in UpdateCallers, NEW result, Updates!Answer(c, result),
             result \in Updates!CheckErrors \cup
               {"none", "busy", "checked", "update_not_available",
                "update_install_failed", "installed"}
      PROVE  /\ call' \in [UpdateCallers -> CallRecords]
             /\ outcome' \in [UpdateCallers -> Updates!CheckErrors \cup
                  {"none", "busy", "checked", "update_not_available",
                   "update_install_failed", "installed"}]
  BY <1>1, <1>3, <1>4 DEF Updates!Answer
<1>5. ASSUME NEW c \in UpdateCallers,
             \/ Updates!Busy(c) \/ Updates!InstallNothing(c)
             \/ Updates!InstallFails(c) \/ Updates!Install(c)
             \/ Updates!Report(c)
             \/ \E error \in Updates!CheckErrors : Updates!CheckFails(c, error)
      PROVE  Updates!TypeOK'
  BY <1>1, <1>2, <1>4, <1>5
     DEF Updates!Busy, Updates!InstallNothing, Updates!InstallFails,
         Updates!Install, Updates!Report, Updates!CheckFails, Updates!Release,
         Updates!worldVars, CallRecords, CallerStates
<1>6. ASSUME NEW c \in UpdateCallers, Updates!BeginCheck(c) PROVE Updates!TypeOK'
  <2>1. [Updates!Idle EXCEPT !.doing = "asking"] \in CallRecords
    BY <1>1 DEF CallRecords, CallerStates, Updates!Idle
  <2>2. call' \in [UpdateCallers -> CallRecords]
    BY <1>3, <1>6, <2>1 DEF Updates!BeginCheck
  <2>3. QED
    BY <1>6, <2>2
       DEF Updates!BeginCheck, Updates!worldVars, CallRecords, CallerStates
<1>7. ASSUME NEW c \in UpdateCallers, Updates!Retain(c) PROVE Updates!TypeOK'
  <2> DEFINE update == IF latest > version THEN latest ELSE Updates!NoUpdate
  <2>1. update \in Updates!Versions
    BY <1>1
  <2>2. [Updates!Idle EXCEPT !.doing = "reporting", !.update = update]
          \in CallRecords
    BY <1>1, <2>1 DEF CallRecords, CallerStates, Updates!Idle
  <2>3. call' \in [UpdateCallers -> CallRecords]
    BY <1>3, <1>7, <2>2 DEF Updates!Retain
  <2>4. QED
    BY <1>7, <2>1, <2>3
       DEF Updates!Retain, Updates!worldVars, CallRecords, CallerStates
<1>8. ASSUME NEW c \in UpdateCallers, Updates!BeginInstall(c) PROVE Updates!TypeOK'
  <2>1. [Updates!Idle EXCEPT !.doing = "downloading", !.update = pendingUpdate]
          \in CallRecords
    BY <1>1 DEF CallRecords, CallerStates, Updates!Idle
  <2>2. call' \in [UpdateCallers -> CallRecords]
    BY <1>3, <1>8, <2>1 DEF Updates!BeginInstall, Updates!Download
  <2>3. progress' \in [UpdateCallers -> Seq(Updates!Events)]
    <3>1. <<>> \in Seq(Updates!Events)
      BY EmptySeq
    <3>2. QED BY <1>8, <3>1 DEF Updates!BeginInstall, Updates!Download
  <2>4. QED
    BY <1>8, <2>2, <2>3
       DEF Updates!BeginInstall, Updates!Download, Updates!worldVars,
           CallRecords, CallerStates
<1>9. ASSUME NEW c \in UpdateCallers, NEW length \in ChunkLengths,
             Updates!Chunk(c, length)
      PROVE  Updates!TypeOK'
  <2> DEFINE total == call[c].downloaded + length
  <2>1. total \in 0..MaxDownload
    BY <1>2, <1>9
       DEF Updates!Chunk, CallRecords, Updates!UpdateServiceAssumption
  <2>2. [call[c] EXCEPT !.started = TRUE, !.downloaded = total] \in CallRecords
    BY <1>2, <2>1 DEF CallRecords
  <2>3. call' \in [UpdateCallers -> CallRecords]
    BY <1>3, <1>9, <2>2 DEF Updates!Chunk
  <2>4. Updates!StartIfNew(c) \o <<Updates!Progress(length, total)>>
          \in Seq(Updates!Events)
    BY <2>1, EventsAreTyped DEF Updates!StartIfNew
  <2>5. progress' \in [UpdateCallers -> Seq(Updates!Events)]
    BY <1>9, <2>4, SendIsTyped DEF Updates!Chunk
  <2>6. QED
    BY <1>9, <2>3, <2>5
       DEF Updates!Chunk, Updates!worldVars, CallRecords, CallerStates
<1>10. ASSUME NEW c \in UpdateCallers, Updates!FinishDownload(c)
       PROVE  Updates!TypeOK'
  <2>1. [call[c] EXCEPT !.doing = "verifying", !.started = TRUE] \in CallRecords
    BY <1>2 DEF CallRecords, CallerStates
  <2>2. call' \in [UpdateCallers -> CallRecords]
    BY <1>3, <1>10, <2>1 DEF Updates!FinishDownload
  <2>3. call[c].downloaded \in 0..MaxDownload
    BY <1>2 DEF CallRecords
  <2>4. Updates!StartIfNew(c) \o <<Updates!Finished(call[c].downloaded)>>
          \in Seq(Updates!Events)
    BY <2>3, EventsAreTyped DEF Updates!StartIfNew
  <2>5. progress' \in [UpdateCallers -> Seq(Updates!Events)]
    BY <1>10, <2>4, SendIsTyped DEF Updates!FinishDownload
  <2>6. QED
    BY <1>10, <2>2, <2>5
       DEF Updates!FinishDownload, Updates!worldVars, CallRecords, CallerStates
<1>11. ASSUME NEW c \in UpdateCallers, Updates!LoseChannel(c) PROVE Updates!TypeOK'
  BY <1>11 DEF Updates!LoseChannel, Updates!worldVars
<1>12. CASE Updates!Publish
  BY <1>12, SMTT(30)
     DEF Updates!Publish, Updates!callerVars, Updates!Versions,
         Updates!UpdateServiceAssumption
<1>13. CASE Updates!Restart
  BY <1>1, <1>13 DEF Updates!Restart, CallRecords, CallerStates
<1>14. CASE UNCHANGED Updates!vars
  BY <1>14 DEF Updates!vars, Updates!worldVars, Updates!callerVars
<1>15. QED
  BY <1>5, <1>6, <1>7, <1>8, <1>9, <1>10, <1>11, <1>12, <1>13, <1>14
     DEF Updates!Next, Updates!Check, Updates!Installation

-----------------------------------------------------------------------------
LEMMA OneAtATimeKept ==
  ASSUME Updates!UpdateServiceAssumption, Updates!TypeOK, OneAtATime,
         [Updates!Next]_Updates!vars
  PROVE  OneAtATime'
<1> USE DEF OneAtATime, Updates!TypeOK
<1>1. Unlocked \notin UpdateCallers /\ Updates!Idle.doing = "idle"
  BY DEF Updates!UpdateServiceAssumption, Updates!Idle
<1>2. ASSUME NEW c \in UpdateCallers, NEW state, Updates!Become(c, state)
      PROVE  call' = [call EXCEPT ![c] = state]
  BY <1>2 DEF Updates!Become
<1>3. ASSUME NEW c \in UpdateCallers,
             \/ Updates!InstallFails(c) \/ Updates!Install(c) \/ Updates!Report(c)
             \/ \E error \in Updates!CheckErrors : Updates!CheckFails(c, error)
      PROVE  OneAtATime'
  <2>1. operation = c /\ operation' = Unlocked
    BY <1>3
       DEF Updates!InstallFails, Updates!Install, Updates!Report,
           Updates!CheckFails, Updates!Doing, Updates!Release
  <2>2. call' = [call EXCEPT ![c] = Updates!Idle]
    BY <1>3
       DEF Updates!InstallFails, Updates!Install, Updates!Report,
           Updates!CheckFails, Updates!Answer, Updates!Become
  <2>3. QED BY <1>1, <2>1, <2>2
<1>4. ASSUME NEW c \in UpdateCallers, Updates!Busy(c) \/ Updates!InstallNothing(c)
      PROVE  OneAtATime'
  <2>1. call[c].doing = "idle" /\ operation' = operation
    BY <1>4 DEF Updates!Busy, Updates!InstallNothing, Updates!Doing
  <2>2. call' = [call EXCEPT ![c] = Updates!Idle]
    BY <1>4
       DEF Updates!Busy, Updates!InstallNothing, Updates!Answer, Updates!Become
  <2>3. QED BY <1>1, <2>1, <2>2
<1>5. ASSUME NEW c \in UpdateCallers,
             Updates!BeginCheck(c) \/ Updates!BeginInstall(c)
      PROVE  OneAtATime'
  <2>1. operation = Unlocked /\ operation' = c
    BY <1>5 DEF Updates!BeginCheck, Updates!BeginInstall
  <2>2. PICK state : state.doing # "idle" /\ call' = [call EXCEPT ![c] = state]
    BY <1>5
       DEF Updates!BeginCheck, Updates!BeginInstall, Updates!Download,
           Updates!Become, Updates!Idle
  <2>3. QED BY <1>1, <2>1, <2>2
<1>6. ASSUME NEW c \in UpdateCallers,
             \/ Updates!Retain(c) \/ Updates!FinishDownload(c)
             \/ \E length \in ChunkLengths : Updates!Chunk(c, length)
      PROVE  OneAtATime'
  <2>1. operation' = operation /\ call[c].doing # "idle"
    BY <1>6
       DEF Updates!Retain, Updates!FinishDownload, Updates!Chunk, Updates!Doing
  <2>2. ASSUME NEW state, state.doing # "idle", Updates!Become(c, state)
        PROVE  OneAtATime'
    BY <1>1, <1>2, <2>1, <2>2
  <2>3. DOMAIN call[c] = {"doing", "update", "started", "downloaded"}
    OBVIOUS
  <2>4. CASE Updates!Retain(c)
    <3>1. PICK update : Updates!Become(c, [Updates!Idle EXCEPT
                          !.doing = "reporting", !.update = update])
      BY <2>4 DEF Updates!Retain
    <3>2. [Updates!Idle EXCEPT !.doing = "reporting", !.update = update].doing
            # "idle"
      BY DEF Updates!Idle
    <3>3. QED BY <2>2, <3>1, <3>2
  <2>5. CASE Updates!FinishDownload(c)
    <3>1. [call[c] EXCEPT !.doing = "verifying", !.started = TRUE].doing # "idle"
      BY <2>3
    <3>2. QED BY <2>2, <2>5, <3>1 DEF Updates!FinishDownload
  <2>6. ASSUME NEW length \in ChunkLengths, Updates!Chunk(c, length)
        PROVE  OneAtATime'
    <3>1. PICK total : Updates!Become(c, [call[c] EXCEPT
                         !.started = TRUE, !.downloaded = total])
      BY <2>6 DEF Updates!Chunk
    <3>2. [call[c] EXCEPT !.started = TRUE, !.downloaded = total].doing # "idle"
      BY <2>1, <2>3
    <3>3. QED BY <2>2, <3>1, <3>2
  <2>7. QED BY <1>6, <2>4, <2>5, <2>6
<1>7. CASE Updates!Restart
  BY <1>1, <1>7 DEF Updates!Restart
<1>8. CASE Updates!Publish \/ UNCHANGED Updates!vars
             \/ \E c \in UpdateCallers : Updates!LoseChannel(c)
  BY <1>8
     DEF Updates!Publish, Updates!LoseChannel, Updates!callerVars, Updates!vars
<1>9. QED
  BY <1>3, <1>4, <1>5, <1>6, <1>7, <1>8
     DEF Updates!Next, Updates!Check, Updates!Installation

LEMMA PendingFitsKept ==
  ASSUME Updates!UpdateServiceAssumption, Updates!TypeOK, OneAtATime, PendingFits,
         [Updates!Next]_Updates!vars
  PROVE  PendingFits'
<1> USE DEF PendingFits, Reporting
<1>0. /\ Unlocked \notin UpdateCallers /\ Updates!Idle.doing = "idle"
      /\ call \in [UpdateCallers ->
            [doing : {"idle", "asking", "reporting", "downloading", "verifying"},
             update : Updates!Versions, started : BOOLEAN, downloaded :
               0..MaxDownload]]
  BY DEF Updates!UpdateServiceAssumption, Updates!Idle, Updates!TypeOK
<1>1. ASSUME NEW c \in UpdateCallers, call[c].doing # "idle"
      PROVE  \A d \in UpdateCallers : d # c => call[d].doing = "idle"
  BY <1>1 DEF OneAtATime
<1>2. ASSUME NEW c \in UpdateCallers, operation = Unlocked
      PROVE  \A d \in UpdateCallers : call[d].doing = "idle"
  BY <1>0, <1>2 DEF OneAtATime
<1>3. ASSUME NEW c \in UpdateCallers,
             \/ Updates!Busy(c) \/ Updates!InstallNothing(c)
             \/ Updates!InstallFails(c)
             \/ \E error \in Updates!CheckErrors : Updates!CheckFails(c, error)
      PROVE  PendingFits'
  <2>1. call' = [call EXCEPT ![c] = Updates!Idle]
    BY <1>3
       DEF Updates!Busy, Updates!InstallNothing, Updates!InstallFails,
           Updates!CheckFails, Updates!Answer, Updates!Become
  <2>2. call[c].doing # "reporting"
    BY <1>3
       DEF Updates!Busy, Updates!InstallNothing, Updates!InstallFails,
           Updates!CheckFails, Updates!Doing
  <2>3. UNCHANGED <<pendingUpdate, reported, announced, onDisk>>
    BY <1>3
       DEF Updates!Busy, Updates!InstallNothing, Updates!InstallFails,
           Updates!CheckFails, Updates!worldVars
  <2>4. Reporting <=> Reporting'
    BY <1>0, <2>1, <2>2
  <2>5. QED BY <1>0, <2>1, <2>3, <2>4
<1>4. ASSUME NEW c \in UpdateCallers, Updates!BeginCheck(c) PROVE PendingFits'
  <2>1. call' = [call EXCEPT ![c] = [Updates!Idle EXCEPT !.doing = "asking"]]
    BY <1>4 DEF Updates!BeginCheck, Updates!Become
  <2>2. call[c].doing = "idle"
          /\ [Updates!Idle EXCEPT !.doing = "asking"].doing = "asking"
    BY <1>4 DEF Updates!BeginCheck, Updates!Doing, Updates!Idle
  <2>3. UNCHANGED <<pendingUpdate, reported, announced, onDisk>>
    BY <1>4 DEF Updates!BeginCheck, Updates!worldVars
  <2>4. Reporting <=> Reporting'
    BY <1>0, <2>1, <2>2
  <2>5. QED BY <1>0, <2>1, <2>2, <2>3, <2>4
<1>5. ASSUME NEW c \in UpdateCallers, Updates!Retain(c) PROVE PendingFits'
  <2>1. /\ call'[c].doing = "reporting" /\ call'[c].update = pendingUpdate'
        /\ \A d \in UpdateCallers : d # c => call'[d] = call[d]
    BY <1>0, <1>5 DEF Updates!Retain, Updates!Become, Updates!Idle
  <2>2. \A d \in UpdateCallers : d # c => call[d].doing = "idle"
    BY <1>1, <1>5 DEF Updates!Retain, Updates!Doing
  <2>3. QED BY <2>1, <2>2
<1>6. ASSUME NEW c \in UpdateCallers, Updates!Report(c) PROVE PendingFits'
  <2>1. /\ call[c].doing = "reporting" /\ call[c].update = pendingUpdate
    BY <1>6 DEF Updates!Report, Updates!Doing
  <2>2. \A d \in UpdateCallers : call'[d].doing = "idle"
    BY <1>0, <1>1, <1>6, <2>1
       DEF Updates!Report, Updates!Answer, Updates!Become
  <2>3. /\ pendingUpdate' = pendingUpdate /\ reported' = pendingUpdate
        /\ pendingUpdate # Updates!NoUpdate => announced' = pendingUpdate
    BY <1>6, <2>1 DEF Updates!Report
  <2>4. QED BY <2>2, <2>3
<1>7. ASSUME NEW c \in UpdateCallers, Updates!BeginInstall(c) PROVE PendingFits'
  <2>1. /\ call'[c].doing = "downloading" /\ call'[c].update = pendingUpdate
        /\ \A d \in UpdateCallers : d # c => call'[d] = call[d]
    BY <1>0, <1>7
       DEF Updates!BeginInstall, Updates!Download, Updates!Become, Updates!Idle
  <2>2. \A d \in UpdateCallers : call[d].doing = "idle"
    BY <1>2, <1>7 DEF Updates!BeginInstall
  <2>3. /\ pendingUpdate # Updates!NoUpdate
        /\ UNCHANGED <<pendingUpdate, reported, announced, onDisk>>
    BY <1>7 DEF Updates!BeginInstall, Updates!Download, Updates!worldVars
  <2>4. QED BY <2>1, <2>2, <2>3
<1>8. ASSUME NEW c \in UpdateCallers,
             Updates!FinishDownload(c)
               \/ \E length \in ChunkLengths : Updates!Chunk(c, length)
      PROVE  PendingFits'
  <2>1. /\ call[c].doing = "downloading"
        /\ call'[c].doing \in {"downloading", "verifying"}
        /\ call'[c].update = call[c].update
        /\ \A d \in UpdateCallers : d # c => call'[d] = call[d]
    BY <1>0, <1>8
       DEF Updates!FinishDownload, Updates!Chunk, Updates!Become, Updates!Doing
  <2>2. UNCHANGED <<pendingUpdate, reported, announced, onDisk>>
    BY <1>8 DEF Updates!FinishDownload, Updates!Chunk, Updates!worldVars
  <2>3. QED BY <2>1, <2>2
<1>9. ASSUME NEW c \in UpdateCallers, Updates!Install(c) PROVE PendingFits'
  <2>1. /\ call[c].doing = "verifying" /\ call[c].update = pendingUpdate
        /\ pendingUpdate # Updates!NoUpdate
    BY <1>9 DEF Updates!Install, Updates!Doing
  <2>2. /\ \A d \in UpdateCallers : call[d].doing # "reporting"
        /\ \A d \in UpdateCallers : call'[d].doing = "idle"
    BY <1>0, <1>1, <1>9, <2>1
       DEF Updates!Install, Updates!Answer, Updates!Become
  <2>3. /\ reported' = pendingUpdate /\ onDisk' = pendingUpdate
        /\ pendingUpdate' = Updates!NoUpdate
    BY <1>9, <2>1, <2>2 DEF Updates!Install
  <2>4. QED BY <2>2, <2>3
<1>10. CASE Updates!Restart
  BY <1>0, <1>10 DEF Updates!Restart
<1>11. CASE Updates!Publish \/ UNCHANGED Updates!vars
              \/ \E c \in UpdateCallers : Updates!LoseChannel(c)
  BY <1>11
     DEF Updates!Publish, Updates!LoseChannel, Updates!callerVars,
         Updates!vars, Updates!worldVars
<1>12. QED
  BY <1>3, <1>4, <1>5, <1>6, <1>7, <1>8, <1>9, <1>10, <1>11
     DEF Updates!Next, Updates!Check, Updates!Installation

-----------------------------------------------------------------------------
LEMMA TellingGoesOn ==
  ASSUME Updates!UpdateServiceAssumption,
         NEW heard \in Seq(Updates!Events), NEW total \in 0..MaxDownload,
         NEW length \in ChunkLengths, total + length \in 0..MaxDownload,
         Telling(heard, total)
  PROVE  Telling(Append(heard, Updates!Progress(length, total + length)),
           total + length)
<1> DEFINE event == Updates!Progress(length, total + length)
           longer == Append(heard, event)
<1>1. event \in Updates!Events
  BY EventsAreTyped
<1>2. /\ longer \in Seq(Updates!Events) /\ Len(longer) = Len(heard) + 1
      /\ \A i \in 1..Len(heard) : longer[i] = heard[i]
      /\ longer[Len(heard) + 1] = event
  BY <1>1, AppendProperties
<1>3. Len(heard) \in Nat /\ Len(heard) >= 1
  BY EmptySeq, LenProperties DEF Telling
<1> HIDE DEF event, longer
<1>4. longer # <<>> /\ longer[1] = Updates!Started
  BY <1>2, <1>3, EmptySeq DEF Telling
<1>5. \A i \in 2..(Len(heard) + 1) :
        DownloadedBefore(longer, i) = DownloadedBefore(heard, i)
  BY <1>2, <1>3 DEF DownloadedBefore
<1>6. ASSUME NEW i \in 2..Len(longer)
      PROVE  \E l \in ChunkLengths :
               longer[i] = Updates!Progress(l, DownloadedBefore(longer, i) + l)
  <2>1. CASE i = Len(heard) + 1
    BY <1>2, <1>3, <1>5, <2>1 DEF Telling, event
  <2>2. CASE i # Len(heard) + 1
    BY <1>2, <1>3, <1>5, <2>2 DEF Telling
  <2>3. QED BY <2>1, <2>2
<1>7. total + length = DownloadedBefore(longer, Len(longer) + 1)
  BY <1>2, <1>3 DEF DownloadedBefore, event, Updates!Progress
<1>8. QED BY <1>4, <1>6, <1>7 DEF Telling, longer, event

LEMMA TellingEnds ==
  ASSUME Updates!UpdateServiceAssumption,
         NEW heard \in Seq(Updates!Events), NEW total \in 0..MaxDownload,
         Telling(heard, total)
  PROVE  Updates!WellFormed(Append(heard, Updates!Finished(total)))
<1> DEFINE event == Updates!Finished(total)
           longer == Append(heard, event)
<1>1. event \in Updates!Events
  BY EventsAreTyped
<1>2. /\ longer \in Seq(Updates!Events) /\ Len(longer) = Len(heard) + 1
      /\ \A i \in 1..Len(heard) : longer[i] = heard[i]
      /\ longer[Len(heard) + 1] = event
  BY <1>1, AppendProperties
<1>3. Len(heard) \in Nat /\ Len(heard) >= 1
  BY EmptySeq, LenProperties DEF Telling
<1> HIDE DEF event, longer
<1>4. longer[1] = Updates!Started
  BY <1>2, <1>3 DEF Telling
<1>5. \A i \in 2..(Len(heard) + 1) :
        DownloadedBefore(longer, i) = DownloadedBefore(heard, i)
  BY <1>2, <1>3 DEF DownloadedBefore
<1>6. ASSUME NEW i \in 2..Len(longer)
      PROVE  \/ \E l \in ChunkLengths :
                   longer[i] = Updates!Progress(l, DownloadedBefore(longer, i) + l)
             \/ i = Len(longer)
                  /\ longer[i] = Updates!Finished(DownloadedBefore(longer, i))
  <2>1. CASE i = Len(heard) + 1
    BY <1>2, <1>3, <1>5, <2>1 DEF Telling, event
  <2>2. CASE i # Len(heard) + 1
    BY <1>2, <1>3, <1>5, <2>2 DEF Telling
  <2>3. QED BY <2>1, <2>2
<1>7. QED BY <1>4, <1>6 DEF Updates!WellFormed, DownloadedBefore, longer, event

LEMMA TellingIsWellFormed ==
  ASSUME NEW heard, NEW total, Telling(heard, total)
  PROVE  Updates!WellFormed(heard)
BY DEF Telling, Updates!WellFormed, DownloadedBefore

LEMMA SilenceIsWellFormed == Updates!WellFormed(<<>>)
BY DEF Updates!WellFormed

(* What an open channel has delivered when an event of its download is     *)
(* sent: it went on telling, and the event comes next.                     *)
LEMMA AnEventIsAppended ==
  ASSUME Updates!UpdateServiceAssumption, Updates!TypeOK, NEW c \in UpdateCallers,
         TellingSoFar(c),
         Updates!Doing(c, "downloading"), channelOpen[c],
           NEW event \in Updates!Events,
         Updates!Send(c, Updates!StartIfNew(c) \o <<event>>)
  PROVE  \E heard \in Seq(Updates!Events) :
           /\ Telling(heard, call[c].downloaded)
           /\ progress' = [progress EXCEPT ![c] = Append(heard, event)]
<1>1. progress[c] \in Seq(Updates!Events) /\ Updates!Started \in Updates!Events
  BY EventsAreTyped DEF Updates!TypeOK
<1>2. CASE call[c].started
  <2>1. Updates!StartIfNew(c) \o <<event>> = <<event>>
    BY <1>2 DEF Updates!StartIfNew
  <2>2. progress[c] \o <<event>> = Append(progress[c], event)
    BY <1>1, AppendIsConcat
  <2>3. Telling(progress[c], call[c].downloaded)
    BY <1>2 DEF TellingSoFar, Updates!Doing
  <2>4. QED BY <1>1, <2>1, <2>2, <2>3 DEF Updates!Send
<1>3. CASE ~call[c].started
  <2>1. progress[c] = <<>> /\ call[c].downloaded = 0
    BY <1>3 DEF TellingSoFar, Updates!Doing
  <2>2. <<Updates!Started>> \in Seq(Updates!Events)
          /\ <<event>> \in Seq(Updates!Events)
    BY <1>1
  <2> DEFINE both == <<Updates!Started>> \o <<event>>
  <2>3. both \in Seq(Updates!Events) /\ <<>> \o both = both
    BY <2>2, ConcatProperties, ConcatEmptySeq
  <2>4. both = Append(<<Updates!Started>>, event)
    BY <2>2, AppendIsConcat
  <2>5. Updates!StartIfNew(c) \o <<event>> = both
    BY <1>3 DEF Updates!StartIfNew
  <2>6. Telling(<<Updates!Started>>, call[c].downloaded)
    BY <2>1 DEF Telling, DownloadedBefore
  <2> HIDE DEF both
  <2>7. progress' = [progress EXCEPT ![c] = Append(<<Updates!Started>>, event)]
    BY <2>1, <2>3, <2>4, <2>5 DEF Updates!Send
  <2>8. QED BY <2>2, <2>6, <2>7
<1>4. QED BY <1>2, <1>3

LEMMA ProgressToldKept ==
  ASSUME Updates!UpdateServiceAssumption, Updates!TypeOK, ProgressTold,
         [Updates!Next]_Updates!vars
  PROVE  ProgressTold'
<1>0. /\ Updates!Idle.doing = "idle"
      /\ call \in [UpdateCallers -> CallRecords]
      /\ progress \in [UpdateCallers -> Seq(Updates!Events)]
      /\ channelOpen \in [UpdateCallers -> BOOLEAN]
  BY DEF Updates!Idle, Updates!TypeOK, CallRecords, CallerStates
<1>1. ASSUME NEW c \in UpdateCallers, UNCHANGED <<progress, channelOpen>>,
             NEW state, state.doing # "downloading", Updates!Become(c, state)
      PROVE  ProgressTold'
  BY <1>0, <1>1 DEF ProgressTold, TellingSoFar, Updates!Become
<1>2. ASSUME NEW c \in UpdateCallers,
             \/ Updates!Busy(c) \/ Updates!InstallNothing(c)
             \/ Updates!InstallFails(c) \/ Updates!Install(c)
             \/ Updates!Report(c)
             \/ \E error \in Updates!CheckErrors : Updates!CheckFails(c, error)
      PROVE  ProgressTold'
  <2>1. Updates!Become(c, Updates!Idle) /\ UNCHANGED <<progress, channelOpen>>
    BY <1>2
       DEF Updates!Busy, Updates!InstallNothing, Updates!InstallFails,
           Updates!Install, Updates!Report, Updates!CheckFails, Updates!Answer
  <2>2. QED BY <1>0, <1>1, <2>1
<1>3. ASSUME NEW c \in UpdateCallers, Updates!BeginCheck(c) \/ Updates!Retain(c)
      PROVE  ProgressTold'
  <2>1. /\ UNCHANGED <<progress, channelOpen>>
        /\ \E state : state.doing # "downloading" /\ Updates!Become(c, state)
    BY <1>3 DEF Updates!BeginCheck, Updates!Retain, Updates!Idle
  <2>2. QED BY <1>1, <2>1
<1>4. ASSUME NEW c \in UpdateCallers, Updates!BeginInstall(c) PROVE ProgressTold'
  <2>1. /\ progress' = [progress EXCEPT ![c] = <<>>]
        /\ channelOpen' = [channelOpen EXCEPT ![c] = TRUE]
        /\ \E state : /\ ~state.started /\ state.downloaded = 0
                      /\ call' = [call EXCEPT ![c] = state]
    BY <1>4
       DEF Updates!BeginInstall, Updates!Download, Updates!Become, Updates!Idle
  <2>2. QED BY <1>0, <2>1, SilenceIsWellFormed DEF ProgressTold, TellingSoFar
<1>5. ASSUME NEW c \in UpdateCallers, NEW length \in ChunkLengths,
             Updates!Chunk(c, length)
      PROVE  ProgressTold'
  <2> DEFINE total == call[c].downloaded
             event == Updates!Progress(length, total + length)
  <2>1. total \in 0..MaxDownload /\ total + length \in 0..MaxDownload
    BY <1>0, <1>5
       DEF Updates!Chunk, CallRecords, Updates!UpdateServiceAssumption
  <2>2. /\ channelOpen' = channelOpen /\ Updates!Doing(c, "downloading")
        /\ Updates!Send(c, Updates!StartIfNew(c) \o <<event>>)
    BY <1>5 DEF Updates!Chunk
  <2>3. /\ call'[c].doing = "downloading" /\ call'[c].started
        /\ call'[c].downloaded = total + length
        /\ \A d \in UpdateCallers : d # c => call'[d] = call[d]
    BY <1>0, <1>5 DEF Updates!Chunk, Updates!Become, CallRecords, Updates!Doing
  <2>4. CASE channelOpen[c]
    <3>1. event \in Updates!Events
      BY <2>1, EventsAreTyped
    <3>2. PICK heard \in Seq(Updates!Events) :
            /\ Telling(heard, total)
            /\ progress' = [progress EXCEPT ![c] = Append(heard, event)]
      BY <2>2, <2>4, <3>1, AnEventIsAppended DEF ProgressTold
    <3>3. Telling(Append(heard, event), total + length)
      BY <2>1, <3>2, TellingGoesOn
    <3>4. Updates!WellFormed(Append(heard, event))
      BY <3>3, TellingIsWellFormed
    <3>5. QED
      BY <1>0, <2>2, <2>3, <3>2, <3>3, <3>4 DEF ProgressTold, TellingSoFar
  <2>5. CASE ~channelOpen[c]
    <3>1. progress' = progress
      BY <2>2, <2>5 DEF Updates!Send
    <3>2. QED BY <2>2, <2>3, <2>5, <3>1 DEF ProgressTold, TellingSoFar
  <2>6. QED BY <2>4, <2>5
<1>6. ASSUME NEW c \in UpdateCallers, Updates!FinishDownload(c) PROVE ProgressTold'
  <2> DEFINE total == call[c].downloaded
  <2>1. total \in 0..MaxDownload
    BY <1>0 DEF CallRecords
  <2>2. /\ channelOpen' = channelOpen /\ Updates!Doing(c, "downloading")
        /\ Updates!Send(c, Updates!StartIfNew(c) \o <<Updates!Finished(total)>>)
    BY <1>6 DEF Updates!FinishDownload
  <2>3. /\ call'[c].doing = "verifying"
        /\ \A d \in UpdateCallers : d # c => call'[d] = call[d]
    BY <1>0, <1>6 DEF Updates!FinishDownload, Updates!Become, CallRecords
  <2>4. CASE channelOpen[c]
    <3>1. Updates!Finished(total) \in Updates!Events
      BY <2>1, EventsAreTyped
    <3>2. PICK heard \in Seq(Updates!Events) :
            /\ Telling(heard, total)
            /\ progress' = [progress EXCEPT ![c] =
                 Append(heard, Updates!Finished(total))]
      BY <2>2, <2>4, <3>1, AnEventIsAppended DEF ProgressTold
    <3>3. Updates!WellFormed(Append(heard, Updates!Finished(total)))
      BY <2>1, <3>2, TellingEnds
    <3>4. QED BY <1>0, <2>2, <2>3, <3>2, <3>3 DEF ProgressTold, TellingSoFar
  <2>5. CASE ~channelOpen[c]
    <3>1. progress' = progress
      BY <2>2, <2>5 DEF Updates!Send
    <3>2. QED BY <2>2, <2>3, <2>5, <3>1 DEF ProgressTold, TellingSoFar
  <2>6. QED BY <2>4, <2>5
<1>7. ASSUME NEW c \in UpdateCallers, Updates!LoseChannel(c) PROVE ProgressTold'
  BY <1>0, <1>7 DEF Updates!LoseChannel, ProgressTold, TellingSoFar
<1>8. CASE Updates!Restart
  BY <1>0, <1>8, SilenceIsWellFormed
     DEF Updates!Restart, ProgressTold, TellingSoFar
<1>9. CASE Updates!Publish \/ UNCHANGED Updates!vars
  BY <1>9
     DEF Updates!Publish, Updates!callerVars, Updates!vars, ProgressTold,
         TellingSoFar
<1>10. QED
  BY <1>2, <1>3, <1>4, <1>5, <1>6, <1>7, <1>8, <1>9
     DEF Updates!Next, Updates!Check, Updates!Installation

-----------------------------------------------------------------------------
LEMMA UpdatesInvariant ==
  ASSUME Updates!UpdateServiceAssumption
  PROVE  Updates!Spec => [](Updates!TypeOK /\ UpdatesInv)
<1>1. Updates!Init => Updates!TypeOK
  <2>1. Updates!NoUpdate \in Updates!Versions /\ 1 \in Updates!Versions
          /\ <<>> \in Seq(Updates!Events)
    BY EmptySeq
       DEF Updates!NoUpdate, Updates!Versions, Updates!UpdateServiceAssumption
  <2>2. Updates!Idle \in CallRecords
    BY <2>1
       DEF Updates!Idle, CallRecords, CallerStates,
           Updates!UpdateServiceAssumption
  <2>3. QED
    BY <2>1, <2>2
       DEF Updates!Init, Updates!TypeOK, CallRecords, CallerStates,
           Updates!NoUpdate
<1>2. Updates!Init => UpdatesInv
  <2>1. Updates!Idle.doing = "idle" /\ Unlocked \notin UpdateCallers
    BY DEF Updates!Idle, Updates!UpdateServiceAssumption
  <2>2. QED
    BY <2>1, SilenceIsWellFormed
       DEF Updates!Init, UpdatesInv, OneAtATime, PendingFits, Reporting,
           ProgressTold, TellingSoFar
<1>3. Updates!TypeOK /\ UpdatesInv /\ [Updates!Next]_Updates!vars
        => (Updates!TypeOK /\ UpdatesInv)'
  BY StepsAreTyped, OneAtATimeKept, PendingFitsKept, ProgressToldKept
     DEF UpdatesInv
<1>4. QED BY <1>1, <1>2, <1>3, PTL DEF Updates!Spec

LEMMA InstallsHold ==
  ASSUME Updates!UpdateServiceAssumption
  PROVE  Updates!Spec => Updates!InstallsWhatWasReported
<1>1. ASSUME Updates!TypeOK, UpdatesInv, Updates!Next
      PROVE  /\ \A c \in UpdateCallers :
                   outcome'[c] = "installed" /\ outcome[c] # "installed"
                     => /\ onDisk' = reported /\ reported = announced
                        /\ reported # Updates!NoUpdate
             /\ operation = Unlocked /\ pendingUpdate # reported
                  => pendingUpdate = Updates!NoUpdate /\ onDisk = reported
             /\ \A c \in UpdateCallers : Updates!WellFormed(progress[c])
  <2>1. ASSUME NEW c \in UpdateCallers,
               outcome'[c] = "installed", outcome[c] # "installed"
        PROVE  /\ onDisk' = reported /\ reported = announced
               /\ reported # Updates!NoUpdate
    <3>1. Updates!Install(c)
      BY <1>1, <2>1, ZenonT(30)
         DEF Updates!Next, Updates!Check, Updates!Installation, Updates!Busy,
             Updates!BeginCheck, Updates!Retain, Updates!Report,
             Updates!CheckFails, Updates!CheckErrors, Updates!InstallNothing,
             Updates!BeginInstall, Updates!Download, Updates!Chunk,
             Updates!FinishDownload, Updates!InstallFails, Updates!Install,
             Updates!LoseChannel, Updates!Publish, Updates!Restart,
             Updates!Answer, Updates!TypeOK, Updates!callerVars
    <3>2. ~Reporting
      BY <1>1, <3>1
         DEF UpdatesInv, OneAtATime, Reporting, Updates!Install, Updates!Doing
    <3>3. QED
      BY <1>1, <3>1, <3>2
         DEF UpdatesInv, PendingFits, Updates!Install, Updates!Doing
  <2>2. ASSUME operation = Unlocked, pendingUpdate # reported
        PROVE  pendingUpdate = Updates!NoUpdate /\ onDisk = reported
    <3>1. ~Reporting
      BY <1>1, <2>2
         DEF UpdatesInv, OneAtATime, Reporting, Updates!UpdateServiceAssumption
    <3>2. QED BY <1>1, <2>2, <3>1 DEF UpdatesInv, PendingFits
  <2>3. QED BY <1>1, <2>1, <2>2 DEF UpdatesInv, ProgressTold
<1>2. Updates!TypeOK /\ UpdatesInv /\ [Updates!Next]_Updates!vars =>
        [/\ \A c \in UpdateCallers :
              outcome'[c] = "installed" /\ outcome[c] # "installed"
                => onDisk' = reported /\ reported = announced
                  /\ reported # Updates!NoUpdate
         /\ operation = Unlocked /\ pendingUpdate # reported
              => pendingUpdate = Updates!NoUpdate /\ onDisk = reported
         /\ \A c \in UpdateCallers : Updates!WellFormed(progress[c])]_Updates!vars
  BY <1>1
<1>3. QED
  BY <1>2, UpdatesInvariant, PTL
     DEF Updates!Spec, Updates!InstallsWhatWasReported

-----------------------------------------------------------------------------
(* ImageService.                                                           *)

(* The cardinality that a service's module means is the one the theorems   *)
(* about finite sets mean.                                                 *)
LEMMA ImagesCardinality ==
  /\ \A S : Images!IsFiniteSet(S) <=> IsFiniteSet(S)
  /\ \A S : Images!Cardinality(S) = Cardinality(S)
BY DEF Images!IsFiniteSet, Images!Cardinality, IsFiniteSet, Cardinality

BatchSteps == {"idle", "refused", "next", "read", "create", "write", "remove",
          "done", "gone"}
AtRest == {"idle", "refused", "gone"}
OnAnItem == {"read", "create", "write", "remove"}

ToldEvents == [index : Nat, original : Images!Lengths, compressed : Images!Lengths,
           status : {"processing", "completed", "skipped", "failed"}]

BatchStates == [step : BatchSteps, request : Requests \cup {Images!NoRequest},
                index : Nat, source : Images!Lengths, output : Images!Lengths]
Tallies == [total : Nat, succeeded : Nat, skipped : Nat, failed : Nat,
            original : Nat, compressed : Nat]
Contents == [length : Images!Lengths, whole : BOOLEAN]

ImagesTyped ==
  /\ files \in [Paths -> Contents] /\ batch \in [Batches -> BatchStates]
  /\ tally \in [Batches -> Tallies] /\ told \in [Batches -> Seq(ToldEvents)]
  /\ writeFaults \in 0..MaxWriteFaults

(* A batch that has a request works through its items, and has told of     *)
(* each item twice but of the one it is on only once.                      *)
ItemsFit(b) ==
  IF batch[b].step \in AtRest
  THEN batch[b].index = 0 /\ tally[b] = Images!NoTally /\ told[b] = <<>>
  ELSE /\ batch[b].request \in Requests /\ Images!Valid(batch[b].request)
       /\ tally[b].total = Len(batch[b].request.items)
       /\ batch[b].index \in 0..tally[b].total
       /\ batch[b].step = "done" => batch[b].index = tally[b].total
       /\ IF batch[b].step \in OnAnItem
          THEN batch[b].index > 0 /\ Len(told[b]) = 2 * batch[b].index - 1
          ELSE Len(told[b]) = 2 * batch[b].index

ToldInOrder(b) ==
  \A i \in DOMAIN told[b] :
    /\ told[b][i].index = (i + 1) \div 2
    /\ told[b][i].status = "processing" <=> i % 2 = 1

CountsFit(b) ==
  /\ tally[b].succeeded = Images!Cardinality(Images!Told(b, {"completed"}))
  /\ tally[b].skipped = Images!Cardinality(Images!Told(b, {"skipped"}))
  /\ tally[b].failed = Images!Cardinality(Images!Told(b, {"failed"}))
  /\ tally[b].original = Images!Total(told[b], "original")
  /\ tally[b].compressed = Images!Total(told[b], "compressed")

(* A batch between its create_new and the end of its write has the file it *)
(* has created for itself, and writes no more than it has read.            *)
Writing(b) == batch[b].step \in {"write", "remove"}
OutputsFit ==
  \A b \in Batches :
    /\ batch[b].step \in {"create", "write", "remove"}
         => batch[b].output <= batch[b].source
    /\ Writing(b) => Images!Output(b) \in Paths
         /\ files[Images!Output(b)] = Images!Piece
    /\ \A c \in Batches :
         b # c /\ Writing(b) /\ Writing(c) => Images!Output(b) # Images!Output(c)

WrittenIsThere(b) ==
  \A i \in Images!Told(b, {"completed", "skipped"}) :
    /\ Images!Place(b, i) \in Paths
    /\ files[Images!Place(b, i)] = Images!File(told[b][i].compressed)
    /\ told[b][i].compressed <= told[b][i].original
    /\ \A j \in Images!Told(b, {"completed", "skipped"}) :
         i # j => Images!Place(b, i) # Images!Place(b, j)

ImagesInv ==
  /\ OutputsFit
  /\ \A b \in Batches :
       ItemsFit(b) /\ ToldInOrder(b) /\ CountsFit(b) /\ WrittenIsThere(b)

(* The numbers that Total adds up.                                         *)
Values(events, field) == [i \in DOMAIN events |-> events[i][field]]

LEMMA TotalIsASum ==
  ASSUME NEW S, NEW events \in Seq(S), NEW field
  PROVE  \E f : /\ Sums(Values(events, field), f, Len(events))
                /\ Images!Total(events, field) = f[Len(events)]
<1> DEFINE m == Len(events)
           Adds(f) == f = [n \in 0..m |-> IF n = 0 THEN 0
                                          ELSE f[n - 1] + events[n][field]]
           f == CHOOSE f : Adds(f)
<1>1. m \in Nat /\ DOMAIN events = 1..m
  BY LenProperties
<1>2. ASSUME NEW g PROVE Adds(g) <=> Sums(Values(events, field), g, m)
  <2>1. \A n \in 0..m : n # 0 => Values(events, field)[n] = events[n][field]
    BY <1>1 DEF Values
  <2> HIDE DEF m
  <2>2. [n \in 0..m |-> IF n = 0 THEN 0 ELSE g[n - 1] + events[n][field]]
          = [n \in 0..m |->
               IF n = 0 THEN 0 ELSE g[n - 1] + Values(events, field)[n]]
    BY <2>1
  <2>3. QED BY <2>2 DEF Sums
<1>3. \E g : Adds(g)
  BY <1>1, <1>2, SumsExist
<1>4. Adds(f)
  <2> HIDE DEF Adds
  <2>1. QED BY <1>3
<1>5. Images!Total(events, field) = f[m]
  BY DEF Images!Total
<1>6. QED
  <2> HIDE DEF f, Adds
  <2>1. QED BY <1>2, <1>4, <1>5

LEMMA TotalOfOneMore ==
  ASSUME NEW S, NEW events \in Seq(S), NEW e \in S, NEW field
  PROVE  Images!Total(Append(events, e), field)
           = Images!Total(events, field) + e[field]
<1> DEFINE longer == Append(events, e)
           m == Len(events)
<1>1. /\ longer \in Seq(S) /\ Len(longer) = m + 1
      /\ \A i \in 1..m : longer[i] = events[i]
      /\ longer[m + 1] = e
      /\ DOMAIN events = 1..m /\ DOMAIN longer = 1..(m + 1)
      /\ m \in Nat
  BY AppendProperties, LenProperties
<1>2. PICK f : /\ Sums(Values(events, field), f, m)
               /\ Images!Total(events, field) = f[m]
  BY TotalIsASum
<1> HIDE DEF longer, m
<1>3. PICK g : /\ Sums(Values(longer, field), g, m + 1)
               /\ Images!Total(longer, field) = g[m + 1]
  BY <1>1, TotalIsASum
<1>4. /\ Continues(Values(longer, field), Values(events, field), m)
      /\ Values(longer, field)[m + 1] = e[field]
  BY <1>1 DEF Values, Continues
<1>5. g[m + 1] = f[m] + Values(longer, field)[m + 1]
  BY <1>1, <1>2, <1>3, <1>4, SumsOfOneMore
<1>6. QED BY <1>2, <1>3, <1>4, <1>5 DEF longer

LEMMA TotalOfNothing ==
  ASSUME NEW field PROVE Images!Total(<<>>, field) = 0
<1>1. <<>> \in Seq({})  /\ Len(<<>>) = 0
  BY EmptySeq
<1>2. PICK f : Sums(Values(<<>>, field), f, 0) /\ Images!Total(<<>>, field) = f[0]
  BY <1>1, TotalIsASum
<1>3. QED BY <1>2 DEF Sums

ToldIn(events, statuses) == {i \in DOMAIN events : events[i].status \in statuses}

LEMMA CountOfOneMore ==
  ASSUME NEW S, NEW events \in Seq(S), NEW e \in S, NEW statuses
  PROVE  Images!Cardinality(ToldIn(Append(events, e), statuses)) =
           Images!Cardinality(ToldIn(events, statuses))
             + (IF e.status \in statuses THEN 1 ELSE 0)
<1> DEFINE longer == Append(events, e)
           before == ToldIn(events, statuses)
<1>1. /\ DOMAIN longer = 1..(Len(events) + 1) /\ DOMAIN events = 1..Len(events)
      /\ \A i \in 1..Len(events) : longer[i] = events[i]
      /\ longer[Len(events) + 1] = e /\ Len(events) \in Nat
  BY AppendProperties, LenProperties
<1>2. Images!IsFiniteSet(before)
  <2>1. Images!IsFiniteSet(1..Len(events))
    BY <1>1, ImagesCardinality, FS_Interval
  <2>2. QED BY <1>1, <2>1, ImagesCardinality, FS_Subset DEF ToldIn
<1>3. Len(events) + 1 \notin before
  BY <1>1 DEF ToldIn
<1> HIDE DEF longer
<1>4. CASE e.status \in statuses
  <2>1. ToldIn(longer, statuses) = before \cup {Len(events) + 1}
    BY <1>1, <1>4 DEF ToldIn
  <2>2. QED
    BY <1>2, <1>3, <1>4, <2>1, ImagesCardinality, FS_AddElement DEF longer
<1>5. CASE e.status \notin statuses
  <2>1. ToldIn(longer, statuses) = before
    BY <1>1, <1>5 DEF ToldIn
  <2>2. Images!Cardinality(before) \in Nat
    BY <1>2, ImagesCardinality, FS_CardinalityType
  <2>3. QED BY <1>5, <2>1, <2>2 DEF longer
<1>6. QED BY <1>4, <1>5

LEMMA ImageConstants ==
  ASSUME Images!ImageServiceAssumption
  PROVE  /\ MaxLength \in Nat /\ MaxLength >= 1 /\ MaxWriteFaults \in Nat
         /\ Images!NoFile \in Contents /\ Images!Piece \in Contents
         /\ Images!NoTally \in Tallies
         /\ \A length \in Images!Lengths : Images!File(length) \in Contents
         /\ \A s \in BatchSteps : Images!Resting(s) \in BatchStates
         /\ Images!NoFile # Images!Piece
         /\ \A length :
              Images!File(length) # Images!Piece
                /\ Images!File(length) # Images!NoFile
BY DEF Images!ImageServiceAssumption, Images!NoFile, Images!Piece, Contents,
       Images!Lengths, Images!NoTally, Tallies, Images!File, Images!Resting,
       BatchStates

LEMMA NoEventsYet ==
  /\ <<>> \in Seq(ToldEvents) /\ Len(<<>>) = 0 /\ DOMAIN <<>> = {}
  /\ \A field : Images!Total(<<>>, field) = 0
BY EmptySeq, TotalOfNothing

(* The item a batch is on, its place included, is a path.                  *)
LEMMA ItemsArePaths ==
  ASSUME Images!ImageServiceAssumption, NEW request \in Requests,
         Images!Valid(request),
         NEW i \in 1..Len(request.items)
  PROVE  request.items[i] \in Paths /\ Images!OutputOf(request, i) \in Paths
<1>1. request.items[i] \in Images!Range(request.items)
  <2>1. DOMAIN request.items = 1..Len(request.items)
    BY DEF Images!ImageServiceAssumption
  <2>2. QED BY <2>1 DEF Images!Range
<1>2. request.items[i] \in Paths /\ request.dir \in {path.dir : path \in Paths}
  BY <1>1 DEF Images!Valid
<1>3. QED BY <1>2 DEF Images!ImageServiceAssumption, Images!OutputOf

LEMMA ItemIsAPath ==
  ASSUME Images!ImageServiceAssumption, ImagesTyped, NEW b \in Batches, ItemsFit(b),
         batch[b].step \in OnAnItem
  PROVE  Images!Item(b) \in Paths /\ Images!Output(b) \in Paths
<1>1. /\ batch[b].request \in Requests /\ Images!Valid(batch[b].request)
      /\ batch[b].index \in 1..Len(batch[b].request.items)
  BY DEF ItemsFit, OnAnItem, AtRest, ImagesTyped, BatchStates
<1>2. QED BY <1>1, ItemsArePaths DEF Images!Item, Images!Output

-----------------------------------------------------------------------------
(* What a step does to the batch of others: nothing but to the file it     *)
(* writes.                                                                 *)
Alone(b) ==
  \A c \in Batches : c # b => /\ batch'[c] = batch[c] /\ tally'[c] = tally[c]
                              /\ told'[c] = told[c]

LEMMA OthersFit ==
  ASSUME NEW c \in Batches,
         batch'[c] = batch[c], tally'[c] = tally[c], told'[c] = told[c],
         ItemsFit(c) /\ ToldInOrder(c) /\ CountsFit(c)
  PROVE  ItemsFit(c)' /\ ToldInOrder(c)' /\ CountsFit(c)'
<1>1. ItemsFit(c)'
  BY DEF ItemsFit
<1>2. ToldInOrder(c)'
  BY DEF ToldInOrder
<1>3. CountsFit(c)'
  <2>1. \A statuses : Images!Told(c, statuses)' = Images!Told(c, statuses)
    BY DEF Images!Told
  <2>2. QED BY <2>1 DEF CountsFit
<1>4. QED BY <1>1, <1>2, <1>3

(* Whatever is written is no file that an item has been completed with.    *)
LEMMA WrittenStays ==
  ASSUME NEW c \in Batches, WrittenIsThere(c),
         batch'[c].request = batch[c].request, told'[c] = told[c],
         \A path \in Paths : files[path].whole => files'[path] = files[path]
  PROVE  WrittenIsThere(c)'
<1>1. /\ \A statuses : Images!Told(c, statuses)' = Images!Told(c, statuses)
      /\ \A i : Images!Place(c, i)' = Images!Place(c, i)
  BY DEF Images!Told, Images!Place
<1>2. \A length : Images!File(length).whole
  BY DEF Images!File
<1>3. QED BY <1>1, <1>2 DEF WrittenIsThere

(* One event more.                                                         *)
LEMMA OneMoreTold ==
  ASSUME NEW b \in Batches, told[b] \in Seq(ToldEvents), NEW e \in ToldEvents,
         told'[b] = Append(told[b], e)
  PROVE  /\ told'[b] \in Seq(ToldEvents) /\ Len(told'[b]) = Len(told[b]) + 1
         /\ Len(told[b]) \in Nat
         /\ DOMAIN told[b] = 1..Len(told[b])
         /\ DOMAIN told'[b] = 1..(Len(told[b]) + 1)
         /\ \A i \in 1..Len(told[b]) : told'[b][i] = told[b][i]
         /\ told'[b][Len(told[b]) + 1] = e
         /\ \A field :
              Images!Total(told'[b], field)
                = Images!Total(told[b], field) + e[field]
         /\ \A statuses : Images!Cardinality(Images!Told(b, statuses)') =
              Images!Cardinality(Images!Told(b, statuses))
                + (IF e.status \in statuses THEN 1 ELSE 0)
<1>1. \A statuses : /\ Images!Told(b, statuses) = ToldIn(told[b], statuses)
                    /\ Images!Told(b, statuses)' = ToldIn(told'[b], statuses)
  BY DEF Images!Told, ToldIn
<1>2. \A statuses : Images!Cardinality(ToldIn(told'[b], statuses)) =
         Images!Cardinality(ToldIn(told[b], statuses))
           + (IF e.status \in statuses THEN 1 ELSE 0)
  BY CountOfOneMore
<1>3. \A field :
        Images!Total(told'[b], field) = Images!Total(told[b], field) + e[field]
  BY TotalOfOneMore
<1>4. QED BY <1>1, <1>2, <1>3, AppendProperties, LenProperties

(* Records stay records of their kind when fields of them are set.         *)
LEMMA FieldsAreSet ==
  /\ \A t \in Tallies, n \in Nat :
       [t EXCEPT !.total = n] \in Tallies /\ [t EXCEPT !.failed = n] \in Tallies
  /\ \A t \in Tallies, i, j, m, n \in Nat :
       [t EXCEPT !.succeeded = i, !.skipped = j, !.original = m, !.compressed = n]
         \in Tallies
  /\ \A s \in BatchStates, step \in BatchSteps, index \in Nat, source,
       output \in Images!Lengths :
       /\ [s EXCEPT !.step = step] \in BatchStates
       /\ [s EXCEPT !.index = index, !.step = step] \in BatchStates
       /\ [s EXCEPT !.step = step, !.source = source, !.output = output]
            \in BatchStates
<1>1. \A t \in Tallies, n \in Nat :
        [t EXCEPT !.total = n] \in Tallies /\ [t EXCEPT !.failed = n] \in Tallies
  BY DEF Tallies
<1>2. ASSUME NEW t \in Tallies, NEW i \in Nat, NEW j \in Nat, NEW m \in Nat,
             NEW n \in Nat
      PROVE  [t EXCEPT !.succeeded = i, !.skipped = j, !.original = m,
                       !.compressed = n] \in Tallies
  BY DEF Tallies
<1>3. ASSUME NEW s \in BatchStates, NEW step \in BatchSteps, NEW index \in Nat,
             NEW source \in Images!Lengths, NEW output \in Images!Lengths
      PROVE  /\ [s EXCEPT !.step = step] \in BatchStates
             /\ [s EXCEPT !.index = index, !.step = step] \in BatchStates
             /\ [s EXCEPT !.step = step, !.source = source, !.output = output]
                  \in BatchStates
  <2>1. [s EXCEPT !.step = step] \in BatchStates
    BY DEF BatchStates
  <2>2. [s EXCEPT !.index = index, !.step = step] \in BatchStates
    BY DEF BatchStates
  <2>3. [s EXCEPT !.step = step, !.source = source, !.output = output]
          \in BatchStates
    BY DEF BatchStates
  <2>4. QED BY <2>1, <2>2, <2>3
<1>4. QED BY <1>1, <1>2, <1>3

LEMMA ImageStepsAreTyped ==
  ASSUME Images!ImageServiceAssumption, ImagesTyped, [Images!Next]_Images!vars,
         \A b \in Batches : ItemsFit(b)
  PROVE  ImagesTyped'
<1> USE DEF ImagesTyped
<1>0. /\ files \in [Paths -> Contents] /\ batch \in [Batches -> BatchStates]
      /\ tally \in [Batches -> Tallies] /\ told \in [Batches -> Seq(ToldEvents)]
      /\ writeFaults \in 0..MaxWriteFaults
  OBVIOUS
<1>2. ASSUME NEW b \in Batches, NEW step \in BatchSteps, Images!Step(b, step)
      PROVE  batch' \in [Batches -> BatchStates]
  BY <1>0, <1>2 DEF Images!Step, BatchStates
<1>3. ASSUME NEW b \in Batches, NEW index \in Nat, NEW original \in Images!Lengths,
             NEW compressed \in Images!Lengths,
             NEW status \in {"processing", "completed", "skipped", "failed"},
             Images!Tell(b, index, status, original, compressed)
      PROVE  told' \in [Batches -> Seq(ToldEvents)]
  <2>1. Images!Event(index, status, original, compressed) \in ToldEvents
    BY DEF Images!Event, ToldEvents
  <2>2. Append(told[b], Images!Event(index, status, original, compressed))
          \in Seq(ToldEvents)
    BY <1>0, <2>1, AppendProperties
  <2>3. QED BY <1>0, <1>3, <2>2 DEF Images!Tell
<1>4. 0 \in Images!Lengths
  BY ImageConstants DEF Images!Lengths
<1>5. ASSUME NEW b \in Batches, Images!ItemFails(b)
      PROVE  /\ batch' \in [Batches -> BatchStates]
             /\ tally' \in [Batches -> Tallies]
             /\ told' \in [Batches -> Seq(ToldEvents)]
  <2>1. batch' \in [Batches -> BatchStates]
    BY <1>2, <1>5 DEF Images!ItemFails, BatchSteps
  <2>2. tally' = [tally EXCEPT ![b] =
          [tally[b] EXCEPT !.failed = tally[b].failed + 1]]
    BY <1>0, <1>5 DEF Images!ItemFails
  <2>3. tally' \in [Batches -> Tallies]
    <3>1. tally[b] \in Tallies /\ tally[b].failed + 1 \in Nat
      BY <1>0 DEF Tallies
    <3>2. [tally[b] EXCEPT !.failed = tally[b].failed + 1] \in Tallies
      BY <3>1, FieldsAreSet
    <3>3. QED BY <1>0, <2>2, <3>2
  <2>4. told' \in [Batches -> Seq(ToldEvents)]
    BY <1>0, <1>3, <1>4, <1>5 DEF Images!ItemFails, BatchStates
  <2>5. QED BY <2>1, <2>3, <2>4
<1>6. ASSUME NEW b \in Batches, NEW request \in Requests, Images!Begin(b, request)
      PROVE  ImagesTyped'
  <2>1. CASE Images!Valid(request)
    <3>1. Len(request.items) \in Nat
      BY LenProperties DEF Images!ImageServiceAssumption
    <3>2. tally' \in [Batches -> Tallies]
      <4>1. tally' = [tally EXCEPT ![b] =
              [tally[b] EXCEPT !.total = Len(request.items)]]
        BY <1>0, <1>6, <2>1 DEF Images!Begin
      <4>2. QED BY <1>0, <3>1, <4>1, FieldsAreSet
    <3>3. [Images!Resting("next") EXCEPT !.request = request] \in BatchStates
      BY ImageConstants DEF BatchStates, BatchSteps
    <3>4. batch' \in [Batches -> BatchStates]
      BY <1>0, <1>6, <2>1, <3>3 DEF Images!Begin
    <3>5. QED BY <1>0, <1>6, <3>2, <3>4 DEF Images!Begin
  <2>2. CASE ~Images!Valid(request)
    <3>1. batch' \in [Batches -> BatchStates]
      BY <1>2, <1>6, <2>2 DEF Images!Begin, BatchSteps
    <3>2. QED BY <1>0, <1>6, <2>2, <3>1 DEF Images!Begin
  <2>3. QED BY <2>1, <2>2
<1>7. ASSUME NEW b \in Batches, Images!NextItem(b) PROVE ImagesTyped'
  <2>1. batch' \in [Batches -> BatchStates]
    <3>1. batch' = [batch EXCEPT ![b] =
                      [batch[b] EXCEPT !.index = batch[b].index + 1,
                        !.step = "read"]]
      BY <1>0, <1>7 DEF Images!NextItem
    <3>2. /\ "read" \in BatchSteps /\ batch[b] \in BatchStates
          /\ batch[b].index + 1 \in Nat /\ batch[b].source \in Images!Lengths
      BY <1>0 DEF BatchSteps, BatchStates
    <3>3. [batch[b] EXCEPT !.index = batch[b].index + 1, !.step = "read"]
            \in BatchStates
      BY <3>2, FieldsAreSet
    <3>4. QED BY <1>0, <3>1, <3>3
  <2>2. batch[b].index + 1 \in Nat
    BY <1>0 DEF BatchStates
  <2>3. told' \in [Batches -> Seq(ToldEvents)]
    BY <1>3, <1>4, <1>7, <2>2 DEF Images!NextItem
  <2>4. QED BY <1>0, <1>7, <2>1, <2>3 DEF Images!NextItem
<1>8. ASSUME NEW b \in Batches, Images!Done(b) \/ Images!WriteFails(b)
      PROVE  ImagesTyped'
  <2>1. batch' \in [Batches -> BatchStates]
    BY <1>2, <1>8 DEF Images!Done, Images!WriteFails, BatchSteps
  <2>2. writeFaults' \in 0..MaxWriteFaults
    BY <1>0, <1>8, ImageConstants DEF Images!Done, Images!WriteFails
  <2>3. QED BY <1>0, <1>8, <2>1, <2>2 DEF Images!Done, Images!WriteFails
<1>9. ASSUME NEW b \in Batches, Images!ProcessFails(b) \/ Images!CreateFails(b)
      PROVE  ImagesTyped'
  <2>1. Images!ItemFails(b) /\ UNCHANGED <<files, writeFaults>>
    BY <1>9 DEF Images!ProcessFails, Images!CreateFails
  <2>2. QED BY <1>0, <1>5, <2>1
<1>10. ASSUME NEW b \in Batches, NEW length \in 1..MaxLength,
              Images!Compress(b, length)
       PROVE  ImagesTyped'
  <2> DEFINE source == files[Images!Item(b)].length
             output == IF length < source THEN length ELSE source
  <2>1. Images!Item(b) \in Paths
    BY <1>10, ItemIsAPath DEF Images!Compress, Images!At, OnAnItem
  <2>2. source \in Images!Lengths /\ output \in Images!Lengths
    BY <1>0, <2>1, ImageConstants DEF Contents, Images!Lengths
  <2>3. batch' = [batch EXCEPT ![b] = [batch[b] EXCEPT
                    !.step = "create", !.source = source, !.output = output]]
    BY <1>0, <1>10 DEF Images!Compress
  <2>4. "create" \in BatchSteps
    BY DEF BatchSteps
  <2> HIDE DEF source, output
  <2>5. batch' \in [Batches -> BatchStates]
    BY <1>0, <2>2, <2>3, <2>4, FieldsAreSet
  <2>6. QED BY <1>0, <1>10, <2>5 DEF Images!Compress
<1>11. ASSUME NEW b \in Batches, Images!Create(b) PROVE ImagesTyped'
  <2>1. batch' \in [Batches -> BatchStates]
    BY <1>2, <1>11 DEF Images!Create, BatchSteps
  <2>2. files' \in [Paths -> Contents]
    BY <1>0, <1>11, ImageConstants DEF Images!Create
  <2>3. QED BY <1>0, <1>11, <2>1, <2>2 DEF Images!Create
<1>12. ASSUME NEW b \in Batches, Images!Write(b) PROVE ImagesTyped'
  <2> DEFINE status == IF batch[b].output < batch[b].source THEN "completed"
                         ELSE "skipped"
  <2>1. batch[b].output \in Images!Lengths /\ batch[b].source \in Images!Lengths
          /\ batch[b].index \in Nat
    BY <1>0 DEF BatchStates
  <2>2. batch' \in [Batches -> BatchStates]
    BY <1>2, <1>12 DEF Images!Write, BatchSteps
  <2>3. files' \in [Paths -> Contents]
    BY <1>0, <1>12, <2>1, ImageConstants DEF Images!Write
  <2>4. tally' \in [Batches -> Tallies]
    <3>1. batch[b].output \in Nat /\ batch[b].source \in Nat
      BY <2>1, ImageConstants DEF Images!Lengths
    <3>2. PICK i \in {0, 1}, j \in {0, 1} :
            tally' = [tally EXCEPT ![b] = [tally[b] EXCEPT
              !.succeeded = tally[b].succeeded + i, !.skipped
                = tally[b].skipped + j,
              !.original = tally[b].original + batch[b].source,
              !.compressed = tally[b].compressed + batch[b].output]]
      BY <1>0, <1>12 DEF Images!Write
    <3>3. /\ tally[b] \in Tallies
          /\ tally[b].succeeded + i \in Nat /\ tally[b].skipped + j \in Nat
          /\ tally[b].original + batch[b].source \in Nat
          /\ tally[b].compressed + batch[b].output \in Nat
      <4>1. /\ tally[b] \in Tallies
            /\ tally[b].succeeded \in Nat /\ tally[b].skipped \in Nat
            /\ tally[b].original \in Nat /\ tally[b].compressed \in Nat
        BY <1>0 DEF Tallies
      <4>2. i \in Nat /\ j \in Nat
        OBVIOUS
      <4>3. \A m, n \in Nat : m + n \in Nat
        OBVIOUS
      <4>4. QED BY <3>1, <4>1, <4>2, <4>3
    <3>4. [tally[b] EXCEPT
              !.succeeded = tally[b].succeeded + i, !.skipped
                = tally[b].skipped + j,
              !.original = tally[b].original + batch[b].source,
              !.compressed = tally[b].compressed + batch[b].output] \in Tallies
      BY <3>3, FieldsAreSet
    <3>5. QED BY <1>0, <3>2, <3>4
  <2>5. Images!Tell(b, batch[b].index, status, batch[b].source, batch[b].output)
    BY <1>12 DEF Images!Write
  <2>6. told' \in [Batches -> Seq(ToldEvents)]
    BY <1>3, <2>1, <2>5
  <2>7. QED BY <1>0, <1>12, <2>2, <2>3, <2>4, <2>6 DEF Images!Write
<1>13. ASSUME NEW b \in Batches, Images!CleanUp(b) PROVE ImagesTyped'
  <2>1. files' \in [Paths -> Contents] /\ writeFaults' \in 0..MaxWriteFaults
    BY <1>0, <1>13, ImageConstants, SMTT(30) DEF Images!CleanUp
  <2>2. QED BY <1>5, <1>13, <2>1 DEF Images!CleanUp
<1>14. CASE Images!EndOfProcess
  BY <1>0, <1>14, ImageConstants, NoEventsYet
     DEF Images!EndOfProcess, BatchSteps
<1>15. CASE UNCHANGED Images!vars
  BY <1>0, <1>15 DEF Images!vars
<1>16. QED
  BY <1>6, <1>7, <1>8, <1>9, <1>10, <1>11, <1>12, <1>13, <1>14, <1>15
     DEF Images!Next, Images!Process, Images!Terminated

(* No step touches a whole file.                                           *)
LEMMA WholeFilesAreKept ==
  ASSUME Images!ImageServiceAssumption, ImagesTyped, OutputsFit,
         [Images!Next]_Images!vars
  PROVE  \A path \in Paths : files[path].whole => files'[path] = files[path]
<1>0. files \in [Paths -> Contents] /\ ~Images!NoFile.whole /\ ~Images!Piece.whole
  BY DEF ImagesTyped, Contents, Images!NoFile, Images!Piece
<1>1. ASSUME NEW b \in Batches, NEW content, ~files[Images!Output(b)].whole,
             files' = [files EXCEPT ![Images!Output(b)] = content]
      PROVE  \A path \in Paths : files[path].whole => files'[path] = files[path]
  BY <1>0, <1>1
<1>2. ASSUME NEW b \in Batches, Images!Create(b)
      PROVE  \A path \in Paths : files[path].whole => files'[path] = files[path]
  BY <1>0, <1>1, <1>2 DEF Images!Create
<1>3. ASSUME NEW b \in Batches, Images!Write(b) \/ Images!CleanUp(b)
      PROVE  \A path \in Paths : files[path].whole => files'[path] = files[path]
  <2>1. ~files[Images!Output(b)].whole
    BY <1>0, <1>3
       DEF OutputsFit, Writing, Images!Write, Images!CleanUp, Images!At
  <2>2. files' = files
          \/ \E content : files' = [files EXCEPT ![Images!Output(b)] = content]
    BY <1>3 DEF Images!Write, Images!CleanUp
  <2>3. QED BY <1>1, <2>1, <2>2
<1>4. CASE UNCHANGED files
  BY <1>4
<1>5. QED
  BY <1>2, <1>3, <1>4
     DEF Images!Next, Images!Process, Images!Begin, Images!NextItem,
         Images!Done, Images!ProcessFails, Images!Compress, Images!CreateFails,
         Images!WriteFails, Images!EndOfProcess, Images!Terminated, Images!vars

BatchFits(b) == ItemsFit(b) /\ ToldInOrder(b) /\ CountsFit(b)

(* One event more keeps the order.                                         *)
LEMMA InOrderWithOneMore ==
  ASSUME NEW b \in Batches, told[b] \in Seq(ToldEvents), ToldInOrder(b),
         NEW e \in ToldEvents,
         told'[b] = Append(told[b], e),
         NEW n \in Nat, n = Len(told[b]) + 1,
         e.index = (n + 1) \div 2, e.status = "processing" <=> n % 2 = 1
  PROVE  ToldInOrder(b)'
<1>1. /\ DOMAIN told[b] = 1..Len(told[b]) /\ DOMAIN told'[b] = 1..n
      /\ \A i \in 1..Len(told[b]) : told'[b][i] = told[b][i]
      /\ told'[b][n] = e /\ Len(told[b]) \in Nat
  BY OneMoreTold
<1>2. ASSUME NEW i \in 1..n
      PROVE  /\ told'[b][i].index = (i + 1) \div 2
             /\ told'[b][i].status = "processing" <=> i % 2 = 1
  <2>1. CASE i = n
    BY <1>1, <2>1
  <2>2. CASE i # n
    <3>1. i \in 1..Len(told[b])
      BY <1>1, <2>2
    <3>2. /\ told[b][i].index = (i + 1) \div 2
          /\ told[b][i].status = "processing" <=> i % 2 = 1
      BY <1>1, <3>1 DEF ToldInOrder
    <3>3. QED BY <1>1, <3>1, <3>2
  <2>3. QED BY <2>1, <2>2
<1>3. QED BY <1>1, <1>2 DEF ToldInOrder

(* An item ends with the event that its counts and totals are raised for.  *)
LEMMA AnItemEnds ==
  ASSUME Images!ImageServiceAssumption, ImagesTyped, NEW b \in Batches,
         BatchFits(b),
         batch[b].step \in OnAnItem, batch' = [batch EXCEPT ![b].step = "next"],
         NEW status \in {"completed", "skipped", "failed"},
         NEW original \in Images!Lengths, NEW compressed \in Images!Lengths,
         Images!Tell(b, batch[b].index, status, original, compressed),
         tally'[b].total = tally[b].total,
         tally'[b].succeeded
           = tally[b].succeeded + (IF status = "completed" THEN 1 ELSE 0),
         tally'[b].skipped
           = tally[b].skipped + (IF status = "skipped" THEN 1 ELSE 0),
         tally'[b].failed = tally[b].failed + (IF status = "failed" THEN 1 ELSE 0),
         tally'[b].original = tally[b].original + original,
         tally'[b].compressed = tally[b].compressed + compressed
  PROVE  BatchFits(b)'
<1> DEFINE e == Images!Event(batch[b].index, status, original, compressed)
<1>1. /\ batch[b] \in BatchStates /\ tally[b] \in Tallies
      /\ told[b] \in Seq(ToldEvents)
      /\ batch'[b].step = "next" /\ batch'[b].index = batch[b].index
      /\ batch'[b].request = batch[b].request
  BY DEF ImagesTyped, BatchStates
<1>2. /\ e \in ToldEvents /\ e.index = batch[b].index /\ e.status = status
      /\ e.original = original /\ e.compressed = compressed
  BY <1>1 DEF Images!Event, ToldEvents, BatchStates
<1>3. told'[b] = Append(told[b], e)
  BY DEF Images!Tell, ImagesTyped
<1> HIDE DEF e
<1>4. /\ Len(told'[b]) = Len(told[b]) + 1
      /\ DOMAIN told[b] = 1..Len(told[b])
      /\ DOMAIN told'[b] = 1..(Len(told[b]) + 1)
      /\ \A i \in 1..Len(told[b]) : told'[b][i] = told[b][i]
      /\ told'[b][Len(told[b]) + 1] = e
  BY <1>1, <1>2, <1>3, OneMoreTold
<1>5. /\ batch[b].index \in Nat /\ batch[b].index > 0
      /\ Len(told[b]) = 2 * batch[b].index - 1
      /\ batch[b].step \notin AtRest /\ batch[b].step # "done"
  BY <1>1 DEF BatchFits, ItemsFit, OnAnItem, AtRest, BatchStates
<1>6. ItemsFit(b)'
  BY <1>1, <1>4, <1>5 DEF BatchFits, ItemsFit, OnAnItem, AtRest
<1>7. ToldInOrder(b)'
  <2> DEFINE n == 2 * batch[b].index
  <2>1. (n + 1) \div 2 = batch[b].index /\ n % 2 = 0
    BY <1>5, SMTT(30)
  <2>2. n \in Nat /\ n = Len(told[b]) + 1
    BY <1>5
  <2>3. ToldInOrder(b)
    BY DEF BatchFits
  <2>4. e.status = "processing" <=> n % 2 = 1
    BY <1>2, <2>1
  <2>5. e.index = (n + 1) \div 2
    BY <1>2, <2>1
  <2> HIDE DEF n
  <2>6. QED BY <1>1, <1>2, <1>3, <2>2, <2>3, <2>4, <2>5, InOrderWithOneMore
<1>8. CountsFit(b)'
  <2>1. /\ \A field :
             Images!Total(told'[b], field) = Images!Total(told[b], field) + e[field]
        /\ \A statuses : Images!Cardinality(Images!Told(b, statuses)') =
             Images!Cardinality(Images!Told(b, statuses))
               + (IF e.status \in statuses THEN 1 ELSE 0)
    BY <1>1, <1>2, <1>3, OneMoreTold
  <2>2. /\ Images!Total(told'[b], "original")
             = Images!Total(told[b], "original") + original
        /\ Images!Total(told'[b], "compressed")
             = Images!Total(told[b], "compressed") + compressed
    BY <1>2, <2>1
  <2>3. \A s : Images!Cardinality(Images!Told(b, {s})') =
                 Images!Cardinality(Images!Told(b, {s}))
                   + (IF status = s THEN 1 ELSE 0)
    BY <1>2, <2>1
  <2>4. QED BY <2>2, <2>3 DEF BatchFits, CountsFit
<1>9. QED BY <1>6, <1>7, <1>8 DEF BatchFits

LEMMA AFailureFits ==
  ASSUME Images!ImageServiceAssumption, ImagesTyped, NEW b \in Batches,
         BatchFits(b),
         batch[b].step \in OnAnItem, Images!ItemFails(b)
  PROVE  BatchFits(b)'
<1>1. 0 \in Images!Lengths
  BY ImageConstants DEF Images!Lengths
<1>2. /\ tally[b] \in Tallies
      /\ tally' = [tally EXCEPT ![b] =
           [tally[b] EXCEPT !.failed = tally[b].failed + 1]]
  BY DEF ImagesTyped, Images!ItemFails
<1>3. /\ tally'[b].total = tally[b].total
      /\ tally'[b].succeeded = tally[b].succeeded + 0
      /\ tally'[b].skipped = tally[b].skipped + 0
      /\ tally'[b].failed = tally[b].failed + 1
      /\ tally'[b].original = tally[b].original + 0
      /\ tally'[b].compressed = tally[b].compressed + 0
  BY <1>2 DEF ImagesTyped, Tallies
<1>4. QED BY <1>1, <1>3, AnItemEnds DEF Images!ItemFails, Images!Step

(* A step from one place of an item to another.                            *)
LEMMA AStepFits ==
  ASSUME ImagesTyped, NEW b \in Batches, BatchFits(b),
         batch[b].step \in OnAnItem, batch'[b].step \in OnAnItem,
         batch'[b].request = batch[b].request, batch'[b].index = batch[b].index,
         tally' = tally, told' = told
  PROVE  BatchFits(b)'
<1>1. ItemsFit(b)'
  BY DEF BatchFits, ItemsFit, OnAnItem, AtRest
<1>2. ToldInOrder(b)'
  BY DEF BatchFits, ToldInOrder
<1>3. \A statuses : Images!Told(b, statuses)' = Images!Told(b, statuses)
  BY DEF Images!Told
<1>4. CountsFit(b)'
  BY <1>3 DEF BatchFits, CountsFit
<1>5. QED BY <1>1, <1>2, <1>4 DEF BatchFits

LEMMA NothingTold ==
  ASSUME NEW b \in Batches, told[b] = <<>>,
         /\ tally[b].succeeded = 0 /\ tally[b].skipped = 0 /\ tally[b].failed = 0
         /\ tally[b].original = 0 /\ tally[b].compressed = 0
  PROVE  ToldInOrder(b) /\ CountsFit(b) /\ WrittenIsThere(b)
<1>1. \A statuses : Images!Told(b, statuses) = {}
  BY NoEventsYet DEF Images!Told
<1>2. CountsFit(b)
  BY <1>1, NoEventsYet, ImagesCardinality, FS_EmptySet DEF CountsFit
<1>3. QED BY <1>1, <1>2, NoEventsYet DEF ToldInOrder, WrittenIsThere

LEMMA NothingToldYet ==
  ASSUME NEW b \in Batches, told'[b] = <<>>,
         /\ tally'[b].succeeded = 0 /\ tally'[b].skipped = 0 /\ tally'[b].failed = 0
         /\ tally'[b].original = 0 /\ tally'[b].compressed = 0
  PROVE  (ToldInOrder(b) /\ CountsFit(b) /\ WrittenIsThere(b))'
<1>1. \A statuses : Images!Told(b, statuses)' = {}
  BY NoEventsYet DEF Images!Told
<1>2. CountsFit(b)'
  BY <1>1, NoEventsYet, ImagesCardinality, FS_EmptySet DEF CountsFit
<1>3. QED BY <1>1, <1>2, NoEventsYet DEF ToldInOrder, WrittenIsThere

LEMMA BatchesFitKept ==
  ASSUME Images!ImageServiceAssumption, ImagesTyped, [Images!Next]_Images!vars,
         \A b \in Batches : BatchFits(b)
  PROVE  \A b \in Batches : BatchFits(b)'
<1> SUFFICES ASSUME NEW c \in Batches PROVE BatchFits(c)'
  OBVIOUS
<1>0. /\ batch \in [Batches -> BatchStates] /\ tally \in [Batches -> Tallies]
      /\ told \in [Batches -> Seq(ToldEvents)]
  BY DEF ImagesTyped
<1>1. CASE batch'[c] = batch[c] /\ tally'[c] = tally[c] /\ told'[c] = told[c]
  BY <1>1, OthersFit DEF BatchFits
<1>2. ASSUME NEW request \in Requests, Images!Begin(c, request) PROVE BatchFits(c)'
  <2>1. /\ batch[c].step = "idle" /\ tally[c] = Images!NoTally /\ told[c] = <<>>
        /\ told' = told
    BY <1>2 DEF Images!Begin, Images!At, BatchFits, ItemsFit, AtRest
  <2>2. CASE Images!Valid(request)
    <3>1. /\ batch'[c] = [Images!Resting("next") EXCEPT !.request = request]
          /\ tally'[c] = [Images!NoTally EXCEPT !.total = Len(request.items)]
      BY <1>0, <1>2, <2>1, <2>2 DEF Images!Begin
    <3>2. /\ batch'[c].step = "next" /\ batch'[c].request = request
          /\ batch'[c].index = 0 /\ tally'[c].total = Len(request.items)
          /\ tally'[c].succeeded = 0 /\ tally'[c].skipped = 0
          /\ tally'[c].failed = 0
          /\ tally'[c].original = 0 /\ tally'[c].compressed = 0
      BY <3>1 DEF Images!Resting, Images!NoTally
    <3>3. Len(request.items) \in Nat
      BY LenProperties DEF Images!ImageServiceAssumption
    <3>4. ItemsFit(c)'
      BY <2>1, <2>2, <3>2, <3>3, NoEventsYet
         DEF ItemsFit, AtRest, OnAnItem, Images!Valid
    <3>5. (ToldInOrder(c) /\ CountsFit(c))'
      BY <2>1, <3>2, NothingToldYet
    <3>6. QED BY <3>4, <3>5 DEF BatchFits
  <2>3. CASE ~Images!Valid(request)
    <3>1. /\ batch'[c].step = "refused" /\ batch'[c].index = batch[c].index
          /\ tally' = tally
      BY <1>0, <1>2, <2>3 DEF Images!Begin, Images!Step, BatchStates
    <3>2. ItemsFit(c)'
      BY <2>1, <3>1 DEF BatchFits, ItemsFit, AtRest
    <3>3. (ToldInOrder(c) /\ CountsFit(c))'
      BY <2>1, <3>1, NothingToldYet DEF Images!NoTally
    <3>4. QED BY <3>2, <3>3 DEF BatchFits
  <2>4. QED BY <2>2, <2>3
<1>3. CASE Images!NextItem(c)
  <2> DEFINE e == Images!Event(batch[c].index + 1, "processing", 0, 0)
  <2>1. /\ batch[c].step = "next" /\ batch[c].index \in Nat
        /\ batch[c].index < tally[c].total /\ Len(told[c]) = 2 * batch[c].index
        /\ batch'[c].step = "read" /\ batch'[c].index = batch[c].index + 1
        /\ batch'[c].request = batch[c].request /\ tally' = tally
    BY <1>0, <1>3
       DEF Images!NextItem, Images!At, BatchFits, ItemsFit, AtRest, OnAnItem,
           BatchStates
  <2>2. 0 \in Images!Lengths
    BY ImageConstants DEF Images!Lengths
  <2>3. /\ e \in ToldEvents /\ e.index = batch[c].index + 1
        /\ e.status = "processing"
        /\ e.original = 0 /\ e.compressed = 0
    BY <2>1, <2>2 DEF Images!Event, ToldEvents
  <2>4. told'[c] = Append(told[c], e)
    BY <1>0, <1>3 DEF Images!NextItem, Images!Tell
  <2> HIDE DEF e
  <2>5. /\ Len(told'[c]) = Len(told[c]) + 1
        /\ DOMAIN told[c] = 1..Len(told[c])
        /\ DOMAIN told'[c] = 1..(Len(told[c]) + 1)
        /\ \A i \in 1..Len(told[c]) : told'[c][i] = told[c][i]
        /\ told'[c][Len(told[c]) + 1] = e
    BY <1>0, <2>3, <2>4, OneMoreTold
  <2>6. ItemsFit(c)'
    <3>1. /\ tally[c].total \in Nat /\ batch[c].request \in Requests
          /\ Images!Valid(batch[c].request)
          /\ tally[c].total = Len(batch[c].request.items)
      BY <1>0, <2>1 DEF Tallies, BatchFits, ItemsFit, AtRest
    <3>2. /\ batch[c].index + 1 \in 0..tally[c].total /\ batch[c].index + 1 > 0
          /\ Len(told'[c]) = 2 * (batch[c].index + 1) - 1
      <4>1. Len(told'[c]) = Len(told[c]) + 1
        BY <2>5
      <4>2. \A k, l, t \in Nat : k < t /\ l = 2 * k
              => k + 1 \in 0..t /\ k + 1 > 0 /\ l + 1 = 2 * (k + 1) - 1
        OBVIOUS
      <4>3. Len(told[c]) \in Nat
        BY <2>1
      <4>4. QED BY <2>1, <3>1, <4>1, <4>2, <4>3
    <3>3. QED
      BY <2>1, <3>1, <3>2 DEF ItemsFit, OnAnItem, AtRest
  <2>7. ToldInOrder(c)'
    <3> DEFINE n == 2 * batch[c].index + 1
    <3>1. (n + 1) \div 2 = batch[c].index + 1 /\ n % 2 = 1
      BY <2>1
    <3>2. n \in Nat /\ n = Len(told[c]) + 1
      BY <2>1
    <3>3. ToldInOrder(c) /\ told[c] \in Seq(ToldEvents)
      BY <1>0 DEF BatchFits
    <3> HIDE DEF n
    <3>4. QED BY <2>3, <2>4, <3>1, <3>2, <3>3, InOrderWithOneMore
  <2>8. CountsFit(c)'
    <3>1. /\ \A field :
               Images!Total(told'[c], field)
                 = Images!Total(told[c], field) + e[field]
          /\ \A statuses : Images!Cardinality(Images!Told(c, statuses)') =
               Images!Cardinality(Images!Told(c, statuses))
                 + (IF e.status \in statuses THEN 1 ELSE 0)
      <4>1. told[c] \in Seq(ToldEvents)
        BY <1>0
      <4>2. QED BY <2>3, <2>4, <4>1, OneMoreTold
    <3>2. /\ Images!Total(told'[c], "original")
               = Images!Total(told[c], "original") + 0
          /\ Images!Total(told'[c], "compressed")
               = Images!Total(told[c], "compressed") + 0
      BY <2>3, <3>1
    <3>3. \A s \in {"completed", "skipped", "failed"} :
            Images!Cardinality(Images!Told(c, {s})')
              = Images!Cardinality(Images!Told(c, {s})) + 0
      BY <2>3, <3>1
    <3>4. tally[c] \in Tallies /\ CountsFit(c)
      BY <1>0 DEF BatchFits
    <3>5. QED BY <2>1, <3>2, <3>3, <3>4 DEF CountsFit, Tallies
  <2>9. QED BY <2>6, <2>7, <2>8 DEF BatchFits
<1>4. CASE Images!Done(c)
  <2>1. /\ batch[c].step = "next" /\ batch[c].index = tally[c].total
        /\ batch'[c].step = "done" /\ batch'[c].index = batch[c].index
        /\ batch'[c].request = batch[c].request /\ tally' = tally /\ told' = told
    BY <1>0, <1>4 DEF Images!Done, Images!At, Images!Step, BatchStates
  <2>2. ItemsFit(c)'
    BY <2>1 DEF BatchFits, ItemsFit, OnAnItem, AtRest
  <2>3. \A statuses : Images!Told(c, statuses)' = Images!Told(c, statuses)
    BY <2>1 DEF Images!Told
  <2>4. QED BY <2>1, <2>2, <2>3 DEF BatchFits, ToldInOrder, CountsFit
<1>5. CASE Images!ProcessFails(c) \/ Images!CreateFails(c) \/ Images!CleanUp(c)
  BY <1>5, AFailureFits
     DEF Images!ProcessFails, Images!CreateFails, Images!CleanUp, Images!At,
         OnAnItem
<1>6. CASE Images!Create(c) \/ Images!WriteFails(c)
             \/ \E length \in 1..MaxLength : Images!Compress(c, length)
  <2>1. /\ batch[c].step \in OnAnItem /\ batch'[c].step \in OnAnItem
        /\ batch'[c].request = batch[c].request /\ batch'[c].index = batch[c].index
        /\ tally' = tally /\ told' = told
    BY <1>0, <1>6
       DEF Images!Create, Images!WriteFails, Images!Compress, Images!Step,
           Images!At, OnAnItem, BatchStates
  <2>2. QED BY <2>1, AStepFits
<1>7. CASE Images!Write(c)
  <2> DEFINE status == IF batch[c].output < batch[c].source THEN "completed"
                         ELSE "skipped"
  <2>1. /\ batch[c].output \in Images!Lengths /\ batch[c].source \in Images!Lengths
        /\ tally[c] \in Tallies
    BY <1>0 DEF BatchStates
  <2>2. /\ batch[c].step \in OnAnItem /\ batch' = [batch EXCEPT ![c].step = "next"]
        /\ Images!Tell(c, batch[c].index, status, batch[c].source, batch[c].output)
    BY <1>7 DEF Images!Write, Images!At, OnAnItem, Images!Step
  <2>3. tally' = [tally EXCEPT ![c] = [tally[c] EXCEPT
          !.succeeded = tally[c].succeeded + IF batch[c].output
            < batch[c].source THEN 1 ELSE 0,
          !.skipped = tally[c].skipped + IF batch[c].output
            < batch[c].source THEN 0 ELSE 1,
          !.original = tally[c].original + batch[c].source,
          !.compressed = tally[c].compressed + batch[c].output]]
    BY <1>0, <1>7 DEF Images!Write
  <2>4. /\ tally'[c].total = tally[c].total
        /\ tally'[c].succeeded
             = tally[c].succeeded + (IF status = "completed" THEN 1 ELSE 0)
        /\ tally'[c].skipped
             = tally[c].skipped + (IF status = "skipped" THEN 1 ELSE 0)
        /\ tally'[c].failed = tally[c].failed + (IF status = "failed" THEN 1 ELSE 0)
        /\ tally'[c].original = tally[c].original + batch[c].source
        /\ tally'[c].compressed = tally[c].compressed + batch[c].output
    BY <1>0, <2>1, <2>3 DEF Tallies
  <2>5. QED BY <2>1, <2>2, <2>4, AnItemEnds
<1>8. CASE Images!EndOfProcess
  <2>1. /\ batch'[c].step = "gone" /\ batch'[c].index = 0
        /\ tally'[c] = Images!NoTally /\ told'[c] = <<>>
    BY <1>8 DEF Images!EndOfProcess, Images!Resting
  <2>2. ItemsFit(c)'
    BY <2>1 DEF ItemsFit, AtRest
  <2>3. (ToldInOrder(c) /\ CountsFit(c))'
    BY <2>1, NothingToldYet DEF Images!NoTally
  <2>4. QED BY <2>2, <2>3 DEF BatchFits
<1>9. ASSUME NEW b \in Batches, b # c,
             (\E request \in Requests : Images!Begin(b, request))
               \/ Images!Process(b)
      PROVE  batch'[c] = batch[c] /\ tally'[c] = tally[c] /\ told'[c] = told[c]
  BY <1>0, <1>9
     DEF Images!Begin, Images!Process, Images!NextItem, Images!Done,
         Images!ProcessFails, Images!Compress, Images!Create,
         Images!CreateFails, Images!Write, Images!WriteFails, Images!CleanUp,
         Images!ItemFails, Images!Step, Images!Tell
<1>10. QED
  BY <1>1, <1>2, <1>3, <1>4, <1>5, <1>6, <1>7, <1>8, <1>9
     DEF Images!Next, Images!Process, Images!Terminated, Images!vars

LEMMA OutputsFitKept ==
  ASSUME Images!ImageServiceAssumption, ImagesTyped, [Images!Next]_Images!vars,
         OutputsFit,
         \A b \in Batches : ItemsFit(b)
  PROVE  OutputsFit'
<1>0. /\ files \in [Paths -> Contents] /\ batch \in [Batches -> BatchStates]
  BY DEF ImagesTyped
<1>1. \A b \in Batches : batch[b].step \in OnAnItem => Images!Output(b) \in Paths
  BY ItemIsAPath
<1>2. ASSUME NEW b \in Batches,
             batch'[b].step \notin {"create", "write", "remove"},
             \A c \in Batches : c # b => batch'[c] = batch[c],
             \A c \in Batches :
               c # b /\ Writing(c)
                 => files'[Images!Output(c)] = files[Images!Output(c)]
      PROVE  OutputsFit'
  <2>1. \A c \in Batches :
          c # b => Images!Output(c)' = Images!Output(c)
            /\ (Writing(c)' <=> Writing(c))
    BY <1>2 DEF Images!Output, Writing
  <2>2. ~Writing(b)'
    BY <1>2 DEF Writing
  <2>3. QED BY <1>2, <2>1, <2>2 DEF OutputsFit
<1>3. ASSUME NEW b \in Batches, Images!Create(b) PROVE OutputsFit'
  <2>1. /\ batch[b].step = "create" /\ batch'[b].step = "write"
        /\ batch'[b].request = batch[b].request /\ batch'[b].index = batch[b].index
        /\ batch'[b].output = batch[b].output /\ batch'[b].source = batch[b].source
        /\ \A c \in Batches : c # b => batch'[c] = batch[c]
    BY <1>0, <1>3 DEF Images!Create, Images!At, Images!Step, BatchStates
  <2>2. /\ Images!Output(b) \in Paths /\ files[Images!Output(b)] = Images!NoFile
        /\ files' = [files EXCEPT ![Images!Output(b)] = Images!Piece]
    BY <1>1, <1>3, <2>1 DEF Images!Create, OnAnItem
  <2>3. \A c \in Batches : Images!Output(c)' = Images!Output(c)
    BY <2>1 DEF Images!Output
  <2>4. \A c \in Batches : c # b => (Writing(c)' <=> Writing(c))
    BY <2>1 DEF Writing
  <2>5. \A c \in Batches : Writing(c) => Images!Output(c) # Images!Output(b)
    BY <2>2, ImageConstants DEF OutputsFit
  <2>6. ASSUME NEW c \in Batches
        PROVE  /\ batch'[c].step \in {"create", "write", "remove"}
                    => batch'[c].output <= batch'[c].source
               /\ Writing(c)' => Images!Output(c)' \in Paths
                    /\ files'[Images!Output(c)'] = Images!Piece
    BY <1>0, <2>1, <2>2, <2>3, <2>4, <2>5 DEF OutputsFit
  <2>7. ASSUME NEW c \in Batches, NEW d \in Batches, c # d, Writing(c)', Writing(d)'
        PROVE  Images!Output(c)' # Images!Output(d)'
    BY <2>3, <2>4, <2>5, <2>7 DEF OutputsFit
  <2>8. QED BY <2>6, <2>7 DEF OutputsFit
<1>4. ASSUME NEW b \in Batches, Images!Write(b) \/ Images!CleanUp(b)
      PROVE  OutputsFit'
  <2>1. /\ batch[b].step \in {"write", "remove"} /\ batch'[b].step = "next"
        /\ batch'[b].request = batch[b].request /\ batch'[b].index = batch[b].index
        /\ \A c \in Batches : c # b => batch'[c] = batch[c]
    BY <1>0, <1>4
       DEF Images!Write, Images!CleanUp, Images!ItemFails, Images!At,
           Images!Step, BatchStates
  <2>2. files' = files
          \/ \E content : files' = [files EXCEPT ![Images!Output(b)] = content]
    BY <1>4 DEF Images!Write, Images!CleanUp
  <2>3. \A c \in Batches :
          c # b /\ Writing(c) => files'[Images!Output(c)] = files[Images!Output(c)]
    BY <1>0, <2>1, <2>2 DEF OutputsFit, Writing
  <2>4. QED BY <1>2, <2>1, <2>3
<1>5. ASSUME NEW b \in Batches,
             \/ \E request \in Requests : Images!Begin(b, request)
             \/ Images!NextItem(b) \/ Images!Done(b) \/ Images!ProcessFails(b)
             \/ Images!CreateFails(b)
      PROVE  OutputsFit'
  <2>1. /\ files' = files
        /\ batch'[b].step \notin {"create", "write", "remove"}
        /\ \A c \in Batches : c # b => batch'[c] = batch[c]
    BY <1>0, <1>5
       DEF Images!Begin, Images!NextItem, Images!Done, Images!ProcessFails,
           Images!CreateFails, Images!ItemFails, Images!Step, Images!Resting,
           BatchStates
  <2>2. QED BY <1>2, <2>1
<1>6. ASSUME NEW b \in Batches, NEW length \in 1..MaxLength,
             Images!Compress(b, length)
      PROVE  OutputsFit'
  <2> DEFINE source == files[Images!Item(b)].length
  <2>1. source \in Nat
    <3>1. Images!Item(b) \in Paths
      BY <1>6, ItemIsAPath DEF Images!Compress, Images!At, OnAnItem
    <3>2. QED BY <1>0, <3>1, ImageConstants DEF Contents, Images!Lengths
  <2>2. /\ batch'[b].step = "create" /\ batch'[b].source = source
        /\ batch'[b].output = IF length < source THEN length ELSE source
        /\ \A c \in Batches : c # b => batch'[c] = batch[c]
        /\ files' = files
    BY <1>0, <1>6 DEF Images!Compress, BatchStates
  <2> HIDE DEF source
  <2>3. length \in Nat
    BY ImageConstants
  <2>4. batch'[b].output <= batch'[b].source
    BY <2>1, <2>2, <2>3
  <2>5. \A c \in Batches :
          /\ c # b => Images!Output(c)' = Images!Output(c)
               /\ (Writing(c)' <=> Writing(c))
          /\ ~Writing(b)'
    BY <2>2 DEF Images!Output, Writing
  <2>6. QED BY <2>2, <2>4, <2>5 DEF OutputsFit
<1>7. ASSUME NEW b \in Batches, Images!WriteFails(b) PROVE OutputsFit'
  <2>1. /\ batch[b].step = "write" /\ batch'[b].step = "remove"
        /\ batch'[b].request = batch[b].request /\ batch'[b].index = batch[b].index
        /\ batch'[b].output = batch[b].output /\ batch'[b].source = batch[b].source
        /\ \A c \in Batches : c # b => batch'[c] = batch[c]
        /\ files' = files
    BY <1>0, <1>7 DEF Images!WriteFails, Images!At, Images!Step, BatchStates
  <2>2. \A c \in Batches :
          Images!Output(c)' = Images!Output(c) /\ (Writing(c)' <=> Writing(c))
    BY <2>1 DEF Images!Output, Writing
  <2>3. QED BY <2>1, <2>2 DEF OutputsFit
<1>8. CASE Images!EndOfProcess
  <2>1. \A c \in Batches : batch'[c].step = "gone"
    BY <1>8 DEF Images!EndOfProcess, Images!Resting
  <2>2. QED BY <2>1 DEF OutputsFit, Writing
<1>9. CASE UNCHANGED Images!vars
  <2>1. \A c \in Batches :
          Images!Output(c)' = Images!Output(c) /\ (Writing(c)' <=> Writing(c))
    BY <1>9 DEF Images!Output, Writing, Images!vars
  <2>2. QED BY <1>9, <2>1 DEF OutputsFit, Images!vars
<1>10. QED
  BY <1>3, <1>4, <1>5, <1>6, <1>7, <1>8, <1>9
     DEF Images!Next, Images!Process, Images!Terminated

LEMMA WrittenWithOneMore ==
  ASSUME ImagesTyped, NEW b \in Batches, WrittenIsThere(b), NEW e \in ToldEvents,
         batch'[b].request = batch[b].request, told'[b] = Append(told[b], e),
         \A path \in Paths : files[path].whole => files'[path] = files[path],
         e.status \in {"completed", "skipped"} =>
           LET place == Images!OutputOf(batch[b].request, e.index)
           IN  /\ place \in Paths /\ ~files[place].whole
               /\ files'[place] = Images!File(e.compressed)
               /\ e.compressed <= e.original
  PROVE  WrittenIsThere(b)'
<1> DEFINE written == {"completed", "skipped"}
           n == Len(told[b]) + 1
           place == Images!OutputOf(batch[b].request, e.index)
<1>1. /\ DOMAIN told[b] = 1..Len(told[b]) /\ DOMAIN told'[b] = 1..n
      /\ \A i \in 1..Len(told[b]) : told'[b][i] = told[b][i]
      /\ told'[b][n] = e /\ Len(told[b]) \in Nat
  BY OneMoreTold DEF ImagesTyped
<1>2. \A length : Images!File(length).whole
  BY DEF Images!File
<1>3. ASSUME NEW i \in Images!Told(b, written)'
      PROVE  \/ i \in Images!Told(b, written)
                  /\ Images!Place(b, i)' = Images!Place(b, i)
                  /\ told'[b][i] = told[b][i]
             \/ /\ i = n /\ Images!Place(b, i)' = place /\ told'[b][i] = e
                /\ e.status \in written
  <2>1. i \in 1..n /\ told'[b][i].status \in written
    BY <1>1 DEF Images!Told
  <2>2. CASE i = n
    BY <1>1, <2>1, <2>2 DEF Images!Place
  <2>3. CASE i # n
    <3>1. i \in 1..Len(told[b])
      BY <1>1, <2>1, <2>3
    <3>2. QED BY <1>1, <2>1, <3>1 DEF Images!Told, Images!Place
  <2>4. QED BY <2>2, <2>3
<1>4. ASSUME NEW i \in Images!Told(b, written)
      PROVE  /\ Images!Place(b, i) \in Paths /\ files[Images!Place(b, i)].whole
             /\ files'[Images!Place(b, i)] = Images!File(told[b][i].compressed)
             /\ told[b][i].compressed <= told[b][i].original
  BY <1>2 DEF WrittenIsThere
<1>5. e.status \in written => /\ place \in Paths /\ ~files[place].whole
                              /\ files'[place] = Images!File(e.compressed)
                              /\ e.compressed <= e.original
  OBVIOUS
<1> HIDE DEF place, n, written
<1>6. ASSUME NEW i \in Images!Told(b, written)'
      PROVE  /\ Images!Place(b, i)' \in Paths
             /\ files'[Images!Place(b, i)'] = Images!File(told'[b][i].compressed)
             /\ told'[b][i].compressed <= told'[b][i].original
  BY <1>3, <1>4, <1>5
<1>7. ASSUME NEW i \in Images!Told(b, written)', NEW j \in Images!Told(b, written)',
             i # j
      PROVE  Images!Place(b, i)' # Images!Place(b, j)'
  <2>1. CASE i \in Images!Told(b, written) /\ j \in Images!Told(b, written)
               /\ i # n /\ j # n
    BY <1>3, <1>7, <2>1 DEF WrittenIsThere, written
  <2>2. CASE i = n \/ j = n
    <3>1. ~(i \in Images!Told(b, written) /\ i = n)
      BY <1>1 DEF Images!Told, n
    <3>2. ~(j \in Images!Told(b, written) /\ j = n)
      BY <1>1 DEF Images!Told, n
    <3>3. QED BY <1>3, <1>4, <1>5, <1>7, <2>2, <3>1, <3>2
  <2>3. QED BY <1>3, <2>1, <2>2
<1>8. QED BY <1>6, <1>7 DEF WrittenIsThere, written

LEMMA WrittenIsThereKept ==
  ASSUME Images!ImageServiceAssumption, ImagesTyped, [Images!Next]_Images!vars,
         OutputsFit,
         \A b \in Batches : ItemsFit(b) /\ WrittenIsThere(b)
  PROVE  \A b \in Batches : WrittenIsThere(b)'
<1> SUFFICES ASSUME NEW c \in Batches PROVE WrittenIsThere(c)'
  OBVIOUS
<1>0. /\ batch \in [Batches -> BatchStates] /\ told \in [Batches -> Seq(ToldEvents)]
      /\ files \in [Paths -> Contents] /\ 0 \in Images!Lengths
  BY ImageConstants DEF ImagesTyped, Images!Lengths
<1>1. \A path \in Paths : files[path].whole => files'[path] = files[path]
  BY WholeFilesAreKept
<1>2. CASE batch'[c].request = batch[c].request /\ told'[c] = told[c]
  BY <1>1, <1>2, WrittenStays
<1>3. CASE told'[c] = <<>>
  BY <1>3, NoEventsYet DEF WrittenIsThere, Images!Told
<1>4. ASSUME NEW request \in Requests, Images!Begin(c, request)
      PROVE  told'[c] = <<>>
  BY <1>4 DEF Images!Begin, Images!At, ItemsFit, AtRest
<1>5. ASSUME Images!ItemFails(c) PROVE WrittenIsThere(c)'
  <2> DEFINE e == Images!Event(batch[c].index, "failed", 0, 0)
  <2>1. /\ told'[c] = Append(told[c], e) /\ batch'[c].request = batch[c].request
    BY <1>0, <1>5 DEF Images!ItemFails, Images!Tell, Images!Step, BatchStates
  <2>2. e \in ToldEvents /\ e.status = "failed"
    BY <1>0 DEF Images!Event, ToldEvents, BatchStates
  <2> HIDE DEF e
  <2>3. QED BY <1>1, <2>1, <2>2, WrittenWithOneMore
<1>6. CASE Images!NextItem(c)
  <2> DEFINE e == Images!Event(batch[c].index + 1, "processing", 0, 0)
  <2>1. /\ told'[c] = Append(told[c], e) /\ batch'[c].request = batch[c].request
    BY <1>0, <1>6 DEF Images!NextItem, Images!Tell, BatchStates
  <2>2. e \in ToldEvents /\ e.status = "processing"
    BY <1>0 DEF Images!Event, ToldEvents, BatchStates
  <2> HIDE DEF e
  <2>3. QED BY <1>1, <2>1, <2>2, WrittenWithOneMore
<1>7. CASE Images!Write(c)
  <2> DEFINE status == IF batch[c].output < batch[c].source THEN "completed"
                         ELSE "skipped"
             e == Images!Event(batch[c].index, status, batch[c].source,
                    batch[c].output)
  <2>1. /\ told'[c] = Append(told[c], e) /\ batch'[c].request = batch[c].request
        /\ files' = [files EXCEPT ![Images!Output(c)] =
             Images!File(batch[c].output)]
    BY <1>0, <1>7 DEF Images!Write, Images!Tell, Images!Step, BatchStates
  <2>2. /\ e \in ToldEvents /\ e.index = batch[c].index
        /\ e.original = batch[c].source
        /\ e.compressed = batch[c].output
    BY <1>0 DEF Images!Event, ToldEvents, BatchStates
  <2>3. /\ Images!Output(c) \in Paths /\ files[Images!Output(c)] = Images!Piece
        /\ batch[c].output <= batch[c].source
    BY <1>7 DEF Images!Write, Images!At, OutputsFit, Writing
  <2>4. Images!Output(c) = Images!OutputOf(batch[c].request, e.index)
    BY <2>2 DEF Images!Output
  <2>5. ~files[Images!Output(c)].whole
    BY <2>3 DEF Images!Piece
  <2>6. files'[Images!Output(c)] = Images!File(e.compressed)
    BY <1>0, <2>1, <2>2, <2>3
  <2> HIDE DEF e
  <2>7. QED BY <1>1, <2>1, <2>2, <2>3, <2>4, <2>5, <2>6, WrittenWithOneMore
<1>8. ASSUME NEW b \in Batches, b # c, Images!Process(b)
      PROVE  batch'[c].request = batch[c].request /\ told'[c] = told[c]
  BY <1>0, <1>8
     DEF Images!Process, Images!NextItem, Images!Done, Images!ProcessFails,
         Images!Compress, Images!Create, Images!CreateFails, Images!Write,
         Images!WriteFails, Images!CleanUp, Images!ItemFails, Images!Step,
         Images!Tell
<1>10. ASSUME Images!Process(c)
       PROVE  \/ Images!NextItem(c) \/ Images!ItemFails(c) \/ Images!Write(c)
              \/ batch'[c].request = batch[c].request /\ told'[c] = told[c]
  <2>1. CASE Images!Done(c) \/ Images!Create(c) \/ Images!WriteFails(c)
             \/ \E length \in 1..MaxLength : Images!Compress(c, length)
    BY <1>0, <2>1
       DEF Images!Done, Images!Compress, Images!Create, Images!WriteFails,
           Images!Step, BatchStates
  <2>2. QED
    BY <1>10, <2>1
       DEF Images!Process, Images!ProcessFails, Images!CreateFails,
           Images!CleanUp
<1>9. ASSUME NEW b \in Batches, NEW request \in Requests, Images!Begin(b, request),
             b # c
      PROVE  batch'[c].request = batch[c].request /\ told'[c] = told[c]
  BY <1>0, <1>9 DEF Images!Begin, Images!Step, BatchStates
<1>11. QED
  BY <1>2, <1>3, <1>4, <1>5, <1>6, <1>7, <1>8, <1>9, <1>10
     DEF Images!Next, Images!EndOfProcess, Images!Terminated, Images!vars

-----------------------------------------------------------------------------
LEMMA ImagesInvariant ==
  ASSUME Images!ImageServiceAssumption
  PROVE  Images!Spec => [](ImagesTyped /\ ImagesInv)
<1>1. Images!Init => ImagesTyped
  <2> SUFFICES ASSUME Images!Init PROVE ImagesTyped
    OBVIOUS
  <2>1. files \in [Paths -> Contents]
    <3>1. \A path \in DOMAIN Sources : Sources[path] \in Images!Lengths
      BY DEF Images!ImageServiceAssumption, Images!Lengths
    <3>2. QED BY <3>1, ImageConstants DEF Images!Init
  <2>2. batch \in [Batches -> BatchStates] /\ tally \in [Batches -> Tallies]
    BY ImageConstants DEF Images!Init, BatchSteps
  <2>3. told \in [Batches -> Seq(ToldEvents)] /\ writeFaults \in 0..MaxWriteFaults
    BY ImageConstants, NoEventsYet DEF Images!Init
  <2>4. QED BY <2>1, <2>2, <2>3 DEF ImagesTyped
<1>2. Images!Init => ImagesInv
  <2> SUFFICES ASSUME Images!Init PROVE ImagesInv
    OBVIOUS
  <2>1. \A b \in Batches : batch[b].step = "idle" /\ batch[b].index = 0
    BY DEF Images!Init, Images!Resting
  <2>2. OutputsFit
    BY <2>1 DEF OutputsFit, Writing
  <2>3. ASSUME NEW b \in Batches
        PROVE  ItemsFit(b) /\ ToldInOrder(b) /\ CountsFit(b) /\ WrittenIsThere(b)
    <3>1. tally[b] = Images!NoTally /\ told[b] = <<>>
      BY DEF Images!Init
    <3>2. QED BY <2>1, <3>1, NothingTold DEF ItemsFit, AtRest, Images!NoTally
  <2>4. QED BY <2>2, <2>3 DEF ImagesInv
<1>3. ImagesTyped /\ ImagesInv /\ [Images!Next]_Images!vars
        => (ImagesTyped /\ ImagesInv)'
  BY ImageStepsAreTyped, OutputsFitKept, BatchesFitKept, WrittenIsThereKept
     DEF ImagesInv, BatchFits
<1>4. QED BY <1>1, <1>2, <1>3, PTL DEF Images!Spec

LEMMA ImagesAreRight ==
  ASSUME Images!ImageServiceAssumption, ImagesTyped, ImagesInv
  PROVE  Images!TypeOK /\ Images!BatchesAddUp
<1>1. ASSUME NEW b \in Batches
      PROVE  /\ batch[b] \in BatchStates /\ tally[b] \in Tallies
             /\ told[b] \in Seq(ToldEvents)
  BY DEF ImagesTyped
<1>2. Images!TypeOK
  <2>1. ASSUME NEW b \in Batches
        PROVE  /\ batch[b].step \in {"idle", "refused", "next", "read", "create",
                                      "write", "remove", "done", "gone"}
               /\ batch[b].request \in Requests \cup {Images!NoRequest}
               /\ {batch[b].source, batch[b].output} \subseteq Images!Lengths
    BY <1>1 DEF BatchStates, BatchSteps
  <2>2. ASSUME NEW b \in Batches PROVE batch[b].index \in 0..tally[b].total
    BY <1>1 DEF ImagesInv, ItemsFit, Images!NoTally, Tallies
  <2>3. ASSUME NEW b \in Batches, NEW field \in DOMAIN Images!NoTally
        PROVE  tally[b][field] \in Nat
    BY <1>1 DEF Images!NoTally, Tallies
  <2>4. ASSUME NEW b \in Batches, NEW event \in Images!Range(told[b])
        PROVE  event.status \in {"processing", "completed", "skipped", "failed"}
    <3>1. event \in ToldEvents
      BY <1>1, ElementOfSeq DEF Images!Range
    <3>2. QED BY <3>1 DEF ToldEvents
  <2>5. files \in [Paths -> [length : Images!Lengths, whole : BOOLEAN]]
    BY DEF ImagesTyped, Contents
  <2>6. QED BY <2>1, <2>2, <2>3, <2>4, <2>5 DEF Images!TypeOK, ImagesTyped
<1>3. ASSUME NEW b \in Batches, Images!At(b, "done")
      PROVE  Len(told[b]) = 2 * tally[b].total
  BY <1>3 DEF Images!At, ImagesInv, ItemsFit, AtRest, OnAnItem
<1>4. QED
  BY <1>2, <1>3
     DEF Images!BatchesAddUp, ImagesInv, ToldInOrder, CountsFit, WrittenIsThere

LEMMA ImagesHold ==
  ASSUME Images!ImageServiceAssumption
  PROVE  Images!Spec => [](Images!TypeOK /\ Images!BatchesAddUp)
           /\ Images!ImagesKeepFiles
<1>1. ImagesTyped /\ ImagesInv => Images!TypeOK /\ Images!BatchesAddUp
  BY ImagesAreRight
<1>2. ImagesTyped /\ ImagesInv /\ [Images!Next]_Images!vars =>
        [\A path \in Paths : files[path].whole
          => files'[path] = files[path]]_Images!vars
  BY WholeFilesAreKept DEF ImagesInv
<1>3. QED
  BY <1>1, <1>2, ImagesInvariant, PTL DEF Images!Spec, Images!ImagesKeepFiles

-----------------------------------------------------------------------------
(* FileIndex.                                                              *)

(* The cardinality that a service's module means is the one the theorems   *)
(* about finite sets mean.                                                 *)
LEMMA IndexCardinality ==
  /\ \A S : Index!IsFiniteSet(S) <=> IsFiniteSet(S)
  /\ \A S : Index!Cardinality(S) = Cardinality(S)
BY DEF Index!IsFiniteSet, Index!Cardinality, IsFiniteSet, Cardinality

(* The children that are left come after all entries, and are not too      *)
(* deep.                                                                   *)
ChildrenFit ==
  \A j \in DOMAIN stack : \A c \in stack[j].children :
    /\ Parent[c] = stack[j].directory
    /\ Index!Depth(c) <= limits.depth
    /\ \A i \in DOMAIN entries : entries[i] < c

(* Each directory on the stack is below the ones it was reached from, and  *)
(* before the children that these have left.                               *)
StackFits ==
  \A i, j \in DOMAIN stack : i < j =>
    /\ stack[j].directory \in Index!Above(stack[i].directory)
    /\ \A c \in stack[j].children : stack[i].directory < c

OpeningFits ==
  opening # Index!Nowhere =>
    /\ indexed = "none" /\ Index!Depth(opening) < limits.depth
    /\ \A i \in DOMAIN entries : entries[i] <= opening
    /\ \A j \in DOMAIN stack :
         /\ stack[j].directory \in Index!Above(opening)
         /\ \A c \in stack[j].children : opening < c

EntriesFit ==
  /\ \A i, j \in DOMAIN entries : i < j => entries[i] < entries[j]
  /\ \A i \in DOMAIN entries : Index!Depth(entries[i]) <= limits.depth
  /\ Len(entries) <= limits.entries

IndexWalking == opening # Index!Nowhere \/ stack # <<>>

AnswersFit ==
  /\ stack # <<>> => indexed = "none"
  /\ truncated => indexed = "ok" /\ Len(entries) = limits.entries
  /\ indexed = "none" /\ ~IndexWalking => entries = <<>>

(* What the walk will still come to.                                       *)
Ahead(n) ==
  \/ opening # Index!Nowhere /\ opening \in Index!Above(n)
  \/ \E j \in DOMAIN stack :
       \E c \in stack[j].children : c = n \/ c \in Index!Above(n)

NothingSkipped ==
  /\ IndexWalking => /\ limits.entries > 0
                /\ \A n \in Index!Listable : n \in Index!Range(entries) \/ Ahead(n)
  /\ indexed = "ok" =>
       \A n \in Index!Listable :
         ~truncated \/ n < entries[Len(entries)] => n \in Index!Range(entries)

IndexInv ==
  /\ Index!TypeOK /\ ChildrenFit /\ StackFits /\ OpeningFits /\ EntriesFit
  /\ AnswersFit /\ NothingSkipped

LEMMA SmallestNumber ==
  ASSUME NEW T, T \subseteq Nat, T # {}
  PROVE  \E least \in T : \A n \in T : least <= n
<1> DEFINE R == OpToRel(<, Nat)
<1>1. PICK least \in T : \A n \in T : ~(<<n, least>> \in R)
  <2>1. IsWellFoundedOn(R, Nat)
    BY NatLessThanWellFounded
  <2> HIDE DEF R
  <2>2. QED BY <2>1, WFMin
<1>2. \A n \in T : ~(n < least)
  BY <1>1 DEF OpToRel
<1>3. QED BY <1>2

LEMMA StrongInduction ==
  ASSUME NEW S, \A n \in Nat : (\A m \in Nat : m < n => m \in S) => n \in S
  PROVE  Nat \subseteq S
<1> DEFINE T == Nat \ S
<1>1. SUFFICES ASSUME T # {} PROVE FALSE
  OBVIOUS
<1>2. PICK least \in T : \A n \in T : least <= n
  BY <1>1, SmallestNumber
<1>3. \A m \in Nat : m < least => m \in S
  BY <1>2
<1>4. QED BY <1>2, <1>3

LEMMA PlacesAreNumbers ==
  ASSUME Index!FileIndexAssumption
  PROVE  \E N \in Nat :
           /\ Index!Nodes = 1..N /\ Index!Places = 0..N
           /\ Index!Cardinality(Index!Nodes) = N
                        /\ \A n \in 1..N : Parent[n] \in 0..(n - 1)
<1>1. Index!Cardinality(Index!Nodes) \in Nat
  BY IndexCardinality, FS_CardinalityType DEF Index!FileIndexAssumption
<1>2. QED BY <1>1 DEF Index!FileIndexAssumption, Index!Places

(* The definition of up in Above, up to a node.                            *)
Ups(f, k) ==
  f = [m \in 0..k |-> IF m = 0 THEN {} ELSE {Parent[m]} \cup f[Parent[m]]]

LEMMA UpsExist ==
  ASSUME NEW N \in Nat, \A n \in 1..N : Parent[n] \in 0..(n - 1)
  PROVE  \E f : Ups(f, N)
<1> DEFINE S == {k \in Nat : k <= N => \E f : Ups(f, k)}
<1>1. 0 \in S
  <2>1. Ups([m \in 0..0 |-> {}], 0)
    BY DEF Ups
  <2>2. QED BY <2>1
<1>2. ASSUME NEW k \in Nat, k \in S PROVE k + 1 \in S
  <2>1. SUFFICES ASSUME k + 1 <= N PROVE \E f : Ups(f, k + 1)
    OBVIOUS
  <2>2. PICK f : Ups(f, k)
    BY <1>2, <2>1
  <2> DEFINE g == [m \in 0..(k + 1) |->
                     IF m = k + 1 THEN {Parent[m]} \cup f[Parent[m]] ELSE f[m]]
  <2>3. Parent[k + 1] \in 0..k /\ g[Parent[k + 1]] = f[Parent[k + 1]]
    <3>1. k + 1 \in 1..N /\ (k + 1) - 1 = k
      BY <2>1
    <3>2. Parent[k + 1] \in 0..k
      BY <3>1
    <3>3. QED BY <3>2
  <2>4. ASSUME NEW m \in 0..(k + 1)
        PROVE  g[m] = IF m = 0 THEN {} ELSE {Parent[m]} \cup g[Parent[m]]
    <3>1. CASE m = k + 1
      BY <2>3, <3>1
    <3>2. CASE m # k + 1
      <4>1. m \in 0..k /\ g[m] = f[m]
        BY <3>2
      <4>2. f[m] = IF m = 0 THEN {} ELSE {Parent[m]} \cup f[Parent[m]]
        BY <2>2, <4>1 DEF Ups
      <4>3. m # 0 => Parent[m] \in 0..k
        BY <2>1, <4>1
      <4>4. m # 0 => g[Parent[m]] = f[Parent[m]]
        BY <4>3
      <4> HIDE DEF g
      <4>5. QED BY <4>1, <4>2, <4>4
    <3>3. QED BY <3>1, <3>2
  <2>5. g = [m \in 0..(k + 1) |-> g[m]]
    OBVIOUS
  <2> HIDE DEF g
  <2>6. Ups(g, k + 1)
    BY <2>4, <2>5 DEF Ups
  <2>7. QED BY <2>6
<1>3. QED
  <2> HIDE DEF S
  <2>1. Nat \subseteq S
    BY <1>1, <1>2, InductionOnNaturals
  <2>2. QED BY <2>1 DEF S

LEMMA AboveIsParents ==
  ASSUME Index!FileIndexAssumption
  PROVE  /\ Index!Above(0) = {}
         /\ \A n \in Index!Nodes :
              Index!Above(n) = {Parent[n]} \cup Index!Above(Parent[n])
<1>1. PICK N \in Nat : /\ Index!Nodes = 1..N /\ Index!Places = 0..N
                       /\ \A n \in 1..N : Parent[n] \in 0..(n - 1)
  BY PlacesAreNumbers
<1> DEFINE f == CHOOSE f : f = [m \in Index!Places |->
                     IF m = 0 THEN {} ELSE {Parent[m]} \cup f[Parent[m]]]
<1>2. f = [m \in Index!Places |-> IF m = 0 THEN {} ELSE {Parent[m]}
        \cup f[Parent[m]]]
  BY <1>1, UpsExist DEF Ups
<1>3. ASSUME NEW n PROVE Index!Above(n) = f[n]
  BY DEF Index!Above
<1> HIDE DEF f
<1>4. f[0] = {} /\ \A n \in Index!Nodes : f[n] = {Parent[n]} \cup f[Parent[n]]
  BY <1>1, <1>2
<1>5. ASSUME NEW n \in Index!Nodes
      PROVE  Index!Above(n) = {Parent[n]} \cup Index!Above(Parent[n])
  <2>1. Index!Above(n) = f[n] /\ Index!Above(Parent[n]) = f[Parent[n]]
    BY <1>3
  <2>2. QED BY <1>4, <2>1
<1>6. Index!Above(0) = f[0]
  BY <1>3
<1>7. QED BY <1>4, <1>5, <1>6

(* What is above a node has a smaller number; the root is above them all.  *)
LEMMA AboveIsBefore ==
  ASSUME Index!FileIndexAssumption, NEW n \in Index!Places
  PROVE  /\ Index!Above(n) \subseteq 0..(n - 1)
         /\ Index!Above(n) \subseteq Index!Places
         /\ n # 0 => 0 \in Index!Above(n)
<1>1. PICK N \in Nat : /\ Index!Nodes = 1..N /\ Index!Places = 0..N
                       /\ \A k \in 1..N : Parent[k] \in 0..(k - 1)
  BY PlacesAreNumbers
<1> DEFINE S == {k \in Nat : k <= N =>
                   Index!Above(k) \subseteq 0..(k - 1)
                     /\ (k # 0 => 0 \in Index!Above(k))}
<1>2. ASSUME NEW k \in Nat, \A m \in Nat : m < k => m \in S
      PROVE  k \in S
  <2>1. CASE k = 0
    BY <2>1, AboveIsParents
  <2>2. CASE k # 0 /\ k <= N
    <3>1. Index!Above(k) = {Parent[k]} \cup Index!Above(Parent[k])
            /\ Parent[k] \in 0..(k - 1)
      BY <1>1, <2>2, AboveIsParents
    <3>2. Parent[k] \in S
      BY <1>2, <3>1
    <3>3. Index!Above(Parent[k]) \subseteq 0..(Parent[k] - 1)
            /\ (Parent[k] # 0 => 0 \in Index!Above(Parent[k]))
      BY <2>2, <3>1, <3>2
    <3>4. QED BY <2>2, <3>1, <3>3
  <2>3. QED BY <2>1, <2>2
<1>3. Nat \subseteq S
  <2> HIDE DEF S
  <2>1. QED BY <1>2, StrongInduction
<1>4. QED BY <1>1, <1>3

LEMMA AboveIsTransitive ==
  ASSUME Index!FileIndexAssumption, NEW a, NEW b, NEW c \in Index!Places,
         a \in Index!Above(b), b \in Index!Above(c)
  PROVE  a \in Index!Above(c)
<1>1. PICK N \in Nat : /\ Index!Nodes = 1..N /\ Index!Places = 0..N
                       /\ \A k \in 1..N : Parent[k] \in 0..(k - 1)
  BY PlacesAreNumbers
<1> DEFINE S == {k \in Nat : k <= N /\ b \in Index!Above(k) => a \in Index!Above(k)}
<1>2. ASSUME NEW k \in Nat, \A m \in Nat : m < k => m \in S
      PROVE  k \in S
  <2>1. CASE k = 0
    BY <2>1, AboveIsParents
  <2>2. CASE k # 0 /\ k <= N
    <3>1. Index!Above(k) = {Parent[k]} \cup Index!Above(Parent[k])
            /\ Parent[k] \in 0..(k - 1)
      BY <1>1, <2>2, AboveIsParents
    <3>2. Parent[k] \in S
      BY <1>2, <3>1
    <3>3. b \in Index!Above(Parent[k]) => a \in Index!Above(Parent[k])
      BY <2>2, <3>1, <3>2
    <3>4. QED BY <3>1, <3>3
  <2>3. QED BY <2>1, <2>2
<1>3. Nat \subseteq S
  <2> HIDE DEF S
  <2>1. QED BY <1>2, StrongInduction
<1>4. QED BY <1>1, <1>3

(* The numbers below a directory follow it without a gap.                  *)
LEMMA BelowIsContiguous ==
  ASSUME Index!FileIndexAssumption, NEW a, NEW n \in Index!Nodes,
         a \in Index!Above(n),
         NEW m \in Index!Nodes, a < m, m <= n
  PROVE  a \in Index!Above(m)
<1>1. PICK N \in Nat : /\ Index!Nodes = 1..N /\ Index!Places = 0..N
                       /\ \A k \in 1..N : Parent[k] \in 0..(k - 1)
  BY PlacesAreNumbers
<1>2. a \in 0..(n - 1)
  BY AboveIsBefore DEF Index!Places
<1> DEFINE S == {d \in Nat : a < n - d => a \in Index!Above(n - d)}
<1>3. 0 \in S
  BY <1>1
<1>4. ASSUME NEW d \in Nat, d \in S PROVE d + 1 \in S
  <2> DEFINE k == n - d
  <2>1. SUFFICES ASSUME a < k - 1 PROVE a \in Index!Above(k - 1)
    BY <1>1, <1>2
  <2>2. k \in 2..N /\ a \in Index!Above(k)
    BY <1>1, <1>2, <1>4, <2>1
  <2>3. Parent[k] \in Index!Above(k - 1) \cup {k - 1}
    BY <1>1, <2>2 DEF Index!FileIndexAssumption
  <2>4. a = Parent[k] \/ a \in Index!Above(Parent[k])
    BY <1>1, <2>2, AboveIsParents
  <2>5. k - 1 \in Index!Places
    BY <1>1, <2>2
  <2>6. QED BY <1>2, <2>1, <2>3, <2>4, <2>5, AboveIsTransitive
<1>5. Nat \subseteq S
  <2> HIDE DEF S
  <2>1. QED BY <1>3, <1>4, InductionOnNaturals
<1>6. n - m \in Nat /\ n - (n - m) = m
  BY <1>1
<1>7. QED BY <1>5, <1>6

(* A later sibling, of a directory or of one above it, comes after all     *)
(* that is below the directory.                                            *)
LEMMA SiblingsAreAfter ==
  ASSUME Index!FileIndexAssumption, NEW c \in Index!Nodes, NEW d \in Index!Nodes,
         NEW n \in Index!Nodes,
         Parent[c] < d, d < c, d \in Index!Above(n)
  PROVE  n < c
<1>1. PICK N \in Nat : /\ Index!Nodes = 1..N /\ Index!Places = 0..N
                       /\ \A k \in 1..N : Parent[k] \in 0..(k - 1)
  BY PlacesAreNumbers
<1>2. d \notin Index!Above(c)
  <2>1. Index!Above(c) = {Parent[c]} \cup Index!Above(Parent[c])
          /\ Parent[c] \in Index!Places
        /\ Parent[c] \in 0..(c - 1)
    BY <1>1, AboveIsParents
  <2>2. Index!Above(Parent[c]) \subseteq 0..(Parent[c] - 1)
    BY <2>1, AboveIsBefore
  <2>3. QED BY <1>1, <2>1, <2>2
<1>3. ~(c <= n)
  BY <1>1, <1>2, BelowIsContiguous
<1>4. QED BY <1>1, <1>3

(* The way down from a directory begins with one of its children.          *)
LEMMA ChildOnTheWay ==
  ASSUME Index!FileIndexAssumption, NEW a, NEW n \in Index!Nodes,
         a \in Index!Above(n)
  PROVE  \E c \in Index!Nodes : Parent[c] = a /\ (c = n \/ c \in Index!Above(n))
<1>1. PICK N \in Nat : /\ Index!Nodes = 1..N /\ Index!Places = 0..N
                       /\ \A k \in 1..N : Parent[k] \in 0..(k - 1)
  BY PlacesAreNumbers
<1> DEFINE S == {k \in Nat : k \in Index!Nodes /\ a \in Index!Above(k) =>
                   \E c \in Index!Nodes :
                     Parent[c] = a /\ (c = k \/ c \in Index!Above(k))}
<1>2. ASSUME NEW k \in Nat, \A m \in Nat : m < k => m \in S
      PROVE  k \in S
  <2>1. SUFFICES ASSUME k \in Index!Nodes, a \in Index!Above(k)
                 PROVE  \E c \in Index!Nodes :
                          Parent[c] = a /\ (c = k \/ c \in Index!Above(k))
    OBVIOUS
  <2>2. Index!Above(k) = {Parent[k]} \cup Index!Above(Parent[k])
          /\ Parent[k] \in 0..(k - 1)
    BY <1>1, <2>1, AboveIsParents
  <2>3. CASE a = Parent[k]
    BY <2>1, <2>3
  <2>4. CASE a \in Index!Above(Parent[k])
    <3>1. Parent[k] \in S /\ Parent[k] # 0
      BY <1>2, <2>2, <2>4, AboveIsParents
    <3>2. Parent[k] \in Index!Nodes
      BY <1>1, <2>1, <2>2, <3>1
    <3>3. PICK c \in Index!Nodes :
                 Parent[c] = a /\ (c = Parent[k] \/ c \in Index!Above(Parent[k]))
      BY <2>4, <3>1, <3>2
    <3>4. QED BY <2>2, <3>3
  <2>5. QED BY <2>1, <2>2, <2>3, <2>4
<1>3. Nat \subseteq S
  <2> HIDE DEF S
  <2>1. QED BY <1>2, StrongInduction
<1>4. QED BY <1>1, <1>3

LEMMA DepthOfAChild ==
  ASSUME Index!FileIndexAssumption, NEW n \in Index!Nodes
  PROVE  /\ Index!Depth(n) = Index!Depth(Parent[n]) + 1 /\ Index!Depth(n) \in Nat
         /\ Index!Depth(Parent[n]) \in Int /\ Index!Depth(0) = -1
<1>1. PICK N \in Nat : /\ Index!Nodes = 1..N /\ Index!Places = 0..N
                       /\ \A k \in 1..N : Parent[k] \in 0..(k - 1)
  BY PlacesAreNumbers
<1>2. /\ Index!Above(n) = Index!Above(Parent[n]) \cup {Parent[n]}
      /\ Parent[n] \in Index!Places /\ Parent[n] \in 0..(n - 1)
  BY <1>1, AboveIsParents
<1>3. Index!Above(Parent[n]) \subseteq 0..(Parent[n] - 1)
  BY <1>2, AboveIsBefore
<1>4. Parent[n] \notin Index!Above(Parent[n])
  BY <1>2, <1>3
<1>5. Index!IsFiniteSet(Index!Above(Parent[n]))
  <2>1. Parent[n] - 1 \in Int
    BY <1>2
  <2>2. Index!IsFiniteSet(0..(Parent[n] - 1))
    BY <2>1, IndexCardinality, FS_Interval
  <2>3. QED BY <1>3, <2>2, IndexCardinality, FS_Subset
<1>6. Index!Cardinality(Index!Above(n))
        = Index!Cardinality(Index!Above(Parent[n])) + 1
      /\ Index!Cardinality(Index!Above(Parent[n])) \in Nat
  BY <1>2, <1>4, <1>5, IndexCardinality, FS_AddElement, FS_CardinalityType
<1>7. Index!Cardinality(Index!Above(0)) = 0
  BY AboveIsParents, IndexCardinality, FS_EmptySet
<1>8. QED BY <1>6, <1>7 DEF Index!Depth

(* What is above a node is less deep than the node.                        *)
LEMMA AboveIsLessDeep ==
  ASSUME Index!FileIndexAssumption, NEW n \in Index!Nodes, NEW a \in Index!Above(n)
  PROVE  Index!Depth(a) < Index!Depth(n) /\ Index!Depth(a) \in Int
<1>1. PICK N \in Nat : /\ Index!Nodes = 1..N /\ Index!Places = 0..N
                       /\ \A k \in 1..N : Parent[k] \in 0..(k - 1)
  BY PlacesAreNumbers
<1>2. Index!Above(n) \subseteq 0..(n - 1) /\ a \in Index!Places
  BY <1>1, AboveIsBefore
<1>3. Index!IsFiniteSet(Index!Above(n))
  <2>1. n - 1 \in Int
    BY <1>1
  <2>2. Index!IsFiniteSet(0..(n - 1))
    BY <2>1, IndexCardinality, FS_Interval
  <2>3. QED BY <1>2, <2>2, IndexCardinality, FS_Subset
<1>4. Index!Above(a) \subseteq Index!Above(n)
  BY <1>1, <1>2, AboveIsTransitive
<1>5. a \notin Index!Above(a)
  BY <1>1, <1>2, AboveIsBefore
<1>6. Index!IsFiniteSet(Index!Above(a))
        /\ Index!Cardinality(Index!Above(a)) < Index!Cardinality(Index!Above(n))
  <2>1. Index!Above(a) # Index!Above(n)
    BY <1>5
  <2>2. Index!IsFiniteSet(Index!Above(a))
          /\ Index!Cardinality(Index!Above(a)) <= Index!Cardinality(Index!Above(n))
        /\ Index!Cardinality(Index!Above(a)) # Index!Cardinality(Index!Above(n))
    BY <1>3, <1>4, <2>1, IndexCardinality, FS_Subset
  <2>3. Index!Cardinality(Index!Above(a)) \in Nat
          /\ Index!Cardinality(Index!Above(n)) \in Nat
    BY <1>3, <2>2, IndexCardinality, FS_CardinalityType
  <2>4. QED BY <2>2, <2>3
<1>7. Index!Cardinality(Index!Above(a)) \in Nat
        /\ Index!Cardinality(Index!Above(n)) \in Nat
  BY <1>3, <1>6, IndexCardinality, FS_CardinalityType
<1>8. QED BY <1>6, <1>7 DEF Index!Depth

IndexFrames == [directory : Index!Places, children : SUBSET Index!Nodes]

LEMMA StacksPushed ==
  ASSUME NEW S, NEW s \in Seq(S), NEW f \in S
  PROVE  LET t == <<f>> \o s
         IN  /\ t \in Seq(S) /\ Len(t) = Len(s) + 1 /\ t[1] = f /\ t # <<>>
             /\ \A j \in DOMAIN t : j # 1 => j - 1 \in DOMAIN s /\ t[j] = s[j - 1]
             /\ \A j \in DOMAIN s : j + 1 \in DOMAIN t /\ t[j + 1] = s[j]
             /\ 1 \in DOMAIN t
OBVIOUS

LEMMA StacksPopped ==
  ASSUME NEW S, NEW s \in Seq(S), s # <<>>
  PROVE  /\ Tail(s) \in Seq(S) /\ Len(Tail(s)) = Len(s) - 1 /\ Head(s) = s[1]
         /\ 1 \in DOMAIN s /\ s[1] \in S
         /\ \A j \in DOMAIN Tail(s) : j + 1 \in DOMAIN s /\ Tail(s)[j] = s[j + 1]
         /\ \A j \in DOMAIN s :
              j # 1 => j - 1 \in DOMAIN Tail(s) /\ Tail(s)[j - 1] = s[j]
OBVIOUS

LEMMA StacksPassed ==
  ASSUME NEW S, NEW s \in Seq(S), s # <<>>, NEW f \in S
  PROVE  LET t == <<f>> \o Tail(s)
         IN  /\ t \in Seq(S) /\ DOMAIN t = DOMAIN s /\ t[1] = f /\ t # <<>>
             /\ \A j \in DOMAIN s : j # 1 => t[j] = s[j]
OBVIOUS

LEMMA TheNextChild ==
  ASSUME Index!FileIndexAssumption, Index!TypeOK, stack # <<>>,
         Head(stack).children # {}
  PROVE  /\ Index!NextChild \in Index!Nodes /\ Index!NextChild \in stack[1].children
         /\ \A c \in stack[1].children : Index!NextChild <= c
         /\ Index!PassChild \in Seq(IndexFrames)
         /\ DOMAIN Index!PassChild = DOMAIN stack
         /\ Index!PassChild # <<>>
         /\ Index!PassChild[1].directory = stack[1].directory
         /\ Index!PassChild[1].children = stack[1].children \ {Index!NextChild}
         /\ \A j \in DOMAIN stack : j # 1 => Index!PassChild[j] = stack[j]
<1>1. stack \in Seq(IndexFrames)
  BY DEF Index!TypeOK, IndexFrames
<1>2. Head(stack) = stack[1] /\ stack[1] \in IndexFrames /\ 1 \in DOMAIN stack
  BY <1>1, StacksPopped
<1>3. stack[1].children \subseteq Index!Nodes /\ Index!Nodes \subseteq Nat
  BY <1>2, PlacesAreNumbers DEF IndexFrames
<1>4. \E c \in stack[1].children : \A other \in stack[1].children : c <= other
  BY <1>2, <1>3, SmallestNumber
<1>5. /\ Index!NextChild \in stack[1].children
      /\ \A c \in stack[1].children : Index!NextChild <= c
  BY <1>2, <1>4 DEF Index!NextChild, Index!Min
<1> DEFINE f == Index!Frame(Head(stack).directory,
                  Head(stack).children \ {Index!NextChild})
<1>6. /\ f \in IndexFrames /\ f.directory = stack[1].directory
      /\ f.children = stack[1].children \ {Index!NextChild}
  BY <1>2, <1>3 DEF Index!Frame, IndexFrames
<1>7. Index!PassChild = <<f>> \o Tail(stack)
  BY DEF Index!PassChild
<1> HIDE DEF f
<1>8. QED BY <1>1, <1>3, <1>5, <1>6, <1>7, StacksPassed

(* A command that has not begun, or has been answered.                     *)
LEMMA AnswersKeep ==
  ASSUME Index!FileIndexAssumption, IndexInv, NEW result, Index!Answer(result),
         result \in {"ok", "failed", "invalid_input", "not_found",
           "not_a_directory"},
         UNCHANGED <<entries, limits, Index!treeVars>>, truncated' \in BOOLEAN,
         truncated' => result = "ok" /\ Len(entries) = limits.entries,
         result = "ok" =>
           \A n \in Index!Listable :
             ~truncated' \/ n < entries[Len(entries)] => n \in Index!Range(entries)
  PROVE  IndexInv'
<1>1. /\ stack' = <<>> /\ opening' = Index!Nowhere /\ indexed' = result
      /\ UNCHANGED <<entries, limits, tree, stable, changes>>
  BY DEF Index!Answer, Index!treeVars
<1>2. Index!TypeOK'
  BY <1>1 DEF IndexInv, Index!TypeOK
<1>3. ChildrenFit' /\ StackFits' /\ OpeningFits'
  BY <1>1 DEF ChildrenFit, StackFits, OpeningFits
<1>4. EntriesFit'
  BY <1>1 DEF IndexInv, EntriesFit
<1>5. AnswersFit'
  BY <1>1 DEF AnswersFit, IndexWalking
<1>6. Index!Listable' = Index!Listable
  BY <1>1 DEF Index!Listable
<1>7. NothingSkipped'
  BY <1>1, <1>6 DEF NothingSkipped, IndexWalking
<1>8. QED BY <1>2, <1>3, <1>4, <1>5, <1>7 DEF IndexInv

LEMMA BeginKeeps ==
  ASSUME Index!FileIndexAssumption, IndexInv,
         NEW maxEntries, NEW maxDepth \in DepthLimits,
           Index!Begin(maxEntries, maxDepth)
  PROVE  IndexInv'
<1>1. /\ indexed = "none" /\ stack = <<>> /\ opening' = 0
      /\ limits' = [entries |-> maxEntries, depth |-> maxDepth]
      /\ maxEntries \in 1..MaxIndexEntries /\ maxDepth \in 0..MaxIndexDepth
      /\ UNCHANGED <<stack, entries, truncated, indexed, tree, stable, changes>>
      /\ MaxIndexEntries \in Nat /\ entries = <<>> /\ ~truncated
  BY DEF Index!Begin, Index!treeVars, Index!FileIndexAssumption, IndexInv,
         AnswersFit, IndexWalking
<1>2. Index!TypeOK'
  BY <1>1 DEF IndexInv, Index!TypeOK, Index!Places
<1>3. ChildrenFit' /\ StackFits' /\ EntriesFit' /\ AnswersFit'
  BY <1>1
     DEF ChildrenFit, StackFits, EntriesFit, AnswersFit, IndexInv,
         IndexWalking, Index!Nowhere
<1>4. OpeningFits'
  <2>1. Index!Depth(0) < maxDepth
    <3>1. Index!Depth(0) = -1
      BY AboveIsParents, IndexCardinality, FS_EmptySet DEF Index!Depth
    <3>2. QED BY <1>1, <3>1
  <2>2. QED BY <1>1, <2>1 DEF OpeningFits
<1>5. NothingSkipped'
  <2>1. \A n \in Index!Nodes : 0 \in Index!Above(n)
    <3>1. \A n \in Index!Nodes : n \in Index!Places /\ n # 0
      BY PlacesAreNumbers
    <3>2. QED BY <3>1, AboveIsBefore
  <2>2. \A n \in Index!Listable' : n \in Index!Nodes
    BY DEF Index!Listable
  <2>3. QED
    BY <1>1, <2>1, <2>2 DEF NothingSkipped, IndexWalking, Ahead, Index!Nowhere
<1>6. QED BY <1>2, <1>3, <1>4, <1>5 DEF IndexInv

LEMMA OpenKeeps ==
  ASSUME Index!FileIndexAssumption, IndexInv, Index!Open
  PROVE  IndexInv'
<1> DEFINE f == Index!Frame(opening, Index!Children(opening))
<1>1. /\ opening # Index!Nowhere
      /\ stack' = <<f>> \o stack
      /\ opening' = Index!Nowhere
      /\ UNCHANGED <<entries, limits, truncated, indexed, tree, stable, changes>>
      /\ opening \in Index!Places
  BY DEF Index!Open, Index!treeVars, IndexInv, Index!TypeOK
<1>2. /\ f \in IndexFrames /\ f.directory = opening
      /\ f.children = Index!Children(opening)
  BY <1>1 DEF Index!Frame, IndexFrames, Index!Children
<1>3. stack \in Seq(IndexFrames)
  BY DEF IndexInv, Index!TypeOK, IndexFrames
<1> HIDE DEF f
<1>4. /\ stack' \in Seq(IndexFrames) /\ stack'[1] = f /\ stack' # <<>>
      /\ 1 \in DOMAIN stack'
      /\ \A j \in DOMAIN stack' :
           j # 1 => j - 1 \in DOMAIN stack /\ stack'[j] = stack[j - 1]
      /\ \A j \in DOMAIN stack : j + 1 \in DOMAIN stack' /\ stack'[j + 1] = stack[j]
  BY <1>1, <1>2, <1>3, StacksPushed
<1>5. PICK N \in Nat : /\ Index!Nodes = 1..N /\ Index!Places = 0..N
                       /\ \A k \in 1..N : Parent[k] \in 0..(k - 1)
  BY PlacesAreNumbers
<1>6. Index!TypeOK'
  BY <1>1, <1>4 DEF IndexInv, Index!TypeOK, IndexFrames
<1>7. ASSUME NEW c \in f.children
      PROVE  /\ c \in Index!Nodes /\ Parent[c] = opening /\ opening < c
             /\ Index!Depth(c) <= limits.depth
             /\ \A i \in DOMAIN entries : entries[i] < c
  <2>1. c \in Index!Nodes /\ Parent[c] = opening
    BY <1>2 DEF Index!Children
  <2>2. opening \in Nat /\ c \in Nat /\ opening < c
    BY <1>1, <1>5, <2>1
  <2>3. Index!Depth(opening) < limits.depth
          /\ \A i \in DOMAIN entries : entries[i] <= opening
    BY <1>1 DEF IndexInv, OpeningFits
  <2>4. Index!Depth(c) = Index!Depth(opening) + 1 /\ Index!Depth(opening) \in Int
    BY <2>1, DepthOfAChild
  <2>5. limits.depth \in Int
    BY DEF IndexInv, Index!TypeOK
  <2>6. \A i \in DOMAIN entries : entries[i] \in Nat
    BY <1>5, SMTT(30) DEF IndexInv, Index!TypeOK
  <2>7. QED BY <2>1, <2>2, <2>3, <2>4, <2>5, <2>6
<1>8. ChildrenFit'
  <2>1. ASSUME NEW j \in DOMAIN stack', NEW c \in stack'[j].children
        PROVE  /\ Parent[c] = stack'[j].directory /\ Index!Depth(c) <= limits.depth
               /\ \A i \in DOMAIN entries : entries[i] < c
    <3>1. CASE j = 1
      BY <1>2, <1>4, <1>7, <3>1
    <3>2. CASE j # 1
      BY <1>4, <3>2 DEF IndexInv, ChildrenFit
    <3>3. QED BY <3>1, <3>2
  <2>2. QED BY <1>1, <2>1 DEF ChildrenFit
<1>9. StackFits'
  <2>1. ASSUME NEW i \in DOMAIN stack', NEW j \in DOMAIN stack', i < j
        PROVE  /\ stack'[j].directory \in Index!Above(stack'[i].directory)
               /\ \A c \in stack'[j].children : stack'[i].directory < c
    <3>1. i \in Nat /\ j \in Nat /\ i >= 1 /\ j # 1
      BY <1>4, <2>1
    <3>2. j - 1 \in DOMAIN stack /\ stack'[j] = stack[j - 1]
      BY <1>4, <3>1
    <3>3. CASE i = 1
      BY <1>1, <1>2, <1>4, <3>2, <3>3 DEF IndexInv, OpeningFits
    <3>4. CASE i # 1
      <4>1. i - 1 \in DOMAIN stack /\ stack'[i] = stack[i - 1] /\ i - 1 < j - 1
        BY <1>4, <2>1, <3>1, <3>4
      <4>2. QED BY <3>2, <4>1 DEF IndexInv, StackFits
    <3>5. QED BY <3>3, <3>4
  <2>2. QED BY <2>1 DEF StackFits
<1>10. OpeningFits' /\ EntriesFit' /\ AnswersFit'
  BY <1>1, <1>4 DEF IndexInv, OpeningFits, EntriesFit, AnswersFit, IndexWalking
<1>11. NothingSkipped'
  <2>1. limits.entries > 0 /\ indexed = "none"
    BY <1>1 DEF IndexInv, NothingSkipped, IndexWalking, OpeningFits
  <2>2. ASSUME NEW n \in Index!Listable, n \notin Index!Range(entries)
        PROVE  \E j \in DOMAIN stack' :
                 \E c \in stack'[j].children : c = n \/ c \in Index!Above(n)
    <3>1. Ahead(n)
      BY <1>1, <2>2 DEF IndexInv, NothingSkipped, IndexWalking
    <3>2. CASE opening \in Index!Above(n)
      <4>1. n \in Index!Nodes /\ tree[n] \in Index!Listed
              /\ \A m \in Index!Above(n) : tree[m] = "directory"
        BY DEF Index!Listable
      <4>2. PICK c \in Index!Nodes :
                   Parent[c] = opening /\ (c = n \/ c \in Index!Above(n))
        BY <3>2, <4>1, ChildOnTheWay
      <4>3. c \in Index!Children(opening)
        BY <4>1, <4>2 DEF Index!Children, Index!Listed
      <4>4. QED BY <1>2, <1>4, <4>2, <4>3
    <3>3. CASE \E j \in DOMAIN stack :
                 \E c \in stack[j].children : c = n \/ c \in Index!Above(n)
      BY <1>4, <3>3
    <3>4. QED BY <3>1, <3>2, <3>3 DEF Ahead
  <2>3. Index!Listable' = Index!Listable
    BY <1>1 DEF Index!Listable
  <2>4. QED BY <1>1, <2>1, <2>2, <2>3 DEF NothingSkipped, Ahead
<1>12. QED BY <1>6, <1>8, <1>9, <1>10, <1>11 DEF IndexInv

(* The other frames of the stack stay, the innermost passes one child.     *)
LEMMA PassingKeeps ==
  ASSUME Index!FileIndexAssumption, IndexInv, Index!Visiting,
         Head(stack).children # {}
  PROVE  /\ Index!NextChild \in Index!Nodes /\ Index!NextChild \in stack[1].children
         /\ 1 \in DOMAIN stack
         /\ Parent[Index!NextChild] = stack[1].directory
         /\ indexed = "none" /\ ~truncated /\ limits.entries > 0
         /\ Index!PassChild \in Seq(IndexFrames) /\ Index!PassChild # <<>>
         /\ \A j \in DOMAIN Index!PassChild :
              /\ j \in DOMAIN stack
              /\ Index!PassChild[j].directory = stack[j].directory
              /\ Index!PassChild[j].children \subseteq stack[j].children
              /\ \A c \in Index!PassChild[j].children : Index!NextChild < c
         /\ \A j \in DOMAIN stack : \A c \in stack[j].children :
              c # Index!NextChild
                => j \in DOMAIN Index!PassChild /\ c \in Index!PassChild[j].children
<1>1. stack # <<>>
  BY DEF Index!Visiting
<1>2. /\ Index!NextChild \in Index!Nodes /\ Index!NextChild \in stack[1].children
      /\ \A c \in stack[1].children : Index!NextChild <= c
      /\ Index!PassChild \in Seq(IndexFrames)
      /\ DOMAIN Index!PassChild = DOMAIN stack
      /\ Index!PassChild # <<>>
      /\ Index!PassChild[1].directory = stack[1].directory
      /\ Index!PassChild[1].children = stack[1].children \ {Index!NextChild}
      /\ \A j \in DOMAIN stack : j # 1 => Index!PassChild[j] = stack[j]
  BY <1>1, TheNextChild DEF IndexInv
<1>3. PICK N \in Nat : /\ Index!Nodes = 1..N /\ Index!Places = 0..N
                       /\ \A k \in 1..N : Parent[k] \in 0..(k - 1)
  BY PlacesAreNumbers
<1>4. stack \in Seq(IndexFrames)
  BY DEF IndexInv, Index!TypeOK, IndexFrames
<1>5. \A j \in DOMAIN stack :
        j \in Nat /\ j >= 1 /\ stack[j].children \subseteq Index!Nodes
                              /\ stack[j].directory \in Index!Places
  <2>1. \A j \in DOMAIN stack : j \in Nat /\ j >= 1 /\ stack[j] \in IndexFrames
    BY <1>4
  <2>2. QED BY <2>1 DEF IndexFrames
<1>6. 1 \in DOMAIN stack /\ Parent[Index!NextChild] = stack[1].directory
  BY <1>1, <1>2, <1>4, StacksPopped DEF IndexInv, ChildrenFit
<1>7. ASSUME NEW j \in DOMAIN stack, NEW c \in Index!PassChild[j].children
      PROVE  Index!NextChild < c
  <2>1. CASE j = 1
    <3>1. c \in stack[1].children /\ c # Index!NextChild /\ c \in Index!Nodes
      BY <1>2, <1>5, <1>6, <1>7, <2>1
    <3>2. QED BY <1>2, <1>3, <3>1
  <2>2. CASE j # 1
    <3> DEFINE d == stack[1].directory
    <3>1. j \in Nat /\ 1 < j /\ c \in stack[j].children /\ c \in Index!Nodes
      BY <1>2, <1>5, <1>7, <2>2
    <3>2. stack[j].directory \in Index!Above(d) /\ d < c
            /\ Parent[c] = stack[j].directory
      BY <1>6, <3>1 DEF IndexInv, StackFits, ChildrenFit
    <3>3. d \in Index!Above(Index!NextChild) /\ d \in Index!Places
      BY <1>2, <1>5, <1>6, AboveIsParents
    <3>4. d \in Index!Nodes /\ Parent[c] < d
      <4>1. Index!Above(d) \subseteq 0..(d - 1)
        BY <3>3, AboveIsBefore
      <4>2. QED BY <1>3, <3>2, <3>3, <4>1
    <3> HIDE DEF d
    <3>5. QED BY <1>2, <3>1, <3>2, <3>3, <3>4, SiblingsAreAfter
  <2>3. QED BY <2>1, <2>2
<1>8. indexed = "none" /\ ~truncated /\ limits.entries > 0
  BY <1>1 DEF IndexInv, AnswersFit, NothingSkipped, IndexWalking
<1>9. QED BY <1>2, <1>6, <1>7, <1>8

LEMMA SkipKeeps ==
  ASSUME Index!FileIndexAssumption, IndexInv, Index!Skip
  PROVE  IndexInv'
<1> DEFINE k == Index!NextChild
<1>1. /\ Index!Visiting /\ opening = Index!Nowhere /\ stack' = Index!PassChild
      /\ tree[k] \notin Index!Listed
      /\ Head(stack).children # {} /\ stack # <<>>
      /\ UNCHANGED <<opening, entries, limits, truncated, indexed, tree, stable,
           changes>>
  BY DEF Index!Skip, Index!Visiting, Index!treeVars
<1>2. /\ k \in Index!Nodes /\ k \in stack[1].children /\ 1 \in DOMAIN stack
      /\ indexed = "none" /\ ~truncated /\ limits.entries > 0
      /\ stack' \in Seq(IndexFrames) /\ stack' # <<>>
      /\ \A j \in DOMAIN stack' :
           /\ j \in DOMAIN stack
           /\ stack'[j].directory = stack[j].directory
           /\ stack'[j].children \subseteq stack[j].children
      /\ \A j \in DOMAIN stack : \A c \in stack[j].children :
           c # k => j \in DOMAIN stack' /\ c \in stack'[j].children
  BY <1>1, PassingKeeps
<1> HIDE DEF k
<1>3. Index!TypeOK'
  BY <1>1, <1>2 DEF IndexInv, Index!TypeOK, IndexFrames
<1>4. ChildrenFit'
  BY <1>1, <1>2 DEF IndexInv, ChildrenFit
<1>5. StackFits'
  BY <1>1, <1>2 DEF IndexInv, StackFits
<1>6. OpeningFits' /\ EntriesFit' /\ AnswersFit'
  BY <1>1, <1>2 DEF IndexInv, OpeningFits, EntriesFit, AnswersFit, IndexWalking
<1>7. NothingSkipped'
  <2>1. ASSUME NEW n \in Index!Listable, n \notin Index!Range(entries)
        PROVE  \E j \in DOMAIN stack' :
                 \E c \in stack'[j].children : c = n \/ c \in Index!Above(n)
    <3>1. PICK j \in DOMAIN stack :
                 \E c \in stack[j].children : c = n \/ c \in Index!Above(n)
      BY <1>1, <2>1 DEF IndexInv, NothingSkipped, IndexWalking, Ahead
    <3>2. PICK c \in stack[j].children : c = n \/ c \in Index!Above(n)
      BY <3>1
    <3>3. c # k
      BY <1>1, <3>2 DEF Index!Listable, Index!Listed
    <3>4. QED BY <1>2, <3>2, <3>3
  <2>2. Index!Listable' = Index!Listable
    BY <1>1 DEF Index!Listable
  <2>3. QED BY <1>1, <1>2, <2>1, <2>2 DEF NothingSkipped, Ahead
<1>8. QED BY <1>3, <1>4, <1>5, <1>6, <1>7 DEF IndexInv

LEMMA ListKeeps ==
  ASSUME Index!FileIndexAssumption, IndexInv, Index!List
  PROVE  IndexInv'
<1> DEFINE k == Index!NextChild
<1>1. /\ Index!Visiting /\ opening = Index!Nowhere /\ stack' = Index!PassChild
      /\ tree[k] \in Index!Listed
      /\ Head(stack).children # {} /\ stack # <<>> /\ Len(entries) < limits.entries
      /\ entries' = Append(entries, k)
      /\ opening' = IF tree[k] # "file"
           /\ Index!Depth(k) < limits.depth THEN k ELSE Index!Nowhere
      /\ UNCHANGED <<limits, truncated, indexed, tree, stable, changes>>
  BY DEF Index!List, Index!Visiting, Index!treeVars
<1>2. /\ k \in Index!Nodes /\ k \in stack[1].children /\ 1 \in DOMAIN stack
      /\ Parent[k] = stack[1].directory
      /\ indexed = "none" /\ ~truncated /\ limits.entries > 0
      /\ stack' \in Seq(IndexFrames) /\ stack' # <<>>
      /\ \A j \in DOMAIN stack' :
           /\ j \in DOMAIN stack
           /\ stack'[j].directory = stack[j].directory
           /\ stack'[j].children \subseteq stack[j].children
           /\ \A c \in stack'[j].children : k < c
      /\ \A j \in DOMAIN stack : \A c \in stack[j].children :
           c # k => j \in DOMAIN stack' /\ c \in stack'[j].children
  BY <1>1, PassingKeeps
<1> HIDE DEF k
<1>3. PICK N \in Nat : /\ Index!Nodes = 1..N /\ Index!Places = 0..N
                       /\ \A m \in 1..N : Parent[m] \in 0..(m - 1)
  BY PlacesAreNumbers
<1>4. /\ entries \in Seq(Index!Nodes) /\ entries' \in Seq(Index!Nodes)
      /\ Len(entries') = Len(entries) + 1 /\ Len(entries) \in Nat
      /\ DOMAIN entries' = 1..Len(entries) + 1 /\ DOMAIN entries = 1..Len(entries)
      /\ \A i \in 1..Len(entries) : entries'[i] = entries[i]
      /\ entries'[Len(entries) + 1] = k
  <2>1. entries \in Seq(Index!Nodes)
    BY DEF IndexInv, Index!TypeOK
  <2>2. QED BY <1>1, <1>2, <2>1
<1>5. \A i \in DOMAIN entries' :
        (i \in DOMAIN entries /\ entries'[i] = entries[i]) \/ entries'[i] = k
  BY <1>4
<1>6. /\ \A i \in DOMAIN entries : entries[i] < k
      /\ Index!Depth(k) <= limits.depth
  BY <1>2 DEF IndexInv, ChildrenFit
<1>7. Index!TypeOK'
  <2>1. opening' \in Index!Places \cup {Index!Nowhere}
    BY <1>1, <1>2, <1>3
  <2>2. QED BY <1>1, <1>2, <1>4, <2>1 DEF IndexInv, Index!TypeOK, IndexFrames
<1>8. ChildrenFit'
  <2>1. ASSUME NEW j \in DOMAIN stack', NEW c \in stack'[j].children
        PROVE  /\ Parent[c] = stack'[j].directory /\ Index!Depth(c) <= limits.depth
               /\ \A i \in DOMAIN entries' : entries'[i] < c
    <3>1. j \in DOMAIN stack /\ c \in stack[j].children /\ k < c
          /\ stack'[j].directory = stack[j].directory
      BY <1>2
    <3>2. /\ Parent[c] = stack[j].directory /\ Index!Depth(c) <= limits.depth
          /\ \A i \in DOMAIN entries : entries[i] < c
      BY <3>1 DEF IndexInv, ChildrenFit
    <3>3. QED BY <1>5, <3>1, <3>2
  <2>2. QED BY <1>1, <2>1 DEF ChildrenFit
<1>9. StackFits'
  BY <1>2 DEF IndexInv, StackFits
<1>10. OpeningFits'
  <2>1. SUFFICES ASSUME opening' # Index!Nowhere
                 PROVE  /\ indexed' = "none"
                        /\ Index!Depth(opening') < limits'.depth
                        /\ \A i \in DOMAIN entries' : entries'[i] <= opening'
                        /\ \A j \in DOMAIN stack' :
                             /\ stack'[j].directory \in Index!Above(opening')
                             /\ \A c \in stack'[j].children : opening' < c
    BY DEF OpeningFits
  <2>2. opening' = k /\ Index!Depth(k) < limits.depth
    BY <1>1, <2>1
  <2>3. \A i \in DOMAIN entries' : entries'[i] <= k
    <3>1. k \in Nat /\ \A i \in DOMAIN entries : entries[i] \in Nat
      <4>1. k \in Nat
        BY <1>2, <1>3
      <4>2. ASSUME NEW i \in DOMAIN entries PROVE entries[i] \in Nat
        <5>1. entries \in Seq(Index!Nodes)
          BY <1>4
        <5>2. entries[i] \in Index!Nodes
          BY <5>1
        <5>3. QED BY <1>3, <5>2
      <4>3. QED BY <4>1, <4>2
    <3>2. QED BY <1>5, <1>6, <3>1
  <2>4. \A j \in DOMAIN stack : stack[j].directory \in Index!Above(k)
    <3>1. Index!Above(k) = {Parent[k]} \cup Index!Above(Parent[k])
      BY <1>2, AboveIsParents
    <3>2. ASSUME NEW j \in DOMAIN stack, j # 1
          PROVE  stack[j].directory \in Index!Above(stack[1].directory)
      <4>1. j \in Nat /\ 1 < j
        BY <3>2 DEF IndexInv, Index!TypeOK
      <4>2. QED BY <1>2, <4>1 DEF IndexInv, StackFits
    <3>3. QED BY <1>2, <3>1, <3>2
  <2>5. QED BY <1>1, <1>2, <2>2, <2>3, <2>4
<1>11. EntriesFit'
  <2>1. ASSUME NEW i \in DOMAIN entries', NEW j \in DOMAIN entries', i < j
        PROVE  entries'[i] < entries'[j]
    BY <1>4, <1>6, <2>1 DEF IndexInv, EntriesFit
  <2>2. \A i \in DOMAIN entries' : Index!Depth(entries'[i]) <= limits.depth
    BY <1>5, <1>6 DEF IndexInv, EntriesFit
  <2>3. Len(entries') <= limits.entries
    <3>1. limits.entries \in Nat
      BY DEF IndexInv, Index!TypeOK
    <3>2. QED BY <1>1, <1>4, <3>1
  <2>4. QED BY <1>1, <2>1, <2>2, <2>3 DEF EntriesFit
<1>12. AnswersFit'
  BY <1>1, <1>2 DEF AnswersFit, IndexWalking
<1>13. NothingSkipped'
  <2>1. ASSUME NEW n \in Index!Listable, n \notin Index!Range(entries')
        PROVE  Ahead(n)'
    <3>1. n \notin Index!Range(entries) /\ n # k
      <4>1. \A i \in DOMAIN entries' : entries'[i] # n
        BY <2>1 DEF Index!Range
      <4>2. QED BY <1>4, <4>1 DEF Index!Range
    <3>2. PICK j \in DOMAIN stack :
                 \E c \in stack[j].children : c = n \/ c \in Index!Above(n)
      BY <1>1, <3>1 DEF IndexInv, NothingSkipped, IndexWalking, Ahead
    <3>3. PICK c \in stack[j].children : c = n \/ c \in Index!Above(n)
      BY <3>2
    <3>4. CASE c # k
      BY <1>2, <3>3, <3>4 DEF Ahead
    <3>5. CASE c = k
      <4>1. k \in Index!Above(n) /\ n \in Index!Nodes
        BY <3>1, <3>3, <3>5 DEF Index!Listable
      <4>2. tree[k] = "directory" /\ Index!Depth(n) <= limits.depth
        BY <4>1 DEF Index!Listable
      <4>3. Index!Depth(k) < Index!Depth(n) /\ Index!Depth(k) \in Int
              /\ Index!Depth(n) \in Int
        BY <4>1, AboveIsLessDeep, DepthOfAChild
      <4>4. limits.depth \in Int
        BY DEF IndexInv, Index!TypeOK
      <4>5. opening' = k /\ k # Index!Nowhere
        BY <1>1, <1>2, <1>3, <4>2, <4>3, <4>4 DEF Index!Nowhere
      <4>6. QED BY <4>1, <4>5 DEF Ahead
    <3>6. QED BY <3>4, <3>5
  <2>2. Index!Listable' = Index!Listable
    BY <1>1 DEF Index!Listable
  <2>3. QED BY <1>1, <1>2, <2>1, <2>2 DEF NothingSkipped
<1>14. QED BY <1>7, <1>8, <1>9, <1>10, <1>11, <1>12, <1>13 DEF IndexInv

LEMMA LeaveKeeps ==
  ASSUME Index!FileIndexAssumption, IndexInv, Index!Leave
  PROVE  IndexInv'
<1>1. /\ opening = Index!Nowhere /\ stack # <<>> /\ Head(stack).children = {}
      /\ UNCHANGED <<entries, limits, truncated, tree, stable, changes>>
      /\ IF Len(stack) = 1 THEN Index!Answer("ok")
                           ELSE stack' = Tail(stack)
                                  /\ UNCHANGED <<opening, indexed>>
  BY DEF Index!Leave, Index!Visiting, Index!treeVars
<1>2. stack \in Seq(IndexFrames)
  BY DEF IndexInv, Index!TypeOK, IndexFrames
<1>3. stack[1].children = {} /\ 1 \in DOMAIN stack
  BY <1>1, <1>2, StacksPopped
<1>4. indexed = "none" /\ ~truncated /\ limits.entries > 0
  BY <1>1 DEF IndexInv, AnswersFit, NothingSkipped, IndexWalking
<1>5. ASSUME NEW n \in Index!Listable, n \notin Index!Range(entries)
      PROVE  \E j \in DOMAIN stack :
               j # 1 /\ \E c \in stack[j].children : c = n \/ c \in Index!Above(n)
  BY <1>1, <1>3, <1>5 DEF IndexInv, NothingSkipped, IndexWalking, Ahead
<1>6. CASE Len(stack) = 1
  <2>1. DOMAIN stack = {1}
    BY <1>2, <1>6
  <2>2. \A n \in Index!Listable : n \in Index!Range(entries)
    BY <1>5, <2>1
  <2>3. UNCHANGED Index!treeVars /\ truncated' \in BOOLEAN
    BY <1>1 DEF Index!treeVars, IndexInv, Index!TypeOK
  <2>4. QED BY <1>1, <1>4, <1>6, <2>2, <2>3, AnswersKeep
<1>7. CASE Len(stack) # 1
  <2>1. stack' = Tail(stack) /\ opening' = opening /\ indexed' = indexed
    BY <1>1, <1>7
  <2>2. /\ stack' \in Seq(IndexFrames)
        /\ \A j \in DOMAIN stack' :
             j \in Nat /\ j + 1 \in DOMAIN stack /\ stack'[j] = stack[j + 1]
        /\ \A j \in DOMAIN stack :
             j # 1 => j - 1 \in DOMAIN stack' /\ stack'[j - 1] = stack[j]
    BY <1>1, <1>2, <2>1, StacksPopped
  <2>3. stack' # <<>>
    <3>1. DOMAIN stack = 1..Len(stack) /\ Len(stack) \in Nat
      BY <1>2
    <3>2. 2 \in DOMAIN stack
      BY <1>3, <1>7, <3>1
    <3>3. 2 - 1 \in DOMAIN stack'
      BY <2>2, <3>2
    <3>4. QED BY <3>3
  <2>4. Index!TypeOK'
    BY <1>1, <2>1, <2>2 DEF IndexInv, Index!TypeOK, IndexFrames
  <2>5. ChildrenFit'
    BY <1>1, <2>2 DEF IndexInv, ChildrenFit
  <2>6. StackFits'
    <3>1. ASSUME NEW i \in DOMAIN stack', NEW j \in DOMAIN stack', i < j
          PROVE  /\ stack'[j].directory \in Index!Above(stack'[i].directory)
                 /\ \A c \in stack'[j].children : stack'[i].directory < c
      <4>1. i + 1 < j + 1 /\ i + 1 \in DOMAIN stack /\ j + 1 \in DOMAIN stack
            /\ stack'[i] = stack[i + 1] /\ stack'[j] = stack[j + 1]
        BY <2>2, <3>1
      <4>2. QED BY <4>1 DEF IndexInv, StackFits
    <3>2. QED BY <3>1 DEF StackFits
  <2>7. OpeningFits' /\ EntriesFit' /\ AnswersFit'
    BY <1>1, <1>4, <2>1, <2>3
       DEF IndexInv, OpeningFits, EntriesFit, AnswersFit, IndexWalking
  <2>8. \A n \in Index!Listable : n \in Index!Range(entries) \/ Ahead(n)'
    BY <1>5, <2>2 DEF Ahead
  <2>9. Index!Listable' = Index!Listable
    BY <1>1 DEF Index!Listable
  <2>10. NothingSkipped'
    BY <1>1, <1>4, <2>1, <2>8, <2>9 DEF NothingSkipped
  <2>11. QED BY <2>4, <2>5, <2>6, <2>7, <2>10 DEF IndexInv
<1>8. QED BY <1>6, <1>7

LEMMA TruncateKeeps ==
  ASSUME Index!FileIndexAssumption, IndexInv, Index!Truncate
  PROVE  IndexInv'
<1>1. /\ Index!Visiting /\ opening = Index!Nowhere /\ stack # <<>>
      /\ Len(entries) >= limits.entries
      /\ Index!Answer("ok") /\ truncated' = TRUE
      /\ UNCHANGED <<entries, limits, Index!treeVars>>
  BY DEF Index!Truncate, Index!Visiting
<1>2. PICK N \in Nat : /\ Index!Nodes = 1..N /\ Index!Places = 0..N
                       /\ \A m \in 1..N : Parent[m] \in 0..(m - 1)
  BY PlacesAreNumbers
<1>3. /\ entries \in Seq(Index!Nodes) /\ Len(entries) \in Nat
      /\ DOMAIN entries = 1..Len(entries)
      /\ limits.entries \in Nat /\ limits.entries > 0
      /\ Len(entries) <= limits.entries
  BY <1>1 DEF IndexInv, Index!TypeOK, EntriesFit, NothingSkipped, IndexWalking
<1>4. Len(entries) \in DOMAIN entries
      /\ entries[Len(entries)] \in Nat
  BY <1>1, <1>2, <1>3
<1>5. ASSUME NEW n \in Index!Listable, n < entries[Len(entries)],
             n \notin Index!Range(entries)
      PROVE  FALSE
  <2>1. PICK j \in DOMAIN stack :
               \E c \in stack[j].children : c = n \/ c \in Index!Above(n)
    BY <1>1, <1>5 DEF IndexInv, NothingSkipped, IndexWalking, Ahead
  <2>2. PICK c \in stack[j].children : c = n \/ c \in Index!Above(n)
    BY <2>1
  <2>3. entries[Len(entries)] < c
    BY <1>4 DEF IndexInv, ChildrenFit
  <2>4. n \in Index!Nodes /\ c \in Index!Nodes
    <3>1. stack \in Seq(IndexFrames)
      BY DEF IndexInv, Index!TypeOK, IndexFrames
    <3>2. stack[j].children \subseteq Index!Nodes
      <4>1. stack[j] \in IndexFrames
        BY <3>1
      <4>2. QED BY <4>1 DEF IndexFrames
    <3>3. QED BY <3>2 DEF Index!Listable
  <2>5. c <= n
    <3>1. Index!Above(n) \subseteq 0..(n - 1)
      BY <1>2, <2>4, AboveIsBefore
    <3>2. QED BY <1>2, <2>2, <2>4, <3>1
  <2>6. QED BY <1>2, <1>4, <1>5, <2>3, <2>4, <2>5
<1>6. truncated' \in BOOLEAN /\ Len(entries) = limits.entries
  BY <1>1, <1>3
<1>7. QED BY <1>1, <1>5, <1>6, AnswersKeep

LEMMA OpenFailsKeeps ==
  ASSUME Index!FileIndexAssumption, IndexInv, Index!OpenFails
  PROVE  IndexInv'
<1>1. /\ opening # Index!Nowhere /\ Index!Answer("failed")
      /\ UNCHANGED <<entries, limits, truncated, Index!treeVars>>
      /\ truncated \in BOOLEAN
  BY DEF Index!OpenFails, IndexInv, Index!TypeOK
<1>2. ~truncated
  BY <1>1 DEF IndexInv, OpeningFits, AnswersFit
<1>3. QED BY <1>1, <1>2, AnswersKeep

LEMMA RefuseKeeps ==
  ASSUME Index!FileIndexAssumption, IndexInv, NEW maxEntries, NEW maxDepth,
         NEW error \in {"invalid_input", "not_found", "not_a_directory"},
         Index!Refuse(maxEntries, maxDepth, error)
  PROVE  IndexInv'
<1>1. /\ indexed = "none" /\ Index!Answer(error)
      /\ UNCHANGED <<entries, limits, truncated, Index!treeVars>>
      /\ truncated \in BOOLEAN
  BY DEF Index!Refuse, IndexInv, Index!TypeOK
<1>2. ~truncated
  BY <1>1 DEF IndexInv, AnswersFit
<1>3. QED BY <1>1, <1>2, AnswersKeep

LEMMA ChangeKeeps ==
  ASSUME Index!FileIndexAssumption, IndexInv, NEW n \in Index!Nodes,
         NEW kind \in Index!EntryKinds,
         Index!Change(n, kind)
  PROVE  IndexInv'
<1>1. /\ indexed = "none" /\ changes < MaxChanges
      /\ tree' = [m \in Index!Places |->
                    IF m = n THEN kind
                    ELSE IF kind = "absent" /\ n \in Index!Above(m) THEN "absent"
                    ELSE tree[m]]
      /\ stable' = {m \in stable : m # n /\ n \notin Index!Above(m)}
      /\ changes' = changes + 1
      /\ UNCHANGED <<stack, opening, entries, limits, truncated, indexed>>
  BY DEF Index!Change, Index!walkVars
<1>2. MaxChanges \in Nat /\ changes \in Nat /\ changes + 1 \in 0..MaxChanges
  BY <1>1 DEF IndexInv, Index!TypeOK, Index!FileIndexAssumption
<1>3. Index!TypeOK'
  <2>1. tree' \in [Index!Places -> Index!EntryKinds]
    <3>1. "absent" \in Index!EntryKinds
      BY DEF Index!EntryKinds
    <3>2. tree \in [Index!Places -> Index!EntryKinds]
      BY DEF IndexInv, Index!TypeOK
    <3>3. QED BY <1>1, <3>1, <3>2
  <2>2. QED BY <1>1, <1>2, <2>1 DEF IndexInv, Index!TypeOK
<1>4. /\ ChildrenFit' /\ StackFits' /\ EntriesFit' /\ AnswersFit'
      /\ OpeningFits'
  BY <1>1
     DEF IndexInv, ChildrenFit, StackFits, EntriesFit, AnswersFit, OpeningFits,
         IndexWalking
<1>5. Index!Listable' \subseteq Index!Listable
  <2>1. ASSUME NEW m \in Index!Places, m \in stable'
        PROVE  m \in stable /\ tree'[m] = tree[m]
    BY <1>1, <2>1
  <2>2. ASSUME NEW m \in Index!Listable'
        PROVE  m \in Index!Listable
    <3>1. /\ m \in stable' \cap Index!Nodes
          /\ tree'[m] \in Index!Listed /\ Index!Depth(m) <= limits.depth
          /\ \A a \in Index!Above(m) : tree'[a] = "directory" /\ a \in stable'
      BY <1>1, <2>2 DEF Index!Listable
    <3>2. Index!Above(m) \subseteq Index!Places /\ m \in Index!Places
      BY <3>1, AboveIsBefore DEF Index!Places
    <3>3. QED BY <2>1, <3>1, <3>2 DEF Index!Listable
  <2>3. QED BY <2>2
<1>6. NothingSkipped'
  <2>1. \A m : Ahead(m)' <=> Ahead(m)
    BY <1>1 DEF Ahead
  <2>2. QED BY <1>1, <1>5, <2>1 DEF IndexInv, NothingSkipped, IndexWalking
<1>7. QED BY <1>3, <1>4, <1>6 DEF IndexInv

LEMMA InitIndex ==
  ASSUME Index!FileIndexAssumption, Index!Init
  PROVE  IndexInv
<1>1. Index!TypeOK
  <2>1. /\ tree \in [Index!Places -> Index!EntryKinds] /\ 0 \in 0..MaxIndexEntries
        /\ 0 \in 0..MaxIndexDepth /\ 0 \in 0..MaxChanges
    BY DEF Index!Init, Index!FileIndexAssumption
  <2>2. <<>> \in Seq([directory : Index!Places, children : SUBSET Index!Nodes])
          /\ <<>> \in Seq(Index!Nodes)
    OBVIOUS
  <2>3. QED BY <2>1, <2>2 DEF Index!Init, Index!TypeOK
<1>2. QED
  BY <1>1
     DEF Index!Init, IndexInv, ChildrenFit, StackFits, OpeningFits, EntriesFit,
         AnswersFit, NothingSkipped, IndexWalking

LEMMA IndexInvKept ==
  ASSUME Index!FileIndexAssumption, IndexInv, [Index!Next]_Index!vars
  PROVE  IndexInv'
<1>1. CASE UNCHANGED Index!vars
  <2>1. UNCHANGED <<stack, opening, entries, limits, truncated, indexed, tree,
          stable, changes>>
    BY <1>1 DEF Index!vars, Index!walkVars, Index!treeVars
  <2>2. Index!Listable' = Index!Listable /\ \A n : Ahead(n)' <=> Ahead(n)
    BY <2>1 DEF Index!Listable, Ahead
  <2>3. QED
    BY <2>1, <2>2
       DEF IndexInv, Index!TypeOK, ChildrenFit, StackFits, OpeningFits,
           EntriesFit, AnswersFit, NothingSkipped, IndexWalking
<1>2. QED
  BY <1>1, BeginKeeps, RefuseKeeps, OpenKeeps, OpenFailsKeeps, TruncateKeeps,
     SkipKeeps, ListKeeps, LeaveKeeps, ChangeKeeps
     DEF Index!Next, Index!Answered

LEMMA IndexIsRight ==
  ASSUME Index!FileIndexAssumption, IndexInv
  PROVE  Index!TypeOK /\ Index!IndexIsPrefixOfTree
BY DEF IndexInv, EntriesFit, AnswersFit, NothingSkipped,
       Index!IndexIsPrefixOfTree, Index!Range

LEMMA IndexHolds ==
  ASSUME Index!FileIndexAssumption
  PROVE  Index!Spec => [](Index!TypeOK /\ Index!IndexIsPrefixOfTree)
<1>1. Index!Init => IndexInv
  BY InitIndex
<1>2. IndexInv /\ [Index!Next]_Index!vars => IndexInv'
  BY IndexInvKept
<1>3. IndexInv => Index!TypeOK /\ Index!IndexIsPrefixOfTree
  BY IndexIsRight
<1>4. QED BY <1>1, <1>2, <1>3, PTL DEF Index!Spec
=============================================================================
