------------------------------ MODULE EventBus ------------------------------
(***************************************************************************)
(* EventBus of application/event_bus.rs: publishers assign sequence        *)
(* numbers and send under one lock; every subscriber reads through its own *)
(* cursor, filters by kind, and is told Lagged(n) when the channel has     *)
(* overwritten n events it had not read.                                   *)
(*                                                                         *)
(* The channel is tokio's broadcast, which is not part of the repository:  *)
(* a ring that retains the last Slots events sent while somebody was       *)
(* subscribed.  It is kept here as the whole log of what was sent, of      *)
(* which only the last Slots positions can be read.                        *)
(***************************************************************************)
EXTENDS Integers, Sequences

CONSTANTS
  Publishers,   (* threads that publish                                     *)
  Subscribers,  (* holders of an EventSubscriber                            *)
  Kinds,        (* EventKind                                                *)
  Filters,      (* the kind sets used with subscribe_to, Kinds for          *)
                (* subscribe                                                *)
  Slots,        (* slots of the ring: the capacity given to EventBus::new,  *)
                (* rounded up to a power of two by tokio                    *)
  MaxSequence,  (* bound: how many events are published                     *)
  Nobody        (* no publisher                                             *)

ASSUME EventBusAssumption ==
  /\ Filters \subseteq (SUBSET Kinds) \ {{}}
  /\ Slots \in Nat \ {0}
  /\ MaxSequence \in Nat
  /\ Nobody \notin Publishers

VARIABLES
  publishLock,   (* the publisher that holds publish_lock                   *)
  nextSequence,  (* next_sequence                                           *)
  sending,       (* the envelope each publisher is publishing; sequence 0   *)
                 (* until one is assigned                                   *)
  sent,          (* the envelopes the channel accepted, in order            *)
  open,          (* some clone of the bus still exists                      *)
  kinds,         (* the filter of each subscriber, {} when it has none      *)
  start,         (* position of the first event it can get                  *)
  cursor,        (* position of the next event it reads                     *)
  calling,       (* the receive call each subscriber is in                  *)
  seen           (* what its calls returned: envelopes, Lagged and Closed   *)

publisherVars == <<publishLock, nextSequence, sending>>
channelVars == <<sent, open>>
subscriberVars == <<kinds, start, cursor, calling, seen>>
vars == <<publisherVars, channelVars, subscriberVars>>

Envelope(sequence, kind) ==
  [type |-> "event", sequence |-> sequence, kind |-> kind]
Lagged(skipped) == [type |-> "lagged", skipped |-> skipped]
Closed == [type |-> "closed"]

Envelopes == {Envelope(n, kind) : n \in 1..MaxSequence, kind \in Kinds}
Drafts == {Envelope(0, kind) : kind \in Kinds}
Reports == Envelopes \cup {Lagged(n) : n \in 1..MaxSequence} \cup {Closed}
Nothing == [type |-> "nothing"]

Init ==
  /\ publishLock = Nobody
  /\ nextSequence = 1
  /\ sending = [p \in Publishers |-> Nothing]
  /\ sent = <<>>
  /\ open = TRUE
  /\ kinds = [s \in Subscribers |-> {}]
  /\ start = [s \in Subscribers |-> 1]
  /\ cursor = [s \in Subscribers |-> 1]
  /\ calling = [s \in Subscribers |-> "idle"]
  /\ seen = [s \in Subscribers |-> <<>>]

Subscribed(s) == kinds[s] # {}
Accepts(s, envelope) == envelope.kind \in kinds[s]
Told(s, report) == \E i \in DOMAIN seen[s] : seen[s][i] = report

-----------------------------------------------------------------------------
(* publish.                                                                *)

(* Faulty variant: sequence assignment and send are not serialised. *)
LockPublishUnguarded(p, kind) ==
  /\ open /\ nextSequence <= MaxSequence
  /\ sending[p] = Nothing
  /\ publishLock' = p
  /\ sending' = [sending EXCEPT ![p] = Envelope(0, kind)]
  /\ UNCHANGED <<nextSequence, channelVars, subscriberVars>>

LockPublish(p, kind) ==
  /\ open /\ nextSequence <= MaxSequence
  /\ sending[p] = Nothing
  /\ publishLock = Nobody
  /\ publishLock' = p
  /\ sending' = [sending EXCEPT ![p] = Envelope(0, kind)]
  /\ UNCHANGED <<nextSequence, channelVars, subscriberVars>>

(* Faulty variant: the number after the increment is stamped. *)
AssignSequenceAfter(p) ==
  /\ sending[p] \in Drafts
  /\ nextSequence' = nextSequence + 1
  /\ sending' = [sending EXCEPT ![p].sequence = nextSequence']
  /\ UNCHANGED <<publishLock, channelVars, subscriberVars>>

AssignSequence(p) ==
  /\ sending[p] \in Drafts
  /\ nextSequence <= MaxSequence
  /\ sending' = [sending EXCEPT ![p].sequence = nextSequence]
  /\ nextSequence' = nextSequence + 1
  /\ UNCHANGED <<publishLock, channelVars, subscriberVars>>

(* The channel refuses an event nobody is subscribed to; publish ignores   *)
(* the refusal.                                                            *)
Offer(envelope) ==
  sent' = IF \E s \in Subscribers : Subscribed(s) THEN Append(sent, envelope)
                                                  ELSE sent

(* send, and the end of publish, which drops the lock guard.               *)
Send(p) ==
  /\ sending[p] \in Envelopes
  /\ Offer(sending[p])
  /\ sending' = [sending EXCEPT ![p] = Nothing]
  /\ publishLock' = Nobody
  /\ UNCHANGED <<nextSequence, open, subscriberVars>>

(* The last clone of the bus is dropped; nobody can be publishing.         *)
Close ==
  /\ open
  /\ \A p \in Publishers : sending[p] = Nothing
  /\ open' = FALSE
  /\ UNCHANGED <<sent, publisherVars, subscriberVars>>

-----------------------------------------------------------------------------
(* Subscribers.                                                            *)

(* subscribe and subscribe_to: nothing sent earlier will be seen.          *)
Subscribe(s, filter) ==
  /\ open
  /\ ~Subscribed(s)
  /\ kinds' = [kinds EXCEPT ![s] = filter]
  /\ start' = [start EXCEPT ![s] = Len(sent) + 1]
  /\ cursor' = [cursor EXCEPT ![s] = Len(sent) + 1]
  /\ UNCHANGED <<calling, seen, publisherVars, channelVars>>

(* The subscriber is dropped, between calls or in the middle of a recv.    *)
Unsubscribe(s) ==
  /\ Subscribed(s)
  /\ kinds' = [kinds EXCEPT ![s] = {}]
  /\ start' = [start EXCEPT ![s] = 1]
  /\ cursor' = [cursor EXCEPT ![s] = 1]
  /\ calling' = [calling EXCEPT ![s] = "idle"]
  /\ seen' = [seen EXCEPT ![s] = <<>>]
  /\ UNCHANGED <<publisherVars, channelVars>>

(* recv or try_recv is called.  Bound: not again after it returned Closed. *)
Call(s, method) ==
  /\ Subscribed(s)
  /\ calling[s] = "idle"
  /\ ~Told(s, Closed)
  /\ calling' = [calling EXCEPT ![s] = method]
  /\ UNCHANGED <<kinds, start, cursor, seen, publisherVars, channelVars>>

(* A call that returns this report.                                        *)
Return(s, report) ==
  /\ seen' = [seen EXCEPT ![s] = Append(@, report)]
  /\ calling' = [calling EXCEPT ![s] = "idle"]

Oldest == IF Len(sent) > Slots THEN Len(sent) - Slots + 1 ELSE 1

(* Faulty variant: a call that meets an event of another kind, or an empty *)
(* channel, ends without an event. *)
TakeOneOnly(s) ==
  /\ calling[s] # "idle"
  /\ cursor[s] \in Oldest..Len(sent)
  /\ cursor' = [cursor EXCEPT ![s] = @ + 1]
  /\ IF Accepts(s, sent[cursor[s]])
     THEN Return(s, sent[cursor[s]])
     ELSE calling' = [calling EXCEPT ![s] = "idle"] /\ UNCHANGED seen
  /\ UNCHANGED <<kinds, start, publisherVars, channelVars>>

(* One turn of the loop of recv and try_recv that gets an event: returned  *)
(* when its kind is accepted, consumed otherwise.                          *)
Take(s) ==
  /\ calling[s] # "idle"
  /\ cursor[s] \in Oldest..Len(sent)
  /\ cursor' = [cursor EXCEPT ![s] = @ + 1]
  /\ IF Accepts(s, sent[cursor[s]]) THEN Return(s, sent[cursor[s]])
                                    ELSE UNCHANGED <<calling, seen>>
  /\ UNCHANGED <<kinds, start, publisherVars, channelVars>>

(* Faulty variant: an overwritten cursor moves on without a report. *)
SkipSilently(s) ==
  /\ calling[s] # "idle"
  /\ cursor[s] < Oldest
  /\ cursor' = [cursor EXCEPT ![s] = Oldest]
  /\ UNCHANGED <<kinds, start, calling, seen, publisherVars, channelVars>>

(* The events at the cursor were overwritten: the call reports how many,   *)
(* whatever their kinds, and the cursor moves to the oldest one retained.  *)
Lag(s) ==
  /\ calling[s] # "idle"
  /\ cursor[s] < Oldest
  /\ cursor' = [cursor EXCEPT ![s] = Oldest]
  /\ Return(s, Lagged(Oldest - cursor[s]))
  /\ UNCHANGED <<kinds, start, publisherVars, channelVars>>

(* Nothing left to read: recv waits, try_recv returns None, and both       *)
(* return Closed once no bus is left.                                      *)
Drained(s) == calling[s] # "idle" /\ cursor[s] = Len(sent) + 1

ReturnNone(s) ==
  /\ Drained(s)
  /\ open
  /\ calling[s] = "try_recv"
  /\ calling' = [calling EXCEPT ![s] = "idle"]
  /\ UNCHANGED <<kinds, start, cursor, seen, publisherVars, channelVars>>

ReturnClosed(s) ==
  /\ Drained(s)
  /\ ~open
  /\ Return(s, Closed)
  /\ UNCHANGED <<kinds, start, cursor, publisherVars, channelVars>>

-----------------------------------------------------------------------------
Publishing(p) == AssignSequence(p) \/ Send(p)

Receiving(s) == Take(s) \/ Lag(s) \/ ReturnNone(s) \/ ReturnClosed(s)

(* The bus is gone and every subscriber knows or has left.                 *)
Terminated ==
  /\ ~open
  /\ \A s \in Subscribers : Subscribed(s) => Told(s, Closed)
  /\ UNCHANGED vars

Next ==
  \/ \E p \in Publishers :
       \/ \E kind \in Kinds : LockPublish(p, kind)
       \/ Publishing(p)
  \/ Close
  \/ \E s \in Subscribers :
       \/ \E filter \in Filters : Subscribe(s, filter)
       \/ Unsubscribe(s)
       \/ \E method \in {"recv", "try_recv"} : Call(s, method)
       \/ Receiving(s)
  \/ Terminated

Spec == Init /\ [][Next]_vars

-----------------------------------------------------------------------------
TypeOK ==
  /\ publishLock \in Publishers \cup {Nobody}
  /\ nextSequence \in 1..(MaxSequence + 1)
  /\ sending \in [Publishers -> {Nothing} \cup Drafts \cup Envelopes]
  /\ sent \in Seq(Envelopes)
  /\ open \in BOOLEAN
  /\ kinds \in [Subscribers -> {{}} \cup Filters]
  /\ start \in [Subscribers -> 1..(MaxSequence + 1)]
  /\ cursor \in [Subscribers -> 1..(MaxSequence + 1)]
  /\ calling \in [Subscribers -> {"idle", "recv", "try_recv"}]
  /\ seen \in [Subscribers -> Seq(Reports)]

IsEvent(report) == report.type = "event"
IsLagged(report) == report.type = "lagged"

(* One order for everybody: the events a subscriber is given have strictly *)
(* increasing sequence numbers, so no two subscribers ever disagree about  *)
(* the order of two events, however the publishers interleave.             *)
SequencesIncrease ==
  \A s \in Subscribers : \A i, j \in DOMAIN seen[s] :
    i < j /\ IsEvent(seen[s][i]) /\ IsEvent(seen[s][j])
      => seen[s][i].sequence < seen[s][j].sequence

(* How many events the reports stand for, given or lost.                   *)
Worth(report) ==
  CASE IsEvent(report)  -> 1
    [] IsLagged(report) -> report.skipped
    [] OTHER            -> 0
Accounted(reports) ==
  LET upTo[n \in 0..Len(reports)] ==
        IF n = 0 THEN 0 ELSE upTo[n - 1] + Worth(reports[n])
  IN  upTo[Len(reports)]

(* No silent loss: whatever the cursor passed of its kinds a subscriber    *)
(* has been given, and nothing else, unless it was told Lagged; the losses *)
(* that an unfiltered one was told of, and the events it was given, add up *)
(* to everything sent since it subscribed; and Closed comes after that.    *)
LossIsReported ==
  \A s \in Subscribers : Subscribed(s) =>
    LET passed == start[s]..(cursor[s] - 1)
    IN  /\ \/ \A k \in passed : Accepts(s, sent[k]) => Told(s, sent[k])
           \/ \E i \in DOMAIN seen[s] : IsLagged(seen[s][i])
        /\ \A i \in DOMAIN seen[s] :
             IsEvent(seen[s][i])
               => \E k \in passed : sent[k] = seen[s][i] /\ Accepts(s, sent[k])
        /\ kinds[s] = Kinds => Accounted(seen[s]) = cursor[s] - start[s]
        /\ Told(s, Closed) =>
             ~open /\ cursor[s] = Len(sent) + 1 /\ seen[s][Len(seen[s])] = Closed

(* try_recv returns None only when no event of its kinds is buffered.      *)
NoneMeansNothingBuffered ==
  [][\A s \in Subscribers :
       /\ calling[s] = "try_recv" /\ calling'[s] = "idle"
       /\ seen'[s] = seen[s] /\ kinds'[s] # {}
       => \A i \in cursor[s]..Len(sent) : ~Accepts(s, sent[i])]_vars
=============================================================================
