----------------------------- MODULE EventRelay -----------------------------
(***************************************************************************)
(* Events on their way from the outbox over the broker into the feed, and  *)
(* a subscriber that follows the feed with a cursor.                       *)
(*                                                                         *)
(* The relay publishes the undelivered row with the lowest sequence under  *)
(* an advisory lock, so at most one is under way and no worker is named.   *)
(* Consumers take the broker's messages one at a time, but AckWait may     *)
(* pass while one is still at work, so several may hold the same message.  *)
(*                                                                         *)
(* An event is its outbox sequence; its content is left out.  The broker   *)
(* keeps what it accepted: retention (seven days) is not modelled.         *)
(***************************************************************************)
EXTENDS Naturals, Sequences

CONSTANTS
  Events,       \* outbox sequences
  ProjectOf,    \* the project whose row lock orders the writes of an event
  Workers,      \* processes running the consumer
  Poison,       \* events the consumer's contract refuses
  MaxDeliver,   \* deliveries after which a failure ends a message (5)
  Replayable,   \* bound: events an administrator may replay
  MaxReplay,    \* bound on the replays of an event
  MaxStored,    \* bound: with so many messages stored no id is forgotten
  None          \* nothing is being published

ASSUME RelayAssumption ==
  /\ Events \subseteq Nat /\ Poison \subseteq Events
  /\ Replayable \subseteq Events
  /\ DOMAIN ProjectOf = Events
  /\ MaxDeliver \in Nat \ {0} /\ MaxReplay \in Nat
  /\ None \notin [event : Events, version : 0..MaxReplay]

VARIABLES
  outbox,     \* events committed
  delivered,  \* those with delivered_at
  version,    \* replay_version
  due,        \* those whose next_attempt_at has come
  relaying,   \* the message id whose publication holds the relay's lock
  answered,   \* the broker has answered it
  wire,       \* publications on their way to the broker
  window,     \* ids the broker would recognise as duplicates
  stream,     \* ids the broker stored, oldest first
  acked,      \* how many of them are acknowledged or terminated
  tries,      \* NumDelivered of the first that is not
  hold,       \* what each consumer has in hand
  position,   \* event_feed.sequence by event; 0 is not in the feed
  failure,    \* event_failures: "none", "open" or "resolved"
  cursor,     \* of the subscriber
  received    \* what the subscriber was given

outboxVars == <<outbox, delivered, version, due>>
relayVars == <<relaying, answered>>
brokerVars == <<wire, window, stream>>
consumerVars == <<acked, tries, hold>>
feedVars == <<position, failure>>
subscriberVars == <<cursor, received>>
vars == <<outboxVars, relayVars, brokerVars, consumerVars, feedVars,
          subscriberVars>>

\* The broker's message id: event and replay version.
Ids == [event : Events, version : 0..MaxReplay]

Stages == {"idle", "got", "inserted", "persisted", "failed", "recorded"}

\* A message by its place in the stream, its NumDelivered, how far the consumer
\* is with it, and the feed sequence its open transaction has allocated.
Holding == [msg : Nat, num : 0..MaxDeliver, stage : Stages, seq : Nat]
Empty == [msg |-> 0, num |-> 0, stage |-> "idle", seq |-> 0]

TypeOK ==
  /\ outbox \subseteq Events /\ delivered \subseteq outbox /\ due \subseteq outbox
  /\ version \in [Events -> 0..MaxReplay]
  /\ relaying \in Ids \cup {None} /\ answered \in BOOLEAN
  /\ wire \subseteq Ids /\ window \subseteq Ids
  /\ stream \in Seq(Ids) /\ acked \in 0..Len(stream)
  /\ tries \in 0..MaxDeliver
  /\ hold \in [Workers -> Holding]
  /\ position \in [Events -> Nat]
  /\ failure \in [Events -> {"none", "open", "resolved"}]
  /\ cursor \in Nat /\ received \subseteq Events

Init ==
  /\ outbox = {} /\ delivered = {} /\ due = {}
  /\ version = [e \in Events |-> 0]
  /\ relaying = None /\ answered = FALSE
  /\ wire = {} /\ window = {} /\ stream = <<>>
  /\ acked = 0 /\ tries = 0
  /\ hold = [w \in Workers |-> Empty]
  /\ position = [e \in Events |-> 0]
  /\ failure = [e \in Events |-> "none"]
  /\ cursor = 0 /\ received = {}

-----------------------------------------------------------------------------
\* The outbox.

\* A handler commits.  Sequences are drawn when the row is inserted: projects
\* may commit out of order, one project, under its row lock, does not.
Emit(e) ==
  /\ e \in Events \ outbox
  /\ \A d \in Events : d < e /\ ProjectOf[d] = ProjectOf[e] => d \in outbox
  /\ outbox' = outbox \cup {e} /\ due' = due \cup {e}
  /\ UNCHANGED <<delivered, version, relayVars, brokerVars, consumerVars,
                 feedVars, subscriberVars>>

RowLocked(e) == relaying # None /\ relaying.event = e

\* Mutant: the event is not looked up first.
ReplayUnknown(e) ==
  /\ version[e] < MaxReplay /\ ~RowLocked(e) /\ e \in Replayable
  /\ delivered' = delivered \ {e}
  /\ version' = [version EXCEPT ![e] = @ + 1]
  /\ due' = due \cup {e}
  /\ UNCHANGED <<outbox, relayVars, brokerVars, consumerVars, feedVars,
                 subscriberVars>>

\* An administrator queues an event again.  The relay holds the row it publishes.
ReplayEvent(e) ==
  /\ e \in outbox \cap Replayable /\ version[e] < MaxReplay
  /\ ~RowLocked(e)
  /\ delivered' = delivered \ {e}
  /\ version' = [version EXCEPT ![e] = @ + 1]
  /\ due' = due \cup {e}
  /\ UNCHANGED <<outbox, relayVars, brokerVars, consumerVars, feedVars,
                 subscriberVars>>

\* The backoff of an unconfirmed publication is over.
BackoffPasses(e) ==
  /\ e \in outbox \ due
  /\ due' = due \cup {e}
  /\ UNCHANGED <<outbox, delivered, version, relayVars, brokerVars, consumerVars,
                 feedVars, subscriberVars>>

-----------------------------------------------------------------------------
\* The relay.

\* Mutant: rows that are not due are passed over.
IsDueHead(e) ==
  /\ e \in (outbox \cap due) \ delivered
  /\ \A d \in (outbox \cap due) \ delivered : e <= d

\* Only the first undelivered row is looked at, whether it is due or not.
IsHead(e) ==
  /\ e \in outbox \ delivered
  /\ \A d \in outbox \ delivered : e <= d

Id(e) == [event |-> e, version |-> version[e]]

\* The head of the queue, if it is due, is locked and its publication sent.
Publish(e) ==
  /\ relaying = None /\ IsHead(e) /\ e \in due
  /\ relaying' = Id(e)
  /\ wire' = wire \cup {Id(e)}
  /\ UNCHANGED <<outboxVars, answered, window, stream, consumerVars, feedVars,
                 subscriberVars>>

\* The transaction of the row being published ends.
EndRelay ==
  /\ relaying # None
  /\ relaying' = None /\ answered' = FALSE
  /\ UNCHANGED <<outbox, version, brokerVars, consumerVars, feedVars,
                 subscriberVars>>

\* The broker's answer arrived and the row is saved as delivered.
ConfirmPublished ==
  /\ answered /\ EndRelay
  /\ delivered' = delivered \cup {relaying.event}
  /\ UNCHANGED due

\* No answer, though the broker may have accepted the message.
DeferPublished ==
  /\ EndRelay
  /\ due' = due \ {relaying.event}
  /\ UNCHANGED delivered

\* The process or its connection dies before the row is saved.
AbandonPublished == EndRelay /\ UNCHANGED <<delivered, due>>

-----------------------------------------------------------------------------
\* The broker.

\* A publication arrives; a known id is answered and not stored again.
Arrive(i) ==
  /\ i \in wire
  /\ wire' = wire \ {i} /\ window' = window \cup {i}
  /\ stream' = IF i \in window THEN stream ELSE Append(stream, i)
  /\ answered' = (answered \/ relaying = i)
  /\ UNCHANGED <<outboxVars, relaying, consumerVars, feedVars, subscriberVars>>

\* A publication is lost, or refused because the stream is full.
Lose(i) ==
  /\ i \in wire /\ wire' = wire \ {i}
  /\ UNCHANGED <<outboxVars, relayVars, window, stream, consumerVars, feedVars,
                 subscriberVars>>

\* Two minutes are over and the broker no longer recognises the id.
WindowPasses(i) ==
  /\ i \in window /\ Len(stream) < MaxStored
  /\ window' = window \ {i}
  /\ UNCHANGED <<outboxVars, relayVars, wire, stream, consumerVars, feedVars,
                 subscriberVars>>

\* The first message not yet acknowledged is delivered, for the first time,
\* after a refusal, or because AckWait passed while somebody still holds it.
Deliver(w) ==
  /\ hold[w].stage = "idle" /\ acked < Len(stream)
  /\ LET n == IF tries < MaxDeliver THEN tries + 1 ELSE tries
     IN /\ tries' = n
        /\ hold' = [hold EXCEPT ![w] =
                      [msg |-> acked + 1, num |-> n, stage |-> "got", seq |-> 0]]
  /\ UNCHANGED <<outboxVars, relayVars, brokerVars, acked, feedVars,
                 subscriberVars>>

\* What the broker does with an acknowledgement or a termination of a message,
\* also a late one.
Settle(m) ==
  /\ acked' = IF m = acked + 1 THEN m ELSE acked
  /\ tries' = IF m = acked + 1 THEN 0 ELSE tries

-----------------------------------------------------------------------------
\* The consumer.

EventOf(w) == stream[hold[w].msg].event

\* The consumer comes to stage s, with sequence n allocated.
MovesTo(w, s, n) ==
  hold' = [hold EXCEPT ![w] = [@ EXCEPT !.stage = s, !.seq = n]]

Frees(w) == hold' = [hold EXCEPT ![w] = Empty]

FeedUnlocked == \A w \in Workers : hold[w].stage # "inserted"

\* The sequence generator never gives a number twice; the gaps a rollback
\* leaves are not observable.
IsNextSequence(n) ==
  /\ \A e \in Events : position[e] < n
  /\ \A w \in Workers : hold[w].seq < n
  /\ \/ n = 1
     \/ \E e \in Events : position[e] = n - 1
     \/ \E w \in Workers : hold[w].seq = n - 1

\* Inbox and feed rows, unless the inbox knows the event.
InsertFeed(w, n) ==
  /\ MovesTo(w, "inserted", IF position[EventOf(w)] = 0 THEN n ELSE 0)
  /\ UNCHANGED <<outboxVars, relayVars, brokerVars, acked, tries, feedVars,
                 subscriberVars>>

\* Mutant: without the lock only the inbox key keeps two consumers apart.
PersistUnlocked(w, n) ==
  /\ hold[w].stage = "got" /\ EventOf(w) \notin Poison
  /\ \A v \in Workers : hold[v].stage = "inserted" => EventOf(v) # EventOf(w)
  /\ IsNextSequence(n)
  /\ InsertFeed(w, n)

\* persist up to its commit; the lock on the feed is kept until then.
Persist(w, n) ==
  /\ hold[w].stage = "got" /\ EventOf(w) \notin Poison
  /\ FeedUnlocked /\ IsNextSequence(n)
  /\ InsertFeed(w, n)

\* The commit; its answer may get lost, and then the consumer sees an error.
CommitFeed(w, known) ==
  /\ hold[w].stage = "inserted"
  /\ position' = IF hold[w].seq = 0 THEN position
                 ELSE [position EXCEPT ![EventOf(w)] = hold[w].seq]
  /\ failure' = [failure EXCEPT ![EventOf(w)] =
                   IF @ = "none" THEN @ ELSE "resolved"]
  /\ MovesTo(w, IF known THEN "persisted" ELSE "failed", 0)
  /\ UNCHANGED <<outboxVars, relayVars, brokerVars, acked, tries, subscriberVars>>

\* persist fails: the contract, the database, or its five seconds.
RejectEvent(w) ==
  /\ hold[w].stage \in {"got", "inserted"}
  /\ MovesTo(w, "failed", 0)
  /\ UNCHANGED <<outboxVars, relayVars, brokerVars, acked, tries, feedVars,
                 subscriberVars>>

Acknowledge(w) ==
  /\ hold[w].stage = "persisted"
  /\ Settle(hold[w].msg)
  /\ Frees(w)
  /\ UNCHANGED <<outboxVars, relayVars, brokerVars, feedVars, subscriberVars>>

\* The message is refused, its acknowledgement gets lost, or the process dies
\* and an open transaction rolls back: the broker will deliver it again.
LetGo(w) ==
  /\ hold[w].stage # "idle"
  /\ Frees(w)
  /\ UNCHANGED <<outboxVars, relayVars, brokerVars, acked, tries, feedVars,
                 subscriberVars>>

GivesUp(w) == hold[w].num >= MaxDeliver

RecordFailure(w) ==
  /\ hold[w].stage = "failed" /\ GivesUp(w)
  /\ failure' = [failure EXCEPT ![EventOf(w)] = "open"]
  /\ MovesTo(w, "recorded", 0)
  /\ UNCHANGED <<outboxVars, relayVars, brokerVars, acked, tries, position,
                 subscriberVars>>

\* Mutants: a message is terminated before its failure is on record, or
\* refused like any other.
TerminateUnrecorded(w) ==
  /\ hold[w].stage = "failed" /\ GivesUp(w)
  /\ Settle(hold[w].msg)
  /\ Frees(w)
  /\ UNCHANGED <<outboxVars, relayVars, brokerVars, feedVars, subscriberVars>>

RefuseRecorded(w) == hold[w].stage = "recorded" /\ LetGo(w)

Terminate(w) ==
  /\ hold[w].stage = "recorded"
  /\ Settle(hold[w].msg)
  /\ Frees(w)
  /\ UNCHANGED <<outboxVars, relayVars, brokerVars, feedVars, subscriberVars>>

-----------------------------------------------------------------------------
\* A subscriber that continues from its cursor.  A page of one event: longer
\* pages are several of them at once.
PollEvents(e) ==
  /\ position[e] > cursor
  /\ \A d \in Events : position[d] > cursor => position[e] <= position[d]
  /\ cursor' = position[e] /\ received' = received \cup {e}
  /\ UNCHANGED <<outboxVars, relayVars, brokerVars, consumerVars, feedVars>>

Numbers == {1} \cup {position[e] + 1 : e \in Events}
               \cup {hold[w].seq + 1 : w \in Workers}

OutboxStep == \E e \in Events : Emit(e) \/ ReplayEvent(e) \/ BackoffPasses(e)

RelayStep == \/ \E e \in Events : Publish(e)
             \/ ConfirmPublished \/ DeferPublished \/ AbandonPublished

BrokerStep == \/ \E i \in Ids : Arrive(i) \/ Lose(i) \/ WindowPasses(i)
              \/ \E w \in Workers : Deliver(w)

ConsumerStep ==
  \E w \in Workers :
    \/ \E n \in Numbers : Persist(w, n)
    \/ \E known \in BOOLEAN : CommitFeed(w, known)
    \/ RejectEvent(w) \/ Acknowledge(w) \/ RecordFailure(w) \/ Terminate(w)
    \/ LetGo(w)

SubscriberStep == \E e \in Events : PollEvents(e)

Next == OutboxStep \/ RelayStep \/ BrokerStep \/ ConsumerStep \/ SubscriberStep

Spec == Init /\ [][Next]_vars

\* The relay and the consumer run every 250 ms for ever (Run), and neither the
\* broker nor the database fails each time.
FairSpec ==
  /\ Spec
  /\ WF_vars(\E e \in Events : BackoffPasses(e) \/ Publish(e))
  /\ WF_vars(DeferPublished)
  /\ SF_vars(\E i \in Ids : relaying = i /\ Arrive(i))
  /\ SF_vars(ConfirmPublished)
  /\ WF_vars(\E w \in Workers : Deliver(w))
  /\ WF_vars(\E w \in Workers : LetGo(w))
  /\ SF_vars(\E w \in Workers, n \in Numbers : Persist(w, n))
  /\ SF_vars(\E w \in Workers : CommitFeed(w, TRUE))
  /\ SF_vars(\E w \in Workers : RejectEvent(w) /\ EventOf(w) \in Poison)
  /\ SF_vars(\E w \in Workers : Acknowledge(w))
  /\ SF_vars(\E w \in Workers : RecordFailure(w))
  /\ SF_vars(\E w \in Workers : Terminate(w))

-----------------------------------------------------------------------------
InFeed(e) == position[e] # 0

Waiting(e) == \E n \in (acked + 1)..Len(stream) : stream[n].event = e

\* "A DB outage never discards intent" (worker.go:229): an event marked as
\* delivered is in the feed, waits in the broker, or its failure is on record,
\* and stays there until it reaches the feed.
NothingLost ==
  \A e \in delivered : InFeed(e) \/ Waiting(e) \/ failure[e] = "open"

\* The events of one project enter the feed in the order they were committed;
\* only an event whose failure was recorded may be overtaken.
ProjectOrder ==
  \A d, e \in Events :
    (d < e /\ ProjectOf[d] = ProjectOf[e] /\ InFeed(e)) =>
      (InFeed(d) /\ position[d] < position[e]) \/ failure[d] # "none"

\* "Serializes feed allocation" (worker.go:268), so that a cursor never moves
\* past an event that becomes visible later: the subscriber was given exactly
\* what the feed has up to its cursor.
CursorComplete == received = {e \in Events : InFeed(e) /\ position[e] <= cursor}

\* What is queued, for the first time or again, is taken off the broker: it is
\* published at last, and no event blocks those behind it for ever.
QueuedIsConsumed ==
  \A e \in Events, v \in 0..MaxReplay :
    (e \in outbox \ delivered /\ version[e] = v) ~>
      (\E n \in 1..acked : stream[n].event = e /\ stream[n].version >= v)
=============================================================================
