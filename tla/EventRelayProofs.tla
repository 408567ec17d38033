-------------------------- MODULE EventRelayProofs --------------------------
(***************************************************************************)
(* EventRelay keeps its types, loses nothing, keeps the order of a         *)
(* project and never lets a cursor skip an event.                          *)
(***************************************************************************)
EXTENDS EventRelay, TLAPS

(***************************************************************************)
(* The strengthening.                                                      *)
(***************************************************************************)
Stored(e) == \E n \in 1..Len(stream) : stream[n].event = e
Answered(e) == InFeed(e) \/ failure[e] = "open"

\* At most one transaction holds the lock on the feed.
OneWriter ==
  \A v, w \in Workers :
    hold[v].stage = "inserted" /\ hold[w].stage = "inserted" => v = w

\* A consumer holds a stored message whose predecessors are settled.
HeldStored ==
  \A w \in Workers : hold[w].stage # "idle" =>
    hold[w].msg \in 1..Len(stream) /\ hold[w].msg <= acked + 1

\* What the stage of a consumer says about its event.
HeldStage ==
  \A w \in Workers :
    /\ hold[w].seq # 0 => hold[w].stage = "inserted"
    /\ hold[w].stage = "inserted" /\ hold[w].seq = 0 => InFeed(EventOf(w))
    /\ hold[w].stage = "persisted" => InFeed(EventOf(w))
    /\ hold[w].stage = "recorded" => Answered(EventOf(w))

\* A sequence that is not committed yet lies behind the whole feed.
SequenceFresh ==
  \A w \in Workers : hold[w].seq # 0 =>
    /\ ~InFeed(EventOf(w))
    /\ \A e \in Events : position[e] < hold[w].seq

Custody == OneWriter /\ HeldStored /\ HeldStage /\ SequenceFresh

\* Feed sequences are unique, and the cursor is one of them.
FeedKeys ==
  /\ \A d, e \in Events : InFeed(e) /\ position[d] = position[e] => d = e
  /\ cursor = 0 \/ \E e \in Events : position[e] = cursor

\* What is settled was persisted or recorded as failed.
SettledAnswered == \A n \in 1..acked : Answered(stream[n].event)

\* What is being published was committed.
Publishing == relaying # None => relaying.event \in outbox

\* What counts as published is stored.
PublishedStored ==
  /\ \A i \in window : Stored(i.event)
  /\ answered => relaying # None /\ Stored(relaying.event)
  /\ \A e \in delivered : Stored(e)

Before(d, e) == d < e /\ ProjectOf[d] = ProjectOf[e]

\* The earlier events of the project: committed when an event is, stored when
\* it is on its way, and stored before it.
Predecessors ==
  /\ \A d, e \in Events : Before(d, e) /\ e \in outbox => d \in outbox
  /\ \A i \in wire : \A d \in Events : Before(d, i.event) => Stored(d)
  /\ \A n \in 1..Len(stream) : \A d \in Events :
       Before(d, stream[n].event) => \E k \in 1..(n - 1) : stream[k].event = d

\* The same for an event whose sequence is not committed yet.
HeldInOrder ==
  \A w \in Workers : hold[w].seq # 0 =>
    \A d \in Events :
      Before(d, EventOf(w)) => InFeed(d) \/ failure[d] # "none"

RInv ==
  /\ TypeOK /\ Publishing /\ Custody /\ FeedKeys /\ CursorComplete
  /\ SettledAnswered /\ PublishedStored
  /\ Predecessors /\ HeldInOrder /\ ProjectOrder

(***************************************************************************)
(* Types.                                                                  *)
(***************************************************************************)
\* The sequence numbers a transaction may draw are natural numbers.
LEMMA NumbersNat == TypeOK => Numbers \subseteq Nat
BY DEF TypeOK, Numbers, Holding

\* What a step makes of the record of the consumer that takes it, and that it
\* leaves the others alone.
LEMMA HoldMoves ==
  ASSUME TypeOK, NEW w \in Workers, NEW s \in Stages, NEW n \in Nat,
         MovesTo(w, s, n)
  PROVE  /\ hold' \in [Workers -> Holding]
         /\ hold'[w].stage = s /\ hold'[w].seq = n
         /\ hold'[w].msg = hold[w].msg /\ hold'[w].num = hold[w].num
         /\ \A v \in Workers : v # w => hold'[v] = hold[v]
<1>1. hold[w] \in Holding
  BY DEF TypeOK
<1>2. [hold[w] EXCEPT !.stage = s, !.seq = n] \in Holding
  BY <1>1 DEF Holding
<1> DEFINE h == [hold[w] EXCEPT !.stage = s, !.seq = n]
<1>3. /\ h.stage = s /\ h.seq = n
      /\ h.msg = hold[w].msg /\ h.num = hold[w].num
  BY <1>1 DEF Holding
<1>4. hold' = [hold EXCEPT ![w] = h]
  BY DEF MovesTo
<1>5. h \in Holding
  BY <1>2
<1> HIDE DEF h
<1>6. QED
  BY <1>3, <1>4, <1>5 DEF TypeOK

LEMMA HoldFreed ==
  ASSUME TypeOK, NEW w \in Workers, Frees(w)
  PROVE  /\ hold' \in [Workers -> Holding]
         /\ hold'[w].stage = "idle" /\ hold'[w].seq = 0
         /\ \A v \in Workers : v # w => hold'[v] = hold[v]
<1>1. Empty \in Holding
  BY RelayAssumption DEF Empty, Holding, Stages
<1>2. QED
  BY <1>1 DEF TypeOK, Frees, Empty

LEMMA HoldTaken ==
  ASSUME TypeOK, NEW w \in Workers, Deliver(w)
  PROVE  /\ hold' \in [Workers -> Holding]
         /\ hold'[w].stage = "got" /\ hold'[w].seq = 0
         /\ hold'[w].msg = acked + 1
         /\ \A v \in Workers : v # w => hold'[v] = hold[v]
<1> DEFINE k == IF tries < MaxDeliver THEN tries + 1 ELSE tries
<1>1. k \in 0..MaxDeliver /\ acked + 1 \in Nat
  BY RelayAssumption DEF TypeOK
<1>2. [msg |-> acked + 1, num |-> k, stage |-> "got", seq |-> 0] \in Holding
  BY <1>1 DEF Holding, Stages
<1>3. QED
  BY <1>2 DEF TypeOK, Deliver

\* Wherever a consumer has something in hand, its event is one.
LEMMA HeldEvent ==
  ASSUME TypeOK, HeldStored, NEW w \in Workers, hold[w].stage # "idle"
  PROVE  EventOf(w) \in Events
<1>1. hold[w].msg \in 1..Len(stream) /\ stream \in Seq(Ids)
  BY DEF TypeOK, HeldStored
<1>2. stream[hold[w].msg] \in Ids
  BY <1>1
<1>3. QED
  BY <1>2 DEF EventOf, Ids


\* Every step keeps the type of every variable.
LEMMA TypeStep == TypeOK /\ Publishing /\ HeldStored /\ [Next]_vars
           => TypeOK' /\ Publishing'
<1> SUFFICES ASSUME TypeOK, Publishing, HeldStored, [Next]_vars
             PROVE TypeOK' /\ Publishing'
  OBVIOUS
<1> USE RelayAssumption
<1>1. ASSUME NEW e \in Events, Emit(e) PROVE TypeOK' /\ Publishing'
  BY <1>1 DEF TypeOK, Publishing, Emit, outboxVars, relayVars, brokerVars,
     consumerVars, feedVars, subscriberVars
<1>2. ASSUME NEW e \in Events, ReplayEvent(e)
      PROVE  TypeOK' /\ Publishing'
  BY <1>2 DEF TypeOK, Publishing, ReplayEvent, outboxVars, relayVars,
     brokerVars, consumerVars, feedVars, subscriberVars
<1>3. ASSUME NEW e \in Events, BackoffPasses(e)
      PROVE  TypeOK' /\ Publishing'
  BY <1>3 DEF TypeOK, Publishing, BackoffPasses, outboxVars, relayVars,
     brokerVars, consumerVars, feedVars, subscriberVars
<1>4. ASSUME NEW e \in Events, Publish(e) PROVE TypeOK' /\ Publishing'
  <2>1. Id(e) \in Ids
    BY DEF TypeOK, Id, Ids
  <2>2. QED
    BY <1>4, <2>1 DEF TypeOK, Publishing, IsHead, Id, Publish, outboxVars,
       relayVars, brokerVars, consumerVars, feedVars, subscriberVars
<1>5. ASSUME ConfirmPublished PROVE TypeOK' /\ Publishing'
  <2>1. relaying.event \in outbox
    BY <1>5 DEF Publishing, ConfirmPublished, EndRelay
  <2>2. QED
    BY <1>5, <2>1 DEF TypeOK, Publishing, ConfirmPublished, EndRelay,
       outboxVars, relayVars, brokerVars, consumerVars, feedVars,
       subscriberVars
<1>6. ASSUME DeferPublished PROVE TypeOK' /\ Publishing'
  BY <1>6 DEF TypeOK, Publishing, DeferPublished, EndRelay, outboxVars,
     relayVars, brokerVars, consumerVars, feedVars, subscriberVars
<1>7. ASSUME AbandonPublished PROVE TypeOK' /\ Publishing'
  BY <1>7 DEF TypeOK, Publishing, AbandonPublished, EndRelay, outboxVars,
     relayVars, brokerVars, consumerVars, feedVars, subscriberVars
<1>8. ASSUME NEW i \in Ids, Arrive(i) PROVE TypeOK' /\ Publishing'
  BY <1>8 DEF TypeOK, Publishing, Arrive, outboxVars, relayVars, brokerVars,
     consumerVars, feedVars, subscriberVars
<1>9. ASSUME NEW i \in Ids, Lose(i) PROVE TypeOK' /\ Publishing'
  BY <1>9 DEF TypeOK, Publishing, Lose, outboxVars, relayVars, brokerVars,
     consumerVars, feedVars, subscriberVars
<1>10. ASSUME NEW i \in Ids, WindowPasses(i)
      PROVE  TypeOK' /\ Publishing'
  BY <1>10 DEF TypeOK, Publishing, WindowPasses, outboxVars, relayVars,
     brokerVars, consumerVars, feedVars, subscriberVars
<1>11. ASSUME NEW w \in Workers, Deliver(w) PROVE TypeOK' /\ Publishing'
  <2>1. hold' \in [Workers -> Holding]
    BY <1>11, HoldTaken
  <2>2. tries' \in 0..MaxDeliver
    BY <1>11 DEF TypeOK, Deliver
  <2>3. QED
    BY <1>11, <2>1, <2>2 DEF TypeOK, Publishing, Deliver, outboxVars,
       relayVars, brokerVars, consumerVars, feedVars, subscriberVars
<1>12. ASSUME NEW w \in Workers, NEW n \in Numbers, Persist(w, n)
      PROVE  TypeOK' /\ Publishing'
  <2>1. n \in Nat
    BY NumbersNat
  <2>2. hold' \in [Workers -> Holding]
    BY <1>12, <2>1, HoldMoves DEF Persist, InsertFeed, Stages
  <2>3. QED
    BY <1>12, <2>2 DEF TypeOK, Publishing, Persist, InsertFeed, outboxVars,
       relayVars, brokerVars, consumerVars, feedVars, subscriberVars
<1>13. ASSUME NEW w \in Workers, NEW known \in BOOLEAN, CommitFeed(w, known)
      PROVE  TypeOK' /\ Publishing'
  <2>1. hold' \in [Workers -> Holding]
    BY <1>13, HoldMoves DEF CommitFeed, Stages
  <2>2. hold[w].seq \in Nat
    BY DEF TypeOK, Holding
  <2>3. position' \in [Events -> Nat]
    BY <1>13, <2>2 DEF TypeOK, CommitFeed
  <2>4. failure' \in [Events -> {"none", "open", "resolved"}]
    BY <1>13 DEF TypeOK, CommitFeed
  <2>5. QED
    BY <1>13, <2>1, <2>3, <2>4 DEF TypeOK, Publishing, CommitFeed, outboxVars,
       relayVars, brokerVars, consumerVars, feedVars, subscriberVars
<1>14. ASSUME NEW w \in Workers, RejectEvent(w)
      PROVE  TypeOK' /\ Publishing'
  <2>1. hold' \in [Workers -> Holding]
    BY <1>14, HoldMoves DEF RejectEvent, Stages
  <2>2. QED
    BY <1>14, <2>1 DEF TypeOK, Publishing, RejectEvent, outboxVars, relayVars,
       brokerVars, consumerVars, feedVars, subscriberVars
<1>15. ASSUME NEW w \in Workers, Acknowledge(w)
      PROVE  TypeOK' /\ Publishing'
  <2>1. hold' \in [Workers -> Holding]
    BY <1>15, HoldFreed DEF Acknowledge
  <2>2. acked' \in 0..Len(stream) /\ tries' \in 0..MaxDeliver
    BY <1>15 DEF TypeOK, HeldStored, Acknowledge, Settle
  <2>3. QED
    BY <1>15, <2>1, <2>2 DEF TypeOK, Publishing, Acknowledge, outboxVars,
       relayVars, brokerVars, consumerVars, feedVars, subscriberVars
<1>16. ASSUME NEW w \in Workers, RecordFailure(w)
      PROVE  TypeOK' /\ Publishing'
  <2>1. hold' \in [Workers -> Holding]
    BY <1>16, HoldMoves DEF RecordFailure, Stages
  <2>2. QED
    BY <1>16, <2>1 DEF TypeOK, Publishing, RecordFailure, outboxVars,
       relayVars, brokerVars, consumerVars, feedVars, subscriberVars
<1>17. ASSUME NEW w \in Workers, Terminate(w)
      PROVE  TypeOK' /\ Publishing'
  <2>1. hold' \in [Workers -> Holding]
    BY <1>17, HoldFreed DEF Terminate
  <2>2. acked' \in 0..Len(stream) /\ tries' \in 0..MaxDeliver
    BY <1>17 DEF TypeOK, HeldStored, Terminate, Settle
  <2>3. QED
    BY <1>17, <2>1, <2>2 DEF TypeOK, Publishing, Terminate, outboxVars,
       relayVars, brokerVars, consumerVars, feedVars, subscriberVars
<1>18. ASSUME NEW w \in Workers, LetGo(w) PROVE TypeOK' /\ Publishing'
  <2>1. hold' \in [Workers -> Holding]
    BY <1>18, HoldFreed DEF LetGo
  <2>2. QED
    BY <1>18, <2>1 DEF TypeOK, Publishing, LetGo, outboxVars, relayVars,
       brokerVars, consumerVars, feedVars, subscriberVars
<1>19. ASSUME NEW e \in Events, PollEvents(e)
      PROVE  TypeOK' /\ Publishing'
  BY <1>19 DEF TypeOK, Publishing, PollEvents, outboxVars, relayVars,
     brokerVars, consumerVars, feedVars, subscriberVars
<1>20. CASE UNCHANGED vars
  BY <1>20 DEF TypeOK, Publishing, vars, outboxVars, relayVars, brokerVars,
     consumerVars, feedVars, subscriberVars
<1>21. QED
  BY <1>1, <1>2, <1>3, <1>4, <1>5, <1>6, <1>7, <1>8, <1>9, <1>10, <1>11,
       <1>12, <1>13, <1>14, <1>15, <1>16, <1>17, <1>18, <1>19, <1>20 DEF Next,
       OutboxStep, RelayStep, BrokerStep, ConsumerStep, SubscriberStep

(***************************************************************************)
(* Which steps change what.                                                *)
(***************************************************************************)
\* Only the broker touches the stream.
StreamFrame ==
  \/ stream' = stream
  \/ \E i \in Ids : Arrive(i)

\* What the consumers have in hand, and the feed, change by their steps alone.
ConsumerFrame ==
  \/ UNCHANGED <<acked, hold, feedVars>>
  \/ \E w \in Workers : Deliver(w)
  \/ \E w \in Workers, n \in Numbers : Persist(w, n)
  \/ \E w \in Workers, known \in BOOLEAN : CommitFeed(w, known)
  \/ \E w \in Workers : RejectEvent(w)
  \/ \E w \in Workers : Acknowledge(w)
  \/ \E w \in Workers : RecordFailure(w)
  \/ \E w \in Workers : Terminate(w)
  \/ \E w \in Workers : LetGo(w)

\* The feed and the failures change by two of them.
FeedFrame ==
  \/ UNCHANGED feedVars
  \/ \E w \in Workers, known \in BOOLEAN : CommitFeed(w, known)
  \/ \E w \in Workers : RecordFailure(w)

\* Who changes what CursorComplete relates.
CursorFrame ==
  \/ UNCHANGED <<position, subscriberVars>>
  \/ \E w \in Workers, known \in BOOLEAN : CommitFeed(w, known)
  \/ \E e \in Events : PollEvents(e)

\* Who settles a message.
AckFrame ==
  \/ acked' = acked
  \/ \E w \in Workers : Acknowledge(w)
  \/ \E w \in Workers : Terminate(w)

\* Who changes what counts as published.
PublishedFrame ==
  \/ UNCHANGED <<delivered, relayVars, window>>
  \/ \E e \in Events : ReplayEvent(e)
  \/ \E e \in Events : Publish(e)
  \/ ConfirmPublished
  \/ DeferPublished
  \/ AbandonPublished
  \/ \E i \in Ids : Arrive(i)
  \/ \E i \in Ids : WindowPasses(i)

\* Who changes what Predecessors relates.
OrderFrame ==
  \/ UNCHANGED <<outbox, wire, stream>>
  \/ \E e \in Events : Emit(e)
  \/ \E e \in Events : Publish(e)
  \/ \E i \in Ids : Arrive(i)
  \/ \E i \in Ids : Lose(i)

\* Only a commit gives an event its place in the feed.
PositionFrame ==
  \/ position' = position
  \/ \E w \in Workers, known \in BOOLEAN : CommitFeed(w, known)

Frames ==
  /\ StreamFrame
  /\ ConsumerFrame
  /\ FeedFrame
  /\ CursorFrame
  /\ AckFrame
  /\ PublishedFrame
  /\ OrderFrame
  /\ PositionFrame

\* Every step is one of those that may change something, or does not.
LEMMA EveryStep == [Next]_vars => Frames
<1> SUFFICES ASSUME [Next]_vars PROVE Frames
  OBVIOUS
<1>1. ASSUME NEW e \in Events, Emit(e) PROVE Frames
  BY <1>1 DEF Frames, StreamFrame, ConsumerFrame, FeedFrame, CursorFrame,
     AckFrame, PublishedFrame, OrderFrame, PositionFrame, Emit, outboxVars,
     relayVars, brokerVars, consumerVars, feedVars, subscriberVars
<1>2. ASSUME NEW e \in Events, ReplayEvent(e) PROVE Frames
  BY <1>2 DEF Frames, StreamFrame, ConsumerFrame, FeedFrame, CursorFrame,
     AckFrame, PublishedFrame, OrderFrame, PositionFrame, ReplayEvent,
     outboxVars, relayVars, brokerVars, consumerVars, feedVars, subscriberVars
<1>3. ASSUME NEW e \in Events, BackoffPasses(e) PROVE Frames
  BY <1>3 DEF Frames, StreamFrame, ConsumerFrame, FeedFrame, CursorFrame,
     AckFrame, PublishedFrame, OrderFrame, PositionFrame, BackoffPasses,
     outboxVars, relayVars, brokerVars, consumerVars, feedVars, subscriberVars
<1>4. ASSUME NEW e \in Events, Publish(e) PROVE Frames
  BY <1>4 DEF Frames, StreamFrame, ConsumerFrame, FeedFrame, CursorFrame,
     AckFrame, PublishedFrame, OrderFrame, PositionFrame, Publish, outboxVars,
     relayVars, brokerVars, consumerVars, feedVars, subscriberVars
<1>5. ASSUME ConfirmPublished PROVE Frames
  BY <1>5 DEF Frames, StreamFrame, ConsumerFrame, FeedFrame, CursorFrame,
     AckFrame, PublishedFrame, OrderFrame, PositionFrame, ConfirmPublished,
     EndRelay, outboxVars, relayVars, brokerVars, consumerVars, feedVars,
     subscriberVars
<1>6. ASSUME DeferPublished PROVE Frames
  BY <1>6 DEF Frames, StreamFrame, ConsumerFrame, FeedFrame, CursorFrame,
     AckFrame, PublishedFrame, OrderFrame, PositionFrame, DeferPublished,
     EndRelay, outboxVars, relayVars, brokerVars, consumerVars, feedVars,
     subscriberVars
<1>7. ASSUME AbandonPublished PROVE Frames
  BY <1>7 DEF Frames, StreamFrame, ConsumerFrame, FeedFrame, CursorFrame,
     AckFrame, PublishedFrame, OrderFrame, PositionFrame, AbandonPublished,
     EndRelay, outboxVars, relayVars, brokerVars, consumerVars, feedVars,
     subscriberVars
<1>8. ASSUME NEW i \in Ids, Arrive(i) PROVE Frames
  BY <1>8 DEF Frames, StreamFrame, ConsumerFrame, FeedFrame, CursorFrame,
     AckFrame, PublishedFrame, OrderFrame, PositionFrame, Arrive, outboxVars,
     relayVars, brokerVars, consumerVars, feedVars, subscriberVars
<1>9. ASSUME NEW i \in Ids, Lose(i) PROVE Frames
  BY <1>9 DEF Frames, StreamFrame, ConsumerFrame, FeedFrame, CursorFrame,
     AckFrame, PublishedFrame, OrderFrame, PositionFrame, Lose, outboxVars,
     relayVars, brokerVars, consumerVars, feedVars, subscriberVars
<1>10. ASSUME NEW i \in Ids, WindowPasses(i) PROVE Frames
  BY <1>10 DEF Frames, StreamFrame, ConsumerFrame, FeedFrame, CursorFrame,
     AckFrame, PublishedFrame, OrderFrame, PositionFrame, WindowPasses,
     outboxVars, relayVars, brokerVars, consumerVars, feedVars, subscriberVars
<1>11. ASSUME NEW w \in Workers, Deliver(w) PROVE Frames
  BY <1>11 DEF Frames, StreamFrame, ConsumerFrame, FeedFrame, CursorFrame,
     AckFrame, PublishedFrame, OrderFrame, PositionFrame, Deliver, outboxVars,
     relayVars, brokerVars, consumerVars, feedVars, subscriberVars
<1>12. ASSUME NEW w \in Workers, NEW n \in Numbers, Persist(w, n)
      PROVE  Frames
  BY <1>12 DEF Frames, StreamFrame, ConsumerFrame, FeedFrame, CursorFrame,
     AckFrame, PublishedFrame, OrderFrame, PositionFrame, Persist, InsertFeed,
     outboxVars, relayVars, brokerVars, consumerVars, feedVars, subscriberVars
<1>13. ASSUME NEW w \in Workers, NEW known \in BOOLEAN, CommitFeed(w, known)
      PROVE  Frames
  BY <1>13 DEF Frames, StreamFrame, ConsumerFrame, FeedFrame, CursorFrame,
     AckFrame, PublishedFrame, OrderFrame, PositionFrame, CommitFeed,
     outboxVars, relayVars, brokerVars, consumerVars, feedVars, subscriberVars
<1>14. ASSUME NEW w \in Workers, RejectEvent(w) PROVE Frames
  BY <1>14 DEF Frames, StreamFrame, ConsumerFrame, FeedFrame, CursorFrame,
     AckFrame, PublishedFrame, OrderFrame, PositionFrame, RejectEvent,
     outboxVars, relayVars, brokerVars, consumerVars, feedVars, subscriberVars
<1>15. ASSUME NEW w \in Workers, Acknowledge(w) PROVE Frames
  BY <1>15 DEF Frames, StreamFrame, ConsumerFrame, FeedFrame, CursorFrame,
     AckFrame, PublishedFrame, OrderFrame, PositionFrame, Acknowledge, Settle,
     outboxVars, relayVars, brokerVars, consumerVars, feedVars, subscriberVars
<1>16. ASSUME NEW w \in Workers, RecordFailure(w) PROVE Frames
  BY <1>16 DEF Frames, StreamFrame, ConsumerFrame, FeedFrame, CursorFrame,
     AckFrame, PublishedFrame, OrderFrame, PositionFrame, RecordFailure,
     outboxVars, relayVars, brokerVars, consumerVars, feedVars, subscriberVars
<1>17. ASSUME NEW w \in Workers, Terminate(w) PROVE Frames
  BY <1>17 DEF Frames, StreamFrame, ConsumerFrame, FeedFrame, CursorFrame,
     AckFrame, PublishedFrame, OrderFrame, PositionFrame, Terminate, Settle,
     outboxVars, relayVars, brokerVars, consumerVars, feedVars, subscriberVars
<1>18. ASSUME NEW w \in Workers, LetGo(w) PROVE Frames
  BY <1>18 DEF Frames, StreamFrame, ConsumerFrame, FeedFrame, CursorFrame,
     AckFrame, PublishedFrame, OrderFrame, PositionFrame, LetGo, outboxVars,
     relayVars, brokerVars, consumerVars, feedVars, subscriberVars
<1>19. ASSUME NEW e \in Events, PollEvents(e) PROVE Frames
  BY <1>19 DEF Frames, StreamFrame, ConsumerFrame, FeedFrame, CursorFrame,
     AckFrame, PublishedFrame, OrderFrame, PositionFrame, PollEvents,
     outboxVars, relayVars, brokerVars, consumerVars, feedVars, subscriberVars
<1>20. CASE UNCHANGED vars
  BY <1>20 DEF Frames, StreamFrame, ConsumerFrame, FeedFrame, CursorFrame,
     AckFrame, PublishedFrame, OrderFrame, PositionFrame, vars, outboxVars,
     relayVars, brokerVars, consumerVars, feedVars, subscriberVars
<1>21. QED
  BY <1>1, <1>2, <1>3, <1>4, <1>5, <1>6, <1>7, <1>8, <1>9, <1>10, <1>11,
       <1>12, <1>13, <1>14, <1>15, <1>16, <1>17, <1>18, <1>19, <1>20 DEF Next,
       OutboxStep, RelayStep, BrokerStep, ConsumerStep, SubscriberStep

(***************************************************************************)
(* The stream.                                                             *)
(***************************************************************************)
\* The stream only grows at its end.
Grows ==
  /\ Len(stream') \in Nat /\ Len(stream) <= Len(stream')
  /\ \A n \in 1..Len(stream) : n \in 1..Len(stream') /\ stream'[n] = stream[n]

LEMMA StreamSame == TypeOK /\ stream' = stream => Grows
BY DEF TypeOK, Grows

LEMMA StreamAppended ==
  ASSUME TypeOK, NEW i \in Ids, Arrive(i)
  PROVE  /\ Grows
         /\ \A n \in 1..Len(stream') : n \in 1..Len(stream) \/ stream'[n] = i
         /\ i \in window \/ \E n \in 1..Len(stream') : stream'[n] = i
<1>1. stream \in Seq(Ids)
  BY DEF TypeOK
<1>2. CASE i \in window
  <2>1. stream' = stream
    BY <1>2 DEF Arrive
  <2>2. QED
    BY <1>2, <2>1, StreamSame
<1>3. CASE i \notin window
  <2>1. stream' = Append(stream, i)
    BY <1>3 DEF Arrive
  <2>2. /\ Len(stream') = Len(stream) + 1 /\ Len(stream) \in Nat
        /\ stream'[Len(stream) + 1] = i
        /\ \A n \in 1..Len(stream) : stream'[n] = stream[n]
    BY <1>1, <2>1
  <2>3. QED
    BY <2>2 DEF Grows
<1>4. QED
  BY <1>2, <1>3

\* No step takes anything out of the stream or changes it.
LEMMA StreamGrowing == TypeOK /\ [Next]_vars => Grows
<1> SUFFICES ASSUME TypeOK, [Next]_vars PROVE Grows
  OBVIOUS
<1>1. CASE stream' = stream
  BY <1>1, StreamSame
<1>2. ASSUME NEW i \in Ids, Arrive(i) PROVE Grows
  BY <1>2, StreamAppended
<1>3. QED
  BY <1>1, <1>2, EveryStep DEF Frames, StreamFrame

\* What was stored stays stored.
LEMMA StoredKept ==
  ASSUME Grows
  PROVE  \A e : Stored(e) => Stored(e)'
BY DEF Grows, Stored

(***************************************************************************)
(* The consumers.                                                          *)
(***************************************************************************)
\* What a consumer has in hand stays where it is in the stream.
LEMMA HeldKept ==
  ASSUME TypeOK, HeldStored, Grows, NEW w \in Workers, hold[w].stage # "idle",
         hold'[w].msg = hold[w].msg
  PROVE  EventOf(w)' = EventOf(w) /\ hold[w].msg \in 1..Len(stream')
BY DEF HeldStored, Grows, EventOf

\* Steps that leave the consumers and the feed alone keep Custody.
LEMMA CustodyKept ==
  ASSUME TypeOK, Custody, Grows, UNCHANGED <<acked, hold, feedVars>>
  PROVE  Custody'
<1> USE DEF Custody
<1>1. \A w \in Workers : hold[w].stage # "idle" =>
         EventOf(w)' = EventOf(w) /\ hold[w].msg \in 1..Len(stream')
  BY HeldKept
<1>2. \A w \in Workers :
         (hold[w].seq # 0 => hold[w].stage # "idle")
  BY DEF HeldStage
<1>3. OneWriter' /\ HeldStored'
  BY <1>1 DEF OneWriter, HeldStored
<1>4. HeldStage'
  BY <1>1, <1>2 DEF HeldStage, InFeed, Answered, feedVars
<1>5. SequenceFresh'
  BY <1>1, <1>2 DEF SequenceFresh, InFeed, feedVars
<1>6. QED
  BY <1>3, <1>4, <1>5

\* Steps of one consumer: the others keep what they have, and the feed and the
\* failures only get better for them.
LEMMA CustodyMoved ==
  ASSUME TypeOK, Custody, NEW w \in Workers,
         stream' = stream, acked' \in {acked, acked + 1},
         \A v \in Workers : v # w => hold'[v] = hold[v],
         \A e \in Events : InFeed(e) => InFeed(e)',
         \A e \in Events : Answered(e) => Answered(e)',
         \A v \in Workers : v # w /\ hold[v].seq # 0 =>
            UNCHANGED position \/ hold[w].stage = "inserted",
         hold'[w].stage = "inserted" =>
            hold[w].stage # "inserted" /\ FeedUnlocked,
         hold'[w].stage # "idle" =>
            hold'[w].msg \in 1..Len(stream) /\ hold'[w].msg <= acked + 1,
         hold'[w].seq # 0 => hold'[w].stage = "inserted",
         hold'[w].stage = "inserted" /\ hold'[w].seq = 0 =>
            InFeed(EventOf(w))',
         hold'[w].stage = "persisted" => InFeed(EventOf(w))',
         hold'[w].stage = "recorded" => Answered(EventOf(w))',
         hold'[w].seq # 0 =>
            /\ ~InFeed(EventOf(w))'
            /\ \A e \in Events : position'[e] < hold'[w].seq
  PROVE  Custody'
<1> USE DEF Custody
<1>1. acked \in Nat
  BY DEF TypeOK
<1>2. \A v \in Workers : v # w => EventOf(v)' = EventOf(v)
  BY DEF EventOf
<1>3. \A v \in Workers : hold[v].stage # "idle" => EventOf(v) \in Events
  BY HeldEvent
<1>4. OneWriter'
  BY DEF OneWriter, FeedUnlocked
<1>5. HeldStored'
  BY <1>1 DEF HeldStored
<1>6. HeldStage'
  BY <1>2, <1>3 DEF HeldStage
<1>7. SequenceFresh'
  <2> SUFFICES ASSUME NEW v \in Workers, hold'[v].seq # 0
               PROVE  /\ ~InFeed(EventOf(v))'
                      /\ \A e \in Events : position'[e] < hold'[v].seq
    BY DEF SequenceFresh
  <2>1. CASE v = w
    BY <2>1
  <2>2. CASE v # w
    <3>1. hold[v].seq # 0 /\ hold[v].stage = "inserted"
      BY <2>2 DEF HeldStage
    <3>2. UNCHANGED position
      BY <2>2, <3>1 DEF OneWriter
    <3>3. QED
      BY <1>2, <2>2, <3>1, <3>2 DEF SequenceFresh, InFeed
  <2>3. QED
    BY <2>1, <2>2
<1>8. QED
  BY <1>4, <1>5, <1>6, <1>7

\* Every step keeps what the consumers hold consistent with the feed.
LEMMA CustodyStep == TypeOK /\ Custody /\ [Next]_vars => Custody'
<1> SUFFICES ASSUME TypeOK, Custody, [Next]_vars PROVE Custody'
  OBVIOUS
<1>1. CASE UNCHANGED <<acked, hold, feedVars>>
  BY <1>1, StreamGrowing, CustodyKept
<1>2. ASSUME NEW w \in Workers, Deliver(w) PROVE Custody'
  <2>1. /\ hold'[w].stage = "got" /\ hold'[w].seq = 0
        /\ hold'[w].msg = acked + 1
        /\ \A v \in Workers : v # w => hold'[v] = hold[v]
    BY <1>2, HoldTaken
  <2>2. stream' = stream /\ acked' = acked /\ UNCHANGED feedVars
    BY <1>2 DEF Deliver, brokerVars
  <2>3. \A e \in Events :
          (InFeed(e) => InFeed(e)') /\ (Answered(e) => Answered(e)')
    BY <2>2 DEF InFeed, Answered, feedVars
  <2>4. hold'[w].msg \in 1..Len(stream) /\ hold'[w].msg <= acked + 1
    BY <1>2, <2>1 DEF Deliver, TypeOK
  <2>5. QED
    BY <2>1, <2>2, <2>3, <2>4, CustodyMoved DEF feedVars
<1>3. ASSUME NEW w \in Workers, NEW n \in Numbers, Persist(w, n)
      PROVE  Custody'
  <2> DEFINE s == IF position[EventOf(w)] = 0 THEN n ELSE 0
  <2>1. n \in Nat /\ s \in Nat
    BY NumbersNat
  <2>2. /\ hold'[w].stage = "inserted" /\ hold'[w].seq = s
        /\ hold'[w].msg = hold[w].msg
        /\ \A v \in Workers : v # w => hold'[v] = hold[v]
    BY <1>3, <2>1, HoldMoves DEF Persist, InsertFeed, Stages
  <2>3. stream' = stream /\ acked' = acked /\ UNCHANGED feedVars
    BY <1>3 DEF Persist, InsertFeed, brokerVars
  <2>4. EventOf(w)' = EventOf(w)
    BY <2>2, <2>3 DEF EventOf
  <2>5. \A e \in Events :
          (InFeed(e) => InFeed(e)') /\ (Answered(e) => Answered(e)')
    BY <2>3 DEF InFeed, Answered, feedVars
  <2>6. hold[w].stage = "got" /\ FeedUnlocked /\ IsNextSequence(n)
    BY <1>3 DEF Persist
  <2>7. hold[w].msg \in 1..Len(stream) /\ hold[w].msg <= acked + 1
    BY <2>6 DEF Custody, HeldStored
  <2>8. s = 0 => InFeed(EventOf(w))'
    <3>1. EventOf(w) \in Events
      BY <2>6, HeldEvent DEF Custody
    <3>2. n > 0
      BY <2>1, <2>6, <3>1 DEF IsNextSequence, TypeOK
    <3>3. QED
      BY <2>3, <2>4, <3>2 DEF InFeed, feedVars
  <2>9. s # 0 => /\ ~InFeed(EventOf(w))'
                 /\ \A e \in Events : position'[e] < s
    BY <2>3, <2>4, <2>6 DEF InFeed, feedVars, IsNextSequence
  <2> HIDE DEF s
  <2>10. QED
    BY <2>2, <2>3, <2>5, <2>6, <2>7, <2>8, <2>9, CustodyMoved DEF feedVars
<1>4. ASSUME NEW w \in Workers, NEW known \in BOOLEAN, CommitFeed(w, known)
      PROVE  Custody'
  <2>1. /\ hold'[w].stage \in {"persisted", "failed"} /\ hold'[w].seq = 0
        /\ hold'[w].msg = hold[w].msg
        /\ \A v \in Workers : v # w => hold'[v] = hold[v]
    BY <1>4, HoldMoves DEF CommitFeed, Stages
  <2>2. stream' = stream /\ acked' = acked /\ hold[w].stage = "inserted"
    BY <1>4 DEF CommitFeed, brokerVars
  <2>3. EventOf(w)' = EventOf(w) /\ EventOf(w) \in Events
    BY <2>1, <2>2, HeldEvent DEF EventOf, Custody
  <2>4. InFeed(EventOf(w))'
    <3>1. CASE hold[w].seq = 0
      BY <1>4, <2>2, <2>3, <3>1 DEF CommitFeed, InFeed, Custody, HeldStage
    <3>2. CASE hold[w].seq # 0
      BY <1>4, <2>3, <3>2 DEF CommitFeed, InFeed, TypeOK
    <3>3. QED
      BY <3>1, <3>2
  <2>5. \A e \in Events :
          e # EventOf(w) =>
            position'[e] = position[e] /\ failure'[e] = failure[e]
    BY <1>4, <2>3 DEF CommitFeed, TypeOK
  <2>6. \A e \in Events :
          (InFeed(e) => InFeed(e)') /\ (Answered(e) => Answered(e)')
    BY <2>3, <2>4, <2>5 DEF InFeed, Answered
  <2>7. hold[w].msg \in 1..Len(stream) /\ hold[w].msg <= acked + 1
    BY <2>2 DEF Custody, HeldStored
  <2>8. QED
    BY <2>1, <2>2, <2>4, <2>6, <2>7, CustodyMoved
<1>5. ASSUME NEW w \in Workers, RejectEvent(w) PROVE Custody'
  <2>1. /\ hold'[w].stage \notin {"inserted", "persisted", "recorded"}
        /\ hold'[w].seq = 0
        /\ hold'[w].stage # "idle" => hold'[w].msg = hold[w].msg
        /\ \A v \in Workers : v # w => hold'[v] = hold[v]
    BY <1>5, HoldMoves DEF RejectEvent, Stages
  <2>2. /\ stream' = stream /\ acked' \in {acked, acked + 1}
        /\ UNCHANGED feedVars
    BY <1>5 DEF RejectEvent, brokerVars
  <2>3. \A e \in Events :
          (InFeed(e) => InFeed(e)') /\ (Answered(e) => Answered(e)')
    BY <2>2 DEF InFeed, Answered, feedVars
  <2>4. hold'[w].stage # "idle" =>
          hold'[w].msg \in 1..Len(stream) /\ hold'[w].msg <= acked + 1
    BY <1>5, <2>1 DEF RejectEvent, Custody, HeldStored
  <2>5. QED
    BY <2>1, <2>2, <2>3, <2>4, CustodyMoved DEF feedVars
<1>6. ASSUME NEW w \in Workers, Acknowledge(w) PROVE Custody'
  <2>1. /\ hold'[w].stage \notin {"inserted", "persisted", "recorded"}
        /\ hold'[w].seq = 0
        /\ hold'[w].stage # "idle" => hold'[w].msg = hold[w].msg
        /\ \A v \in Workers : v # w => hold'[v] = hold[v]
    BY <1>6, HoldFreed DEF Acknowledge, Stages
  <2>2. /\ stream' = stream /\ acked' \in {acked, acked + 1}
        /\ UNCHANGED feedVars
    BY <1>6 DEF Acknowledge, Settle, brokerVars
  <2>3. \A e \in Events :
          (InFeed(e) => InFeed(e)') /\ (Answered(e) => Answered(e)')
    BY <2>2 DEF InFeed, Answered, feedVars
  <2>4. hold'[w].stage # "idle" =>
          hold'[w].msg \in 1..Len(stream) /\ hold'[w].msg <= acked + 1
    BY <1>6, <2>1 DEF Acknowledge, Custody, HeldStored
  <2>5. QED
    BY <2>1, <2>2, <2>3, <2>4, CustodyMoved DEF feedVars
<1>7. ASSUME NEW w \in Workers, RecordFailure(w) PROVE Custody'
  <2>1. /\ hold'[w].stage = "recorded" /\ hold'[w].seq = 0
        /\ hold'[w].msg = hold[w].msg
        /\ \A v \in Workers : v # w => hold'[v] = hold[v]
    BY <1>7, HoldMoves DEF RecordFailure, Stages
  <2>2. /\ stream' = stream /\ acked' = acked /\ position' = position
        /\ hold[w].stage = "failed"
    BY <1>7 DEF RecordFailure, brokerVars
  <2>3. EventOf(w)' = EventOf(w) /\ EventOf(w) \in Events
    BY <2>1, <2>2, HeldEvent DEF EventOf, Custody
  <2>4. /\ failure'[EventOf(w)] = "open"
        /\ \A e \in Events : e # EventOf(w) => failure'[e] = failure[e]
    BY <1>7, <2>3 DEF RecordFailure, TypeOK
  <2>5. \A e \in Events :
          (InFeed(e) => InFeed(e)') /\ (Answered(e) => Answered(e)')
    BY <2>2, <2>4 DEF InFeed, Answered
  <2>6. Answered(EventOf(w))'
    BY <2>3, <2>4 DEF Answered
  <2>7. hold[w].msg \in 1..Len(stream) /\ hold[w].msg <= acked + 1
    BY <2>2 DEF Custody, HeldStored
  <2>8. QED
    BY <2>1, <2>2, <2>5, <2>6, <2>7, CustodyMoved
<1>8. ASSUME NEW w \in Workers, Terminate(w) PROVE Custody'
  <2>1. /\ hold'[w].stage \notin {"inserted", "persisted", "recorded"}
        /\ hold'[w].seq = 0
        /\ hold'[w].stage # "idle" => hold'[w].msg = hold[w].msg
        /\ \A v \in Workers : v # w => hold'[v] = hold[v]
    BY <1>8, HoldFreed DEF Terminate, Stages
  <2>2. /\ stream' = stream /\ acked' \in {acked, acked + 1}
        /\ UNCHANGED feedVars
    BY <1>8 DEF Terminate, Settle, brokerVars
  <2>3. \A e \in Events :
          (InFeed(e) => InFeed(e)') /\ (Answered(e) => Answered(e)')
    BY <2>2 DEF InFeed, Answered, feedVars
  <2>4. hold'[w].stage # "idle" =>
          hold'[w].msg \in 1..Len(stream) /\ hold'[w].msg <= acked + 1
    BY <1>8, <2>1 DEF Terminate, Custody, HeldStored
  <2>5. QED
    BY <2>1, <2>2, <2>3, <2>4, CustodyMoved DEF feedVars
<1>9. ASSUME NEW w \in Workers, LetGo(w) PROVE Custody'
  <2>1. /\ hold'[w].stage \notin {"inserted", "persisted", "recorded"}
        /\ hold'[w].seq = 0
        /\ hold'[w].stage # "idle" => hold'[w].msg = hold[w].msg
        /\ \A v \in Workers : v # w => hold'[v] = hold[v]
    BY <1>9, HoldFreed DEF LetGo, Stages
  <2>2. /\ stream' = stream /\ acked' \in {acked, acked + 1}
        /\ UNCHANGED feedVars
    BY <1>9 DEF LetGo, brokerVars
  <2>3. \A e \in Events :
          (InFeed(e) => InFeed(e)') /\ (Answered(e) => Answered(e)')
    BY <2>2 DEF InFeed, Answered, feedVars
  <2>4. hold'[w].stage # "idle" =>
          hold'[w].msg \in 1..Len(stream) /\ hold'[w].msg <= acked + 1
    BY <1>9, <2>1 DEF LetGo, Custody, HeldStored
  <2>5. QED
    BY <2>1, <2>2, <2>3, <2>4, CustodyMoved DEF feedVars
<1>10. QED
  BY <1>1, <1>2, <1>3, <1>4, <1>5, <1>6, <1>7, <1>8, <1>9, EveryStep
       DEF Frames, ConsumerFrame

(***************************************************************************)
(* The feed and the order of events.                                       *)
(***************************************************************************)
\* What a commit makes of the feed.
LEMMA Committed ==
  ASSUME TypeOK, Custody, NEW w \in Workers, NEW known \in BOOLEAN,
         CommitFeed(w, known)
  PROVE  /\ EventOf(w) \in Events
         /\ hold[w].seq \in Nat
         /\ hold[w].seq = 0 => position' = position
         /\ hold[w].seq # 0 => position'[EventOf(w)] = hold[w].seq
         /\ InFeed(EventOf(w))'
         /\ \A e \in Events : e # EventOf(w) =>
              position'[e] = position[e] /\ failure'[e] = failure[e]
         /\ failure[EventOf(w)] # "none" => failure'[EventOf(w)] # "none"
<1>1. EventOf(w) \in Events
  BY HeldEvent DEF CommitFeed, Custody
<1>2. hold[w].seq \in Nat
  BY DEF TypeOK, Holding
<1>3. hold[w].seq # 0 => position'[EventOf(w)] = hold[w].seq
  BY <1>1 DEF CommitFeed, TypeOK
<1>4. position'[EventOf(w)] # 0
  BY <1>1, <1>3 DEF CommitFeed, Custody, HeldStage, InFeed
<1>5. hold'[w].msg = hold[w].msg
  BY HoldMoves DEF CommitFeed, Stages
<1>6. InFeed(EventOf(w))'
  BY <1>4, <1>5 DEF InFeed, EventOf, CommitFeed, brokerVars
<1>7. \A e \in Events : e # EventOf(w) =>
         position'[e] = position[e] /\ failure'[e] = failure[e]
  BY <1>1 DEF CommitFeed, TypeOK
<1>8. failure[EventOf(w)] # "none" => failure'[EventOf(w)] # "none"
  BY <1>1 DEF CommitFeed, TypeOK
<1>9. hold[w].seq = 0 => position' = position
  BY DEF CommitFeed
<1>10. QED
  BY <1>1, <1>2, <1>3, <1>6, <1>7, <1>8, <1>9

\* Whatever happens, the feed and the list of failures only grow.
FeedGrows ==
  \A e \in Events :
    /\ InFeed(e) => position'[e] = position[e]
    /\ failure[e] # "none" => failure'[e] # "none"
    /\ Answered(e) => Answered(e)'

\* No step takes anything out of the feed, or a failure off the list before
\* the event is in the feed.
LEMMA FeedGrowing == TypeOK /\ Custody /\ [Next]_vars => FeedGrows
<1> SUFFICES ASSUME TypeOK, Custody, [Next]_vars PROVE FeedGrows
  OBVIOUS
<1>1. CASE UNCHANGED feedVars
  BY <1>1 DEF FeedGrows, InFeed, Answered, feedVars
<1>2. ASSUME NEW w \in Workers, NEW known \in BOOLEAN, CommitFeed(w, known)
      PROVE  FeedGrows
  <2>1. EventOf(w)' = EventOf(w)
    <3>1. hold'[w].msg = hold[w].msg
      BY <1>2, HoldMoves DEF CommitFeed, Stages
    <3>2. QED
      BY <1>2, <3>1 DEF EventOf, CommitFeed, brokerVars
  <2>2. InFeed(EventOf(w)) => position' = position
    BY <1>2, Committed DEF Custody, SequenceFresh
  <2>3. QED
    BY <1>2, <2>1, <2>2, Committed DEF FeedGrows, InFeed, Answered
<1>3. ASSUME NEW w \in Workers, RecordFailure(w) PROVE FeedGrows
  <2>1. EventOf(w) \in Events
    BY <1>3, HeldEvent DEF RecordFailure, Custody
  <2>2. QED
    BY <1>3, <2>1 DEF FeedGrows, InFeed, Answered, RecordFailure, TypeOK
<1>4. QED
  BY <1>1, <1>2, <1>3, EveryStep DEF Frames, FeedFrame

\* Every step keeps feed sequences unique and the subscriber complete.
LEMMA FeedStep ==
  TypeOK /\ Custody /\ FeedKeys /\ CursorComplete
    /\ [Next]_vars => FeedKeys' /\ CursorComplete'
<1> SUFFICES ASSUME TypeOK, Custody, FeedKeys, CursorComplete,
                    [Next]_vars
             PROVE  FeedKeys' /\ CursorComplete'
  OBVIOUS
<1>1. CASE UNCHANGED <<position, subscriberVars>>
  BY <1>1 DEF FeedKeys, CursorComplete, InFeed, subscriberVars
<1>2. ASSUME NEW w \in Workers, NEW known \in BOOLEAN, CommitFeed(w, known)
      PROVE  FeedKeys' /\ CursorComplete'
  <2> DEFINE x == EventOf(w)
  <2>1. CASE hold[w].seq = 0
    BY <1>2, <2>1, Committed DEF FeedKeys, CursorComplete, InFeed, CommitFeed,
       subscriberVars
  <2>2. CASE hold[w].seq # 0
    <3>1. /\ x \in Events /\ position'[x] = hold[w].seq
          /\ \A e \in Events : e # x => position'[e] = position[e]
          /\ hold[w].seq \in Nat /\ UNCHANGED <<cursor, received>>
      BY <1>2, <2>2, Committed DEF CommitFeed, subscriberVars
    <3>2. position[x] = 0 /\ \A e \in Events : position[e] < hold[w].seq
      BY <2>2 DEF Custody, SequenceFresh, InFeed
    <3>3. cursor \in Nat /\ \A e \in Events : position[e] \in Nat
      BY DEF TypeOK
    <3> HIDE DEF x
    <3>4. cursor < hold[w].seq
      BY <3>1, <3>2, <3>3, <2>2 DEF FeedKeys
    <3>5. FeedKeys'
      BY <3>1, <3>2, <3>3, <2>2 DEF FeedKeys, InFeed
    <3>6. CursorComplete'
      BY <3>1, <3>2, <3>3, <3>4 DEF CursorComplete, InFeed
    <3>7. QED
      BY <3>5, <3>6
  <2>3. QED
    BY <2>1, <2>2
<1>3. ASSUME NEW e \in Events, PollEvents(e)
      PROVE  FeedKeys' /\ CursorComplete'
  <2>1. cursor \in Nat /\ \A d \in Events : position[d] \in Nat
    BY DEF TypeOK
  <2>2. FeedKeys'
    BY <1>3 DEF FeedKeys, InFeed, PollEvents, feedVars
  <2>3. \A d \in Events :
          (InFeed(d) /\ position[d] <= position[e]) <=>
          (InFeed(d) /\ position[d] <= cursor) \/ d = e
    BY <1>3, <2>1 DEF FeedKeys, InFeed, PollEvents
  <2>4. CursorComplete'
    BY <1>3, <2>3 DEF CursorComplete, InFeed, PollEvents, feedVars
  <2>5. QED
    BY <2>2, <2>4
<1>4. QED
  BY <1>1, <1>2, <1>3, EveryStep DEF Frames, CursorFrame

\* Only what was persisted or recorded is settled.
LEMMA SettledStep == TypeOK /\ Custody /\ SettledAnswered /\ [Next]_vars
           => SettledAnswered'
<1> SUFFICES ASSUME TypeOK, Custody, SettledAnswered, [Next]_vars
             PROVE  SettledAnswered'
  OBVIOUS
<1>0. /\ \A n \in 1..Len(stream) :
           Answered(stream[n].event) => Answered(stream[n].event)'
      /\ acked \in Nat /\ Len(stream) \in Nat /\ acked <= Len(stream)
  <2>1. Grows /\ FeedGrows
    BY StreamGrowing, FeedGrowing
  <2>2. stream \in Seq(Ids) /\ acked \in 0..Len(stream)
    BY DEF TypeOK
  <2>3. \A n \in 1..Len(stream) : stream[n].event \in Events
    <3> SUFFICES ASSUME NEW n \in 1..Len(stream)
                 PROVE  stream[n].event \in Events
      OBVIOUS
    <3>1. stream[n] \in Ids
      BY <2>2
    <3>2. QED
      BY <3>1 DEF Ids
  <2>4. \A n \in 1..Len(stream) : stream'[n] = stream[n]
    BY <2>1 DEF Grows
  <2>5. \A n \in 1..Len(stream) :
          Answered(stream[n].event) => Answered(stream[n].event)'
    BY <2>1, <2>3, <2>4 DEF FeedGrows, Answered, InFeed
  <2>6. QED
    BY <2>2, <2>5
<1>1. CASE acked' = acked
  BY <1>0, <1>1 DEF SettledAnswered
<1>2. ASSUME NEW w \in Workers, Acknowledge(w) PROVE SettledAnswered'
  <2>1. hold[w].stage # "idle" /\ Answered(EventOf(w))
    BY <1>2 DEF Acknowledge, Custody, HeldStage, Answered
  <2>2. CASE hold[w].msg = acked + 1
    <3>1. acked' = acked + 1 /\ acked + 1 \in 1..Len(stream)
      BY <1>2, <2>1, <2>2 DEF Acknowledge, Settle, Custody, HeldStored
    <3>2. Answered(stream[acked + 1].event)
      BY <2>1, <2>2 DEF EventOf
    <3>3. \A n \in 1..acked' : n \in 1..acked \/ n = acked + 1
      BY <1>0, <3>1
    <3>4. QED
      BY <1>0, <3>1, <3>2, <3>3 DEF SettledAnswered
  <2>3. CASE hold[w].msg # acked + 1
    <3>1. acked' = acked
      BY <1>2, <2>3 DEF Acknowledge, Settle
    <3>2. QED
      BY <1>0, <3>1 DEF SettledAnswered
  <2>4. QED
    BY <2>2, <2>3
<1>3. ASSUME NEW w \in Workers, Terminate(w) PROVE SettledAnswered'
  <2>1. hold[w].stage # "idle" /\ Answered(EventOf(w))
    BY <1>3 DEF Terminate, Custody, HeldStage, Answered
  <2>2. CASE hold[w].msg = acked + 1
    <3>1. acked' = acked + 1 /\ acked + 1 \in 1..Len(stream)
      BY <1>3, <2>1, <2>2 DEF Terminate, Settle, Custody, HeldStored
    <3>2. Answered(stream[acked + 1].event)
      BY <2>1, <2>2 DEF EventOf
    <3>3. \A n \in 1..acked' : n \in 1..acked \/ n = acked + 1
      BY <1>0, <3>1
    <3>4. QED
      BY <1>0, <3>1, <3>2, <3>3 DEF SettledAnswered
  <2>3. CASE hold[w].msg # acked + 1
    <3>1. acked' = acked
      BY <1>3, <2>3 DEF Terminate, Settle
    <3>2. QED
      BY <1>0, <3>1 DEF SettledAnswered
  <2>4. QED
    BY <2>2, <2>3
<1>4. QED
  BY <1>1, <1>2, <1>3, EveryStep DEF Frames, AckFrame

\* What the relay and the broker take for published is stored.
LEMMA PublishedStep ==
  TypeOK /\ PublishedStored
    /\ [Next]_vars => PublishedStored'
<1> SUFFICES ASSUME TypeOK, PublishedStored, [Next]_vars
             PROVE  PublishedStored'
  OBVIOUS
<1>0. \A e : Stored(e) => Stored(e)'
  BY StreamGrowing, StoredKept
<1>1. CASE UNCHANGED <<delivered, relayVars, window>>
  BY <1>0, <1>1 DEF PublishedStored, relayVars
<1>2. ASSUME NEW e \in Events, ReplayEvent(e) PROVE PublishedStored'
  BY <1>0, <1>2 DEF PublishedStored, ReplayEvent, relayVars, brokerVars
<1>3. ASSUME NEW e \in Events, Publish(e) PROVE PublishedStored'
  <2>1. ~answered
    BY <1>3 DEF PublishedStored, Publish
  <2>2. QED
    BY <1>0, <1>3, <2>1 DEF PublishedStored, Publish, outboxVars
<1>4. ASSUME ConfirmPublished PROVE PublishedStored'
  BY <1>0, <1>4 DEF PublishedStored, ConfirmPublished, EndRelay, brokerVars
<1>5. ASSUME DeferPublished PROVE PublishedStored'
  BY <1>0, <1>5 DEF PublishedStored, DeferPublished, EndRelay, brokerVars
<1>6. ASSUME AbandonPublished PROVE PublishedStored'
  BY <1>0, <1>6 DEF PublishedStored, AbandonPublished, EndRelay, brokerVars
<1>7. ASSUME NEW i \in Ids, Arrive(i) PROVE PublishedStored'
  <2>1. i \in window \/ Stored(i.event)'
    BY <1>7, StreamAppended DEF Stored
  <2>2. Stored(i.event)'
    BY <1>0, <2>1 DEF PublishedStored
  <2>3. i # None
    BY RelayAssumption DEF Ids
  <2>4. /\ window' = window \cup {i} /\ UNCHANGED <<relaying, delivered>>
        /\ answered' = (answered \/ relaying = i)
    BY <1>7 DEF Arrive, outboxVars
  <2>5. QED
    BY <1>0, <2>2, <2>3, <2>4 DEF PublishedStored
<1>8. ASSUME NEW i \in Ids, WindowPasses(i) PROVE PublishedStored'
  BY <1>0, <1>8 DEF PublishedStored, WindowPasses, outboxVars, relayVars
<1>9. QED
  BY <1>1, <1>2, <1>3, <1>4, <1>5, <1>6, <1>7, <1>8, EveryStep DEF Frames,
     PublishedFrame

\* Events of a project are committed, sent and stored in order.
LEMMA PredecessorsStep ==
  TypeOK /\ PublishedStored /\ Predecessors
    /\ [Next]_vars => Predecessors'
<1> SUFFICES ASSUME TypeOK, PublishedStored, Predecessors,
                    [Next]_vars
             PROVE  Predecessors'
  OBVIOUS
<1>0. \A e : Stored(e) => Stored(e)'
  BY StreamGrowing, StoredKept
<1>1. CASE UNCHANGED <<outbox, wire, stream>>
  BY <1>0, <1>1 DEF Predecessors
<1>2. ASSUME NEW e \in Events, Emit(e) PROVE Predecessors'
  <2>1. stream' = stream
    BY <1>2 DEF Emit, brokerVars
  <2>2. \A c, d \in Events : Before(c, d) /\ d \in outbox' => c \in outbox'
    BY <1>2 DEF Predecessors, Emit, Before
  <2>3. QED
    BY <1>0, <1>2, <2>1, <2>2 DEF Predecessors, Emit, brokerVars
<1>3. ASSUME NEW e \in Events, Publish(e) PROVE Predecessors'
  <2>1. \A d \in Events : Before(d, e) => Stored(d)
    <3> SUFFICES ASSUME NEW d \in Events, Before(d, e) PROVE Stored(d)
      OBVIOUS
    <3>1. d \in outbox /\ ~(e <= d)
      BY <1>3, RelayAssumption DEF Predecessors, Publish, IsHead, Before
    <3>2. d \in delivered
      BY <1>3, <3>1 DEF Publish, IsHead
    <3>3. QED
      BY <3>2 DEF PublishedStored
  <2>2. Id(e).event = e
    BY DEF Id
  <2>3. QED
    BY <1>0, <1>3, <2>1, <2>2 DEF Predecessors, Publish, outboxVars
<1>4. ASSUME NEW i \in Ids, Arrive(i) PROVE Predecessors'
  <2>1. \A d \in Events : Before(d, i.event) => Stored(d)
    BY <1>4 DEF Predecessors, Arrive
  <2>2. \A n \in 1..Len(stream') : \A d \in Events :
          Before(d, stream'[n].event) =>
            \E k \in 1..(n - 1) : stream'[k].event = d
    <3> SUFFICES ASSUME NEW n \in 1..Len(stream'), NEW d \in Events,
                        Before(d, stream'[n].event)
                 PROVE  \E k \in 1..(n - 1) : stream'[k].event = d
      OBVIOUS
    <3>1. /\ Grows /\ Len(stream) \in Nat
          /\ n \in 1..Len(stream) \/ stream'[n] = i
      BY <1>4, StreamAppended DEF TypeOK
    <3>2. CASE n \in 1..Len(stream)
      <4>1. PICK k \in 1..(n - 1) : stream[k].event = d
        BY <3>1, <3>2 DEF Predecessors, Grows
      <4>2. k \in 1..Len(stream)
        BY <3>1, <3>2
      <4>3. QED
        BY <3>1, <4>1, <4>2 DEF Grows
    <3>3. CASE n \notin 1..Len(stream)
      <4>1. PICK k \in 1..Len(stream) : stream[k].event = d
        BY <2>1, <3>1, <3>3 DEF Stored
      <4>2. k \in 1..(n - 1) /\ stream'[k] = stream[k]
        BY <3>1, <3>3, <4>1 DEF Grows
      <4>3. QED
        BY <4>1, <4>2
    <3>4. QED
      BY <3>2, <3>3
  <2>3. QED
    BY <1>0, <1>4, <2>2 DEF Predecessors, Arrive, outboxVars
<1>5. ASSUME NEW i \in Ids, Lose(i) PROVE Predecessors'
  BY <1>0, <1>5 DEF Predecessors, Lose, outboxVars
<1>6. QED
  BY <1>1, <1>2, <1>3, <1>4, <1>5, EveryStep DEF Frames, OrderFrame

\* A sequence that a consumer keeps does not lose its place.
LEMMA HeldInOrderKept ==
  ASSUME TypeOK, Custody, HeldInOrder, Grows, FeedGrows,
         \A v \in Workers : hold'[v].seq # 0 =>
           hold[v].seq # 0 /\ hold'[v].msg = hold[v].msg
  PROVE  HeldInOrder'
<1> SUFFICES ASSUME NEW v \in Workers, hold'[v].seq # 0,
                    NEW d \in Events, Before(d, EventOf(v)')
             PROVE  InFeed(d)' \/ failure'[d] # "none"
  BY DEF HeldInOrder, Before
<1>1. hold[v].seq # 0 /\ hold[v].stage # "idle"
  BY DEF Custody, HeldStage
<1>2. EventOf(v)' = EventOf(v)
  BY <1>1, HeldKept DEF Custody
<1>3. InFeed(d) \/ failure[d] # "none"
  BY <1>1, <1>2 DEF HeldInOrder
<1>4. QED
  BY <1>3 DEF FeedGrows, InFeed

\* A consumer draws a sequence for an event when its predecessors are settled.
LEMMA HeldInOrderStep == TypeOK /\ Custody /\ SettledAnswered /\ Predecessors
           /\ HeldInOrder /\ [Next]_vars => HeldInOrder'
<1> SUFFICES ASSUME TypeOK, Custody, SettledAnswered, Predecessors,
                    HeldInOrder, [Next]_vars
             PROVE  HeldInOrder'
  OBVIOUS
<1>0. Grows /\ FeedGrows
  BY StreamGrowing, FeedGrowing
<1>1. CASE UNCHANGED <<acked, hold, feedVars>>
  BY <1>0, <1>1, HeldInOrderKept
<1>2. ASSUME NEW w \in Workers, Deliver(w) PROVE HeldInOrder'
  <2>1. \A v \in Workers : hold'[v].seq # 0 =>
          hold[v].seq # 0 /\ hold'[v].msg = hold[v].msg
    BY <1>2, HoldTaken
  <2>2. QED
    BY <1>0, <2>1, HeldInOrderKept
<1>3. ASSUME NEW w \in Workers, NEW n \in Numbers, Persist(w, n)
      PROVE  HeldInOrder'
  <2>1. PICK s \in Nat : MovesTo(w, "inserted", s)
    BY <1>3, NumbersNat DEF Persist, InsertFeed
  <2>2. /\ hold'[w].msg = hold[w].msg
        /\ \A v \in Workers : v # w => hold'[v] = hold[v]
    BY <2>1, HoldMoves DEF Stages
  <2>3. hold[w].stage # "idle" /\ UNCHANGED <<stream, position, failure>>
    BY <1>3 DEF Persist, InsertFeed, brokerVars, feedVars
  <2>4. EventOf(w)' = EventOf(w)
    BY <2>2, <2>3 DEF EventOf
  <2> SUFFICES ASSUME NEW v \in Workers, hold'[v].seq # 0,
                      NEW d \in Events, Before(d, EventOf(v)')
               PROVE  InFeed(d) \/ failure[d] # "none"
    BY <2>3 DEF HeldInOrder, Before, InFeed
  <2>5. CASE v = w
    <3>1. /\ hold[w].msg \in 1..Len(stream) /\ hold[w].msg <= acked + 1
          /\ acked \in Nat
      BY <2>3 DEF TypeOK, Custody, HeldStored
    <3>2. Before(d, stream[hold[w].msg].event)
      BY <2>4, <2>5 DEF EventOf
    <3>3. PICK k \in 1..(hold[w].msg - 1) : stream[k].event = d
      BY <3>1, <3>2 DEF Predecessors
    <3>4. k \in 1..acked
      BY <3>1, <3>3
    <3>5. Answered(d)
      BY <3>3, <3>4 DEF SettledAnswered
    <3>6. QED
      BY <3>5 DEF Answered
  <2>6. CASE v # w
    <3>1. hold'[v] = hold[v] /\ EventOf(v)' = EventOf(v)
      BY <2>2, <2>3, <2>6 DEF EventOf
    <3>2. QED
      BY <3>1 DEF HeldInOrder
  <2>7. QED
    BY <2>5, <2>6
<1>4. ASSUME NEW w \in Workers, NEW known \in BOOLEAN, CommitFeed(w, known)
      PROVE  HeldInOrder'
  <2>1. \A v \in Workers : hold'[v].seq # 0 =>
          hold[v].seq # 0 /\ hold'[v].msg = hold[v].msg
    BY <1>4, HoldMoves DEF CommitFeed, Stages
  <2>2. QED
    BY <1>0, <2>1, HeldInOrderKept
<1>5. ASSUME NEW w \in Workers, RejectEvent(w) PROVE HeldInOrder'
  <2>1. \A v \in Workers : hold'[v].seq # 0 =>
          hold[v].seq # 0 /\ hold'[v].msg = hold[v].msg
    BY <1>5, HoldMoves DEF RejectEvent, Stages
  <2>2. QED
    BY <1>0, <2>1, HeldInOrderKept
<1>6. ASSUME NEW w \in Workers, Acknowledge(w) PROVE HeldInOrder'
  <2>1. \A v \in Workers : hold'[v].seq # 0 =>
          hold[v].seq # 0 /\ hold'[v].msg = hold[v].msg
    BY <1>6, HoldFreed DEF Acknowledge
  <2>2. QED
    BY <1>0, <2>1, HeldInOrderKept
<1>7. ASSUME NEW w \in Workers, RecordFailure(w) PROVE HeldInOrder'
  <2>1. \A v \in Workers : hold'[v].seq # 0 =>
          hold[v].seq # 0 /\ hold'[v].msg = hold[v].msg
    BY <1>7, HoldMoves DEF RecordFailure, Stages
  <2>2. QED
    BY <1>0, <2>1, HeldInOrderKept
<1>8. ASSUME NEW w \in Workers, Terminate(w) PROVE HeldInOrder'
  <2>1. \A v \in Workers : hold'[v].seq # 0 =>
          hold[v].seq # 0 /\ hold'[v].msg = hold[v].msg
    BY <1>8, HoldFreed DEF Terminate
  <2>2. QED
    BY <1>0, <2>1, HeldInOrderKept
<1>9. ASSUME NEW w \in Workers, LetGo(w) PROVE HeldInOrder'
  <2>1. \A v \in Workers : hold'[v].seq # 0 =>
          hold[v].seq # 0 /\ hold'[v].msg = hold[v].msg
    BY <1>9, HoldFreed DEF LetGo
  <2>2. QED
    BY <1>0, <2>1, HeldInOrderKept
<1>10. QED
  BY <1>1, <1>2, <1>3, <1>4, <1>5, <1>6, <1>7, <1>8, <1>9, EveryStep
       DEF Frames, ConsumerFrame

\* A commit puts an event behind its predecessors.
LEMMA ProjectOrderStep ==
  TypeOK /\ Custody /\ HeldInOrder /\ ProjectOrder
    /\ [Next]_vars => ProjectOrder'
<1> SUFFICES ASSUME TypeOK, Custody, HeldInOrder, ProjectOrder,
                    [Next]_vars
             PROVE  ProjectOrder'
  OBVIOUS
<1>0. FeedGrows
  BY FeedGrowing
<1>1. CASE position' = position
  BY <1>0, <1>1 DEF ProjectOrder, FeedGrows, InFeed
<1>2. ASSUME NEW w \in Workers, NEW known \in BOOLEAN, CommitFeed(w, known)
      PROVE  ProjectOrder'
  <2>1. CASE hold[w].seq = 0
    <3>1. position' = position
      BY <1>2, <2>1 DEF CommitFeed
    <3>2. QED
      BY <1>0, <3>1 DEF ProjectOrder, FeedGrows, InFeed
  <2>2. CASE hold[w].seq # 0
    <3> DEFINE x == EventOf(w)
    <3>1. /\ x \in Events /\ position'[x] = hold[w].seq
          /\ \A e \in Events : e # x => position'[e] = position[e]
      BY <1>2, <2>2, Committed
    <3>2. ~InFeed(x) /\ \A e \in Events : position[e] < hold[w].seq
      BY <2>2 DEF Custody, SequenceFresh
    <3>3. \A d \in Events : Before(d, x) => InFeed(d) \/ failure[d] # "none"
      BY <2>2 DEF HeldInOrder
    <3>4. \A d \in Events : failure[d] # "none" => failure'[d] # "none"
      BY <1>0 DEF FeedGrows
    <3> HIDE DEF x
    <3> SUFFICES ASSUME NEW d \in Events, NEW e \in Events, Before(d, e),
                        position'[e] # 0
                 PROVE  \/ position'[d] # 0 /\ position'[d] < position'[e]
                        \/ failure'[d] # "none"
      BY DEF ProjectOrder, Before, InFeed
    <3>5. d # e
      BY RelayAssumption DEF Before
    <3>6. CASE e = x
      BY <3>1, <3>2, <3>3, <3>4, <3>5, <3>6 DEF InFeed
    <3>7. CASE e # x
      <4>1. InFeed(e) /\ position'[e] = position[e]
        BY <3>1, <3>7 DEF InFeed
      <4>2. (InFeed(d) /\ position[d] < position[e]) \/ failure[d] # "none"
        BY <4>1 DEF ProjectOrder, Before
      <4>3. d = x => ~InFeed(d)
        BY <3>2
      <4>4. d # x => position'[d] = position[d]
        BY <3>1
      <4>5. QED
        BY <3>4, <4>1, <4>2, <4>3, <4>4 DEF InFeed
    <3>8. QED
      BY <3>6, <3>7
  <2>3. QED
    BY <2>1, <2>2
<1>3. QED
  BY <1>1, <1>2, EveryStep DEF Frames, PositionFrame

(***************************************************************************)
(* The theorems.                                                           *)
(***************************************************************************)
LEMMA InitRInv == Init => RInv
<1> SUFFICES ASSUME Init PROVE RInv
  OBVIOUS
<1> USE DEF Init
<1>1. TypeOK
  <2>1. Empty \in Holding
    BY RelayAssumption DEF Empty, Holding, Stages
  <2>2. stream \in Seq(Ids) /\ Len(stream) = 0
    OBVIOUS
  <2>3. 0 \in 0..MaxReplay /\ 0 \in 0..MaxDeliver
    BY RelayAssumption
  <2>4. hold \in [Workers -> Holding]
    BY <2>1
  <2>5. /\ version \in [Events -> 0..MaxReplay]
        /\ position \in [Events -> Nat]
        /\ failure \in [Events -> {"none", "open", "resolved"}]
    BY <2>3
  <2>6. /\ outbox = {} /\ delivered = {} /\ due = {} /\ relaying = None
        /\ answered = FALSE /\ wire = {} /\ window = {} /\ acked = 0
        /\ tries = 0 /\ cursor = 0 /\ received = {}
    OBVIOUS
  <2> HIDE DEF Init
  <2>7. /\ acked \in 0..Len(stream) /\ tries \in 0..MaxDeliver
        /\ cursor \in Nat
    BY <2>2, <2>3, <2>6
  <2>8. /\ outbox \subseteq Events /\ delivered \subseteq outbox
        /\ due \subseteq outbox /\ wire \subseteq Ids /\ window \subseteq Ids
        /\ received \subseteq Events
    BY <2>6
  <2>9. relaying \in Ids \cup {None} /\ answered \in BOOLEAN
    BY <2>6
  <2>10. QED
    BY <2>2, <2>4, <2>5, <2>7, <2>8, <2>9 DEF TypeOK
<1>2. Publishing /\ FeedKeys /\ CursorComplete /\ ProjectOrder
  BY DEF Publishing, FeedKeys, CursorComplete, ProjectOrder, InFeed
<1>3. Custody
  BY DEF Custody, OneWriter, HeldStored, HeldStage, SequenceFresh, Empty
<1>4. SettledAnswered
  BY DEF SettledAnswered
<1>5. PublishedStored
  BY DEF PublishedStored
<1>6. Predecessors
  BY DEF Predecessors
<1>7. HeldInOrder
  BY DEF HeldInOrder, Empty
<1>8. QED
  BY <1>1, <1>2, <1>3, <1>4, <1>5, <1>6, <1>7 DEF RInv

LEMMA RInvStep == RInv /\ [Next]_vars => RInv'
<1> SUFFICES ASSUME RInv, [Next]_vars PROVE RInv'
  OBVIOUS
<1>1. TypeOK' /\ Publishing'
  BY TypeStep DEF RInv, Custody
<1>2. Custody'
  BY CustodyStep DEF RInv
<1>3. FeedKeys' /\ CursorComplete'
  BY FeedStep DEF RInv
<1>4. SettledAnswered'
  BY SettledStep DEF RInv
<1>5. PublishedStored'
  BY PublishedStep DEF RInv
<1>6. Predecessors'
  BY PredecessorsStep DEF RInv
<1>7. HeldInOrder'
  BY HeldInOrderStep DEF RInv
<1>8. ProjectOrder'
  BY ProjectOrderStep DEF RInv
<1>9. QED
  BY <1>1, <1>2, <1>3, <1>4, <1>5, <1>6, <1>7, <1>8 DEF RInv

\* The strengthening holds in every reachable state.
LEMMA RInvHolds == Spec => []RInv
BY InitRInv, RInvStep, PTL DEF Spec

\* Every variable keeps its type, for any number of events, workers and
\* replays (the outbox, JetStream and feed state behind worker.go).
THEOREM RelayTypeCorrect == Spec => []TypeOK
<1>1. RInv => TypeOK
  BY DEF RInv
<1>2. QED
  BY <1>1, RInvHolds, PTL

\* An event the relay marked as delivered is in the feed, waits in the broker,
\* or its failure is on record (publishOne, consumeOne, persist).
THEOREM NothingLostHolds == Spec => []NothingLost
<1>1. RInv => NothingLost
  <2> SUFFICES ASSUME RInv, NEW e \in delivered
               PROVE  InFeed(e) \/ Waiting(e) \/ failure[e] = "open"
    BY DEF NothingLost
  <2>1. PICK n \in 1..Len(stream) : stream[n].event = e
    BY DEF RInv, PublishedStored, Stored
  <2>2. acked \in 0..Len(stream) /\ Len(stream) \in Nat
    BY DEF RInv, TypeOK
  <2>3. CASE n <= acked
    BY <2>1, <2>2, <2>3 DEF RInv, SettledAnswered, Answered
  <2>4. CASE ~(n <= acked)
    BY <2>1, <2>2, <2>4 DEF Waiting
  <2>5. QED
    BY <2>3, <2>4
<1>2. QED
  BY <1>1, RInvHolds, PTL

\* The events of a project enter the feed in the order they were committed,
\* unless the overtaken one failed (the row lock, the head of the outbox, and
\* MaxAckPending 1 together).
THEOREM ProjectOrderHolds == Spec => []ProjectOrder
<1>1. RInv => ProjectOrder
  BY DEF RInv
<1>2. QED
  BY <1>1, RInvHolds, PTL

\* A subscriber was given exactly what the feed has up to its cursor: the lock
\* in persist keeps a late commit from landing behind it.
THEOREM CursorCompleteHolds == Spec => []CursorComplete
<1>1. RInv => CursorComplete
  BY DEF RInv
<1>2. QED
  BY <1>1, RInvHolds, PTL
=============================================================================
