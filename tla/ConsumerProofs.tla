---- MODULE ConsumerProofs ----
(***************************************************************************)
(* What the consumer's tables, offset and live feed keep in common, for    *)
(* every number of messages, clients and restarts.                         *)
(*                                                                         *)
(* LossNeedsFailure speaks of the messages behind the group's offset.      *)
(* Commit keeps it only if the messages before the one in work are         *)
(* accounted for, and those are only if all that the reader has passed     *)
(* are: Passed says both.  Inserted carries what the first insert did to   *)
(* the second, and what both did to the broadcast and the commit.          *)
(*                                                                         *)
(* The second part carries this over to Delivery, where the messages come  *)
(* from inquiries: every message has an event that was published, every    *)
(* event an inquiry that ran to its end.                                   *)
(***************************************************************************)
EXTENDS Delivery, TLAPS

\* Message o needs no further delivery: its rows are there, or its loss has
\* one of the two known reasons.
Accounted(o) == Stored(topic[o]) \/ o \in failed \cup missed

\* Offset and reader stay within the partition.
InRange == committed <= Len(topic) + 1 /\ position <= Len(topic) + 1

\* What the inserts before the present step have left behind.
Inserted ==
    /\ stage = "insertCost" => Event \in requestLogs
    /\ stage \in {"snapshot", "broadcast", "commit"} => Stored(Event)

\* Everything the running reader has passed, but for the message in work,
\* and everything before that message.
Passed ==
    /\ Up => \A o \in 1 .. Len(topic) :
                o < position /\ o # current => Accounted(o)
    /\ \A o \in 1 .. Len(topic) : o < current => Accounted(o)

IInv ==
    /\ TypeOK /\ InRange
    /\ CostHasLog /\ Inserted
    /\ LossNeedsFailure /\ Passed
    /\ FeedIsPersisted

----
\* The initial state.
LEMMA InitIInv == Init => IInv
  BY ConsumerAssumption
     DEF Init, IInv, TypeOK, InRange, CostHasLog, Inserted, LossNeedsFailure,
         Passed, FeedIsPersisted, Stages, Up

\* A reader begins inside the partition.
LEMMA BeginReadingType ==
    ASSUME TypeOK, InRange, BeginReading
    PROVE  /\ position' \in 1 .. MaxTopic + 1
           /\ missed' \in SUBSET (1 .. MaxTopic)
           /\ topic' = topic /\ committed' = committed
<1>1. Len(topic) \in Nat /\ Len(topic) <= MaxTopic
  BY DEF TypeOK
<1>2. position' \in 1 .. MaxTopic + 1
  <2>1. CASE committed = 0
    BY <1>1, <2>1, ConsumerAssumption DEF BeginReading, StartOffset
  <2>2. CASE committed # 0
    BY <2>2, ConsumerAssumption DEF BeginReading, StartOffset, TypeOK
  <2>3. QED
    BY <2>1, <2>2
<1>3. 1 .. Len(topic) \subseteq 1 .. MaxTopic
  BY <1>1, ConsumerAssumption
<1>4. missed' \in SUBSET (1 .. MaxTopic)
  BY <1>3 DEF BeginReading, TypeOK
<1>5. QED
  BY <1>2, <1>4 DEF BeginReading

\* Every step keeps the types.
LEMMA TypeOKStep == TypeOK /\ InRange /\ [Next]_vars => TypeOK'
<1> SUFFICES ASSUME TypeOK, InRange, [Next]_vars
             PROVE  TypeOK'
  OBVIOUS
<1> USE ConsumerAssumption DEF TypeOK, InRange, kafka, tables, feed, work, Stages
<1>1. ASSUME NEW e \in Events, Produce(e)
      PROVE  TypeOK'
  BY <1>1 DEF Produce
<1>2. CASE Start
  BY <1>2, BeginReadingType DEF Start
<1>3. CASE Rebalance
  BY <1>3, BeginReadingType DEF Rebalance
<1>4. CASE Crash
  BY <1>4 DEF Crash, Up
<1>5. CASE Fetch
  BY <1>5 DEF Fetch
<1>6. CASE InsertLog
  BY <1>6 DEF InsertLog, Event
<1>7. CASE InsertCost
  BY <1>7 DEF InsertCost, Event
<1>8. CASE InsertFails
  BY <1>8 DEF InsertFails, GiveUp, Event
<1>9. CASE Snapshot \/ BroadcastDone
  BY <1>9 DEF Snapshot, BroadcastDone
<1>10. ASSUME NEW c \in Clients, Send(c)
       PROVE  TypeOK'
  BY <1>10 DEF Send, Event
<1>11. ASSUME NEW c \in Clients, Skip(c)
       PROVE  TypeOK'
  BY <1>11 DEF Skip
<1>12. ASSUME NEW c \in Clients, SendPanics(c)
       PROVE  TypeOK'
  BY <1>12 DEF SendPanics, GiveUp
<1>13. CASE Commit
  BY <1>13 DEF Commit
<1>14. ASSUME NEW c \in Clients, Subscribe(c)
       PROVE  TypeOK'
  BY <1>14 DEF Subscribe
<1>15. ASSUME NEW c \in Clients, Receive(c)
       PROVE  TypeOK'
  BY <1>15 DEF Receive
<1>16. ASSUME NEW c \in Clients, Unsubscribe(c)
       PROVE  TypeOK'
  BY <1>16 DEF Unsubscribe
<1>17. CASE UNCHANGED vars
  BY <1>17 DEF vars
<1>18. QED
  BY <1>1, <1>2, <1>3, <1>4, <1>5, <1>6, <1>7, <1>8, <1>9, <1>10, <1>11,
     <1>12, <1>13, <1>14, <1>15, <1>16, <1>17 DEF Next, Process

----
\* Nothing that has been recorded is ever taken back: rows, histories and
\* the messages of the partition only grow.
LEMMA Grows ==
    ASSUME TypeOK, [Next]_vars
    PROVE  /\ requestLogs \subseteq requestLogs'
           /\ costRecords \subseteq costRecords'
           /\ failed \subseteq failed' /\ missed \subseteq missed'
           /\ Len(topic) <= Len(topic')
           /\ \A o \in 1 .. Len(topic) : topic'[o] = topic[o]
<1> USE DEF kafka, tables, feed, work
<1>1. ASSUME topic' = topic
      PROVE  /\ Len(topic) <= Len(topic')
             /\ \A o \in 1 .. Len(topic) : topic'[o] = topic[o]
  BY <1>1 DEF TypeOK
<1>2. ASSUME NEW e \in Events, Produce(e)
      PROVE  /\ Len(topic) <= Len(topic')
             /\ \A o \in 1 .. Len(topic) : topic'[o] = topic[o]
  BY <1>2 DEF Produce, TypeOK
<1>3. CASE \E e \in Events : Produce(e)
  BY <1>2, <1>3 DEF Produce
<1>4. CASE Start \/ Rebalance \/ Crash
  BY <1>1, <1>4 DEF Start, Rebalance, Crash, BeginReading
<1>5. CASE Fetch \/ Commit \/ Snapshot \/ BroadcastDone
  BY <1>1, <1>5 DEF Fetch, Commit, Snapshot, BroadcastDone
<1>6. CASE InsertLog \/ InsertCost \/ InsertFails
  BY <1>1, <1>6 DEF InsertLog, InsertCost, InsertFails, GiveUp
<1>7. CASE \E c \in Clients : Send(c) \/ Skip(c) \/ SendPanics(c)
  BY <1>1, <1>7 DEF Send, Skip, SendPanics, GiveUp
<1>8. CASE \E c \in Clients : Subscribe(c) \/ Receive(c) \/ Unsubscribe(c)
  BY <1>1, <1>8 DEF Subscribe, Receive, Unsubscribe
<1>9. CASE UNCHANGED vars
  BY <1>1, <1>9 DEF vars
<1>10. QED
  BY <1>3, <1>4, <1>5, <1>6, <1>7, <1>8, <1>9 DEF Next, Process

\* A message stays accounted for.
LEMMA StaysAccounted ==
    ASSUME TypeOK, [Next]_vars, NEW o \in 1 .. Len(topic), Accounted(o)
    PROVE  Accounted(o)'
<1>1. topic'[o] = topic[o]
  BY Grows
<1>2. QED
  BY <1>1, Grows DEF Accounted, Stored

\* The message in work, while it is the same one, and its rows.
LEMMA EventStays ==
    ASSUME TypeOK, [Next]_vars, current' = current, current # 0
    PROVE  Event' = Event
<1>1. current \in 1 .. Len(topic)
  BY DEF TypeOK
<1>2. QED
  BY <1>1, Grows DEF Event

LEMMA InRangeStep == TypeOK /\ InRange /\ [Next]_vars => InRange'
<1> SUFFICES ASSUME TypeOK, InRange, [Next]_vars
             PROVE  InRange'
  OBVIOUS
<1> USE DEF kafka, tables, feed, work
<1>1. ASSUME committed' = committed, position' = position
      PROVE  InRange'
  BY <1>1, Grows DEF InRange, TypeOK
<1>2. ASSUME BeginReading
      PROVE  InRange'
  BY <1>2 DEF BeginReading, StartOffset, InRange, TypeOK
<1>3. CASE Fetch
  BY <1>3 DEF Fetch, InRange, TypeOK
<1>4. CASE Commit
  BY <1>4 DEF Commit, InRange, TypeOK
<1>5. CASE \E e \in Events : Produce(e)
  BY <1>1, <1>5 DEF Produce
<1>6. CASE Start \/ Rebalance
  BY <1>2, <1>6 DEF Start, Rebalance
<1>7. CASE Crash \/ Snapshot \/ BroadcastDone
  BY <1>1, <1>7 DEF Crash, Snapshot, BroadcastDone
<1>8. CASE InsertLog \/ InsertCost \/ InsertFails
  BY <1>1, <1>8 DEF InsertLog, InsertCost, InsertFails, GiveUp
<1>9. CASE \E c \in Clients : Send(c) \/ Skip(c) \/ SendPanics(c)
  BY <1>1, <1>9 DEF Send, Skip, SendPanics, GiveUp
<1>10. CASE \E c \in Clients : Subscribe(c) \/ Receive(c) \/ Unsubscribe(c)
  BY <1>1, <1>10 DEF Subscribe, Receive, Unsubscribe
<1>11. CASE UNCHANGED vars
  BY <1>1, <1>11 DEF vars
<1>12. QED
  BY <1>3, <1>4, <1>5, <1>6, <1>7, <1>8, <1>9, <1>10, <1>11
     DEF Next, Process

\* The second row is written only after the first.
LEMMA CostHasLogStep ==
    TypeOK /\ CostHasLog /\ Inserted /\ [Next]_vars => CostHasLog'
<1> SUFFICES ASSUME TypeOK, CostHasLog, Inserted, [Next]_vars
             PROVE  CostHasLog'
  OBVIOUS
<1> USE DEF kafka, tables, feed, work
<1>1. ASSUME costRecords' = costRecords
      PROVE  CostHasLog'
  BY <1>1, Grows DEF CostHasLog
<1>2. CASE InsertCost
  BY <1>2 DEF InsertCost, CostHasLog, Inserted
<1>3. CASE InsertFails
  BY <1>3 DEF InsertFails, CostHasLog, Inserted
<1>4. CASE Fetch \/ Commit \/ Snapshot \/ BroadcastDone \/ InsertLog
  BY <1>1, <1>4 DEF Fetch, Commit, Snapshot, BroadcastDone, InsertLog
<1>5. CASE Start \/ Rebalance \/ Crash \/ \E e \in Events : Produce(e)
  BY <1>1, <1>5 DEF Start, Rebalance, Crash, Produce
<1>6. CASE \E c \in Clients : Send(c) \/ Skip(c) \/ SendPanics(c)
  BY <1>1, <1>6 DEF Send, Skip, SendPanics
<1>7. CASE \E c \in Clients : Subscribe(c) \/ Receive(c) \/ Unsubscribe(c)
  BY <1>1, <1>7 DEF Subscribe, Receive, Unsubscribe
<1>8. CASE UNCHANGED vars
  BY <1>1, <1>8 DEF vars
<1>9. QED
  BY <1>2, <1>3, <1>4, <1>5, <1>6, <1>7, <1>8 DEF Next, Process

\* Each stage finds the rows of the stages before it.
LEMMA InsertedStep == TypeOK /\ Inserted /\ [Next]_vars => Inserted'
<1> SUFFICES ASSUME TypeOK, Inserted, [Next]_vars
             PROVE  Inserted'
  OBVIOUS
<1> USE DEF kafka, tables, feed, work
<1>1. ASSUME stage' = stage, current' = current
      PROVE  Inserted'
  <2>1. CASE stage \in {"down", "fetch", "insertLog"}
    BY <1>1, <2>1 DEF Inserted
  <2>2. CASE stage \in {"insertCost", "snapshot", "broadcast", "commit"}
    <3>1. current # 0
      BY <2>2 DEF TypeOK
    <3>2. Event' = Event
      BY <1>1, <3>1, EventStays
    <3>3. QED
      BY <1>1, <3>2, Grows DEF Inserted, Stored
  <2>3. QED
    BY <2>1, <2>2 DEF TypeOK, Stages
<1>2. ASSUME stage' \in {"down", "fetch", "insertLog"}
      PROVE  Inserted'
  BY <1>2 DEF Inserted
<1>3. CASE InsertLog
  <2>1. Event' = Event
    BY <1>3 DEF InsertLog, Event
  <2>2. QED
    BY <1>3, <2>1 DEF InsertLog, Inserted
<1>4. CASE InsertCost
  <2>1. Event' = Event
    BY <1>4 DEF InsertCost, Event
  <2>2. QED
    BY <1>4, <2>1 DEF InsertCost, Inserted, Stored
<1>5. CASE Snapshot \/ BroadcastDone
  <2>1. Event' = Event
    BY <1>5 DEF Snapshot, BroadcastDone, Event
  <2>2. QED
    BY <1>5, <2>1 DEF Snapshot, BroadcastDone, Inserted, Stored
<1>6. CASE Start \/ Crash \/ Fetch \/ InsertFails \/ Commit
  BY <1>2, <1>6 DEF Start, Crash, Fetch, InsertFails, GiveUp, Commit
<1>7. CASE \E c \in Clients : SendPanics(c)
  BY <1>2, <1>7 DEF SendPanics, GiveUp
<1>8. CASE \E c \in Clients : Send(c) \/ Skip(c)
  BY <1>1, <1>8 DEF Send, Skip
<1>9. CASE \E c \in Clients : Subscribe(c) \/ Receive(c) \/ Unsubscribe(c)
  BY <1>1, <1>9 DEF Subscribe, Receive, Unsubscribe
<1>10. CASE Rebalance \/ \E e \in Events : Produce(e)
  BY <1>1, <1>10 DEF Rebalance, Produce
<1>11. CASE UNCHANGED vars
  BY <1>1, <1>11 DEF vars
<1>12. QED
  BY <1>3, <1>4, <1>5, <1>6, <1>7, <1>8, <1>9, <1>10, <1>11
     DEF Next, Process

\* Behind the offset nothing is lost without a reason: Commit relies on what
\* is known of the messages before the one in work.
LEMMA LossStep == IInv /\ [Next]_vars => LossNeedsFailure'
<1> SUFFICES ASSUME IInv, [Next]_vars
             PROVE  LossNeedsFailure'
  OBVIOUS
<1> USE DEF kafka, tables, feed, work
<1>0. TypeOK /\ InRange /\ Inserted /\ LossNeedsFailure /\ Passed
  BY DEF IInv
<1>1. ASSUME committed' = committed
      PROVE  LossNeedsFailure'
  <2> SUFFICES ASSUME NEW o \in 1 .. Len(topic'), o < committed
               PROVE  Accounted(o)'
    BY <1>1 DEF LossNeedsFailure, Accounted
  <2>1. o \in 1 .. Len(topic)
    BY <1>0 DEF InRange, TypeOK
  <2>2. Accounted(o)
    BY <1>0, <2>1 DEF LossNeedsFailure, Accounted
  <2>3. QED
    BY <1>0, <2>1, <2>2, StaysAccounted
<1>2. CASE Commit
  <2>1. CASE committed' = committed
    BY <1>1, <2>1
  <2>2. CASE committed' = current + 1
    <3> SUFFICES ASSUME NEW o \in 1 .. Len(topic), o < current + 1
                 PROVE  Accounted(o)'
      BY <1>2, <2>2 DEF Commit, LossNeedsFailure, Accounted
    <3>1. current \in Nat
      BY <1>0 DEF TypeOK
    <3>2. CASE o = current
      <4>1. Accounted(o)
        BY <1>0, <1>2, <3>2 DEF Commit, Inserted, Event, Accounted
      <4>2. QED
        BY <1>0, <4>1, StaysAccounted
    <3>3. CASE o < current
      <4>1. Accounted(o)
        BY <1>0, <3>3 DEF Passed
      <4>2. QED
        BY <1>0, <4>1, StaysAccounted
    <3>4. QED
      BY <3>1, <3>2, <3>3
  <2>3. QED
    BY <1>2, <2>1, <2>2 DEF Commit
<1>3. CASE Fetch \/ Snapshot \/ BroadcastDone \/ Crash
  BY <1>1, <1>3 DEF Fetch, Snapshot, BroadcastDone, Crash
<1>4. CASE Start \/ Rebalance \/ \E e \in Events : Produce(e)
  BY <1>1, <1>4 DEF Start, Rebalance, BeginReading, Produce
<1>5. CASE InsertLog \/ InsertCost \/ InsertFails
  BY <1>1, <1>5 DEF InsertLog, InsertCost, InsertFails, GiveUp
<1>6. CASE \E c \in Clients : Send(c) \/ Skip(c) \/ SendPanics(c)
  BY <1>1, <1>6 DEF Send, Skip, SendPanics, GiveUp
<1>7. CASE \E c \in Clients : Subscribe(c) \/ Receive(c) \/ Unsubscribe(c)
  BY <1>1, <1>7 DEF Subscribe, Receive, Unsubscribe
<1>8. CASE UNCHANGED vars
  BY <1>1, <1>8 DEF vars
<1>9. QED
  BY <1>2, <1>3, <1>4, <1>5, <1>6, <1>7, <1>8 DEF Next, Process

\* The reader leaves no message behind it unaccounted for.
LEMMA PassedStep == IInv /\ [Next]_vars => Passed'
<1> SUFFICES ASSUME IInv, [Next]_vars
             PROVE  Passed'
  OBVIOUS
<1> USE DEF kafka, tables, feed, work
<1>0. TypeOK /\ InRange /\ Inserted /\ LossNeedsFailure /\ Passed
  BY DEF IInv
<1>1. ASSUME current' = current
      PROVE  \A o \in 1 .. Len(topic') : o < current' => Accounted(o)'
  <2> SUFFICES ASSUME NEW o \in 1 .. Len(topic'), o < current
               PROVE  Accounted(o)'
    BY <1>1
  <2>1. o \in 1 .. Len(topic)
    BY <1>0 DEF TypeOK
  <2>2. Accounted(o)
    BY <1>0, <2>1 DEF Passed
  <2>3. QED
    BY <1>0, <2>1, <2>2, StaysAccounted
<1>2. ASSUME current' = current, position' = position, Up' => Up
      PROVE  Passed'
  <2>1. ASSUME Up', NEW o \in 1 .. Len(topic'), o < position', o # current'
        PROVE  Accounted(o)'
    <3>1. o \in 1 .. Len(topic) /\ Up /\ o < position /\ o # current
      BY <1>0, <1>2, <2>1 DEF TypeOK, InRange
    <3>2. Accounted(o)
      BY <1>0, <3>1 DEF Passed
    <3>3. QED
      BY <1>0, <3>1, <3>2, StaysAccounted
  <2>2. QED
    BY <1>1, <1>2, <2>1 DEF Passed
<1>3. ASSUME current' = 0, position' = position, topic' = topic, Up,
             \A o \in 1 .. Len(topic) : o = current => Accounted(o)'
      PROVE  Passed'
  <2>1. ASSUME NEW o \in 1 .. Len(topic), o < position
        PROVE  Accounted(o)'
    <3>1. CASE o = current
      BY <1>3, <3>1
    <3>2. CASE o # current
      BY <1>0, <1>3, <2>1, <3>2, StaysAccounted DEF Passed
    <3>3. QED
      BY <3>1, <3>2
  <2>2. ASSUME NEW o \in 1 .. Len(topic), o < 0
        PROVE  FALSE
    BY <2>2
  <2>3. QED
    BY <1>3, <2>1, <2>2 DEF Passed
<1>4. ASSUME BeginReading, current' = current
      PROVE  Passed'
  <2>1. topic' = topic /\ committed' = committed
    BY <1>4 DEF BeginReading
  <2>2. ASSUME NEW o \in 1 .. Len(topic), o < position'
        PROVE  Accounted(o)'
    <3>1. CASE committed = 0
      BY <1>4, <3>1 DEF BeginReading, Accounted
    <3>2. CASE committed # 0
      <4>1. o < committed
        BY <1>4, <2>2, <3>2 DEF BeginReading, StartOffset
      <4>2. Accounted(o)
        BY <1>0, <4>1 DEF LossNeedsFailure, Accounted
      <4>3. QED
        BY <1>0, <4>2, StaysAccounted
    <3>3. QED
      BY <3>1, <3>2
  <2>3. QED
    BY <1>1, <1>4, <2>1, <2>2 DEF Passed
<1>5. CASE Fetch
  <2>1. /\ current = 0 /\ Up /\ topic' = topic
        /\ current' = position /\ position' = position + 1
        /\ position \in Nat
    BY <1>0, <1>5 DEF Fetch, TypeOK, Up
  <2>2. ASSUME NEW o \in 1 .. Len(topic), o < position
        PROVE  Accounted(o)'
    <3>1. o # current
      BY <2>1
    <3>2. Accounted(o)
      BY <1>0, <2>1, <2>2, <3>1 DEF Passed
    <3>3. QED
      BY <1>0, <3>2, StaysAccounted
  <2>3. \A o \in 1 .. Len(topic) :
           (o < position + 1 /\ o # position) => o < position
    BY <2>1
  <2>4. QED
    BY <2>1, <2>2, <2>3 DEF Passed
<1>6. CASE Crash
  <2>1. current' = 0 /\ topic' = topic /\ ~Up'
    BY <1>6 DEF Crash, Up
  <2>2. ASSUME NEW o \in 1 .. Len(topic), o < 0
        PROVE  FALSE
    BY <2>2
  <2>3. QED
    BY <2>1, <2>2 DEF Passed
<1>7. CASE Commit
  <2>1. /\ current' = 0 /\ position' = position /\ topic' = topic /\ Up
        /\ current \in 1 .. Len(topic)
    BY <1>0, <1>7 DEF Commit, Up, TypeOK
  <2>2. ASSUME NEW o \in 1 .. Len(topic), o = current
        PROVE  Accounted(o)'
    <3>1. Accounted(o)
      BY <1>0, <1>7, <2>2 DEF Commit, Inserted, Event, Accounted
    <3>2. QED
      BY <1>0, <3>1, StaysAccounted
  <2>3. QED
    BY <1>3, <2>1, <2>2
<1>8. ASSUME GiveUp, Up
      PROVE  Passed'
  <2>1. current' = 0 /\ position' = position /\ topic' = topic
    BY <1>8 DEF GiveUp
  <2>2. ASSUME NEW o \in 1 .. Len(topic), o = current
        PROVE  Accounted(o)'
    BY <1>8, <2>2 DEF GiveUp, Accounted
  <2>3. QED
    BY <1>3, <1>8, <2>1, <2>2
<1>9. CASE InsertFails \/ \E c \in Clients : SendPanics(c)
  BY <1>8, <1>9 DEF InsertFails, SendPanics, Up
<1>10. CASE Start
  BY <1>4, <1>10 DEF Start
<1>11. CASE Rebalance
  BY <1>4, <1>11 DEF Rebalance
<1>12. CASE Snapshot \/ BroadcastDone \/ InsertLog \/ InsertCost
  BY <1>2, <1>12 DEF Snapshot, BroadcastDone, InsertLog, InsertCost, Up
<1>13. CASE \E e \in Events : Produce(e)
  BY <1>2, <1>13 DEF Produce, Up
<1>14. CASE \E c \in Clients : Send(c) \/ Skip(c)
  BY <1>2, <1>14 DEF Send, Skip, Up
<1>15. CASE \E c \in Clients : Subscribe(c) \/ Receive(c) \/ Unsubscribe(c)
  BY <1>2, <1>15 DEF Subscribe, Receive, Unsubscribe, Up
<1>16. CASE UNCHANGED vars
  BY <1>2, <1>16 DEF vars, Up
<1>17. QED
  BY <1>5, <1>6, <1>7, <1>9, <1>10, <1>11, <1>12, <1>13, <1>14, <1>15, <1>16
     DEF Next, Process

\* A client's channel receives an event only when it is stored, and rows stay.
LEMMA FeedStep == TypeOK /\ Inserted /\ FeedIsPersisted /\ [Next]_vars
                    => FeedIsPersisted'
<1> SUFFICES ASSUME TypeOK, Inserted, FeedIsPersisted, [Next]_vars
             PROVE  FeedIsPersisted'
  OBVIOUS
<1> USE DEF kafka, tables, feed, work
<1>1. \A e : Stored(e) => e \in requestLogs' /\ e \in costRecords'
  BY Grows DEF Stored
<1>2. \A c \in Clients : channel[c] \in Seq(Events)
  BY DEF TypeOK
<1>3. ASSUME channel' = channel
      PROVE  FeedIsPersisted'
  BY <1>1, <1>3 DEF FeedIsPersisted, Stored
<1>4. ASSUME NEW c \in Clients, Send(c)
      PROVE  FeedIsPersisted'
  <2>1. Stored(Event) /\ current \in 1 .. Len(topic)
    BY <1>4 DEF Send, Inserted, TypeOK
  <2>2. Event \in Events
    BY <2>1 DEF TypeOK, Event
  <2>3. channel' = [channel EXCEPT ![c] = Append(channel[c], Event)]
    BY <1>4 DEF Send
  <2>4. SUFFICES ASSUME NEW d \in Clients, NEW i \in 1 .. Len(channel'[d])
                 PROVE  /\ channel'[d][i] \in requestLogs'
                        /\ channel'[d][i] \in costRecords'
    BY DEF FeedIsPersisted, Stored
  <2>5. CASE d # c
    <3>1. channel'[d] = channel[d]
      BY <2>3, <2>5 DEF TypeOK
    <3>2. Stored(channel[d][i])
      BY <3>1 DEF FeedIsPersisted
    <3>3. QED
      BY <1>1, <3>1, <3>2
  <2>6. CASE d = c
    <3>1. channel'[d] = Append(channel[c], Event)
      BY <2>3, <2>6 DEF TypeOK
    <3>2. CASE i \in 1 .. Len(channel[c])
      <4>1. channel'[d][i] = channel[c][i]
        BY <1>2, <2>2, <3>1, <3>2
      <4>2. Stored(channel[c][i])
        BY <3>2 DEF FeedIsPersisted
      <4>3. QED
        BY <1>1, <4>1, <4>2
    <3>3. CASE i = Len(channel[c]) + 1
      <4>1. channel'[d][i] = Event
        BY <1>2, <2>2, <3>1, <3>3
      <4>2. QED
        BY <1>1, <2>1, <4>1
    <3>4. QED
      BY <1>2, <2>2, <3>1, <3>2, <3>3
  <2>7. QED
    BY <2>5, <2>6
<1>5. ASSUME NEW c \in Clients, Receive(c)
      PROVE  FeedIsPersisted'
  <2>1. channel' = [channel EXCEPT ![c] = Tail(channel[c])]
    BY <1>5 DEF Receive
  <2>2. SUFFICES ASSUME NEW d \in Clients, NEW i \in 1 .. Len(channel'[d])
                 PROVE  /\ channel'[d][i] \in requestLogs'
                        /\ channel'[d][i] \in costRecords'
    BY DEF FeedIsPersisted, Stored
  <2>3. CASE d # c
    <3>1. channel'[d] = channel[d]
      BY <2>1, <2>3 DEF TypeOK
    <3>2. Stored(channel[d][i])
      BY <3>1 DEF FeedIsPersisted
    <3>3. QED
      BY <1>1, <3>1, <3>2
  <2>4. CASE d = c
    <3>1. channel'[d] = Tail(channel[c]) /\ channel[c] # <<>>
      BY <1>5, <2>1, <2>4 DEF Receive, TypeOK
    <3>2. /\ channel'[d][i] = channel[c][i + 1]
          /\ i + 1 \in 1 .. Len(channel[c])
      BY <1>2, <3>1
    <3>3. Stored(channel[c][i + 1])
      BY <3>2 DEF FeedIsPersisted
    <3>4. QED
      BY <1>1, <3>2, <3>3
  <2>5. QED
    BY <2>3, <2>4
<1>6. ASSUME \A c \in Clients : channel'[c] = <<>> \/ channel'[c] = channel[c]
      PROVE  FeedIsPersisted'
  <2> SUFFICES ASSUME NEW d \in Clients, NEW i \in 1 .. Len(channel'[d])
               PROVE  /\ channel'[d][i] \in requestLogs'
                      /\ channel'[d][i] \in costRecords'
    BY DEF FeedIsPersisted, Stored
  <2>1. channel'[d] = channel[d]
    BY <1>6
  <2>2. Stored(channel[d][i])
    BY <2>1 DEF FeedIsPersisted
  <2>3. QED
    BY <1>1, <2>1, <2>2
<1>7. CASE Crash \/ \E c \in Clients : Unsubscribe(c)
  BY <1>6, <1>7 DEF Crash, Unsubscribe, TypeOK
<1>8. CASE Fetch \/ Commit \/ Snapshot \/ BroadcastDone \/ Start \/ Rebalance
  BY <1>3, <1>8 DEF Fetch, Commit, Snapshot, BroadcastDone, Start, Rebalance
<1>9. CASE InsertLog \/ InsertCost \/ InsertFails
  BY <1>3, <1>9 DEF InsertLog, InsertCost, InsertFails
<1>10. CASE \E c \in Clients : Skip(c) \/ SendPanics(c) \/ Subscribe(c)
  BY <1>3, <1>10 DEF Skip, SendPanics, Subscribe
<1>11. CASE \E e \in Events : Produce(e)
  BY <1>3, <1>11 DEF Produce
<1>12. CASE UNCHANGED vars
  BY <1>3, <1>12 DEF vars
<1>13. QED
  BY <1>4, <1>5, <1>7, <1>8, <1>9, <1>10, <1>11, <1>12 DEF Next, Process

----
\* The invariant from which the theorems follow.
THEOREM IInvCorrect == Spec => []IInv
<1>1. IInv /\ [Next]_vars => IInv'
  BY TypeOKStep, InRangeStep, CostHasLogStep, InsertedStep, LossStep,
     PassedStep, FeedStep DEF IInv
<1>2. QED
  BY InitIInv, <1>1, PTL DEF Spec

\* Offset, reader, rows and channels have their types and bounds.
THEOREM TypeCorrect == Spec => []TypeOK
<1>1. IInv => TypeOK
  BY DEF IInv
<1>2. QED
  BY IInvCorrect, <1>1, PTL

\* processMessage never leaves a cost record without its request log.
THEOREM CostCorrect == Spec => []CostHasLog
<1>1. IInv => CostHasLog
  BY DEF IInv
<1>2. QED
  BY IInvCorrect, <1>1, PTL

\* Commits, crashes, rebalances and duplicates lose nothing by themselves.
THEOREM LossCorrect == Spec => []LossNeedsFailure
<1>1. IInv => LossNeedsFailure
  BY DEF IInv
<1>2. QED
  BY IInvCorrect, <1>1, PTL

\* What Broadcast hands to a client is in both tables.
THEOREM FeedCorrect == Spec => []FeedIsPersisted
<1>1. IInv => FeedIsPersisted
  BY DEF IInv
<1>2. QED
  BY IInvCorrect, <1>1, PTL

----
(* Delivery.                                                               *)

\* The consumer within Delivery is Consumer.
LEMMA ConsumerPart == DeliverySpec => Spec
<1>1. DeliveryInit => Init
  BY DEF DeliveryInit
<1>2. [DeliveryNext]_deliveryVars => [Next]_vars
  BY DEF DeliveryNext, deliveryVars, Execute, CallFails, Answer,
         Block, Record, PublishEvent, Die, Write, Settle, Publish, Lose,
         Consume, Next
<1> QED
  BY <1>1, <1>2, PTL DEF DeliverySpec, Spec

InTopic(e) == \E o \in 1 .. Len(topic) : topic[o] = e

\* What an inquiry, its event, the messages and the rows know of each other.
Known ==
    /\ \A e \in Events :
          /\ fate[e] # "new" <=> inquiry[e] = "returned"
          /\ fate[e] = "published" => InTopic(e)
          /\ InTopic(e) => fate[e] # "new"
          /\ inquiry[e] \in {"recorded", "returned"} => charge[e] # "due"
          /\ inquiry[e] = "calling" => charge[e] = "none"
    /\ \A e \in requestLogs \cup costRecords : InTopic(e)

DeliveryInv == IInv /\ DeliveryTypeOK /\ Known

LEMMA InitDeliveryInv == DeliveryInit => DeliveryInv
<1> SUFFICES ASSUME DeliveryInit
             PROVE  DeliveryTypeOK /\ Known
  BY InitIInv DEF DeliveryInit, DeliveryInv
<1>1. TypeOK
  BY InitIInv DEF DeliveryInit, IInv
<1>2. topic = <<>> /\ requestLogs = {} /\ costRecords = {}
  BY DEF DeliveryInit, Init
<1>3. \A e : ~InTopic(e)
  BY <1>2 DEF InTopic
<1> QED
  BY <1>1, <1>2, <1>3 DEF DeliveryInit, DeliveryTypeOK, Known, Log!Init

\* The steps of Execute.
LEMMA ExecuteKeeps ==
    ASSUME DeliveryInv, NEW e \in Events, Execute(e)
    PROVE  DeliveryTypeOK' /\ Known'
<1>1. UNCHANGED vars
  BY DEF Execute, CallFails, Answer, Block, Record, PublishEvent, Die
<1>2. TypeOK'
  BY <1>1, TypeOKStep DEF DeliveryInv, IInv
<1>3. topic' = topic /\ requestLogs' = requestLogs /\ costRecords' = costRecords
  BY <1>1 DEF vars, kafka, tables
<1>4. \A x : InTopic(x)' = InTopic(x)
  BY <1>3 DEF InTopic
<1>5. DeliveryTypeOK'
  BY <1>2 DEF DeliveryInv, DeliveryTypeOK, Execute, CallFails, Answer,
              Block, Record, PublishEvent, Die, Goto, Charge, Log!Offer, Log!Decide
<1> SUFFICES Known'
  BY <1>5
<1> USE DEF DeliveryTypeOK, Known, Goto, Charge
<1>6. DeliveryTypeOK /\ Known
  BY DEF DeliveryInv
<1>7. CASE Block(e) \/ Die(e)
  BY <1>3, <1>4, <1>6, <1>7 DEF Block, Die
<1>8. CASE Answer(e) \/ Record(e)
  BY <1>3, <1>4, <1>6, <1>8 DEF Answer, Record
<1>9. CASE CallFails(e) \/ PublishEvent(e)
  BY <1>3, <1>4, <1>6, <1>9 DEF CallFails, PublishEvent, Log!Offer, Log!Decide
<1> QED
  BY <1>7, <1>8, <1>9 DEF Execute

\* The steps of the producer.
LEMMA ProducerKeeps ==
    ASSUME DeliveryInv, NEW e \in Events, Write(e) \/ Settle(e)
    PROVE  DeliveryTypeOK' /\ Known'
<1>1. [Next]_vars
  BY DEF Write, Settle, Publish, Lose, Next
<1>2. TypeOK'
  BY <1>1, TypeOKStep DEF DeliveryInv, IInv
<1>3. DeliveryTypeOK'
  BY <1>2 DEF DeliveryInv, DeliveryTypeOK, Write, Settle, Publish, Lose,
              Log!Write, Log!Publish, Log!Lose, Log!Decide, execute
<1>4. requestLogs' = requestLogs /\ costRecords' = costRecords
  BY DEF Write, Settle, Publish, Lose, Produce, vars, tables
<1>5. CASE Settle(e)
  <2>1. topic' = topic
    BY <1>5 DEF Settle, Publish, Lose, vars, kafka
  <2>2. \A x : InTopic(x)' = InTopic(x)
    BY <2>1 DEF InTopic
  <2>3. CASE Publish(e)
    <3>1. InTopic(e)
      BY <2>3 DEF Publish, Log!Publish, InTopic
    <3> QED
      BY <1>3, <1>4, <2>3, <2>2, <3>1 DEF Publish, Log!Publish, Log!Decide,
         DeliveryInv, DeliveryTypeOK, Known, execute
  <2>4. CASE Lose(e)
    BY <1>3, <1>4, <2>4, <2>2 DEF Lose, Log!Lose, Log!Decide, DeliveryInv,
       DeliveryTypeOK, Known, execute
  <2> QED
    BY <1>5, <2>3, <2>4 DEF Settle
<1>6. CASE Write(e)
  <2>1. topic \in Seq(Events) /\ topic' = Append(topic, e)
    BY <1>6 DEF Write, Produce, DeliveryInv, DeliveryTypeOK, TypeOK
  <2>2. /\ InTopic(e)'
        /\ \A x : InTopic(x)' <=> InTopic(x) \/ x = e
    <3>1. /\ Len(topic') = Len(topic) + 1
          /\ topic'[Len(topic) + 1] = e
          /\ \A o \in 1 .. Len(topic) : topic'[o] = topic[o]
      BY <2>1
    <3>2. Len(topic) \in Nat
      BY <2>1
    <3> QED
      BY <3>1, <3>2 DEF InTopic
  <2>3. fate[e] # "new" /\ fate' = fate
    BY <1>6 DEF Write, Log!Write
  <2>5. inquiry' = inquiry /\ charge' = charge
    BY <1>6 DEF Write, execute
  <2> QED
    BY <1>3, <1>4, <2>2, <2>3, <2>5 DEF DeliveryInv, Known
<1> QED
  BY <1>5, <1>6

\* The steps of the consumer: a row has its message.
LEMMA ConsumeKeeps ==
    ASSUME DeliveryInv, Consume
    PROVE  DeliveryTypeOK' /\ Known'
<1>1. Next /\ topic' = topic /\ inquiry' = inquiry /\ charge' = charge /\ fate' = fate
  BY DEF Consume, execute
<1>2. TypeOK'
  BY <1>1, TypeOKStep DEF DeliveryInv, IInv
<1>3. \A x : InTopic(x)' = InTopic(x)
  BY <1>1 DEF InTopic
<1>4. \A x \in requestLogs' \cup costRecords' :
         x \in requestLogs \cup costRecords
           \/ (stage \in {"insertLog", "insertCost"} /\ x = Event)
  <2> USE DEF tables
  <2>1. CASE InsertLog \/ InsertCost
    BY <2>1 DEF InsertLog, InsertCost
  <2>2. CASE InsertFails
    BY <2>2 DEF InsertFails
  <2>3. CASE Fetch \/ Commit \/ Snapshot \/ BroadcastDone
    BY <2>3 DEF Fetch, Commit, Snapshot, BroadcastDone
  <2>4. CASE Start \/ Rebalance \/ Crash \/ \E e \in Events : Produce(e)
    BY <2>4 DEF Start, Rebalance, Crash, Produce
  <2>5. CASE \E c \in Clients : Send(c) \/ Skip(c) \/ SendPanics(c)
    BY <2>5 DEF Send, Skip, SendPanics
  <2>6. CASE \E c \in Clients : Subscribe(c) \/ Receive(c) \/ Unsubscribe(c)
    BY <2>6 DEF Subscribe, Receive, Unsubscribe
  <2> QED
    BY <1>1, <2>1, <2>2, <2>3, <2>4, <2>5, <2>6 DEF Next, Process
<1>5. stage \in {"insertLog", "insertCost"} => InTopic(Event)
  BY DEF DeliveryInv, IInv, TypeOK, InTopic, Event
<1>6. \A x \in requestLogs' \cup costRecords' : InTopic(x)'
  BY <1>3, <1>4, <1>5 DEF DeliveryInv, Known
<1> QED
  BY <1>1, <1>2, <1>3, <1>6 DEF DeliveryInv, DeliveryTypeOK, Known

LEMMA DeliveryStep == DeliveryInv /\ [DeliveryNext]_deliveryVars
                        => DeliveryTypeOK' /\ Known'
<1>1. ASSUME DeliveryInv, UNCHANGED deliveryVars
      PROVE  DeliveryTypeOK' /\ Known'
  <2>1. TypeOK'
    BY <1>1, TypeOKStep DEF DeliveryInv, IInv, deliveryVars
  <2>2. UNCHANGED <<topic, requestLogs, costRecords, inquiry, charge, fate>>
    BY <1>1 DEF deliveryVars, vars, kafka, tables, execute
  <2> QED
    BY <1>1, <2>1, <2>2 DEF DeliveryInv, DeliveryTypeOK, Known, InTopic
<1> QED
  BY <1>1, ExecuteKeeps, ProducerKeeps, ConsumeKeeps DEF DeliveryNext

\* The invariant of the whole way.
THEOREM DeliveryInvCorrect == DeliverySpec => []DeliveryInv
<1>1. DeliveryInv /\ IInv' /\ [DeliveryNext]_deliveryVars => DeliveryInv'
  BY DeliveryStep DEF DeliveryInv
<1>2. DeliverySpec => []IInv
  BY ConsumerPart, IInvCorrect, PTL
<1> QED
  BY InitDeliveryInv, <1>1, <1>2, PTL DEF DeliverySpec

\* Inquiries, charges and events have their types, and the consumer its own.
THEOREM DeliveryTypeCorrect == DeliverySpec => []DeliveryTypeOK
<1>1. DeliveryInv => DeliveryTypeOK
  BY DEF DeliveryInv
<1> QED
  BY DeliveryInvCorrect, <1>1, PTL

\* From Execute to the two tables, whatever fails or comes twice: who ran to
\* the end has his rows, or they can still come, or were lost by a failure.
THEOREM AccountedCorrect == DeliverySpec => []CallsAccounted
<1>1. DeliveryInv => CallsAccounted
  <2> SUFFICES ASSUME DeliveryInv, NEW e \in Events, inquiry[e] = "returned"
               PROVE  Stored(e) \/ OnItsWay(e) \/ GivenUp(e)
    BY DEF CallsAccounted
  <2>1. fate[e] \in {"refused", "pending", "published", "lost"}
    BY DEF DeliveryInv, DeliveryTypeOK, Known
  <2>2. CASE fate[e] = "published"
    <3>1. PICK o \in 1 .. Len(topic) : topic[o] = e
      BY <2>2 DEF DeliveryInv, Known, InTopic
    <3>2. CASE o >= committed
      BY <3>1, <3>2 DEF OnItsWay
    <3>3. CASE o < committed
      BY <3>1, <3>3 DEF DeliveryInv, IInv, LossNeedsFailure, GivenUp
    <3> QED
      BY <3>2, <3>3 DEF DeliveryInv, IInv, TypeOK
  <2> QED
    BY <2>1, <2>2 DEF OnItsWay, GivenUp
<1> QED
  BY DeliveryInvCorrect, <1>1, PTL

\* Record before publishEvent, request_logs before cost_records: no row shows
\* a call that was not made, a cost of which the budget was not told before,
\* or a cost without its log.
THEOREM AgreeCorrect == DeliverySpec => []AccountsAgree
<1>1. DeliveryInv => AccountsAgree
  <2> SUFFICES ASSUME DeliveryInv, NEW e \in requestLogs
               PROVE  inquiry[e] = "returned" /\ charge[e] # "due"
    BY DEF AccountsAgree, DeliveryInv, IInv
  <2>1. e \in Events /\ InTopic(e)
    BY DEF DeliveryInv, IInv, TypeOK, Known
  <2> QED
    BY <2>1 DEF DeliveryInv, Known
<1> QED
  BY DeliveryInvCorrect, <1>1, PTL
====
