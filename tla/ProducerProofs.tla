---- MODULE ProducerProofs ----
(***************************************************************************)
(* That the producer implements EventLog, writes no event more often than  *)
(* its calls and the library's attempts allow, and keeps the order of      *)
(* acceptance until a shutdown, for any number of inquiries, any queue and *)
(* any number of attempts.                                                 *)
(*                                                                         *)
(* An event has one place at a time, in the queue or with one of the two   *)
(* goroutines (Held, Apart, Queued, Placed): nothing in the code of        *)
(* publish checks that what it acknowledges or gives up is still pending.  *)
(* What calls leave behind with the library has no such place, and is      *)
(* known by the call it is from: no call is made twice (Tried), so that    *)
(* the writes of a call can be counted (Counted), and what the library     *)
(* says is written is in the topic (Sound).  The order rests on the second *)
(* goroutine being idle until the shutdown: topic, library, event in work  *)
(* and queue are then in line (InLine).                                    *)
(***************************************************************************)
EXTENDS Producer, FiniteSetTheorems, SequenceTheorems, TLAPS

Pending(e) == InSeq(e, accepted) /\ outcome[e] = "none"

\* Publishing is what at says: between Take and Settle.
Publishing(b) == publisher[b].at \in {"writing", "waiting", "backoff"}

\* A goroutine holds an event exactly while it publishes, and a pending one.
Held ==
    \A b \in Publishers :
       /\ Publishing(b) <=> publisher[b].event \in Events
       /\ Publishing(b) => publisher[b].attempt > 0
       /\ publisher[b].at = "backoff" => publisher[b].attempt < MaxRetries
       /\ publisher[b].event \in Events => Pending(publisher[b].event)

\* Never the same one.
Apart ==
    \A b, c \in Publishers :
       b # c /\ publisher[b].event \in Events
          => publisher[b].event # publisher[c].event

\* The queue holds pending events, each once, that no goroutine holds.
Queued ==
    \A i \in 1 .. Len(queue) :
       /\ Pending(queue[i])
       /\ \A b \in Publishers : publisher[b].event # queue[i]
       /\ \A j \in 1 .. Len(queue) : queue[j] = queue[i] => j = i

\* Close finds its goroutine unused.
CloserIdle == main = "waiting" => publisher["closer"].at = "idle"

\* A pending event is nowhere else: it is not forgotten.
Placed ==
    \A e \in Events :
       Pending(e) => InSeq(e, queue) \/ \E b \in Publishers : Holds(b, e)

IInv == TypeOK /\ Held /\ Apart /\ Queued /\ Placed /\ CloserIdle

----
\* The initial state.
LEMMA InitIInv == Init => IInv
<1> SUFFICES ASSUME Init
             PROVE  IInv
  OBVIOUS
<1>1. publisher \in [Publishers -> Publisher]
  <2>1. ASSUME NEW at \in {"idle", "select"}
        PROVE  [at |-> at, draining |-> FALSE, expired |-> FALSE,
                event |-> "none", attempt |-> 0] \in Publisher
    BY ProducerAssumption DEF Publisher
  <2>2. QED
    BY <2>1 DEF Init
<1>2. \A b \in Publishers : /\ publisher[b].event = "none"
                           /\ publisher[b].at \in {"idle", "select"}
  BY DEF Init
<1>3. TypeOK
  <2>1. queue \in Seq(Events) /\ Len(queue) = 0
    BY DEF Init
  <2>2. /\ accepted \in Seq(Events)
        /\ pending \in Seq(Message) /\ sent \in 0 .. Len(pending)
        /\ topic \in Seq(Message) /\ writerOpen \in BOOLEAN
    BY DEF Init, WriterInit
  <2>3. outcome \in [Events -> {"none", "acked", "dropped", "abandoned"}]
    BY DEF Init
  <2>4. Len(queue) <= QueueDepth
    BY <2>1, ProducerAssumption
  <2>5. QED
    BY <1>1, <2>1, <2>2, <2>3, <2>4 DEF Init, TypeOK
<1>4. Held /\ Apart
  BY <1>2, ProducerAssumption DEF Held, Apart, Publishing
<1>5. Queued
  BY DEF Init, Queued
<1>6. CloserIdle
  BY DEF Init, CloserIdle, Publishers
<1>7. Placed
  BY DEF Init, Placed, Pending, InSeq
<1>8. QED
  BY <1>3, <1>4, <1>5, <1>6, <1>7 DEF IInv

\* Appending to a sequence, and taking its first element away.
LEMMA AppendEffect ==
    ASSUME NEW S, NEW s \in Seq(S), NEW e \in S
    PROVE  /\ Append(s, e) \in Seq(S)
           /\ Len(Append(s, e)) = Len(s) + 1 /\ Len(s) \in Nat
           /\ Append(s, e)[Len(s) + 1] = e
           /\ \A i \in 1 .. Len(s) : Append(s, e)[i] = s[i]
  OBVIOUS

LEMMA TailEffect ==
    ASSUME NEW S, NEW s \in Seq(S), s # <<>>
    PROVE  /\ Tail(s) \in Seq(S)
           /\ Len(Tail(s)) = Len(s) - 1 /\ Len(s) \in Nat \ {0}
           /\ \A i \in 1 .. Len(Tail(s)) : Tail(s)[i] = s[i + 1]
  OBVIOUS

\* What has been accepted stays so; appending accepts one event more.
LEMMA InSeqAppend ==
    ASSUME NEW s \in Seq(Events), NEW e \in Events, NEW d
    PROVE  InSeq(d, Append(s, e)) <=> InSeq(d, s) \/ d = e
<1>1. /\ Len(Append(s, e)) = Len(s) + 1 /\ Len(s) \in Nat
      /\ Append(s, e)[Len(s) + 1] = e
      /\ \A i \in 1 .. Len(s) : Append(s, e)[i] = s[i]
  OBVIOUS
<1>2. ASSUME InSeq(d, Append(s, e))
      PROVE  InSeq(d, s) \/ d = e
  BY <1>1, <1>2 DEF InSeq
<1>3. ASSUME InSeq(d, s)
      PROVE  InSeq(d, Append(s, e))
  BY <1>1, <1>3 DEF InSeq
<1>4. ASSUME d = e
      PROVE  InSeq(d, Append(s, e))
  BY <1>1, <1>4 DEF InSeq
<1>5. QED
  BY <1>2, <1>3, <1>4

\* A step of one goroutine.
LEMMA BecomeEffect ==
    ASSUME TypeOK, NEW b \in Publishers, NEW next \in Publisher, Become(b, next)
    PROVE  /\ publisher' \in [Publishers -> Publisher]
           /\ publisher'[b] = next
           /\ \A c \in Publishers : c # b => publisher'[c] = publisher[c]
  BY DEF TypeOK, Become

\* b is done with its event.
LEMMA SettleEffect ==
    ASSUME TypeOK, NEW b \in Publishers, publisher[b].event \in Events,
           NEW how \in {"acked", "dropped", "abandoned"}, Settle(b, how)
    PROVE  /\ publisher' \in [Publishers -> Publisher]
           /\ publisher'[b].at = "select" /\ publisher'[b].event = "none"
           /\ \A c \in Publishers : c # b => publisher'[c] = publisher[c]
           /\ outcome' = [outcome EXCEPT ![publisher[b].event] = how]
           /\ outcome' \in [Events -> {"none", "acked", "dropped", "abandoned"}]
<1> DEFINE next == [publisher[b] EXCEPT !.at = "select", !.event = "none",
                                        !.attempt = 0]
<1>1. publisher[b] \in Publisher
  BY DEF TypeOK
<1>2. /\ next \in Publisher
      /\ next.at = "select" /\ next.event = "none"
  <2>1. 0 \in 0 .. MaxRetries
    BY ProducerAssumption
  <2>2. QED
    BY <1>1, <2>1 DEF Publisher
<1>3. Become(b, next)
  BY DEF Settle
<1>4. QED
  BY <1>2, <1>3, BecomeEffect DEF Settle, TypeOK

\* b takes the first event of the queue.
LEMMA TakeEffect ==
    ASSUME TypeOK, NEW b \in Publishers, Take(b)
    PROVE  /\ publisher' \in [Publishers -> Publisher]
           /\ publisher'[b].at = "writing" /\ publisher'[b].event = queue[1]
           /\ publisher'[b].attempt = 1
           /\ \A c \in Publishers : c # b => publisher'[c] = publisher[c]
           /\ queue[1] \in Events /\ queue' \in Seq(Events)
           /\ Len(queue') = Len(queue) - 1 /\ Len(queue) \in Nat \ {0}
           /\ \A i \in 1 .. Len(queue') : queue'[i] = queue[i + 1]
<1> DEFINE next == [publisher[b] EXCEPT !.at = "writing", !.event = Head(queue),
                                        !.attempt = 1]
<1>1. publisher[b] \in Publisher /\ queue \in Seq(Events) /\ queue # <<>>
  BY DEF TypeOK, Take
<1>2. Head(queue) \in Events /\ Head(queue) = queue[1]
  BY <1>1
<1>3. /\ next \in Publisher
      /\ next.at = "writing" /\ next.event = Head(queue) /\ next.attempt = 1
  <2>1. 1 \in 0 .. MaxRetries
    BY ProducerAssumption
  <2>2. QED
    BY <1>1, <1>2, <2>1 DEF Publisher
<1>4. Become(b, next)
  BY DEF Take
<1>5. /\ queue' \in Seq(Events)
      /\ Len(queue') = Len(queue) - 1 /\ Len(queue) \in Nat \ {0}
      /\ \A i \in 1 .. Len(queue') : queue'[i] = queue[i + 1]
  BY <1>1 DEF Take
<1>6. QED
  BY <1>2, <1>3, <1>4, <1>5, BecomeEffect

\* The calls that b has made, n of them.
Tries(b, n) ==
    \/ n < publisher[b].attempt
    \/ n = publisher[b].attempt /\ publisher[b].at # "writing"

\* A step of b that keeps what b holds and whether it publishes, and forgets
\* no call.
Moves(b) ==
    /\ publisher' \in [Publishers -> Publisher]
    /\ publisher'[b].event = publisher[b].event
    /\ Publishing(b)' <=> Publishing(b)
    /\ Publishing(b)' => publisher'[b].attempt > 0
    /\ publisher'[b].at = "backoff" => publisher'[b].attempt < MaxRetries
    /\ \A n \in 1 .. MaxRetries : Tries(b, n) => Tries(b, n)'
    /\ \A c \in Publishers : c # b => publisher'[c] = publisher[c]

LEMMA RetryMoves ==
    ASSUME TypeOK, Held, NEW b \in Publishers, Retry(b)
    PROVE  Moves(b)
<1> DEFINE next == [publisher[b] EXCEPT !.at = "writing", !.attempt = @ + 1]
<1>1. /\ publisher[b] \in Publisher /\ publisher[b].at = "backoff"
      /\ publisher[b].attempt < MaxRetries /\ publisher[b].attempt \in Nat
  BY ProducerAssumption DEF TypeOK, Retry, Held, Publisher
<1>2. /\ next \in Publisher
      /\ next.at = "writing" /\ next.event = publisher[b].event
      /\ next.attempt = publisher[b].attempt + 1
  <2>1. publisher[b].attempt + 1 \in 0 .. MaxRetries
    BY <1>1, ProducerAssumption
  <2>2. QED
    BY <1>1, <2>1 DEF Publisher
<1>3. Become(b, next)
  BY DEF Retry
<1>4. /\ publisher' \in [Publishers -> Publisher] /\ publisher'[b] = next
      /\ \A c \in Publishers : c # b => publisher'[c] = publisher[c]
  BY <1>2, <1>3, BecomeEffect
<1>5. \A n \in 1 .. MaxRetries : Tries(b, n) => Tries(b, n)'
  <2> HIDE DEF next
  <2> SUFFICES ASSUME NEW n \in 1 .. MaxRetries, n <= publisher[b].attempt
               PROVE  n < publisher[b].attempt + 1
    BY <1>1, <1>2, <1>4, ProducerAssumption DEF Tries
  <2> QED
    BY <1>1, ProducerAssumption
<1>6. QED
  BY <1>1, <1>2, <1>4, <1>5 DEF Moves, Publishing

LEMMA BackoffMoves ==
    ASSUME TypeOK, Held, NEW b \in Publishers,
           publisher[b].at \in {"writing", "waiting"},
           ~Exhausted(b), Become(b, [publisher[b] EXCEPT !.at = "backoff"])
    PROVE  Moves(b)
<1> DEFINE next == [publisher[b] EXCEPT !.at = "backoff"]
<1>1. publisher[b] \in Publisher /\ publisher[b].attempt > 0
  BY DEF TypeOK, Held, Publishing
<1>2. /\ next \in Publisher /\ next.at = "backoff"
      /\ next.event = publisher[b].event /\ next.attempt < MaxRetries
      /\ next.attempt = publisher[b].attempt
  BY <1>1, ProducerAssumption DEF Publisher, Exhausted
<1>3. QED
  BY <1>1, <1>2, BecomeEffect DEF Moves, Publishing, Tries

LEMMA HandOverMoves ==
    ASSUME TypeOK, Held, NEW b \in Publishers, HandOver(b)
    PROVE  Moves(b)
<1> DEFINE next == [publisher[b] EXCEPT !.at = "waiting"]
<1>1. /\ publisher[b] \in Publisher /\ publisher[b].at = "writing"
      /\ publisher[b].attempt > 0
  BY DEF TypeOK, Held, Publishing, HandOver
<1>2. /\ next \in Publisher /\ next.at = "waiting"
      /\ next.event = publisher[b].event
      /\ next.attempt = publisher[b].attempt
  BY <1>1 DEF Publisher
<1>3. Become(b, next)
  BY DEF HandOver
<1>4. QED
  BY <1>1, <1>2, <1>3, BecomeEffect DEF Moves, Publishing, Tries

LEMMA ExpireMoves ==
    ASSUME TypeOK, Held, NEW b \in Publishers, Expire(b)
    PROVE  Moves(b)
<1> DEFINE next == [publisher[b] EXCEPT !.expired = TRUE]
<1>1. publisher[b] \in Publisher
  BY DEF TypeOK
<1>2. /\ next \in Publisher /\ next.at = publisher[b].at
      /\ next.event = publisher[b].event
      /\ next.attempt = publisher[b].attempt
  BY <1>1 DEF Publisher
<1>3. Become(b, next)
  BY DEF Expire
<1>4. QED
  BY <1>1, <1>2, <1>3, BecomeEffect DEF Moves, Publishing, Held, Tries

LEMMA EndDrainMoves ==
    ASSUME TypeOK, NEW b \in Publishers, EndDrain(b)
    PROVE  Moves(b)
<1> DEFINE next == [publisher[b] EXCEPT !.at = "stopped"]
<1>1. publisher[b] \in Publisher /\ publisher[b].at = "select"
  BY DEF TypeOK, EndDrain
<1>2. /\ next \in Publisher /\ next.at = "stopped"
      /\ next.event = publisher[b].event
      /\ next.attempt = publisher[b].attempt
  BY <1>1 DEF Publisher
<1>3. Become(b, next)
  BY DEF EndDrain
<1>4. QED
  BY <1>1, <1>2, <1>3, BecomeEffect DEF Moves, Publishing, Tries

LEMMA StartDrainMoves ==
    ASSUME TypeOK, Held, StartDrain
    PROVE  Moves("background")
<1> DEFINE next == [publisher["background"] EXCEPT !.draining = TRUE]
<1>1. publisher["background"] \in Publisher /\ "background" \in Publishers
  BY DEF TypeOK, Publishers
<1>2. /\ next \in Publisher /\ next.at = publisher["background"].at
      /\ next.event = publisher["background"].event
      /\ next.attempt = publisher["background"].attempt
  BY <1>1 DEF Publisher
<1>3. Become("background", next)
  BY DEF StartDrain
<1>4. QED
  BY <1>1, <1>2, <1>3, BecomeEffect DEF Moves, Publishing, Held, Tries

LEMMA CloseMoves ==
    ASSUME TypeOK, CloserIdle, Close
    PROVE  Moves("closer")
<1> DEFINE next == [publisher["closer"] EXCEPT !.at = "select",
                                               !.draining = TRUE]
<1>1. /\ publisher["closer"] \in Publisher /\ "closer" \in Publishers
      /\ publisher["closer"].at = "idle"
  BY DEF TypeOK, Publishers, Close, CloserIdle
<1>2. /\ next \in Publisher /\ next.at = "select"
      /\ next.event = publisher["closer"].event
      /\ next.attempt = publisher["closer"].attempt
  BY <1>1 DEF Publisher
<1>3. Become("closer", next)
  BY DEF Close
<1>4. QED
  BY <1>1, <1>2, <1>3, BecomeEffect DEF Moves, Publishing, Tries

\* A goroutine that publishes holds a pending event.
LEMMA HoldsPending ==
    ASSUME TypeOK, Held, NEW b \in Publishers, Publishing(b)
    PROVE  publisher[b].event \in Events /\ Pending(publisher[b].event)
  BY DEF Held

----
\* The kinds of steps there are, as the invariants see them.  b is done with
\* its event, and if it was acknowledged, the library is with the message.
Settles(b) ==
    /\ publisher[b].event \in Events
    /\ UNCHANGED <<queue, accepted>>
    /\ \/ WriteAcked(b) /\ Settle(b, "acked")
       \/ /\ Settle(b, "dropped") \/ Settle(b, "abandoned")
          /\ UNCHANGED writerVars

MovesOn(b) == Moves(b) /\ UNCHANGED <<queue, accepted, outcome, writerVars>>

Elsewhere == UNCHANGED <<queue, publisher, accepted, outcome, writerVars>>

LEMMA StepKinds ==
    ASSUME TypeOK, Held, CloserIdle, [Next]_vars
    PROVE  \/ \E e \in Events : PublishAsync(e)
           \/ \E b \in Publishers : Take(b) \/ HandOver(b) \/ Settles(b) \/ MovesOn(b)
           \/ Library \/ Elsewhere
<1>1. ASSUME NEW b \in Publishers, WriteAcked(b) \/ GiveUp(b)
      PROVE  Settles(b)
  <2>1. publisher[b].event \in Events
    BY <1>1, HoldsPending DEF WriteAcked, GiveUp, Publishing, Waits
  <2> QED
    BY <1>1, <2>1 DEF Settles, WriteAcked, GiveUp
<1>2. ASSUME NEW b \in Publishers, WriteFails(b)
      PROVE  Settles(b) \/ MovesOn(b)
  <2>1. publisher[b].event \in Events /\ UNCHANGED <<queue, accepted, writerVars>>
    BY <1>2, HoldsPending DEF WriteFails, Publishing
  <2>2. CASE Exhausted(b)
    BY <1>2, <2>1, <2>2 DEF WriteFails, Settles
  <2>3. CASE ~Exhausted(b)
    BY <1>2, <2>1, <2>3, BackoffMoves DEF WriteFails, MovesOn
  <2> QED
    BY <2>2, <2>3
<1>3. ASSUME NEW b \in Publishers, Retry(b) \/ Expire(b) \/ EndDrain(b)
      PROVE  MovesOn(b)
  <2>1. Moves(b)
    BY <1>3, RetryMoves, ExpireMoves, EndDrainMoves
  <2> QED
    BY <1>3, <2>1 DEF Retry, Expire, EndDrain, MovesOn
<1>4. ASSUME StartDrain
      PROVE  MovesOn("background")
  BY <1>4, StartDrainMoves DEF StartDrain, MovesOn
<1>5. ASSUME Close
      PROVE  MovesOn("closer") /\ "closer" \in Publishers
  BY <1>5, CloseMoves DEF Close, MovesOn, Publishers
<1>6. CASE Signal \/ GroupFails \/ CloseWriter \/ Exit \/ UNCHANGED vars
  BY <1>6 DEF Signal, GroupFails, CloseWriter, Exit, vars, writerVars, Elsewhere
<1>7. ASSUME NEW b \in Publishers, Publish(b)
      PROVE  Take(b) \/ HandOver(b) \/ Settles(b) \/ MovesOn(b)
  BY <1>1, <1>2, <1>3, <1>4, <1>7 DEF Publish
<1> QED
  BY <1>3, <1>5, <1>6, <1>7 DEF Next, Main

----
\* Where the events are.
Places == Held /\ Apart /\ Queued /\ Placed

LEMMA MovesKeepsPlaces ==
    ASSUME TypeOK, Places, NEW b \in Publishers, Moves(b),
           UNCHANGED <<queue, accepted, outcome>>
    PROVE  Places'
<1>1. Held'
  BY DEF Places, Held, Moves, Pending, Publishing
<1>2. \A c \in Publishers : publisher'[c].event = publisher[c].event
  BY DEF Moves
<1>3. Apart' /\ Queued' /\ Placed'
  BY <1>2 DEF Places, Apart, Queued, Placed, Pending, InSeq, Holds
<1>4. QED
  BY <1>1, <1>3 DEF Places

LEMMA SettleKeepsPlaces ==
    ASSUME TypeOK, Places, NEW b \in Publishers, publisher[b].event \in Events,
           NEW how \in {"acked", "dropped", "abandoned"}, Settle(b, how),
           UNCHANGED <<queue, accepted>>
    PROVE  Places'
<1> DEFINE e == publisher[b].event
<1>1. /\ publisher'[b].at = "select" /\ publisher'[b].event = "none"
      /\ \A c \in Publishers : c # b => publisher'[c] = publisher[c]
      /\ \A d \in Events : d # e => outcome'[d] = outcome[d]
  BY SettleEffect DEF TypeOK
<1>2. \A c \in Publishers : c # b => publisher[c].event # e
  BY DEF Places, Apart
<1>3. \A i \in 1 .. Len(queue) : queue[i] # e /\ queue[i] \in Events
  BY DEF Places, Queued, TypeOK
<1>4. Held'
  BY <1>1, <1>2, ProducerAssumption DEF Places, Held, Pending, Publishing
<1>5. Apart'
  BY <1>1, ProducerAssumption DEF Places, Apart
<1>6. Queued'
  BY <1>1, <1>3, ProducerAssumption DEF Places, Queued, Pending
<1>7. Placed'
  <2> SUFFICES ASSUME NEW d \in Events, InSeq(d, accepted), outcome'[d] = "none"
               PROVE  InSeq(d, queue) \/ \E c \in Publishers : Holds(c, d)'
    BY DEF Placed, Pending, InSeq
  <2>1. d # e /\ Pending(d)
    <3>1. outcome'[e] = how
      BY SettleEffect DEF TypeOK
    <3>2. QED
      BY <1>1, <3>1 DEF Pending
  <2>2. InSeq(d, queue) \/ \E c \in Publishers : c # b /\ Holds(c, d)
    BY <2>1 DEF Places, Placed, Holds
  <2>3. QED
    BY <1>1, <2>2 DEF Holds
<1>8. QED
  BY <1>4, <1>5, <1>6, <1>7 DEF Places

LEMMA TakeKeepsPlaces ==
    ASSUME TypeOK, Places, NEW b \in Publishers, Take(b)
    PROVE  Places'
<1>1. /\ publisher'[b].at = "writing" /\ publisher'[b].event = queue[1]
      /\ publisher'[b].attempt = 1
      /\ \A c \in Publishers : c # b => publisher'[c] = publisher[c]
      /\ queue[1] \in Events /\ Len(queue) \in Nat \ {0}
      /\ Len(queue') = Len(queue) - 1
      /\ \A i \in 1 .. Len(queue') : queue'[i] = queue[i + 1]
      /\ accepted' = accepted /\ outcome' = outcome
  BY TakeEffect DEF Take
<1>2. /\ 1 \in 1 .. Len(queue)
      /\ \A i \in 1 .. Len(queue') : i + 1 \in 1 .. Len(queue) /\ i + 1 # 1
  BY <1>1
<1>3. /\ Pending(queue[1])
      /\ \A c \in Publishers : publisher[c].event # queue[1]
      /\ \A i \in 1 .. Len(queue') : queue'[i] # queue[1]
  BY <1>1, <1>2 DEF Places, Queued
<1>4. Held'
  BY <1>1, <1>3 DEF Places, Held, Pending, Publishing
<1>5. Apart'
  BY <1>1, <1>3 DEF Places, Apart
<1>6. Queued'
  <2> SUFFICES ASSUME NEW i \in 1 .. Len(queue')
               PROVE  /\ InSeq(queue'[i], accepted') /\ outcome'[queue'[i]] = "none"
                      /\ \A c \in Publishers : publisher'[c].event # queue'[i]
                      /\ \A j \in 1 .. Len(queue') :
                            queue'[j] = queue'[i] => j = i
    BY DEF Queued, Pending
  <2>1. Pending(queue'[i])
    BY <1>1, <1>2 DEF Places, Queued
  <2>2. \A c \in Publishers : publisher'[c].event # queue'[i]
    BY <1>1, <1>2, <1>3 DEF Places, Queued
  <2>3. \A j \in 1 .. Len(queue') : queue'[j] = queue'[i] => j = i
    BY <1>1, <1>2 DEF Places, Queued
  <2>4. QED
    BY <1>1, <2>1, <2>2, <2>3 DEF Pending
<1>7. Placed'
  <2> SUFFICES ASSUME NEW d \in Events, Pending(d)
               PROVE  InSeq(d, queue)' \/ \E c \in Publishers : Holds(c, d)'
    BY <1>1 DEF Placed, Pending, InSeq
  <2>1. ASSUME NEW c \in Publishers, Holds(c, d)
        PROVE  Holds(c, d)'
    <3>1. ~Publishing(b) /\ Publishing(c)
      BY <2>1 DEF Take, Publishing, Holds, Places, Held
    <3>2. QED
      BY <1>1, <2>1, <3>1 DEF Holds
  <2>2. ASSUME NEW i \in 1 .. Len(queue), queue[i] = d
        PROVE  InSeq(d, queue)' \/ Holds(b, d)'
    <3>1. CASE i = 1
      BY <1>1, <2>2, <3>1 DEF Holds
    <3>2. CASE i # 1
      <4>1. i - 1 \in 1 .. Len(queue') /\ queue'[i - 1] = queue[i]
        BY <1>1, <3>2
      <4>2. QED
        BY <2>2, <4>1 DEF InSeq
    <3>3. QED
      BY <3>1, <3>2
  <2>3. QED
    BY <2>1, <2>2 DEF Places, Placed, InSeq
<1>8. QED
  BY <1>4, <1>5, <1>6, <1>7 DEF Places

LEMMA PublishAsyncKeepsPlaces ==
    ASSUME TypeOK, Places, NEW e \in Events, PublishAsync(e)
    PROVE  Places'
<1>1. /\ publisher' = publisher /\ ~InSeq(e, accepted) /\ outcome[e] = "none"
  BY DEF PublishAsync, Offered
<1>2. /\ \A b \in Publishers : publisher[b].event # e
      /\ \A i \in 1 .. Len(queue) : queue[i] # e
  BY <1>1, ProducerAssumption DEF Places, Held, Queued, Pending
<1>3. CASE Len(queue) < QueueDepth
  <2>1. /\ queue' = Append(queue, e) /\ accepted' = Append(accepted, e)
        /\ outcome' = outcome
    BY <1>3 DEF PublishAsync
  <2>2. \A d : InSeq(d, accepted') <=> InSeq(d, accepted) \/ d = e
    BY <2>1, InSeqAppend DEF TypeOK
  <2>3. /\ Len(queue) \in Nat /\ Len(queue') = Len(queue) + 1
        /\ queue'[Len(queue) + 1] = e
        /\ \A i \in 1 .. Len(queue) : queue'[i] = queue[i]
    BY <2>1 DEF TypeOK
  <2>4. Held' /\ Apart'
    BY <1>1, <2>1, <2>2 DEF Places, Held, Apart, Pending, Publishing
  <2>5. Queued'
    <3>1. ASSUME NEW i \in 1 .. Len(queue')
          PROVE  /\ InSeq(queue'[i], accepted')
                 /\ outcome'[queue'[i]] = "none"
                 /\ \A c \in Publishers : publisher'[c].event # queue'[i]
      BY <1>1, <1>2, <2>1, <2>2, <2>3 DEF Places, Queued, Pending
    <3>2. ASSUME NEW i \in 1 .. Len(queue'), NEW j \in 1 .. Len(queue'),
                 queue'[j] = queue'[i]
          PROVE  j = i
      BY <1>2, <2>3, <3>2 DEF Places, Queued
    <3>3. QED
      BY <3>1, <3>2 DEF Queued, Pending
  <2>6. \A d : InSeq(d, queue') <=> InSeq(d, queue) \/ d = e
    BY <2>1, InSeqAppend DEF TypeOK
  <2>7. Placed'
    BY <1>1, <2>1, <2>2, <2>6 DEF Places, Placed, Pending, Holds
  <2>8. QED
    BY <2>4, <2>5, <2>7 DEF Places
<1>4. CASE ~(Len(queue) < QueueDepth)
  <2>1. /\ queue' = queue /\ accepted' = accepted
        /\ outcome' = [outcome EXCEPT ![e] = "dropped"]
    BY <1>4 DEF PublishAsync
  <2>2. \A d \in Events : d # e => outcome'[d] = outcome[d]
    BY <2>1 DEF TypeOK
  <2>3. \A i \in 1 .. Len(queue) : queue[i] \in Events
    BY DEF TypeOK
  <2>4. Held' /\ Apart'
    BY <1>1, <1>2, <2>1, <2>2 DEF Places, Held, Apart, Pending, Publishing
  <2>5. Queued'
    BY <1>1, <1>2, <2>1, <2>2, <2>3 DEF Places, Queued, Pending
  <2>6. Placed'
    BY <1>1, <2>1, <2>2 DEF Places, Placed, Pending, Holds, InSeq
  <2>7. QED
    BY <2>4, <2>5, <2>6 DEF Places
<1>5. QED
  BY <1>3, <1>4

----
LEMMA PlacesStep ==
    TypeOK /\ Places /\ CloserIdle /\ [Next]_vars => Places'
<1> SUFFICES ASSUME TypeOK, Places, CloserIdle, [Next]_vars
             PROVE  Places'
  OBVIOUS
<1>0. Held
  BY DEF Places
<1>1. ASSUME NEW b \in Publishers, HandOver(b) \/ MovesOn(b)
      PROVE  Places'
  <2>1. Moves(b) /\ UNCHANGED <<queue, accepted, outcome>>
    BY <1>0, <1>1, HandOverMoves DEF HandOver, MovesOn
  <2> QED
    BY <2>1, MovesKeepsPlaces
<1>2. ASSUME NEW b \in Publishers, Settles(b)
      PROVE  Places'
  BY <1>2, SettleKeepsPlaces DEF Settles
<1>3. CASE Library \/ Elsewhere
  <2>1. UNCHANGED <<queue, publisher, accepted, outcome>>
    BY <1>3 DEF Library, Elsewhere
  <2> QED
    BY <2>1 DEF Places, Held, Apart, Queued, Placed, Pending, Publishing,
                Holds, InSeq
<1> QED
  BY <1>0, <1>1, <1>2, <1>3, StepKinds, PublishAsyncKeepsPlaces, TakeKeepsPlaces

\* Only Close starts the closer.
LEMMA CloserIdleStep ==
    TypeOK /\ Held /\ CloserIdle /\ [Next]_vars => CloserIdle'
<1> SUFFICES ASSUME TypeOK, Held, CloserIdle, [Next]_vars, main' = "waiting"
             PROVE  publisher'["closer"].at = "idle"
  BY DEF CloserIdle
<1>0. "closer" \in Publishers /\ "background" \in Publishers
      /\ "closer" # "background"
  BY DEF Publishers
<1>1. ASSUME publisher' = publisher \/ UNCHANGED vars, main = "waiting"
      PROVE  publisher'["closer"].at = "idle"
  BY <1>1 DEF CloserIdle, vars
<1>2. ASSUME NEW b \in Publishers, Take(b) \/ HandOver(b) \/ WriteAcked(b)
                                    \/ WriteFails(b) \/ Retry(b) \/ GiveUp(b)
                                    \/ EndDrain(b)
      PROVE  publisher'["closer"].at = "idle"
  <2>1. main = "waiting" /\ publisher[b].at # "idle"
    BY <1>2 DEF Take, HandOver, WriteAcked, WriteFails, Retry, GiveUp, EndDrain,
                Waits, process
  <2>2. b # "closer"
    BY <2>1 DEF CloserIdle
  <2>3. publisher'["closer"] = publisher["closer"]
    BY <1>0, <1>2, <2>2
       DEF TypeOK, Take, HandOver, WriteAcked, WriteFails, Retry, GiveUp,
           EndDrain, Settle, Become
  <2>4. QED
    BY <2>1, <2>3 DEF CloserIdle
<1>3. ASSUME NEW b \in Publishers, Expire(b)
      PROVE  publisher'["closer"].at = "idle"
  <2>1. main = "waiting"
    BY <1>3 DEF Expire, process
  <2>2. publisher'["closer"].at = publisher["closer"].at
    <3>1. publisher["closer"] \in Publisher
      BY <1>0 DEF TypeOK
    <3>2. publisher'["closer"] \in {publisher["closer"],
                                    [publisher["closer"] EXCEPT !.expired = TRUE]}
      BY <1>0, <1>3 DEF TypeOK, Expire, Become
    <3>3. QED
      BY <3>1, <3>2 DEF Publisher
  <2>3. QED
    BY <2>1, <2>2 DEF CloserIdle
<1>4. CASE StartDrain
  <2>1. main = "waiting" /\ publisher'["closer"] = publisher["closer"]
    BY <1>0, <1>4 DEF StartDrain, TypeOK, Become, process
  <2>2. QED
    BY <2>1 DEF CloserIdle
<1>5. CASE Close \/ CloseWriter \/ Exit
  BY <1>5 DEF Close, CloseWriter, Exit
<1>6. CASE Library \/ Signal \/ GroupFails \/ \E e \in Events : PublishAsync(e)
  BY <1>1, <1>6 DEF Library, Signal, GroupFails, PublishAsync, process
<1>7. CASE UNCHANGED vars
  BY <1>1, <1>7 DEF vars
<1>8. QED
  BY <1>2, <1>3, <1>4, <1>5, <1>6, <1>7 DEF Next, Publish, Main

\* What the library does to its messages and to the topic.
LEMMA AcceptEffect ==
    ASSUME TypeOK, NEW e \in Events, NEW n \in 1 .. MaxRetries, Accept(e, n)
    PROVE  /\ pending' \in Seq(Message)
           /\ Len(pending') = Len(pending) + 1 /\ Len(pending) \in Nat
           /\ pending'[Len(pending) + 1].event = e
           /\ pending'[Len(pending) + 1].attempt = n
           /\ pending'[Len(pending) + 1].copies = 0
           /\ \A k \in 1 .. Len(pending) : pending'[k] = pending[k]
           /\ sent' = sent /\ topic' = topic
<1> DEFINE m == [event |-> e, attempt |-> n, copies |-> 0]
<1>1. m \in Message
  BY ProducerAssumption DEF Message
<1>2. pending \in Seq(Message) /\ pending' = Append(pending, m)
  BY DEF TypeOK, Accept
<1>3. m.event = e /\ m.attempt = n /\ m.copies = 0
  OBVIOUS
<1> HIDE DEF m
<1> QED
  BY <1>1, <1>2, <1>3, AppendEffect DEF Accept

LEMMA SendEffect ==
    ASSUME TypeOK, Send
    PROVE  /\ pending' \in Seq(Message) /\ topic' \in Seq(Message)
           /\ Len(pending') = Len(pending) /\ Len(pending) \in Nat
           /\ sent \in Nat /\ sent' = sent + 1 /\ sent + 1 \in 1 .. Len(pending)
           /\ pending[sent + 1] \in Message
           /\ pending'[sent + 1].event = pending[sent + 1].event
           /\ pending'[sent + 1].attempt = pending[sent + 1].attempt
           /\ pending'[sent + 1].copies = pending[sent + 1].copies + 1
           /\ \A k \in 1 .. Len(pending) : k # sent + 1 => pending'[k] = pending[k]
           /\ Len(topic') = Len(topic) + 1 /\ Len(topic) \in Nat
           /\ topic'[Len(topic) + 1] = pending'[sent + 1]
           /\ \A i \in 1 .. Len(topic) : topic'[i] = topic[i]
<1> DEFINE k == sent + 1
           m == [pending[k] EXCEPT !.copies = @ + 1]
<1>1. /\ pending \in Seq(Message) /\ topic \in Seq(Message)
      /\ sent \in Nat /\ k \in 1 .. Len(pending) /\ Len(pending) \in Nat
      /\ pending[k] \in Message /\ pending[k].copies < WriterAttempts
  BY DEF TypeOK, Send
<1>2. /\ m \in Message /\ m.event = pending[k].event
      /\ m.attempt = pending[k].attempt /\ m.copies = pending[k].copies + 1
  <2>1. pending[k].copies + 1 \in 0 .. WriterAttempts
    BY <1>1, ProducerAssumption DEF Message
  <2> QED
    BY <1>1, <2>1 DEF Message
<1>3. /\ pending' = [pending EXCEPT ![k] = m] /\ topic' = Append(topic, m)
      /\ sent' = k
  BY DEF Send
<1> HIDE DEF m
<1>4. /\ pending' \in Seq(Message) /\ Len(pending') = Len(pending)
      /\ pending'[k] = m
      /\ \A j \in 1 .. Len(pending) : j # k => pending'[j] = pending[j]
  BY <1>1, <1>2, <1>3
<1>5. /\ topic' \in Seq(Message)
      /\ Len(topic') = Len(topic) + 1 /\ Len(topic) \in Nat
      /\ topic'[Len(topic) + 1] = m
      /\ \A i \in 1 .. Len(topic) : topic'[i] = topic[i]
  BY <1>1, <1>2, <1>3, AppendEffect
<1> QED
  BY <1>1, <1>2, <1>3, <1>4, <1>5

LEMMA FinishEffect ==
    ASSUME TypeOK, Finish
    PROVE  /\ pending' \in Seq(Message)
           /\ Len(pending') = Len(pending) - 1 /\ Len(pending) \in Nat \ {0}
           /\ \A k \in 1 .. Len(pending') : pending'[k] = pending[k + 1]
           /\ sent \in 0 .. Len(pending) /\ sent' \in 0 .. Len(pending')
           /\ \A k \in 1 .. sent' : k + 1 \in 1 .. sent
           /\ topic' = topic
<1>1. pending \in Seq(Message) /\ sent \in 0 .. Len(pending) /\ pending # <<>>
  BY DEF TypeOK, Finish
<1>2. /\ pending' \in Seq(Message)
      /\ Len(pending') = Len(pending) - 1 /\ Len(pending) \in Nat \ {0}
      /\ \A k \in 1 .. Len(pending') : pending'[k] = pending[k + 1]
  BY <1>1, TailEffect DEF Finish
<1>3. sent' = IF sent = 0 THEN 0 ELSE sent - 1
  BY DEF Finish
<1> QED
  BY <1>1, <1>2, <1>3 DEF Finish

\* The call that b makes.
LEMMA HandsOver ==
    ASSUME TypeOK, Held, NEW b \in Publishers, HandOver(b)
    PROVE  /\ publisher[b].event \in Events
           /\ publisher[b].attempt \in 1 .. MaxRetries
           /\ Accept(publisher[b].event, publisher[b].attempt)
<1>1. /\ publisher[b] \in Publisher /\ publisher[b].attempt > 0
      /\ publisher[b].event \in Events
  BY DEF TypeOK, Held, Publishing, HandOver
<1> QED
  BY <1>1, ProducerAssumption DEF HandOver, Publisher

\* Every step keeps the types.
PublishersTyped ==
    /\ queue \in Seq(Events) /\ Len(queue) <= QueueDepth
    /\ publisher \in [Publishers -> Publisher]
    /\ accepted \in Seq(Events)
    /\ outcome \in [Events -> {"none", "acked", "dropped", "abandoned"}]

WriterTyped ==
    /\ pending \in Seq(Message) /\ sent \in 0 .. Len(pending)
    /\ topic \in Seq(Message)

MainTyped ==
    /\ writerOpen \in BOOLEAN
    /\ rootDone \in BOOLEAN /\ groupDone \in BOOLEAN
    /\ main \in {"waiting", "closing", "closed", "exited"}

LEMMA MainTypedStep == TypeOK /\ [Next]_vars => MainTyped'
<1> SUFFICES ASSUME TypeOK, [Next]_vars
             PROVE  MainTyped'
  OBVIOUS
<1>1. MainTyped
  BY DEF TypeOK, MainTyped
<1>2. ASSUME UNCHANGED process
      PROVE  MainTyped'
  BY <1>1, <1>2 DEF process, MainTyped
<1>3. ASSUME NEW e \in Events, PublishAsync(e)
      PROVE  UNCHANGED process
  BY <1>3 DEF PublishAsync
<1>4. ASSUME NEW b \in Publishers, Publish(b) \/ Expire(b)
      PROVE  UNCHANGED process
  BY <1>4 DEF Publish, Take, HandOver, Accept, WriteAcked, Finish, WriteFails,
              Retry, GiveUp, EndDrain, StartDrain, Expire, process
<1>5. CASE Library
  BY <1>2, <1>5 DEF Library, WriterSends, WriterRepeats, WriterForgets, Send,
                    Repeat, Finish, process
<1>6. CASE Signal \/ GroupFails \/ Main
  BY <1>1, <1>6 DEF Signal, GroupFails, Main, Close, CloseWriter, Exit, MainTyped
<1>7. CASE UNCHANGED vars
  BY <1>2, <1>7 DEF vars, process
<1> QED
  BY <1>2, <1>3, <1>4, <1>5, <1>6, <1>7 DEF Next

LEMMA PublishersTypedStep ==
    TypeOK /\ Held /\ CloserIdle /\ [Next]_vars => PublishersTyped'
<1> SUFFICES ASSUME TypeOK, Held, CloserIdle, [Next]_vars
             PROVE  PublishersTyped'
  OBVIOUS
<1>0. PublishersTyped
  BY DEF TypeOK, PublishersTyped
<1>1. ASSUME NEW e \in Events, PublishAsync(e)
      PROVE  PublishersTyped'
  <2>1. CASE Len(queue) < QueueDepth
    <3>1. /\ queue' \in Seq(Events) /\ Len(queue') = Len(queue) + 1
          /\ accepted' \in Seq(Events) /\ outcome' = outcome
          /\ Len(queue) \in Nat
      <4>1. /\ queue' = Append(queue, e) /\ accepted' = Append(accepted, e)
            /\ outcome' = outcome
        BY <1>1, <2>1 DEF PublishAsync
      <4>2. QED
        BY <1>0, <4>1, AppendEffect DEF PublishersTyped
    <3>2. Len(queue') <= QueueDepth
      BY <2>1, <3>1, ProducerAssumption
    <3>3. QED
      BY <1>0, <1>1, <3>1, <3>2 DEF PublishAsync, PublishersTyped
  <2>2. CASE ~(Len(queue) < QueueDepth)
    <3>1. /\ queue' = queue /\ accepted' = accepted
          /\ outcome' \in [Events -> {"none", "acked", "dropped", "abandoned"}]
      BY <1>0, <1>1, <2>2 DEF PublishAsync, PublishersTyped
    <3>2. QED
      BY <1>0, <1>1, <3>1 DEF PublishAsync, PublishersTyped
  <2>3. QED
    BY <2>1, <2>2
<1>2. ASSUME NEW b \in Publishers, Take(b)
      PROVE  PublishersTyped'
  <2>1. /\ publisher' \in [Publishers -> Publisher] /\ queue' \in Seq(Events)
        /\ Len(queue') = Len(queue) - 1 /\ Len(queue) \in Nat \ {0}
    BY <1>2, TakeEffect
  <2>2. Len(queue') <= QueueDepth
    BY <1>0, <2>1, ProducerAssumption DEF PublishersTyped
  <2>3. QED
    BY <1>0, <1>2, <2>1, <2>2 DEF Take, PublishersTyped
<1>3. ASSUME NEW b \in Publishers, Settles(b)
      PROVE  PublishersTyped'
  <2>1. /\ publisher' \in [Publishers -> Publisher]
        /\ outcome' \in [Events -> {"none", "acked", "dropped", "abandoned"}]
    BY <1>3, SettleEffect DEF Settles
  <2> QED
    BY <1>0, <1>3, <2>1 DEF Settles, PublishersTyped
<1>4. ASSUME NEW b \in Publishers, HandOver(b) \/ MovesOn(b)
      PROVE  PublishersTyped'
  <2>1. Moves(b) /\ UNCHANGED <<queue, accepted, outcome>>
    BY <1>4, HandOverMoves DEF HandOver, MovesOn
  <2> QED
    BY <1>0, <2>1 DEF Moves, PublishersTyped
<1>5. CASE Library \/ Elsewhere
  BY <1>0, <1>5 DEF Library, Elsewhere, PublishersTyped
<1> QED
  BY <1>1, <1>2, <1>3, <1>4, <1>5, StepKinds

LEMMA WriterTypedStep ==
    TypeOK /\ Held /\ CloserIdle /\ [Next]_vars => WriterTyped'
<1> SUFFICES ASSUME TypeOK, Held, CloserIdle, [Next]_vars
             PROVE  WriterTyped'
  OBVIOUS
<1>0. WriterTyped
  BY DEF TypeOK, WriterTyped
<1>1. ASSUME UNCHANGED writerVars
      PROVE  WriterTyped'
  BY <1>0, <1>1 DEF writerVars, WriterTyped
<1>2. ASSUME Finish
      PROVE  WriterTyped'
  BY <1>0, <1>2, FinishEffect DEF WriterTyped
<1>3. ASSUME NEW b \in Publishers, HandOver(b)
      PROVE  WriterTyped'
  <2>1. /\ pending' \in Seq(Message) /\ Len(pending') = Len(pending) + 1
        /\ Len(pending) \in Nat /\ sent' = sent /\ topic' = topic
    BY <1>3, HandsOver, AcceptEffect
  <2> QED
    BY <1>0, <2>1 DEF WriterTyped
<1>4. ASSUME NEW b \in Publishers, Settles(b)
      PROVE  WriterTyped'
  BY <1>1, <1>2, <1>4 DEF Settles, WriteAcked
<1>5. CASE Library
  <2>1. CASE Send
    BY <2>1, SendEffect DEF WriterTyped
  <2>2. CASE Repeat
    BY <1>0, <2>2 DEF Repeat, WriterTyped
  <2> QED
    BY <1>2, <1>5, <2>1, <2>2
       DEF Library, WriterSends, WriterRepeats, WriterForgets
<1>6. CASE Elsewhere \/ \E e \in Events : PublishAsync(e)
  BY <1>1, <1>6 DEF Elsewhere, PublishAsync
<1>7. ASSUME NEW b \in Publishers, Take(b) \/ MovesOn(b)
      PROVE  WriterTyped'
  BY <1>1, <1>7 DEF Take, MovesOn
<1> QED
  BY <1>3, <1>4, <1>5, <1>6, <1>7, StepKinds

LEMMA TypeOKStep ==
    TypeOK /\ Held /\ CloserIdle /\ [Next]_vars => TypeOK'
<1>1. PublishersTyped' /\ WriterTyped' /\ MainTyped' => TypeOK'
  BY DEF PublishersTyped, WriterTyped, MainTyped, TypeOK
<1> QED
  BY <1>1, PublishersTypedStep, WriterTypedStep, MainTypedStep

----
\* Every event has one place at a time, in every reachable state.
THEOREM IInvCorrect == Spec => []IInv
<1>1. IInv /\ [Next]_vars => IInv'
  BY TypeOKStep, PlacesStep, CloserIdleStep DEF IInv, Places
<1>2. QED
  BY InitIInv, <1>1, PTL DEF Spec

\* Queue, goroutines, topic and histories have their types; in particular
\* no event is tried more than MaxRetries times.
THEOREM TypeCorrect == Spec => []TypeOK
<1>1. IInv => TypeOK
  BY DEF IInv
<1>2. QED
  BY IInvCorrect, <1>1, PTL

\* What IInv says of an event, in the words of OneOwner.
LEMMA OnePlace == IInv => OneOwner
<1> SUFFICES ASSUME IInv, NEW e \in Events
             PROVE  Cardinality({i \in 1 .. Len(queue) : queue[i] = e})
                      + Cardinality({b \in Publishers : Holds(b, e)})
                      + (IF outcome[e] # "none" THEN 1 ELSE 0)
                      = (IF Offered(e) THEN 1 ELSE 0)
  BY DEF OneOwner
<1> DEFINE waiting == {i \in 1 .. Len(queue) : queue[i] = e}
           held == {b \in Publishers : Holds(b, e)}
<1>0. TypeOK /\ Held /\ Apart /\ Queued /\ Placed
  BY DEF IInv
<1>1. waiting # {} \/ held # {} => Pending(e)
  BY <1>0 DEF Queued, Held, Holds
<1>2. Pending(e) => waiting # {} \/ held # {}
  BY <1>0 DEF Placed, InSeq
<1>3. ~(waiting # {} /\ held # {})
  BY <1>0 DEF Queued, Holds
<1>4. waiting # {} => Cardinality(waiting) = 1
  <2> SUFFICES ASSUME waiting # {}
               PROVE  Cardinality(waiting) = 1
    OBVIOUS
  <2>1. PICK i \in waiting : TRUE
    OBVIOUS
  <2>2. waiting = {i}
    BY <1>0, <2>1 DEF Queued
  <2>3. QED
    BY <2>2, FS_Singleton
<1>5. held # {} => Cardinality(held) = 1
  <2> SUFFICES ASSUME held # {}
               PROVE  Cardinality(held) = 1
    OBVIOUS
  <2>1. PICK b \in held : TRUE
    OBVIOUS
  <2>2. held = {b}
    BY <1>0, <2>1 DEF Apart, Holds
  <2>3. QED
    BY <2>2, FS_Singleton
<1>6. Cardinality({}) = 0
  BY FS_EmptySet
<1>7. CASE Pending(e)
  <2>1. Offered(e) /\ outcome[e] = "none"
    BY <1>7 DEF Pending, Offered
  <2>2. CASE waiting # {}
    <3>1. Cardinality(waiting) = 1 /\ Cardinality(held) = 0
      BY <1>3, <1>4, <1>6, <2>2
    <3> HIDE DEF waiting, held
    <3>2. Cardinality(waiting) + Cardinality(held) + 0 = 1
      BY <3>1
    <3>3. QED
      BY <2>1, <3>2 DEF waiting, held
  <2>3. CASE held # {}
    <3>1. Cardinality(waiting) = 0 /\ Cardinality(held) = 1
      BY <1>3, <1>5, <1>6, <2>3
    <3> HIDE DEF waiting, held
    <3>2. Cardinality(waiting) + Cardinality(held) + 0 = 1
      BY <3>1
    <3>3. QED
      BY <2>1, <3>2 DEF waiting, held
  <2>4. QED
    BY <1>2, <1>7, <2>2, <2>3
<1>8. CASE ~Pending(e)
  <2>1. waiting = {} /\ held = {}
    BY <1>1, <1>8
  <2>2. Offered(e) <=> outcome[e] # "none"
    BY <1>8 DEF Pending, Offered
  <2>3. QED
    <3>1. Cardinality(waiting) = 0 /\ Cardinality(held) = 0
      BY <1>6, <2>1
    <3> HIDE DEF waiting, held
    <3>2. /\ Cardinality(waiting) + Cardinality(held) + 0 = 0
          /\ Cardinality(waiting) + Cardinality(held) + 1 = 1
      BY <3>1
    <3>3. QED
      BY <2>2, <3>2 DEF waiting, held
<1>9. QED
  BY <1>7, <1>8

\* Each accepted event is in the queue, with one goroutine, or settled.
THEOREM OwnerCorrect == Spec => []OneOwner
<1>1. QED
  BY IInvCorrect, OnePlace, PTL

(* The messages of the library and of the topic.                           *)

\* The n-th call for e has handed its message over.
Called(e, n) ==
    \/ \E i \in 1 .. Len(topic) : topic[i].event = e /\ topic[i].attempt = n
    \/ \E k \in 1 .. Len(pending) :
          pending[k].event = e /\ pending[k].attempt = n

InTopic(e) == \E i \in 1 .. Len(topic) : topic[i].event = e

LEMMA AcceptCalls ==
    ASSUME TypeOK, NEW e \in Events, NEW n \in 1 .. MaxRetries, Accept(e, n)
    PROVE  /\ \A d, m : Called(d, m)' <=> Called(d, m) \/ (d = e /\ m = n)
           /\ \A d : InTopic(d)' <=> InTopic(d)
<1>1. /\ Len(pending') = Len(pending) + 1 /\ Len(pending) \in Nat
      /\ pending'[Len(pending) + 1].event = e
      /\ pending'[Len(pending) + 1].attempt = n
      /\ \A k \in 1 .. Len(pending) : pending'[k] = pending[k]
      /\ topic' = topic
  BY AcceptEffect
<1>2. /\ Len(pending) + 1 \in 1 .. Len(pending')
      /\ \A k \in 1 .. Len(pending') : k = Len(pending) + 1 \/ k \in 1 .. Len(pending)
      /\ \A k \in 1 .. Len(pending) : k \in 1 .. Len(pending')
  BY <1>1
<1>3. \A d : InTopic(d)' <=> InTopic(d)
  BY <1>1 DEF InTopic
<1> QED
  BY <1>1, <1>2, <1>3 DEF Called

LEMMA SendCalls ==
    ASSUME TypeOK, Send
    PROVE  /\ \A d, m : Called(d, m)' <=> Called(d, m)
           /\ \A d : InTopic(d)' <=> InTopic(d) \/ d = pending[sent + 1].event
           /\ Called(pending[sent + 1].event, pending[sent + 1].attempt)
           /\ pending[sent + 1].event \in Events
           /\ pending[sent + 1].attempt \in 1 .. MaxRetries
<1> DEFINE p == sent + 1
           l == Len(topic) + 1
<1>1. /\ Len(pending') = Len(pending) /\ p \in 1 .. Len(pending)
      /\ pending'[p].event = pending[p].event
      /\ pending'[p].attempt = pending[p].attempt
      /\ \A k \in 1 .. Len(pending) : k # p => pending'[k] = pending[k]
      /\ Len(topic') = l /\ Len(topic) \in Nat
      /\ topic'[l] = pending'[p]
      /\ \A i \in 1 .. Len(topic) : topic'[i] = topic[i]
      /\ pending[p] \in Message
  BY SendEffect
<1>2. /\ l \in 1 .. Len(topic')
      /\ \A i \in 1 .. Len(topic') : i = l \/ i \in 1 .. Len(topic)
      /\ \A i \in 1 .. Len(topic) : i \in 1 .. Len(topic')
  BY <1>1
<1> HIDE DEF p, l
<1>3. \A d : InTopic(d)' <=> InTopic(d) \/ d = pending[p].event
  BY <1>1, <1>2 DEF InTopic
<1>4. \A k \in 1 .. Len(pending) : /\ pending'[k].event = pending[k].event
                                   /\ pending'[k].attempt = pending[k].attempt
  BY <1>1
<1>5. Called(pending[p].event, pending[p].attempt)
  BY <1>1 DEF Called
<1>6. ASSUME NEW d, NEW m
      PROVE  Called(d, m)' <=> Called(d, m)
  <2>1. ASSUME Called(d, m)'
        PROVE  Called(d, m)
    <3>1. CASE \E k \in 1 .. Len(pending') :
                  pending'[k].event = d /\ pending'[k].attempt = m
      BY <1>1, <1>4, <3>1 DEF Called
    <3>2. CASE \E i \in 1 .. Len(topic') :
                  topic'[i].event = d /\ topic'[i].attempt = m
      BY <1>1, <1>2, <3>2 DEF Called
    <3> QED
      BY <2>1, <3>1, <3>2 DEF Called
  <2>2. ASSUME Called(d, m)
        PROVE  Called(d, m)'
    BY <1>1, <1>2, <1>4, <2>2 DEF Called
  <2> QED
    BY <2>1, <2>2
<1>7. pending[p].event \in Events /\ pending[p].attempt \in 1 .. MaxRetries
  BY <1>1 DEF Message
<1> QED
  BY <1>3, <1>5, <1>6, <1>7 DEF p

LEMMA FinishCalls ==
    ASSUME TypeOK, Finish
    PROVE  /\ \A d, m : Called(d, m)' => Called(d, m)
           /\ \A d : InTopic(d)' <=> InTopic(d)
<1>1. /\ Len(pending') = Len(pending) - 1 /\ Len(pending) \in Nat \ {0}
      /\ \A k \in 1 .. Len(pending') : pending'[k] = pending[k + 1]
      /\ topic' = topic
  BY FinishEffect
<1>2. \A k \in 1 .. Len(pending') : k + 1 \in 1 .. Len(pending)
  BY <1>1
<1> QED
  BY <1>1, <1>2 DEF Called, InTopic

LEMMA SameCalls ==
    ASSUME pending' = pending, topic' = topic
    PROVE  /\ \A d, m : Called(d, m)' <=> Called(d, m)
           /\ \A d : InTopic(d)' <=> InTopic(d)
  BY DEF Called, InTopic

\* Only a goroutine that writes makes a call.
LEMMA NoCalls ==
    ASSUME TypeOK, UNCHANGED writerVars \/ Finish \/ Send \/ Repeat
    PROVE  \A d, m : Called(d, m)' => Called(d, m)
  BY SameCalls, FinishCalls, SendCalls DEF writerVars, Repeat

\* A call is for an event that was accepted, and that no longer waits; the
\* one who holds it has made that call and will not make it again.
Tried ==
    \A x \in Events, n \in 1 .. MaxRetries :
       Called(x, n) => /\ InSeq(x, accepted)
                       /\ ~InSeq(x, queue)
                       /\ \A b \in Publishers : Holds(b, x) => Tries(b, n)

LEMMA TriedStep == IInv /\ Tried /\ [Next]_vars => Tried'
<1> SUFFICES ASSUME IInv, Tried, [Next]_vars,
                    NEW x \in Events, NEW n \in 1 .. MaxRetries, Called(x, n)'
             PROVE  /\ InSeq(x, accepted')
                    /\ ~InSeq(x, queue')
                    /\ \A b \in Publishers : publisher'[b].event = x => Tries(b, n)'
  BY DEF Tried, InSeq, Holds
<1>0. TypeOK /\ Held /\ CloserIdle
  BY DEF IInv
<1>1. ASSUME NEW e \in Events, PublishAsync(e)
      PROVE  /\ InSeq(x, accepted')
             /\ ~InSeq(x, queue')
             /\ \A b \in Publishers : publisher'[b].event = x => Tries(b, n)'
  <2>1. UNCHANGED writerVars /\ publisher' = publisher /\ ~InSeq(e, accepted)
    BY <1>1 DEF PublishAsync, Offered
  <2>2. Called(x, n)
    BY <1>0, <2>1, NoCalls
  <2>3. InSeq(x, accepted) /\ x # e /\ ~InSeq(x, queue)
    BY <2>1, <2>2 DEF Tried
  <2>4. /\ accepted \in Seq(Events) /\ queue \in Seq(Events)
        /\ accepted' = accepted \/ accepted' = Append(accepted, e)
        /\ queue' = queue \/ queue' = Append(queue, e)
    BY <1>0, <1>1 DEF PublishAsync, TypeOK
  <2>5. InSeq(x, accepted') /\ ~InSeq(x, queue')
    <3>1. \A s \in Seq(Events) : InSeq(x, Append(s, e)) <=> InSeq(x, s) \/ x = e
      BY InSeqAppend
    <3> QED
      BY <2>3, <2>4, <3>1
  <2> QED
    BY <2>1, <2>2, <2>5 DEF Tried, Holds, Tries
<1>2. ASSUME NEW b \in Publishers, Take(b)
      PROVE  /\ InSeq(x, accepted')
             /\ ~InSeq(x, queue')
             /\ \A c \in Publishers : publisher'[c].event = x => Tries(c, n)'
  <2>1. /\ publisher'[b].event = queue[1]
        /\ \A c \in Publishers : c # b => publisher'[c] = publisher[c]
        /\ Len(queue') = Len(queue) - 1 /\ Len(queue) \in Nat \ {0}
        /\ \A i \in 1 .. Len(queue') : queue'[i] = queue[i + 1]
        /\ accepted' = accepted /\ UNCHANGED writerVars
    BY <1>0, <1>2, TakeEffect DEF Take
  <2>2. Called(x, n)
    BY <1>0, <2>1, NoCalls
  <2>3. InSeq(x, accepted) /\ ~InSeq(x, queue)
    BY <2>2 DEF Tried
  <2>4. 1 \in 1 .. Len(queue) /\ \A i \in 1 .. Len(queue') : i + 1 \in 1 .. Len(queue)
    BY <2>1
  <2>5. x # queue[1] /\ ~InSeq(x, queue')
    BY <2>1, <2>3, <2>4 DEF InSeq
  <2> QED
    BY <2>1, <2>2, <2>3, <2>5 DEF Tried, Holds, Tries
<1>3. ASSUME NEW b \in Publishers, HandOver(b)
      PROVE  /\ InSeq(x, accepted')
             /\ ~InSeq(x, queue')
             /\ \A c \in Publishers : publisher'[c].event = x => Tries(c, n)'
  <2> DEFINE e == publisher[b].event
             a == publisher[b].attempt
  <2>1. /\ e \in Events /\ a \in 1 .. MaxRetries /\ Accept(e, a)
        /\ Moves(b) /\ UNCHANGED <<queue, accepted>>
    BY <1>0, <1>3, HandsOver, HandOverMoves DEF HandOver
  <2>2. publisher'[b].at = "waiting" /\ publisher'[b].attempt = a
    <3>1. publisher[b] \in Publisher /\ publisher \in [Publishers -> Publisher]
      BY <1>0 DEF TypeOK
    <3> QED
      BY <1>3, <3>1 DEF HandOver, Become, Publisher
  <2>3. Called(x, n) \/ (x = e /\ n = a)
    BY <1>0, <2>1, AcceptCalls
  <2>4. CASE Called(x, n)
    BY <2>1, <2>4 DEF Tried, Holds, Tries, Moves
  <2>5. CASE x = e /\ n = a
    <3>1. InSeq(x, accepted) /\ ~InSeq(x, queue)
      BY <1>0, <2>1, <2>5 DEF IInv, Held, Pending, Queued, InSeq
    <3>2. \A c \in Publishers : publisher'[c].event = x => c = b
      BY <2>1, <2>5 DEF IInv, Apart, Moves
    <3> QED
      BY <2>1, <2>2, <2>5, <3>1, <3>2 DEF Tries
  <2> QED
    BY <2>3, <2>4, <2>5
<1>4. ASSUME NEW b \in Publishers, Settles(b)
      PROVE  /\ InSeq(x, accepted')
             /\ ~InSeq(x, queue')
             /\ \A c \in Publishers : publisher'[c].event = x => Tries(c, n)'
  <2>1. Called(x, n)
    BY <1>0, <1>4, NoCalls DEF Settles, WriteAcked
  <2>2. /\ publisher'[b].event = "none"
        /\ \A c \in Publishers : c # b => publisher'[c] = publisher[c]
    BY <1>0, <1>4, SettleEffect DEF Settles
  <2> QED
    BY <1>4, <2>1, <2>2, ProducerAssumption DEF Settles, Tried, Holds, Tries
<1>5. ASSUME NEW b \in Publishers, MovesOn(b)
      PROVE  /\ InSeq(x, accepted')
             /\ ~InSeq(x, queue')
             /\ \A c \in Publishers : publisher'[c].event = x => Tries(c, n)'
  <2>1. Called(x, n)
    BY <1>0, <1>5, NoCalls DEF MovesOn
  <2> QED
    BY <1>5, <2>1 DEF MovesOn, Moves, Tried, Holds, Tries
<1>6. CASE Library \/ Elsewhere
  <2>1. Called(x, n)
    BY <1>0, <1>6, NoCalls
       DEF Library, WriterSends, WriterRepeats, WriterForgets, Elsewhere
  <2>2. UNCHANGED <<queue, publisher, accepted>>
    BY <1>6 DEF Library, Elsewhere
  <2> QED
    BY <2>1, <2>2 DEF Tried, Holds, Tries
<1> QED
  BY <1>0, <1>1, <1>2, <1>3, <1>4, <1>5, <1>6, StepKinds

\* What the library takes to be written is in the topic, and so is what was
\* acknowledged.
Sound ==
    /\ \A k \in 1 .. Len(pending), x \in Events :
          pending[k].copies > 0 /\ pending[k].event = x => InTopic(x)
    /\ \A k \in 1 .. sent : pending[k].copies > 0
    /\ \A x \in Events : outcome[x] = "acked" => InTopic(x)

\* A step that leaves the messages alone and acknowledges at most x.
LEMMA SoundStays ==
    ASSUME TypeOK, Sound, pending' = pending, topic' = topic,
           sent' = sent \/ sent' = 0,
           \A x \in Events :
              outcome'[x] = "acked" => outcome[x] = "acked" \/ InTopic(x)
    PROVE  Sound'
<1>1. \A d : InTopic(d)' <=> InTopic(d)
  BY SameCalls
<1>2. \A k \in 1 .. sent' : k \in 1 .. sent
  BY DEF TypeOK
<1> QED
  BY <1>1, <1>2 DEF Sound

LEMMA FinishSound ==
    ASSUME TypeOK, Sound, Finish,
           \A x \in Events :
              outcome'[x] = "acked" => outcome[x] = "acked" \/ InTopic(x)
    PROVE  Sound'
<1>1. /\ Len(pending') = Len(pending) - 1 /\ Len(pending) \in Nat \ {0}
      /\ \A k \in 1 .. Len(pending') : pending'[k] = pending[k + 1]
      /\ sent' \in 0 .. Len(pending')
      /\ \A k \in 1 .. sent' : k + 1 \in 1 .. sent
  BY FinishEffect
<1>2. \A k \in 1 .. Len(pending') : k + 1 \in 1 .. Len(pending)
  BY <1>1
<1>3. \A k \in 1 .. sent' : k \in 1 .. Len(pending')
  BY <1>1
<1>4. \A d : InTopic(d)' <=> InTopic(d)
  BY FinishCalls
<1> QED
  BY <1>1, <1>2, <1>3, <1>4 DEF Sound

LEMMA SendSound ==
    ASSUME TypeOK, Sound, Send, outcome' = outcome
    PROVE  Sound'
<1> DEFINE p == sent + 1
<1>1. /\ Len(pending') = Len(pending) /\ p \in 1 .. Len(pending)
      /\ pending'[p].event = pending[p].event
      /\ pending'[p].copies = pending[p].copies + 1
      /\ \A k \in 1 .. Len(pending) : k # p => pending'[k] = pending[k]
      /\ pending[p].copies \in Nat /\ sent \in Nat /\ sent' = p
  <2>1. pending[p].copies \in Nat
    BY SendEffect, ProducerAssumption DEF Message
  <2> QED
    BY <2>1, SendEffect
<1>2. \A k \in 1 .. p : k = p \/ k \in 1 .. sent
  BY <1>1
<1>3. \A k \in 1 .. p : k \in 1 .. Len(pending)
  BY <1>1
<1>4. \A d : InTopic(d)' <=> InTopic(d) \/ d = pending[p].event
  BY SendCalls
<1>5. pending'[p].copies > 0
  BY <1>1
<1> HIDE DEF p
<1>6. \A k \in 1 .. p : pending'[k].copies > 0
  BY <1>1, <1>2, <1>3, <1>5 DEF Sound
<1>7. \A k \in 1 .. Len(pending'), x \in Events :
          pending'[k].copies > 0 /\ pending'[k].event = x => InTopic(x)'
  BY <1>1, <1>4 DEF Sound
<1>8. \A x \in Events : outcome'[x] = "acked" => InTopic(x)'
  BY <1>4 DEF Sound
<1> QED
  BY <1>1, <1>6, <1>7, <1>8 DEF Sound

LEMMA HandOverSound ==
    ASSUME IInv, Sound, NEW b \in Publishers, HandOver(b)
    PROVE  Sound'
<1>1. TypeOK /\ Held
  BY DEF IInv
<1>2. PICK e \in Events, n \in 1 .. MaxRetries : Accept(e, n)
  BY <1>1, HandsOver
<1>3. /\ Len(pending') = Len(pending) + 1 /\ Len(pending) \in Nat
      /\ pending'[Len(pending) + 1].copies = 0
      /\ \A k \in 1 .. Len(pending) : pending'[k] = pending[k]
      /\ sent' = sent /\ sent \in 0 .. Len(pending) /\ outcome' = outcome
  BY <1>1, <1>2, AcceptEffect DEF TypeOK, HandOver
<1>4. \A d : InTopic(d)' <=> InTopic(d)
  BY <1>1, <1>2, AcceptCalls
<1>5. /\ \A k \in 1 .. Len(pending') :
            pending'[k].copies > 0 => k \in 1 .. Len(pending)
      /\ \A k \in 1 .. sent' : k \in 1 .. Len(pending) /\ k \in 1 .. sent
  BY <1>3
<1> QED
  BY <1>3, <1>4, <1>5 DEF Sound

\* An acknowledgement says of the message at the front that it is written.
LEMMA AckedInTopic ==
    ASSUME TypeOK, Sound, NEW b \in Publishers, WriteAcked(b),
           publisher[b].event \in Events
    PROVE  InTopic(publisher[b].event)
<1>1. /\ pending \in Seq(Message) /\ pending # <<>>
      /\ pending[1].event = publisher[b].event
      /\ sent > 0 /\ sent \in 0 .. Len(pending)
  BY DEF TypeOK, WriteAcked, Waits
<1>2. 1 \in 1 .. sent /\ 1 \in 1 .. Len(pending)
  BY <1>1
<1> QED
  BY <1>1, <1>2 DEF Sound

LEMMA SoundStep == IInv /\ Sound /\ [Next]_vars => Sound'
<1> SUFFICES ASSUME IInv, Sound, [Next]_vars
             PROVE  Sound'
  OBVIOUS
<1>0. TypeOK /\ Held /\ CloserIdle
  BY DEF IInv
<1>1. ASSUME NEW e \in Events, PublishAsync(e)
      PROVE  Sound'
  <2>1. UNCHANGED writerVars
    BY <1>1 DEF PublishAsync
  <2>2. \A x \in Events : outcome'[x] = "acked" => outcome[x] = "acked"
    BY <1>0, <1>1 DEF PublishAsync, TypeOK
  <2> QED
    BY <1>0, <2>1, <2>2, SoundStays DEF writerVars
<1>2. ASSUME NEW b \in Publishers, Settles(b)
      PROVE  Sound'
  <2>1. CASE WriteAcked(b) /\ Settle(b, "acked")
    <3>1. InTopic(publisher[b].event) /\ Finish
      BY <1>0, <1>2, <2>1, AckedInTopic DEF Settles, WriteAcked
    <3>2. \A x \in Events : x # publisher[b].event => outcome'[x] = outcome[x]
      BY <1>0, <2>1 DEF Settle, TypeOK
    <3> QED
      BY <1>0, <3>1, <3>2, FinishSound
  <2>2. CASE /\ Settle(b, "dropped") \/ Settle(b, "abandoned")
             /\ UNCHANGED writerVars
    <3>1. \A x \in Events : outcome'[x] = "acked" => outcome[x] = "acked"
      BY <1>0, <2>2 DEF Settle, TypeOK
    <3> QED
      BY <1>0, <2>2, <3>1, SoundStays DEF writerVars
  <2> QED
    BY <1>2, <2>1, <2>2 DEF Settles
<1>3. ASSUME NEW b \in Publishers, Take(b) \/ MovesOn(b)
      PROVE  Sound'
  <2>1. UNCHANGED writerVars /\ outcome' = outcome
    BY <1>3 DEF Take, MovesOn
  <2> QED
    BY <1>0, <2>1, SoundStays DEF writerVars
<1>4. CASE Library
  <2>1. CASE Repeat
    BY <1>0, <1>4, <2>1, SoundStays DEF Library, Repeat
  <2> QED
    BY <1>0, <1>4, <2>1, SendSound, FinishSound
       DEF Library, WriterSends, WriterRepeats, WriterForgets
<1>5. CASE Elsewhere
  BY <1>0, <1>5, SoundStays DEF Elsewhere, writerVars
<1> QED
  BY <1>0, <1>1, <1>2, <1>3, <1>4, <1>5, StepKinds, HandOverSound

LEMMA InitMessages == Init => Tried /\ Sound
<1> SUFFICES ASSUME Init
             PROVE  Tried /\ Sound
  OBVIOUS
<1>1. Len(topic) = 0 /\ Len(pending) = 0 /\ sent = 0
  BY DEF Init, WriterInit
<1>2. \A x, n : ~Called(x, n)
  BY <1>1 DEF Called
<1> QED
  BY <1>1, <1>2 DEF Init, Tried, Sound

\* No call is made twice, and what counts as written is.
MessageInv == IInv /\ Tried /\ Sound

LEMMA MessageInvCorrect == Spec => []MessageInv
<1>1. MessageInv /\ IInv' /\ [Next]_vars => MessageInv'
  BY TriedStep, SoundStep DEF MessageInv
<1>2. Init => MessageInv
  BY InitIInv, InitMessages DEF MessageInv
<1> QED
  BY <1>1, <1>2, IInvCorrect, PTL DEF Spec

----
\* What Fate makes of the histories.
LEMMA FateOf ==
    ASSUME TypeOK, NEW e \in Events
    PROVE  /\ Pending(e) => Fate[e] = "pending"
           /\ ~Offered(e) => Fate[e] = "new"
           /\ InSeq(e, accepted) => Fate[e] \in {"pending", "published", "lost"}
  BY DEF TypeOK, Fate, Pending, Offered

\* An event that is settled changes its fate, and no other.
LEMMA FateSettled ==
    ASSUME TypeOK, NEW e \in Events, accepted' = accepted, InSeq(e, accepted),
           NEW how \in {"acked", "dropped", "abandoned"},
           outcome' = [outcome EXCEPT ![e] = how]
    PROVE  Fate' = [Fate EXCEPT ![e] = IF how = "acked" THEN "published"
                                                        ELSE "lost"]
<1>1. outcome'[e] = how /\ \A d \in Events : d # e => outcome'[d] = outcome[d]
  BY DEF TypeOK
<1>2. \A d \in Events : InSeq(d, accepted') <=> InSeq(d, accepted)
  OBVIOUS
<1>3. QED
  BY <1>1, <1>2 DEF Fate

\* A step that neither accepts nor settles changes no fate.
LEMMA FateSame ==
    ASSUME accepted' = accepted, outcome' = outcome
    PROVE  Fate' = Fate
  BY DEF Fate

\* An inquiry that comes to publishEvent.
LEMMA OfferImplements ==
    ASSUME TypeOK, NEW e \in Events, PublishAsync(e)
    PROVE  Log!Offer(e)
<1>1. Fate[e] = "new" /\ topic' = topic /\ ~InSeq(e, accepted)
      /\ outcome[e] = "none"
  BY FateOf DEF PublishAsync, writerVars, Offered
<1>2. Written' = Written
  BY <1>1 DEF Written
<1>3. Fate' = [d \in Events |-> Fate'[d]] /\ Fate = [d \in Events |-> Fate[d]]
  BY DEF Fate
<1>4. CASE Len(queue) < QueueDepth
  <2>1. accepted' = Append(accepted, e) /\ outcome' = outcome
    BY <1>4 DEF PublishAsync
  <2>2. \A d : InSeq(d, accepted') <=> InSeq(d, accepted) \/ d = e
    BY <2>1, InSeqAppend DEF TypeOK
  <2>3. \A d \in Events : Fate'[d] = IF d = e THEN "pending" ELSE Fate[d]
    BY <1>1, <2>1, <2>2 DEF Fate
  <2>4. Fate' = [Fate EXCEPT ![e] = "pending"]
    BY <1>3, <2>3
  <2> QED
    BY <1>1, <1>2, <2>4 DEF Log!Offer, Log!Decide
<1>5. CASE ~(Len(queue) < QueueDepth)
  <2>1. accepted' = accepted /\ outcome' = [outcome EXCEPT ![e] = "dropped"]
    BY <1>5 DEF PublishAsync
  <2>2. outcome'[e] = "dropped" /\ \A d \in Events : d # e => outcome'[d] = outcome[d]
    BY <2>1 DEF TypeOK
  <2>3. \A d \in Events : Fate'[d] = IF d = e THEN "refused" ELSE Fate[d]
    BY <1>1, <2>1, <2>2 DEF Fate
  <2>4. Fate' = [Fate EXCEPT ![e] = "refused"]
    BY <1>3, <2>3
  <2> QED
    BY <1>1, <1>2, <2>4 DEF Log!Offer, Log!Decide
<1> QED
  BY <1>4, <1>5

\* The library writes only what was accepted, whatever has become of it.
LEMMA SendImplements ==
    ASSUME IInv, Tried, Send, UNCHANGED <<accepted, outcome>>
    PROVE  \E e \in Events : Log!Write(e)
<1>1. PICK e \in Events, n \in 1 .. MaxRetries :
         e = pending[sent + 1].event /\ Called(e, n)
  BY SendCalls DEF IInv
<1>2. Fate[e] \in {"pending", "published", "lost"}
  BY <1>1, FateOf DEF IInv, Tried
<1>3. /\ Len(topic') = Len(topic) + 1 /\ Len(topic) \in Nat
      /\ topic'[Len(topic) + 1].event = e
      /\ \A i \in 1 .. Len(topic) : topic'[i] = topic[i]
  BY <1>1, SendEffect DEF IInv
<1>4. /\ topic \in Seq(Message)
      /\ \A i \in 1 .. Len(topic) : topic[i].event \in Events
  <2>1. topic \in Seq(Message) /\ \A m \in Message : m.event \in Events
    BY DEF IInv, TypeOK, Message
  <2>2. \A i \in 1 .. Len(topic) : topic[i] \in Message
    BY <2>1
  <2> QED
    BY <2>1, <2>2
<1>5. /\ Written \in Seq(Events) /\ Len(Written) = Len(topic)
      /\ \A i \in 1 .. Len(topic) : Written[i] = topic[i].event
  BY <1>4 DEF Written
<1>6. \A i \in 1 .. Len(topic) + 1 :
         /\ topic'[i].event = IF i = Len(topic) + 1 THEN e ELSE Written[i]
         /\ topic'[i].event \in Events
  <2>1. \A i \in 1 .. Len(topic) + 1 : i = Len(topic) + 1 \/ i \in 1 .. Len(topic)
    BY <1>3
  <2> QED
    BY <1>3, <1>4, <1>5, <2>1
<1>7. /\ Written' \in Seq(Events) /\ Len(Written') = Len(Written) + 1
      /\ \A i \in 1 .. Len(topic) + 1 : Written'[i] = topic'[i].event
  BY <1>3, <1>5, <1>6 DEF Written
<1>8. Written' = Append(Written, e)
  <2> DEFINE w == Append(Written, e)
  <2>1. /\ w \in Seq(Events) /\ Len(w) = Len(Written) + 1
        /\ \A i \in 1 .. Len(Written) + 1 :
              w[i] = IF i = Len(Written) + 1 THEN e ELSE Written[i]
    BY <1>5
  <2> HIDE DEF w
  <2> SUFFICES Written' = w
    BY DEF w
  <2> QED
    BY <1>5, <1>6, <1>7, <2>1, SeqEqual
<1> QED
  BY <1>1, <1>2, <1>8, FateSame DEF Log!Write

\* An acknowledgement, of what is in the topic by then, and a call that fails
\* for the last time or is not repeated.
LEMMA SettleImplements ==
    ASSUME IInv, Sound, NEW b \in Publishers, Settles(b)
    PROVE  \E e \in Events : Log!Publish(e) \/ Log!Lose(e)
<1> DEFINE e == publisher[b].event
<1>1. /\ e \in Events /\ Pending(e) /\ InSeq(e, accepted)
      /\ Fate[e] = "pending" /\ accepted' = accepted /\ TypeOK
  BY FateOf DEF Settles, IInv, Held, Pending
<1>2. CASE WriteAcked(b) /\ Settle(b, "acked")
  <2>1. Fate' = [Fate EXCEPT ![e] = "published"]
    BY <1>1, <1>2, FateSettled DEF Settle
  <2>2. InTopic(e) /\ topic' = topic
    BY <1>1, <1>2, AckedInTopic DEF WriteAcked, Finish
  <2>3. Written' = Written /\ \E i \in 1 .. Len(Written) : Written[i] = e
    <3>1. Len(Written) = Len(topic) /\ \A i \in 1 .. Len(topic) : Written[i] = topic[i].event
      BY DEF Written, IInv, TypeOK
    <3> QED
      BY <2>2, <3>1 DEF InTopic, Written
  <2> QED
    BY <1>1, <2>1, <2>3 DEF Log!Publish, Log!Decide
<1>3. CASE /\ Settle(b, "dropped") \/ Settle(b, "abandoned")
           /\ UNCHANGED writerVars
  <2>1. Fate' = [Fate EXCEPT ![e] = "lost"]
    BY <1>1, <1>3, FateSettled DEF Settle
  <2>2. Written' = Written
    BY <1>3 DEF writerVars, Written
  <2> QED
    BY <1>1, <2>1, <2>2 DEF Log!Lose, Log!Decide
<1> QED
  BY <1>2, <1>3 DEF Settles

\* Every step of the producer is a step of EventLog, or none.
LEMMA StepImplements == MessageInv /\ [Next]_vars => [Log!Next]_<<Written, Fate>>
<1> SUFFICES ASSUME MessageInv, [Next]_vars
             PROVE  Log!Next \/ UNCHANGED <<Written, Fate>>
  OBVIOUS
<1>0. IInv /\ Tried /\ Sound /\ TypeOK /\ Held /\ CloserIdle
  BY DEF MessageInv, IInv
<1>1. ASSUME UNCHANGED <<topic, accepted, outcome>>
      PROVE  UNCHANGED <<Written, Fate>>
  BY <1>1, FateSame DEF Written
<1>2. ASSUME NEW b \in Publishers, Take(b) \/ HandOver(b) \/ MovesOn(b)
      PROVE  UNCHANGED <<Written, Fate>>
  BY <1>1, <1>2 DEF Take, HandOver, Accept, MovesOn, writerVars
<1>3. CASE Library
  BY <1>0, <1>1, <1>3, SendImplements
     DEF Library, WriterSends, WriterRepeats, WriterForgets, Repeat, Finish,
         Log!Next
<1>4. CASE Elsewhere
  BY <1>1, <1>4 DEF Elsewhere, writerVars
<1> QED
  BY <1>0, <1>2, <1>3, <1>4, StepKinds, OfferImplements, SettleImplements
     DEF Log!Next

LEMMA InitImplements == Init => Log!Init
<1> SUFFICES ASSUME Init
             PROVE  Written = <<>> /\ Fate = [e \in Events |-> "new"]
  BY DEF Log!Init
<1>1. Written = <<>>
  BY DEF Init, WriterInit, Written
<1>2. Fate = [e \in Events |-> "new"]
  BY DEF Init, Fate, InSeq
<1> QED
  BY <1>1, <1>2

\* The producer implements EventLog: whatever the goroutines, the shutdown
\* and what calls left with the library do, an event that was not accepted is
\* not written, one that counts as published is, and no fate changes twice.
THEOREM LogCorrect == Spec => ImplementsEventLog
<1>1. QED
  BY MessageInvCorrect, InitImplements, StepImplements, PTL
     DEF Spec, ImplementsEventLog, Log!Spec, Log!vars

----
(* The order of the topic, until a shutdown starts.  There is one          *)
(* publisher then, and what is written, left with the library, in work and *)
(* in the queue is in line.                                                *)

\* x was accepted before y, or is y.
Before(x, y) ==
    \A m, n \in 1 .. Len(accepted) :
       accepted[m] = x /\ accepted[n] = y => m <= n

InWork(x) == \E b \in Publishers : Holds(b, x)

AcceptedOnce ==
    \A m, n \in 1 .. Len(accepted) : accepted[m] = accepted[n] => m = n

QueueInLine ==
    /\ \A i, j \in 1 .. Len(queue), x, y \in Events :
          i < j /\ queue[i] = x /\ queue[j] = y => Before(x, y)
    /\ \A x, y \in Events : InWork(x) /\ InSeq(y, queue) => Before(x, y)

\* Calls were made for events before those in work and in the queue.
CallsInLine ==
    \A x, y \in Events, n \in 1 .. MaxRetries :
       Called(x, n) /\ (InWork(y) \/ InSeq(y, queue)) => Before(x, y)

\* The library has its messages in order, and one that is not written yet
\* comes after everything in the topic.
PendingInLine ==
    /\ \A k, l \in 1 .. Len(pending), x, y \in Events :
          k < l /\ pending[k].event = x /\ pending[l].event = y => Before(x, y)
    /\ \A k \in 1 .. Len(pending), x, y \in Events :
          pending[k].event = y /\ pending[k].copies = 0 /\ InTopic(x) => Before(x, y)

\* What was accepted before an event of the topic and is there, is there
\* before that event.
TopicInLine ==
    \A j \in 1 .. Len(topic), x, y \in Events :
       topic[j].event = y /\ InTopic(x) => Before(y, x) \/ InTopicBefore(x, j)

InLine == /\ AcceptedOnce /\ QueueInLine /\ CallsInLine
          /\ PendingInLine /\ TopicInLine

LEMMA BeforeSame ==
    ASSUME accepted' = accepted
    PROVE  \A x, y : Before(x, y)' <=> Before(x, y)
  BY DEF Before

LEMMA BeforeSelf ==
    ASSUME TypeOK, AcceptedOnce
    PROVE  \A x : Before(x, x)
<1>1. \A m, n \in 1 .. Len(accepted) : m = n => m <= n
  BY DEF TypeOK
<1> QED
  BY <1>1 DEF AcceptedOnce, Before

\* Every message is of a call.
LEMMA MessagesCalled ==
    ASSUME TypeOK
    PROVE  /\ \A x \in Events : InTopic(x) => \E n \in 1 .. MaxRetries : Called(x, n)
           /\ \A k \in 1 .. Len(pending), x \in Events : pending[k].event = x
                 => \E n \in 1 .. MaxRetries : Called(x, n)
<1>1. /\ topic \in Seq(Message) /\ pending \in Seq(Message)
      /\ \A m \in Message : m.attempt \in 1 .. MaxRetries
  BY DEF TypeOK, Message
<1>2. /\ \A i \in 1 .. Len(topic) : topic[i] \in Message
      /\ \A k \in 1 .. Len(pending) : pending[k] \in Message
  BY <1>1
<1> QED
  BY <1>1, <1>2 DEF InTopic, Called

\* Only a shutdown leads main on.
Running == main # "waiting" => groupDone

LEMMA RunningStep == Running /\ [Next]_vars => Running'
<1> SUFFICES ASSUME Running, [Next]_vars
             PROVE  Running'
  OBVIOUS
<1>1. ASSUME UNCHANGED <<main, groupDone>>
      PROVE  Running'
  BY <1>1 DEF Running
<1>2. ASSUME NEW b \in Publishers, Publish(b) \/ Expire(b)
      PROVE  UNCHANGED <<main, groupDone>>
  BY <1>2 DEF Publish, Take, HandOver, WriteAcked, WriteFails, Retry, GiveUp,
              EndDrain, StartDrain, Expire, process
<1>3. CASE Library \/ UNCHANGED vars \/ \E e \in Events : PublishAsync(e)
  BY <1>1, <1>3 DEF Library, vars, PublishAsync, process
<1>4. CASE Signal \/ GroupFails \/ Main
  BY <1>4 DEF Running, Signal, GroupFails, Main, Close, CloseWriter, Exit
<1> QED
  BY <1>1, <1>2, <1>3, <1>4 DEF Next

LEMMA NeverUndone == groupDone /\ [Next]_vars => groupDone'
<1> SUFFICES ASSUME groupDone, [Next]_vars
             PROVE  groupDone'
  OBVIOUS
<1>1. ASSUME NEW b \in Publishers, Publish(b) \/ Expire(b)
      PROVE  groupDone'
  BY <1>1 DEF Publish, Take, HandOver, WriteAcked, WriteFails, Retry, GiveUp,
              EndDrain, StartDrain, Expire, process
<1>2. CASE Library \/ UNCHANGED vars \/ \E e \in Events : PublishAsync(e)
  BY <1>2 DEF Library, vars, PublishAsync, process
<1>3. CASE Signal \/ GroupFails \/ Main
  BY <1>3 DEF Signal, GroupFails, Main, Close, CloseWriter, Exit
<1> QED
  BY <1>1, <1>2, <1>3 DEF Next

\* Nobody holds an event but the one who writes it.
LEMMA Alone ==
    ASSUME IInv, Running, ~groupDone, NEW b \in Publishers, NEW c \in Publishers,
           publisher[b].event \in Events, publisher[c].event \in Events
    PROVE  b = c
<1>1. publisher["closer"].at = "idle" /\ "closer" \in Publishers
  BY DEF Running, IInv, CloserIdle, Publishers
<1>2. publisher["closer"].event \notin Events
  BY <1>1 DEF IInv, Held, Publishing
<1> QED
  BY <1>2 DEF Publishers

\* A step that neither accepts, takes, calls nor writes.
LEMMA LineStays ==
    ASSUME TypeOK, InLine, UNCHANGED <<accepted, queue, topic>>,
           pending' = pending \/ Finish,
           \A x \in Events : InWork(x)' => InWork(x)
    PROVE  InLine'
<1>1. \A x, y : Before(x, y)' <=> Before(x, y)
  BY BeforeSame
<1>2. /\ \A x, n : Called(x, n)' => Called(x, n)
      /\ \A x : InTopic(x)' <=> InTopic(x)
      /\ \A x : InSeq(x, queue)' <=> InSeq(x, queue)
      /\ \A x, j : InTopicBefore(x, j)' <=> InTopicBefore(x, j)
  BY SameCalls, FinishCalls DEF InSeq, InTopicBefore
<1>3. AcceptedOnce'
  BY DEF InLine, AcceptedOnce
<1>4. QueueInLine' /\ CallsInLine'
  BY <1>1, <1>2 DEF InLine, QueueInLine, CallsInLine
<1>5. TopicInLine'
  BY <1>1, <1>2 DEF InLine, TopicInLine
<1>6. PendingInLine'
  <2>1. CASE pending' = pending
    BY <1>1, <1>2, <2>1 DEF InLine, PendingInLine
  <2>2. CASE Finish
    <3>1. /\ Len(pending') = Len(pending) - 1 /\ Len(pending) \in Nat \ {0}
          /\ \A k \in 1 .. Len(pending') : pending'[k] = pending[k + 1]
      BY <2>2, FinishEffect
    <3>2. /\ \A k \in 1 .. Len(pending') : k + 1 \in 1 .. Len(pending)
          /\ \A k, l \in 1 .. Len(pending') : k < l => k + 1 < l + 1
      BY <3>1
    <3> QED
      BY <1>1, <1>2, <3>1, <3>2 DEF InLine, PendingInLine
  <2> QED
    BY <2>1, <2>2
<1> QED
  BY <1>3, <1>4, <1>5, <1>6 DEF InLine

\* What comes last is after everything.
LEMMA BeforeAppended ==
    ASSUME TypeOK, NEW e \in Events, ~InSeq(e, accepted),
           accepted' = Append(accepted, e)
    PROVE  /\ \A x : Before(x, e)'
           /\ \A x, y : Before(x, y) /\ InSeq(x, accepted) => Before(x, y)'
           /\ AcceptedOnce => AcceptedOnce'
<1>1. /\ Len(accepted) \in Nat /\ Len(accepted') = Len(accepted) + 1
      /\ accepted'[Len(accepted) + 1] = e
      /\ \A m \in 1 .. Len(accepted) : accepted'[m] = accepted[m]
      /\ \A m \in 1 .. Len(accepted) : accepted[m] # e
  BY DEF TypeOK, InSeq
<1>2. \A x : Before(x, e)'
  BY <1>1 DEF Before
<1>3. ASSUME NEW x, NEW y, Before(x, y), InSeq(x, accepted)
      PROVE  Before(x, y)'
  <2> SUFFICES ASSUME NEW m \in 1 .. Len(accepted'),
                      NEW n \in 1 .. Len(accepted'),
                      accepted'[m] = x, accepted'[n] = y
               PROVE  m <= n
    BY DEF Before
  <2>1. m \in 1 .. Len(accepted) /\ accepted[m] = x
    BY <1>1, <1>3
  <2>2. CASE n = Len(accepted) + 1
    BY <1>1, <2>1, <2>2
  <2>3. CASE n # Len(accepted) + 1
    <3>1. n \in 1 .. Len(accepted) /\ accepted[n] = y
      BY <1>1, <2>3
    <3> QED
      BY <1>3, <2>1, <3>1 DEF Before
  <2> QED
    BY <2>2, <2>3
<1>4. AcceptedOnce => AcceptedOnce'
  BY <1>1 DEF AcceptedOnce
<1> QED
  BY <1>2, <1>3, <1>4

LEMMA AcceptKeepsLine ==
    ASSUME IInv, Tried, InLine, NEW e \in Events, PublishAsync(e)
    PROVE  InLine'
<1>1. /\ publisher' = publisher /\ pending' = pending /\ topic' = topic
      /\ ~InSeq(e, accepted) /\ TypeOK
  BY DEF PublishAsync, Offered, writerVars, IInv
<1>2. /\ \A x : InWork(x)' <=> InWork(x)
      /\ \A x, n : Called(x, n)' <=> Called(x, n)
      /\ \A x : InTopic(x)' <=> InTopic(x)
      /\ \A x, j : InTopicBefore(x, j)' <=> InTopicBefore(x, j)
  BY <1>1, SameCalls DEF InWork, Holds, InTopicBefore
<1>3. CASE Len(queue) < QueueDepth
  <2>1. queue' = Append(queue, e) /\ accepted' = Append(accepted, e)
    BY <1>3 DEF PublishAsync
  <2>2. /\ \A x : Before(x, e)'
        /\ \A x, y : Before(x, y) /\ InSeq(x, accepted) => Before(x, y)'
        /\ AcceptedOnce'
    BY <1>1, <2>1, BeforeAppended DEF InLine
  <2>3. /\ Len(queue) \in Nat /\ Len(queue') = Len(queue) + 1
        /\ queue'[Len(queue) + 1] = e
        /\ \A j \in 1 .. Len(queue) : queue'[j] = queue[j]
    BY <1>1, <2>1 DEF TypeOK
  <2>4. \A x : InSeq(x, queue)' <=> InSeq(x, queue) \/ x = e
    <3>1. queue \in Seq(Events)
      BY <1>1 DEF TypeOK
    <3>2. \A x : InSeq(x, Append(queue, e)) <=> InSeq(x, queue) \/ x = e
      BY <3>1, InSeqAppend
    <3> QED
      BY <2>1, <3>2 DEF InSeq
  <2>5. /\ \A x \in Events, n \in 1 .. MaxRetries : Called(x, n) => InSeq(x, accepted)
        /\ \A x \in Events : InTopic(x) => InSeq(x, accepted)
        /\ \A k \in 1 .. Len(pending), x \in Events :
              pending[k].event = x => InSeq(x, accepted)
    BY <1>1, MessagesCalled DEF Tried
  <2>6. /\ \A x \in Events : InWork(x) => InSeq(x, accepted)
        /\ \A i \in 1 .. Len(queue) : InSeq(queue[i], accepted)
    BY DEF InWork, Holds, IInv, Held, Queued, Pending
  <2>7. CallsInLine'
    BY <1>2, <2>2, <2>4, <2>5 DEF InLine, CallsInLine
  <2>8. PendingInLine'
    BY <1>1, <1>2, <2>2, <2>5 DEF InLine, PendingInLine
  <2>9. TopicInLine'
    <3>1. \A j \in 1 .. Len(topic), y \in Events : topic[j].event = y => InTopic(y)
      BY DEF InTopic
    <3> QED
      BY <1>1, <1>2, <2>2, <2>5, <3>1 DEF InLine, TopicInLine
  <2>10. QueueInLine'
    <3>1. ASSUME NEW i \in 1 .. Len(queue'), NEW j \in 1 .. Len(queue'), i < j,
                 NEW x \in Events, NEW y \in Events, queue'[i] = x, queue'[j] = y
          PROVE  Before(x, y)'
      <4>1. i \in 1 .. Len(queue) /\ queue[i] = x
        BY <2>3, <3>1
      <4>2. CASE j = Len(queue) + 1
        BY <2>2, <2>3, <3>1, <4>2
      <4>3. CASE j # Len(queue) + 1
        <5>1. j \in 1 .. Len(queue) /\ queue[j] = y
          BY <2>3, <3>1, <4>3
        <5> QED
          BY <2>2, <2>6, <3>1, <4>1, <5>1 DEF InLine, QueueInLine
      <4> QED
        BY <4>2, <4>3
    <3>2. \A x, y \in Events : InWork(x)' /\ InSeq(y, queue)' => Before(x, y)'
      BY <1>2, <2>2, <2>4, <2>6 DEF InLine, QueueInLine
    <3> QED
      BY <3>1, <3>2 DEF QueueInLine
  <2> QED
    BY <2>2, <2>7, <2>8, <2>9, <2>10 DEF InLine
<1>4. CASE ~(Len(queue) < QueueDepth)
  <2>1. UNCHANGED <<accepted, queue>>
    BY <1>4 DEF PublishAsync
  <2> QED
    BY <1>1, <1>2, <2>1, LineStays
<1> QED
  BY <1>3, <1>4

LEMMA TakeKeepsLine ==
    ASSUME IInv, Running, ~groupDone, InLine, NEW b \in Publishers, Take(b)
    PROVE  InLine'
<1>1. /\ publisher'[b].event = queue[1] /\ queue[1] \in Events
      /\ \A c \in Publishers : c # b => publisher'[c] = publisher[c]
      /\ Len(queue) \in Nat \ {0} /\ Len(queue') = Len(queue) - 1
      /\ \A i \in 1 .. Len(queue') : queue'[i] = queue[i + 1]
      /\ UNCHANGED <<accepted, pending, topic>> /\ TypeOK
  BY TakeEffect DEF IInv, Take, writerVars
<1>2. /\ 1 \in 1 .. Len(queue)
      /\ \A i \in 1 .. Len(queue') : i + 1 \in 1 .. Len(queue) /\ 1 < i + 1
      /\ \A i, j \in 1 .. Len(queue') : i < j => i + 1 < j + 1
  BY <1>1
<1>3. \A x, y : Before(x, y)' <=> Before(x, y)
  BY <1>1, BeforeSame
<1>4. /\ \A x, n : Called(x, n)' <=> Called(x, n)
      /\ \A x : InTopic(x)' <=> InTopic(x)
      /\ \A x, j : InTopicBefore(x, j)' <=> InTopicBefore(x, j)
  BY <1>1, SameCalls DEF InTopicBefore
<1>5. \A x \in Events : InSeq(x, queue)' =>
         \E i \in 1 .. Len(queue) : 1 < i /\ queue[i] = x
  BY <1>1, <1>2 DEF InSeq
<1>6. \A x \in Events : InWork(x)' => x = queue[1]
  <2>1. ~Publishing(b) /\ publisher["closer"].at = "idle" /\ "closer" \in Publishers
    BY DEF Take, Publishing, Running, IInv, CloserIdle, Publishers
  <2>2. \A c \in Publishers : publisher[c].event \notin Events
    BY <2>1 DEF IInv, Held, Publishing, Publishers, Take
  <2> QED
    BY <1>1, <2>2 DEF InWork, Holds
<1>7. AcceptedOnce'
  BY <1>1 DEF InLine, AcceptedOnce
<1>8. CallsInLine'
  BY <1>2, <1>3, <1>4, <1>5, <1>6 DEF InLine, CallsInLine, InSeq
<1>9. PendingInLine' /\ TopicInLine'
  BY <1>1, <1>3, <1>4 DEF InLine, PendingInLine, TopicInLine
<1>10. QueueInLine'
  <2>1. \A x, y \in Events : InWork(x)' /\ InSeq(y, queue)' => Before(x, y)'
    BY <1>1, <1>2, <1>3, <1>5, <1>6 DEF InLine, QueueInLine
  <2>2. \A i, j \in 1 .. Len(queue'), x, y \in Events :
           i < j /\ queue'[i] = x /\ queue'[j] = y => Before(x, y)'
    <3> SUFFICES ASSUME NEW i \in 1 .. Len(queue'), NEW j \in 1 .. Len(queue'),
                        NEW x \in Events, NEW y \in Events,
                        i < j, queue'[i] = x, queue'[j] = y
                 PROVE  Before(x, y)
      BY <1>3
    <3>1. /\ i + 1 \in 1 .. Len(queue) /\ queue[i + 1] = x
          /\ j + 1 \in 1 .. Len(queue) /\ queue[j + 1] = y
          /\ i + 1 < j + 1
      BY <1>1, <1>2
    <3> QED
      BY <3>1 DEF InLine, QueueInLine
  <2> QED
    BY <2>1, <2>2 DEF QueueInLine
<1> QED
  BY <1>7, <1>8, <1>9, <1>10 DEF InLine

\* b hands its event over, behind everything it handed over before.
LEMMA HandOverKeepsLine ==
    ASSUME IInv, Running, ~groupDone, InLine, NEW b \in Publishers, HandOver(b)
    PROVE  InLine'
<1>0. TypeOK /\ Held /\ Moves(b) /\ UNCHANGED <<queue, accepted>>
  BY HandOverMoves DEF IInv, HandOver
<1>1. PICK e \in Events, n \in 1 .. MaxRetries :
         Holds(b, e) /\ Accept(e, n)
  BY <1>0, HandsOver DEF Holds
<1>2. /\ Len(pending') = Len(pending) + 1 /\ Len(pending) \in Nat
      /\ pending'[Len(pending) + 1].event = e
      /\ \A k \in 1 .. Len(pending) : pending'[k] = pending[k]
      /\ topic' = topic
  BY <1>0, <1>1, AcceptEffect
<1>3. /\ \A d, m : Called(d, m)' <=> Called(d, m) \/ (d = e /\ m = n)
      /\ \A d : InTopic(d)' <=> InTopic(d)
      /\ \A x, j : InTopicBefore(x, j)' <=> InTopicBefore(x, j)
  BY <1>0, <1>1, <1>2, AcceptCalls DEF InTopicBefore
<1>4. \A x, y : Before(x, y)' <=> Before(x, y)
  BY <1>0, BeforeSame
<1>5. /\ \A x : InWork(x)' <=> InWork(x)
      /\ \A x : InSeq(x, queue)' <=> InSeq(x, queue)
  BY <1>0 DEF InWork, Holds, Moves, InSeq
<1>6. InWork(e) /\ \A x \in Events : InWork(x) => x = e
  BY <1>1, Alone DEF InWork, Holds
<1>7. \A x : Before(x, x)
  BY <1>0, BeforeSelf DEF InLine
<1>8. /\ \A x \in Events : InTopic(x) => Before(x, e)
      /\ \A k \in 1 .. Len(pending), x \in Events : pending[k].event = x => Before(x, e)
  BY <1>0, <1>6, MessagesCalled DEF InLine, CallsInLine
<1>9. AcceptedOnce' /\ QueueInLine'
  BY <1>0, <1>4, <1>5 DEF InLine, AcceptedOnce, QueueInLine
<1>10. CallsInLine'
  <2> SUFFICES ASSUME NEW x \in Events, NEW y \in Events, NEW m \in 1 .. MaxRetries,
                      Called(x, m) \/ x = e, InWork(y) \/ InSeq(y, queue)
               PROVE  Before(x, y)
    BY <1>3, <1>4, <1>5 DEF CallsInLine
  <2> QED
    BY <1>6, <1>7 DEF InLine, CallsInLine, QueueInLine
<1>11. TopicInLine'
  BY <1>2, <1>3, <1>4 DEF InLine, TopicInLine
<1>12. PendingInLine'
  <2>1. \A k \in 1 .. Len(pending') : k = Len(pending) + 1 \/ k \in 1 .. Len(pending)
    BY <1>2
  <2>2. ASSUME NEW k \in 1 .. Len(pending'), NEW l \in 1 .. Len(pending'), k < l,
               NEW x \in Events, NEW y \in Events,
               pending'[k].event = x, pending'[l].event = y
        PROVE  Before(x, y)
    <3>1. k \in 1 .. Len(pending) /\ pending[k].event = x
      BY <1>2, <2>2
    <3>2. CASE l = Len(pending) + 1
      BY <1>2, <1>8, <2>2, <3>1, <3>2
    <3>3. CASE l \in 1 .. Len(pending)
      BY <1>2, <2>2, <3>1, <3>3 DEF InLine, PendingInLine
    <3> QED
      BY <2>1, <3>2, <3>3
  <2>3. ASSUME NEW k \in 1 .. Len(pending'), NEW x \in Events, NEW y \in Events,
               pending'[k].event = y, pending'[k].copies = 0, InTopic(x)
        PROVE  Before(x, y)
    BY <1>2, <1>8, <2>1, <2>3 DEF InLine, PendingInLine
  <2> QED
    BY <1>3, <1>4, <2>2, <2>3 DEF PendingInLine
<1> QED
  BY <1>9, <1>10, <1>11, <1>12 DEF InLine

\* The library writes its next message: for the first time only if all that
\* is in the topic was accepted before.
LEMMA SendKeepsLine ==
    ASSUME IInv, Sound, InLine, Send, UNCHANGED <<queue, publisher, accepted>>
    PROVE  InLine'
<1> DEFINE p == sent + 1
<1>0. TypeOK
  BY DEF IInv
<1>t. PICK t : t = Len(topic) + 1
  OBVIOUS
<1>1. PICK e \in Events : e = pending[p].event
  BY <1>0, SendCalls
<1>2. /\ Len(pending') = Len(pending) /\ p \in 1 .. Len(pending)
      /\ pending'[p].event = e /\ pending'[p].copies > 0
      /\ \A k \in 1 .. Len(pending) : k # p => pending'[k] = pending[k]
      /\ Len(topic') = t /\ Len(topic) \in Nat /\ sent \in Nat
      /\ t = Len(topic) + 1
      /\ topic'[t].event = e
      /\ \A i \in 1 .. Len(topic) : topic'[i] = topic[i]
      /\ pending[p].copies \in Nat
  <2>1. pending[p].copies \in Nat
    BY <1>0, SendEffect, ProducerAssumption DEF Message
  <2> QED
    BY <1>0, <1>1, <1>t, <2>1, SendEffect
<1>3. /\ \A d, m : Called(d, m)' <=> Called(d, m)
      /\ \A d : InTopic(d)' <=> InTopic(d) \/ d = e
  BY <1>0, <1>1, SendCalls
<1>4. /\ \A x, y : Before(x, y)' <=> Before(x, y)
      /\ \A x : InWork(x)' <=> InWork(x)
      /\ \A x : InSeq(x, queue)' <=> InSeq(x, queue)
  BY BeforeSame DEF InWork, Holds, InSeq
<1>5. \A k \in 1 .. Len(pending) : pending[k].copies = 0 => p <= k
  <2>1. \A k \in 1 .. Len(pending) : k \in 1 .. sent \/ p <= k
    BY <1>2
  <2> QED
    BY <2>1 DEF Sound
<1>6. \A k \in 1 .. Len(pending) : pending'[k].event = pending[k].event
  BY <1>1, <1>2
<1>7. AcceptedOnce' /\ QueueInLine' /\ CallsInLine'
  BY <1>3, <1>4 DEF InLine, AcceptedOnce, QueueInLine, CallsInLine
<1>8. PendingInLine'
  <2>1. ASSUME NEW k \in 1 .. Len(pending'), NEW x \in Events, NEW y \in Events,
               pending'[k].event = y, pending'[k].copies = 0, InTopic(x)'
        PROVE  Before(x, y)
    <3>1. k # p
      BY <1>2, <2>1
    <3>2. /\ k \in 1 .. Len(pending) /\ pending[k].event = y
          /\ pending[k].copies = 0 /\ p <= k
      BY <1>2, <1>5, <2>1, <3>1
    <3>3. CASE InTopic(x)
      BY <3>2, <3>3 DEF InLine, PendingInLine
    <3>4. CASE x = e
      <4>1. p < k
        BY <1>2, <3>1, <3>2
      <4> QED
        BY <1>1, <1>2, <3>2, <3>4, <4>1 DEF InLine, PendingInLine
    <3> QED
      BY <1>3, <2>1, <3>3, <3>4
  <2> HIDE DEF p
  <2>2. \A k, l \in 1 .. Len(pending'), x, y \in Events :
           k < l /\ pending'[k].event = x /\ pending'[l].event = y => Before(x, y)
    BY <1>2, <1>6 DEF InLine, PendingInLine
  <2> QED
    BY <1>4, <2>1, <2>2 DEF PendingInLine
<1>9. TopicInLine'
  <2>1. ASSUME NEW x, NEW j \in 1 .. Len(topic), InTopicBefore(x, j)
        PROVE  InTopicBefore(x, j)'
    <3>1. \A i \in 1 .. j - 1 : i \in 1 .. Len(topic)
      BY <1>2
    <3> QED
      BY <1>2, <2>1, <3>1 DEF InTopicBefore
  <2>2. ASSUME NEW x, InTopic(x)
        PROVE  InTopicBefore(x, t)'
    <3>1. \A i \in 1 .. Len(topic) : i \in 1 .. t - 1
      BY <1>2
    <3> QED
      BY <1>2, <2>2, <3>1 DEF InTopic, InTopicBefore
  <2>3. ASSUME NEW j \in 1 .. Len(topic), NEW y \in Events, topic[j].event = y
        PROVE  Before(y, e) \/ InTopicBefore(e, j)
    <3>1. InTopic(y)
      BY <2>3 DEF InTopic
    <3>2. CASE InTopic(e)
      BY <2>3, <3>2 DEF InLine, TopicInLine
    <3>3. CASE ~InTopic(e)
      <4>1. pending[p].copies = 0
        BY <1>1, <1>2, <3>3 DEF Sound
      <4> QED
        BY <1>1, <1>2, <3>1, <4>1 DEF InLine, PendingInLine
    <3> QED
      BY <3>2, <3>3
  <2>4. Before(e, e)
    BY <1>0, BeforeSelf DEF InLine
  <2> SUFFICES ASSUME NEW j \in 1 .. Len(topic'), NEW x \in Events,
                      NEW y \in Events, topic'[j].event = y, InTopic(x) \/ x = e
               PROVE  Before(y, x) \/ InTopicBefore(x, j)'
    BY <1>3, <1>4 DEF TopicInLine
  <2> HIDE DEF p
  <2>5. CASE j = t
    <3>1. y = e
      BY <1>2, <2>5
    <3> QED
      BY <2>2, <2>4, <2>5, <3>1
  <2>6. CASE j # t
    <3>1. j \in 1 .. Len(topic) /\ topic[j].event = y
      BY <1>2, <2>6
    <3> QED
      BY <2>1, <2>3, <3>1 DEF InLine, TopicInLine
  <2> QED
    BY <2>5, <2>6
<1> QED
  BY <1>7, <1>8, <1>9 DEF InLine

LEMMA InLineStep ==
    MessageInv /\ Running /\ (groupDone \/ InLine) /\ [Next]_vars
       => (groupDone \/ InLine)'
<1> SUFFICES ASSUME MessageInv, Running, groupDone \/ InLine, [Next]_vars,
                    ~groupDone'
             PROVE  InLine'
  OBVIOUS
<1>0. /\ ~groupDone /\ InLine
      /\ IInv /\ Tried /\ Sound /\ TypeOK /\ Held /\ CloserIdle
  BY NeverUndone DEF MessageInv, IInv
<1>1. ASSUME NEW b \in Publishers, Settles(b)
      PROVE  InLine'
  <2>1. \A x \in Events : InWork(x)' => InWork(x)
    <3>1. /\ publisher'[b].event = "none"
          /\ \A c \in Publishers : c # b => publisher'[c] = publisher[c]
      BY <1>0, <1>1, SettleEffect DEF Settles
    <3> QED
      BY <3>1, ProducerAssumption DEF InWork, Holds
  <2>2. /\ UNCHANGED <<accepted, queue, topic>>
        /\ pending' = pending \/ Finish
    BY <1>1 DEF Settles, WriteAcked, Finish, writerVars
  <2> QED
    BY <1>0, <2>1, <2>2, LineStays
<1>2. ASSUME NEW b \in Publishers, MovesOn(b)
      PROVE  InLine'
  <2>1. \A x \in Events : InWork(x)' => InWork(x)
    BY <1>2 DEF MovesOn, Moves, InWork, Holds
  <2> QED
    BY <1>0, <1>2, <2>1, LineStays DEF MovesOn, writerVars
<1>3. CASE Library
  <2>1. UNCHANGED <<queue, publisher, accepted>>
    BY <1>3 DEF Library
  <2>2. \A x \in Events : InWork(x)' => InWork(x)
    BY <2>1 DEF InWork, Holds
  <2>3. CASE Repeat \/ Finish
    BY <1>0, <2>1, <2>2, <2>3, LineStays DEF Repeat, Finish
  <2> QED
    BY <1>0, <1>3, <2>1, <2>3, SendKeepsLine
       DEF Library, WriterSends, WriterRepeats, WriterForgets
<1>4. CASE Elsewhere
  <2>1. \A x \in Events : InWork(x)' => InWork(x)
    BY <1>4 DEF Elsewhere, InWork, Holds
  <2> QED
    BY <1>0, <1>4, <2>1, LineStays DEF Elsewhere, writerVars
<1> QED
  BY <1>0, <1>1, <1>2, <1>3, <1>4, StepKinds, AcceptKeepsLine, TakeKeepsLine,
     HandOverKeepsLine

LEMMA CopiesInTopic ==
    ASSUME TypeOK, NEW e
    PROVE  Copies(e) > 0 <=> InTopic(e)
<1> DEFINE copies == {i \in 1 .. Len(topic) : topic[i].event = e}
<1>1. IsFiniteSet(copies)
  <2>1. IsFiniteSet(1 .. Len(topic))
    BY FS_Interval DEF TypeOK
  <2> QED
    BY <2>1, FS_Subset
<1>2. Cardinality(copies) \in Nat /\ (Cardinality(copies) = 0 <=> copies = {})
  BY <1>1, FS_CardinalityType, FS_EmptySet
<1>3. copies # {} <=> InTopic(e)
  BY DEF InTopic
<1> HIDE DEF copies
<1>4. Cardinality(copies) > 0 <=> InTopic(e)
  BY <1>2, <1>3
<1> QED
  BY <1>4 DEF Copies, copies

\* PublishAsync, Start and publish: as long as nothing shuts down, events
\* come into the topic in the order in which inquiries ended, whatever fails,
\* is left with the library or written again.
THEOREM OrderCorrect == Spec => []InOrder
<1>1. Init => Running /\ InLine
  <2> SUFFICES ASSUME Init
               PROVE  Running /\ InLine
    OBVIOUS
  <2>1. Len(topic) = 0 /\ Len(pending) = 0 /\ Len(queue) = 0 /\ Len(accepted) = 0
    BY DEF Init, WriterInit
  <2>2. /\ \A x, n : ~Called(x, n)
        /\ \A x : ~InTopic(x) /\ ~InSeq(x, queue)
    BY <2>1 DEF Called, InTopic, InSeq
  <2> QED
    BY <2>1, <2>2 DEF Init, Running, InLine, AcceptedOnce, QueueInLine,
       CallsInLine, PendingInLine, TopicInLine
<1>2. MessageInv /\ (groupDone \/ InLine) => InOrder
  <2> SUFFICES ASSUME MessageInv, InLine, NEW j \in 1 .. Len(topic),
                      NEW m \in 1 .. Len(accepted), NEW n \in 1 .. Len(accepted),
                      m < n, topic[j].event = accepted[n], Copies(accepted[m]) > 0
               PROVE  InTopicBefore(accepted[m], j)
    BY DEF InOrder
  <2>1. TypeOK /\ accepted[m] \in Events /\ accepted[n] \in Events
    BY DEF MessageInv, IInv, TypeOK
  <2>2. InTopic(accepted[m])
    BY <2>1, CopiesInTopic
  <2>3. ~Before(accepted[n], accepted[m])
    <3>1. ~(n <= m)
      BY <2>1 DEF TypeOK
    <3> QED
      BY <3>1 DEF Before
  <2> QED
    BY <2>1, <2>2, <2>3 DEF InLine, TopicInLine
<1> QED
  BY <1>1, <1>2, MessageInvCorrect, RunningStep, InLineStep, PTL DEF Spec

----
(* The copies of an event: no call is made twice, and the library counts   *)
(* what it writes for each.                                                *)

SameCall(m, n) == m.event = n.event /\ m.attempt = n.attempt

Counted ==
    /\ \A i, j \in 1 .. Len(topic) : topic[i] = topic[j] => i = j
    /\ \A i \in 1 .. Len(topic) : topic[i].copies > 0
    /\ \A i \in 1 .. Len(topic), k \in 1 .. Len(pending) :
          SameCall(topic[i], pending[k]) => topic[i].copies <= pending[k].copies
    /\ \A k, l \in 1 .. Len(pending) : SameCall(pending[k], pending[l]) => k = l

LEMMA SendCounted ==
    ASSUME TypeOK, Counted, Send
    PROVE  Counted'
<1>1. PICK p, t, e, n, c :
         /\ p = sent + 1 /\ t = Len(topic) + 1
         /\ e = pending[p].event /\ n = pending[p].attempt
         /\ c = pending[p].copies
  OBVIOUS
<1>2. /\ Len(pending') = Len(pending) /\ p \in 1 .. Len(pending)
      /\ pending'[p].event = e /\ pending'[p].attempt = n
      /\ pending'[p].copies = c + 1 /\ c \in Nat
      /\ \A k \in 1 .. Len(pending) : k # p => pending'[k] = pending[k]
      /\ Len(topic') = t /\ t \in Nat
      /\ topic'[t] = pending'[p]
      /\ \A i \in 1 .. Len(topic) : topic'[i] = topic[i]
  <2>1. pending[p].copies \in Nat
    BY <1>1, SendEffect, ProducerAssumption DEF Message
  <2> QED
    BY <1>1, <2>1, SendEffect
<1>3. /\ \A i \in 1 .. Len(topic') : i = t \/ i \in 1 .. Len(topic)
      /\ t \notin 1 .. Len(topic)
  BY <1>1, <1>2
<1>4. \A k \in 1 .. Len(pending) : /\ pending'[k].event = pending[k].event
                                   /\ pending'[k].attempt = pending[k].attempt
  BY <1>1, <1>2
<1>5. \A k, l \in 1 .. Len(pending') :
         SameCall(pending'[k], pending'[l]) => k = l
  BY <1>2, <1>4 DEF Counted, SameCall
<1>6. \A i \in 1 .. Len(topic) : topic[i].event = e /\ topic[i].attempt = n
         => topic[i].copies <= c
  BY <1>1, <1>2 DEF Counted, SameCall
<1>7. \A i \in 1 .. Len(topic) : topic[i].copies \in Nat
  <2>1. topic \in Seq(Message) /\ \A m \in Message : m.copies \in Nat
    BY ProducerAssumption DEF TypeOK, Message
  <2> QED
    BY <2>1
<1>8. ASSUME NEW i \in 1 .. Len(topic), topic[i] = topic'[t]
      PROVE  FALSE
  <2>1. /\ topic[i].event = e /\ topic[i].attempt = n
        /\ topic[i].copies = c + 1
    BY <1>2, <1>8
  <2> QED
    BY <1>2, <1>6, <2>1
<1>9. \A i, j \in 1 .. Len(topic') : topic'[i] = topic'[j] => i = j
  BY <1>2, <1>3, <1>8 DEF Counted
<1>10. \A i \in 1 .. Len(topic') : topic'[i].copies > 0
  BY <1>2, <1>3 DEF Counted
<1>11. ASSUME NEW i \in 1 .. Len(topic'), NEW k \in 1 .. Len(pending'),
              topic'[i].event = pending'[k].event,
              topic'[i].attempt = pending'[k].attempt
       PROVE  topic'[i].copies <= pending'[k].copies
  <2>1. CASE i = t
    <3>1. k = p
      BY <1>1, <1>2, <1>4, <1>11, <2>1 DEF Counted, SameCall
    <3> QED
      BY <1>2, <2>1, <3>1
  <2>2. CASE i # t /\ k = p
    <3>1. i \in 1 .. Len(topic) /\ topic'[i] = topic[i]
      BY <1>2, <1>3, <2>2
    <3>2. topic[i].copies <= c /\ topic[i].copies \in Nat
      BY <1>2, <1>6, <1>7, <1>11, <2>2, <3>1
    <3> QED
      BY <1>2, <2>2, <3>1, <3>2
  <2>3. CASE i # t /\ k # p
    BY <1>2, <1>3, <1>11, <2>3 DEF Counted, SameCall
  <2> QED
    BY <2>1, <2>2, <2>3
<1> QED
  BY <1>5, <1>9, <1>10, <1>11 DEF Counted, SameCall

\* The call that b makes has no message yet.
LEMMA HandOverCounted ==
    ASSUME IInv, Tried, Counted, NEW b \in Publishers, HandOver(b)
    PROVE  Counted'
<1>0. TypeOK /\ Held
  BY DEF IInv
<1>1. PICK e \in Events, n \in 1 .. MaxRetries :
         /\ Holds(b, e) /\ publisher[b].attempt = n /\ Accept(e, n)
  BY <1>0, HandsOver DEF Holds
<1>2. ~Called(e, n)
  <2>1. ~Tries(b, n)
    BY <1>1, ProducerAssumption DEF Tries, HandOver
  <2> QED
    BY <1>1, <2>1 DEF Tried
<1>3. PICK p : p = Len(pending) + 1
  OBVIOUS
<1>4. /\ Len(pending') = p /\ p \in Nat
      /\ pending'[p].event = e /\ pending'[p].attempt = n
      /\ \A k \in 1 .. Len(pending) : pending'[k] = pending[k]
      /\ topic' = topic
      /\ \A k \in 1 .. p : k = p \/ k \in 1 .. Len(pending)
  <2>1. /\ Len(pending') = Len(pending) + 1 /\ Len(pending) \in Nat
        /\ pending'[Len(pending) + 1].event = e
        /\ pending'[Len(pending) + 1].attempt = n
        /\ \A k \in 1 .. Len(pending) : pending'[k] = pending[k]
        /\ topic' = topic
    BY <1>0, <1>1, AcceptEffect
  <2> QED
    BY <1>3, <2>1
<1>5. /\ \A k \in 1 .. Len(pending) :
            ~(pending[k].event = e /\ pending[k].attempt = n)
      /\ \A i \in 1 .. Len(topic) :
            ~(topic[i].event = e /\ topic[i].attempt = n)
  BY <1>2 DEF Called
<1>6. \A k, l \in 1 .. Len(pending') : SameCall(pending'[k], pending'[l]) => k = l
  BY <1>4, <1>5 DEF Counted, SameCall
<1>7. \A i \in 1 .. Len(topic), k \in 1 .. Len(pending') :
         SameCall(topic[i], pending'[k]) => topic[i].copies <= pending'[k].copies
  BY <1>4, <1>5 DEF Counted, SameCall
<1> QED
  BY <1>4, <1>6, <1>7 DEF Counted, SameCall

LEMMA FinishCounted ==
    ASSUME TypeOK, Counted, Finish
    PROVE  Counted'
<1>1. /\ Len(pending') = Len(pending) - 1 /\ Len(pending) \in Nat \ {0}
      /\ \A k \in 1 .. Len(pending') : pending'[k] = pending[k + 1]
      /\ topic' = topic
  BY FinishEffect
<1>2. /\ \A k \in 1 .. Len(pending') : k + 1 \in 1 .. Len(pending)
      /\ \A k, l \in 1 .. Len(pending') : k + 1 = l + 1 => k = l
  BY <1>1
<1>3. ASSUME NEW k \in 1 .. Len(pending'), NEW l \in 1 .. Len(pending'),
             SameCall(pending'[k], pending'[l])
      PROVE  k = l
  <2>1. SameCall(pending[k + 1], pending[l + 1])
    BY <1>1, <1>3
  <2>2. k + 1 = l + 1
    BY <1>2, <2>1 DEF Counted
  <2> QED
    BY <1>2, <2>2
<1>4. ASSUME NEW i \in 1 .. Len(topic'), NEW k \in 1 .. Len(pending'),
             SameCall(topic'[i], pending'[k])
      PROVE  topic'[i].copies <= pending'[k].copies
  BY <1>1, <1>2, <1>4 DEF Counted
<1>5. /\ \A i, j \in 1 .. Len(topic') : topic'[i] = topic'[j] => i = j
      /\ \A i \in 1 .. Len(topic') : topic'[i].copies > 0
  BY <1>1 DEF Counted
<1> QED
  BY <1>3, <1>4, <1>5 DEF Counted, SameCall

LEMMA CountedStep == MessageInv /\ Counted /\ [Next]_vars => Counted'
<1> SUFFICES ASSUME MessageInv, Counted, [Next]_vars
             PROVE  Counted'
  OBVIOUS
<1>0. IInv /\ Tried /\ TypeOK /\ Held /\ CloserIdle
  BY DEF MessageInv, IInv
<1>1. ASSUME pending' = pending, topic' = topic
      PROVE  Counted'
  BY <1>1 DEF Counted, SameCall
<1>2. ASSUME NEW b \in Publishers, Settles(b)
      PROVE  Counted'
  BY <1>0, <1>1, <1>2, FinishCounted DEF Settles, WriteAcked, writerVars
<1>3. ASSUME NEW b \in Publishers, Take(b) \/ MovesOn(b)
      PROVE  Counted'
  BY <1>1, <1>3 DEF Take, MovesOn, writerVars
<1>4. CASE Library
  BY <1>0, <1>1, <1>4, SendCounted, FinishCounted
     DEF Library, WriterSends, WriterRepeats, WriterForgets, Repeat
<1>5. CASE Elsewhere \/ \E e \in Events : PublishAsync(e)
  BY <1>1, <1>5 DEF Elsewhere, PublishAsync, writerVars
<1> QED
  BY <1>0, <1>2, <1>3, <1>4, <1>5, StepKinds, HandOverCounted

\* Messages of one event differ in the call or in the write.
LEMMA CopiesBounded ==
    ASSUME TypeOK, Counted, NEW e
    PROVE  Copies(e) <= MaxRetries * WriterAttempts
<1> DEFINE copies == {i \in 1 .. Len(topic) : topic[i].event = e}
           writes == (1 .. MaxRetries) \X (1 .. WriterAttempts)
           f == [i \in copies |-> <<topic[i].attempt, topic[i].copies>>]
<1>1. /\ topic \in Seq(Message) /\ Len(topic) \in Nat
      /\ \A i \in 1 .. Len(topic) : topic[i] \in Message
  BY DEF TypeOK
<1>2. IsFiniteSet(copies)
  <2>1. IsFiniteSet(1 .. Len(topic))
    BY <1>1, FS_Interval
  <2> QED
    BY <2>1, FS_Subset
<1>3. IsFiniteSet(writes) /\ Cardinality(writes) = MaxRetries * WriterAttempts
  <2>1. /\ IsFiniteSet(1 .. MaxRetries) /\ Cardinality(1 .. MaxRetries) = MaxRetries
        /\ IsFiniteSet(1 .. WriterAttempts)
        /\ Cardinality(1 .. WriterAttempts) = WriterAttempts
    BY ProducerAssumption, FS_Interval
  <2> DEFINE calls == 1 .. MaxRetries
             attempts == 1 .. WriterAttempts
  <2> HIDE DEF calls, attempts
  <2>2. /\ IsFiniteSet(calls \X attempts)
        /\ Cardinality(calls \X attempts) = Cardinality(calls) * Cardinality(attempts)
    BY <2>1, FS_Product DEF calls, attempts
  <2>3. writes = calls \X attempts
    BY DEF calls, attempts
  <2>4. Cardinality(calls) = MaxRetries /\ Cardinality(attempts) = WriterAttempts
    BY <2>1 DEF calls, attempts
  <2> QED
    BY <2>2, <2>3, <2>4
<1>4. \A i \in copies : /\ topic[i].attempt \in 1 .. MaxRetries
                        /\ topic[i].copies \in 1 .. WriterAttempts
  <2>1. \A m \in Message : /\ m.attempt \in 1 .. MaxRetries
                           /\ m.copies > 0 => m.copies \in 1 .. WriterAttempts
    BY ProducerAssumption DEF Message
  <2> QED
    BY <1>1, <2>1 DEF Counted
<1>5. f \in [copies -> writes]
  BY <1>4
<1>6. ASSUME NEW i \in copies, NEW j \in copies, f[i] = f[j]
      PROVE  i = j
  <2>1. /\ topic[i].event = topic[j].event
        /\ topic[i].attempt = topic[j].attempt
        /\ topic[i].copies = topic[j].copies
    BY <1>6
  <2>2. \A m \in Message : m = [event |-> m.event, attempt |-> m.attempt,
                                copies |-> m.copies]
    BY DEF Message
  <2>3. topic[i] = topic[j]
    <3> DEFINE m == topic[i]
               n == topic[j]
    <3>1. /\ m = [event |-> m.event, attempt |-> m.attempt, copies |-> m.copies]
          /\ n = [event |-> n.event, attempt |-> n.attempt, copies |-> n.copies]
      BY <1>1, <2>2
    <3> QED
      BY <2>1, <3>1
  <2> QED
    BY <2>3 DEF Counted
<1> HIDE DEF copies, writes, f
<1>7. ~(Cardinality(writes) < Cardinality(copies))
  <2> SUFFICES ASSUME Cardinality(writes) < Cardinality(copies)
               PROVE  FALSE
    OBVIOUS
  <2>1. \E i, j \in copies : i # j /\ f[i] = f[j]
    BY <1>2, <1>3, <1>5, FS_PigeonHole
  <2> QED
    BY <1>6, <2>1
<1>8. Cardinality(copies) \in Nat /\ Cardinality(writes) \in Nat
  BY <1>2, <1>3, FS_CardinalityType
<1>9. Cardinality(copies) <= Cardinality(writes)
  BY <1>7, <1>8
<1> QED
  BY <1>3, <1>9 DEF Copies, copies

\* publish and the library, by whichever goroutine: an event is in the topic
\* at most as often as there are calls for it and attempts at each, whatever
\* earlier calls left behind, and an acknowledged one is there.
THEOREM CopiesCorrect == Spec => []BoundedCopies
<1>1. Init => Counted
  <2> SUFFICES ASSUME Init
               PROVE  Counted
    OBVIOUS
  <2>1. Len(topic) = 0 /\ Len(pending) = 0
    BY DEF Init, WriterInit
  <2> QED
    BY <2>1 DEF Counted
<1>2. MessageInv /\ Counted => BoundedCopies
  <2> SUFFICES ASSUME MessageInv, Counted, NEW e \in Events
               PROVE  /\ Copies(e) <= MaxRetries * WriterAttempts
                      /\ outcome[e] = "acked" => Copies(e) > 0
    BY DEF BoundedCopies
  <2>1. TypeOK
    BY DEF MessageInv, IInv
  <2>2. Copies(e) <= MaxRetries * WriterAttempts
    BY <2>1, CopiesBounded
  <2>3. outcome[e] = "acked" => Copies(e) > 0
    BY <2>1, CopiesInTopic DEF MessageInv, Sound
  <2> QED
    BY <2>2, <2>3
<1> QED
  BY <1>1, <1>2, MessageInvCorrect, CountedStep, PTL DEF Spec
====
