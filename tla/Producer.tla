---- MODULE Producer ----
(***************************************************************************)
(* How a daemon's transaction events reach Kafka, and its shutdown:        *)
(* internal/producer/producer.go, the event that each inquiry ends with    *)
(* (internal/daemon/pipeline.go), the proxy servers that run the inquiries *)
(* (internal/proxy/proxy.go) and main of cmd/daemon.                       *)
(*                                                                         *)
(* Two goroutines take events from the same queue: the one Start launched, *)
(* which loops until the root context is cancelled and then drains, and    *)
(* the main goroutine, which drains in Close.  Nobody waits for the        *)
(* first, and nobody waits for the inquiries in flight: Serve returns as   *)
(* soon as Shutdown has closed the listener.                               *)
(*                                                                         *)
(* Kafka is seen through the client library (KafkaWriter): a write either  *)
(* is acknowledged or returns an error, and an error says neither that     *)
(* nothing was written nor that nothing will be.  One event stands for     *)
(* each inquiry that ends with publishEvent.                               *)
(***************************************************************************)
EXTENDS KafkaWriter, FiniteSets

CONSTANT QueueDepth    \* queueDepth

ASSUME ProducerAssumption ==
    /\ QueueDepth \in Nat \ {0}
    /\ MaxRetries \in Nat \ {0}
    /\ WriterAttempts \in Nat \ {0}
    /\ "none" \notin Events

VARIABLES
    queue,        \* Producer.queue
    publisher,    \* the two goroutines that publish
    rootDone,     \* rootCtx is cancelled: a signal arrived
    groupDone,    \* gCtx is cancelled: a signal, or a member of the group failed
    main,         \* the main goroutine, from g.Wait on
    accepted,     \* history: the events in the order they were enqueued
    outcome       \* history: what became of each event

vars == <<queue, publisher, writerOpen, pending, sent, topic,
          rootDone, groupDone, main, accepted, outcome>>

process == <<rootDone, groupDone, main, writerOpen>>

InSeq(e, s) == \E i \in 1 .. Len(s) : s[i] = e

\* The inquiry of event e has come to its PublishAsync.
Offered(e) == InSeq(e, accepted) \/ outcome[e] # "none"

Publishers == {"background", "closer"}

\* publish calls WriteMessages ("writing"), which waits for the batch its
\* message is in ("waiting").
Publisher ==
    [at : {"idle", "select", "writing", "waiting", "backoff", "stopped"},
     draining : BOOLEAN, expired : BOOLEAN,
     event : Events \cup {"none"}, attempt : 0 .. MaxRetries]

Holds(b, e) == publisher[b].event = e
Waits(b, m) ==
    /\ publisher[b].at = "waiting"
    /\ publisher[b].event = m.event /\ publisher[b].attempt = m.attempt

\* The context publish was given is cancelled, or past its deadline.
CtxDone(b) == IF publisher[b].draining THEN publisher[b].expired ELSE rootDone
Alive == main # "exited"

Init ==
    /\ queue = <<>>
    /\ publisher = [b \in Publishers |->
                      [at |-> IF b = "background" THEN "select" ELSE "idle",
                       draining |-> FALSE, expired |-> FALSE,
                       event |-> "none", attempt |-> 0]]
    /\ WriterInit
    /\ rootDone = FALSE /\ groupDone = FALSE
    /\ main = "waiting"
    /\ accepted = <<>>
    /\ outcome = [e \in Events |-> "none"]

----
(* The inquiries.  Each reaches publishEvent whenever its provider lets    *)
(* it, also after the listeners are closed.                                *)

\* A full queue drops the event, with a warning.
PublishAsync(e) ==
    /\ Alive
    /\ ~Offered(e)
    /\ IF Len(queue) < QueueDepth
       THEN /\ queue' = Append(queue, e)
            /\ accepted' = Append(accepted, e)
            /\ UNCHANGED outcome
       ELSE /\ outcome' = [outcome EXCEPT ![e] = "dropped"]
            /\ UNCHANGED <<queue, accepted>>
    /\ UNCHANGED <<publisher, process, writerVars>>

----
(* publish, drain and the loop of Start, for either goroutine b.  The      *)
(* definitions "Bad..." are faulty variants of those that follow them, no  *)
(* part of the specification: they show that the properties can fail.      *)

Become(b, next) == publisher' = [publisher EXCEPT ![b] = next]

\* A goroutine that drops its event returns from its loop too.
BadSettleReturns(b, how) ==
    /\ outcome' = [outcome EXCEPT ![publisher[b].event] = how]
    /\ Become(b, [publisher[b] EXCEPT
                     !.at = IF how = "dropped" THEN "stopped" ELSE "select",
                     !.event = "none", !.attempt = 0])

\* b is done with the event it holds and goes back to its select.
Settle(b, how) ==
    /\ outcome' = [outcome EXCEPT ![publisher[b].event] = how]
    /\ Become(b, [publisher[b] EXCEPT !.at = "select", !.event = "none",
                                      !.attempt = 0])

\* One attempt too many.
BadExhaustedOneMore(b) == publisher[b].attempt > MaxRetries

\* This was the last attempt.
Exhausted(b) == publisher[b].attempt >= MaxRetries

\* A drain reads the event and leaves it in the queue.
BadTakeKeepsEvent(b) ==
    /\ Alive
    /\ publisher[b].at = "select"
    /\ queue # <<>>
    /\ queue' = IF publisher[b].draining THEN queue ELSE Tail(queue)
    /\ Become(b, [publisher[b] EXCEPT !.at = "writing", !.event = Head(queue),
                                      !.attempt = 1])
    /\ UNCHANGED <<accepted, outcome, process, writerVars>>

\* Go's select takes any ready case: an event may win over a done context.
Take(b) ==
    /\ Alive
    /\ publisher[b].at = "select"
    /\ queue # <<>>
    /\ queue' = Tail(queue)
    /\ Become(b, [publisher[b] EXCEPT !.at = "writing", !.event = Head(queue),
                                      !.attempt = 1])
    /\ UNCHANGED <<accepted, outcome, process, writerVars>>

\* WriteMessages is on its way to the broker.
HandOver(b) ==
    /\ Alive
    /\ publisher[b].at = "writing"
    /\ Accept(publisher[b].event, publisher[b].attempt)
    /\ Become(b, [publisher[b] EXCEPT !.at = "waiting"])
    /\ UNCHANGED <<queue, accepted, outcome, rootDone, groupDone, main>>

\* The batch is written, not necessarily for the first time.
WriteAcked(b) ==
    /\ Alive
    /\ pending # <<>> /\ Waits(b, Head(pending))
    /\ sent > 0
    /\ Finish
    /\ Settle(b, "acked")
    /\ UNCHANGED <<queue, accepted, rootDone, groupDone, main>>

\* The call fails: no partition found, the writer closed, the batch given up
\* by the library, its ten seconds over or its context cancelled.  What was
\* handed over stays with the library.
WriteFails(b) ==
    /\ Alive
    /\ publisher[b].at \in {"writing", "waiting"}
    /\ IF Exhausted(b)
       THEN Settle(b, "dropped")
       ELSE /\ Become(b, [publisher[b] EXCEPT !.at = "backoff"])
            /\ UNCHANGED outcome
    /\ UNCHANGED <<queue, accepted, process, writerVars>>

\* The library's goroutine, which answers to nobody that has gone.
WriterSends == Alive /\ Send
WriterRepeats == Alive /\ Repeat
WriterForgets ==
    /\ Alive
    /\ pending # <<>> /\ \A b \in Publishers : ~Waits(b, Head(pending))
    /\ Finish

Library ==
    /\ WriterSends \/ WriterRepeats \/ WriterForgets
    /\ UNCHANGED <<queue, publisher, accepted, outcome,
                   rootDone, groupDone, main>>

\* The failed event goes to the back of the queue instead of being retried.
BadRetryRequeues(b) ==
    /\ Alive
    /\ publisher[b].at = "backoff"
    /\ queue' = Append(queue, publisher[b].event)
    /\ Become(b, [publisher[b] EXCEPT !.at = "select", !.event = "none",
                                      !.attempt = 0])
    /\ UNCHANGED <<accepted, outcome, process, writerVars>>

Retry(b) ==
    /\ Alive
    /\ publisher[b].at = "backoff"
    /\ Become(b, [publisher[b] EXCEPT !.at = "writing", !.attempt = @ + 1])
    /\ UNCHANGED <<queue, accepted, outcome, process, writerVars>>

\* The context ends during the back-off: publish returns, and logs nothing.
GiveUp(b) ==
    /\ Alive
    /\ publisher[b].at = "backoff"
    /\ CtxDone(b)
    /\ Settle(b, "abandoned")
    /\ UNCHANGED <<queue, accepted, process, writerVars>>

\* The loop of Start sees the cancelled root context and calls drain.
StartDrain ==
    /\ Alive
    /\ publisher["background"].at = "select"
    /\ ~publisher["background"].draining
    /\ rootDone
    /\ Become("background", [publisher["background"] EXCEPT !.draining = TRUE])
    /\ UNCHANGED <<queue, accepted, outcome, process, writerVars>>

\* The ten seconds of a drain are over.
Expire(b) ==
    /\ Alive
    /\ publisher[b].draining /\ ~publisher[b].expired
    /\ publisher[b].at # "stopped"
    /\ Become(b, [publisher[b] EXCEPT !.expired = TRUE])
    /\ UNCHANGED <<queue, accepted, outcome, process, writerVars>>

\* The queue is empty for an instant, or time is up.
EndDrain(b) ==
    /\ Alive
    /\ publisher[b].draining
    /\ publisher[b].at = "select"
    /\ queue = <<>> \/ publisher[b].expired
    /\ Become(b, [publisher[b] EXCEPT !.at = "stopped"])
    /\ UNCHANGED <<queue, accepted, outcome, process, writerVars>>

----
(* main of cmd/daemon.                                                     *)

\* The hot-reload loop receives SIGINT or SIGTERM, and leaves.
Signal ==
    /\ Alive /\ ~groupDone
    /\ rootDone' = TRUE /\ groupDone' = TRUE
    /\ UNCHANGED <<queue, publisher, writerVars, accepted, outcome,
                   main, writerOpen>>

\* A member of the group returns an error: the invalidation subscriber, or a
\* proxy that cannot bind.  Only the group's context is cancelled.
GroupFails ==
    /\ Alive /\ ~groupDone
    /\ groupDone' = TRUE
    /\ UNCHANGED <<queue, publisher, writerVars, accepted, outcome,
                   rootDone, main, writerOpen>>

\* Shutdown closes the listeners, every Serve returns with its inquiries still
\* running, g.Wait returns, and Producer.Close begins its own drain.
Close ==
    /\ main = "waiting" /\ groupDone
    /\ main' = "closing"
    /\ Become("closer", [publisher["closer"] EXCEPT !.at = "select",
                                                    !.draining = TRUE])
    /\ UNCHANGED <<queue, writerVars, accepted, outcome,
                   rootDone, groupDone, writerOpen>>

\* Close waits for the background goroutine as well.
BadCloseWriterWaits ==
    /\ main = "closing"
    /\ \A b \in Publishers : publisher[b].at = "stopped"
    /\ main' = "closed"
    /\ writerOpen' = FALSE
    /\ UNCHANGED <<queue, publisher, writerVars, accepted, outcome,
                   rootDone, groupDone>>

\* Writer.Close: from here on WriteMessages fails.
CloseWriter ==
    /\ main = "closing"
    /\ publisher["closer"].at = "stopped"
    /\ main' = "closed"
    /\ writerOpen' = FALSE
    /\ UNCHANGED <<queue, publisher, writerVars, accepted, outcome,
                   rootDone, groupDone>>

\* Writer.Close has waited until the library has nothing left; main returns
\* (its deferred rootCancel first): every goroutine is gone.
Exit ==
    /\ main = "closed" /\ pending = <<>>
    /\ main' = "exited"
    /\ UNCHANGED <<queue, publisher, writerVars, accepted, outcome,
                   rootDone, groupDone, writerOpen>>

Main == Close \/ CloseWriter \/ Exit

\* What the code of goroutine b does next.
Publish(b) ==
    \/ Take(b)
    \/ HandOver(b) \/ WriteAcked(b) \/ WriteFails(b)
    \/ Retry(b) \/ GiveUp(b)
    \/ EndDrain(b)
    \/ b = "background" /\ StartDrain

Next ==
    \/ \E e \in Events : PublishAsync(e)
    \/ \E b \in Publishers : Publish(b) \/ Expire(b)
    \/ Library
    \/ Signal \/ GroupFails
    \/ Main

\* The goroutines run, every write ends within its ten seconds one way or
\* the other, and so does a drain; the library makes so many attempts and no
\* more.  Inquiries need not end (a provider may take minutes), signals and
\* failures need not come.
Fairness ==
    /\ \A b \in Publishers : WF_vars(Publish(b)) /\ WF_vars(Expire(b))
    /\ WF_vars(Library /\ WriterForgets)
    /\ WF_vars(Main)

Spec == Init /\ [][Next]_vars
FairSpec == Spec /\ Fairness

----
(* What the producer guarantees.                                           *)

Copies(e) == Cardinality({i \in 1 .. Len(topic) : topic[i].event = e})

\* Types of the state; the queue never grows past its capacity.
TypeOK ==
    /\ queue \in Seq(Events) /\ Len(queue) <= QueueDepth
    /\ publisher \in [Publishers -> Publisher]
    /\ writerOpen \in BOOLEAN
    /\ rootDone \in BOOLEAN /\ groupDone \in BOOLEAN
    /\ main \in {"waiting", "closing", "closed", "exited"}
    /\ pending \in Seq(Message) /\ sent \in 0 .. Len(pending)
    /\ topic \in Seq(Message)
    /\ accepted \in Seq(Events)
    /\ outcome \in [Events -> {"none", "acked", "dropped", "abandoned"}]

\* The two goroutines that empty the queue during a shutdown never publish
\* the same event: an event that PublishAsync accepted waits in the queue,
\* or is held by one of them, or is settled, and never two of these.
OneOwner ==
    \A e \in Events :
       Cardinality({i \in 1 .. Len(queue) : queue[i] = e})
         + Cardinality({b \in Publishers : Holds(b, e)})
         + (IF outcome[e] # "none" THEN 1 ELSE 0)
         = (IF Offered(e) THEN 1 ELSE 0)

\* The consumer must be ready for as many copies of an event as publish has
\* attempts and the library writes of each, and for no more, although calls
\* overlap with what earlier ones left behind; an acknowledged event is in the
\* topic.
BoundedCopies ==
    \A e \in Events :
       /\ Copies(e) <= MaxRetries * WriterAttempts
       /\ outcome[e] = "acked" => Copies(e) > 0

InTopicBefore(e, j) == \E i \in 1 .. j - 1 : topic[i].event = e

\* Until the shutdown starts, events come into the topic in the order
\* PublishAsync accepted them, whatever fails, is left behind or is written
\* again in between: an event is there only after every earlier one that ever
\* is.  (A later copy may be anywhere.)
InOrder ==
    groupDone \/
    \A j \in 1 .. Len(topic), m, n \in 1 .. Len(accepted) :
       (m < n /\ topic[j].event = accepted[n] /\ Copies(accepted[m]) > 0)
          => InTopicBefore(accepted[m], j)

\* A daemon asked to stop stops, whatever Kafka and the inquiries do.  (A
\* shutdown is never called off, so that "again and again" is "in the end".)
ShutdownEnds == []<>(groupDone => ~Alive)

\* No event is left lying while the daemon lives, in the queue or with a
\* goroutine: in the end it is published, or given up after the retries, even
\* if other events fail.
AcceptedIsSettled ==
    \A e \in Events :
       []<>(InSeq(e, accepted) => outcome[e] # "none" \/ ~Alive)

\* What an event has come to, seen from outside.
Fate ==
    [e \in Events |->
       IF InSeq(e, accepted)
       THEN CASE outcome[e] = "none" -> "pending"
              [] outcome[e] = "acked" -> "published"
              [] OTHER -> "lost"
       ELSE IF outcome[e] = "none" THEN "new" ELSE "refused"]

Written == [i \in 1 .. Len(topic) |-> topic[i].event]

Log == INSTANCE EventLog WITH log <- Written, fate <- Fate

\* Neither the two goroutines nor a shutdown nor what calls left with the
\* library write an event that was not accepted, or count one as published
\* that is not in the topic, and none changes its fate twice: the producer
\* implements EventLog.
ImplementsEventLog == Log!Spec

\* What the comment in main says of Close ("flush any remaining Kafka
\* events"): the daemon does not exit with an event still in its queue or
\* half published, unless Close ran out of time.
ShutdownFlushes ==
    (~Alive /\ ~publisher["closer"].expired) =>
       \A e \in Events : InSeq(e, accepted) => outcome[e] # "none"
====
