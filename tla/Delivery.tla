---- MODULE Delivery ----
(***************************************************************************)
(* What becomes of the record of a call, from the inquiry that made it to  *)
(* the rows that the console shows: the end of HotPipeline.Execute         *)
(* (internal/daemon/pipeline.go), then the producer, the topic and the     *)
(* consumer.                                                               *)
(*                                                                         *)
(* The producer appears as EventLog, which Producer implements; its topic  *)
(* is the partition that Consumer reads.  Every inquiry has its request    *)
(* id, made by the adapter, and ends with at most one event, so that       *)
(* "Events" stands for both.  The budget's counter in Redis and the rows   *)
(* in PostgreSQL are two accounts of the same calls, and this module is    *)
(* about what one may conclude from one of them about the other.           *)
(***************************************************************************)
EXTENDS Consumer

VARIABLES
    inquiry,   \* where the inquiry of each event stands in Execute
    charge,    \* whether the budget has been told of its call
    fate       \* what the producer has made of its event

execute == <<inquiry, charge>>
deliveryVars == <<vars, execute, fate>>

Log == INSTANCE EventLog WITH log <- topic

DeliveryInit ==
    /\ Init /\ Log!Init
    /\ inquiry = [e \in Events |-> "calling"]
    /\ charge = [e \in Events |-> "none"]

----
(* Execute from the dispatch on.  An inquiry that has yet to come, or that *)
(* was refused, is one whose provider has yet to answer: neither leaves a  *)
(* trace.  The definitions "Bad..." are faulty variants of those that      *)
(* follow them, no part of the specification: they show that the           *)
(* properties can fail.                                                    *)

Goto(e, next) == inquiry' = [inquiry EXCEPT ![e] = next]
Charge(e, how) == charge' = [charge EXCEPT ![e] = how]

\* No answer that Execute could use: an event "error" without a cost.
CallFails(e) ==
    /\ inquiry[e] = "calling"
    /\ Goto(e, "returned")
    /\ Log!Offer(e)
    /\ UNCHANGED <<vars, charge>>

Answer(e) ==
    /\ inquiry[e] = "calling"
    /\ Goto(e, "answered")
    /\ Charge(e, "due")
    /\ UNCHANGED <<vars, fate>>

\* CheckOutput fails, be it that the client has left by now and its context
\* is done: the call was paid for, but is neither recorded nor published.
Block(e) ==
    /\ inquiry[e] = "answered"
    /\ Goto(e, "cut")
    /\ UNCHANGED <<vars, charge, fate>>

\* Redis raises the counter or does not; Execute goes on in either case.
Record(e) ==
    /\ inquiry[e] = "answered"
    /\ Goto(e, "recorded")
    /\ Charge(e, "recorded")
    /\ UNCHANGED <<vars, fate>>

\* The event is on its way before Record has run.
BadPublishFirst(e) ==
    /\ inquiry[e] \in {"answered", "recorded"}
    /\ Goto(e, "returned")
    /\ Log!Offer(e)
    /\ UNCHANGED <<vars, charge>>

\* publishEvent, which does not wait for anything.
PublishEvent(e) ==
    /\ inquiry[e] = "recorded"
    /\ Goto(e, "returned")
    /\ Log!Offer(e)
    /\ UNCHANGED <<vars, charge>>

\* The daemon ends with the inquiry in flight.
Die(e) ==
    /\ inquiry[e] \in {"calling", "answered", "recorded"}
    /\ Goto(e, "cut")
    /\ UNCHANGED <<vars, charge, fate>>

Execute(e) ==
    \/ CallFails(e) \/ Answer(e)
    \/ Block(e) \/ Record(e) \/ PublishEvent(e)
    \/ Die(e)

----
(* The producer, and the rest of the way.                                  *)

Write(e) == Produce(e) /\ Log!Write(e) /\ UNCHANGED execute
Publish(e) == Log!Publish(e) /\ UNCHANGED <<vars, execute>>
Lose(e) == Log!Lose(e) /\ UNCHANGED <<vars, execute>>
Settle(e) == Publish(e) \/ Lose(e)

\* Everything in Consumer but the writing of messages.
Consume == Next /\ topic' = topic /\ UNCHANGED <<execute, fate>>

DeliveryNext ==
    \/ \E e \in Events : Execute(e) \/ Write(e) \/ Settle(e)
    \/ Consume

\* An event with the producer is settled (AcceptedIsSettled of Producer, or
\* the end of its daemon).  The server is started again after a crash and its
\* consumer runs: each database call ends, well or not, and each send within
\* its second.  Providers need not answer; clients need not read or leave.
DeliveryFairness ==
    /\ \A e \in Events : WF_deliveryVars(Settle(e))
    /\ WF_deliveryVars(Start /\ UNCHANGED <<execute, fate>>)
    /\ WF_deliveryVars(Process /\ UNCHANGED <<execute, fate>>)

DeliverySpec == DeliveryInit /\ [][DeliveryNext]_deliveryVars
FairDeliverySpec == DeliverySpec /\ DeliveryFairness

----
(* What the rows and the counter say of the calls.                         *)

DeliveryTypeOK ==
    /\ TypeOK
    /\ inquiry \in [Events -> {"calling", "answered", "recorded", "returned",
                               "cut"}]
    /\ charge \in [Events -> {"none", "due", "recorded"}]
    /\ fate \in [Events -> {"new", "refused", "pending", "published", "lost"}]

\* With the producer, or in the topic where the group will still read it.
OnItsWay(e) ==
    \/ fate[e] = "pending"
    \/ \E o \in 1 .. Len(topic) : topic[o] = e /\ o >= committed

\* The producer refused the event or gave it up, or the consumer a message
\* with it.
GivenUp(e) ==
    \/ fate[e] \in {"refused", "lost"}
    \/ \E o \in failed \cup missed : topic[o] = e

\* Whatever crashes, comes twice or out of order between Execute and the
\* tables: an inquiry that ran to its end (answered by the provider or not)
\* has its rows, or they can still come, or a failure of the producer or the
\* consumer lost them.  Only an inquiry that was cut short leaves nothing.
CallsAccounted ==
    \A e \in Events :
       inquiry[e] = "returned" => Stored(e) \/ OnItsWay(e) \/ GivenUp(e)

\* Three accounts of a call, the budget's counter, its request log and its
\* cost record, are written in this order, whatever fails or comes twice: no
\* cost without its log, no log of a call that did not happen, and no row of
\* which the budget had not been told before.  What the console sums up
\* exceeds the counters only by increments that Redis refused.
AccountsAgree ==
    /\ CostHasLog
    /\ \A e \in requestLogs : inquiry[e] = "returned" /\ charge[e] # "due"

\* "On its way" does not last: in the end the rows of such an inquiry are
\* there, or given up.  Neither a message that cannot be processed nor a
\* client that does not read its feed holds up those behind it.
CallsSettle ==
    \A e \in Events : inquiry[e] = "returned" ~> (Stored(e) \/ GivenUp(e))
====
