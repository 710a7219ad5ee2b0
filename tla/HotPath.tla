---- MODULE HotPath ----
(***************************************************************************)
(* The inquiries of a daemon and the budget that limits them:              *)
(* HotPipeline.Execute (internal/daemon/pipeline.go) from the budget check *)
(* to its return, with Check and Record of internal/policy/budget and the  *)
(* counter they keep in Redis.                                             *)
(*                                                                         *)
(* The counter is read before the provider is called and raised after it   *)
(* has answered; other inquiries of the same user, in any daemon, run in   *)
(* between.  The module follows the first rule in the order of priority:   *)
(* it alone decides, the others only count.  Its period is a day, and a    *)
(* new day is a new key.  The "cost" of an answer is what Record will add  *)
(* for it, in whole units.                                                 *)
(***************************************************************************)
EXTENDS Naturals, FiniteSets

CONSTANTS
    Inquiries,     \* goroutines inside Execute for one user, of all daemons
    Limit,         \* limitUSD of the rule
    MaxCost,       \* most that one inquiry adds to the counter: the cost of
                   \* its call, as often as the Redis client repeats a
                   \* command whose answer was lost
    MaxUnchecked   \* bound: inquiries a day that Redis did not answer

ASSUME HotPathAssumption ==
    /\ IsFiniteSet(Inquiries)
    /\ Limit \in Nat \ {0}       \* parseRule refuses a limit of 0
    /\ MaxCost \in Nat /\ MaxUnchecked \in Nat

VARIABLES
    spent,       \* the rule's counter for the current day
    inquiry,     \* where each inquiry stands
    unchecked    \* history: inquiries admitted today without a check

vars == <<spent, inquiry, unchecked>>

Idle == [stage |-> "idle"]
Calling == [stage |-> "calling"]
Answered(cost) == [stage |-> "answered", cost |-> cost]

Inquiry ==
    {Idle, Calling} \cup {Answered(c) : c \in 0 .. MaxCost}

Busy == {i \in Inquiries : inquiry[i] # Idle}

Goto(i, next) == inquiry' = [inquiry EXCEPT ![i] = next]

Init ==
    /\ spent = 0
    /\ inquiry = [i \in Inquiries |-> Idle]
    /\ unchecked = 0

----
(* Check.  An inquiry that the budget or an earlier step refuses leaves no *)
(* trace: it is a stuttering step.  The definitions "Bad..." are faulty    *)
(* variants of those that follow them, no part of the specification: they  *)
(* show that the properties can fail.                                      *)

\* Nobody is refused before the counter is twice over.
BadAdmitTooLate(i) ==
    /\ inquiry[i] = Idle
    /\ spent <= Limit + Limit
    /\ Goto(i, Calling)
    /\ UNCHANGED <<spent, unchecked>>

\* The estimate of the pipeline is 0: only a counter above the limit refuses,
\* one that has exactly reached it does not.
Admit(i) ==
    /\ inquiry[i] = Idle
    /\ spent <= Limit
    /\ Goto(i, Calling)
    /\ UNCHANGED <<spent, unchecked>>

\* Redis does not answer: the first rule is skipped, and the rules after it
\* do not decide in its place.
AdmitUnchecked(i) ==
    /\ inquiry[i] = Idle
    /\ unchecked < MaxUnchecked
    /\ unchecked' = unchecked + 1
    /\ Goto(i, Calling)
    /\ UNCHANGED spent

----
(* The provider's answer, and Record.                                      *)

\* A failed call gives back what it could have cost.
BadCallFailsRefunds(i) ==
    /\ inquiry[i] # Idle /\ inquiry[i].stage = "calling"
    /\ spent' = spent - MaxCost
    /\ Goto(i, Idle)
    /\ UNCHANGED unchecked

\* The breaker is open, the provider fails or times out, or there is none.
CallFails(i) ==
    /\ inquiry[i] # Idle /\ inquiry[i].stage = "calling"
    /\ Goto(i, Idle)
    /\ UNCHANGED <<spent, unchecked>>

Answer(i, cost) ==
    /\ inquiry[i] # Idle /\ inquiry[i].stage = "calling"
    /\ Goto(i, Answered(cost))
    /\ UNCHANGED <<spent, unchecked>>

\* Execute returns before Record: the client has left by the time the output
\* hook looks at its context, or a guardrail rule blocks the answer.
Block(i) ==
    /\ inquiry[i] # Idle /\ inquiry[i].stage = "answered"
    /\ Goto(i, Idle)
    /\ UNCHANGED <<spent, unchecked>>

\* The inquiry is retried as a whole when the answer cannot be delivered.
BadRecordTwice(i) ==
    /\ inquiry[i] # Idle /\ inquiry[i].stage = "answered"
    /\ spent' = spent + inquiry[i].cost
    /\ Goto(i, Calling)
    /\ UNCHANGED unchecked

\* The counter of the day on which the answer came, which need not be the
\* day of the check.
Record(i) ==
    /\ inquiry[i] # Idle /\ inquiry[i].stage = "answered"
    /\ spent' = spent + inquiry[i].cost
    /\ Goto(i, Idle)
    /\ UNCHANGED unchecked

\* Redis does not do it: the cost is lost, with a warning.  (When it does it
\* and the answer is lost, the counter is raised all the same: Record.)
RecordFails(i) ==
    /\ inquiry[i] # Idle /\ inquiry[i].stage = "answered"
    /\ Goto(i, Idle)
    /\ UNCHANGED <<spent, unchecked>>

\* currentPeriod names another key, without a counter yet.
NewDay ==
    /\ spent' = 0
    /\ unchecked' = 0
    /\ UNCHANGED inquiry

Next ==
    \/ \E i \in Inquiries :
          \/ Admit(i) \/ AdmitUnchecked(i)
          \/ CallFails(i) \/ (\E c \in 0 .. MaxCost : Answer(i, c))
          \/ Block(i) \/ Record(i) \/ RecordFails(i)
    \/ NewDay

Spec == Init /\ [][Next]_vars

----
(* What the budget guarantees.                                             *)

TypeOK ==
    /\ spent \in Nat
    /\ inquiry \in [Inquiries -> Inquiry]
    /\ unchecked \in 0 .. MaxUnchecked

\* A budget is overrun by no more than the calls that run at the same time
\* can add to the counter, plus those that Redis did not answer: inquiries
\* that were admitted together cannot add up to more, over midnight or not.
OverspendBounded ==
    spent <= Limit + (Cardinality(Inquiries) + unchecked) * MaxCost
====
