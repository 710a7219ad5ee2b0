---- MODULE RateLimit ----
(***************************************************************************)
(* The sliding window of internal/policy/ratelimit: Check and the script   *)
(* slidingWindowLua that it has Redis run, for one rule and one user.      *)
(*                                                                         *)
(* Time is counted in buckets of five seconds.  Check takes the time       *)
(* before it calls Redis, so a script may run later than its stamp says,   *)
(* after scripts with later stamps.  A script counts its request first and *)
(* decides afterwards; the client library runs it again when its answer is *)
(* lost.                                                                   *)
(***************************************************************************)
EXTENDS Integers, Functions

CONSTANTS
    Inquiries,    \* goroutines inside Check for one user, of all daemons
    Window,       \* buckets the script adds up
    TTL,          \* life of a bucket's key; gone when its last bucket begins
    RPM,          \* limitRPM of the rule
    MaxLag,       \* most a script lags behind its stamp (clocks are in step)
    MaxTime,      \* bound: buckets of time
    MaxScripts    \* bound: executions of the script

\* Assumed by Gateway, which instantiates this module.  A key outlives the
\* last script that adds it up: 65 >= 60 + 5 seconds in the code.
RateLimitAssumption ==
    /\ Window \in Nat \ {0} /\ TTL \in Nat /\ RPM \in Nat
    /\ MaxLag \in Nat /\ MaxTime \in Nat
    /\ Window + MaxLag <= TTL

VARIABLES
    now,        \* the present bucket
    count,      \* what each bucket's key was last set to
    touched,    \* when it was
    check,      \* where each inquiry stands in Check
    admitted,   \* history: requests admitted, by the bucket of their stamp
    overtaken   \* history: those of them after a script with a later stamp

vars == <<now, count, touched, check, admitted, overtaken>>

Buckets == 0 .. MaxTime
Idle == [stage |-> "idle"]
Stamped(b) == [stage |-> "stamped", bucket |-> b]
Passed == [stage |-> "passed"]

Init ==
    /\ now = 0
    /\ count = [b \in Buckets |-> 0]
    /\ touched = [b \in Buckets |-> 0]
    /\ check = [i \in Inquiries |-> Idle]
    /\ admitted = [b \in Buckets |-> 0]
    /\ overtaken = [b \in Buckets |-> 0]

Goto(i, next) == check' = [check EXCEPT ![i] = next]
Pending(i) == check[i].stage = "stamped"

----
(* The script.  "BadTotal" is a faulty variant of the definition after it, *)
(* no part of the specification: it shows that the property can fail.      *)

\* GET: 0 for a key that was never set or has expired.
Value(b) == IF now < touched[b] + TTL THEN count[b] ELSE 0

\* INCR and EXPIRE of the stamp's bucket.
Increment(b) ==
    /\ SumFunction(count) < MaxScripts
    /\ count' = [count EXCEPT ![b] = Value(b) + 1]
    /\ touched' = [touched EXCEPT ![b] = now]

\* The Window buckets that end with b.
WindowTo(b) == {y \in Buckets : y <= b /\ b < y + Window}
SumOfWindow(f, b) == SumFunctionOnSet(f, WindowTo(b))

\* The loop ends one bucket early.
BadTotal(b) ==
    1 + SumFunctionOnSet([x \in Buckets |-> Value(x)],
                         {y \in Buckets : y <= b /\ b < y + Window - 1})

\* The window that ends with the stamp's bucket, and the request itself.
Total(b) == 1 + SumOfWindow([x \in Buckets |-> Value(x)], b)

----
(* Check.                                                                  *)

\* nowSec := time.Now().Unix()
Stamp(i) ==
    /\ check[i] = Idle
    /\ Goto(i, Stamped(now))
    /\ UNCHANGED <<now, count, touched, admitted, overtaken>>

Pass(i) ==
    LET b == check[i].bucket
        late == \E later \in b + 1 .. now : count[later] > 0
    IN  /\ Pending(i) /\ Total(b) <= RPM
        /\ Increment(b)
        /\ admitted' = [admitted EXCEPT ![b] = @ + 1]
        /\ overtaken' = [overtaken EXCEPT ![b] = @ + IF late THEN 1 ELSE 0]
        /\ Goto(i, Passed)
        /\ UNCHANGED now

\* ErrRateLimitExceeded; the refused request stays counted.
Refuse(i) ==
    /\ Pending(i) /\ Total(check[i].bucket) > RPM
    /\ Increment(check[i].bucket)
    /\ Goto(i, Idle)
    /\ UNCHANGED <<now, admitted, overtaken>>

\* The script runs but its answer is lost: the client library repeats it.
Repeat(i) ==
    /\ Pending(i)
    /\ Increment(check[i].bucket)
    /\ UNCHANGED <<now, check, admitted, overtaken>>

\* Redis does not answer: the rule is skipped.  A rule after it may refuse.
Skip(i) ==
    /\ Pending(i)
    /\ check' \in {[check EXCEPT ![i] = Idle], [check EXCEPT ![i] = Passed]}
    /\ UNCHANGED <<now, count, touched, admitted, overtaken>>

\* The inquiry goes on to the budget, its check behind it.
Leave(i) ==
    /\ check[i] = Passed
    /\ Goto(i, Idle)
    /\ UNCHANGED <<now, count, touched, admitted, overtaken>>

Tick ==
    /\ now < MaxTime
    /\ \A i \in Inquiries : Pending(i) => now < check[i].bucket + MaxLag
    /\ now' = now + 1
    /\ UNCHANGED <<count, touched, check, admitted, overtaken>>

Check(i) == Stamp(i) \/ Pass(i) \/ Refuse(i) \/ Repeat(i) \/ Skip(i)

Next == Tick \/ \E i \in Inquiries : Check(i) \/ Leave(i)

Spec == Init /\ [][Next]_vars

----
(* What the rate limit guarantees.                                         *)

\* Of the requests stamped in any Window consecutive buckets, scripts that
\* run in the order of their stamps admit no more than the limit; those that
\* are overtaken, and so do not see some requests, at most raise this to the
\* limit once more for each bucket a script may lag.  (A request that Redis
\* did not answer passes without being admitted by a script.)
WindowBounded ==
    \A b \in Buckets :
       LET all == SumOfWindow(admitted, b)
       IN  /\ all - SumOfWindow(overtaken, b) <= RPM
           /\ all <= RPM * (MaxLag + 1)
====
