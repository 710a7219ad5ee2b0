---- MODULE CircuitBreaker ----
(***************************************************************************)
(* The per-provider circuit breaker of the daemon's dispatcher             *)
(* (internal/llm/circuitbreaker.go) and the calls that drive it            *)
(* (internal/llm/dispatcher.go, Dispatch and Update).                      *)
(*                                                                         *)
(* Several goroutines dispatch concurrently.  The breaker's mutex makes    *)
(* each of Allow, RecordSuccess and RecordFailure atomic, but not the      *)
(* sequence Allow; lookup; send; Record of one Dispatch: outcomes are      *)
(* recorded in any order, and long after the breaker changed its state.    *)
(*                                                                         *)
(* Instants are kept as elapsed times (time.Since(openedAt), now minus a   *)
(* failure's timestamp) in ticks.  An elapsed time is compared with one    *)
(* duration only, so it stops growing one tick past that duration.         *)
(***************************************************************************)
EXTENDS Naturals, Sequences, FiniteSets

CONSTANTS
    Providers,          \* provider names that requests carry
    Requests,           \* goroutines that may be inside Dispatch at once
    FailureThreshold,   \* failureThreshold
    ObservationWindow,  \* observationWindow, in ticks
    HalfOpenDelay       \* halfOpenDelay, in ticks

ASSUME BreakerAssumption ==
    /\ FailureThreshold \in Nat \ {0}
    /\ ObservationWindow \in Nat
    /\ HalfOpenDelay \in Nat \ {0}

VARIABLES
    breaker,     \* CircuitBreaker.providers: provider -> providerState
    configured,  \* names in Dispatcher.providers (enabled and decrypted)
    request      \* where each goroutine stands in Dispatch

vars == <<breaker, configured, request>>

State == {"closed", "open", "half_open"}

ProviderState ==
    [state : State,
     failures : Seq(0 .. ObservationWindow + 1),  \* age of each failure
     sinceOpened : 0 .. HalfOpenDelay + 1,        \* time.Since(openedAt)
     halfOpenInFlight : BOOLEAN]

\* "probe" is a history field: Allow let the request through as a probe.
Call ==
    [stage : {"admitted", "sending", "unknown"},
     provider : Providers,
     probe : BOOLEAN]

Idle == [stage |-> "idle"]

InFlight(r, p) == request[r] # Idle /\ request[r].provider = p

----
(* The breaker: what each of its methods decides and leaves behind.        *)

\* Faulty variants of the definitions that follow them, "Bad...", are never
\* part of the specification: they only show that the properties can fail.
\* Here the state is left at the zero value of its type.
BadNewProviderState ==
    [state |-> "", failures |-> <<>>,
     sinceOpened |-> 0, halfOpenInFlight |-> FALSE]

\* getOrCreate.
NewProviderState ==
    [state |-> "closed", failures |-> <<>>,
     sinceOpened |-> 0, halfOpenInFlight |-> FALSE]

\* Failures are recorded oldest first, so dropping the expired ones leaves
\* as many of the last ones as are still inside the window.
PruneFailures(ages) ==
    LET fresh == {i \in 1 .. Len(ages) : ages[i] <= ObservationWindow}
    IN  SubSeq(ages, Len(ages) - Cardinality(fresh) + 1, Len(ages))

\* A breaker that opened never tries again.
BadAllowsCooldownForgotten(b) ==
    \/ b.state = "closed"
    \/ b.state = "half_open" /\ ~b.halfOpenInFlight

\* The answer of Allow.
Allows(b) ==
    \/ b.state = "closed"
    \/ b.state = "open" /\ b.sinceOpened >= HalfOpenDelay
    \/ b.state = "half_open" /\ ~b.halfOpenInFlight

\* The state Allow leaves when it answers true.
AfterAllow(b) ==
    IF b.state = "closed" THEN b
    ELSE [b EXCEPT !.state = "half_open", !.halfOpenInFlight = TRUE]

BadAfterSuccessKeepsFailures(b) ==
    [b EXCEPT !.state = "closed", !.halfOpenInFlight = FALSE]

AfterSuccess(b) ==
    [b EXCEPT !.state = "closed", !.failures = <<>>,
              !.halfOpenInFlight = FALSE]

\* The failed probe does not re-open the breaker.
BadAfterFailureProbeStays(b) ==
    LET recent == PruneFailures(Append(b.failures, 0))
        opens  == b.state = "closed" /\ Len(recent) >= FailureThreshold
    IN  [b EXCEPT !.failures = recent,
                  !.state = IF opens THEN "open" ELSE @,
                  !.sinceOpened = IF opens THEN 0 ELSE @]

\* Any failure over the threshold restarts the cooldown, whatever the state.
BadAfterFailureRestartsCooldown(b) ==
    LET recent == PruneFailures(Append(b.failures, 0))
        opens  == Len(recent) >= FailureThreshold \/ b.state = "half_open"
    IN  [b EXCEPT !.failures = recent,
                  !.halfOpenInFlight = FALSE,
                  !.state = IF opens THEN "open" ELSE @,
                  !.sinceOpened = IF opens THEN 0 ELSE @]

AfterFailure(b) ==
    LET recent == PruneFailures(Append(b.failures, 0))
        opens  == \/ b.state = "closed" /\ Len(recent) >= FailureThreshold
                  \/ b.state = "half_open"
    IN  [b EXCEPT !.failures = recent,
                  !.halfOpenInFlight = FALSE,
                  !.state = IF opens THEN "open" ELSE @,
                  !.sinceOpened = IF opens THEN 0 ELSE @]

----
(* Dispatch, step by step.  A refused request leaves no trace: Allow       *)
(* answers false and Dispatch returns, which is a stuttering step.         *)

Init ==
    /\ breaker = [p \in Providers |-> NewProviderState]
    /\ configured \in SUBSET Providers
    /\ request = [r \in Requests |-> Idle]

Allow(r, p) ==
    /\ request[r] = Idle
    /\ Allows(breaker[p])
    /\ request' = [request EXCEPT ![r] =
                     [stage |-> "admitted", provider |-> p,
                      probe |-> breaker[p].state # "closed"]]
    /\ breaker' = [breaker EXCEPT ![p] = AfterAllow(@)]
    /\ UNCHANGED configured

\* The provider map is read under its own lock, after Allow returned.
Lookup(r) ==
    /\ request[r].stage = "admitted"
    /\ request' = [request EXCEPT ![r].stage =
                     IF request[r].provider \in configured
                     THEN "sending" ELSE "unknown"]
    /\ UNCHANGED <<breaker, configured>>

\* The goroutine leaves Dispatch, its outcome recorded.
Return(r) == request' = [request EXCEPT ![r] = Idle]

\* send returned an error (HTTP status, timeout, a cancelled client), or
\* there was no such provider.
RecordFailure(r) ==
    /\ request[r].stage \in {"sending", "unknown"}
    /\ breaker' = [breaker EXCEPT ![request[r].provider] = AfterFailure(@)]
    /\ Return(r)
    /\ UNCHANGED configured

RecordSuccess(r) ==
    /\ request[r].stage = "sending"
    /\ breaker' = [breaker EXCEPT ![request[r].provider] = AfterSuccess(@)]
    /\ Return(r)
    /\ UNCHANGED configured

\* Dispatcher.Update: the provider map is replaced as a whole; a provider
\* that is disabled or whose key cannot be decrypted is not in the new one.
Update(S) ==
    /\ S # configured
    /\ configured' = S
    /\ UNCHANGED <<breaker, request>>

Older(age, limit) == IF age <= limit THEN age + 1 ELSE age

Tick ==
    /\ breaker' =
         [p \in Providers |->
            [breaker[p] EXCEPT
               !.failures = [i \in 1 .. Len(@) |->
                               Older(@[i], ObservationWindow)],
               !.sinceOpened = Older(@, HalfOpenDelay)]]
    /\ UNCHANGED <<configured, request>>

Next ==
    \/ \E r \in Requests : \/ \E p \in Providers : Allow(r, p)
                           \/ Lookup(r)
                           \/ RecordFailure(r)
                           \/ RecordSuccess(r)
    \/ \E S \in SUBSET Providers : Update(S)
    \/ Tick

\* Time passes, and a goroutine inside Dispatch runs on: the HTTP client
\* of the dispatcher has a timeout, so every send returns.  Nothing makes a
\* client send a request, a provider succeed, or an operator reconfigure.
Fairness ==
    /\ WF_vars(Tick)
    /\ \A r \in Requests : /\ WF_vars(Lookup(r))
                           /\ WF_vars(RecordFailure(r) \/ RecordSuccess(r))

Spec == Init /\ [][Next]_vars
FairSpec == Spec /\ Fairness

----
(* What the breaker guarantees.                                            *)

TypeOK ==
    /\ breaker \in [Providers -> ProviderState]
    /\ configured \in SUBSET Providers
    /\ request \in [Requests -> Call \cup {Idle}]

\* Cooling down: open for less than halfOpenDelay.
Cooling(p) ==
    breaker[p].state = "open" /\ breaker[p].sinceOpened < HalfOpenDelay

\* The flag is set exactly in the half-open state, whatever late outcomes of
\* earlier requests clear it or move the state: the branch of Allow that
\* admits a second request in half-open is never taken.
ProbeFlagIsHalfOpen ==
    \A p \in Providers :
        breaker[p].halfOpenInFlight <=> breaker[p].state = "half_open"

\* The breaker never locks a provider out: when it refuses, either the
\* cooldown runs or a request it let through has yet to record an outcome
\* (which moves the breaker out of half-open).
NeverWedged ==
    \A p \in Providers :
        ~Allows(breaker[p]) => Cooling(p) \/ \E r \in Requests : InFlight(r, p)

\* While half-open, the request that will decide is still inside Dispatch.
ProbeOutstanding ==
    \A p \in Providers :
        breaker[p].state = "half_open" => \E r \in Requests : InFlight(r, p)

\* A closed breaker is always one failure or more away from having had to
\* open: recovering forgets the failures that tripped it.
ClosedBelowThreshold ==
    \A p \in Providers :
        breaker[p].state = "closed" =>
            Len(breaker[p].failures) < FailureThreshold

\* Failures recorded late, while the breaker is already open, do not push
\* the next probe back.
LateFailureKeepsDeadline ==
    [][\A p \in Providers :
          breaker[p].state = "open" /\ breaker'[p].state = "open" =>
              breaker'[p].sinceOpened >= breaker[p].sinceOpened]_vars

\* A half-open breaker is always decided.
ProbeResolves ==
    \A p \in Providers :
        breaker[p].state = "half_open" ~> breaker[p].state # "half_open"

\* What the comments of circuitbreaker.go promise of the half-open state:
\* one request at a time tests the provider.
OneProbeAtATime ==
    \A p \in Providers :
        Cardinality({r \in Requests : InFlight(r, p) /\ request[r].probe}) <= 1
====
