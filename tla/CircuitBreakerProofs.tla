---- MODULE CircuitBreakerProofs ----
(* Theorems of the circuit breaker, for every set of providers and         *)
(* requests, every threshold and every duration.                           *)
EXTENDS CircuitBreaker, FiniteSetTheorems, TLAPS

\* Dropping the expired failures leaves a sequence of failure ages.
LEMMA PruneFailuresType ==
    ASSUME NEW T, NEW ages \in Seq(T)
    PROVE  PruneFailures(ages) \in Seq(T)
<1> DEFINE fresh == {i \in 1 .. Len(ages) : ages[i] <= ObservationWindow}
<1>0. Len(ages) \in Nat
  OBVIOUS
<1>1. /\ IsFiniteSet(1 .. Len(ages))
      /\ Cardinality(1 .. Len(ages)) = Len(ages)
  BY <1>0, FS_Interval
<1>2. Cardinality(fresh) \in 0 .. Len(ages)
  <2>1. fresh \subseteq 1 .. Len(ages)
    OBVIOUS
  <2>2. /\ IsFiniteSet(fresh)
        /\ Cardinality(fresh) <= Len(ages)
    BY <1>1, <2>1, FS_Subset
  <2>3. QED
    BY <2>2, FS_CardinalityType
<1> DEFINE first == Len(ages) - Cardinality(fresh) + 1
<1>3. first \in 1 .. Len(ages) + 1
  BY <1>0, <1>2
<1> HIDE DEF fresh, first
<1>4. SubSeq(ages, first, Len(ages)) \in Seq(T)
  BY <1>3
<1>5. QED
  BY <1>4 DEF PruneFailures, fresh, first

\* What each method leaves of a provider's state has the right shape.
LEMMA AfterAllowType ==
    ASSUME NEW b \in ProviderState
    PROVE  AfterAllow(b) \in ProviderState
BY DEF AfterAllow, ProviderState, State

LEMMA AfterSuccessType ==
    ASSUME NEW b \in ProviderState
    PROVE  AfterSuccess(b) \in ProviderState
<1>1. <<>> \in Seq(0 .. ObservationWindow + 1)
  OBVIOUS
<1>2. QED
  BY <1>1 DEF AfterSuccess, ProviderState, State

LEMMA AfterFailureType ==
    ASSUME NEW b \in ProviderState
    PROVE  AfterFailure(b) \in ProviderState
<1> DEFINE recent == PruneFailures(Append(b.failures, 0))
<1>1. Append(b.failures, 0) \in Seq(0 .. ObservationWindow + 1)
  BY BreakerAssumption DEF ProviderState
<1>2. recent \in Seq(0 .. ObservationWindow + 1)
  BY <1>1, PruneFailuresType
<1> DEFINE opens == \/ b.state = "closed" /\ Len(recent) >= FailureThreshold
                    \/ b.state = "half_open"
<1>3. AfterFailure(b) = [b EXCEPT !.failures = recent,
                                  !.halfOpenInFlight = FALSE,
                                  !.state = IF opens THEN "open" ELSE @,
                                  !.sinceOpened = IF opens THEN 0 ELSE @]
  BY DEF AfterFailure
<1> HIDE DEF recent, opens
<1>4. 0 \in 0 .. HalfOpenDelay + 1
  BY BreakerAssumption
<1>5. CASE opens
  BY <1>2, <1>3, <1>4, <1>5 DEF ProviderState, State
<1>6. CASE ~opens
  BY <1>2, <1>3, <1>6 DEF ProviderState, State
<1>7. QED
  BY <1>5, <1>6

\* A tick ages a provider's state within its type, and moves no provider
\* from one state to another.
LEMMA OlderState ==
    ASSUME NEW b \in ProviderState
    PROVE  LET aged == [b EXCEPT
                          !.failures = [i \in 1 .. Len(@) |->
                                          Older(@[i], ObservationWindow)],
                          !.sinceOpened = Older(@, HalfOpenDelay)]
           IN  /\ aged \in ProviderState
               /\ aged.state = b.state
               /\ aged.halfOpenInFlight = b.halfOpenInFlight
               /\ Len(aged.failures) = Len(b.failures)
               /\ aged.sinceOpened >= b.sinceOpened
<1> DEFINE ages == [i \in 1 .. Len(b.failures) |->
                      Older(b.failures[i], ObservationWindow)]
           since == Older(b.sinceOpened, HalfOpenDelay)
<1>1. b.failures \in Seq(0 .. ObservationWindow + 1)
  BY DEF ProviderState
<1>2. Len(b.failures) \in Nat
  BY <1>1
<1>3. \A i \in 1 .. Len(b.failures) : ages[i] \in 0 .. ObservationWindow + 1
  BY <1>1, BreakerAssumption DEF Older
<1>4. ages \in Seq(0 .. ObservationWindow + 1) /\ Len(ages) = Len(b.failures)
  <2> DEFINE n == Len(b.failures)
  <2>1. ages \in [1 .. n -> 0 .. ObservationWindow + 1]
    BY <1>3
  <2> HIDE DEF ages, n
  <2>2. \A T : ages \in [1 .. n -> T] => ages \in Seq(T) /\ Len(ages) = n
    BY <1>2 DEF n
  <2>3. QED
    BY <2>1, <2>2 DEF n
<1>5. since \in 0 .. HalfOpenDelay + 1 /\ since >= b.sinceOpened
  BY BreakerAssumption DEF Older, ProviderState
<1> DEFINE aged == [b EXCEPT !.failures = ages, !.sinceOpened = since]
<1> HIDE DEF ages, since
<1>6. /\ aged \in ProviderState
      /\ aged.state = b.state
      /\ aged.halfOpenInFlight = b.halfOpenInFlight
      /\ aged.failures = ages
      /\ aged.sinceOpened = since
  BY <1>4, <1>5 DEF ProviderState
<1>7. QED
  BY <1>4, <1>5, <1>6 DEF ages, since

----
(* Type correctness.                                                       *)

\* One step of the specification keeps the types.
LEMMA TypeOKStep == TypeOK /\ [Next]_vars => TypeOK'
<1> SUFFICES ASSUME TypeOK, [Next]_vars
             PROVE  TypeOK'
  OBVIOUS
<1> USE DEF TypeOK
<1>1. ASSUME NEW r \in Requests, NEW p \in Providers, Allow(r, p)
      PROVE  TypeOK'
  <2>1. AfterAllow(breaker[p]) \in ProviderState
    BY AfterAllowType
  <2>2. [stage |-> "admitted", provider |-> p,
         probe |-> breaker[p].state # "closed"] \in Call
    BY DEF Call
  <2>3. QED
    BY <1>1, <2>1, <2>2 DEF Allow
<1>2. ASSUME NEW r \in Requests, Lookup(r)
      PROVE  TypeOK'
  <2>1. request[r] \in Call
    BY <1>2 DEF Lookup, Idle
  <2>2. \A s \in {"sending", "unknown"} :
            [request[r] EXCEPT !.stage = s] \in Call
    BY <2>1 DEF Call
  <2>3. QED
    BY <1>2, <2>2 DEF Lookup
<1>3. ASSUME NEW r \in Requests, RecordFailure(r)
      PROVE  TypeOK'
  <2>1. request[r].provider \in Providers
    BY <1>3 DEF RecordFailure, Idle, Call
  <2>2. AfterFailure(breaker[request[r].provider]) \in ProviderState
    BY <2>1, AfterFailureType
  <2>3. QED
    BY <1>3, <2>1, <2>2 DEF RecordFailure, Return
<1>4. ASSUME NEW r \in Requests, RecordSuccess(r)
      PROVE  TypeOK'
  <2>1. request[r].provider \in Providers
    BY <1>4 DEF RecordSuccess, Idle, Call
  <2>2. AfterSuccess(breaker[request[r].provider]) \in ProviderState
    BY <2>1, AfterSuccessType
  <2>3. QED
    BY <1>4, <2>1, <2>2 DEF RecordSuccess, Return
<1>5. ASSUME NEW S \in SUBSET Providers, Update(S)
      PROVE  TypeOK'
  BY <1>5 DEF Update
<1>6. ASSUME Tick
      PROVE  TypeOK'
  BY <1>6, OlderState DEF Tick
<1>7. CASE UNCHANGED vars
  BY <1>7 DEF vars
<1>8. QED
  BY <1>1, <1>2, <1>3, <1>4, <1>5, <1>6, <1>7 DEF Next

\* Type correctness of the breaker and of the requests that drive it.
THEOREM TypeCorrect == Spec => []TypeOK
<1>1. Init => TypeOK
  <2>1. NewProviderState \in ProviderState
    <3>1. <<>> \in Seq(0 .. ObservationWindow + 1)
      OBVIOUS
    <3>2. QED
      BY <3>1, BreakerAssumption DEF NewProviderState, ProviderState, State
  <2>2. QED
    BY <2>1 DEF Init, TypeOK
<1>2. QED
  BY <1>1, TypeOKStep, PTL DEF Spec

----
(* The safety invariants.  None is inductive alone: that the flag is set   *)
(* exactly in half-open is what makes a recorded outcome leave half-open,  *)
(* and only therefore is a request outstanding for as long as it lasts.    *)

IInv == ProbeFlagIsHalfOpen /\ ProbeOutstanding /\ ClosedBelowThreshold

\* A recorded failure never leaves the breaker half-open, nor closed with as
\* many failures as the threshold, and does not restart a cooldown.
LEMMA AfterFailureFacts ==
    ASSUME NEW b \in ProviderState
    PROVE  /\ AfterFailure(b).state # "half_open"
           /\ ~AfterFailure(b).halfOpenInFlight
           /\ AfterFailure(b).state = "closed" =>
                Len(AfterFailure(b).failures) < FailureThreshold
           /\ b.state = "open" => AfterFailure(b).sinceOpened = b.sinceOpened
<1> DEFINE recent == PruneFailures(Append(b.failures, 0))
           opens == \/ b.state = "closed" /\ Len(recent) >= FailureThreshold
                    \/ b.state = "half_open"
           new == AfterFailure(b)
<1>1. recent \in Seq(0 .. ObservationWindow + 1)
  <2>1. Append(b.failures, 0) \in Seq(0 .. ObservationWindow + 1)
    BY BreakerAssumption DEF ProviderState
  <2>2. QED
    BY <2>1, PruneFailuresType
<1>2. Len(recent) \in Nat
  BY <1>1
<1> HIDE DEF recent
<1>3. /\ new.failures = recent
      /\ ~new.halfOpenInFlight
      /\ new.state = IF opens THEN "open" ELSE b.state
      /\ new.sinceOpened = IF opens THEN 0 ELSE b.sinceOpened
  BY DEF AfterFailure, ProviderState, recent
<1>4. b.state \in {"closed", "open", "half_open"}
  BY DEF ProviderState, State
<1> HIDE DEF new
<1>5. new.state = "closed" => Len(new.failures) < FailureThreshold
  BY <1>2, <1>3, <1>4, BreakerAssumption
<1>6. new.state # "half_open"
  BY <1>3, <1>4
<1>7. b.state = "open" => new.sinceOpened = b.sinceOpened
  BY <1>3
<1>8. QED
  BY <1>3, <1>5, <1>6, <1>7 DEF new

LEMMA AfterSuccessFacts ==
    ASSUME NEW b \in ProviderState
    PROVE  /\ AfterSuccess(b).state = "closed"
           /\ ~AfterSuccess(b).halfOpenInFlight
           /\ Len(AfterSuccess(b).failures) < FailureThreshold
BY BreakerAssumption DEF AfterSuccess, ProviderState

\* A provider whose own state is untouched, or only aged, by a step that no
\* request to it completes in, keeps what IInv says of it.
LEMMA UntouchedProvider ==
    ASSUME NEW p \in Providers, IInv,
           breaker'[p].state = breaker[p].state,
           breaker'[p].halfOpenInFlight = breaker[p].halfOpenInFlight,
           Len(breaker'[p].failures) = Len(breaker[p].failures),
           \A r \in Requests : InFlight(r, p) => InFlight(r, p)'
    PROVE  /\ breaker'[p].halfOpenInFlight <=> breaker'[p].state = "half_open"
           /\ breaker'[p].state = "half_open" => \E r \in Requests : InFlight(r, p)'
           /\ breaker'[p].state = "closed" =>
                Len(breaker'[p].failures) < FailureThreshold
BY DEF IInv, ProbeFlagIsHalfOpen, ProbeOutstanding, ClosedBelowThreshold

\* One step keeps the three invariants together.
LEMMA IInvStep == TypeOK /\ IInv /\ [Next]_vars => IInv'
<1> SUFFICES ASSUME TypeOK, IInv, [Next]_vars, NEW q \in Providers
             PROVE  /\ breaker'[q].halfOpenInFlight <=>
                         breaker'[q].state = "half_open"
                    /\ breaker'[q].state = "half_open" =>
                         \E r \in Requests : InFlight(r, q)'
                    /\ breaker'[q].state = "closed" =>
                         Len(breaker'[q].failures) < FailureThreshold
  BY DEF IInv, ProbeFlagIsHalfOpen, ProbeOutstanding, ClosedBelowThreshold
<1> DEFINE Goal == /\ breaker'[q].halfOpenInFlight <=>
                         breaker'[q].state = "half_open"
                   /\ breaker'[q].state = "half_open" =>
                         \E r \in Requests : InFlight(r, q)'
                   /\ breaker'[q].state = "closed" =>
                         Len(breaker'[q].failures) < FailureThreshold
<1>1. ASSUME NEW r \in Requests, NEW p \in Providers, Allow(r, p)
      PROVE  Goal
  <2>1. CASE p = q /\ breaker[q].state # "closed"
    <3>1. /\ breaker'[q].state = "half_open"
          /\ breaker'[q].halfOpenInFlight
      BY <1>1, <2>1 DEF Allow, AfterAllow, TypeOK, ProviderState
    <3>2. InFlight(r, q)'
      BY <1>1, <2>1 DEF Allow, InFlight, Idle, TypeOK
    <3>3. QED
      BY <3>1, <3>2
  <2>2. CASE ~(p = q /\ breaker[q].state # "closed")
    <3>1. breaker'[q] = breaker[q]
      BY <1>1, <2>2 DEF Allow, AfterAllow, TypeOK
    <3>2. \A x \in Requests : InFlight(x, q) => InFlight(x, q)'
      BY <1>1 DEF Allow, InFlight, TypeOK
    <3>3. QED
      BY <3>1, <3>2, UntouchedProvider
  <2>3. QED
    BY <2>1, <2>2
<1>2. ASSUME NEW r \in Requests, Lookup(r)
      PROVE  Goal
  <2>1. request[r] \in Call
    BY <1>2 DEF Lookup, Idle, TypeOK
  <2>2. \A x \in Requests : InFlight(x, q) => InFlight(x, q)'
    BY <1>2, <2>1 DEF Lookup, InFlight, Idle, Call, TypeOK
  <2>3. breaker' = breaker
    BY <1>2 DEF Lookup
  <2>4. QED
    BY <2>2, <2>3, UntouchedProvider
<1>3. ASSUME NEW r \in Requests, RecordFailure(r) \/ RecordSuccess(r)
      PROVE  Goal
  <2> DEFINE p == request[r].provider
  <2>1. p \in Providers
    BY <1>3 DEF RecordFailure, RecordSuccess, Idle, Call, TypeOK
  <2>2. CASE p = q
    <3>1. breaker'[q] = AfterFailure(breaker[q])
            \/ breaker'[q] = AfterSuccess(breaker[q])
      BY <1>3, <2>2 DEF RecordFailure, RecordSuccess, TypeOK
    <3>2. breaker[q] \in ProviderState
      BY DEF TypeOK
    <3>3. QED
      BY <3>1, <3>2, AfterFailureFacts, AfterSuccessFacts
  <2>3. CASE p # q
    <3>1. breaker'[q] = breaker[q]
      BY <1>3, <2>3 DEF RecordFailure, RecordSuccess, TypeOK
    <3>2. \A x \in Requests : InFlight(x, q) => InFlight(x, q)'
      BY <1>3, <2>3 DEF RecordFailure, RecordSuccess, Return, InFlight, TypeOK
    <3>3. QED
      BY <3>1, <3>2, UntouchedProvider
  <2>4. QED
    BY <2>2, <2>3
<1>4. ASSUME NEW S \in SUBSET Providers, Update(S)
      PROVE  Goal
  BY <1>4, UntouchedProvider DEF Update, InFlight
<1>5. ASSUME Tick
      PROVE  Goal
  <2>1. breaker[q] \in ProviderState
    BY DEF TypeOK
  <2>2. /\ breaker'[q].state = breaker[q].state
        /\ breaker'[q].halfOpenInFlight = breaker[q].halfOpenInFlight
        /\ Len(breaker'[q].failures) = Len(breaker[q].failures)
    BY <1>5, <2>1, OlderState DEF Tick
  <2>3. \A x \in Requests : InFlight(x, q) => InFlight(x, q)'
    BY <1>5 DEF Tick, InFlight
  <2>4. QED
    BY <2>2, <2>3, UntouchedProvider
<1>6. CASE UNCHANGED vars
  BY <1>6, UntouchedProvider DEF vars, InFlight
<1>7. QED
  BY <1>1, <1>2, <1>3, <1>4, <1>5, <1>6 DEF Next

LEMMA IInvCorrect == Spec => []IInv
<1>1. Init => IInv
  BY BreakerAssumption
     DEF Init, NewProviderState, IInv, ProbeFlagIsHalfOpen, ProbeOutstanding,
         ClosedBelowThreshold
<1>2. QED
  BY <1>1, IInvStep, TypeCorrect, PTL DEF Spec

\* The in-flight flag is set exactly while the breaker is half-open.
THEOREM FlagCorrect == Spec => []ProbeFlagIsHalfOpen
BY IInvCorrect, PTL DEF IInv

\* A closed breaker holds fewer recent failures than open it.
THEOREM ClosedCorrect == Spec => []ClosedBelowThreshold
BY IInvCorrect, PTL DEF IInv

\* The breaker refuses only in a cooldown or with a request outstanding.
THEOREM NeverWedgedCorrect == Spec => []NeverWedged
<1>1. TypeOK /\ IInv => NeverWedged
  BY BreakerAssumption
     DEF TypeOK, IInv, ProbeFlagIsHalfOpen, ProbeOutstanding, NeverWedged,
         Allows, Cooling, ProviderState, State
<1>2. QED
  BY <1>1, TypeCorrect, IInvCorrect, PTL

\* No step that leaves a breaker open shortens the time it has been open.
THEOREM DeadlineCorrect == Spec => LateFailureKeepsDeadline
<1> DEFINE Keeps == \A p \in Providers :
              breaker[p].state = "open" /\ breaker'[p].state = "open" =>
                  breaker'[p].sinceOpened >= breaker[p].sinceOpened
<1>1. TypeOK /\ [Next]_vars => [Keeps]_vars
  <2> SUFFICES ASSUME TypeOK, Next, NEW q \in Providers,
                      breaker[q].state = "open", breaker'[q].state = "open"
               PROVE  breaker'[q].sinceOpened >= breaker[q].sinceOpened
    OBVIOUS
  <2>0. /\ breaker[q] \in ProviderState
        /\ breaker[q].sinceOpened \in Nat
    BY BreakerAssumption DEF TypeOK, ProviderState
  <2>1. CASE breaker'[q] = breaker[q]
    BY <2>0, <2>1
  <2>2. ASSUME NEW r \in Requests, NEW p \in Providers, Allow(r, p)
        PROVE  breaker'[q] = breaker[q]
    BY <2>2, <2>0 DEF Allow, AfterAllow, TypeOK, ProviderState
  <2>3. ASSUME NEW r \in Requests, RecordFailure(r)
        PROVE  breaker'[q] = breaker[q]
                 \/ breaker'[q] = AfterFailure(breaker[q])
    BY <2>3 DEF RecordFailure, TypeOK
  <2>4. ASSUME NEW r \in Requests, RecordSuccess(r)
        PROVE  breaker'[q] = breaker[q]
    <3>1. breaker'[q] = breaker[q] \/ breaker'[q] = AfterSuccess(breaker[q])
      BY <2>4 DEF RecordSuccess, TypeOK
    <3>2. QED
      BY <3>1, <2>0, AfterSuccessFacts
  <2>5. ASSUME Tick
        PROVE  breaker'[q].sinceOpened >= breaker[q].sinceOpened
    BY <2>5, <2>0, OlderState DEF Tick
  <2>6. ASSUME breaker'[q] = AfterFailure(breaker[q])
        PROVE  breaker'[q].sinceOpened >= breaker[q].sinceOpened
    BY <2>6, <2>0, AfterFailureFacts
  <2>7. QED
    BY <2>1, <2>2, <2>3, <2>4, <2>5, <2>6 DEF Next, Lookup, Update
<1>2. QED
  BY <1>1, TypeCorrect, PTL DEF Spec, LateFailureKeepsDeadline
====
