---- MODULE Probe ----
(***************************************************************************)
(* The liveness probe that holds a starting daemon back until the Central  *)
(* Server answers (internal/probe/probe.go), under the context of          *)
(* cmd/daemon that ends the probing as a whole.                            *)
(*                                                                         *)
(* Time passes in units, only while the daemon probes, and never past a    *)
(* deadline: a check ends within HttpTimeout, a wait when it is over, the  *)
(* probing at ProbeLimit.                                                  *)
(***************************************************************************)
EXTENDS Naturals

CONSTANTS
    InitialDelay,   \* initialDelay
    MaxDelay,       \* maxDelay
    HttpTimeout,    \* the timeout of httpClient
    ProbeLimit,     \* the timeout of probeCtx
    RetryLimits     \* values of MAX_LIVENESS_RETRIES; 0 sets no limit

\* Assumed by Deployment, which instantiates this module.
ProbeAssumption ==
    /\ InitialDelay \in Nat \ {0, 1} /\ MaxDelay \in Nat
    /\ InitialDelay <= MaxDelay
    /\ HttpTimeout \in Nat \ {0} /\ ProbeLimit \in Nat \ {0}
    /\ RetryLimits \subseteq Nat

VARIABLES
    up,           \* the Central Server answers
    upFor,        \* for how long, while it is probed
    phase,        \* "checking", "waiting", "running" (past it) or "dead"
    maxRetries,
    attempt,
    delay,
    left,         \* what is left of the check's timeout, or of the wait
    sawDown,      \* the server did not answer at some time of this check
    elapsed       \* of probeCtx

network == <<up, upFor>>
loop == <<phase, maxRetries, attempt, delay>>
vars == <<network, loop, left, sawDown, elapsed>>

Probing == phase \in {"checking", "waiting"}

\* The longest the server can be up without being noticed: a check it did
\* not answer to the end, the longest wait, and a check it answers.
Patience == 2 * HttpTimeout + MaxDelay + MaxDelay \div 2

Init ==
    /\ up \in BOOLEAN /\ upFor = 0
    /\ phase = "checking" /\ maxRetries \in RetryLimits /\ attempt = 1
    /\ delay = InitialDelay /\ left = HttpTimeout
    /\ sawDown = ~up /\ elapsed = 0

\* Run is called by a daemon that starts: the first check goes out.
Start ==
    /\ phase' = "checking" /\ attempt' = 1
    /\ delay' = InitialDelay /\ left' = HttpTimeout
    /\ upFor' = 0 /\ sawDown' = ~up /\ elapsed' = 0
    /\ UNCHANGED <<up, maxRetries>>

\* Run returns.  What it leaves behind is of no use to anybody.
Return(outcome) ==
    /\ phase' = outcome
    /\ attempt' = 1 /\ delay' = InitialDelay /\ left' = 0
    /\ sawDown' = FALSE /\ elapsed' = 0

----
(* The Central Server: it goes away and comes back.                        *)

Outage ==
    /\ up /\ up' = FALSE
    /\ upFor' = 0
    /\ sawDown' = (phase = "checking")
    /\ UNCHANGED <<loop, left, elapsed>>

Recover ==
    /\ ~up /\ up' = TRUE
    /\ UNCHANGED <<upFor, loop, left, sawDown, elapsed>>

----
(* Prober.Run.  The definitions "Bad..." are faulty variants of those that *)
(* follow them, no part of the specification: they show that the           *)
(* properties can fail.                                                    *)

\* The server answers 200 within the timeout.
CheckSucceeds ==
    /\ phase = "checking" /\ up
    /\ Return("running")
    /\ UNCHANGED <<network, maxRetries>>

\* The delay doubles for ever.
BadNextDelay(d) == 2 * d

\* nextDelay
NextDelay(d) == IF 2 * d > MaxDelay THEN MaxDelay ELSE 2 * d

\* The connection is refused or the timeout expires: the server did not
\* answer all the time.  The loop gives up after the last attempt, else
\* waits for the delay and a jitter below half of it.
CheckFails ==
    /\ phase = "checking" /\ sawDown
    /\ \/ /\ maxRetries > 0 /\ attempt >= maxRetries
          /\ Return("dead")
          /\ UNCHANGED maxRetries
       \/ /\ ~ (maxRetries > 0 /\ attempt >= maxRetries)
          /\ \E jitter \in 0 .. delay \div 2 - 1 : left' = delay + jitter
          /\ phase' = "waiting" /\ sawDown' = FALSE
          /\ UNCHANGED <<maxRetries, attempt, delay, elapsed>>
    /\ UNCHANGED network

\* Every attempt gets a context of its own.
BadRetry ==
    /\ phase = "waiting" /\ left = 0
    /\ phase' = "checking" /\ left' = HttpTimeout /\ sawDown' = ~up
    /\ delay' = NextDelay(delay)
    /\ attempt' = IF maxRetries > 0 THEN attempt + 1 ELSE attempt
    /\ elapsed' = 0
    /\ UNCHANGED <<network, maxRetries>>

\* The timer fires and the next check goes out.  Attempts are counted only
\* where something compares the count.
Retry ==
    /\ phase = "waiting" /\ left = 0
    /\ phase' = "checking" /\ left' = HttpTimeout /\ sawDown' = ~up
    /\ delay' = NextDelay(delay)
    /\ attempt' = IF maxRetries > 0 THEN attempt + 1 ELSE attempt
    /\ UNCHANGED <<network, maxRetries, elapsed>>

\* probeCtx is over, in a check or in a wait: cmd/daemon logs and exits.
GiveUp ==
    /\ Probing /\ elapsed = ProbeLimit
    /\ Return("dead")
    /\ UNCHANGED <<network, maxRetries>>

\* A signal while the daemon probes: no handler is installed yet.
Killed ==
    /\ Probing
    /\ Return("dead")
    /\ UNCHANGED <<network, maxRetries>>

\* A unit of time.
Tick ==
    /\ Probing /\ left > 0 /\ elapsed < ProbeLimit
    /\ left' = left - 1 /\ elapsed' = elapsed + 1
    /\ upFor' = IF up THEN upFor + 1 ELSE 0
    /\ UNCHANGED <<up, loop, sawDown>>

Step == CheckSucceeds \/ CheckFails \/ Retry \/ GiveUp \/ Tick

----
(* What the probe guarantees.                                              *)

TypeOK ==
    /\ up \in BOOLEAN /\ upFor \in 0 .. ProbeLimit
    /\ phase \in {"checking", "waiting", "running", "dead"}
    /\ maxRetries \in RetryLimits
    /\ attempt \in Nat \ {0}
    /\ delay \in InitialDelay .. MaxDelay
    /\ left \in 0 .. HttpTimeout + MaxDelay + MaxDelay \div 2
    /\ sawDown \in BOOLEAN /\ elapsed \in 0 .. ProbeLimit

\* The daemon that starts is never held back for ever: the probing comes to
\* an end, whatever the server does and also without a retry limit.
ProbeEnds == Probing ~> ~Probing

\* A server that is up stays unnoticed for a bounded time only, however
\* long it was away before: the back-off has a ceiling.
NoticesServer == upFor <= Patience
====
