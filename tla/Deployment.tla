---- MODULE Deployment ----
(***************************************************************************)
(* A daemon and its Central Server from the start of the process: the      *)
(* liveness probe (Probe) comes first, then the poller and the hot path    *)
(* (ConfigRollout).  The server goes away and comes back, the daemon is    *)
(* killed and restarted, and two command line tools write gateway_configs  *)
(* past the admin API: cmd/seed and cmd/update-config.                     *)
(***************************************************************************)
EXTENDS ConfigRollout

CONSTANTS
    InitialDelay, MaxDelay, HttpTimeout, ProbeLimit, RetryLimits, \* see Probe
    Seeded,        \* the configuration cmd/seed inserts
    MaxOutages     \* bound: outages of the Central Server

VARIABLES
    up, upFor, phase, maxRetries, attempt, delay, left, sawDown, elapsed,
    outages        \* history: outages so far

Prober == INSTANCE Probe

ASSUME DeploymentAssumption ==
    /\ Prober!ProbeAssumption
    /\ Seeded \in Contents /\ MaxOutages \in Nat

probe ==
    <<up, upFor, phase, maxRetries, attempt, delay, left, sawDown, elapsed,
      outages>>
deployment == <<vars, probe>>

DeploymentInit == Init /\ Prober!Init /\ outages = 0

----
(* The network and the process.                                            *)

Outage ==
    /\ outages < MaxOutages /\ outages' = outages + 1
    /\ Prober!Outage
    /\ UNCHANGED vars

Recover == Prober!Recover /\ UNCHANGED <<vars, outages>>

\* The steps of main up to the end of the liveness probe.
Probe == Prober!Step /\ UNCHANGED <<vars, outages>>

Killed == Prober!Killed /\ UNCHANGED <<vars, outages>>

\* The supervisor starts a new process, for one that runs or one that gave up.
Replace == phase \in {"running", "dead"} /\ Restart /\ Prober!Start
           /\ UNCHANGED outages

\* Everything the daemon does after the probe.
Daemon(action) == phase = "running" /\ action /\ UNCHANGED probe

\* The poller needs an answer of the server.
Fetch == up /\ Daemon(Poll)

----
(* Writers of gateway_configs.                                             *)

\* POST /admin/config
Admin(content) == up /\ Upload(content) /\ UNCHANGED probe

\* cmd/seed, run once more: it adds its configuration where no row has it.
Seed ==
    /\ \A r \in 1 .. Len(rows) : rows[r] # Seeded
    /\ Upload(Seeded) /\ UNCHANGED probe

\* cmd/update-config adds a row on every run; the API keys are encrypted with
\* fresh nonces, so the content is new.  An error before the INSERT changes
\* nothing, one after it (provider_accounts, which nobody reads) keeps the row.
UpdateConfig(content) ==
    /\ \A r \in 1 .. Len(rows) : rows[r] # content
    /\ Upload(content) /\ UNCHANGED probe

----
DeploymentNext ==
    \/ Outage \/ Recover \/ Probe \/ Killed \/ Replace
    \/ \E c \in Contents : Admin(c) \/ UpdateConfig(c)
    \/ Seed
    \/ Fetch
    \/ Daemon(Forward) \/ Daemon(Receive) \/ Daemon(Apply)
    \/ \E i \in Inquiries :
          Daemon(Begin(i)) \/ Daemon(Read(i)) \/ Daemon(End(i))

\* The process runs and time passes, and the ticker of the poller fires.
\* Nothing is assumed of the server, which may stay away, and of
\* administrators, inquiries, signals and restarts.
Fairness ==
    /\ WF_deployment(Probe) /\ WF_deployment(Fetch)
    /\ WF_deployment(Daemon(Forward))
    /\ WF_deployment(Daemon(Receive)) /\ WF_deployment(Daemon(Apply))

DeploymentSpec ==
    DeploymentInit /\ [][DeploymentNext]_deployment /\ Fairness

----
(* What the deployment guarantees.                                         *)

DeploymentTypeOK ==
    /\ TypeOK /\ Prober!TypeOK
    /\ outages \in 0 .. MaxOutages
    /\ phase # "running" => version = NoVersion /\ ~serving /\ configChan = <<>>

\* Probe!ProbeEnds: the probing of a daemon that starts comes to an end,
\* whatever the server does and also without a retry limit.
ProbeEnds == Prober!ProbeEnds

\* Probe!NoticesServer: a daemon that probes notices a server that is up
\* within a bounded time, however long it was away before.
NoticesServer == Prober!NoticesServer

\* Once the writers stop, a daemon that did not exit ends up with the content
\* of the last row in every component, through outages and restarts, unless
\* the server stays away.
Converges ==
    <>[](\/ phase = "dead" \/ ~up
         \/ /\ phase = "running"
            /\ rows # <<>> =>
                  \A c \in Components :
                     installed[c] # None /\ rows[installed[c]] = rows[Len(rows)])
====
