---- MODULE ConfigRollout ----
(***************************************************************************)
(* How a gateway configuration gets from the admin API into the inquiries  *)
(* of a daemon: the table gateway_configs and POST /config on the Central  *)
(* Server (internal/server/repository/config_store.go, configstore, api),  *)
(* the poller (internal/poller), configChan, applyConfig in cmd/daemon,    *)
(* and the hot path that reads what was applied (internal/daemon).         *)
(*                                                                         *)
(* A configuration is identified by its content: the version is a hash.    *)
(* The row number is known to the server only; here it tells two uploads   *)
(* of the same content apart.                                              *)
(***************************************************************************)
EXTENDS Naturals, Sequences

CONSTANTS
    Contents,      \* configurations the administrators upload
    Inquiries,     \* goroutines inside HotPipeline.Execute
    ChanCap,       \* capacity of configChan
    MaxUploads,    \* bound: rows of gateway_configs
    MaxRestarts    \* bound: restarts of the daemon

\* The version a poller reports that has fetched nothing yet.
NoVersion == ""

ASSUME RolloutAssumption ==
    /\ ChanCap \in Nat \ {0}
    /\ MaxUploads \in Nat /\ MaxRestarts \in Nat
    /\ NoVersion \notin Contents

VARIABLES
    rows,         \* gateway_configs: the content of each row, oldest first
    version,      \* Poller.currentVersion, NoVersion before the first fetch
    forwarding,   \* the configuration the poller is about to send, or None
    configChan,
    applying,     \* the configuration applyConfig is working on, or None
    applied,      \* how many components it has updated
    installed,    \* the row each component holds, 0 for none
    serving,      \* the proxy servers are started
    inquiry,      \* the hot path of each inquiry
    restarts

server == <<rows>>
poll == <<version, forwarding, configChan>>
apply == <<applying, applied, installed, serving>>
vars == <<server, poll, apply, inquiry, restarts>>

\* applyConfig updates the components in this order ...
ApplyOrder ==
    <<"dispatcher", "prompts", "skills", "mcps", "guardrail", "budget",
      "ratelimit">>
\* ... and Execute reads them in this one, the guardrail for its input and
\* its output hook, the budget for Check and for Record.
ReadOrder ==
    <<"prompts", "skills", "guardrail", "ratelimit", "budget", "dispatcher",
      "guardrail", "budget">>

Components == {ApplyOrder[i] : i \in 1 .. Len(ApplyOrder)}
Row == 1 .. MaxUploads
None == 0
Idle == [step |-> 0, used |-> {}, floor |-> 0]

\* The row all components hold, if it is the same.
Uniform(r) == \A c \in Components : installed[c] = r

Blank ==
    /\ version' = NoVersion /\ forwarding' = None /\ configChan' = <<>>
    /\ applying' = None /\ applied' = 0
    /\ installed' = [c \in Components |-> None]
    /\ serving' = FALSE
    /\ inquiry' = [i \in Inquiries |-> Idle]

Init ==
    /\ rows = <<>>
    /\ version = NoVersion /\ forwarding = None /\ configChan = <<>>
    /\ applying = None /\ applied = 0
    /\ installed = [c \in Components |-> None]
    /\ serving = FALSE
    /\ inquiry = [i \in Inquiries |-> Idle]
    /\ restarts = 0

----
(* Central Server.                                                         *)

\* handleAdminConfig: every upload is a new row, also of an old content.
Upload(content) ==
    /\ Len(rows) < MaxUploads
    /\ rows' = Append(rows, content)
    /\ UNCHANGED <<poll, apply, inquiry, restarts>>

----
(* The poller.  A poll that fails or is answered 304 changes nothing: it   *)
(* is a stuttering step.  The definitions "Bad..." are faulty variants of  *)
(* those that follow them, no part of the specification: they show that    *)
(* the properties can fail.                                                *)

\* handleConfig answers 200 with the last row, because its content differs
\* from the version in the request; the poller notes the new version.
Poll ==
    /\ forwarding = None
    /\ rows # <<>>
    /\ rows[Len(rows)] # version
    /\ forwarding' = Len(rows)
    /\ version' = rows[Len(rows)]
    /\ UNCHANGED <<server, configChan, apply, inquiry, restarts>>

\* The poller does not wait for room in the channel.
BadForwardDrops ==
    /\ forwarding # None
    /\ configChan' = IF Len(configChan) < ChanCap
                     THEN Append(configChan, forwarding) ELSE configChan
    /\ forwarding' = None
    /\ UNCHANGED <<server, version, apply, inquiry, restarts>>

\* The channel has no capacity.
BadForwardUnbounded ==
    /\ forwarding # None
    /\ configChan' = Append(configChan, forwarding)
    /\ forwarding' = None
    /\ UNCHANGED <<server, version, apply, inquiry, restarts>>

\* The send on configChan; the poller waits while the channel is full.
Forward ==
    /\ forwarding # None
    /\ Len(configChan) < ChanCap
    /\ configChan' = Append(configChan, forwarding)
    /\ forwarding' = None
    /\ UNCHANGED <<server, version, apply, inquiry, restarts>>

----
(* The main goroutine.                                                     *)

\* The newest configuration is taken first.
BadReceiveNewest ==
    /\ applying = None
    /\ configChan # <<>>
    /\ applying' = configChan[Len(configChan)]
    /\ applied' = 0
    /\ configChan' = SubSeq(configChan, 1, Len(configChan) - 1)
    /\ UNCHANGED <<server, version, forwarding, installed, serving,
                   inquiry, restarts>>

\* The first configuration is received by waitLoop, the next by the
\* hot-reload loop: one at a time, in the order of the channel.
Receive ==
    /\ applying = None
    /\ configChan # <<>>
    /\ applying' = Head(configChan)
    /\ applied' = 0
    /\ configChan' = Tail(configChan)
    /\ UNCHANGED <<server, version, forwarding, installed, serving,
                   inquiry, restarts>>

\* The proxies start listening as soon as the dispatcher knows its providers.
BadApplyServesEarly ==
    /\ applying # None
    /\ installed' = [installed EXCEPT ![ApplyOrder[applied + 1]] = applying]
    /\ applied' = applied + 1
    /\ applying' = IF applied + 1 = Len(ApplyOrder) THEN None ELSE applying
    /\ serving' = TRUE
    /\ UNCHANGED <<server, poll, inquiry, restarts>>

\* applyConfig updates one component, under that component's own lock.  The
\* proxy servers start after the first configuration, and are never
\* restarted for a later one.
Apply ==
    /\ applying # None
    /\ installed' = [installed EXCEPT ![ApplyOrder[applied + 1]] = applying]
    /\ applied' = applied + 1
    /\ applying' = IF applied + 1 = Len(ApplyOrder) THEN None ELSE applying
    /\ serving' = (serving \/ applied + 1 = Len(ApplyOrder))
    /\ UNCHANGED <<server, poll, inquiry, restarts>>

\* The daemon is replaced.
Restart ==
    /\ restarts < MaxRestarts
    /\ restarts' = restarts + 1
    /\ Blank
    /\ UNCHANGED server

----
(* The hot path.                                                           *)

\* An inquiry arrives; "floor" is the row fully installed by then.
Begin(i) ==
    /\ serving /\ inquiry[i] = Idle
    /\ \E r \in Row \cup {0} :
          /\ \A c \in Components : installed[c] >= r
          /\ \E c \in Components : installed[c] = r
          /\ inquiry' = [inquiry EXCEPT ![i] =
                           [step |-> 1, used |-> {}, floor |-> r]]
    /\ UNCHANGED <<server, poll, apply, restarts>>

\* The next component is asked; it answers with the snapshot it holds.
Read(i) ==
    /\ inquiry[i].step \in 1 .. Len(ReadOrder)
    /\ inquiry' = [inquiry EXCEPT
                     ![i].used = @ \cup {installed[ReadOrder[inquiry[i].step]]},
                     ![i].step = @ + 1]
    /\ UNCHANGED <<server, poll, apply, restarts>>

\* Execute returns: with an answer, or because some step refused or failed.
End(i) ==
    /\ inquiry[i].step > 0
    /\ inquiry' = [inquiry EXCEPT ![i] = Idle]
    /\ UNCHANGED <<server, poll, apply, restarts>>

Next ==
    \/ \E c \in Contents : Upload(c)
    \/ Poll \/ Forward
    \/ Receive \/ Apply \/ Restart
    \/ \E i \in Inquiries : Begin(i) \/ Read(i) \/ End(i)

Spec == Init /\ [][Next]_vars

----
(* What the rollout guarantees.                                            *)

TypeOK ==
    /\ rows \in Seq(Contents) /\ Len(rows) <= MaxUploads
    /\ version \in Contents \cup {NoVersion}
    /\ forwarding \in Row \cup {None}
    /\ configChan \in Seq(Row) /\ Len(configChan) <= ChanCap
    /\ applying \in Row \cup {None}
    /\ applied \in 0 .. Len(ApplyOrder)
    /\ installed \in [Components -> Row \cup {None}]
    /\ serving \in BOOLEAN
    /\ inquiry \in [Inquiries ->
          [step : 0 .. Len(ReadOrder) + 1,
           used : SUBSET (Row \cup {None}), floor : Row \cup {None}]]
    /\ restarts \in 0 .. MaxRestarts

\* The server answers 304 for the version a poller reports, so that
\* configuration must be in the daemon's hands: on its way to the channel,
\* last in it, being applied, or held by every component.  Otherwise the
\* daemon would never get it.
ReportedIsHeld ==
    version # NoVersion =>
       LET newest == IF forwarding # None THEN forwarding
                     ELSE IF configChan # <<>> THEN configChan[Len(configChan)]
                     ELSE IF applying # None THEN applying
                     ELSE installed["dispatcher"]
       IN  /\ newest \in 1 .. Len(rows) /\ rows[newest] = version
           /\ (forwarding = None /\ configChan = <<>> /\ applying = None)
                 => Uniform(newest)

\* "New rules apply to the next inquiry": what an inquiry reads is never
\* older than a configuration that was completely applied when it arrived,
\* and never the empty state of a daemon that has not been configured.
NoStaleRules ==
    \A i \in Inquiries : \A r \in inquiry[i].used :
       r >= inquiry[i].floor /\ r # None

\* No component ever goes back to a configuration older than the one it
\* holds, unless the daemon is restarted.
NeverBack ==
    [][restarts' = restarts =>
         \A c \in Components : installed'[c] >= installed[c]]_vars

\* What SRS-FR-D-003 says of a reload ("in-flight requests use old config"):
\* an inquiry is judged by one configuration from beginning to end.
OneConfigPerInquiry ==
    \A i \in Inquiries : \A r, s \in inquiry[i].used : rows[r] = rows[s]
====
