# A verification of the Pangreksa AI gateway

TLA+ modules of the gateway's own logic, TLC configurations that check them on
small instances, and TLAPS proofs of what matters most for every instance.

## The system

A *daemon* (`cmd/daemon`) is a proxy in front of LLM providers. It runs one HTTP
server per provider; each request becomes an *inquiry* that goes through the hot
path (`internal/daemon/pipeline.go`): entitlement, prompt and skill registries,
input guardrail, rate limit, budget check, dispatch to the provider, output
guardrail, budget record, transaction event. A *Central Server* (`cmd/server`)
keeps users, entitlements and configurations in PostgreSQL, answers the daemons'
polls, invalidates their caches through Redis, consumes their events from Kafka,
and serves the web console.

```
 admin ── POST /admin/config ──► gateway_configs ◄── POST /config ── poller ──► configChan ──► applyConfig
 admin ── POST /admin/entitlement ► user_entitlements                                             │ snapshots
                │                        ▲ L3                                                     ▼
                └─ PUBLISH user:invalidate ─► evict L1, L2 ◄──── Resolve ◄──────────────── HotPipeline.Execute
                                                                                                  │
 console ◄─ SSE ◄─ Broadcaster ◄─ consumer ◄── Kafka llm.transactions ◄── Producer.queue ◄── publishEvent
                                     └──► request_logs, cost_records
```

### Components, their state, and what makes them hard

| Component | Code | State | Operations | Hard because |
|---|---|---|---|---|
| Circuit breaker, dispatcher | `internal/llm` | per provider: state, failure times, `openedAt`, `halfOpenInFlight`; provider map | Allow, RecordSuccess, RecordFailure, Dispatch, Update | outcomes of old requests arrive in any state |
| Entitlement cache | `internal/entitlement`, `internal/cache/*`, `internal/server/entitlement`, `publisher` | `sync.Map`, Redis key with TTL, table row | Resolve, evict, Update, InvalidateUser | read-then-write races, lost invalidations, three lifetimes |
| Producer, shutdown | `internal/producer`, `cmd/daemon`, `internal/proxy` | bounded queue, two publishing goroutines, Kafka writer | PublishAsync, publish, drain, Close | shutdown order, retries, overflow |
| Consumer, live feed | `internal/server/consumer`, `sse`, `repository` | offset, reader position, two tables, client channels | Fetch, two inserts, Commit, Broadcast, Subscribe | partial failure, redelivery, clients that leave |
| Configuration rollout | `configstore`, `internal/poller`, `cmd/daemon` | table, reported version, channel, one snapshot per component | Upload, poll, forward, applyConfig | reported before applied, non-atomic reload |
| Budget | `internal/policy/budget` | Redis counter per rule, entity and period | Check, Record | check and record far apart, day change |
| Rate limit | `internal/policy/ratelimit` | Redis counters per five seconds | Check (Lua script) | aligned buckets, refused requests count |
| Guardrails, registries | `internal/policy/guardrail`, `internal/registry/*` | a snapshot each | hooks, Resolve, Summaries, Allow | order of checks; the checkers are stubs |
| Proxy, adapters | `internal/proxy` | listener | Normalize, error mapping | Shutdown with requests in flight |
| Liveness probe | `internal/probe`, `cmd/daemon` | delay, attempts, deadline | Run | the server comes and goes while the delay grows |
| Console auth | `auth_handler.go`, `console_session.go`, `internal/server/auth` | sessions, tokens | login, refresh, logout | separate reads, tokens nobody looks up |
| Console configuration | `console_config.go`, `*_repo.go` | one table per kind | list, create, update, delete | version numbers, overtaken and repeated requests |
| Console queries | `console_observability.go`, `audit_repo.go`, `metrics_repo.go`, `report` | none | queries | pages and totals while rows arrive |
| Registrations | `daemon_registration.go` | one row per daemon | heartbeat, list | status from age |
| Tools, web console | `cmd/client`, `cmd/seed`, `cmd/update-config`, `web` | none | clients of the APIs; two write tables directly | past the admin API |

What should hold of each is stated in its module; `PROJECT.json` lists every
hazard at its line with the properties that would catch it.

## The modules

Every module has one action per step between which another goroutine, process or
message can come; a step that leaves no trace (a cache hit, a refusal, a 304) is
a stuttering step. Operators named `Bad...` are faulty variants of the definition
that follows them. The specifications never use them: replacing the definition by
the variant must violate the property that `PROJECT.json` pairs it with, which
shows that the property can fail.

| Module | Models | Checked by | Proved in |
|---|---|---|---|
| `CircuitBreaker` | `circuitbreaker.go`, `dispatcher.go` | `breaker`, `breaker_probe` | `CircuitBreakerProofs` |
| `EntitlementCache` | `resolver.go`, `local.go`, `redis.go`, `sub.go`, `service.go`, `pub.go` | `entitlement`, `entitlement_race` | `EntitlementCacheProofs` |
| `Producer` | `producer.go`, end of `main` in `cmd/daemon` | `producer`, `producer_flush` | `ProducerProofs` |
| `KafkaWriter` | the client library under it, as `producer.go` uses it (external) | `producer`, `producer_flush` | `ProducerProofs` |
| `EventLog` | what the producer promises of the topic (abstract) | `producer` | `ProducerProofs` |
| `Consumer` | `consumer.go`, the two inserts, `broadcaster.go`, SSE handler | `delivery`, `consumer_skip` | `ConsumerProofs` |
| `Delivery` | `Execute` from the dispatch to its event, and the way of that event: `EventLog` and `Consumer` together | `delivery` | `ConsumerProofs` |
| `ConfigRollout` | `config_store.go`, `handleConfig`, `poller.go`, `applyConfig` | `rollout`, `rollout_mixed` | `DeploymentProofs` |
| `Probe` | `probe.go`, `probeCtx` of `cmd/daemon` | `rollout` | `DeploymentProofs` |
| `Deployment` | `main` of `cmd/daemon` up to the proxies: both of these, and the tools that write `gateway_configs` | `rollout` | `DeploymentProofs` |
| `HotPath` | `Execute` from the budget check on, `budget.go` | `gateway` | `GatewayProofs` |
| `RateLimit` | `ratelimit.go` | `gateway` | `GatewayProofs` |
| `Gateway` | `Execute` from the rate limit on: both of these together | `gateway` | `GatewayProofs` |
| `Sessions` | `handleLogin`, `handleRefresh`, `handleLogout`, `console_session.go`, `jwt.go` | `console` | `SessionsProofs` |
| `PromptVersions` | `handleCreatePromptVersion`, `prompt_repo.go` | `console` | `ConsoleProofs` |
| `VersionHistory` | what the store of prompts promises its callers (abstract) | `console` | `ConsoleProofs` |
| `ConfigTables` | the other routes of `console_config.go`, five repositories | `console` | `ConsoleProofs` |
| `LogQueries` | `audit_repo.go`, `queryLogs`, `handleMetrics`, `metrics_repo.go` | `console` | `ConsoleProofs` |
| `Console` | the console API: one of these four at a time | `console` | `SessionsProofs`, `ConsoleProofs` |

### CircuitBreaker

`breaker[p]` is `providerState`; `request[r]` is where a goroutine stands in
`Dispatch`. `Allow`, `Lookup`, `RecordSuccess` and `RecordFailure` are the steps
between which the mutex is released. Times are elapsed ticks that stop growing
one tick past the duration they are compared with. The `probe` field of a request
is a history variable. Fairness: time passes, and a goroutine inside `Dispatch`
runs on, because its HTTP client has a timeout of 120 s; nothing is assumed of
clients, providers or operators.

Bounds: one provider (breakers share nothing), three requests (two late outcomes
beside a probe), threshold 2, window 1 tick, cooldown 2 ticks.

### EntitlementCache

One user; a version is the content of the row. Every entitlement carries its age
since the server stamped it. `MissL1`/`DeleteExpired`, `EvictL1`/`EvictL2`,
`ReadRow`/`StampRow`, `SetL2`/`SetL1` are separate steps because nothing makes them
atomic. The server reads the row (`service.go:73`) before it computes `ExpiresAt`
(`service.go:88`), so a row that is replaced in between is sent out with its whole
TTL before it; `MaxGap` bounds the time from the read to the stamp, which the
timeout of the resolver's HTTP client does in the code (10 s,
`internal/entitlement/resolver.go:66`): a later answer is read by nobody. With
`Lossy`, Redis calls may fail and publications miss a daemon. `MaxStall` bounds
how long a resolver may sit on an entitlement (the clients' timeouts are
seconds, the TTLs minutes); the clocks of server and daemons are taken as
synchronised. Fairness: time passes, a row that was read is stamped or given up,
and a resolver that holds an entitlement finishes.

Bounds: two daemons with a resolver each, one update, one invalidation under way
per daemon, TTLs of 3 ticks (server) and 1 tick (Redis), gaps and stalls of 1 tick.

### Producer and KafkaWriter

The goroutine of `Start` and `Close` of the main goroutine are the two
publishers; both run `publish` and `drain`. `GroupFails` is the case in which only the
group's context ends (a proxy that cannot bind): the root context, which `Start`
watches, does not.

`WriteMessages` is not one append. `KafkaWriter` is the library behind it: a call
hands its message to a goroutine of the library (`HandOver`) and waits; that
goroutine writes the messages of a partition in their order and repeats those at
the front whose answer is missing, each up to `WriterAttempts` times (`MaxAttempts`,
ten by default, as `producer.go:62` sets nothing else). A call that ends on its
context (`WriteFails`: after ten seconds, or at once when the root context is
cancelled) leaves its message with the library, which may write it while the event
is retried, and after it was dropped or abandoned. The two goroutines and what
their calls left behind so work on the same partition. `Exit` comes after the
library has nothing left, for which `Writer.Close` waits.

`EventLog` is the producer seen from outside. An event is accepted or refused; an
accepted one may be written, at any time from then on; its fate is decided once,
and it counts as published only if it is in the log. That nothing is written after
an event was given up is not promised, as it is not so. `Written` and `Fate` are
the refinement mapping. The topic that `Consumer` reads is any sequence of events,
copies included, so all that `EventLog` allows.

Fairness: goroutines run, writes and drains end by their timeouts, and the library
ends what nobody waits for any more, as its attempts are limited; inquiries,
signals and failures need not come.

Bounds: two inquiries, a queue of one, two calls for an event instead of three and
two writes of the library for each instead of ten. That is enough for a second call
beside what the first one left, for a repeat of either, and for messages of both
goroutines in the library at once.

### Consumer

One partition. The group's offset is one number, so a commit covers everything
before it. `failed` and `missed` are histories. `SendPanics` is the send on the
channel of a client that left after the snapshot, which `safeProcess` recovers.
It is checked as a part of `Delivery`; `consumer_skip` uses it alone, with two
events in up to three messages and two clients.

### Delivery

The end of `Execute` in front of the producer and the consumer. `EventLog` stands
for the producer, which is what `ImplementsEventLog` is for; its log is the
partition of `Consumer`, and of `Consumer` only the writing of messages is
replaced. `inquiry[e]` is the stage of `Execute`: in the call, answered, recorded,
returned with its event handed over, or cut short. `charge[e]` is whether the
budget was told of the call, so that the two accounts of the same calls, the
counter in Redis and the rows in PostgreSQL, can be compared. A daemon may die at
any point of `Execute` (`Die`); its queue then goes with it (`Lose`). Messages of an
event may still be written when it has been published or lost (`Write`). A call that
failed has no cost, and an event nonetheless (`CallFails`).

`CallsAccounted` names all ways in which an inquiry can be without its rows.
`Block` is one of them only because it is outside of it: when the client leaves
after the provider has answered, `Execute` returns before `Record` and
`publishEvent`, and neither account has the call.

Fairness: an event with the producer is settled (`Settle`), which is `AcceptedIsSettled` of
`Producer` or the end of its daemon; the server is started again after a crash and
its consumer runs, as each database call and each send ends by its timeout.
Providers need not answer, clients need not read.

Bounds: two inquiries, three messages, so that one event comes twice, one client
of the feed with a channel of one, one crash or rebalance.

### ConfigRollout, Probe and Deployment

`installed[c]` is the row whose content component `c` holds. `Apply` updates one
component, `Read` lets an inquiry ask the next. `floor` remembers what was
completely applied when the inquiry arrived.

`Probe` has `Prober.Run` with its two deadlines: `left` is what is left of a
check's HTTP timeout or of a wait, `elapsed` the age of `probeCtx`. A check fails
only if the server was away at some time of it (`sawDown`): a server that is up
all the time answers. `upFor` is a history of how long the server has been up
unnoticed.

`Deployment` is a daemon's life: nothing of `ConfigRollout`'s daemon happens
before the probe is past (`Daemon`), a supervisor may start it again (`Replace`),
and the table has three writers: `POST /admin/config`, `cmd/seed`, which adds its
configuration only if no row has it, even if the last one has another, and
`cmd/update-config`, which always adds a row, as encryption with fresh nonces
makes its content new.

Fairness: the process runs and time passes, and the ticker of the poller fires.
Nothing is assumed of the server; `Converges` therefore says "unless it stays
away".

Bounds: three uploads of two contents (the first can come back), a channel of
two instead of four, one inquiry, one restart, two outages; delays of 2 and 3
units, a timeout of 1 and a deadline of 10, so that the back-off reaches its
ceiling and the deadline cuts off both a check and a wait; with and without a
limit of two attempts.

`rollout_mixed` uses `ConfigRollout` alone, with the same bounds.

### HotPath

The budget counter of the deciding rule and the inquiries between Check and
Record. `AdmitUnchecked` is a Redis error, which lets the inquiry through.
`MaxCost` is what one inquiry can add to the counter. An inquiry that something
refuses is a stuttering step. It is checked as a part of `Gateway`.

### RateLimit and Gateway

`count[b]` and `touched[b]` are the Redis key of bucket `b` and the time of its
last INCR, from which it lives `TTL` buckets. `Check` takes its stamp before the
script runs (`Stamp`), so scripts can overtake each other; `MaxLag` is the most a
script lags behind its stamp, one bucket of five seconds. That assumption is not
enforced by the code: a call that the Redis client repeats on time-outs can take
longer, and the daemons' clocks are taken to agree. What makes the sum right despite the lag
is that a key lives a bucket longer than the window (`RateLimitAssumption`). `Repeat` is a script that ran
and whose answer was lost; `Skip` is the rule that Redis did not answer.
`overtaken` is a history of admissions after a script with a later stamp.

`Gateway` extends `HotPath` and instantiates `RateLimit`: an inquiry reaches the
budget check through `Leave` only, and every step of one leaves the other's
variables alone.

Bounds: two inquiries, a window of three buckets whose keys live four (12 and 13
in the code), one request per window, a lag of one, five buckets of time, four
executions of the script; budget limit 2, costs up to 2, one unchecked inquiry a
day. Two inquiries are enough for one to overtake the other, five buckets for a
window to slide past the first one.

### Console and its parts

The four parts of the console API work on different tables and share nothing, so
a behaviour of `Console` is one of a single part (`page`) while the others rest.

`Sessions` follows one user. A handler's statements are steps of their own
(`call[c].stage`), so a logout, a suspension or a change of permissions comes
between any two. Access tokens are never looked up, so `tokens` follows one token
at a time, any of those signed, and the properties speak of whichever it is.
Permissions are written by `cmd/seed` and by hand (`ChangePerms`): the admin API's
update of an entitlement has no such column.
Ages replace clocks. `MaxStall` bounds how long a request is under way: the
server's write timeout is 30 s, against 15 minutes and 7 days.

`PromptVersions` splits the INSERT of `CreateVersion` into the subquery, which
sees a snapshot, and the check of the UNIQUE constraint. A statement may commit
although its answer is lost (`...Ambiguous`); a caller may send again.
`VersionHistory` is the same store as its callers see it: one list per prompt, to
which a creation appends in one step.

`ConfigTables` is about one of five tables at a time. A row is an id, a name
(the unique columns, where there are any) and a text (the columns a PUT
replaces). A request that was sent may be overtaken by any others.

`LogQueries` has a client that follows `next_cursor` and one that asks for
metrics, while rows arrive with any `created_at`. A point of the series keeps the
rows it counts, so that sums can be compared as sets.

Bounds: two requests of the user on two sessions, a session of 2 units, a token
and a stall of 1; three creators of versions of two prompts, one attempt each;
two clients with two requests each on up to three rows, whose names can clash;
three log rows at three times, pages of one row, buckets of two units. Each is
the least in which two parties overtake each other and a third sees the result;
a page of one row has every row as its boundary.

## The runs

Passing runs:

* `breaker`: the breaker refuses only while it
  cools down or a request it admitted is under way; a closed breaker is below
  its threshold; late failures do not prolong a cooldown; half-open is always
  decided.
* `entitlement`: no decision on a row replaced longer ago than the server's TTL and
  the time from the read of the row to its stamp;
  nothing brings an evicted version back once it is gone everywhere; old
  versions die out without any invalidation.
* `producer`: an event has one owner; at most as many copies as calls times writes
  of the library, although calls overlap with what earlier ones left; order of
  acceptance, of the first copies, until shutdown; shutdown ends; an accepted event is settled; the producer
  implements `EventLog`.
* `delivery`: an inquiry that ran to its end has its rows, or they can still come, or
  a failure of producer or consumer lost them, and "still come" does not last,
  whatever failing messages and clients that do not read are in the way; a cost
  has its log, and no row shows a call that the budget was not told of before; the
  feed shows stored events only.
* `rollout`: what the daemon reports it holds; no inquiry is judged by rules
  older than those applied when it came; never back; the daemon converges to the
  last row through outages and restarts; the probing ends; a server that is up is
  noticed within `Patience`.
* `gateway`: the overrun of a budget is bounded by what runs at once; scripts in
  the order of their stamps admit no more than the limit in any window, and
  overtaken ones no more than the limit again per bucket of lag. A client that
  goes on trying stays locked out, as refused requests count: the SRS's script
  (SRS-FR-D-014) says the same, so nothing is claimed about it.
* `console`: a session's tokens end with it, permissions in tokens are recent, a
  suspended user runs out of tokens; the statements that create a prompt
  version amount to one step that appends to the prompt's list, and answered
  versions are stored; deletions hold and names are unique; a walk over pages shows every
  row that was there once; the series of the metrics never exceeds the total
  beside it.

Runs that end in a violation, each of a statement that a comment or the SRS
makes and the code does not keep (quoted in `PROJECT.json`, "findings"):

* `breaker_probe`: two probes at once, after a late failure re-opened the breaker.
* `entitlement_race`: an old entitlement written back after its eviction; it lives
  up to five minutes and the time from the read of its row to its stamp (10 s at
  most), which `BoundedStaleness` shows to be the worst case.
* `producer_flush`: the daemon exits with an accepted event unpublished.
* `consumer_skip`: a failed message is covered by the commit of a later one.
* `rollout_mixed`: one inquiry judged by two configurations.

Deadlock is checked in `breaker`, `entitlement` and `gateway`. The others really
stop: a daemon that exited or gave up, a partition and a table at their bound,
clients that have sent what they may.

## The proofs

Each module below proves its results for every value of the constants that the
assumption of its component allows.

`CircuitBreakerProofs` proves, for any sets of providers and requests and any
threshold, window and cooldown, the type invariant, both safety invariants
of `breaker`, that flag and half-open state agree, and the action property
`LateFailureKeepsDeadline`. The inductive
invariant adds `ProbeOutstanding` to them: half-open means that a request which
will decide is inside `Dispatch`. Without it `NeverWedged` is not inductive, as
nothing would say that the request the breaker waits for still exists. The
lemmas on `PruneFailures` say that pruning keeps a sequence of ages and does not
lengthen it, and that a just recorded failure survives it.

`EntitlementCacheProofs` proves `BoundedStaleness` and `CleanIsStable` for any
number of daemons, resolvers and versions and any lifetimes. An entitlement that
was written to Redis late is older than its key shows, and one that was read late
again older than that; the invariant therefore bounds the age of what is kept or
on its way by the time it was given there (`Recent`), and says that a version
was replaced no longer ago than any entitlement with it was stamped, and the gap
between the read and that stamp (`Stamped`; while the server has the row in hand, its
gap so far). That the bound is the server's TTL and one gap, and not the sum of
the three lifetimes, is due to the stamp, which L1 checks on every hit; L2 does not look at
it, and needs what `CacheAssumption` says: the Redis TTL and two stalls of a
resolver fit into the server's TTL.

`GatewayProofs` proves both limits of the hot path, for any number of inquiries.

The rate limit (`WindowBounded`), for any window, limit, lag and life of the keys that
fit together. A script decides on the sum of the keys it can still read, so one
has to know that this sum does not fall short of what was admitted. A key counts
at least the requests admitted in its bucket (`Counted`: refused ones count too,
and a repeated script counts twice), and a script that runs in time (`InTime`)
finds every key of its window alive (`AliveInWindow`). That is where the numbers
of the code matter: twelve buckets of five seconds, keys of 65 s, so that there is
just one bucket of lag to spare. Were they to live 60 s, a late script would miss
the oldest key of its window. So an admission leaves room for itself in the
window that ends with its own stamp (`RoomLeft`). That is not the property yet:
scripts with later stamps may have run before, which this window does not
contain. `Spread` bounds what any consecutive buckets within a window hold, by the
limit for each of them, and by the limit for each bucket a script can lag and once
more; `InOrderBounded` counts only admissions that came
before all later stamps.

Sums are folds over functions, and of a fold the provers know only the defining
equation. The lemmas on them (`SumRemove`, `SumMonotone`, `SumParts`, `SumSubset`, ...) are
therefore proved from scratch. Induction is used in a form in which the property
is a set (`SubsetInduction`: a set of subsets of a finite set that has the empty
one and with every one those with an element more, has all), which follows from
the natural numbers being well-founded.

The budget, for any limit and cost. `OverspendBounded` alone does not say what the
calls under way will add; `Committed` sets aside the highest cost for each of
them. Admission keeps it since the counter is not above the limit and at most all
inquiries are under way; recording keeps it since it adds at most what was set
aside. Both results are carried over to `Gateway`, whose steps are those of one
part, or of both together, and otherwise stuttering steps.

`ProducerProofs` proves `OneOwner`, `BoundedCopies`, `InOrder` and that the producer
implements `EventLog`, for any number of inquiries, depth and attempts of either
kind. `publish` never checks that the event it acknowledges or gives up is still
pending; that it is follows from the places an event can be in: a goroutine holds an event exactly while it publishes (`Held`), the two
never hold the same one (`Apart`), what is queued is pending, there once, and held
by nobody (`Queued`), and no pending event is forgotten (`Placed`). `CloserIdle`
is needed as `Close` sets its goroutine going whatever it held before.

What a call leaves with the library has no such place: its event may be in work
again, or settled. What is known of it is which call it is from. No call is made
twice, and none that the goroutine which holds the event has yet to make (`Tried`),
which rests on `Apart`: were an event with both goroutines, each would count its own
attempts only. So a write in the topic is known by its call and its number within
the call, no two are the same, and the library has counted each (`Counted`), which
bounds the copies (`BoundedCopies`). What the library says is written is in the topic, and so is
what was acknowledged (`Sound`), which is what `EventLog` asks of an event that
counts as published.

`InOrder` needs to know that before shutdown only one goroutine publishes
(`Running`), and that topic, library, event in work and queue are then in the order
of acceptance, in this sequence (`InLine`). A leftover does not break it: it stays
before the messages handed over later, and the library repeats from the front.

`ConsumerProofs` proves `CostHasLog`, `LossNeedsFailure` and `FeedIsPersisted` of
`Consumer` for any number of messages, clients and restarts. `LossNeedsFailure` speaks of the messages
behind the group's offset, and `Commit` moves the offset over everything before
the message in work; so the inductive invariant needs `Passed`: all that the
reader has passed, but for the message in work, is accounted for. `Inserted`
carries what the first insert did to the second (for `CostHasLog`) and what both
did to the broadcast (for `FeedIsPersisted`) and to the commit.

It also proves `CallsAccounted` and `AccountsAgree` of `Delivery`, whose consumer is
`Consumer` (`ConsumerPart`), so that the results above can be used of it. What it
adds is `Known`: a row has its message, a message its event, and an event an
inquiry that ran to its end and past `Record`. Together with `LogCorrect` of
`ProducerProofs`, by which the producer is an `EventLog`, this reaches from `Execute`
to the tables.

`DeploymentProofs` proves the four invariants of `rollout`, `NeverBack`, and that
the deployment implements `ConfigRollout` (which is the specification of a rollout
without a network), for any contents, inquiries, capacity, restarts, outages and
delays. A component never goes back because rows only get newer from the
components over `applyConfig` and the channel to the poller (`OldestFirst`).
`ReportedIsHeld` and `NoStaleRules` need to know what a half finished `applyConfig`
leaves behind: new rows before the component in work, one old row after it
(`HalfApplied`). `NoticesServer` rests on `Deadlines`: in a check that saw the
server away, and in a wait, what the server has been up and what is left add up
to at most the timeout, or the timeout and one and a half longest delays.

`SessionsProofs` proves the three invariants of sessions for any number of
requests and sessions and any lifetimes. A token must be traced back to the
statement that justified it: what a request found (a good session, an active
user, current permissions) was so when it began or later, so it went wrong at
most as long ago as the request is under way (`LettingIn`, `Refreshing`,
`Loaded`), and a token inherits that from the request that signed it (`Signed`).

`ConsoleProofs` proves the rest of the console, for any number of callers, rows
and pages.

Prompt versions: rows only ever get more, so what a request has read stays true
(`Promised`), and the UNIQUE constraint decides who gets the next version. From
this follow `VersionsDense` and `AnsweredIsStored`. That the store implements
`VersionHistory` (`AtomicCorrect`) needs one fact more, that the numbers of a prompt
are 1 to some k (`FromOne`). It does not follow from there being no gap without an
induction, but it is inductive by itself: a request whose number is free has read
the last one (`InsertIsNext`), however long ago it did. So the INSERT is the moment
at which the whole creation happens. That an answered version stays as it is, under
the comment "content is immutable after creation", is a part of this.

Tables: the rows of reported deletions stay away from the moment of the DELETE,
before anybody was told (`Gone`), because a PUT changes only a row it finds and a
POST draws an id that was never drawn (`Drawn`).

Queries: a page is defined by a number, the `Limit` rows with the fewest above
them, but what a walk needs of it is an order: a page is what is above its last
row or is that row (`PageCuts`, from the total order of time and id and the
finiteness of the table). So the cursor divides the rows that are due into
those shown, at it or above it, and those below it, which later pages still show
(`WalkInv`); rows that arrive above it are missed, and those were not there at the
beginning. `SeriesInv` says that what a point of the series counts is in the
window, from which no row goes before the summary is read.

`SessionsProofs` and `ConsoleProofs` first prove their results of the specification of
the part, and then of `ConsoleSpec` (`AuthCorrect`, `ConfigurationCorrect`,
`CreationCorrect`, `ConsoleTypeCorrect`): a step of the console is the part's own or
leaves its variables alone, and its initial states are the part's, the table a
resting `ConfigTables` is about being one of those it may start with. The results
on queries are stated of `ConsoleSpec` only.

The assumptions are those named in the modules (`BreakerAssumption`,
`CacheAssumption`, `HotPathAssumption`, `ConsumerAssumption`, `ProducerAssumption`,
`DeploymentAssumption`, and for the parts of the console those that
`ConsoleAssumption` joins), which TLC evaluates in every run. The one of the rate
limit, `GatewayAssumption`, asks for `Window + MaxLag <= TTL`: 60 s and a lag of 5 s
against 65 s in the code.

Every safety and action property of the runs is stated by a theorem. Only
model-checked: liveness (`ProbeResolves`, `StaleDiesOut`, `ShutdownEnds`,
`AcceptedIsSettled`, `CallsSettle`, `Converges`, `ProbeEnds`), as the prover does
not reason about `ENABLED`. The two halves of the way of an event are proved
apart, the producer up to `EventLog` and the rest from `EventLog` on: that the
producer itself in front of the consumer implements `Delivery` is not a theorem.

## Not modelled, and why

* Content: prompts, messages, provider formats, SQL text, layout of reports. No
  property here depends on them.
* The checkers of the guardrail engine are a stub in the code that never
  triggers.
* Client libraries. Kafka's writer is `KafkaWriter`, external and simplified: where a
  batch ends is left open (several messages at the front may be written again
  together), and one partition stands for the topic. It is taken to keep the order
  of messages within a partition and to make no more than `MaxAttempts` writes;
  copies that a broker or a compaction would add or remove are left out. Repeats of
  the Redis client are covered by the non-determinism of its calls (`Repeat` of
  `RateLimit`; `MaxCost` covers a repeated increment).
* Console queries that are one statement and layout: `handleBudgetSummary`,
  `handlePods`, `handleTraces`, `handleRequestDetail` and the report generator.
* Daemon registrations: `POST /health/daemon` is one UPSERT, the status is computed
  from its age, and `cmd/daemon` never calls the route.
* `ConsoleSessionRepository.DeleteExpired` and `FindByEmail`: nothing calls them.
* `cmd/client`, a single-threaded caller of the API, and the web console.
* Differences between documents and code that need no run to be seen: a counter
  that has exactly reached the limit of its rule still admits, as `Check` compares
  with `>` and an estimate of 0 (`internal/policy/budget/budget.go:115`);
  `MAX_LIVENESS_RETRIES` 0 means "retry indefinitely until Central Server
  responds" (`cmd/daemon/README.md:138`), but `probeCtx` ends the probing after ten
  minutes (`cmd/daemon/main.go:144`), which `ProbeEnds` shows; the probe "retries
  every 5s" (`cmd/daemon/README.md:21`), but backs off; the refresh cookie has the
  path `/auth/refresh`, so a browser does not send it to `/auth/logout`, which then
  deletes no session (`internal/server/api/auth_handler.go:443`); no route calls
  `JWTService.Validate`, so an access token opens nothing yet; `update-config`
  reports an error of `provider_accounts` after the configuration has been
  inserted (`cmd/update-config/main.go:220`); the
  proxies are started for the first configuration and never restarted, though
  SRS-FR-D-003 says "reload proxy ports" (`cmd/daemon/main.go:202`); the
  `BudgetLimitUSD` and `RateLimitRPM` of an entitlement are enforced nowhere; the
  SRS asks for `acks=all`, the writer is made with another setting
  (`internal/producer/producer.go:52`); `request_logs` has partitions for two
  months only (`migrations/000002_request_logs.up.sql:36`); the list of routes has
  "list prompt repos + versions by org_id"
  (`internal/server/api/console_config.go:59`) and SRS-FR-C-011 a route for the
  versions of a prompt, but `handleListPrompts` answers with the repositories only
  and no route calls `PromptRepo.ListVersions`; the end of the metrics' window is
  "exclusive" (`internal/server/repository/metrics_repo.go:57`), but both statements
  have `BETWEEN`, which includes it.

## Plan

What is left, in order of weight:

1. `Execute` up to the rate limit: entitlement and registries in front of
   `Gateway`.
2. Proofs: the producer and the consumer in one specification, as an
   implementation of `Delivery`; the orders in which an entitlement that a daemon
   uses can lag behind the table, as an abstract specification of the cache.
