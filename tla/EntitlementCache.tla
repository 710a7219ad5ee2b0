---- MODULE EntitlementCache ----
(***************************************************************************)
(* The three-tier entitlement cache of the daemons and its invalidation.   *)
(*                                                                         *)
(*   L1  sync.Map of one daemon    internal/cache/local                    *)
(*   L2  Redis, shared by daemons  internal/cache/redis                    *)
(*   L3  the Central Server        internal/server/entitlement, POST       *)
(*                                 /entitlement                            *)
(*                                                                         *)
(* Every tier is keyed by user, so the module follows one user.  Versions  *)
(* number the contents of the user's row in user_entitlements; version     *)
(* "db" is the current one.  An entitlement carries its age: the time      *)
(* since the server stamped it with ExpiresAt = now + entitlementTTL.  The *)
(* server reads the row before it stamps it: an update in between leaves a *)
(* replaced row with the age of a new one.  Ages stop growing one tick     *)
(* past the largest bound that is compared with them.  The clocks of       *)
(* server and daemons are taken as synchronised.                           *)
(***************************************************************************)
EXTENDS Naturals, FiniteSets

CONSTANTS
    Daemons,
    Resolvers,    \* goroutines inside Resolver.Resolve
    Home,         \* Home[r]: the daemon that runs resolver r
    LocalTTL,     \* entitlementTTL of the server (5 min), in ticks
    RedisTTL,     \* entitlementTTL of the Redis tier (60 s), in ticks
    MaxGap,       \* longest from the read of the row to its stamp, in ticks
    MaxStall,     \* longest a resolver holds an entitlement, in ticks
    MaxVersion,   \* bound: updates of the row
    MaxPending,   \* bound: invalidations under way or queued per daemon
    Lossy         \* Redis may fail, and publications may be missed

\* The HTTP and Redis clients time out in seconds, so an entitlement on its
\* way from one tier to the next cannot outlive the five minutes in L1, and
\* an answer whose stamp came too long after the read finds nobody waiting.
ASSUME CacheAssumption ==
    /\ Home \in [Resolvers -> Daemons]
    /\ LocalTTL \in Nat /\ RedisTTL \in Nat /\ MaxStall \in Nat /\ MaxGap \in Nat
    /\ RedisTTL + MaxStall + MaxStall <= LocalTTL
    /\ MaxVersion \in Nat /\ MaxPending \in Nat
    /\ Lossy \in BOOLEAN

VARIABLES
    db,           \* version of the row in user_entitlements
    superseded,   \* superseded[v]: time since version v was replaced
    unpublished,  \* admin calls between the commit and the PUBLISH
    l1,           \* the entry of each daemon's sync.Map, or None
    l2,           \* the Redis key, or None
    pending,      \* user:invalidate messages a daemon has yet to handle
    evicting,     \* daemons whose subscriber is between its two deletes
    resolver      \* where each resolver stands

vars == <<db, superseded, unpublished, l1, l2, pending, evicting, resolver>>

None == [version |-> "none"]
Version == 0 .. MaxVersion
Entitlement == [version : Version, age : 0 .. LocalTTL + 1]
RedisEntry == [ent : Entitlement, left : 0 .. RedisTTL]   \* left: its TTL

Resolver ==
    [at : {"start", "expired", "L2", "L3"}]
      \cup [at : {"read"}, version : Version, gap : 0 .. MaxGap]
      \cup [at : {"setL2", "setL1"}, ent : Entitlement, held : 0 .. MaxStall]

Start == [at |-> "start"]
Reading(r) == resolver[r].at = "read"   \* its row is read and not yet stamped
Holding(r) == resolver[r].at \in {"setL2", "setL1"}

\* local.Cache.Get: an entry past its ExpiresAt is not served.
Fresh(e) == e # None /\ e.age <= LocalTTL

Init ==
    /\ db = 0
    /\ superseded = [v \in Version |-> 0]
    /\ unpublished = 0
    /\ l1 = [d \in Daemons |-> None]
    /\ l2 = None
    /\ pending = [d \in Daemons |-> 0]
    /\ evicting = {}
    /\ resolver = [r \in Resolvers |-> Start]

----
(* Central Server: the admin endpoints.  The definitions "Bad..." here and *)
(* below are faulty variants of the definitions that follow them, no part  *)
(* of the specification: they show that the properties can fail.           *)

\* Service.Update, first half: the row changes.
Commit ==
    /\ db < MaxVersion /\ unpublished < MaxPending
    /\ db' = db + 1
    /\ unpublished' = unpublished + 1
    /\ UNCHANGED <<superseded, l1, l2, pending, evicting, resolver>>

\* An update with no valid column, or handleAdminInvalidate: nothing but the
\* publication.
CommitNothing ==
    /\ unpublished < MaxPending
    /\ unpublished' = unpublished + 1
    /\ UNCHANGED <<db, superseded, l1, l2, pending, evicting, resolver>>

\* Service.Update, second half, and handleAdminInvalidate.  PUBLISH reaches
\* the daemons subscribed at that moment; its failure is logged.
Publish(reached) ==
    /\ unpublished > 0
    /\ Lossy \/ reached = Daemons
    /\ \A d \in reached : pending[d] < MaxPending
    /\ unpublished' = unpublished - 1
    /\ pending' = [d \in Daemons |->
                     IF d \in reached THEN pending[d] + 1 ELSE pending[d]]
    /\ UNCHANGED <<db, superseded, l1, l2, evicting, resolver>>

----
(* Daemon: invalidation.Subscriber.evict, L1 first.                        *)

EvictL1(d) ==
    /\ pending[d] > 0 /\ d \notin evicting
    /\ pending' = [pending EXCEPT ![d] = @ - 1]
    /\ l1' = [l1 EXCEPT ![d] = None]
    /\ evicting' = evicting \cup {d}
    /\ UNCHANGED <<db, superseded, unpublished, l2, resolver>>

EvictL2(d) ==
    /\ d \in evicting
    /\ l2' \in {None} \cup (IF Lossy THEN {l2} ELSE {})
    /\ evicting' = evicting \ {d}
    /\ UNCHANGED <<db, superseded, unpublished, l1, pending, resolver>>

----
(* Daemon: Resolver.Resolve.  A hit in L1 returns at once and changes      *)
(* nothing: it is a stuttering step.                                       *)

Goto(r, next) == resolver' = [resolver EXCEPT ![r] = next]
Holds(at, e) == [at |-> at, ent |-> e, held |-> 0]

\* The entry is loaded; if it has expired it is deleted in a second step.
MissL1(r) ==
    /\ resolver[r] = Start
    /\ ~Fresh(l1[Home[r]])
    /\ Goto(r, [at |-> IF l1[Home[r]] = None THEN "L2" ELSE "expired"])
    /\ UNCHANGED <<db, superseded, unpublished, l1, l2, pending, evicting>>

\* Whatever entry is there by now goes.
DeleteExpired(r) ==
    /\ resolver[r].at = "expired"
    /\ l1' = [l1 EXCEPT ![Home[r]] = None]
    /\ Goto(r, [at |-> "L2"])
    /\ UNCHANGED <<db, superseded, unpublished, l2, pending, evicting>>

\* A hit renews the key's TTL in Redis.
BadHitL2SlidingTTL(r) ==
    /\ resolver[r].at = "L2"
    /\ l2 # None
    /\ Goto(r, Holds("setL1", l2.ent))
    /\ l2' = [l2 EXCEPT !.left = RedisTTL]
    /\ UNCHANGED <<db, superseded, unpublished, l1, pending, evicting>>

\* A hit is used whatever its ExpiresAt says; its TTL in Redis is unchanged.
HitL2(r) ==
    /\ resolver[r].at = "L2"
    /\ l2 # None
    /\ Goto(r, Holds("setL1", l2.ent))
    /\ UNCHANGED <<db, superseded, unpublished, l1, l2, pending, evicting>>

\* A miss; an error is only logged.
MissL2(r) ==
    /\ resolver[r].at = "L2"
    /\ l2 = None \/ Lossy
    /\ Goto(r, [at |-> "L3"])
    /\ UNCHANGED <<db, superseded, unpublished, l1, l2, pending, evicting>>

\* The row is read from a replica that lags behind by one update.
BadReadRowLaggingReplica(r) ==
    /\ resolver[r].at = "L3"
    /\ \E v \in {db, IF db = 0 THEN 0 ELSE db - 1} :
          Goto(r, [at |-> "read", version |-> v, gap |-> 0])
    /\ UNCHANGED <<db, superseded, unpublished, l1, l2, pending, evicting>>

\* Service.Resolve, first half: the row as it is now.
ReadRow(r) ==
    /\ resolver[r].at = "L3"
    /\ Goto(r, [at |-> "read", version |-> db, gap |-> 0])
    /\ UNCHANGED <<db, superseded, unpublished, l1, l2, pending, evicting>>

\* Service.Resolve, second half: the answer gets its ExpiresAt, whatever has
\* become of the row in the meantime.
StampRow(r) ==
    /\ Reading(r)
    /\ Goto(r, Holds("setL2", [version |-> resolver[r].version, age |-> 0]))
    /\ UNCHANGED <<db, superseded, unpublished, l1, l2, pending, evicting>>

\* No answer, or an answer other than 200: Resolve fails and caches nothing.
FetchFails(r) ==
    /\ resolver[r].at = "L3" \/ Reading(r)
    /\ Goto(r, Start)
    /\ UNCHANGED <<db, superseded, unpublished, l1, l2, pending, evicting>>

\* The entry is given the TTL of the server's entitlement.
BadSetL2LongTTL(r) ==
    /\ resolver[r].at = "setL2"
    /\ l2' = [ent |-> resolver[r].ent, left |-> LocalTTL]
    /\ Goto(r, [resolver[r] EXCEPT !.at = "setL1"])
    /\ UNCHANGED <<db, superseded, unpublished, l1, pending, evicting>>

SetL2(r) ==
    /\ resolver[r].at = "setL2"
    /\ l2' \in {[ent |-> resolver[r].ent, left |-> RedisTTL]}
                  \cup (IF Lossy THEN {l2} ELSE {})
    /\ Goto(r, [resolver[r] EXCEPT !.at = "setL1"])
    /\ UNCHANGED <<db, superseded, unpublished, l1, pending, evicting>>

\* The daemon stamps the entry anew instead of keeping the server's ExpiresAt.
BadSetL1Restamped(r) ==
    /\ resolver[r].at = "setL1"
    /\ l1' = [l1 EXCEPT ![Home[r]] = [resolver[r].ent EXCEPT !.age = 0]]
    /\ Goto(r, Start)
    /\ UNCHANGED <<db, superseded, unpublished, l2, pending, evicting>>

\* The last step of both paths; Resolve returns the entitlement.
SetL1(r) ==
    /\ resolver[r].at = "setL1"
    /\ l1' = [l1 EXCEPT ![Home[r]] = resolver[r].ent]
    /\ Goto(r, Start)
    /\ UNCHANGED <<db, superseded, unpublished, l2, pending, evicting>>

\* A daemon process is replaced: its memory is gone.
Restart(d) ==
    /\ Lossy
    /\ l1' = [l1 EXCEPT ![d] = None]
    /\ pending' = [pending EXCEPT ![d] = 0]
    /\ evicting' = evicting \ {d}
    /\ resolver' = [r \in Resolvers |->
                      IF Home[r] = d THEN Start ELSE resolver[r]]
    /\ UNCHANGED <<db, superseded, unpublished, l2>>

----
(* Time.                                                                   *)

Older(age, most) == IF age < most THEN age + 1 ELSE age
OlderEnt(e) == [e EXCEPT !.age = Older(@, LocalTTL + 1)]
OlderL1(e) == IF e = None THEN None ELSE OlderEnt(e)

\* Redis drops the key when its TTL has run out.
OlderL2(e) ==
    IF e = None \/ e.left = 0 THEN None
    ELSE [ent |-> OlderEnt(e.ent), left |-> e.left - 1]

OlderResolver(s) ==
    CASE s.at = "read" -> [s EXCEPT !.gap = @ + 1]
      [] s.at \in {"setL2", "setL1"} ->
            [s EXCEPT !.ent = OlderEnt(@), !.held = @ + 1]
      [] OTHER -> s

Tick ==
    /\ \A r \in Resolvers :
          /\ Reading(r) => resolver[r].gap < MaxGap
          /\ Holding(r) => resolver[r].held < MaxStall
    /\ superseded' = [v \in Version |->
                        IF v < db THEN Older(superseded[v], LocalTTL + MaxGap + 1)
                        ELSE 0]
    /\ l1' = [d \in Daemons |-> OlderL1(l1[d])]
    /\ l2' = OlderL2(l2)
    /\ resolver' = [r \in Resolvers |-> OlderResolver(resolver[r])]
    /\ UNCHANGED <<db, unpublished, pending, evicting>>

Resolve(r) ==
    \/ MissL1(r) \/ DeleteExpired(r)
    \/ HitL2(r) \/ MissL2(r)
    \/ ReadRow(r) \/ StampRow(r) \/ FetchFails(r)
    \/ SetL2(r) \/ SetL1(r)

Next ==
    \/ Commit \/ CommitNothing
    \/ \E S \in SUBSET Daemons : Publish(S)
    \/ \E d \in Daemons : EvictL1(d) \/ EvictL2(d) \/ Restart(d)
    \/ \E r \in Resolvers : Resolve(r)
    \/ Tick

\* Time passes, a row that is read is answered or given up (the request has
\* a timeout), and a resolver that holds an entitlement finishes: only local
\* and Redis calls with a timeout are left.
Fairness ==
    /\ WF_vars(Tick)
    /\ \A r \in Resolvers :
          WF_vars(StampRow(r)) /\ WF_vars(SetL2(r)) /\ WF_vars(SetL1(r))

Spec == Init /\ [][Next]_vars
FairSpec == Spec /\ Fairness

----
(* What the cache guarantees.                                              *)

TypeOK ==
    /\ db \in Version
    /\ superseded \in [Version -> 0 .. LocalTTL + MaxGap + 1]
    /\ unpublished \in 0 .. MaxPending
    /\ l1 \in [Daemons -> Entitlement \cup {None}]
    /\ l2 \in RedisEntry \cup {None}
    /\ pending \in [Daemons -> 0 .. MaxPending]
    /\ evicting \in SUBSET Daemons
    /\ resolver \in [Resolvers -> Resolver]

\* Every entitlement that some tier would serve now, or that a resolver is
\* about to return.
Servable ==
    {l1[d] : d \in {x \in Daemons : Fresh(l1[x])}}
      \cup (IF l2 = None THEN {} ELSE {l2.ent})
      \cup {resolver[r].ent : r \in {x \in Resolvers : Holding(x)}}

\* Nor is a row on its way that the server has read and not yet stamped.
Clean ==
    /\ \A e \in Servable : e.version = db
    /\ \A r \in Resolvers : Reading(r) => resolver[r].version = db

\* A decision is never taken on a row that was replaced longer ago than the
\* five minutes the server grants and the time it may take from the read of
\* the row to its stamp, even if every invalidation is lost.
BoundedStaleness ==
    \A e \in Servable : superseded[e.version] <= LocalTTL + MaxGap

\* Once no tier and no resolver has an older row, nor the server one to
\* answer with, none ever has one again until the next update: nothing
\* brings an evicted version back.
CleanIsStable == [][Clean /\ db' = db => Clean']_vars

\* When the updates end, the old versions die out everywhere, with no help
\* from the invalidation channel.
StaleDiesOut == <>[]Clean

\* What the admin flow of the SRS promises: once the invalidation has been
\* handled by every daemon, the next request gets the new entitlement.
Quiescent ==
    /\ unpublished = 0 /\ evicting = {}
    /\ \A d \in Daemons : pending[d] = 0
    /\ \A r \in Resolvers : ~Reading(r) /\ ~Holding(r)

FreshOnceEvicted == Quiescent => Clean
====
