---- MODULE EntitlementCacheProofs ----
(***************************************************************************)
(* How old a decision of the entitlement cache can be, for any daemons,    *)
(* resolvers and lifetimes, and although Redis and the invalidations fail. *)
(*                                                                         *)
(* The age of an entitlement and the gap between the read of its row and   *)
(* its stamp bound the time since its version was replaced (Stamped): the  *)
(* row was current when it was read, and from then on gap or age grow with *)
(* that time.  What is left to show is that nothing too old is served: L1  *)
(* looks at the age, but a hit in L2 does not.  There the TTL of the key   *)
(* does it, as an entry and a resolver on its way keep to the time they    *)
(* were given (Recent).                                                    *)
(***************************************************************************)
EXTENDS EntitlementCache, TLAPS

\* The version in the table, and those to come, have not been replaced.
Current == \A v \in Version : v >= db => superseded[v] = 0

\* An entitlement is as old as it says and the gap before its stamp, or its
\* version was good for longer.
Stamp(e) == e.version <= db /\ superseded[e.version] <= e.age + MaxGap

\* A row that the server has read was replaced after that, if it was.
Read(s) == s.version <= db /\ superseded[s.version] <= s.gap

Stamped ==
    /\ \A d \in Daemons : l1[d] # None => Stamp(l1[d])
    /\ l2 # None => Stamp(l2.ent)
    /\ \A r \in Resolvers : Holding(r) => Stamp(resolver[r].ent)
    /\ \A r \in Resolvers : Reading(r) => Read(resolver[r])

Recent ==
    /\ l2 # None => l2.ent.age + l2.left <= MaxStall + RedisTTL
    /\ \A r \in Resolvers :
          /\ resolver[r].at = "setL2" => resolver[r].ent.age <= resolver[r].held
          /\ resolver[r].at = "setL1" =>
                resolver[r].ent.age <= MaxStall + RedisTTL + resolver[r].held

IInv == TypeOK /\ Current /\ Stamped /\ Recent

----
(* Where a resolver stands, and what an entry is.                          *)

LEMMA Stages ==
    ASSUME TypeOK, NEW r \in Resolvers
    PROVE  /\ resolver[r].at \in {"start", "expired", "L2", "L3", "read", "setL2", "setL1"}
           /\ Reading(r) => /\ resolver[r].version \in Version
                            /\ resolver[r].gap \in 0 .. MaxGap
                            /\ resolver[r] = [at |-> "read",
                                              version |-> resolver[r].version,
                                              gap |-> resolver[r].gap]
           /\ Holding(r) => /\ resolver[r].ent \in Entitlement
                            /\ resolver[r].held \in 0 .. MaxStall
                            /\ resolver[r] = [at |-> resolver[r].at,
                                              ent |-> resolver[r].ent,
                                              held |-> resolver[r].held]
<1>1. resolver[r] \in Resolver
  BY DEF TypeOK
<1> QED
  BY <1>1 DEF Resolver, Reading, Holding

LEMMA HomeType ==
    ASSUME NEW r \in Resolvers
    PROVE  Home[r] \in Daemons
BY CacheAssumption

LEMMA OlderType ==
    ASSUME NEW most \in Nat, NEW n \in 0 .. most
    PROVE  /\ Older(n, most) \in 0 .. most
           /\ n <= Older(n, most) /\ Older(n, most) <= n + 1
           /\ n < most => Older(n, most) = n + 1
BY DEF Older

LEMMA OlderEntType ==
    ASSUME NEW e \in Entitlement
    PROVE  /\ OlderEnt(e) \in Entitlement
           /\ OlderEnt(e).version = e.version
           /\ OlderEnt(e).age = Older(e.age, LocalTTL + 1)
           /\ e.age \in Nat /\ OlderEnt(e).age \in Nat
           /\ e.age <= OlderEnt(e).age /\ OlderEnt(e).age <= e.age + 1
           /\ e.age <= LocalTTL => OlderEnt(e).age = e.age + 1
<1>1. e.age \in 0 .. LocalTTL + 1 /\ LocalTTL + 1 \in Nat
  BY CacheAssumption DEF Entitlement
<1>2. /\ Older(e.age, LocalTTL + 1) \in 0 .. LocalTTL + 1
      /\ e.age <= Older(e.age, LocalTTL + 1)
      /\ Older(e.age, LocalTTL + 1) <= e.age + 1
      /\ e.age < LocalTTL + 1 => Older(e.age, LocalTTL + 1) = e.age + 1
  BY <1>1, OlderType
<1>3. /\ OlderEnt(e) \in Entitlement
      /\ OlderEnt(e).version = e.version
      /\ OlderEnt(e).age = Older(e.age, LocalTTL + 1)
  BY <1>2 DEF OlderEnt, Entitlement
<1> QED
  BY <1>1, <1>2, <1>3, CacheAssumption

LEMMA InitInv == Init => IInv
<1> SUFFICES ASSUME Init PROVE IInv
  OBVIOUS
<1>1. TypeOK
  BY CacheAssumption
     DEF Init, TypeOK, Version, Entitlement, RedisEntry, Resolver, Start
<1>2. Current /\ Stamped /\ Recent
  BY DEF Init, Current, Stamped, Recent, Start, Reading, Holding
<1> QED
  BY <1>1, <1>2 DEF IInv

----
(* What a step has to show, depending on what it changes.                  *)

\* One resolver goes on; what it holds then is stamped and recent.
Next1(r, next) ==
    /\ next \in Resolver
    /\ next.at = "read" => Read(next)
    /\ next.at \in {"setL2", "setL1"} => Stamp(next.ent)
    /\ next.at = "setL2" => next.ent.age <= next.held
    /\ next.at = "setL1" => next.ent.age <= MaxStall + RedisTTL + next.held

LEMMA GotoKeeps ==
    ASSUME IInv, NEW r \in Resolvers, NEW next, Next1(r, next), Goto(r, next),
           UNCHANGED <<db, superseded>>
    PROVE  /\ resolver' \in [Resolvers -> Resolver]
           /\ \A x \in Resolvers : Holding(x)' => Stamp(resolver[x].ent)'
           /\ \A x \in Resolvers : Reading(x)' => Read(resolver[x])'
           /\ \A x \in Resolvers :
                /\ resolver'[x].at = "setL2"
                      => resolver'[x].ent.age <= resolver'[x].held
                /\ resolver'[x].at = "setL1"
                      => resolver'[x].ent.age <= MaxStall + RedisTTL + resolver'[x].held
<1>1. resolver \in [Resolvers -> Resolver]
  BY DEF IInv, TypeOK
<1>2. \A x \in Resolvers : resolver'[x] = IF x = r THEN next ELSE resolver[x]
  BY <1>1 DEF Goto
<1>3. resolver' \in [Resolvers -> Resolver]
  BY <1>1 DEF Goto, Next1
<1>4. ASSUME NEW x \in Resolvers, Holding(x)'
      PROVE  Stamp(resolver[x].ent)'
  BY <1>2, <1>4 DEF Holding, Stamp, Next1, IInv, Stamped
<1>6. ASSUME NEW x \in Resolvers, Reading(x)'
      PROVE  Read(resolver[x])'
  BY <1>2, <1>6 DEF Reading, Read, Next1, IInv, Stamped
<1>5. ASSUME NEW x \in Resolvers
      PROVE  /\ resolver'[x].at = "setL2"
                   => resolver'[x].ent.age <= resolver'[x].held
             /\ resolver'[x].at = "setL1"
                   => resolver'[x].ent.age <= MaxStall + RedisTTL + resolver'[x].held
  BY <1>2 DEF Next1, IInv, Recent
<1> QED
  BY <1>3, <1>4, <1>5, <1>6

\* The tables and the messages of invalidation do not matter to what the
\* caches hold, nor does an entry that goes.
LEMMA NoneStays == None \in RedisEntry \cup {None} /\ None \in Entitlement \cup {None}
OBVIOUS

LEMMA CommitKeeps ==
    ASSUME IInv, Commit
    PROVE  IInv'
<1>1. TypeOK'
  BY CacheAssumption DEF IInv, TypeOK, Commit, Version
<1>2. Current'
  BY DEF IInv, TypeOK, Current, Commit, Version
<1>3. superseded' = superseded /\ db' = db + 1 /\ db \in Nat
  BY CacheAssumption DEF IInv, TypeOK, Version, Commit
<1>4. Stamped'
  <2>1. ASSUME NEW v \in Nat, v <= db
        PROVE  v <= db'
    BY <1>3, <2>1
  <2>2. \A d \in Daemons : l1[d] # None => l1[d].version \in Nat
    BY DEF IInv, TypeOK, Entitlement, Version
  <2>3. l2 # None => l2.ent.version \in Nat
    BY DEF IInv, TypeOK, RedisEntry, Entitlement, Version
  <2>4. ASSUME NEW r \in Resolvers
        PROVE  /\ Holding(r) => resolver[r].ent.version \in Nat
               /\ Reading(r) => resolver[r].version \in Nat
    <3>1. /\ Holding(r) => resolver[r].ent \in Entitlement
          /\ Reading(r) => resolver[r].version \in Version
      BY Stages DEF IInv
    <3> QED
      BY <3>1 DEF Entitlement, Version
  <2> QED
    BY <1>3, <2>1, <2>2, <2>3, <2>4
       DEF IInv, Stamped, Stamp, Read, Commit, Reading, Holding
<1>5. Recent'
  BY DEF IInv, Recent, Commit
<1> QED
  BY <1>1, <1>2, <1>4, <1>5 DEF IInv

LEMMA PublicationKeeps ==
    ASSUME IInv, CommitNothing \/ \E S \in SUBSET Daemons : Publish(S)
    PROVE  IInv'
<1>1. TypeOK'
  BY CacheAssumption DEF IInv, TypeOK, CommitNothing, Publish
<1>2. UNCHANGED <<db, superseded, l1, l2, resolver>>
  BY DEF CommitNothing, Publish
<1>3. Current' /\ Stamped' /\ Recent'
  BY <1>2 DEF IInv, Current, Stamped, Stamp, Read, Recent, Reading, Holding
<1> QED
  BY <1>1, <1>3 DEF IInv

LEMMA EvictionKeeps ==
    ASSUME IInv, NEW d \in Daemons, EvictL1(d) \/ EvictL2(d)
    PROVE  IInv'
<1>1. CASE EvictL1(d)
  <2>1. TypeOK'
    BY <1>1, CacheAssumption DEF IInv, TypeOK, EvictL1
  <2>2. \A x \in Daemons : l1'[x] # None => l1'[x] = l1[x]
    BY <1>1 DEF IInv, TypeOK, EvictL1
  <2>3. UNCHANGED <<db, superseded, l2, resolver>>
    BY <1>1 DEF EvictL1
  <2>4. Current' /\ Stamped' /\ Recent'
    BY <2>2, <2>3 DEF IInv, Current, Stamped, Stamp, Read, Recent, Reading, Holding
  <2> QED
    BY <2>1, <2>4 DEF IInv
<1>2. CASE EvictL2(d)
  <2>1. l2' \in {None, l2} /\ evicting' \in SUBSET Daemons
    BY <1>2 DEF EvictL2, IInv, TypeOK
  <2>2. UNCHANGED <<db, superseded, unpublished, l1, pending, resolver>>
    BY <1>2 DEF EvictL2
  <2>3. TypeOK'
    BY <2>1, <2>2 DEF IInv, TypeOK
  <2>4. Current' /\ Stamped' /\ Recent'
    BY <2>1, <2>2 DEF IInv, Current, Stamped, Stamp, Read, Recent, Reading, Holding
  <2> QED
    BY <2>3, <2>4 DEF IInv
<1> QED
  BY <1>1, <1>2

LEMMA RestartKeeps ==
    ASSUME IInv, NEW d \in Daemons, Restart(d)
    PROVE  IInv'
<1>1. TypeOK'
  BY CacheAssumption DEF IInv, TypeOK, Restart, Resolver, Start
<1>2. /\ \A x \in Daemons : l1'[x] # None => l1'[x] = l1[x]
      /\ \A r \in Resolvers : resolver'[r] \in {Start, resolver[r]}
      /\ UNCHANGED <<db, superseded, l2>>
  BY DEF IInv, TypeOK, Restart
<1>3. Current' /\ Stamped' /\ Recent'
  BY <1>2 DEF IInv, Current, Stamped, Stamp, Read, Recent, Reading, Holding, Start
<1> QED
  BY <1>1, <1>3 DEF IInv

----
(* The steps of a resolver.                                                *)

\* Those after which it holds nothing, and L2 is as it was.
LEMMA LookingKeeps ==
    ASSUME IInv, NEW r \in Resolvers,
           MissL1(r) \/ DeleteExpired(r) \/ MissL2(r) \/ FetchFails(r)
    PROVE  IInv'
<1> DEFINE there == {Start, [at |-> "L2"], [at |-> "expired"], [at |-> "L3"]}
<1>1. PICK next \in there : Goto(r, next)
  BY DEF MissL1, DeleteExpired, MissL2, FetchFails
<1>2. Next1(r, next)
  BY <1>1 DEF Next1, Resolver, Start
<1>3. UNCHANGED <<db, superseded, unpublished, l2, pending, evicting>>
  BY DEF MissL1, DeleteExpired, MissL2, FetchFails
<1>4. /\ l1' \in [Daemons -> Entitlement \cup {None}]
      /\ \A d \in Daemons : l1'[d] # None => l1'[d] = l1[d]
  BY HomeType DEF IInv, TypeOK, MissL1, DeleteExpired, MissL2, FetchFails
<1>5. TypeOK'
  BY <1>1, <1>2, <1>3, <1>4, GotoKeeps DEF IInv, TypeOK
<1>6. Stamped'
  BY <1>1, <1>2, <1>3, <1>4, GotoKeeps DEF IInv, Stamped, Stamp
<1>7. Current' /\ Recent'
  BY <1>1, <1>2, <1>3, GotoKeeps DEF IInv, Current, Recent
<1> QED
  BY <1>5, <1>6, <1>7 DEF IInv

\* The entry has spent at most RedisTTL in L2, and MaxStall on its way there.
LEMMA HitKeeps ==
    ASSUME IInv, NEW r \in Resolvers, HitL2(r)
    PROVE  IInv'
<1> DEFINE next == Holds("setL1", l2.ent)
<1>1. l2 # None /\ l2 \in RedisEntry
  BY DEF HitL2, IInv, TypeOK
<1>2. Next1(r, next)
  <2>1. l2.ent \in Entitlement /\ l2.left \in Nat /\ l2.ent.age \in Nat
    BY <1>1, CacheAssumption DEF RedisEntry, Entitlement
  <2>2. next \in Resolver
    BY <2>1, CacheAssumption DEF Resolver, Holds
  <2>3. next.ent.age <= MaxStall + RedisTTL + next.held
    BY <1>1, <2>1, CacheAssumption DEF IInv, Recent, Holds
  <2> QED
    BY <1>1, <2>2, <2>3 DEF Next1, Holds, IInv, Stamped
<1>3. /\ Goto(r, next)
      /\ UNCHANGED <<db, superseded, unpublished, l1, l2, pending, evicting>>
  BY DEF HitL2
<1>4. TypeOK'
  BY <1>2, <1>3, GotoKeeps DEF IInv, TypeOK
<1>5. Stamped'
  BY <1>2, <1>3, GotoKeeps DEF IInv, Stamped, Stamp
<1>6. Current' /\ Recent'
  BY <1>2, <1>3, GotoKeeps DEF IInv, Current, Recent
<1> QED
  BY <1>4, <1>5, <1>6 DEF IInv

\* The row in the table has not been replaced when the server reads it.
LEMMA ReadRowKeeps ==
    ASSUME IInv, NEW r \in Resolvers, ReadRow(r)
    PROVE  IInv'
<1> DEFINE next == [at |-> "read", version |-> db, gap |-> 0]
<1>1. Next1(r, next)
  <2>1. next \in Resolver
    BY CacheAssumption DEF IInv, TypeOK, Resolver
  <2>2. Read(next)
    BY CacheAssumption DEF IInv, TypeOK, Current, Version, Read
  <2> QED
    BY <2>1, <2>2 DEF Next1
<1>2. /\ Goto(r, next)
      /\ UNCHANGED <<db, superseded, unpublished, l1, l2, pending, evicting>>
  BY DEF ReadRow
<1>3. TypeOK'
  BY <1>1, <1>2, GotoKeeps DEF IInv, TypeOK
<1>4. Stamped'
  BY <1>1, <1>2, GotoKeeps DEF IInv, Stamped, Stamp
<1>5. Current' /\ Recent'
  BY <1>1, <1>2, GotoKeeps DEF IInv, Current, Recent
<1> QED
  BY <1>3, <1>4, <1>5 DEF IInv

\* The gap becomes a part of the age that the stamp leaves out.
LEMMA StampRowKeeps ==
    ASSUME IInv, NEW r \in Resolvers, StampRow(r)
    PROVE  IInv'
<1> DEFINE ent == [version |-> resolver[r].version, age |-> 0]
           next == Holds("setL2", ent)
<1>1. /\ resolver[r].version \in Version /\ resolver[r].gap \in 0 .. MaxGap
      /\ Read(resolver[r])
  BY Stages DEF StampRow, IInv, Stamped
<1>2. Next1(r, next)
  <2>1. ent \in Entitlement /\ next \in Resolver
    BY <1>1, CacheAssumption DEF Resolver, Entitlement, Holds
  <2>2. superseded[resolver[r].version] \in Nat
    BY <1>1, CacheAssumption DEF IInv, TypeOK
  <2>3. Stamp(ent)
    BY <1>1, <2>2, CacheAssumption DEF Read, Stamp
  <2>4. next.at = "setL2" /\ next.ent = ent /\ next.held = 0
    BY DEF Holds
  <2> QED
    BY <2>1, <2>3, <2>4 DEF Next1
<1>3. /\ Goto(r, next)
      /\ UNCHANGED <<db, superseded, unpublished, l1, l2, pending, evicting>>
  BY DEF StampRow
<1>4. TypeOK'
  BY <1>2, <1>3, GotoKeeps DEF IInv, TypeOK
<1>5. Stamped'
  BY <1>2, <1>3, GotoKeeps DEF IInv, Stamped, Stamp
<1>6. Current' /\ Recent'
  BY <1>2, <1>3, GotoKeeps DEF IInv, Current, Recent
<1> QED
  BY <1>4, <1>5, <1>6 DEF IInv

LEMMA SetL2Keeps ==
    ASSUME IInv, NEW r \in Resolvers, SetL2(r)
    PROVE  IInv'
<1> DEFINE next == [resolver[r] EXCEPT !.at = "setL1"]
           entry == [ent |-> resolver[r].ent, left |-> RedisTTL]
<1>1. /\ resolver[r].at = "setL2" /\ Holding(r)
      /\ resolver[r].ent \in Entitlement /\ resolver[r].held \in 0 .. MaxStall
      /\ next = [at |-> "setL1", ent |-> resolver[r].ent, held |-> resolver[r].held]
  <2>1. resolver[r].at = "setL2" /\ Holding(r) /\ TypeOK
    BY DEF SetL2, Holding, IInv
  <2>2. /\ resolver[r].ent \in Entitlement /\ resolver[r].held \in 0 .. MaxStall
        /\ resolver[r] = [at |-> resolver[r].at, ent |-> resolver[r].ent,
                          held |-> resolver[r].held]
    BY <2>1, Stages
  <2> QED
    BY <2>1, <2>2
<1>2. /\ Stamp(resolver[r].ent)
      /\ resolver[r].ent.age <= resolver[r].held
      /\ resolver[r].ent.age \in Nat /\ resolver[r].held \in Nat
  BY <1>1, CacheAssumption DEF IInv, Stamped, Recent, Entitlement
<1>3. Next1(r, next)
  BY <1>1, <1>2, CacheAssumption DEF Next1, Resolver
<1>4. /\ Goto(r, next)
      /\ UNCHANGED <<db, superseded, unpublished, l1, pending, evicting>>
  BY DEF SetL2
<1>5. l2' = entry \/ l2' = l2
  BY DEF SetL2
<1>6. /\ entry \in RedisEntry /\ Stamp(entry.ent)
      /\ entry.ent.age + entry.left <= MaxStall + RedisTTL
  BY <1>1, <1>2, CacheAssumption DEF RedisEntry
<1>7. TypeOK'
  BY <1>3, <1>4, <1>5, <1>6, GotoKeeps DEF IInv, TypeOK
<1>8. Stamped'
  <2>1. l2' # None => Stamp(l2.ent)'
    BY <1>4, <1>5, <1>6 DEF IInv, Stamped, Stamp
  <2> QED
    BY <1>3, <1>4, <2>1, GotoKeeps DEF IInv, Stamped, Stamp
<1>9. Current'
  BY <1>4 DEF IInv, Current
<1>10. Recent'
  <2>1. l2' # None => l2'.ent.age + l2'.left <= MaxStall + RedisTTL
    BY <1>5, <1>6 DEF IInv, Recent
  <2> QED
    BY <1>3, <1>4, <2>1, GotoKeeps DEF Recent
<1> QED
  BY <1>7, <1>8, <1>9, <1>10 DEF IInv

LEMMA SetL1Keeps ==
    ASSUME IInv, NEW r \in Resolvers, SetL1(r)
    PROVE  IInv'
<1>1. /\ Holding(r) /\ resolver[r].ent \in Entitlement
      /\ Stamp(resolver[r].ent)
  BY Stages DEF SetL1, Holding, IInv, Stamped
<1>2. Next1(r, Start)
  BY DEF Next1, Resolver, Start
<1>3. /\ Goto(r, Start)
      /\ UNCHANGED <<db, superseded, unpublished, l2, pending, evicting>>
  BY DEF SetL1
<1>4. /\ l1' \in [Daemons -> Entitlement \cup {None}]
      /\ \A d \in Daemons : l1'[d] = l1[d] \/ l1'[d] = resolver[r].ent
  BY <1>1, HomeType DEF SetL1, IInv, TypeOK
<1>5. TypeOK'
  BY <1>2, <1>3, <1>4, GotoKeeps DEF IInv, TypeOK
<1>6. Stamped'
  <2>1. \A d \in Daemons : l1'[d] # None => Stamp(l1[d])'
    BY <1>1, <1>3, <1>4 DEF IInv, Stamped, Stamp
  <2> QED
    BY <1>2, <1>3, <2>1, GotoKeeps DEF IInv, Stamped, Stamp
<1>7. Current' /\ Recent'
  BY <1>2, <1>3, GotoKeeps DEF IInv, Current, Recent
<1> QED
  BY <1>5, <1>6, <1>7 DEF IInv

----
(* Time, which makes an entitlement and the version it has older alike.    *)

LEMMA TickVersions ==
    ASSUME IInv, Tick
    PROVE  /\ db' = db
           /\ superseded' \in [Version -> 0 .. LocalTTL + MaxGap + 1]
           /\ \A v \in Version : /\ superseded[v] \in 0 .. LocalTTL + MaxGap + 1
                                 /\ superseded'[v] \in 0 .. LocalTTL + MaxGap + 1
                                 /\ superseded'[v] <= superseded[v] + 1
           /\ Current'
<1>1. db' = db /\ db \in Nat
  <2>1. db \in 0 .. MaxVersion
    BY DEF IInv, TypeOK, Version
  <2>2. db' = db
    BY DEF Tick
  <2> QED
    BY <2>1, <2>2, CacheAssumption
<1> DEFINE most == LocalTTL + MaxGap + 1
<1>2. superseded' = [v \in Version |-> IF v < db THEN Older(superseded[v], most) ELSE 0]
  BY DEF Tick
<1>3. \A v \in Version : superseded[v] \in 0 .. most
  BY DEF IInv, TypeOK
<1>4. most \in Nat
  BY CacheAssumption
<1> HIDE DEF most
<1>5. ASSUME NEW v \in Version
      PROVE  superseded'[v] \in 0 .. most /\ superseded'[v] <= superseded[v] + 1
  <2>1. /\ Older(superseded[v], most) \in 0 .. most
        /\ Older(superseded[v], most) <= superseded[v] + 1
    BY <1>3, <1>4, OlderType
  <2> QED
    BY <1>2, <1>3, <1>4, <2>1
<1>6. superseded' \in [Version -> 0 .. most]
  BY <1>2, <1>5
<1>7. Current'
  BY <1>1, <1>2 DEF Current, Version
<1> QED
  BY <1>1, <1>3, <1>5, <1>6, <1>7 DEF most

\* An entitlement keeps up with its version.
LEMMA TickStamp ==
    ASSUME IInv, Tick, NEW e \in Entitlement, Stamp(e)
    PROVE  /\ OlderEnt(e).version <= db'
           /\ superseded'[OlderEnt(e).version] <= OlderEnt(e).age + MaxGap
<1>1. e.version \in Version /\ e.age \in 0 .. LocalTTL + 1
  BY DEF Entitlement
<1>2. /\ OlderEnt(e).version = e.version
      /\ OlderEnt(e).age \in Nat /\ e.age <= OlderEnt(e).age
      /\ e.age <= LocalTTL => OlderEnt(e).age = e.age + 1
  BY OlderEntType
<1>3. /\ superseded[e.version] \in 0 .. LocalTTL + MaxGap + 1
      /\ superseded'[e.version] \in 0 .. LocalTTL + MaxGap + 1
      /\ superseded'[e.version] <= superseded[e.version] + 1
      /\ db' = db
  BY <1>1, TickVersions
<1>4. CASE e.age <= LocalTTL
  BY <1>1, <1>2, <1>3, <1>4, CacheAssumption DEF Stamp
<1>5. CASE e.age = LocalTTL + 1
  BY <1>1, <1>2, <1>3, <1>5, CacheAssumption DEF Stamp
<1> QED
  BY <1>1, <1>4, <1>5, CacheAssumption

LEMMA TickL1 ==
    ASSUME IInv, Tick, NEW d \in Daemons
    PROVE  /\ l1'[d] = OlderL1(l1[d])
           /\ l1'[d] \in Entitlement \cup {None}
           /\ l1'[d] # None => l1[d] # None /\ l1[d] \in Entitlement
                               /\ l1'[d] = OlderEnt(l1[d])
<1>1. l1'[d] = OlderL1(l1[d])
  BY DEF Tick
<1>2. l1[d] \in Entitlement \cup {None}
  BY DEF IInv, TypeOK
<1>3. CASE l1[d] = None
  BY <1>1, <1>3 DEF OlderL1
<1>4. CASE l1[d] # None
  <2>1. l1[d] \in Entitlement /\ l1'[d] = OlderEnt(l1[d])
    BY <1>1, <1>2, <1>4 DEF OlderL1
  <2>2. OlderEnt(l1[d]) \in Entitlement
    BY <2>1, OlderEntType
  <2> QED
    BY <1>1, <1>4, <2>1, <2>2
<1> QED
  BY <1>3, <1>4

LEMMA TickL2 ==
    ASSUME IInv, Tick
    PROVE  /\ l2' \in RedisEntry \cup {None}
           /\ l2' # None => /\ l2 # None /\ l2 \in RedisEntry
                            /\ l2'.ent = OlderEnt(l2.ent)
                            /\ l2'.ent.age + l2'.left <= l2.ent.age + l2.left
<1>1. CASE l2 = None \/ l2.left = 0
  BY <1>1 DEF Tick, OlderL2
<1>2. CASE ~(l2 = None \/ l2.left = 0)
  <2>1. l2' = [ent |-> OlderEnt(l2.ent), left |-> l2.left - 1]
    BY <1>2 DEF Tick, OlderL2
  <2>2. l2 \in RedisEntry
    BY <1>2 DEF IInv, TypeOK
  <2>3. l2.ent \in Entitlement /\ l2.left \in 1 .. RedisTTL
    BY <1>2, <2>2, CacheAssumption DEF RedisEntry
  <2>4. /\ OlderEnt(l2.ent) \in Entitlement
        /\ l2.ent.age \in Nat /\ OlderEnt(l2.ent).age \in Nat
        /\ OlderEnt(l2.ent).age <= l2.ent.age + 1
    BY <2>3, OlderEntType
  <2>7. l2.left - 1 \in 0 .. RedisTTL
    BY <2>3, CacheAssumption
  <2>8. l2' \in RedisEntry
    BY <2>1, <2>4, <2>7 DEF RedisEntry
  <2>9. l2'.ent.age + l2'.left <= l2.ent.age + l2.left
    BY <2>1, <2>3, <2>4, CacheAssumption
  <2> QED
    BY <1>2, <2>1, <2>2, <2>8, <2>9
<1> QED
  BY <1>1, <1>2

LEMMA TickResolver ==
    ASSUME IInv, Tick, NEW r \in Resolvers
    PROVE  /\ resolver'[r] \in Resolver
           /\ resolver'[r].at = resolver[r].at
           /\ Reading(r) =>
                 /\ resolver[r].version \in Version
                 /\ resolver'[r].version = resolver[r].version
                 /\ resolver'[r].gap = resolver[r].gap + 1
                 /\ resolver[r].gap \in Nat
           /\ Holding(r) =>
                 /\ resolver[r].ent \in Entitlement
                 /\ resolver'[r].ent = OlderEnt(resolver[r].ent)
                 /\ resolver'[r].held = resolver[r].held + 1
                 /\ resolver[r].held \in Nat
                 /\ resolver[r].ent.age \in Nat
                 /\ resolver'[r].ent.age \in Nat
                 /\ resolver'[r].ent.age <= resolver[r].ent.age + 1
<1>1. resolver'[r] = OlderResolver(resolver[r])
  BY DEF Tick
<1>2. CASE Reading(r)
  <2> DEFINE v == resolver[r].version
             g == resolver[r].gap
  <2>1. /\ v \in Version /\ g \in 0 .. MaxGap
        /\ resolver[r] = [at |-> "read", version |-> v, gap |-> g]
    BY <1>2, Stages DEF IInv
  <2>2. g < MaxGap
    BY <1>2 DEF Tick
  <2>3. resolver'[r] = [at |-> "read", version |-> v, gap |-> g + 1]
    BY <1>1, <2>1 DEF OlderResolver
  <2>4. g + 1 \in 0 .. MaxGap /\ g \in Nat
    BY <2>1, <2>2, CacheAssumption
  <2>5. resolver'[r] \in Resolver
    BY <2>1, <2>3, <2>4 DEF Resolver
  <2> QED
    BY <1>2, <2>1, <2>3, <2>4, <2>5 DEF Reading, Holding
<1>3. CASE Holding(r)
  <2> DEFINE e == resolver[r].ent
             h == resolver[r].held
  <2>1. /\ e \in Entitlement /\ h \in 0 .. MaxStall
        /\ resolver[r] = [at |-> resolver[r].at, ent |-> e, held |-> h]
        /\ resolver[r].at \in {"setL2", "setL1"}
    BY <1>3, Stages DEF IInv, Holding
  <2>2. h < MaxStall
    BY <1>3 DEF Tick
  <2>3. resolver'[r] = [at |-> resolver[r].at, ent |-> OlderEnt(e), held |-> h + 1]
    BY <1>1, <2>1 DEF OlderResolver
  <2>4. /\ OlderEnt(e) \in Entitlement
        /\ e.age \in Nat /\ OlderEnt(e).age \in Nat /\ OlderEnt(e).age <= e.age + 1
    BY <2>1, OlderEntType
  <2>5. h + 1 \in 0 .. MaxStall /\ h \in Nat
    BY <2>1, <2>2, CacheAssumption
  <2>6. resolver'[r] \in Resolver
    BY <2>1, <2>3, <2>4, <2>5 DEF Resolver
  <2> QED
    BY <1>3, <2>1, <2>3, <2>4, <2>5, <2>6 DEF Reading, Holding
<1>4. CASE ~Reading(r) /\ ~Holding(r)
  <2>1. resolver'[r] = resolver[r]
    BY <1>1, <1>4 DEF OlderResolver, Reading, Holding
  <2> QED
    BY <1>4, <2>1 DEF IInv, TypeOK
<1> QED
  BY <1>2, <1>3, <1>4

LEMMA TickKeeps ==
    ASSUME IInv, Tick
    PROVE  IInv'
<1>1. UNCHANGED <<db, unpublished, pending, evicting>>
  BY DEF Tick
<1>2. TypeOK'
  <2>1. l1' \in [Daemons -> Entitlement \cup {None}]
    <3>1. l1' = [d \in Daemons |-> OlderL1(l1[d])]
      BY DEF Tick
    <3> QED
      BY <3>1, TickL1
  <2>2. resolver' \in [Resolvers -> Resolver]
    <3>1. /\ DOMAIN resolver' = Resolvers
          /\ resolver' = [r \in DOMAIN resolver' |-> resolver'[r]]
      BY DEF Tick
    <3> QED
      BY <3>1, TickResolver
  <2> QED
    BY <1>1, <2>1, <2>2, TickL2, TickVersions DEF IInv, TypeOK
<1>3. Stamped'
  <2>1. ASSUME NEW d \in Daemons, l1'[d] # None
        PROVE  Stamp(l1[d])'
    BY <2>1, TickL1, TickStamp DEF IInv, Stamped, Stamp
  <2>2. ASSUME l2' # None
        PROVE  Stamp(l2.ent)'
    <3>1. l2 # None /\ l2.ent \in Entitlement /\ l2'.ent = OlderEnt(l2.ent)
      BY <2>2, TickL2 DEF RedisEntry
    <3> QED
      BY <3>1, TickStamp DEF IInv, Stamped, Stamp
  <2>3. ASSUME NEW r \in Resolvers, Holding(r)'
        PROVE  Stamp(resolver[r].ent)'
    <3>1. Holding(r)
      BY <2>3, TickResolver DEF Holding
    <3> QED
      BY <3>1, TickResolver, TickStamp DEF IInv, Stamped, Stamp
  <2>4. ASSUME NEW r \in Resolvers, Reading(r)'
        PROVE  Read(resolver[r])'
    <3>1. Reading(r)
      BY <2>4, TickResolver DEF Reading
    <3>2. /\ resolver[r].version \in Version /\ resolver[r].gap \in Nat
          /\ resolver'[r].version = resolver[r].version
          /\ resolver'[r].gap = resolver[r].gap + 1
      BY <3>1, TickResolver
    <3>3. /\ resolver[r].version <= db
          /\ superseded[resolver[r].version] <= resolver[r].gap
      BY <3>1 DEF IInv, Stamped, Read
    <3>4. /\ superseded[resolver[r].version] \in Nat
          /\ superseded'[resolver[r].version] \in Nat
          /\ superseded'[resolver[r].version] <= superseded[resolver[r].version] + 1
          /\ db' = db
      BY <3>2, TickVersions
    <3>5. superseded'[resolver[r].version] <= resolver[r].gap + 1
      BY <3>2, <3>3, <3>4
    <3> QED
      BY <3>2, <3>3, <3>4, <3>5 DEF Read
  <2> QED
    BY <2>1, <2>2, <2>3, <2>4 DEF Stamped
<1>4. Recent'
  <2>1. ASSUME l2' # None
        PROVE  (l2.ent.age + l2.left <= MaxStall + RedisTTL)'
    <3>1. /\ l2.ent.age + l2.left <= MaxStall + RedisTTL
          /\ l2'.ent.age + l2'.left <= l2.ent.age + l2.left
      BY <2>1, TickL2 DEF IInv, Recent
    <3>2. l2 \in RedisEntry /\ l2' \in RedisEntry
      BY <2>1, TickL2
    <3>3. /\ l2.ent.age \in Nat /\ l2.left \in Nat
          /\ l2'.ent.age \in Nat /\ l2'.left \in Nat
      BY <3>2, CacheAssumption DEF RedisEntry, Entitlement
    <3> QED
      BY <3>1, <3>3, CacheAssumption
  <2>2. ASSUME NEW r \in Resolvers
        PROVE  /\ resolver'[r].at = "setL2" =>
                     resolver'[r].ent.age <= resolver'[r].held
               /\ resolver'[r].at = "setL1" =>
                     resolver'[r].ent.age <= MaxStall + RedisTTL + resolver'[r].held
    <3>1. CASE Holding(r)
      <4>1. /\ resolver'[r].at = resolver[r].at
            /\ resolver'[r].held = resolver[r].held + 1
            /\ resolver'[r].ent.age <= resolver[r].ent.age + 1
            /\ resolver[r].held \in Nat /\ resolver[r].ent.age \in Nat
            /\ resolver'[r].ent.age \in Nat
        BY <3>1, TickResolver
      <4> QED
        BY <4>1, CacheAssumption DEF IInv, Recent
    <3>2. CASE ~Holding(r)
      BY <3>2, TickResolver DEF Holding
    <3> QED
      BY <3>1, <3>2
  <2> QED
    BY <2>1, <2>2 DEF Recent
<1> QED
  BY <1>2, <1>3, <1>4, TickVersions DEF IInv

LEMMA InvStep == IInv /\ [Next]_vars => IInv'
<1> SUFFICES ASSUME IInv, [Next]_vars PROVE IInv'
  OBVIOUS
<1>1. CASE Commit
  BY <1>1, CommitKeeps
<1>2. CASE CommitNothing \/ \E S \in SUBSET Daemons : Publish(S)
  BY <1>2, PublicationKeeps
<1>3. ASSUME NEW d \in Daemons, EvictL1(d) \/ EvictL2(d) \/ Restart(d)
      PROVE  IInv'
  BY <1>3, EvictionKeeps, RestartKeeps
<1>4. ASSUME NEW r \in Resolvers, Resolve(r)
      PROVE  IInv'
  BY <1>4, LookingKeeps, HitKeeps, ReadRowKeeps, StampRowKeeps, SetL2Keeps,
     SetL1Keeps
     DEF Resolve
<1>5. CASE Tick
  BY <1>5, TickKeeps
<1>6. CASE UNCHANGED vars
  <2>1. TypeOK'
    BY <1>6 DEF IInv, TypeOK, vars
  <2>2. Current' /\ Stamped' /\ Recent'
    BY <1>6 DEF IInv, Current, Stamped, Stamp, Read, Recent, Reading, Holding, vars
  <2> QED
    BY <2>1, <2>2 DEF IInv
<1> QED
  BY <1>1, <1>2, <1>3, <1>4, <1>5, <1>6 DEF Next

----
(* The results.                                                            *)

\* Every state of the cache has its types.
THEOREM TypeCorrect == Spec => []TypeOK
<1>1. IInv => TypeOK
  BY DEF IInv
<1> QED
  BY <1>1, InitInv, InvStep, PTL DEF Spec

LEMMA RecentIsGoodEnough == IInv => BoundedStaleness
<1> SUFFICES ASSUME IInv, NEW e \in Servable
             PROVE  superseded[e.version] <= LocalTTL + MaxGap
  BY DEF BoundedStaleness
<1>1. e \in Entitlement /\ Stamp(e) /\ e.age <= LocalTTL
  <2>1. CASE \E d \in Daemons : Fresh(l1[d]) /\ e = l1[d]
    BY <2>1 DEF Fresh, IInv, TypeOK, Stamped
  <2>2. CASE l2 # None /\ e = l2.ent
    <3>1. l2 \in RedisEntry /\ l2.ent.age + l2.left <= MaxStall + RedisTTL
      BY <2>2 DEF IInv, TypeOK, Recent
    <3>2. e \in Entitlement /\ e.age \in Nat /\ l2.left \in Nat
      BY <2>2, <3>1, CacheAssumption DEF RedisEntry, Entitlement
    <3>3. e.age <= LocalTTL
      BY <2>2, <3>1, <3>2, CacheAssumption
    <3> QED
      BY <2>2, <3>2, <3>3 DEF IInv, Stamped
  <2>3. CASE \E r \in Resolvers : Holding(r) /\ e = resolver[r].ent
    <3>1. PICK r \in Resolvers : Holding(r) /\ e = resolver[r].ent
      BY <2>3
    <3>2. e \in Entitlement /\ resolver[r].held \in 0 .. MaxStall
      BY <3>1, Stages DEF IInv
    <3>3. e.age \in Nat
      BY <3>2, CacheAssumption DEF Entitlement
    <3>4. e.age <= LocalTTL
      BY <3>1, <3>2, <3>3, CacheAssumption DEF IInv, Recent, Holding
    <3> QED
      BY <3>1, <3>2, <3>4 DEF IInv, Stamped
  <2> QED
    BY <2>1, <2>2, <2>3 DEF Servable
<1>2. superseded[e.version] \in Nat /\ e.age \in Nat
  BY <1>1, CacheAssumption DEF IInv, TypeOK, Entitlement
<1> QED
  BY <1>1, <1>2, CacheAssumption DEF Stamp

\* Resolver.Resolve: no decision on a row that was replaced longer ago than
\* the server's five minutes and the gap between its read of a row and the
\* stamp of the answer, whatever Redis and the invalidations do.
THEOREM StalenessBounded == Spec => []BoundedStaleness
BY RecentIsGoodEnough, InitInv, InvStep, PTL DEF Spec

----
(* Nothing brings an evicted version back: a step passes on what was       *)
(* servable or read before, or reads the row as it is.                     *)

LEMMA CleanMeans ==
    /\ Clean <=> /\ \A d \in Daemons : Fresh(l1[d]) => l1[d].version = db
                 /\ l2 # None => l2.ent.version = db
                 /\ \A r \in Resolvers : Holding(r) => resolver[r].ent.version = db
                 /\ \A r \in Resolvers : Reading(r) => resolver[r].version = db
    /\ Clean' <=> /\ \A d \in Daemons : Fresh(l1'[d]) => l1'[d].version = db'
                  /\ l2' # None => l2'.ent.version = db'
                  /\ \A r \in Resolvers :
                        Holding(r)' => resolver'[r].ent.version = db'
                  /\ \A r \in Resolvers :
                        Reading(r)' => resolver'[r].version = db'
BY DEF Clean, Servable, Fresh, Reading, Holding

\* L1 loses entries or gets one of the current version; likewise L2, and
\* what the resolvers hold.
LEMMA PassedOn ==
    ASSUME Clean, db' = db,
           \A d \in Daemons : \/ l1'[d] = None \/ l1'[d] = l1[d]
                              \/ l1'[d].version = db,
           l2' = None \/ l2' = l2 \/ l2'.ent.version = db,
           \A r \in Resolvers :
              \/ resolver'[r] = resolver[r]
              \/ resolver'[r].at \notin {"read", "setL2", "setL1"}
              \/ resolver'[r].at = "read" /\ resolver'[r].version = db
              \/ resolver'[r].at # "read" /\ resolver'[r].ent.version = db
    PROVE  Clean'
<1>1. \A d \in Daemons : Fresh(l1'[d]) => l1'[d].version = db'
  BY CleanMeans DEF Fresh
<1>2. l2' # None => l2'.ent.version = db'
  BY CleanMeans
<1>3. \A r \in Resolvers : Holding(r)' => resolver'[r].ent.version = db'
  BY CleanMeans DEF Holding
<1>4. \A r \in Resolvers : Reading(r)' => resolver'[r].version = db'
  BY CleanMeans DEF Reading
<1> QED
  BY <1>1, <1>2, <1>3, <1>4, CleanMeans

LEMMA ResolveStaysClean ==
    ASSUME IInv, Clean, db' = db, NEW r \in Resolvers, Resolve(r)
    PROVE  Clean'
<1> USE DEF IInv
<1>1. CASE MissL1(r) \/ DeleteExpired(r) \/ MissL2(r) \/ FetchFails(r)
  <2>1. \A d \in Daemons : l1'[d] \in {None, l1[d]}
    BY <1>1, HomeType
       DEF TypeOK, MissL1, DeleteExpired, MissL2, FetchFails
  <2>2. l2' = l2
    BY <1>1 DEF MissL1, DeleteExpired, MissL2, FetchFails
  <2>3. \A x \in Resolvers : \/ resolver'[x] = resolver[x]
                             \/ resolver'[x].at \notin {"read", "setL2", "setL1"}
    <3>1. PICK at \in {"start", "L2", "expired", "L3"} : Goto(r, [at |-> at])
      BY <1>1 DEF MissL1, DeleteExpired, MissL2, FetchFails, Start
    <3> QED
      BY <3>1 DEF TypeOK, Goto
  <2> QED
    BY <2>1, <2>2, <2>3, PassedOn
<1>2. CASE HitL2(r)
  <2>1. /\ UNCHANGED <<l1, l2>> /\ Goto(r, Holds("setL1", l2.ent))
        /\ l2.ent.version = db
    BY <1>2, CleanMeans DEF HitL2
  <2>2. \A x \in Resolvers :
           \/ resolver'[x] = resolver[x]
           \/ resolver'[x].at # "read" /\ resolver'[x].ent.version = db
    BY <2>1 DEF TypeOK, Goto, Holds
  <2> QED
    BY <2>1, <2>2, PassedOn
<1>3. CASE ReadRow(r)
  <2>1. /\ UNCHANGED <<l1, l2>>
        /\ Goto(r, [at |-> "read", version |-> db, gap |-> 0])
    BY <1>3 DEF ReadRow
  <2>2. \A x \in Resolvers :
           \/ resolver'[x] = resolver[x]
           \/ resolver'[x].at = "read" /\ resolver'[x].version = db
    BY <2>1 DEF TypeOK, Goto
  <2> QED
    BY <2>1, <2>2, PassedOn
<1>6. CASE StampRow(r)
  <2>1. /\ UNCHANGED <<l1, l2>> /\ resolver[r].version = db
        /\ Goto(r, Holds("setL2", [version |-> resolver[r].version, age |-> 0]))
    BY <1>6, CleanMeans DEF StampRow
  <2>2. \A x \in Resolvers :
           \/ resolver'[x] = resolver[x]
           \/ resolver'[x].at # "read" /\ resolver'[x].ent.version = db
    BY <2>1 DEF TypeOK, Goto, Holds
  <2> QED
    BY <2>1, <2>2, PassedOn
<1>4. CASE SetL2(r)
  <2>1. resolver[r].ent.version = db
    BY <1>4, CleanMeans DEF SetL2, Holding
  <2>2. l2' = l2 \/ l2'.ent.version = db
    BY <1>4, <2>1 DEF SetL2
  <2>3. l1' = l1 /\ Goto(r, [resolver[r] EXCEPT !.at = "setL1"])
    BY <1>4 DEF SetL2
  <2>4. /\ [resolver[r] EXCEPT !.at = "setL1"].ent = resolver[r].ent
        /\ [resolver[r] EXCEPT !.at = "setL1"].at = "setL1"
    <3>1. Holding(r)
      BY <1>4 DEF SetL2, Holding
    <3> QED
      BY <3>1, Stages
  <2>5. \A x \in Resolvers :
           \/ resolver'[x] = resolver[x]
           \/ resolver'[x].at # "read" /\ resolver'[x].ent.version = db
    BY <2>1, <2>3, <2>4 DEF TypeOK, Goto
  <2> QED
    BY <2>2, <2>3, <2>5, PassedOn
<1>5. CASE SetL1(r)
  <2>1. resolver[r].ent.version = db
    BY <1>5, CleanMeans DEF SetL1, Holding
  <2>2. \A d \in Daemons : l1'[d] = l1[d] \/ l1'[d].version = db
    BY <1>5, <2>1, HomeType DEF TypeOK, SetL1
  <2>3. l2' = l2 /\ Goto(r, Start)
    BY <1>5 DEF SetL1
  <2>4. \A x \in Resolvers : \/ resolver'[x] = resolver[x]
                             \/ resolver'[x].at \notin {"read", "setL2", "setL1"}
    BY <2>3 DEF TypeOK, Goto, Start
  <2> QED
    BY <2>2, <2>3, <2>4, PassedOn
<1> QED
  BY <1>1, <1>2, <1>3, <1>4, <1>5, <1>6 DEF Resolve

\* Entries get older, and so do not become fresh again.
LEMMA TickStaysClean ==
    ASSUME IInv, Clean, Tick
    PROVE  Clean'
<1>1. db' = db
  BY DEF Tick
<1>2. ASSUME NEW d \in Daemons, Fresh(l1'[d])
      PROVE  l1'[d].version = db'
  <2>1. l1[d] \in Entitlement /\ l1[d] # None /\ l1'[d] = OlderEnt(l1[d])
    BY <1>2, TickL1 DEF Fresh
  <2>2. /\ l1'[d].version = l1[d].version
        /\ l1[d].age \in Nat /\ l1'[d].age \in Nat /\ l1[d].age <= l1'[d].age
    BY <2>1, OlderEntType
  <2>3. l1[d].age <= LocalTTL
    BY <1>2, <2>2, CacheAssumption DEF Fresh
  <2> QED
    BY <1>1, <2>1, <2>2, <2>3, CleanMeans DEF Fresh
<1>3. ASSUME l2' # None
      PROVE  l2'.ent.version = db'
  <2>1. l2 # None /\ l2.ent \in Entitlement /\ l2'.ent = OlderEnt(l2.ent)
    BY <1>3, TickL2 DEF RedisEntry
  <2> QED
    BY <1>1, <2>1, OlderEntType, CleanMeans
<1>4. ASSUME NEW r \in Resolvers, Holding(r)'
      PROVE  resolver'[r].ent.version = db'
  <2>1. Holding(r)
    BY <1>4, TickResolver DEF Holding
  <2>2. /\ resolver[r].ent \in Entitlement
        /\ resolver'[r].ent = OlderEnt(resolver[r].ent)
    BY <2>1, TickResolver
  <2> QED
    BY <1>1, <2>1, <2>2, OlderEntType, CleanMeans
<1>5. ASSUME NEW r \in Resolvers, Reading(r)'
      PROVE  resolver'[r].version = db'
  <2>1. Reading(r)
    BY <1>5, TickResolver DEF Reading
  <2> QED
    BY <1>1, <2>1, TickResolver, CleanMeans
<1> QED
  BY <1>2, <1>3, <1>4, <1>5, CleanMeans

LEMMA CleanStep ==
    ASSUME IInv, Clean, db' = db, [Next]_vars
    PROVE  Clean'
<1>1. CASE Commit
  BY <1>1 DEF Commit, IInv, TypeOK, Version
<1>2. CASE CommitNothing \/ \E S \in SUBSET Daemons : Publish(S)
  BY <1>2, PassedOn DEF CommitNothing, Publish
<1>3. ASSUME NEW d \in Daemons, EvictL1(d) \/ EvictL2(d) \/ Restart(d)
      PROVE  Clean'
  <2>1. \A x \in Daemons : l1'[x] = None \/ l1'[x] = l1[x]
    BY <1>3 DEF IInv, TypeOK, EvictL1, EvictL2, Restart
  <2>2. l2' = None \/ l2' = l2
    BY <1>3 DEF EvictL1, EvictL2, Restart
  <2>3. \A r \in Resolvers : \/ resolver'[r] = resolver[r]
                             \/ resolver'[r].at \notin {"read", "setL2", "setL1"}
    BY <1>3 DEF EvictL1, EvictL2, Restart, Start
  <2> QED
    BY <2>1, <2>2, <2>3, PassedOn
<1>4. ASSUME NEW r \in Resolvers, Resolve(r)
      PROVE  Clean'
  BY <1>4, ResolveStaysClean
<1>5. CASE Tick
  BY <1>5, TickStaysClean
<1>6. CASE UNCHANGED vars
  BY <1>6, PassedOn DEF vars
<1> QED
  BY <1>1, <1>2, <1>3, <1>4, <1>5, <1>6 DEF Next

\* Subscriber.evict against Resolver.Resolve: once every tier, every resolver
\* and every answer under way has the current row, no older one comes back
\* until the next update.
THEOREM CleanCorrect == Spec => CleanIsStable
<1>1. IInv /\ [Next]_vars => [Clean /\ db' = db => Clean']_vars
  BY CleanStep
<1> QED
  BY <1>1, InitInv, InvStep, PTL DEF Spec, CleanIsStable
====
