---- MODULE MCEntitlementCache ----
(* Instance of EntitlementCache for TLC: two daemons that share Redis, a   *)
(* resolver in each, and one tick for about a minute of the code's         *)
(* durations (the server's TTL cut from five ticks to three).              *)
EXTENDS EntitlementCache

CONSTANTS d1, d2, r1, r2

MCDaemons == {d1, d2}
MCResolvers == {r1, r2}
MCHome == [r \in MCResolvers |-> IF r = r1 THEN d1 ELSE d2]
====
