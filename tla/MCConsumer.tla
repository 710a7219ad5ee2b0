---- MODULE MCConsumer ----
(* Instance of Consumer for TLC: two events in up to three messages, so    *)
(* that one of them comes twice, two SSE connections with a buffer of one, *)
(* and one crash or rebalance.                                             *)
EXTENDS Consumer

CONSTANTS e1, e2, c1, c2

MCEvents == {e1, e2}
MCClients == {c1, c2}
====
