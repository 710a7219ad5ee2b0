---- MODULE MCDelivery ----
(* Instance of Delivery for TLC: two inquiries, three messages, so that    *)
(* the event of one can come twice, one SSE connection with a buffer of    *)
(* one, and one crash or rebalance.                                        *)
EXTENDS Delivery

CONSTANTS e1, e2, c1

MCEvents == {e1, e2}
MCClients == {c1}
====
