---- MODULE MCProducer ----
(* Instance of Producer for TLC: two inquiries, a queue of one, so that it *)
(* overflows while the background goroutine holds the other event, two     *)
(* calls for an event and two writes of the library for a call.            *)
EXTENDS Producer

CONSTANTS e1, e2

MCEvents == {e1, e2}
====
