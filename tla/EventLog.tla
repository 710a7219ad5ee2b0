---- MODULE EventLog ----
(***************************************************************************)
(* What the daemon's producer promises of the transaction log, whatever    *)
(* goroutines, retries, shutdowns and the client library do.  An event is  *)
(* written only if it was accepted: one that the full queue refused never  *)
(* is.  Its fate is decided once, and it counts as published only if it is *)
(* in the log.  No more than that: copies of an event may still come after *)
(* it was acknowledged or given up, from calls that had ended without an   *)
(* answer.  Producer implements this specification.                        *)
(***************************************************************************)
EXTENDS Naturals, Sequences

CONSTANT Events

VARIABLES
    log,     \* the messages of llm.transactions
    fate     \* of each event

vars == <<log, fate>>

Init == log = <<>> /\ fate = [e \in Events |-> "new"]

Decide(e, how) == fate' = [fate EXCEPT ![e] = how]

\* The queue takes the event on, or refuses it.
Offer(e) ==
    /\ fate[e] = "new"
    /\ Decide(e, "pending") \/ Decide(e, "refused")
    /\ UNCHANGED log

\* A message is written, and nobody may have heard of it, or be waiting.
Write(e) ==
    /\ fate[e] \in {"pending", "published", "lost"}
    /\ log' = Append(log, e)
    /\ UNCHANGED fate

\* The broker's acknowledgement arrives.
Publish(e) ==
    /\ fate[e] = "pending"
    /\ \E i \in 1 .. Len(log) : log[i] = e
    /\ Decide(e, "published")
    /\ UNCHANGED log

\* The producer gives up, whether or not something was written.
Lose(e) ==
    /\ fate[e] = "pending"
    /\ Decide(e, "lost")
    /\ UNCHANGED log

Next == \E e \in Events : Offer(e) \/ Write(e) \/ Publish(e) \/ Lose(e)

Spec == Init /\ [][Next]_vars
====
