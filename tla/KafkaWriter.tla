---- MODULE KafkaWriter ----
(***************************************************************************)
(* The kafka.Writer of segmentio/kafka-go, as far as the producer of the   *)
(* daemon can tell: a library, seen from how internal/producer/producer.go *)
(* sets it up and calls it (synchronous, one acknowledgement, MaxAttempts  *)
(* left at its default).                                                   *)
(*                                                                         *)
(* WriteMessages hands its message to a goroutine of the library and waits *)
(* for its batch.  The goroutine writes batches to the partition in their  *)
(* order and repeats one whose answer is an error or does not come, though *)
(* the broker may have it by then.  A call that ends on its context leaves *)
(* its message behind, to be written all the same.                         *)
(*                                                                         *)
(* Where a batch ends does not matter here: the messages at the front are  *)
(* written one after the other, and may all be written again from the      *)
(* front, which two messages in one batch and two batches both allow.      *)
(***************************************************************************)
EXTENDS Naturals, Sequences

CONSTANTS
    Events,
    MaxRetries,      \* maxRetries of publish: calls for an event
    WriterAttempts   \* MaxAttempts of the writer: writes of a message per call

VARIABLES
    writerOpen,   \* the writer is not closed
    pending,      \* the messages the library has, in order
    sent,         \* how many of them it has written since it last began anew
    topic         \* llm.transactions, as the broker has it

writerVars == <<pending, sent, topic>>

\* A message tells which call it is from and how often it was written; in
\* the topic, which of these writes it is.  Kafka sees the event alone.
Message == [event : Events, attempt : 1 .. MaxRetries,
            copies : 0 .. WriterAttempts]

WriterInit ==
    /\ writerOpen = TRUE
    /\ pending = <<>> /\ sent = 0
    /\ topic = <<>>

\* WriteMessages has found the partition.
Accept(e, n) ==
    /\ writerOpen
    /\ pending' = Append(pending, [event |-> e, attempt |-> n, copies |-> 0])
    /\ UNCHANGED <<writerOpen, sent, topic>>

\* The broker appends the next message.
Send ==
    /\ sent < Len(pending)
    /\ pending[sent + 1].copies < WriterAttempts
    /\ LET m == [pending[sent + 1] EXCEPT !.copies = @ + 1]
       IN  /\ pending' = [pending EXCEPT ![sent + 1] = m]
           /\ topic' = Append(topic, m)
    /\ sent' = sent + 1
    /\ UNCHANGED writerOpen

\* No answer, or an error: once more from the front, if attempts are left.
Repeat ==
    /\ sent > 0 /\ pending[1].copies < WriterAttempts
    /\ sent' = 0
    /\ UNCHANGED <<writerOpen, pending, topic>>

\* The first message is done with, acknowledged or not.
Finish ==
    /\ pending # <<>>
    /\ pending' = Tail(pending)
    /\ sent' = IF sent = 0 THEN 0 ELSE sent - 1
    /\ UNCHANGED <<writerOpen, topic>>
====
