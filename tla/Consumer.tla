---- MODULE Consumer ----
(***************************************************************************)
(* How transaction events get from Kafka into PostgreSQL and onto the      *)
(* console's live feed: internal/server/consumer, the two inserts of       *)
(* internal/server/repository, internal/server/sse and the SSE handler of  *)
(* internal/server/api/console_observability.go.                           *)
(*                                                                         *)
(* One partition and one consumer of the group.  An offset is committed    *)
(* by message, but Kafka keeps one number: a commit covers everything      *)
(* before it.  The rows survive a crash of the server; the reader's        *)
(* position, the message in work and the live feed do not.                 *)
(***************************************************************************)
EXTENDS Naturals, Sequences

CONSTANTS
    Events,        \* request ids: the key of both tables
    Clients,       \* SSE connections, each used once
    ChannelCap,    \* capacity of a client's channel
    MaxTopic,      \* bound: messages in the partition
    MaxRestarts    \* bound: crashes and rebalances

ASSUME ConsumerAssumption ==
    /\ ChannelCap \in Nat \ {0}
    /\ MaxTopic \in Nat /\ MaxRestarts \in Nat

VARIABLES
    topic,        \* the partition; the producer may write an event twice
    committed,    \* the group's offset: next message to read, 0 if none yet
    position,     \* Reader: next message FetchMessage returns
    stage,        \* where Start stands with the message in work
    current,      \* offset of the message in work
    targets,      \* Broadcast: snapshot of the channels still to be sent to
    requestLogs,  \* rows of request_logs
    costRecords,  \* rows of cost_records
    client,       \* Broadcaster.clients and the state of each channel
    channel,      \* what each channel buffers
    failed,       \* history: offsets that safeProcess gave up at least once
    missed,       \* history: offsets that a start at LastOffset passed over
    restarts

kafka == <<topic, committed, position, missed, restarts>>
tables == <<requestLogs, costRecords>>
feed == <<client, channel>>
work == <<stage, current, targets>>
vars == <<kafka, tables, feed, work, failed>>

Stages == {"down", "fetch", "insertLog", "insertCost", "snapshot",
           "broadcast", "commit"}
Up == stage # "down"
Event == topic[current]
Stored(e) == e \in requestLogs /\ e \in costRecords

\* Where a reader begins: at the group's offset, or else at the end.
StartOffset == IF committed = 0 THEN Len(topic) + 1 ELSE committed

Init ==
    /\ topic = <<>>
    /\ committed = 0 /\ position = 1
    /\ stage = "down" /\ current = 0 /\ targets = {}
    /\ requestLogs = {} /\ costRecords = {}
    /\ client = [c \in Clients |-> "new"]
    /\ channel = [c \in Clients |-> <<>>]
    /\ failed = {} /\ missed = {}
    /\ restarts = 0

----
(* Kafka and the server process.                                           *)

\* A daemon's producer writes an event, for the first time or again.
Produce(e) ==
    /\ Len(topic) < MaxTopic
    /\ topic' = Append(topic, e)
    /\ UNCHANGED <<committed, position, missed, restarts,
                   tables, feed, work, failed>>

BeginReading ==
    /\ position' = StartOffset
    /\ missed' = IF committed = 0 THEN missed \cup (1 .. Len(topic)) ELSE missed
    /\ UNCHANGED <<topic, committed>>

Start ==
    /\ stage = "down"
    /\ stage' = "fetch"
    /\ BeginReading
    /\ UNCHANGED <<current, targets, tables, feed, failed, restarts>>

\* The group rebalances: the reader goes back to the group's offset, while
\* the message in work, if any, stays in work.
Rebalance ==
    /\ Up /\ restarts < MaxRestarts
    /\ restarts' = restarts + 1
    /\ BeginReading
    /\ UNCHANGED <<work, tables, feed, failed>>

\* The server dies, and every SSE connection with it.
Crash ==
    /\ Up /\ restarts < MaxRestarts
    /\ restarts' = restarts + 1
    /\ stage' = "down" /\ current' = 0 /\ targets' = {}
    /\ client' = [c \in Clients |->
                    IF client[c] = "open" THEN "closed" ELSE client[c]]
    /\ channel' = [c \in Clients |-> <<>>]
    /\ UNCHANGED <<topic, committed, position, missed, tables, failed>>

----
(* Consumer.Start, safeProcess and processMessage.  The definitions        *)
(* "Bad..." are faulty variants of those that follow them, no part of the  *)
(* specification: they show that the properties can fail.                  *)

\* Off by one at the end of the partition.
BadFetchPastEnd ==
    /\ stage = "fetch"
    /\ position <= Len(topic) + 1
    /\ current' = position
    /\ position' = position + 1
    /\ stage' = "insertLog"
    /\ UNCHANGED <<topic, committed, missed, restarts,
                   targets, tables, feed, failed>>

\* The offset is committed as soon as the message is read.
BadFetchCommits ==
    /\ stage = "fetch"
    /\ position <= Len(topic)
    /\ current' = position
    /\ position' = position + 1
    /\ committed' = position + 1
    /\ stage' = "insertLog"
    /\ UNCHANGED <<topic, missed, restarts, targets, tables, feed, failed>>

Fetch ==
    /\ stage = "fetch"
    /\ position <= Len(topic)
    /\ current' = position
    /\ position' = position + 1
    /\ stage' = "insertLog"
    /\ UNCHANGED <<topic, committed, missed, restarts,
                   targets, tables, feed, failed>>

\* The message will be read again at once, until it succeeds.
BadGiveUpRewinds ==
    /\ failed' = failed \cup {current}
    /\ stage' = "fetch" /\ current' = 0 /\ targets' = {}
    /\ position' = current
    /\ UNCHANGED <<topic, committed, missed, restarts>>

\* safeProcess logs an error or a recovered panic, commits nothing, and the
\* loop goes on with the next message.
GiveUp ==
    /\ failed' = failed \cup {current}
    /\ stage' = "fetch" /\ current' = 0 /\ targets' = {}
    /\ UNCHANGED kafka

\* ON CONFLICT DO NOTHING: a second row for the same request changes nothing.
InsertLog ==
    /\ stage = "insertLog"
    /\ requestLogs' = requestLogs \cup {Event}
    /\ stage' = "insertCost"
    /\ UNCHANGED <<kafka, current, targets, costRecords, feed, failed>>

InsertCost ==
    /\ stage = "insertCost"
    /\ costRecords' = costRecords \cup {Event}
    /\ stage' = "snapshot"
    /\ UNCHANGED <<kafka, current, targets, requestLogs, feed, failed>>

\* An insert that fails is logged, and the next step taken all the same.
BadInsertFailsContinues ==
    /\ stage \in {"insertLog", "insertCost"}
    /\ stage' = IF stage = "insertLog" THEN "insertCost" ELSE "snapshot"
    /\ UNCHANGED <<kafka, tables, feed, current, targets, failed>>

\* A message that does not decode, or a statement that fails; one that timed
\* out may still have been executed.
InsertFails ==
    /\ stage \in {"insertLog", "insertCost"}
    /\ requestLogs' \in {requestLogs, requestLogs \cup {Event}}
    /\ costRecords' \in {costRecords}
          \cup (IF stage = "insertCost" THEN {costRecords \cup {Event}} ELSE {})
    /\ GiveUp
    /\ UNCHANGED feed

\* CommitMessages; when it fails, the failure is logged and the loop goes on.
Commit ==
    /\ stage = "commit"
    /\ committed' \in {committed, current + 1}
    /\ stage' = "fetch" /\ current' = 0
    /\ UNCHANGED <<topic, position, missed, restarts,
                   targets, tables, feed, failed>>

----
(* The live feed: Broadcaster.Broadcast and the SSE handler.               *)

\* The channels registered now; the lock is released before the sends.
Snapshot ==
    /\ stage = "snapshot"
    /\ targets' = {c \in Clients : client[c] = "open"}
    /\ stage' = "broadcast"
    /\ UNCHANGED <<kafka, tables, feed, current, failed>>

Send(c) ==
    /\ stage = "broadcast" /\ c \in targets
    /\ client[c] = "open" /\ Len(channel[c]) < ChannelCap
    /\ channel' = [channel EXCEPT ![c] = Append(@, Event)]
    /\ targets' = targets \ {c}
    /\ UNCHANGED <<kafka, tables, client, stage, current, failed>>

\* The channel stays full for a second: this client misses the event.
Skip(c) ==
    /\ stage = "broadcast" /\ c \in targets
    /\ client[c] = "open" /\ Len(channel[c]) >= ChannelCap
    /\ targets' = targets \ {c}
    /\ UNCHANGED <<kafka, tables, feed, stage, current, failed>>

\* The client left after the snapshot: a send on a closed channel panics,
\* and safeProcess recovers.
SendPanics(c) ==
    /\ stage = "broadcast" /\ c \in targets
    /\ client[c] = "closed"
    /\ GiveUp
    /\ UNCHANGED <<tables, feed>>

BroadcastDone ==
    /\ stage = "broadcast" /\ targets = {}
    /\ stage' = "commit"
    /\ UNCHANGED <<kafka, tables, feed, current, targets, failed>>

Subscribe(c) ==
    /\ Up /\ client[c] = "new"
    /\ client' = [client EXCEPT ![c] = "open"]
    /\ UNCHANGED <<kafka, tables, work, channel, failed>>

\* The handler writes one event to its client.
Receive(c) ==
    /\ client[c] = "open" /\ channel[c] # <<>>
    /\ channel' = [channel EXCEPT ![c] = Tail(@)]
    /\ UNCHANGED <<kafka, tables, work, client, failed>>

\* The client disconnects; what its channel still holds is lost.
Unsubscribe(c) ==
    /\ client[c] = "open"
    /\ client' = [client EXCEPT ![c] = "closed"]
    /\ channel' = [channel EXCEPT ![c] = <<>>]
    /\ UNCHANGED <<kafka, tables, work, failed>>

Process ==
    \/ Fetch
    \/ InsertLog \/ InsertCost \/ InsertFails
    \/ Snapshot \/ BroadcastDone
    \/ \E c \in Clients : Send(c) \/ Skip(c) \/ SendPanics(c)
    \/ Commit

Next ==
    \/ \E e \in Events : Produce(e)
    \/ Start \/ Rebalance \/ Crash
    \/ Process
    \/ \E c \in Clients : Subscribe(c) \/ Receive(c) \/ Unsubscribe(c)

Spec == Init /\ [][Next]_vars

----
(* What the consumer guarantees.                                           *)

TypeOK ==
    /\ topic \in Seq(Events) /\ Len(topic) <= MaxTopic
    /\ committed \in 0 .. MaxTopic + 1
    /\ position \in 1 .. MaxTopic + 1
    /\ stage \in Stages
    /\ current \in 0 .. Len(topic)
    /\ (current = 0) <=> (stage \in {"down", "fetch"})
    /\ targets \in SUBSET Clients
    /\ requestLogs \in SUBSET Events /\ costRecords \in SUBSET Events
    /\ client \in [Clients -> {"new", "open", "closed"}]
    /\ channel \in [Clients -> Seq(Events)]
    /\ \A c \in Clients : Len(channel[c]) <= ChannelCap
    /\ failed \in SUBSET (1 .. MaxTopic) /\ missed \in SUBSET (1 .. MaxTopic)
    /\ restarts \in 0 .. MaxRestarts

\* No cost is ever charged for a request that request_logs does not have,
\* whichever insert fails and wherever the server dies.
CostHasLog == costRecords \subseteq requestLogs

\* A crash, a rebalance or a duplicate alone loses nothing: behind the
\* group's offset, only a message whose processing failed, or that was
\* written before the group had an offset, may be without its two rows.
LossNeedsFailure ==
    \A o \in 1 .. Len(topic) :
       o < committed => Stored(topic[o]) \/ o \in failed \cup missed

\* The live feed shows nothing that a reload of the page would not find in
\* the tables.
FeedIsPersisted ==
    \A c \in Clients : \A i \in 1 .. Len(channel[c]) : Stored(channel[c][i])

\* What safeProcess says of a failed message ("the message will be
\* re-delivered"): the group's offset does not move past it until its two
\* rows are there.
FailedIsRedelivered ==
    \A o \in failed : o < committed => Stored(topic[o])
====
