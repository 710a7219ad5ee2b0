---- MODULE LogQueries ----
(***************************************************************************)
(* The questions the admin console asks of the logs while rows arrive: the *)
(* pages of GET /admin/audit (AuditRepository.Query) and GET /admin/logs   *)
(* (queryLogs of internal/server/api/console_observability.go), and the    *)
(* two statements of GET /admin/metrics (QuerySeries and QuerySummary of   *)
(* internal/server/repository/metrics_repo.go).                            *)
(*                                                                         *)
(* Every page is a statement of its own, and rows are inserted in between, *)
(* with any created_at: a request log bears the time of the inquiry, and   *)
(* the consumer that inserts it may be behind.  No row is ever deleted.    *)
(* The filters that name a column narrow the rows; the window of time is   *)
(* the one that matters here.                                              *)
(***************************************************************************)
EXTENDS Naturals, FiniteSets

CONSTANTS
    Ids,        \* ids of rows: uuids, compared as text
    MaxAt,      \* bound: times modelled
    Limit,      \* rows of a page: 100, or what the client asks for
    MaxRange,   \* longest window of metrics: 90 days
    Bucket      \* length of a bucket of the series: date_trunc

\* Assumed by Console, which instantiates this module.
LogQueriesAssumption ==
    /\ Ids \subseteq Nat /\ IsFiniteSet(Ids)
    /\ MaxAt \in Nat /\ MaxRange \in Nat
    /\ Limit \in Nat \ {0} /\ Bucket \in Nat \ {0}

VARIABLES
    view,      \* "audit" or "logs": the table walked
    rows,      \* its rows
    walk,      \* a client that follows next_cursor from page to page
    metrics    \* a client that asks for metrics

vars == <<view, rows, walk, metrics>>

Time == 0 .. MaxAt
Row == [at : Time, id : Ids]
Window == [from : Time, to : Time]

\* ORDER BY created_at DESC, id DESC
Above(r, s) == r.at > s.at \/ (r.at = s.at /\ r.id > s.id)

\* "due" and "twice" are history: the rows that matched when the walk began,
\* and whether a page has shown a row again.
Idle == [stage |-> "idle"]
Walk ==
    {Idle} \cup [stage : {"more"}, window : Window, shown : SUBSET Row,
                 due : SUBSET Row, twice : BOOLEAN, cursor : Row]
           \cup [stage : {"end"}, window : Window, shown : SUBSET Row,
                 due : SUBSET Row, twice : BOOLEAN]

\* A point of the series counts rows; the model keeps which.
Metrics ==
    {Idle} \cup [stage : {"series"}, window : Window,
                 series : [0 .. MaxAt \div Bucket -> SUBSET Row]]
           \cup [stage : {"end"}, series : [0 .. MaxAt \div Bucket -> SUBSET Row],
                 total : SUBSET Row]

Init ==
    /\ view \in {"audit", "logs"}
    /\ rows = {}
    /\ walk = Idle
    /\ metrics = Idle

Arrive(r) ==
    /\ \A s \in rows : s.id # r.id
    /\ rows' = rows \cup {r}
    /\ UNCHANGED <<view, walk, metrics>>

----
(* The pages.  The definitions "Bad..." are faulty variants of those that  *)
(* follow them, no part of the specification: they show that the           *)
(* properties can fail.                                                    *)

\* BETWEEN for the logs; an upper end that is left out for the audit log.
LogWindow(w) == {r \in rows : w.from <= r.at /\ r.at <= w.to}
AuditWindow(w) == {r \in rows : w.from <= r.at /\ r.at < w.to}
Matching(w) == IF view = "audit" THEN AuditWindow(w) ELSE LogWindow(w)

\* The cursor compares the time alone.
BadAfter(cursor, found) == {r \in found : r.at < cursor.at}

\* (created_at, id) < (cursor)
After(cursor, found) == {r \in found : Above(cursor, r)}

\* LIMIT, and the cursor of the last row if there are more.
Page(found) ==
    {r \in found : Cardinality({s \in found : Above(s, r)}) < Limit}

Show(w, shown, due, twice, found) ==
    LET page == Page(found)
        seen == [stage |-> "end", window |-> w, shown |-> shown \cup page,
                 due |-> due, twice |-> twice \/ page \cap shown # {}]
    IN  walk' = IF page = found THEN seen
                ELSE [stage |-> "more", window |-> w, shown |-> seen.shown,
                      due |-> due, twice |-> seen.twice,
                      cursor |-> CHOOSE r \in page :
                                    \A s \in page : r = s \/ Above(s, r)]

FirstPage(w) ==
    /\ walk.stage \in {"idle", "end"}
    /\ Show(w, {}, Matching(w), FALSE, Matching(w))
    /\ UNCHANGED <<view, rows, metrics>>

NextPage ==
    /\ walk.stage = "more"
    /\ Show(walk.window, walk.shown, walk.due, walk.twice,
            After(walk.cursor, Matching(walk.window)))
    /\ UNCHANGED <<view, rows, metrics>>

\* A cursor that does not decode: the logs begin anew, the audit log answers
\* with an error.
GarbledCursor ==
    /\ walk.stage = "more"
    /\ IF view = "logs"
       THEN LET w == walk.window
            IN  Show(w, {}, LogWindow(w), FALSE, LogWindow(w))
       ELSE walk' = Idle
    /\ UNCHANGED <<view, rows, metrics>>

----
(* The metrics: the series first, then the summary, each of request_logs   *)
(* as it is by then.                                                       *)

Truncate(time) == time \div Bucket

QuerySeries(w) ==
    /\ view = "logs"
    /\ metrics.stage \in {"idle", "end"}
    /\ w.from <= w.to => w.to - w.from <= MaxRange
    /\ metrics' = [stage |-> "series", window |-> w,
                   series |-> [b \in 0 .. MaxAt \div Bucket |->
                                 {r \in LogWindow(w) : Truncate(r.at) = b}]]
    /\ UNCHANGED <<view, rows, walk>>

\* A summary that leaves out the end of the window.
BadQuerySummary ==
    /\ metrics.stage = "series"
    /\ metrics' = [stage |-> "end", series |-> metrics.series,
                   total |-> AuditWindow(metrics.window)]
    /\ UNCHANGED <<view, rows, walk>>

QuerySummary ==
    /\ metrics.stage = "series"
    /\ metrics' = [stage |-> "end", series |-> metrics.series,
                   total |-> LogWindow(metrics.window)]
    /\ UNCHANGED <<view, rows, walk>>

QueryFails ==
    /\ \/ walk.stage = "more" /\ walk' = Idle /\ UNCHANGED metrics
       \/ metrics.stage = "series" /\ metrics' = Idle /\ UNCHANGED walk
    /\ UNCHANGED <<view, rows>>

Next ==
    \/ \E r \in Row : Arrive(r)
    \/ \E w \in Window : FirstPage(w) \/ QuerySeries(w)
    \/ NextPage \/ GarbledCursor \/ QuerySummary \/ QueryFails

Spec == Init /\ [][Next]_vars

----
(* What a reader of the console may rely on.                               *)

TypeOK ==
    /\ view \in {"audit", "logs"}
    /\ rows \subseteq Row
    /\ walk \in Walk
    /\ metrics \in Metrics

\* Whoever follows the cursor to the end is shown no row twice and every row
\* that was there when he began, although rows arrive above, below and at
\* the very time of the cursor.
WalkComplete ==
    walk.stage # "idle" =>
       /\ ~walk.twice
       /\ walk.stage = "end" => walk.due \subseteq walk.shown

\* The points of the series never add up to more than the total beside them:
\* no row is in two buckets, and the summary leaves out none that was counted.
SeriesWithinSummary ==
    metrics.stage = "end" =>
       /\ \A b \in DOMAIN metrics.series : metrics.series[b] \subseteq metrics.total
       /\ \A b, d \in DOMAIN metrics.series :
             b # d => metrics.series[b] \cap metrics.series[d] = {}
====
