---- MODULE ConfigTables ----
(***************************************************************************)
(* The configuration tables of the admin console: skills, MCP servers,     *)
(* guardrail policies, budget rules and rate rules.  A route of            *)
(* internal/server/api/console_config.go runs one statement of its         *)
(* repository (internal/server/repository) on its own, so a request in     *)
(* flight may be overtaken by others of the same row, and an answer that   *)
(* is lost makes a client send its request again.                          *)
(*                                                                         *)
(* The five tables share no rows: a behaviour is about one of them.  A row *)
(* is its id, its "name" (the columns of the UNIQUE constraint, where      *)
(* there is one) and its "text" (the other columns that a PUT replaces).   *)
(* The credentials of an MCP server never come in a request (json:"-") and *)
(* are always empty.                                                       *)
(***************************************************************************)
EXTENDS Naturals

CONSTANTS
    Clients,     \* callers of the routes, one request at a time
    RowIds,      \* uuids
    Names, Texts,
    MaxSends     \* bound: requests of a client

\* Assumed by Console, which extends this module.
ConfigTablesAssumption == MaxSends \in Nat

Tables == {"skills", "mcp_servers", "guardrail_policies", "budget_rules",
           "rate_limit_rules"}

VARIABLES
    table,      \* the table this behaviour is about
    rows,       \* its rows
    pending,    \* where each client's request stands
    known,      \* ids that an answer or a list has shown to some client
    used,       \* history: ids that have been drawn
    deleted,    \* history: ids whose DELETE was answered with 204
    sends       \* requests sent by each client

tableVars == <<table, rows, pending, known, used, deleted, sends>>

ConfigRow == [id : RowIds, name : Names, text : Texts]

NothingSent == [stage |-> "idle"]
Sent(op, row) == [stage |-> "sent", op |-> op, row |-> row]
Done(op, id) == [stage |-> "done", op |-> op, id |-> id]

ConfigRequest ==
    {NothingSent}
      \cup [stage : {"sent"}, op : {"POST", "PUT", "DELETE"}, row : ConfigRow]
      \cup [stage : {"done"}, op : {"POST", "PUT", "DELETE"}, id : RowIds]

Proceed(c, next) == pending' = [pending EXCEPT ![c] = next]

\* A statement that succeeds, and one that does not: status 404 when no row
\* has the id, 500 for any other error.
Succeed(c, id) == Proceed(c, Done(pending[c].op, id))
Refuse(c) ==
    /\ pending[c].stage = "sent"
    /\ Proceed(c, NothingSent)
    /\ UNCHANGED <<rows, used>>

TablesInit ==
    /\ table \in Tables
    /\ rows = {}
    /\ pending = [c \in Clients |-> NothingSent]
    /\ known = {} /\ used = {} /\ deleted = {}
    /\ sends = [c \in Clients |-> 0]

----
(* The statements.  The definitions "Bad..." are faulty variants of those  *)
(* that follow them, no part of the specification: they show that the      *)
(* properties can fail.                                                    *)

\* UNIQUE, where the table has it.
Free(name, others, unique) == unique => \A r \in others : r.name # name

\* Whatever id the body names, the row gets a new one.
Insert(c, unique) ==
    /\ pending[c].stage = "sent" /\ pending[c].op = "POST"
    /\ Free(pending[c].row.name, rows, unique)
    /\ \E id \in RowIds \ used :
          /\ rows' = rows \cup {[pending[c].row EXCEPT !.id = id]}
          /\ used' = used \cup {id}
          /\ \/ Succeed(c, id)
             \/ Proceed(c, NothingSent)  \* the answer does not reach the server

\* A PUT that finds no row creates it.
BadUpdate(c, unique) ==
    /\ pending[c].stage = "sent" /\ pending[c].op = "PUT"
    /\ LET others == {r \in rows : r.id # pending[c].row.id}
       IN  rows' = others \cup {pending[c].row}
    /\ Succeed(c, pending[c].row.id) \/ Proceed(c, NothingSent)
    /\ UNCHANGED used

\* All columns but the id and the organization are replaced.
Update(c, unique) ==
    /\ pending[c].stage = "sent" /\ pending[c].op = "PUT"
    /\ LET others == {r \in rows : r.id # pending[c].row.id}
       IN  /\ others # rows
           /\ Free(pending[c].row.name, others, unique)
           /\ rows' = others \cup {pending[c].row}
    /\ Succeed(c, pending[c].row.id) \/ Proceed(c, NothingSent)
    /\ UNCHANGED used

Delete(c) ==
    /\ pending[c].stage = "sent" /\ pending[c].op = "DELETE"
    /\ \E r \in rows :
          /\ r.id = pending[c].row.id
          /\ rows' = rows \ {r}
    /\ Succeed(c, pending[c].row.id) \/ Proceed(c, NothingSent)
    /\ UNCHANGED used

\* UNIQUE (org_id, name, version); UNIQUE (org_id, name); the other tables
\* have no such constraint.
SkillRepository(c) ==
    Insert(c, TRUE) \/ Update(c, TRUE) \/ Delete(c) \/ Refuse(c)
MCPServerRepository(c) ==
    Insert(c, TRUE) \/ Update(c, TRUE) \/ Delete(c) \/ Refuse(c)
GuardrailRepository(c) ==
    Insert(c, FALSE) \/ Update(c, FALSE) \/ Delete(c) \/ Refuse(c)
BudgetRuleRepository(c) ==
    Insert(c, FALSE) \/ Update(c, FALSE) \/ Delete(c) \/ Refuse(c)
RateLimitRuleRepository(c) ==
    Insert(c, FALSE) \/ Update(c, FALSE) \/ Delete(c) \/ Refuse(c)

Statement(c) ==
    /\ \/ table = "skills" /\ SkillRepository(c)
       \/ table = "mcp_servers" /\ MCPServerRepository(c)
       \/ table = "guardrail_policies" /\ GuardrailRepository(c)
       \/ table = "budget_rules" /\ BudgetRuleRepository(c)
       \/ table = "rate_limit_rules" /\ RateLimitRuleRepository(c)
    /\ UNCHANGED <<table, known, deleted, sends>>

----
(* The routes.  PUT and DELETE name the row in their path; the body of a   *)
(* POST may name an id too, which is ignored.                              *)

Send(c, op, row) ==
    /\ pending[c] = NothingSent
    /\ sends[c] < MaxSends
    /\ sends' = [sends EXCEPT ![c] = @ + 1]
    /\ op \in {"PUT", "DELETE"} => row.id \in known
    /\ Proceed(c, Sent(op, row))
    /\ UNCHANGED <<table, rows, known, used, deleted>>

\* The answer to a POST shows the id of the new row.
Reply(c) ==
    /\ pending[c].stage = "done"
    /\ known' = known \cup {pending[c].id}
    /\ deleted' = IF pending[c].op = "DELETE" THEN deleted \cup {pending[c].id}
                  ELSE deleted
    /\ Proceed(c, NothingSent)
    /\ UNCHANGED <<table, rows, used, sends>>

ReplyLost(c) ==
    /\ pending[c].stage = "done"
    /\ Proceed(c, NothingSent)
    /\ UNCHANGED <<table, rows, known, used, deleted, sends>>

\* A GET of the table by some client.
ListByOrg ==
    /\ known' = known \cup {r.id : r \in rows}
    /\ UNCHANGED <<table, rows, pending, used, deleted, sends>>

\* The same four handlers for each of the tables.
Routes(c) ==
    \/ \E op \in {"POST", "PUT", "DELETE"}, row \in ConfigRow : Send(c, op, row)
    \/ Reply(c) \/ ReplyLost(c)
    \/ ListByOrg

SkillRoutes(c) == table = "skills" /\ Routes(c)
MCPRoutes(c) == table = "mcp_servers" /\ Routes(c)
GuardrailRoutes(c) == table = "guardrail_policies" /\ Routes(c)
BudgetRuleRoutes(c) == table = "budget_rules" /\ Routes(c)
RateRuleRoutes(c) == table = "rate_limit_rules" /\ Routes(c)

TablesNext ==
    \E c \in Clients :
       \/ Statement(c)
       \/ SkillRoutes(c) \/ MCPRoutes(c) \/ GuardrailRoutes(c)
       \/ BudgetRuleRoutes(c) \/ RateRuleRoutes(c)

TablesSpec == TablesInit /\ [][TablesNext]_tableVars

----
(* What the tables guarantee.                                              *)

TablesTypeOK ==
    /\ table \in Tables
    /\ rows \subseteq ConfigRow
    /\ pending \in [Clients -> ConfigRequest]
    /\ known \subseteq used /\ used \subseteq RowIds /\ deleted \subseteq used
    /\ sends \in [Clients -> 0 .. MaxSends]

\* A row is what its id and its name say: a row whose deletion was answered
\* is gone for good (neither a PUT that was already under way nor a POST that
\* names its id brings it back), and a skill or an MCP server of some name is
\* there once, however often a client repeats a request that was not answered.
DeletedStaysGone ==
    /\ \A r \in rows : r.id \notin deleted
    /\ \A r, s \in rows :
          \/ r = s
          \/ /\ r.id # s.id
             /\ table \in {"skills", "mcp_servers"} => r.name # s.name
====
