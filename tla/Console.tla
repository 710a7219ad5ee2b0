---- MODULE Console ----
(***************************************************************************)
(* The part of the Central Server that serves the web console              *)
(* (internal/server/api): sessions, prompts, configuration tables and the  *)
(* queries of the logs.  The four work on different tables of the database *)
(* and share no other state, so that a state of the server is a state of   *)
(* each, and what one of them does means nothing to the others.  A         *)
(* behaviour of this module is therefore one of a single part, its "page"  *)
(* of the console, while the others rest.                                  *)
(***************************************************************************)
EXTENDS Sessions, PromptVersions, ConfigTables

CONSTANTS LogIds, MaxAt, Limit, MaxRange, Bucket     \* see LogQueries

VARIABLES
    page,          \* the part this behaviour is about
    view, logRows, walk, metrics

logVars == <<view, logRows, walk, metrics>>

Log == INSTANCE LogQueries WITH Ids <- LogIds, rows <- logRows

ASSUME ConsoleAssumption ==
    /\ SessionsAssumption /\ PromptVersionsAssumption /\ ConfigTablesAssumption
    /\ Log!LogQueriesAssumption

\* A part that rests may as well start in any of its initial states.
ConsoleInit ==
    /\ page \in {"sessions", "prompts", "tables", "logs"}
    /\ SessionsInit /\ PromptsInit /\ TablesInit /\ Log!Init
    /\ page # "tables" => table = "skills"
    /\ page # "logs" => view = "logs"

ConsoleNext ==
    /\ \/ /\ page = "sessions" /\ SessionsNext
          /\ UNCHANGED <<promptVars, tableVars, logVars>>
       \/ /\ page = "prompts" /\ PromptsNext
          /\ UNCHANGED <<sessionVars, tableVars, logVars>>
       \/ /\ page = "tables" /\ TablesNext
          /\ UNCHANGED <<sessionVars, promptVars, logVars>>
       \/ /\ page = "logs" /\ Log!Next
          /\ UNCHANGED <<sessionVars, promptVars, tableVars>>
    /\ UNCHANGED page

ConsoleSpec ==
    ConsoleInit
    /\ [][ConsoleNext]_<<page, sessionVars, promptVars, tableVars, logVars>>

----
(* What the console guarantees is what its parts do.  The properties of    *)
(* the first three are stated in their modules, under the names the run    *)
(* uses.  All are proved, in SessionsProofs and ConsoleProofs.             *)

\* Every part has its types.
TypeOK ==
    SessionsTypeOK /\ PromptsTypeOK /\ TablesTypeOK /\ Log!TypeOK

\* LogQueries: AuditRepository.Query and queryLogs, whose pages make up the
\* whole.
WalkComplete == Log!WalkComplete

\* LogQueries: handleMetrics, whose series agrees with its summary.
SeriesWithinSummary == Log!SeriesWithinSummary
====
