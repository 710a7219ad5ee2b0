--------------------------- MODULE PromptVersions ---------------------------
(***************************************************************************)
(* The versions of the prompts of one repository:                          *)
(* handleCreatePromptVersion (internal/server/api/console_config.go) and   *)
(* the statements of PromptRepo (internal/server/repository) it runs.      *)
(*                                                                         *)
(* A request ensures the repository and then inserts a row whose version   *)
(* is one above the highest that its INSERT saw.  The two are separate     *)
(* statements without a transaction, and the INSERT computes its version   *)
(* from a snapshot: the rows of concurrent requests are not in it.         *)
(***************************************************************************)
EXTENDS Naturals

CONSTANTS
    Requests,      \* callers of POST /admin/config/prompts/{repo}/{name}
    Prompts,       \* names of prompts in the repository
    RepoIds,       \* uuids
    NoRepo,        \* the repository has no row yet
    MaxAttempts    \* bound: how often a caller tries

\* Assumed by Console, which extends this module.
PromptVersionsAssumption ==
    /\ NoRepo \notin RepoIds
    /\ MaxAttempts \in Nat

VARIABLES
    repo,        \* prompt_repositories: the row of this org and name
    versions,    \* prompt_versions
    request,     \* where each caller's request stands
    attempts,    \* requests sent so far
    answered     \* history: the 201 answers that arrived

promptVars == <<repo, versions, request, attempts, answered>>

\* The content of a row is named by the caller it came from.
PromptVersion ==
    [repo : RepoIds, prompt : Prompts, version : Nat \ {0}, content : Requests]

NoRequest == [stage |-> "idle"]
Ensured(p, id) == [stage |-> "ensured", prompt |-> p, repo |-> id]
Numbered(p, id, n) ==
    [stage |-> "numbered", prompt |-> p, repo |-> id, highest |-> n]
Created(p, n) == [stage |-> "created", prompt |-> p, version |-> n]

CreateRequest ==
    {NoRequest}
      \cup [stage : {"ensured"}, prompt : Prompts, repo : RepoIds]
      \cup [stage : {"numbered"}, prompt : Prompts, repo : RepoIds, highest : Nat]
      \cup [stage : {"created"}, prompt : Prompts, version : Nat \ {0}]

Answer == [by : Requests, prompt : Prompts, version : Nat \ {0}]

\* What PromptRepo reads.  GET /admin/config/prompts answers with the
\* repositories; no route calls ListVersions, which is here for what is stored.
ListReposByOrg == {repo} \ {NoRepo}
ListVersions(id, p) == {r \in versions : r.repo = id /\ r.prompt = p}

Continue(c, next) == request' = [request EXCEPT ![c] = next]

PromptsInit ==
    /\ repo = NoRepo
    /\ versions = {}
    /\ request = [c \in Requests |-> NoRequest]
    /\ attempts = [c \in Requests |-> 0]
    /\ answered = {}

----
(* EnsureRepo: INSERT .. ON CONFLICT DO NOTHING, and a SELECT when the row *)
(* exists.  No route deletes a repository.  The definitions "Bad..." are   *)
(* faulty variants of those that follow them, no part of the               *)
(* specification: they show that the properties can fail.                  *)

\* A caller that gave up or was refused may send its request again.
SendVersion(c) ==
    /\ request[c] = NoRequest
    /\ attempts[c] < MaxAttempts
    /\ attempts' = [attempts EXCEPT ![c] = @ + 1]

\* The INSERT commits, but the connection ends before its answer.
EnsureRepoAmbiguous(c, id) ==
    /\ SendVersion(c)
    /\ repo = NoRepo
    /\ repo' = id
    /\ UNCHANGED <<versions, request, answered>>

EnsureRepo(c, p, id) ==
    /\ SendVersion(c)
    /\ repo' = IF repo = NoRepo THEN id ELSE repo
    /\ Continue(c, Ensured(p, repo'))
    /\ UNCHANGED <<versions, answered>>

----
(* CreateVersion: one INSERT, of which the subquery and the check of       *)
(* UNIQUE (repo_id, prompt_name, version) are separate steps.              *)

\* The highest version of the whole repository, not of the prompt.
BadReadHighest(c) ==
    /\ request[c].stage = "ensured"
    /\ \E n \in {0} \cup {r.version : r \in versions} :
          /\ \A r \in versions : r.version <= n
          /\ Continue(c, Numbered(request[c].prompt, request[c].repo, n))
    /\ UNCHANGED <<repo, versions, attempts, answered>>

\* COALESCE (MAX (version), 0)
ReadHighest(c) ==
    /\ request[c].stage = "ensured"
    /\ LET seen == ListVersions(request[c].repo, request[c].prompt)
       IN  \E n \in {0} \cup {r.version : r \in seen} :
              /\ \A r \in seen : r.version <= n
              /\ Continue(c, Numbered(request[c].prompt, request[c].repo, n))
    /\ UNCHANGED <<repo, versions, attempts, answered>>

NewRow(c) ==
    [repo |-> request[c].repo, prompt |-> request[c].prompt,
     version |-> request[c].highest + 1, content |-> c]

Taken(row) ==
    \E r \in ListVersions(row.repo, row.prompt) : r.version = row.version

\* ON CONFLICT DO UPDATE: the later content takes the row.
BadInsertVersion(c) ==
    /\ request[c].stage = "numbered"
    /\ versions' =
          {r \in versions : \/ r.repo # NewRow(c).repo
                            \/ r.prompt # NewRow(c).prompt
                            \/ r.version # NewRow(c).version} \cup {NewRow(c)}
    /\ Continue(c, Created(request[c].prompt, NewRow(c).version))
    /\ UNCHANGED <<repo, attempts, answered>>

InsertVersion(c) ==
    /\ request[c].stage = "numbered"
    /\ ~Taken(NewRow(c))
    /\ versions' = versions \cup {NewRow(c)}
    /\ Continue(c, Created(request[c].prompt, NewRow(c).version))
    /\ UNCHANGED <<repo, attempts, answered>>

\* The row is there, but RETURNING did not reach the server: status 500.
InsertAmbiguous(c) ==
    /\ request[c].stage = "numbered"
    /\ ~Taken(NewRow(c))
    /\ versions' = versions \cup {NewRow(c)}
    /\ Continue(c, NoRequest)
    /\ UNCHANGED <<repo, attempts, answered>>

\* A statement fails: the version is taken, created_by names no user, the
\* context ends.
Fail(c) ==
    /\ request[c].stage \in {"ensured", "numbered"}
    /\ Continue(c, NoRequest)
    /\ UNCHANGED <<repo, versions, attempts, answered>>

ReplyCreated(c) ==
    /\ request[c].stage = "created"
    /\ answered' = answered \cup {[by |-> c, prompt |-> request[c].prompt,
                                   version |-> request[c].version]}
    /\ Continue(c, NoRequest)
    /\ UNCHANGED <<repo, versions, attempts>>

ReplyCreatedLost(c) ==
    /\ request[c].stage = "created"
    /\ Continue(c, NoRequest)
    /\ UNCHANGED <<repo, versions, attempts, answered>>

PromptsNext ==
    \E c \in Requests :
       \/ \E id \in RepoIds :
             \/ EnsureRepoAmbiguous(c, id)
             \/ \E p \in Prompts : EnsureRepo(c, p, id)
       \/ ReadHighest(c)
       \/ InsertVersion(c) \/ InsertAmbiguous(c) \/ Fail(c)
       \/ ReplyCreated(c) \/ ReplyCreatedLost(c)

PromptsSpec == PromptsInit /\ [][PromptsNext]_promptVars

----
(* What the store of prompts guarantees.                                   *)

PromptsTypeOK ==
    /\ repo \in RepoIds \cup {NoRepo}
    /\ versions \subseteq PromptVersion
    /\ request \in [Requests -> CreateRequest]
    /\ attempts \in [Requests -> 0 .. MaxAttempts]
    /\ answered \subseteq Answer

\* The versions of a prompt are numbered 1, 2, 3, ... without a gap and
\* without a number that stands for two contents, in one repository, however
\* many callers create versions at a time.  Proved; that it holds follows from
\* CreatesAreAtomic too, which the run checks.
VersionsDense ==
    /\ \A r \in versions : r.repo = repo
    /\ \A r, s \in versions :
          (r.prompt = s.prompt /\ r.version = s.version) => r = s
    /\ \A r \in versions :
          r.version = 1 \/ \E s \in versions :
                              /\ s.prompt = r.prompt
                              /\ s.version + 1 = r.version

\* A version that a caller was told is stored with that caller's content:
\* nothing overwrites it, and no two callers are told the same one.
AnsweredIsStored ==
    \A a \in answered :
       /\ \E id \in ListReposByOrg : \E r \in ListVersions(id, a.prompt) :
             r.version = a.version /\ r.content = a.by
       /\ \A b \in answered :
             (b.prompt = a.prompt /\ b.version = a.version) => b = a

----
(* The store seen from outside: a row is there when its INSERT commits.    *)

\* A list of rows as a function from the version to the content.
ByVersion(listed) ==
    [n \in {r.version : r \in listed} |->
        (CHOOSE r \in listed : r.version = n).content]

HistoryOf(p) == ByVersion(ListVersions(repo, p))

History ==
    INSTANCE VersionHistory WITH history <- [p \in Prompts |-> HistoryOf(p)],
                                 told <- answered

\* CreateVersion computes a number in one statement and may fail on it in
\* another caller's favour, yet to its callers it is atomic: a creation adds
\* its content behind all others of the prompt or nothing, in whatever order
\* statements and answers come, and "content is immutable after creation".
CreatesAreAtomic == History!Spec
=============================================================================
