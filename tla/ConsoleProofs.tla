---- MODULE ConsoleProofs ----
(***************************************************************************)
(* The parts of the console beside the sessions, for any number of         *)
(* callers: the versions of a prompt (PromptVersions), the rows of the     *)
(* tables (ConfigTables) and the queries of the logs (LogQueries), each by *)
(* itself and then, with the sessions, as a part of the console.           *)
(*                                                                         *)
(* Versions: between the two statements of a request others insert rows,   *)
(* but rows only ever get more, so what a request has read stays true.     *)
(* The highest version it saw is still there when it inserts the next one  *)
(* (Promised), and the UNIQUE constraint decides who gets it.  With the    *)
(* numbers being the first ones (FromOne), whoever gets it appends.        *)
(*                                                                         *)
(* Tables: a row that is deleted cannot come back because a PUT changes    *)
(* only a row it finds and a POST draws an id that was never drawn: every  *)
(* id in use, and every id that a request waits to report, is among those  *)
(* drawn, and the rows of reported deletions stay away from the moment of  *)
(* the DELETE, before anybody was told (Gone).                             *)
(*                                                                         *)
(* Queries: a page is cut by the number of rows above each row, and yet is *)
(* what is above one of them, its last (PageCuts).  So the cursor divides  *)
(* the rows of a walk into those shown and those still to be shown         *)
(* (WalkInv), wherever rows arrive.  No row leaves the window of the       *)
(* metrics between the series and the summary (SeriesInv).                 *)
(***************************************************************************)
EXTENDS SessionsProofs, Sequences, FiniteSetTheorems, WellFoundedInduction

----
(* The versions of a prompt.                                               *)

\* One repository; one row for a prompt and a version; no gap.
OneRepo == \A r \in versions : r.repo = repo

OneContent ==
    \A r, s \in versions :
       (r.prompt = s.prompt /\ r.version = s.version) => r = s

NoGap ==
    \A r \in versions :
       r.version = 1 \/ \E s \in versions :
                           s.prompt = r.prompt /\ s.version + 1 = r.version

\* What a request knows is so: its repository is the one there is, the
\* version it will count from exists, the row it created is stored.
Promised(c) ==
    /\ request[c].stage \in {"ensured", "numbered"} =>
          request[c].repo = repo /\ repo # NoRepo
    /\ request[c].stage = "numbered" =>
          \/ request[c].highest = 0
          \/ \E s \in versions : /\ s.prompt = request[c].prompt
                                 /\ s.version = request[c].highest
    /\ request[c].stage = "created" =>
          \E r \in versions :
             /\ r.prompt = request[c].prompt /\ r.version = request[c].version
             /\ r.content = c

Kept(a) ==
    \E r \in versions :
       r.prompt = a.prompt /\ r.version = a.version /\ r.content = a.by

PromptsInv ==
    /\ PromptsTypeOK
    /\ OneRepo /\ OneContent /\ NoGap
    /\ \A c \in Requests : Promised(c)
    /\ \A a \in answered : Kept(a)

----
LEMMA InitPromptsInv ==
    ASSUME PromptVersionsAssumption
    PROVE  PromptsInit => PromptsInv
<1> SUFFICES ASSUME PromptsInit
             PROVE  PromptsInv
  OBVIOUS
<1>1. PromptsTypeOK
  BY DEF PromptVersionsAssumption, PromptsInit, PromptsTypeOK, CreateRequest, NoRequest
<1>2. QED
  BY <1>1 DEF PromptsInit, PromptsInv, OneRepo, OneContent, NoGap, Promised, NoRequest

\* Kinds of requests by their stage.
LEMMA PromptStages ==
    ASSUME PromptsTypeOK, NEW c \in Requests
    PROVE  /\ request[c].stage = "ensured" =>
                 request[c].prompt \in Prompts /\ request[c].repo \in RepoIds
           /\ request[c].stage = "numbered" =>
                 /\ request[c].prompt \in Prompts /\ request[c].repo \in RepoIds
                 /\ request[c].highest \in Nat
           /\ request[c].stage = "created" =>
                 /\ request[c].prompt \in Prompts
                 /\ request[c].version \in Nat \ {0}
<1>1. request[c] \in CreateRequest
  BY DEF PromptsTypeOK
<1>2. QED
  BY <1>1 DEF CreateRequest, NoRequest

\* A step that adds no row, answers nobody, and gives one caller a new
\* request that keeps its promises.
LEMMA PromptRequestKeeps ==
    ASSUME PromptsInv, NEW c \in Requests, NEW next \in CreateRequest, Continue(c, next),
           versions' = versions, repo' = repo, answered' = answered,
           attempts' \in [Requests -> 0 .. MaxAttempts],
           Promised(c)'
    PROVE  PromptsInv'
<1> USE DEF PromptsInv
<1>1. request' = [request EXCEPT ![c] = next]
  BY DEF Continue
<1>2. \A d \in Requests : d # c => request'[d] = request[d]
  BY <1>1 DEF PromptsTypeOK
<1>3. PromptsTypeOK'
  BY <1>1 DEF PromptsTypeOK
<1>4. \A d \in Requests : Promised(d)'
  BY <1>2 DEF Promised
<1>5. (\A a \in answered : Kept(a))'
  BY DEF Kept
<1>6. QED
  BY <1>3, <1>4, <1>5 DEF OneRepo, OneContent, NoGap

\* The INSERT: the row after the highest of those its subquery saw.
LEMMA RowKeeps ==
    ASSUME PromptsInv, NEW c \in Requests, request[c].stage = "numbered",
           ~Taken(NewRow(c)), versions' = versions \cup {NewRow(c)},
           repo' = repo, attempts' = attempts, answered' = answered,
           \/ Continue(c, NoRequest)
           \/ Continue(c, Created(request[c].prompt, NewRow(c).version))
    PROVE  PromptsInv'
<1> USE DEF PromptsInv
<1> DEFINE n == request[c].highest + 1
<1>1. /\ request[c].prompt \in Prompts /\ request[c].repo = repo
      /\ repo \in RepoIds /\ request[c].highest \in Nat /\ n \in Nat \ {0}
  BY PromptStages DEF Promised
<1>2. /\ NewRow(c).prompt = request[c].prompt /\ NewRow(c).repo = repo
      /\ NewRow(c).version = n /\ NewRow(c).content = c
      /\ NewRow(c) \in PromptVersion /\ NewRow(c) \in versions'
      /\ versions \subseteq versions'
  BY <1>1 DEF NewRow, PromptVersion
<1>3. PICK next \in {NoRequest, Created(request[c].prompt, n)} :
         request' = [request EXCEPT ![c] = next]
  BY <1>2 DEF Continue
<1>4. next \in CreateRequest
  BY <1>1, <1>3 DEF CreateRequest, NoRequest, Created
<1>5. \A d \in Requests : d # c => request'[d] = request[d]
  BY <1>3 DEF PromptsTypeOK
<1>6. request'[c] = next
  BY <1>3 DEF PromptsTypeOK
<1>7. PromptsTypeOK'
  BY <1>2, <1>3, <1>4 DEF PromptsTypeOK
<1>8. OneRepo'
  BY <1>2 DEF OneRepo
<1>9. OneContent'
  <2>1. \A r \in versions : ~(r.prompt = request[c].prompt /\ r.version = n)
    BY <1>2 DEF Taken, ListVersions, OneRepo
  <2>2. QED
    BY <1>2, <2>1 DEF OneContent
<1>10. NoGap'
  <2>1. n = 1 \/ \E s \in versions : /\ s.prompt = NewRow(c).prompt
                                     /\ s.version + 1 = n
    BY <1>1, <1>2 DEF Promised
  <2>2. QED
    BY <1>2, <2>1 DEF NoGap
<1>11. \A d \in Requests : d # c => Promised(d)'
  BY <1>2, <1>5 DEF Promised
<1>12. Promised(c)'
  BY <1>2, <1>3, <1>6 DEF Promised, NoRequest, Created
<1>13. (\A a \in answered : Kept(a))'
  BY <1>2 DEF Kept
<1>14. QED
  BY <1>7, <1>8, <1>9, <1>10, <1>11, <1>12, <1>13

----
\* EnsureRepo: the repository is created once.
LEMMA EnsureKeeps ==
    ASSUME PromptVersionsAssumption, PromptsInv, NEW c \in Requests,
           NEW id \in RepoIds,
           \/ EnsureRepoAmbiguous(c, id)
           \/ \E p \in Prompts : EnsureRepo(c, p, id)
    PROVE  PromptsInv'
<1> USE DEF PromptsInv
<1>1. /\ versions' = versions /\ answered' = answered
      /\ attempts[c] < MaxAttempts
      /\ attempts' = [attempts EXCEPT ![c] = @ + 1]
      /\ repo' = repo \/ (repo = NoRepo /\ repo' = id)
  BY DEF EnsureRepoAmbiguous, EnsureRepo, SendVersion
<1>2. attempts' \in [Requests -> 0 .. MaxAttempts]
  BY <1>1 DEF PromptVersionsAssumption, PromptsTypeOK
<1>3. repo' \in RepoIds
  BY <1>1 DEF EnsureRepoAmbiguous, EnsureRepo, PromptsTypeOK
<1>4. PICK next \in CreateRequest :
         /\ request' = [request EXCEPT ![c] = next]
         /\ next.stage \in {"idle", "ensured"}
         /\ next.stage = "ensured" => next.repo = repo'
  <2>1. CASE EnsureRepoAmbiguous(c, id)
    <3>1. request' = request /\ request[c] = NoRequest
      BY <2>1 DEF EnsureRepoAmbiguous, SendVersion
    <3>2. request' = [request EXCEPT ![c] = NoRequest] /\ NoRequest \in CreateRequest
      BY <3>1 DEF PromptsTypeOK, CreateRequest
    <3>3. QED
      BY <3>2 DEF NoRequest
  <2>2. ASSUME NEW p \in Prompts, EnsureRepo(c, p, id)
        PROVE  \E next \in CreateRequest :
                  /\ request' = [request EXCEPT ![c] = next]
                  /\ next.stage \in {"idle", "ensured"}
                  /\ next.stage = "ensured" => next.repo = repo'
    <3>1. request' = [request EXCEPT ![c] = Ensured(p, repo')]
      BY <2>2 DEF EnsureRepo, Continue
    <3>2. Ensured(p, repo') \in CreateRequest
      BY <1>3 DEF Ensured, CreateRequest
    <3>3. Ensured(p, repo').stage = "ensured" /\ Ensured(p, repo').repo = repo'
      BY DEF Ensured
    <3>4. QED
      BY <3>1, <3>2, <3>3
  <2>3. QED
    BY <2>1, <2>2
<1>5. /\ \A d \in Requests : d # c => request'[d] = request[d]
      /\ request'[c] = next
  BY <1>4 DEF PromptsTypeOK
<1>6. PromptsTypeOK'
  BY <1>1, <1>2, <1>3, <1>4 DEF PromptsTypeOK
<1>7. OneRepo' /\ OneContent' /\ NoGap'
  <2>1. versions # {} => repo # NoRepo
    BY DEF OneRepo, PromptsTypeOK, PromptVersion, PromptVersionsAssumption
  <2>2. QED
    BY <1>1, <2>1 DEF OneRepo, OneContent, NoGap
<1>8. \A d \in Requests : d # c => Promised(d)'
  BY <1>1, <1>3, <1>5 DEF Promised, PromptVersionsAssumption
<1>9. Promised(c)'
  BY <1>1, <1>3, <1>4, <1>5 DEF Promised, PromptVersionsAssumption
<1>10. (\A a \in answered : Kept(a))'
  BY <1>1 DEF Kept
<1>11. QED
  BY <1>6, <1>7, <1>8, <1>9, <1>10

\* The subquery sees no row, or the highest of those there are.
LEMMA ReadKeeps ==
    ASSUME PromptsInv, NEW c \in Requests, ReadHighest(c)
    PROVE  PromptsInv'
<1> USE DEF PromptsInv
<1>1. /\ request[c].stage = "ensured"
      /\ versions' = versions /\ repo' = repo /\ answered' = answered
      /\ attempts' = attempts
  BY DEF ReadHighest
<1>2. request[c].prompt \in Prompts /\ request[c].repo \in RepoIds
  BY <1>1, PromptStages
<1>3. PICK n \in {0} \cup {r.version :
                     r \in ListVersions(request[c].repo, request[c].prompt)} :
         Continue(c, Numbered(request[c].prompt, request[c].repo, n))
  BY DEF ReadHighest
<1>4. \/ n = 0
      \/ \E s \in versions : s.prompt = request[c].prompt /\ s.version = n
  BY <1>3 DEF ListVersions
<1>5. n \in Nat
  BY <1>4 DEF PromptsTypeOK, PromptVersion
<1> DEFINE next == Numbered(request[c].prompt, request[c].repo, n)
<1>6. next \in CreateRequest
  BY <1>2, <1>5 DEF CreateRequest, Numbered
<1>7. request'[c] = next
  BY <1>3 DEF Continue, PromptsTypeOK
<1>8. Promised(c)'
  BY <1>1, <1>4, <1>7 DEF Promised, Numbered
<1>9. QED
  BY <1>1, <1>3, <1>6, <1>8, PromptRequestKeeps DEF PromptsTypeOK

\* The caller is told.
LEMMA AnswerKeeps ==
    ASSUME PromptsInv, NEW c \in Requests, ReplyCreated(c)
    PROVE  PromptsInv'
<1> USE DEF PromptsInv
<1> DEFINE a == [by |-> c, prompt |-> request[c].prompt,
                 version |-> request[c].version]
<1>1. /\ request[c].stage = "created" /\ answered' = answered \cup {a}
      /\ request' = [request EXCEPT ![c] = NoRequest]
      /\ versions' = versions /\ repo' = repo /\ attempts' = attempts
  BY DEF ReplyCreated, Continue
<1>2. a \in Answer
  BY <1>1, PromptStages DEF Answer
<1>3. Kept(a)
  BY <1>1 DEF Kept, Promised
<1>4. NoRequest \in CreateRequest
  BY DEF CreateRequest
<1>5. \A d \in Requests : request'[d] = IF d = c THEN NoRequest ELSE request[d]
  BY <1>1 DEF PromptsTypeOK
<1>6. PromptsTypeOK'
  BY <1>1, <1>2, <1>4 DEF PromptsTypeOK
<1>7. \A d \in Requests : Promised(d)'
  BY <1>1, <1>5 DEF Promised, NoRequest
<1>8. (\A b \in answered : Kept(b))'
  BY <1>1, <1>3 DEF Kept
<1>9. QED
  BY <1>1, <1>6, <1>7, <1>8 DEF OneRepo, OneContent, NoGap

\* The caller is told nothing.
LEMMA ForgetKeeps ==
    ASSUME PromptsInv, NEW c \in Requests, Fail(c) \/ ReplyCreatedLost(c)
    PROVE  PromptsInv'
<1> USE DEF PromptsInv
<1>1. /\ Continue(c, NoRequest) /\ versions' = versions /\ repo' = repo
      /\ answered' = answered /\ attempts' = attempts
  BY DEF Fail, ReplyCreatedLost
<1>2. NoRequest \in CreateRequest
  BY DEF CreateRequest
<1>3. request'[c] = NoRequest
  BY <1>1 DEF Continue, PromptsTypeOK
<1>4. Promised(c)'
  BY <1>3 DEF Promised, NoRequest
<1>5. QED
  BY <1>1, <1>2, <1>4, PromptRequestKeeps DEF PromptsTypeOK

LEMMA PromptsInvStep ==
    ASSUME PromptVersionsAssumption
    PROVE  PromptsInv /\ [PromptsNext]_promptVars => PromptsInv'
<1> SUFFICES ASSUME PromptsInv, [PromptsNext]_promptVars
             PROVE  PromptsInv'
  OBVIOUS
<1>1. CASE UNCHANGED promptVars
  BY <1>1 DEF promptVars, PromptsInv, PromptsTypeOK, OneRepo, OneContent, NoGap, Promised, Kept
<1>2. ASSUME NEW c \in Requests, InsertVersion(c) \/ InsertAmbiguous(c)
      PROVE  PromptsInv'
  BY <1>2, RowKeeps DEF InsertVersion, InsertAmbiguous
<1>3. QED
  BY <1>1, <1>2, EnsureKeeps, ReadKeeps, AnswerKeeps, ForgetKeeps DEF PromptsNext

----
\* Every variable stays in its range.
THEOREM PromptsTypeCorrect ==
    ASSUME PromptVersionsAssumption
    PROVE  PromptsSpec => []PromptsTypeOK
<1>1. PromptsInit => PromptsInv
  BY InitPromptsInv
<1>2. PromptsInv /\ [PromptsNext]_promptVars => PromptsInv'
  BY PromptsInvStep
<1>3. PromptsInv => PromptsTypeOK
  BY DEF PromptsInv
<1>4. QED
  BY <1>1, <1>2, <1>3, PTL DEF PromptsSpec

\* CreateVersion numbers the versions of a prompt 1, 2, 3, ... however many
\* callers run its statements side by side: no gap, no number used twice.
THEOREM DenseCorrect ==
    ASSUME PromptVersionsAssumption
    PROVE  PromptsSpec => []VersionsDense
<1>1. PromptsInit => PromptsInv
  BY InitPromptsInv
<1>2. PromptsInv /\ [PromptsNext]_promptVars => PromptsInv'
  BY PromptsInvStep
<1>3. PromptsInv => VersionsDense
  BY DEF PromptsInv, OneRepo, OneContent, NoGap, VersionsDense
<1>4. QED
  BY <1>1, <1>2, <1>3, PTL DEF PromptsSpec

\* handleCreatePromptVersion: the version in a 201 answer is stored with the
\* content of the caller who got the answer, and told to nobody else.
THEOREM AnswersCorrect ==
    ASSUME PromptVersionsAssumption
    PROVE  PromptsSpec => []AnsweredIsStored
<1>1. PromptsInit => PromptsInv
  BY InitPromptsInv
<1>2. PromptsInv /\ [PromptsNext]_promptVars => PromptsInv'
  BY PromptsInvStep
<1>3. PromptsInv => AnsweredIsStored
  <2> SUFFICES ASSUME PromptsInv, NEW a \in answered
               PROVE  /\ \E id \in ListReposByOrg :
                            \E r \in ListVersions(id, a.prompt) :
                               r.version = a.version /\ r.content = a.by
                      /\ \A b \in answered :
                            (b.prompt = a.prompt /\ b.version = a.version)
                               => b = a
    BY DEF AnsweredIsStored
  <2> USE DEF PromptsInv
  <2>1. PICK r \in versions :
           r.prompt = a.prompt /\ r.version = a.version /\ r.content = a.by
    BY DEF Kept
  <2>2. r.repo = repo /\ repo \in ListReposByOrg
    BY DEF OneRepo, ListReposByOrg, PromptsTypeOK, PromptVersion, PromptVersionsAssumption
  <2>3. r \in ListVersions(repo, a.prompt)
    BY <2>1, <2>2 DEF ListVersions
  <2>4. ASSUME NEW b \in answered, b.prompt = a.prompt, b.version = a.version
        PROVE  b = a
    <3>1. PICK s \in versions :
             s.prompt = b.prompt /\ s.version = b.version /\ s.content = b.by
      BY DEF Kept
    <3>2. s = r
      BY <2>1, <2>4, <3>1 DEF OneContent
    <3>3. a \in Answer /\ b \in Answer
      BY DEF PromptsTypeOK
    <3>4. QED
      BY <2>1, <2>4, <3>1, <3>2, <3>3 DEF Answer
  <2>5. QED
    BY <2>1, <2>2, <2>3, <2>4
<1>4. QED
  BY <1>1, <1>2, <1>3, PTL DEF PromptsSpec

----
(* The versions of a prompt seen from outside: VersionHistory.             *)

\* The numbers of a prompt's versions are the first ones.  NoGap says so in
\* terms of single rows; that there is a last number, behind which a new row
\* has to come, does not follow from it without an induction.
RowsOf(p) == {r \in versions : r.prompt = p}
Numbers(S) == {r.version : r \in S}
NumbersOf(p) == Numbers(RowsOf(p))
FromOne == \A p \in Prompts : \E k \in Nat : NumbersOf(p) = 1 .. k

\* A list of rows that differ in their versions, version by version.
LEMMA VersionByVersion ==
    ASSUME NEW S, \A r, s \in S : r.version = s.version => r = s
    PROVE  /\ ByVersion(S) = [n \in Numbers(S) |-> ByVersion(S)[n]]
           /\ \A r \in S : ByVersion(S)[r.version] = r.content
<1>1. ByVersion(S) =
         [n \in Numbers(S) |-> (CHOOSE r \in S : r.version = n).content]
  BY DEF ByVersion, Numbers
<1>2. ASSUME NEW r \in S
      PROVE  ByVersion(S)[r.version] = r.content
  <2>1. (CHOOSE s \in S : s.version = r.version) = r
    OBVIOUS
  <2>2. r.version \in Numbers(S)
    BY DEF Numbers
  <2> QED
    BY <1>1, <2>1, <2>2
<1> QED
  BY <1>1, <1>2

\* A sequence and one element more, as functions.
LEMMA AppendAt ==
    ASSUME NEW T, NEW n \in Nat, NEW f \in [1 .. n -> T], NEW x \in T
    PROVE  /\ Append(f, x) \in [1 .. n + 1 -> T]
           /\ \A m \in 1 .. n : Append(f, x)[m] = f[m]
           /\ Append(f, x)[n + 1] = x
<1>1. f \in Seq(T) /\ Len(f) = n
  OBVIOUS
<1>2. Append(f, x) \in Seq(T) /\ Len(Append(f, x)) = n + 1
  BY <1>1
<1>3. Append(f, x) \in [1 .. n + 1 -> T]
  <2> DEFINE g == Append(f, x)
  <2> HIDE DEF g
  <2>1. g \in Seq(T) /\ Len(g) = n + 1
    BY <1>2 DEF g
  <2>2. g \in [1 .. Len(g) -> T]
    BY <2>1
  <2> QED
    BY <2>1, <2>2 DEF g
<1>4. \A m \in 1 .. n : Append(f, x)[m] = f[m]
  BY <1>1
<1>5. Append(f, x)[n + 1] = x
  BY <1>1
<1> QED
  BY <1>3, <1>4, <1>5

\* Two listings with the same rows are the same.
LEMMA SameHistory ==
    ASSUME PromptsInv, PromptsInv', versions' = versions
    PROVE  \A p \in Prompts : HistoryOf(p)' = HistoryOf(p)
<1> SUFFICES ASSUME NEW p \in Prompts
             PROVE  HistoryOf(p)' = HistoryOf(p)
  OBVIOUS
<1>1. ListVersions(repo, p) = RowsOf(p)
  BY DEF PromptsInv, OneRepo, ListVersions, RowsOf
<1>2. ListVersions(repo, p)' = RowsOf(p)
  BY DEF PromptsInv, OneRepo, ListVersions, RowsOf
<1> QED
  BY <1>1, <1>2 DEF HistoryOf

\* The row that an INSERT adds has the next number of its prompt, however
\* long ago its subquery looked.
LEMMA InsertIsNext ==
    ASSUME PromptsInv, FromOne, NEW c \in Requests,
           request[c].stage = "numbered", ~Taken(NewRow(c))
    PROVE  /\ request[c].prompt \in Prompts /\ request[c].highest \in Nat
           /\ NumbersOf(request[c].prompt) = 1 .. request[c].highest
<1> DEFINE p == request[c].prompt
           n == request[c].highest
<1>1. p \in Prompts /\ n \in Nat /\ request[c].repo = repo
  BY PromptStages DEF PromptsInv, Promised
<1>2. PICK k \in Nat : NumbersOf(p) = 1 .. k
  BY <1>1 DEF FromOne
<1>3. n = 0 \/ n \in NumbersOf(p)
  BY DEF PromptsInv, Promised, NumbersOf, Numbers, RowsOf
<1>4. n + 1 \notin NumbersOf(p)
  BY <1>1 DEF Taken, NewRow, ListVersions, NumbersOf, Numbers, RowsOf, PromptsInv, OneRepo
<1>5. n = k
  BY <1>1, <1>2, <1>3, <1>4
<1> QED
  BY <1>1, <1>2, <1>5

\* The INSERT appends to the list of its prompt.
LEMMA InsertAppends ==
    ASSUME PromptsInv, PromptsInv', FromOne, NEW c \in Requests,
           request[c].stage = "numbered", ~Taken(NewRow(c)),
           versions' = versions \cup {NewRow(c)}
    PROVE  /\ FromOne'
           /\ \A p \in Prompts :
                 HistoryOf(p)' = IF p = request[c].prompt
                                   THEN Append(HistoryOf(p), c)
                                   ELSE HistoryOf(p)
<1>1. PICK q \in Prompts, n \in Nat, row \in {NewRow(c)} :
         /\ q = request[c].prompt /\ n = request[c].highest
         /\ NumbersOf(q) = 1 .. n
  BY InsertIsNext
<1>2. row.prompt = q /\ row.version = n + 1 /\ row.content = c
  BY <1>1 DEF NewRow
<1>3. \A p \in Prompts :
         RowsOf(p)' = IF p = q THEN RowsOf(p) \cup {row} ELSE RowsOf(p)
  BY <1>1, <1>2 DEF RowsOf
<1>4. \A p \in Prompts : p # q => NumbersOf(p)' = NumbersOf(p)
  BY <1>3 DEF NumbersOf, Numbers
<1>5. NumbersOf(q)' = 1 .. n + 1
  <2>1. RowsOf(q)' = RowsOf(q) \cup {row}
    BY <1>1, <1>3
  <2>2. NumbersOf(q)' = NumbersOf(q) \cup {n + 1}
    BY <1>2, <2>1 DEF NumbersOf, Numbers
  <2> QED
    BY <1>1, <2>2
<1>6. FromOne'
  BY <1>1, <1>4, <1>5 DEF FromOne
<1>7. ASSUME NEW p \in Prompts, p # q
      PROVE  HistoryOf(p)' = HistoryOf(p)
  <2>1. ListVersions(repo, p) = RowsOf(p)
    BY DEF PromptsInv, OneRepo, ListVersions, RowsOf
  <2>2. ListVersions(repo, p)' = RowsOf(p)'
    BY DEF PromptsInv, OneRepo, ListVersions, RowsOf
  <2>3. RowsOf(p)' = RowsOf(p)
    BY <1>3, <1>7
  <2> QED
    BY <2>1, <2>2, <2>3 DEF HistoryOf
<1>8. HistoryOf(q)' = Append(HistoryOf(q), c)
  <2>1. /\ HistoryOf(q) = ByVersion(RowsOf(q))
        /\ HistoryOf(q)' = ByVersion(RowsOf(q)')
    BY <1>1 DEF PromptsInv, OneRepo, ListVersions, RowsOf, HistoryOf
  <2>2. /\ \A r, s \in RowsOf(q) : r.version = s.version => r = s
        /\ \A r, s \in RowsOf(q)' : r.version = s.version => r = s
    BY DEF PromptsInv, OneContent, RowsOf
  <2>3. /\ HistoryOf(q) = [m \in NumbersOf(q) |-> HistoryOf(q)[m]]
        /\ \A r \in RowsOf(q) : HistoryOf(q)[r.version] = r.content
    BY <2>1, <2>2, VersionByVersion DEF NumbersOf
  <2>4. /\ HistoryOf(q)' = [m \in NumbersOf(q)' |-> HistoryOf(q)'[m]]
        /\ \A r \in RowsOf(q)' : HistoryOf(q)'[r.version] = r.content
    BY <2>1, <2>2, VersionByVersion DEF NumbersOf
  <2>5. \A m \in 1 .. n : \E r \in RowsOf(q) : r.version = m
    BY <1>1 DEF NumbersOf, Numbers
  <2>6. \A m \in 1 .. n : HistoryOf(q)'[m] = HistoryOf(q)[m]
    BY <1>1, <1>3, <2>3, <2>4, <2>5
  <2>7. HistoryOf(q)'[n + 1] = c
    BY <1>1, <1>2, <1>3, <2>4
  <2>8. \A r \in RowsOf(q) : r.content \in Requests
    BY DEF PromptsInv, PromptsTypeOK, PromptVersion, RowsOf
  <2>9. HistoryOf(q) \in [1 .. n -> Requests]
    BY <1>1, <2>3, <2>5, <2>8
  <2>10. HistoryOf(q)' \in [1 .. n + 1 -> Requests]
    BY <1>5, <2>4, <2>6, <2>7, <2>9
  <2> QED
    BY <2>6, <2>7, <2>9, <2>10, AppendAt
<1> QED
  BY <1>1, <1>6, <1>7, <1>8

\* Statement by statement: an INSERT that commits creates, a 201 answer that
\* arrives tells, and all else is not seen from outside.
LEMMA PromptStep ==
    ASSUME PromptsInv, PromptsInv', FromOne, [PromptsNext]_promptVars
    PROVE  /\ FromOne'
           /\ [History!Next]_<<[p \in Prompts |-> HistoryOf(p)], answered>>
<1> DEFINE lists == [p \in Prompts |-> HistoryOf(p)]
<1>1. ASSUME versions' = versions
      PROVE  FromOne' /\ lists' = lists
  <2>1. \A p \in Prompts : HistoryOf(p)' = HistoryOf(p)
    BY <1>1, SameHistory
  <2> QED
    BY <1>1, <2>1 DEF FromOne, NumbersOf, Numbers, RowsOf
<1>2. CASE versions' = versions /\ answered' = answered
  BY <1>1, <1>2
<1>3. ASSUME NEW c \in Requests, InsertVersion(c) \/ InsertAmbiguous(c)
      PROVE  /\ FromOne' /\ answered' = answered
             /\ \E p \in Prompts : lists' = [lists EXCEPT ![p] = Append(@, c)]
  <2>1. /\ request[c].stage = "numbered" /\ ~Taken(NewRow(c))
        /\ versions' = versions \cup {NewRow(c)} /\ answered' = answered
    BY <1>3 DEF InsertVersion, InsertAmbiguous
  <2>2. PICK q \in Prompts : q = request[c].prompt
    BY <2>1, PromptStages DEF PromptsInv
  <2>3. FromOne'
    BY <2>1, InsertAppends
  <2>4. \A p \in Prompts :
           HistoryOf(p)' = IF p = q THEN Append(HistoryOf(p), c) ELSE HistoryOf(p)
    BY <2>1, <2>2, InsertAppends
  <2>5. lists' = [lists EXCEPT ![q] = Append(@, c)]
    BY <2>4
  <2> QED
    BY <2>1, <2>3, <2>5
<1>4. ASSUME NEW c \in Requests, ReplyCreated(c)
      PROVE  /\ versions' = versions
             /\ \E p \in Prompts : \E n \in DOMAIN lists[p] :
                   /\ lists[p][n] = c
                   /\ answered' = answered \cup
                                     {[by |-> c, prompt |-> p, version |-> n]}
  <2>1. /\ request[c].stage = "created" /\ versions' = versions
        /\ answered' = answered \cup {[by |-> c, prompt |-> request[c].prompt,
                                       version |-> request[c].version]}
    BY <1>4 DEF ReplyCreated
  <2>2. PICK q \in Prompts, n \in Nat : q = request[c].prompt /\ n = request[c].version
    BY <2>1, PromptStages DEF PromptsInv
  <2>3. PICK r \in RowsOf(q) : r.version = n /\ r.content = c
    BY <2>1, <2>2 DEF PromptsInv, Promised, RowsOf
  <2>4. HistoryOf(q) = ByVersion(RowsOf(q))
    BY <2>2 DEF PromptsInv, OneRepo, ListVersions, RowsOf, HistoryOf
  <2>5. \A s, t \in RowsOf(q) : s.version = t.version => s = t
    BY DEF PromptsInv, OneContent, RowsOf
  <2>6. n \in Numbers(RowsOf(q))
    BY <2>3 DEF Numbers
  <2>7. n \in DOMAIN HistoryOf(q) /\ HistoryOf(q)[n] = c
    BY <2>3, <2>4, <2>5, <2>6, VersionByVersion
  <2> QED
    BY <2>1, <2>2, <2>7
<1>5. ASSUME NEW c \in Requests,
             \/ \E id \in RepoIds : \/ EnsureRepoAmbiguous(c, id)
                                    \/ \E p \in Prompts : EnsureRepo(c, p, id)
             \/ ReadHighest(c) \/ Fail(c) \/ ReplyCreatedLost(c)
      PROVE  versions' = versions /\ answered' = answered
  BY <1>5 DEF EnsureRepoAmbiguous, EnsureRepo, ReadHighest, Fail, ReplyCreatedLost
<1>6. CASE UNCHANGED promptVars
  BY <1>2, <1>6 DEF promptVars
<1> HIDE DEF lists
<1>7. ASSUME NEW c \in Requests, InsertVersion(c) \/ InsertAmbiguous(c)
      PROVE  FromOne' /\ [History!Next]_<<lists, answered>>
  BY <1>3, <1>7 DEF History!Next, History!Create, lists
<1>8. ASSUME NEW c \in Requests, ReplyCreated(c)
      PROVE  FromOne' /\ [History!Next]_<<lists, answered>>
  BY <1>1, <1>4, <1>8 DEF History!Next, History!Tell, lists
<1> QED
  BY <1>2, <1>5, <1>6, <1>7, <1>8 DEF PromptsNext, lists

\* PromptsSpec implements VersionHistory: to its callers, CreateVersion is
\* one step that appends, for any number of callers and prompts.
THEOREM AtomicCorrect ==
    ASSUME PromptVersionsAssumption
    PROVE  PromptsSpec => CreatesAreAtomic
<1> DEFINE lists == [p \in Prompts |-> HistoryOf(p)]
           Both == PromptsInv /\ FromOne
<1>1. PromptsInit => Both
  <2>1. PromptsInit => FromOne
    <3> SUFFICES ASSUME versions = {}, NEW p \in Prompts
                 PROVE  NumbersOf(p) = 1 .. 0
      BY DEF PromptsInit, FromOne
    <3> QED
      BY DEF NumbersOf, Numbers, RowsOf
  <2> QED
    BY <2>1, InitPromptsInv
<1>2. Both /\ [PromptsNext]_promptVars => Both'
  BY PromptsInvStep, PromptStep
<1>3. PromptsInit => History!Init
  <2> SUFFICES ASSUME PromptsInit
               PROVE  /\ lists = [p \in Prompts |-> <<>>]
                      /\ answered = {}
    BY DEF History!Init
  <2>1. ASSUME NEW p \in Prompts
        PROVE  HistoryOf(p) = <<>>
    <3>1. {r.version : r \in ListVersions(repo, p)} = 1 .. 0
      BY DEF PromptsInit, ListVersions
    <3>2. HistoryOf(p) \in [1 .. 0 -> Requests]
      BY <3>1 DEF HistoryOf, ByVersion
    <3>3. HistoryOf(p) \in Seq(Requests) /\ Len(HistoryOf(p)) = 0
      BY <3>2
    <3> QED
      BY <3>3
  <2> QED
    BY <2>1 DEF PromptsInit
<1>4. Both /\ Both' /\ [PromptsNext]_promptVars
         => [History!Next]_<<lists, answered>>
  BY PromptStep
<1> QED
  BY <1>1, <1>2, <1>3, <1>4, PTL
     DEF PromptsSpec, CreatesAreAtomic, History!Spec, History!vars

----
(* The rows of the tables.                                                 *)

Drawn ==
    /\ \A r \in rows : r.id \in used
    /\ \A c \in Clients : pending[c].stage = "done" => pending[c].id \in used

\* Deletions that were reported, or will be.
Gone ==
    /\ \A r \in rows : r.id \notin deleted
    /\ \A c \in Clients :
          pending[c].stage = "done" /\ pending[c].op = "DELETE"
             => \A r \in rows : r.id # pending[c].id

OneEach == \A r, s \in rows : r.id = s.id => r = s

OneName ==
    table \in {"skills", "mcp_servers"} =>
       \A r, s \in rows : r.name = s.name => r = s

TablesInv == TablesTypeOK /\ Drawn /\ Gone /\ OneEach /\ OneName

\* What a client waits for.
LEMMA PendingTyped ==
    ASSUME TablesTypeOK, NEW c \in Clients
    PROVE  /\ pending[c].stage = "sent" =>
                 /\ pending[c].row \in ConfigRow
                 /\ pending[c].op \in {"POST", "PUT", "DELETE"}
           /\ pending[c].stage = "done" => pending[c].id \in RowIds
<1>1. pending[c] \in ConfigRequest
  BY DEF TablesTypeOK
<1>2. QED
  BY <1>1 DEF ConfigRequest, NothingSent

LEMMA InitTablesInv ==
    ASSUME ConfigTablesAssumption
    PROVE  TablesInit => TablesInv
  BY DEF ConfigTablesAssumption, TablesInit, TablesInv, TablesTypeOK, Drawn, Gone, OneEach,
         OneName, ConfigRequest, NothingSent

----
\* A statement ends in an answer, or its answer is lost on the way.
Ends(c, id) == Succeed(c, id) \/ Proceed(c, NothingSent)

LEMMA EndsTyped ==
    ASSUME TablesTypeOK, NEW c \in Clients, NEW id \in RowIds,
           pending[c].stage = "sent", Ends(c, id)
    PROVE  /\ pending' \in [Clients -> ConfigRequest]
           /\ \A d \in Clients : d # c => pending'[d] = pending[d]
           /\ \/ pending'[c].stage = "idle"
              \/ /\ pending'[c].stage = "done" /\ pending'[c].id = id
                 /\ pending'[c].op = pending[c].op
<1>1. pending[c].op \in {"POST", "PUT", "DELETE"}
  BY PendingTyped
<1>2. Done(pending[c].op, id) \in ConfigRequest /\ NothingSent \in ConfigRequest
  BY <1>1 DEF Done, ConfigRequest
<1>3. PICK next \in {Done(pending[c].op, id), NothingSent} :
         pending' = [pending EXCEPT ![c] = next]
  BY DEF Ends, Succeed, Proceed
<1>4. pending'[c] = next
  BY <1>3 DEF TablesTypeOK
<1>5. \/ next.stage = "idle"
      \/ /\ next.stage = "done" /\ next.id = id /\ next.op = pending[c].op
  BY <1>3 DEF Done, NothingSent
<1>6. QED
  BY <1>2, <1>3, <1>4, <1>5 DEF TablesTypeOK

\* INSERT: a row with an id that was never drawn.
LEMMA InsertKeeps ==
    ASSUME TablesInv, NEW c \in Clients, NEW id \in RowIds \ used, NEW row,
           pending[c].stage = "sent", pending[c].op = "POST",
           row = [pending[c].row EXCEPT !.id = id],
           rows' = rows \cup {row}, used' = used \cup {id},
           Ends(c, id), UNCHANGED <<table, known, deleted, sends>>,
           table \in {"skills", "mcp_servers"} =>
              \A r \in rows : r.name # row.name
    PROVE  TablesInv'
<1> USE DEF TablesInv
<1>1. row \in ConfigRow /\ row.id = id
  BY PendingTyped DEF ConfigRow
<1>2. /\ pending' \in [Clients -> ConfigRequest]
      /\ \A d \in Clients : d # c => pending'[d] = pending[d]
      /\ \/ pending'[c].stage = "idle"
         \/ /\ pending'[c].stage = "done" /\ pending'[c].id = id
            /\ pending'[c].op = "POST"
  BY EndsTyped
<1>3. TablesTypeOK'
  BY <1>1, <1>2 DEF TablesTypeOK
<1>4. Drawn'
  BY <1>1, <1>2 DEF Drawn
<1>5. \A r \in rows : r.id \in used /\ r.id # id
  BY DEF Drawn
<1>6. id \notin deleted
  BY DEF TablesTypeOK
<1>7. Gone'
  <2>1. \A r \in rows' : r.id \notin deleted'
    BY <1>1, <1>6 DEF Gone
  <2>2. ASSUME NEW d \in Clients, pending'[d].stage = "done",
               pending'[d].op = "DELETE"
        PROVE  \A r \in rows' : r.id # pending'[d].id
    <3>1. d # c
      BY <1>2, <2>2
    <3>2. /\ \A r \in rows : r.id # pending[d].id
          /\ pending[d].id \in used /\ pending'[d] = pending[d]
      BY <1>2, <2>2, <3>1 DEF Gone, Drawn
    <3>3. QED
      BY <1>1, <3>2
  <2>3. QED
    BY <2>1, <2>2 DEF Gone
<1>8. OneEach'
  <2> SUFFICES ASSUME NEW r \in rows', NEW s \in rows', r.id = s.id
               PROVE  r = s
    BY DEF OneEach
  <2>1. CASE r \in rows /\ s \in rows
    BY <2>1 DEF OneEach
  <2>2. CASE r = row \/ s = row
    BY <1>1, <1>5, <2>2
  <2>3. QED
    BY <2>1, <2>2
<1>9. OneName'
  BY DEF OneName
<1>10. QED
  BY <1>3, <1>4, <1>7, <1>8, <1>9

\* UPDATE: the row the request names is replaced by one of the same id.
LEMMA UpdateKeeps ==
    ASSUME TablesInv, NEW c \in Clients, NEW others,
           pending[c].stage = "sent", pending[c].op = "PUT",
           others = {r \in rows : r.id # pending[c].row.id}, others # rows,
           rows' = others \cup {pending[c].row},
           Ends(c, pending[c].row.id),
           UNCHANGED <<table, known, used, deleted, sends>>,
           table \in {"skills", "mcp_servers"} =>
              \A r \in others : r.name # pending[c].row.name
    PROVE  TablesInv'
<1> USE DEF TablesInv
<1> DEFINE row == pending[c].row
<1>1. row \in ConfigRow /\ row.id \in RowIds
  BY PendingTyped DEF ConfigRow
<1>2. PICK old \in rows : old.id = row.id
  OBVIOUS
<1>3. row.id \in used /\ row.id \notin deleted
  BY <1>2 DEF Drawn, Gone
<1>4. /\ pending' \in [Clients -> ConfigRequest]
      /\ \A d \in Clients : d # c => pending'[d] = pending[d]
      /\ \/ pending'[c].stage = "idle"
         \/ /\ pending'[c].stage = "done" /\ pending'[c].id = row.id
            /\ pending'[c].op = "PUT"
  BY <1>1, EndsTyped
<1>5. TablesTypeOK'
  BY <1>1, <1>4 DEF TablesTypeOK
<1>6. Drawn'
  BY <1>3, <1>4 DEF Drawn
<1>7. Gone'
  BY <1>2, <1>3, <1>4 DEF Gone
<1>8. OneEach' /\ OneName'
  BY DEF OneEach, OneName
<1>9. QED
  BY <1>5, <1>6, <1>7, <1>8

\* DELETE: the row is gone before anybody is told.
LEMMA DeleteKeeps ==
    ASSUME TablesInv, NEW c \in Clients, Delete(c),
           UNCHANGED <<table, known, deleted, sends>>
    PROVE  TablesInv'
<1> USE DEF TablesInv
<1>1. /\ pending[c].stage = "sent" /\ pending[c].op = "DELETE" /\ used' = used
      /\ Ends(c, pending[c].row.id)
  BY DEF Delete, Ends
<1>2. PICK gone \in rows : gone.id = pending[c].row.id /\ rows' = rows \ {gone}
  BY DEF Delete
<1>3. gone.id \in used /\ gone.id \in RowIds
  BY DEF Drawn, TablesTypeOK
<1>4. /\ pending' \in [Clients -> ConfigRequest]
      /\ \A d \in Clients : d # c => pending'[d] = pending[d]
      /\ \/ pending'[c].stage = "idle"
         \/ pending'[c].stage = "done" /\ pending'[c].id = gone.id
  BY <1>1, <1>2, <1>3, EndsTyped
<1>5. TablesTypeOK'
  BY <1>1, <1>2, <1>4 DEF TablesTypeOK
<1>6. Drawn'
  BY <1>1, <1>2, <1>3, <1>4 DEF Drawn
<1>7. Gone'
  <2>1. \A r \in rows' : r.id # gone.id
    BY <1>2 DEF OneEach
  <2>2. QED
    BY <1>2, <1>4, <2>1 DEF Gone
<1>8. OneEach' /\ OneName'
  BY <1>2 DEF OneEach, OneName
<1>9. QED
  BY <1>5, <1>6, <1>7, <1>8

\* A request changes, and the table does not.
LEMMA SentKeeps ==
    ASSUME TablesInv, NEW c \in Clients, NEW next \in ConfigRequest, Proceed(c, next),
           next.stage # "done", rows' = rows, used' = used, table' = table,
           known' \subseteq used, deleted' \subseteq used,
           sends' \in [Clients -> 0 .. MaxSends],
           \A r \in rows : r.id \notin deleted'
    PROVE  TablesInv'
<1> USE DEF TablesInv
<1>1. \A d \in Clients : pending'[d] = IF d = c THEN next ELSE pending[d]
  BY DEF Proceed, TablesTypeOK
<1>2. TablesTypeOK'
  BY DEF Proceed, TablesTypeOK
<1>3. Drawn' /\ Gone'
  BY <1>1 DEF Drawn, Gone
<1>4. OneEach' /\ OneName'
  BY DEF OneEach, OneName
<1>5. QED
  BY <1>2, <1>3, <1>4

LEMMA StatementKeeps ==
    ASSUME TablesInv, NEW c \in Clients, Statement(c)
    PROVE  TablesInv'
<1> USE DEF TablesInv
<1>1. UNCHANGED <<table, known, deleted, sends>>
  BY DEF Statement
<1>2. CASE Delete(c)
  BY <1>1, <1>2, DeleteKeeps
<1>3. CASE Refuse(c)
  <2>1. Proceed(c, NothingSent) /\ rows' = rows /\ used' = used
    BY <1>3 DEF Refuse
  <2>2. NothingSent \in ConfigRequest /\ NothingSent.stage # "done"
    BY DEF ConfigRequest, NothingSent
  <2>3. QED
    BY <1>1, <2>1, <2>2, SentKeeps DEF TablesTypeOK, Gone
<1>4. CASE \/ Insert(c, TRUE)
           \/ table \notin {"skills", "mcp_servers"} /\ Insert(c, FALSE)
  <2>1. pending[c].stage = "sent" /\ pending[c].op = "POST"
    BY <1>4 DEF Insert
  <2>2. PICK id \in RowIds \ used :
           /\ rows' = rows \cup {[pending[c].row EXCEPT !.id = id]}
           /\ used' = used \cup {id} /\ Ends(c, id)
    BY <1>4 DEF Insert, Ends
  <2>3. [pending[c].row EXCEPT !.id = id].name = pending[c].row.name
    BY <2>1, PendingTyped DEF ConfigRow
  <2>4. table \in {"skills", "mcp_servers"} =>
           \A r \in rows : r.name # pending[c].row.name
    BY <1>4 DEF Insert, Free
  <2>5. QED
    BY <1>1, <2>1, <2>2, <2>3, <2>4, InsertKeeps
<1>5. CASE \/ Update(c, TRUE)
           \/ table \notin {"skills", "mcp_servers"} /\ Update(c, FALSE)
  <2> DEFINE others == {r \in rows : r.id # pending[c].row.id}
  <2>1. /\ pending[c].stage = "sent" /\ pending[c].op = "PUT"
        /\ others # rows /\ rows' = others \cup {pending[c].row}
        /\ used' = used /\ Ends(c, pending[c].row.id)
    BY <1>5 DEF Update, Ends
  <2>2. table \in {"skills", "mcp_servers"} =>
           \A r \in others : r.name # pending[c].row.name
    BY <1>5 DEF Update, Free
  <2>3. QED
    BY <1>1, <2>1, <2>2, UpdateKeeps
<1>6. QED
  BY <1>2, <1>3, <1>4, <1>5 DEF Statement, SkillRepository,
     MCPServerRepository, GuardrailRepository, BudgetRuleRepository,
     RateLimitRuleRepository

----
LEMMA RoutesKeep ==
    ASSUME ConfigTablesAssumption, TablesInv, NEW c \in Clients, Routes(c)
    PROVE  TablesInv'
<1> USE DEF TablesInv
<1>1. ASSUME NEW op \in {"POST", "PUT", "DELETE"}, NEW row \in ConfigRow,
             Send(c, op, row)
      PROVE  TablesInv'
  <2>1. Sent(op, row) \in ConfigRequest /\ Sent(op, row).stage # "done"
    BY DEF Sent, ConfigRequest
  <2>2. sends' \in [Clients -> 0 .. MaxSends]
    BY <1>1 DEF Send, TablesTypeOK, ConfigTablesAssumption
  <2>3. QED
    BY <1>1, <2>1, <2>2, SentKeeps DEF Send, TablesTypeOK, Gone
<1>2. CASE Reply(c)
  <2>1. /\ pending[c].stage = "done" /\ Proceed(c, NothingSent)
        /\ rows' = rows /\ used' = used /\ table' = table /\ sends' = sends
        /\ known' = known \cup {pending[c].id}
        /\ \/ deleted' = deleted
           \/ /\ pending[c].op = "DELETE"
              /\ deleted' = deleted \cup {pending[c].id}
    BY <1>2 DEF Reply
  <2>2. NothingSent \in ConfigRequest /\ NothingSent.stage # "done"
    BY DEF ConfigRequest, NothingSent
  <2>3. known' \subseteq used /\ deleted' \subseteq used
    BY <2>1 DEF Drawn, TablesTypeOK
  <2>4. \A r \in rows : r.id \notin deleted'
    BY <2>1 DEF Gone
  <2>5. QED
    BY <2>1, <2>2, <2>3, <2>4, SentKeeps DEF TablesTypeOK
<1>3. CASE ReplyLost(c)
  <2>1. NothingSent \in ConfigRequest /\ NothingSent.stage # "done"
    BY DEF ConfigRequest, NothingSent
  <2>2. QED
    BY <1>3, <2>1, SentKeeps DEF ReplyLost, TablesTypeOK, Gone
<1>4. CASE ListByOrg
  BY <1>4 DEF ListByOrg, TablesTypeOK, Drawn, Gone, OneEach, OneName
<1>5. QED
  BY <1>1, <1>2, <1>3, <1>4 DEF Routes

LEMMA TablesInvStep ==
    ASSUME ConfigTablesAssumption
    PROVE  TablesInv /\ [TablesNext]_tableVars => TablesInv'
<1> SUFFICES ASSUME TablesInv, [TablesNext]_tableVars
             PROVE  TablesInv'
  OBVIOUS
<1>1. CASE UNCHANGED tableVars
  BY <1>1 DEF tableVars, TablesInv, TablesTypeOK, Drawn, Gone, OneEach, OneName
<1>2. QED
  BY <1>1, StatementKeeps, RoutesKeep DEF TablesNext, SkillRoutes, MCPRoutes,
     GuardrailRoutes, BudgetRuleRoutes, RateRuleRoutes

\* Every variable stays in its range.
THEOREM TablesTypeCorrect ==
    ASSUME ConfigTablesAssumption
    PROVE  TablesSpec => []TablesTypeOK
<1>1. TablesInit => TablesInv
  BY InitTablesInv
<1>2. TablesInv /\ [TablesNext]_tableVars => TablesInv'
  BY TablesInvStep
<1>3. TablesInv => TablesTypeOK
  BY DEF TablesInv
<1>4. QED
  BY <1>1, <1>2, <1>3, PTL DEF TablesSpec

\* Once a DELETE of the console is answered, no PUT under way and no POST
\* that names its id brings the row back; names that are unique stay unique,
\* also when a POST whose answer was lost is sent again.
THEOREM DeletionsHold ==
    ASSUME ConfigTablesAssumption
    PROVE  TablesSpec => []DeletedStaysGone
<1>1. TablesInit => TablesInv
  BY InitTablesInv
<1>2. TablesInv /\ [TablesNext]_tableVars => TablesInv'
  BY TablesInvStep
<1>3. TablesInv => DeletedStaysGone
  BY DEF TablesInv, Gone, OneEach, OneName, DeletedStaysGone
<1>4. QED
  BY <1>1, <1>2, <1>3, PTL DEF TablesSpec

----
(* The queries of the logs.                                                *)

\* A client that follows next_cursor: what it was shown is the row of the
\* cursor and rows above, and what it still has to see is below.
WalkInv ==
    /\ walk.stage = "more" =>
          /\ ~walk.twice
          /\ \A r \in walk.shown : r = walk.cursor \/ Log!Above(r, walk.cursor)
          /\ \A r \in walk.due : r \in walk.shown \/ Log!Above(walk.cursor, r)
          /\ walk.due \subseteq Log!Matching(walk.window)
    /\ walk.stage = "end" => ~walk.twice /\ walk.due \subseteq walk.shown

\* A client that asks for metrics: a point counts rows of its own bucket,
\* which are there for the summary to count.
SeriesInv ==
    /\ metrics.stage = "series" =>
          \A b \in DOMAIN metrics.series :
             metrics.series[b] \subseteq Log!LogWindow(metrics.window)
    /\ metrics.stage = "end" =>
          \A b \in DOMAIN metrics.series : metrics.series[b] \subseteq metrics.total
    /\ metrics.stage # "idle" =>
          \A b \in DOMAIN metrics.series :
             \A r \in metrics.series[b] : Log!Truncate(r.at) = b

LogInv == Log!TypeOK /\ IsFiniteSet(logRows) /\ WalkInv /\ SeriesInv

\* A set of numbers that is not empty has a least one.
LEMMA LeastNat ==
    ASSUME NEW T \in SUBSET Nat, T # {}
    PROVE  \E n \in T : \A m \in T : n <= m
<1>1. PICK n \in T : \A m \in T : ~(<<m, n>> \in OpToRel(<, Nat))
  BY NatLessThanWellFounded, WFMin, Zenon
<1>2. \A m \in T : ~(m < n)
  BY <1>1 DEF OpToRel
<1> QED
  BY <1>2

\* A finite set that is not empty has a first element in any order: the one
\* with the fewest before it.
LEMMA FirstInOrder ==
    ASSUME NEW S, IsFiniteSet(S), S # {}, NEW R,
           \A x \in S : <<x, x>> \notin R,
           \A x, y, z \in S : <<x, y>> \in R /\ <<y, z>> \in R => <<x, z>> \in R
    PROVE  \E x \in S : \A y \in S : <<y, x>> \notin R
<1> DEFINE Before(x) == {y \in S : <<y, x>> \in R}
           Sizes == {n \in Nat : \E x \in S : Cardinality(Before(x)) = n}
<1>1. \A x \in S : IsFiniteSet(Before(x)) /\ Cardinality(Before(x)) \in Nat
  BY FS_Subset, FS_CardinalityType
<1>2. Sizes \in SUBSET Nat /\ Sizes # {}
  <2>1. PICK x \in S : TRUE
    OBVIOUS
  <2>2. Cardinality(Before(x)) \in Sizes
    <3> HIDE DEF Before
    <3> QED
      BY <1>1, <2>1
  <2> QED
    BY <2>2
<1>3. PICK n \in Sizes : \A m \in Sizes : n <= m
  <2> HIDE DEF Sizes
  <2> QED
    BY <1>2, LeastNat
<1>4. PICK x \in S : Cardinality(Before(x)) = n
  BY <1>3
<1>5. ASSUME NEW y \in S, <<y, x>> \in R
      PROVE  FALSE
  <2>1. Before(y) \subseteq Before(x) /\ Before(y) # Before(x)
    BY <1>5
  <2>2. /\ Cardinality(Before(y)) <= Cardinality(Before(x))
        /\ Cardinality(Before(y)) # Cardinality(Before(x))
    BY <1>1, <2>1, FS_Subset
  <2>3. Cardinality(Before(y)) \in Sizes
    <3> HIDE DEF Before
    <3> QED
      BY <1>1
  <2>4. n <= Cardinality(Before(y)) /\ n \in Nat /\ Cardinality(Before(y)) \in Nat
    <3> HIDE DEF Before
    <3> QED
      BY <1>1, <1>3, <2>3
  <2> HIDE DEF Before
  <2> QED
    BY <1>4, <2>2, <2>4
<1> QED
  BY <1>5

\* The order of the pages is one: rows differ in time or id.
LEMMA AboveIsOrder ==
    ASSUME Log!LogQueriesAssumption
    PROVE  /\ \A r \in Log!Row : ~Log!Above(r, r)
           /\ \A r, s, t \in Log!Row :
                 Log!Above(r, s) /\ Log!Above(s, t) => Log!Above(r, t)
           /\ \A r, s \in Log!Row : r = s \/ Log!Above(r, s) \/ Log!Above(s, r)
<1>1. \A r \in Log!Row : r.at \in Nat /\ r.id \in Nat
  <2>1. MaxAt \in Nat /\ LogIds \subseteq Nat
    BY DEF Log!LogQueriesAssumption
  <2>2. Log!Time \subseteq Nat
    BY <2>1 DEF Log!Time
  <2> QED
    BY <2>1, <2>2 DEF Log!Row
<1>2. \A r, s \in Log!Row : r.at = s.at /\ r.id = s.id => r = s
  BY DEF Log!Row
<1> QED
  BY <1>1, <1>2 DEF Log!Above

\* The model's cardinality is that of the lemmas above.
LEMMA RowsOfPage ==
    ASSUME NEW S
    PROVE  Log!Cardinality(S) = Cardinality(S)
  BY DEF Log!Cardinality, Cardinality, Log!IsFiniteSet, IsFiniteSet

\* What is left for the next pages is below all that a page shows, and a page
\* that leaves something has a last row, the cursor.
LEMMA PageCuts ==
    ASSUME Log!LogQueriesAssumption, NEW found \in SUBSET Log!Row, IsFiniteSet(found)
    PROVE  /\ Log!Page(found) \subseteq found
           /\ \A r \in Log!Page(found) : \A s \in found \ Log!Page(found) :
                 Log!Above(r, s)
           /\ Log!Page(found) # found =>
                 \E r \in Log!Page(found) :
                    \A s \in Log!Page(found) : r = s \/ Log!Above(s, r)
<1> DEFINE Up(r) == {s \in found : Log!Above(s, r)}
           P == Log!Page(found)
<1>1. \A r \in found : IsFiniteSet(Up(r)) /\ Cardinality(Up(r)) \in Nat
  BY FS_Subset, FS_CardinalityType
<1>2. P = {r \in found : Cardinality(Up(r)) < Limit}
  BY RowsOfPage DEF Log!Page
<1>3. Limit \in Nat \ {0}
  BY DEF Log!LogQueriesAssumption
<1>4. ASSUME NEW r \in P, NEW s \in found \ P
      PROVE  Log!Above(r, s)
  <2>1. r \in found /\ s \in found /\ r # s /\ r \in Log!Row /\ s \in Log!Row
    BY <1>2
  <2>2. ASSUME Log!Above(s, r)
        PROVE  FALSE
    <3>1. Up(s) \subseteq Up(r)
      BY <2>1, <2>2, AboveIsOrder
    <3>2. Cardinality(Up(s)) <= Cardinality(Up(r))
      BY <1>1, <2>1, <3>1, FS_Subset
    <3>3. Cardinality(Up(r)) < Limit /\ ~(Cardinality(Up(s)) < Limit)
      BY <1>2
    <3> HIDE DEF Up
    <3> QED
      BY <1>1, <1>3, <2>1, <3>2, <3>3
  <2> QED
    BY <2>1, <2>2, AboveIsOrder
<1>5. ASSUME found # {}
      PROVE  P # {}
  <2> DEFINE R == {p \in Log!Row \X Log!Row : Log!Above(p[1], p[2])}
  <2>1. \A x, y \in found : <<x, y>> \in R <=> Log!Above(x, y)
    OBVIOUS
  <2>2. /\ \A x \in found : <<x, x>> \notin R
        /\ \A x, y, z \in found : <<x, y>> \in R /\ <<y, z>> \in R => <<x, z>> \in R
    <3> HIDE DEF R
    <3> QED
      BY <2>1, AboveIsOrder
  <2>3. PICK x \in found : \A y \in found : <<y, x>> \notin R
    <3> HIDE DEF R
    <3> QED
      BY <1>5, <2>2, FirstInOrder
  <2>4. Up(x) = {}
    BY <2>1, <2>3
  <2>5. Cardinality(Up(x)) = 0
    BY <2>4, FS_EmptySet
  <2> QED
    BY <1>2, <1>3, <2>5
<1>6. ASSUME P # found
      PROVE  \E r \in P : \A s \in P : r = s \/ Log!Above(s, r)
  <2> DEFINE R == {p \in Log!Row \X Log!Row : Log!Above(p[2], p[1])}
  <2>1. P \subseteq found /\ P # {} /\ IsFiniteSet(P)
    BY <1>2, <1>5, <1>6, FS_Subset
  <2>2. \A x, y \in P : <<x, y>> \in R <=> Log!Above(y, x)
    BY <2>1
  <2>3. /\ \A x \in P : <<x, x>> \notin R
        /\ \A x, y, z \in P : <<x, y>> \in R /\ <<y, z>> \in R => <<x, z>> \in R
    <3> HIDE DEF R, P
    <3> QED
      BY <2>1, <2>2, AboveIsOrder
  <2>4. PICK x \in P : \A y \in P : <<y, x>> \notin R
    <3> HIDE DEF R, P
    <3> QED
      BY <2>1, <2>3, FirstInOrder
  <2>5. \A s \in P : x = s \/ Log!Above(s, x)
    <3> HIDE DEF R, P
    <3> QED
      BY <2>1, <2>2, <2>4, AboveIsOrder
  <2> QED
    BY <2>5
<1> QED
  BY <1>2, <1>4, <1>6

\* A page that continues where the pages before it ended.
LEMMA ShowKeeps ==
    ASSUME Log!LogQueriesAssumption, UNCHANGED <<view, logRows>>,
           NEW w \in Log!Window, NEW shown \in SUBSET Log!Row,
           NEW due \in SUBSET Log!Row, NEW twice \in BOOLEAN, ~twice,
           NEW found \in SUBSET Log!Row, IsFiniteSet(found),
           \A r \in found : \A s \in shown : Log!Above(s, r),
           due \subseteq shown \cup found, due \subseteq Log!Matching(w),
           Log!Show(w, shown, due, twice, found)
    PROVE  walk' \in Log!Walk /\ WalkInv'
<1> DEFINE P == Log!Page(found)
           all == shown \cup P
           again == twice \/ P \cap shown # {}
           last(r) == \A s \in P : r = s \/ Log!Above(s, r)
           c == CHOOSE r \in P : last(r)
<1>1. /\ P \subseteq found
      /\ \A r \in P : \A s \in found \ P : Log!Above(r, s)
      /\ P # found => \E r \in P : last(r)
  BY PageCuts
<1>2. ~again
  BY <1>1, AboveIsOrder
<1>3. all \in SUBSET Log!Row
  BY <1>1
<1>4. CASE P = found
  <2>1. walk' = [stage |-> "end", window |-> w, shown |-> all, due |-> due,
                 twice |-> FALSE]
    BY <1>2, <1>4 DEF Log!Show
  <2>2. due \subseteq all
    BY <1>4
  <2> HIDE DEF P, all, again
  <2>3. walk' \in Log!Walk
    BY <1>3, <2>1 DEF Log!Walk
  <2>4. WalkInv'
    BY <2>1, <2>2 DEF WalkInv
  <2> QED
    BY <2>3, <2>4
<1>5. CASE P # found
  <2>1. walk' = [stage |-> "more", window |-> w, shown |-> all, due |-> due,
                 twice |-> FALSE, cursor |-> c]
    BY <1>2, <1>5 DEF Log!Show
  <2>2. c \in P /\ last(c)
    <3> HIDE DEF P, last
    <3> QED
      BY <1>1, <1>5
  <2>3. \A r \in all : r = c \/ Log!Above(r, c)
    <3> HIDE DEF c
    <3> QED
      BY <1>1, <2>2
  <2>4. \A r \in due : r \in all \/ Log!Above(c, r)
    <3> HIDE DEF c
    <3> QED
      BY <1>1, <2>2
  <2>5. c \in Log!Row
    <3> HIDE DEF c
    <3> QED
      BY <1>1, <2>2
  <2> HIDE DEF P, all, again, c, last
  <2>7. walk' \in Log!Walk
    BY <1>3, <2>1, <2>5 DEF Log!Walk
  <2>8. /\ walk'.stage = "more" /\ walk'.window = w /\ walk'.shown = all
        /\ walk'.due = due /\ walk'.twice = FALSE /\ walk'.cursor = c
    BY <2>1
  <2>9. Log!Matching(walk.window)' = Log!Matching(w)
    BY <2>8 DEF Log!Matching, Log!AuditWindow, Log!LogWindow
  <2>10. WalkInv'
    BY <2>3, <2>4, <2>8, <2>9 DEF WalkInv
  <2> QED
    BY <2>7, <2>10
<1> QED
  BY <1>4, <1>5

\* Rows that match are rows of the table.
LEMMA MatchingRows ==
    ASSUME logRows \subseteq Log!Row, IsFiniteSet(logRows), NEW w
    PROVE  /\ Log!Matching(w) \in SUBSET Log!Row /\ IsFiniteSet(Log!Matching(w))
           /\ Log!LogWindow(w) \in SUBSET Log!Row /\ IsFiniteSet(Log!LogWindow(w))
<1>1. Log!LogWindow(w) \subseteq logRows /\ Log!AuditWindow(w) \subseteq logRows
  BY DEF Log!LogWindow, Log!AuditWindow
<1>2. Log!Matching(w) \subseteq logRows
  BY <1>1 DEF Log!Matching
<1> QED
  BY <1>1, <1>2, FS_Subset

\* A walk that begins, or begins anew.
LEMMA Begins ==
    ASSUME Log!LogQueriesAssumption, UNCHANGED <<view, logRows>>,
           logRows \subseteq Log!Row, IsFiniteSet(logRows), NEW w \in Log!Window,
           Log!Show(w, {}, Log!Matching(w), FALSE, Log!Matching(w))
    PROVE  walk' \in Log!Walk /\ WalkInv'
<1> DEFINE m == Log!Matching(w)
<1>1. m \in SUBSET Log!Row /\ IsFiniteSet(m)
  BY MatchingRows
<1>2. /\ {} \in SUBSET Log!Row /\ FALSE \in BOOLEAN /\ ~FALSE
      /\ m \subseteq {} \cup m /\ m \subseteq Log!Matching(w)
      /\ \A r \in m : \A s \in {} : Log!Above(s, r)
  OBVIOUS
<1>3. Log!Show(w, {}, m, FALSE, m)
  OBVIOUS
<1> HIDE DEF m
<1> QED
  BY <1>1, <1>2, <1>3, ShowKeeps

\* Steps of the walk.
LEMMA PagesKeep ==
    ASSUME Log!LogQueriesAssumption, LogInv,
           \/ \E w \in Log!Window : Log!FirstPage(w)
           \/ Log!NextPage
           \/ Log!GarbledCursor
    PROVE  walk' \in Log!Walk /\ WalkInv'
<1>0. logRows \subseteq Log!Row /\ IsFiniteSet(logRows) /\ walk \in Log!Walk
  BY DEF LogInv, Log!TypeOK
<1>1. ASSUME NEW w \in Log!Window, Log!FirstPage(w)
      PROVE  walk' \in Log!Walk /\ WalkInv'
  BY <1>0, <1>1, Begins DEF Log!FirstPage
<1>2. CASE Log!NextPage
  <2> DEFINE found == Log!After(walk.cursor, Log!Matching(walk.window))
  <2>1. /\ walk.stage = "more" /\ UNCHANGED <<view, logRows>>
        /\ Log!Show(walk.window, walk.shown, walk.due, walk.twice, found)
    BY <1>2 DEF Log!NextPage
  <2>2. /\ walk.window \in Log!Window /\ walk.cursor \in Log!Row
        /\ walk.shown \in SUBSET Log!Row /\ walk.due \in SUBSET Log!Row
        /\ walk.twice \in BOOLEAN
    BY <1>0, <2>1 DEF Log!Walk, Log!Idle
  <2>3. /\ ~walk.twice
        /\ \A r \in walk.shown : r = walk.cursor \/ Log!Above(r, walk.cursor)
        /\ \A r \in walk.due : r \in walk.shown \/ Log!Above(walk.cursor, r)
        /\ walk.due \subseteq Log!Matching(walk.window)
    BY <2>1 DEF LogInv, WalkInv
  <2>4. found = {r \in Log!Matching(walk.window) : Log!Above(walk.cursor, r)}
    BY DEF Log!After
  <2>5. found \in SUBSET Log!Row /\ IsFiniteSet(found)
    <3>1. found \subseteq Log!Matching(walk.window)
      BY <2>4
    <3> HIDE DEF found
    <3> QED
      BY <1>0, <3>1, MatchingRows, FS_Subset
  <2>6. \A r \in found : \A s \in walk.shown : Log!Above(s, r)
    <3> HIDE DEF found
    <3> QED
      BY <2>2, <2>3, <2>4, <2>5, AboveIsOrder
  <2>7. walk.due \subseteq walk.shown \cup found
    BY <2>3, <2>4
  <2> HIDE DEF found
  <2> QED
    BY <2>1, <2>2, <2>3, <2>5, <2>6, <2>7, ShowKeeps
<1>3. CASE Log!GarbledCursor
  <2>1. CASE view = "logs"
    <3> DEFINE w == walk.window
    <3>1. walk.stage = "more" /\ UNCHANGED <<view, logRows>>
      BY <1>3 DEF Log!GarbledCursor
    <3>2. Log!Show(w, {}, Log!LogWindow(w), FALSE, Log!LogWindow(w))
      BY <1>3, <2>1 DEF Log!GarbledCursor
    <3>3. w \in Log!Window
      BY <1>0, <3>1 DEF Log!Walk, Log!Idle
    <3>4. Log!LogWindow(w) = Log!Matching(w)
      BY <2>1, Zenon DEF Log!Matching
    <3>5. Log!Show(w, {}, Log!Matching(w), FALSE, Log!Matching(w))
      BY <3>2, <3>4, Zenon
    <3> HIDE DEF w
    <3> QED
      BY <1>0, <3>1, <3>3, <3>5, Begins
  <2>2. CASE view # "logs"
    <3>1. walk' = Log!Idle
      BY <1>3, <2>2 DEF Log!GarbledCursor
    <3> QED
      BY <3>1 DEF Log!Walk, WalkInv, Log!Idle
  <2> QED
    BY <2>1, <2>2
<1> QED
  BY <1>1, <1>2, <1>3

\* The steps of the metrics, and a query that fails.
LEMMA MetricsKeep ==
    ASSUME LogInv,
           \/ \E w \in Log!Window : Log!QuerySeries(w)
           \/ Log!QuerySummary
           \/ Log!QueryFails
    PROVE  LogInv'
<1>0. /\ logRows \subseteq Log!Row /\ IsFiniteSet(logRows)
      /\ walk \in Log!Walk /\ metrics \in Log!Metrics /\ WalkInv /\ SeriesInv
  BY DEF LogInv, Log!TypeOK
<1>1. UNCHANGED <<view, logRows>>
  BY DEF Log!QuerySeries, Log!QuerySummary, Log!QueryFails
<1>2. walk' \in Log!Walk /\ WalkInv'
  <2>1. CASE walk' = walk
    BY <1>0, <1>1, <2>1
       DEF WalkInv, Log!Matching, Log!AuditWindow, Log!LogWindow
  <2>2. CASE walk' = Log!Idle
    BY <2>2 DEF Log!Walk, WalkInv, Log!Idle
  <2> QED
    BY <2>1, <2>2 DEF Log!QuerySeries, Log!QuerySummary, Log!QueryFails
<1>3. metrics' \in Log!Metrics /\ SeriesInv'
  <2>1. ASSUME NEW w \in Log!Window, Log!QuerySeries(w)
        PROVE  metrics' \in Log!Metrics /\ SeriesInv'
    <3> DEFINE B == 0 .. MaxAt \div Bucket
               s == [b \in B |-> {r \in Log!LogWindow(w) : Log!Truncate(r.at) = b}]
    <3>1. metrics' = [stage |-> "series", window |-> w, series |-> s]
      BY <2>1 DEF Log!QuerySeries
    <3>2. s \in [B -> SUBSET Log!Row]
      BY <1>0, MatchingRows
    <3>3. /\ DOMAIN s = B
          /\ \A b \in B : /\ s[b] \subseteq Log!LogWindow(w)
                          /\ \A r \in s[b] : Log!Truncate(r.at) = b
      OBVIOUS
    <3>4. metrics' \in Log!Metrics
      <4> HIDE DEF s
      <4> QED
        BY <3>1, <3>2 DEF Log!Metrics
    <3>5. Log!LogWindow(metrics.window)' = Log!LogWindow(w)
      BY <1>1, <3>1 DEF Log!LogWindow
    <3>6. SeriesInv'
      <4>1. metrics'.stage = "series" /\ metrics'.series = s
        BY <3>1
      <4>2. \A time : Log!Truncate(time)' = Log!Truncate(time)
        BY DEF Log!Truncate
      <4> HIDE DEF s, B
      <4> QED
        BY <3>3, <3>5, <4>1, <4>2 DEF SeriesInv, Log!Truncate
    <3> QED
      BY <3>4, <3>6
  <2>2. CASE Log!QuerySummary
    <3>1. /\ metrics.stage = "series"
          /\ metrics' = [stage |-> "end", series |-> metrics.series,
                         total |-> Log!LogWindow(metrics.window)]
      BY <2>2 DEF Log!QuerySummary
    <3>2. metrics.series \in [0 .. MaxAt \div Bucket -> SUBSET Log!Row]
      BY <1>0, <3>1 DEF Log!Metrics, Log!Idle
    <3>3. metrics' \in Log!Metrics
      BY <1>0, <3>1, <3>2, MatchingRows DEF Log!Metrics
    <3>4. SeriesInv'
      BY <1>0, <3>1 DEF SeriesInv, Log!Truncate
    <3> QED
      BY <3>3, <3>4
  <2>3. CASE Log!QueryFails
    <3>1. CASE metrics' = Log!Idle
      BY <3>1 DEF Log!Metrics, SeriesInv, Log!Idle
    <3>2. CASE metrics' = metrics
      BY <1>0, <1>1, <3>2 DEF SeriesInv, Log!LogWindow, Log!Truncate
    <3> QED
      BY <2>3, <3>1, <3>2 DEF Log!QueryFails
  <2> QED
    BY <2>1, <2>2, <2>3
<1> QED
  BY <1>0, <1>1, <1>2, <1>3 DEF LogInv, Log!TypeOK

\* A row that arrives: what matched still does.
LEMMA ArriveKeeps ==
    ASSUME LogInv, NEW r \in Log!Row, Log!Arrive(r)
    PROVE  LogInv'
<1>1. logRows' = logRows \cup {r} /\ UNCHANGED <<view, walk, metrics>>
  BY DEF Log!Arrive
<1>2. IsFiniteSet(logRows')
  BY <1>1, FS_AddElement DEF LogInv
<1>3. Log!TypeOK'
  BY <1>1 DEF LogInv, Log!TypeOK
<1>4. WalkInv'
  <2>1. Log!Matching(walk.window) \subseteq Log!Matching(walk.window)'
    BY <1>1 DEF Log!LogWindow, Log!AuditWindow, Log!Matching
  <2> QED
    BY <1>1, <2>1 DEF LogInv, WalkInv
<1>5. SeriesInv'
  <2>1. Log!LogWindow(metrics.window) \subseteq Log!LogWindow(metrics.window)'
    BY <1>1 DEF Log!LogWindow
  <2> QED
    BY <1>1, <2>1 DEF LogInv, SeriesInv, Log!Truncate
<1> QED
  BY <1>2, <1>3, <1>4, <1>5 DEF LogInv

\* Every step of the queries, and of the rest of the console.
LEMMA LogInvStep ==
    ASSUME Log!LogQueriesAssumption
    PROVE  LogInv /\ [Log!Next]_logVars => LogInv'
<1> SUFFICES ASSUME LogInv, [Log!Next]_logVars
             PROVE  LogInv'
  OBVIOUS
<1>1. ASSUME \/ \E w \in Log!Window : Log!FirstPage(w)
             \/ Log!NextPage
             \/ Log!GarbledCursor
      PROVE  LogInv'
  <2>1. walk' \in Log!Walk /\ WalkInv'
    BY <1>1, PagesKeep
  <2>2. UNCHANGED <<view, logRows, metrics>>
    BY <1>1 DEF Log!FirstPage, Log!NextPage, Log!GarbledCursor
  <2>3. SeriesInv'
    BY <2>2 DEF LogInv, SeriesInv, Log!LogWindow, Log!Truncate
  <2> QED
    BY <2>1, <2>2, <2>3 DEF LogInv, Log!TypeOK
<1>2. CASE UNCHANGED logVars
  <2>1. UNCHANGED <<view, logRows, walk, metrics>>
    BY <1>2 DEF logVars
  <2>2. WalkInv'
    BY <2>1
       DEF LogInv, WalkInv, Log!Matching, Log!AuditWindow, Log!LogWindow
  <2>3. SeriesInv'
    BY <2>1 DEF LogInv, SeriesInv, Log!LogWindow, Log!Truncate
  <2> QED
    BY <2>1, <2>2, <2>3 DEF LogInv, Log!TypeOK
<1> QED
  BY <1>1, <1>2, ArriveKeeps, MetricsKeep DEF Log!Next

\* At the start there are no rows and nobody has asked.
LEMMA InitLogInv == Log!Init => LogInv
<1> SUFFICES ASSUME Log!Init
             PROVE  LogInv
  OBVIOUS
<1>1. IsFiniteSet(logRows)
  BY FS_EmptySet DEF Log!Init
<1> QED
  BY <1>1 DEF Log!Init, Log!Idle, LogInv, Log!TypeOK, WalkInv, SeriesInv,
              Log!Walk, Log!Metrics

----
(* The console, of which all are a part: its steps are a part's own or     *)
(* leave the part alone.                                                   *)

LEMMA PromptsPart == ConsoleSpec => PromptsSpec
<1>1. ConsoleInit => PromptsInit
  BY DEF ConsoleInit
<1>2. [ConsoleNext]_<<page, sessionVars, promptVars, tableVars, logVars>>
         => [PromptsNext]_promptVars
  BY DEF ConsoleNext
<1> QED
  BY <1>1, <1>2, PTL DEF ConsoleSpec, PromptsSpec

LEMMA TablesPart == ConsoleSpec => TablesSpec
<1>1. ConsoleInit => TablesInit
  BY DEF ConsoleInit
<1>2. [ConsoleNext]_<<page, sessionVars, promptVars, tableVars, logVars>>
         => [TablesNext]_tableVars
  BY DEF ConsoleNext
<1> QED
  BY <1>1, <1>2, PTL DEF ConsoleSpec, TablesSpec

\* The routes of console_config.go, as the server mounts them.
THEOREM ConfigurationCorrect ==
    ConsoleSpec => [](VersionsDense /\ AnsweredIsStored /\ DeletedStaysGone)
<1>1. PromptVersionsAssumption /\ ConfigTablesAssumption
  BY ConsoleAssumption
<1>2. PromptsSpec => []VersionsDense /\ []AnsweredIsStored
  BY <1>1, DenseCorrect, AnswersCorrect
<1>3. TablesSpec => []DeletedStaysGone
  BY <1>1, DeletionsHold
<1> QED
  BY <1>2, <1>3, PromptsPart, TablesPart, PTL

\* POST /admin/config/prompts, as the server mounts it, implements
\* VersionHistory.
THEOREM CreationCorrect == ConsoleSpec => CreatesAreAtomic
<1>1. PromptVersionsAssumption
  BY ConsoleAssumption
<1>2. PromptsSpec => CreatesAreAtomic
  BY <1>1, AtomicCorrect
<1> QED
  BY <1>2, PromptsPart

LEMMA LogPart == ConsoleSpec => Log!Init /\ [][Log!Next]_logVars
<1>1. ConsoleInit => Log!Init
  BY DEF ConsoleInit
<1>2. [ConsoleNext]_<<page, sessionVars, promptVars, tableVars, logVars>>
         => [Log!Next]_logVars
  BY DEF ConsoleNext
<1> QED
  BY <1>1, <1>2, PTL DEF ConsoleSpec

\* In every reachable state of the console the cursor divides what a walk has
\* shown from what it still has to show, and the points of a series count
\* rows that the summary will count too.
THEOREM LogInvCorrect == ConsoleSpec => []LogInv
<1>1. LogInv /\ [Log!Next]_logVars => LogInv'
  BY LogInvStep, ConsoleAssumption
<1> QED
  BY LogPart, InitLogInv, <1>1, PTL

\* The pages of GET /admin/audit and GET /admin/logs make up the whole, for
\* any page size, rows and windows, while rows arrive with any time.
THEOREM WalkCorrect == ConsoleSpec => []WalkComplete
<1>1. LogInv => WalkComplete
  <2> SUFFICES ASSUME LogInv, walk.stage # "idle"
               PROVE  /\ ~walk.twice
                      /\ walk.stage = "end" => walk.due \subseteq walk.shown
    BY DEF WalkComplete, Log!WalkComplete
  <2>1. walk.stage \in {"more", "end"}
    BY DEF LogInv, Log!TypeOK, Log!Walk, Log!Idle
  <2> QED
    BY <2>1 DEF LogInv, WalkInv
<1> QED
  BY LogInvCorrect, <1>1, PTL

\* handleMetrics: the points of the series never add up to more than the
\* total beside them, for any window, bucket and rows that arrive in between.
THEOREM SeriesCorrect == ConsoleSpec => []SeriesWithinSummary
<1>1. LogInv => SeriesWithinSummary
  <2> SUFFICES ASSUME LogInv, metrics.stage = "end",
                      NEW b \in DOMAIN metrics.series
               PROVE  /\ metrics.series[b] \subseteq metrics.total
                      /\ \A d \in DOMAIN metrics.series :
                            b # d => metrics.series[b] \cap metrics.series[d] = {}
    BY DEF SeriesWithinSummary, Log!SeriesWithinSummary
  <2> QED
    BY DEF LogInv, SeriesInv
<1> QED
  BY LogInvCorrect, <1>1, PTL

\* Every table, request, token and history of the console has its type in
\* every reachable state.
THEOREM ConsoleTypeCorrect == ConsoleSpec => []TypeOK
<1>1. /\ SessionsAssumption /\ PromptVersionsAssumption
      /\ ConfigTablesAssumption
  BY ConsoleAssumption
<1>2. SessionsSpec => []SessionsTypeOK
  BY <1>1, TypeCorrect
<1>3. PromptsSpec => []PromptsTypeOK
  BY <1>1, PromptsTypeCorrect
<1>4. TablesSpec => []TablesTypeOK
  BY <1>1, TablesTypeCorrect
<1>5. LogInv => Log!TypeOK
  BY DEF LogInv
<1>6. SessionsTypeOK /\ PromptsTypeOK /\ TablesTypeOK /\ Log!TypeOK => TypeOK
  BY DEF TypeOK
<1> QED
  BY <1>2, <1>3, <1>4, <1>5, <1>6, SessionsPart, PromptsPart, TablesPart,
     LogInvCorrect, PTL
====
