---- MODULE Sessions ----
(***************************************************************************)
(* Console sessions of one user: login, refresh and logout                 *)
(* (internal/server/api/auth_handler.go) over the tables users,            *)
(* user_entitlements and console_sessions, and the access tokens that they *)
(* hand out (internal/server/auth).                                        *)
(*                                                                         *)
(* An access token is never looked up: it is good until it expires.  A     *)
(* handler reads the session, the user and the permissions in statements   *)
(* of their own, and what it read may have changed by the time it signs.   *)
(* A session stands for its refresh token, its hash and its row; clients   *)
(* hold refresh tokens in cookies.  Times are ages: of a session since its *)
(* row was made, of a token since it was signed, of what happened since.   *)
(***************************************************************************)
EXTENDS Naturals

CONSTANTS
    Calls,         \* requests being handled at a time
    SessionIds,    \* refresh tokens
    NoSession,
    SessionTTL,    \* 7 days
    TokenTTL,      \* 15 minutes
    MaxStall,      \* bound: how long a request is under way
    MaxAge,        \* bound: ages are not told apart from here on
    MaxPerms       \* bound: versions of the user's permissions

\* Assumed by Console, which extends this module.
SessionsAssumption ==
    /\ NoSession \notin SessionIds
    /\ {SessionTTL, TokenTTL, MaxStall, MaxAge} \subseteq Nat
    /\ MaxPerms \in Nat \ {0}
    /\ MaxAge > MaxStall + SessionTTL + MaxStall + TokenTTL

VARIABLES
    status,       \* users.status, or "removed": no such row
    perms,        \* user_entitlements.permissions, by their version
    sessions,     \* console_sessions
    call,         \* where each request stands
    held,         \* refresh tokens in the clients' cookies
    tokens,       \* an access token, while it is good: any one of those
                  \* signed, the properties being about each of them
    ended,        \* history: sessions deleted
    replaced,     \* history: versions of the permissions replaced
    inactive      \* history: since when the user is not active, if he is not

sessionVars == <<status, perms, sessions, call, held, tokens, ended, replaced,
          inactive>>
userTables == <<status, perms, sessions>>
history == <<ended, replaced, inactive>>

\* The permissions of a token when they could not be loaded: none.
NoPerms == 0

Age == 0 .. MaxAge
\* Beyond this age, a session that was deleted or a version that was replaced
\* is only known to be older.
Remembered == MaxStall + TokenTTL + 1

Session == [id : SessionIds, age : Age]
Issued == [session : SessionIds, perms : 0 .. MaxPerms, age : 0 .. TokenTTL]
Ended == [session : SessionIds, age : 0 .. Remembered]
Replaced == [perms : 1 .. MaxPerms, age : 0 .. Remembered]

\* "age" is how long the request has been under way.
Stage ==
    {"idle", "checked", "loaded", "created",
     "session", "user", "granted", "logout"}
Call == [stage : Stage, age : 0 .. MaxStall,
         session : SessionIds \cup {NoSession}, perms : 0 .. MaxPerms]
Begin(stage, id) ==
    [stage |-> stage, age |-> 0, session |-> id, perms |-> NoPerms]
Idle == Begin("idle", NoSession)

Busy(c) == call[c].stage # "idle"
Goto(c, next) == call' = [call EXCEPT ![c] = next]

\* JWTService.Sign: the new token takes the place of the one that is
\* followed, or it does not.
Sign(id, p) ==
    \/ tokens' = {[session |-> id, perms |-> p, age |-> 0]}
    \/ UNCHANGED tokens

\* JWTService.Validate, and a variant that grants an expired token a grace.
BadValidate(t) == t.age <= TokenTTL + 1
Validate(t) == t.age <= TokenTTL

\* loadPerms: whatever goes wrong, the token has no permissions.
LoadedPerms == {NoPerms} \cup (IF status = "removed" THEN {} ELSE {perms})
LoadPerms(c, next) ==
    \E p \in LoadedPerms :
       Goto(c, [call[c] EXCEPT !.stage = next, !.perms = p])

SessionsInit ==
    /\ status = "active"
    /\ perms = 1
    /\ sessions = {} /\ held = {} /\ tokens = {}
    /\ call = [c \in Calls |-> Idle]
    /\ ended = {} /\ replaced = {} /\ inactive = {}

----
(* handleLogin.  The definitions "Bad..." are faulty variants of those     *)
(* that follow them, no part of the specification: they show that the      *)
(* properties can fail.                                                    *)

\* Any user whose password is right may log in.
BadLoginCheck(c) ==
    /\ ~Busy(c)
    /\ status # "removed"
    /\ Goto(c, Begin("checked", NoSession))
    /\ UNCHANGED <<userTables, held, tokens, history>>

\* findUserByEmail, the status and the password.  A login that is refused
\* changes nothing.
LoginCheck(c) ==
    /\ ~Busy(c)
    /\ status = "active"
    /\ Goto(c, Begin("checked", NoSession))
    /\ UNCHANGED <<userTables, held, tokens, history>>

LoginPerms(c) ==
    /\ call[c].stage = "checked"
    /\ LoadPerms(c, "loaded")
    /\ UNCHANGED <<userTables, held, tokens, history>>

\* GenerateRefreshToken: nothing knows the new one.
Fresh(id) ==
    /\ \A s \in sessions : s.id # id
    /\ \A e \in ended : e.session # id
    /\ \A t \in tokens : t.session # id
    /\ \A c \in Calls : call[c].session # id
    /\ id \notin held

\* Sign and ConsoleSessionRepository.Create; without its user the row is
\* refused by the foreign key.
CreateRow(c, id) ==
    /\ call[c].stage = "loaded"
    /\ status # "removed"
    /\ Fresh(id)
    /\ sessions' = sessions \cup {[id |-> id, age |-> 0]}

LoginCreate(c, id) ==
    /\ CreateRow(c, id)
    /\ Sign(id, call[c].perms)
    /\ Goto(c, [call[c] EXCEPT !.stage = "created", !.session = id])
    /\ UNCHANGED <<status, perms, held, history>>

\* Status 500, but the row is there: a session that nobody can use.
LoginCreateAmbiguous(c, id) ==
    /\ CreateRow(c, id)
    /\ Goto(c, Idle)
    /\ UNCHANGED <<status, perms, held, tokens, history>>

LoginReply(c) ==
    /\ call[c].stage = "created"
    /\ held' = held \cup {call[c].session}
    /\ Goto(c, Idle)
    /\ UNCHANGED <<userTables, tokens, history>>

----
(* handleRefresh: it looks at the session and at whether the user exists,  *)
(* not at his status.                                                      *)

\* FindByTokenHash without the condition on expires_at.
BadFindByTokenHash(id) == {s \in sessions : s.id = id}

FindByTokenHash(id) == {s \in sessions : s.id = id /\ s.age < SessionTTL}

RefreshSession(c, id) ==
    /\ ~Busy(c)
    /\ id \in held
    /\ FindByTokenHash(id) # {}
    /\ Goto(c, Begin("session", id))
    /\ UNCHANGED <<userTables, held, tokens, history>>

\* UserRepository.FindByID
RefreshUser(c) ==
    /\ call[c].stage = "session"
    /\ status # "removed"
    /\ Goto(c, [call[c] EXCEPT !.stage = "user"])
    /\ UNCHANGED <<userTables, held, tokens, history>>

\* The claims of the last access token are signed again.
BadRefreshPerms(c) ==
    /\ call[c].stage = "user"
    /\ \E t \in tokens :
          Goto(c, [call[c] EXCEPT !.stage = "granted", !.perms = t.perms])
    /\ UNCHANGED <<userTables, held, tokens, history>>

RefreshPerms(c) ==
    /\ call[c].stage = "user"
    /\ LoadPerms(c, "granted")
    /\ UNCHANGED <<userTables, held, tokens, history>>

RefreshReply(c) ==
    /\ call[c].stage = "granted"
    /\ Sign(call[c].session, call[c].perms)
    /\ Goto(c, Idle)
    /\ UNCHANGED <<userTables, held, history>>

----
(* handleLogout.  The cookie is cleared whatever happens to the row.  A    *)
(* request without the cookie changes nothing: browsers keep this one for  *)
(* the path /auth/refresh and do not send it here.                         *)

LogoutSession(c, id) ==
    /\ ~Busy(c)
    /\ id \in held
    /\ FindByTokenHash(id) # {}
    /\ Goto(c, Begin("logout", id))
    /\ UNCHANGED <<userTables, held, tokens, history>>

LogoutUnknown(id) ==
    /\ id \in held
    /\ FindByTokenHash(id) = {}
    /\ held' = held \ {id}
    /\ UNCHANGED <<userTables, call, tokens, history>>

End(gone) ==
    /\ sessions' = sessions \ gone
    /\ ended' = ended \cup {[session |-> s.id, age |-> 0] : s \in gone}

LogoutDelete(c) ==
    /\ call[c].stage = "logout"
    /\ End({s \in sessions : s.id = call[c].session})
    /\ held' = held \ {call[c].session}
    /\ Goto(c, Idle)
    /\ UNCHANGED <<status, perms, tokens, replaced, inactive>>

\* The DELETE fails: logged, and the client believes that it is logged out.
LogoutDeleteFails(c) ==
    /\ call[c].stage = "logout"
    /\ held' = held \ {call[c].session}
    /\ Goto(c, Idle)
    /\ UNCHANGED <<userTables, tokens, history>>

\* An error of a statement, a client that left, or a reply that is lost.
Abandon(c) ==
    /\ Busy(c)
    /\ Goto(c, Idle)
    /\ UNCHANGED <<userTables, held, tokens, history>>

----
(* What happens to the user meanwhile, and time.                           *)

\* cmd/seed writes the permissions again, or somebody does so in the database;
\* no column that the admin API may update holds them.
ChangePerms ==
    /\ status # "removed"
    /\ perms < MaxPerms
    /\ perms' = perms + 1
    /\ replaced' = replaced \cup {[perms |-> perms, age |-> 0]}
    /\ UNCHANGED <<status, sessions, call, held, tokens, ended, inactive>>

\* By hand, in the database.
Suspend ==
    /\ status = "active"
    /\ status' = "suspended"
    /\ inactive' = {[age |-> 0]}
    /\ UNCHANGED <<perms, sessions, call, held, tokens, ended, replaced>>

\* insertUser of a seed: ON CONFLICT DO UPDATE .. status = 'active'.
Reactivate ==
    /\ status = "suspended"
    /\ status' = "active"
    /\ inactive' = {}
    /\ UNCHANGED <<perms, sessions, call, held, tokens, ended, replaced>>

\* By hand, in the database: ON DELETE CASCADE.
Remove ==
    /\ status # "removed"
    /\ status' = "removed"
    /\ inactive' = IF inactive = {} THEN {[age |-> 0]} ELSE inactive
    /\ End(sessions)
    /\ UNCHANGED <<perms, call, held, tokens, replaced>>

Older(S, most) ==
    {[x EXCEPT !.age = IF @ < most THEN @ + 1 ELSE @] : x \in S}

Tick ==
    /\ \A c \in Calls : Busy(c) => call[c].age < MaxStall
    /\ call' = [c \in Calls |-> IF Busy(c) THEN [call[c] EXCEPT !.age = @ + 1]
                                ELSE call[c]]
    /\ sessions' = Older(sessions, MaxAge)
    /\ tokens' = {t \in Older(tokens, MaxAge) : Validate(t)}
    /\ ended' = Older(ended, Remembered)
    /\ replaced' = Older(replaced, Remembered)
    /\ inactive' = Older(inactive, MaxAge)
    /\ UNCHANGED <<status, perms, held>>

SessionsNext ==
    \/ \E c \in Calls :
          \/ LoginCheck(c) \/ LoginPerms(c) \/ LoginReply(c)
          \/ RefreshUser(c) \/ RefreshPerms(c) \/ RefreshReply(c)
          \/ LogoutDelete(c) \/ LogoutDeleteFails(c) \/ Abandon(c)
          \/ \E id \in SessionIds :
                \/ LoginCreate(c, id) \/ LoginCreateAmbiguous(c, id)
                \/ RefreshSession(c, id) \/ LogoutSession(c, id)
    \/ \E id \in SessionIds : LogoutUnknown(id)
    \/ ChangePerms \/ Suspend \/ Reactivate \/ Remove
    \/ Tick

SessionsSpec == SessionsInit /\ [][SessionsNext]_sessionVars

----
(* What a login, a logout and a suspension are worth.                      *)

SessionsTypeOK ==
    /\ status \in {"active", "suspended", "removed"}
    /\ perms \in 1 .. MaxPerms
    /\ sessions \subseteq Session
    /\ call \in [Calls -> Call]
    /\ held \subseteq SessionIds
    /\ tokens \subseteq Issued
    /\ ended \subseteq Ended
    /\ replaced \subseteq Replaced
    /\ inactive \subseteq [age : Age]

\* Nothing of a session outlives its end, by logout, by expiry or with its
\* user, by more than an access token and a request that was under way.
EndedStaysEnded ==
    \A t \in tokens :
       /\ \A e \in ended :
             e.session = t.session => e.age <= MaxStall + TokenTTL
       /\ \A s \in sessions :
             s.id = t.session => s.age <= SessionTTL + MaxStall + TokenTTL

\* An access token carries permissions that the user had at most a token's
\* life and a request ago, or none.
PermsFollow ==
    \A t \in tokens :
       \/ t.perms \in {NoPerms, perms}
       \/ \E r \in replaced : r.perms = t.perms /\ r.age <= MaxStall + TokenTTL

\* A user who is not active holds no access token once the sessions that he
\* had, or was opening, have run out: no login renews them.
SuspensionHolds ==
    \A t \in tokens, i \in inactive :
       i.age <= MaxStall + SessionTTL + MaxStall + TokenTTL
====
