---- MODULE SessionsProofs ----
(***************************************************************************)
(* What ends with a session, a suspension or a change of permissions, for  *)
(* any number of requests and sessions and any lifetimes.                  *)
(*                                                                         *)
(* A token must be traced back to the statement that justified it, through *)
(* the request that signed it: what the request found (a session that was  *)
(* good, a user who was active, permissions that were current) was so when *)
(* the request began or later, so it went wrong at most as long ago as the *)
(* request is under way; a token inherits that from its request.           *)
(***************************************************************************)
EXTENDS Console, TLAPS

\* What is known of permissions that were loaded at most "limit" ago.
Backed(p, limit) ==
    \/ p \in {NoPerms, perms}
    \/ \E r \in replaced : r.perms = p /\ r.age <= limit

\* A row of console_sessions is the only one of its session, which was not
\* ended, and was made at most a request after a login was let in.
Rows ==
    /\ \A s \in sessions : \A r \in sessions : r.id = s.id => r = s
    /\ \A s \in sessions : \A e \in ended : e.session # s.id
    /\ \A s \in sessions : \A i \in inactive : i.age <= s.age + MaxStall

\* A request that has a session names it.
Named(r) == r.stage \notin {"idle", "checked", "loaded"} => r.session \in SessionIds

\* A request that was let in, that found its session, and that loaded
\* permissions, at most as long ago as it is under way.
LettingIn(r) ==
    r.stage \in {"checked", "loaded"} => \A i \in inactive : i.age <= r.age

Refreshing(r) ==
    r.stage \in {"session", "user", "granted"} =>
       /\ \A e \in ended : e.session = r.session => e.age <= r.age
       /\ \A s \in sessions : s.id = r.session => s.age <= r.age + SessionTTL
       /\ \A i \in inactive : i.age <= r.age + SessionTTL + MaxStall

Loaded(r) == r.stage \in {"loaded", "granted"} => Backed(r.perms, r.age)

\* And a token was signed by such a request.
Signed(t) ==
    /\ \A e \in ended :
          e.session = t.session => e.age <= t.age + MaxStall
    /\ \A s \in sessions :
          s.id = t.session => s.age <= t.age + MaxStall + SessionTTL
    /\ \A i \in inactive : i.age <= t.age + MaxStall + SessionTTL + MaxStall
    /\ Backed(t.perms, t.age + MaxStall)

Inv ==
    /\ SessionsTypeOK
    /\ status = "active" => inactive = {}
    /\ Rows
    /\ \A c \in Calls :
          /\ Named(call[c])
          /\ LettingIn(call[c]) /\ Refreshing(call[c]) /\ Loaded(call[c])
    /\ \A t \in tokens : Signed(t)

----
LEMMA Bounds ==
    ASSUME SessionsAssumption
    PROVE  /\ SessionTTL \in Nat /\ TokenTTL \in Nat /\ MaxStall \in Nat
           /\ MaxAge \in Nat /\ MaxPerms \in Nat \ {0}
           /\ MaxAge > MaxStall + SessionTTL + MaxStall + TokenTTL
           /\ MaxAge > TokenTTL
           /\ NoSession \notin SessionIds
<1>1. /\ SessionTTL \in Nat /\ TokenTTL \in Nat /\ MaxStall \in Nat
      /\ MaxAge \in Nat /\ MaxPerms \in Nat \ {0}
      /\ MaxAge > MaxStall + SessionTTL + MaxStall + TokenTTL
      /\ NoSession \notin SessionIds
  BY DEF SessionsAssumption
<1>2. QED
  BY <1>1

LEMMA Ages ==
    ASSUME SessionsAssumption, SessionsTypeOK
    PROVE  /\ \A s \in sessions : s.age \in Nat /\ s.id \in SessionIds
           /\ \A e \in ended : e.age \in Nat
           /\ \A r \in replaced : r.age \in Nat
           /\ \A i \in inactive : i.age \in Nat
           /\ \A t \in tokens : t.age \in Nat /\ t.age <= TokenTTL
           /\ \A c \in Calls : /\ call[c] \in Call
                               /\ call[c].age \in Nat /\ call[c].age <= MaxStall
<1> USE Bounds DEF SessionsTypeOK
<1>1. \A s \in sessions : s.age \in Nat /\ s.id \in SessionIds
  BY DEF Session, Age
<1>2. \A e \in ended : e.age \in Nat
  BY DEF Ended, Remembered
<1>3. \A r \in replaced : r.age \in Nat
  BY DEF Replaced, Remembered
<1>4. \A i \in inactive : i.age \in Nat
  BY DEF Age
<1>5. \A t \in tokens : t.age \in Nat /\ t.age <= TokenTTL
  BY DEF Issued
<1>6. \A c \in Calls : /\ call[c] \in Call
                       /\ call[c].age \in Nat /\ call[c].age <= MaxStall
  BY DEF Call
<1>7. QED
  BY <1>1, <1>2, <1>3, <1>4, <1>5, <1>6

LEMMA IdleCall ==
    ASSUME SessionsAssumption
    PROVE  Idle \in Call /\ Idle.stage = "idle"
  BY Bounds DEF Idle, Begin, Call, Stage, NoPerms

LEMMA InitInv ==
    ASSUME SessionsAssumption
    PROVE  SessionsInit => Inv
<1> SUFFICES ASSUME SessionsInit
             PROVE  Inv
  OBVIOUS
<1>1. SessionsTypeOK
  BY Bounds, IdleCall DEF SessionsInit, SessionsTypeOK
<1>2. QED
  BY <1>1, IdleCall DEF SessionsInit, Inv, Rows, Named, LettingIn, Refreshing, Loaded

----
\* A request goes on: it found, or loaded, what its stage says.
LEMMA CallKeeps ==
    ASSUME SessionsAssumption, Inv, NEW c \in Calls, NEW next \in Call,
           Goto(c, next), UNCHANGED <<userTables, held, tokens, history>>,
           Named(next), LettingIn(next), Refreshing(next), Loaded(next)
    PROVE  Inv'
<1> USE DEF Inv
<1>1. /\ status' = status /\ perms' = perms /\ sessions' = sessions
      /\ held' = held /\ tokens' = tokens /\ ended' = ended
      /\ replaced' = replaced /\ inactive' = inactive
  BY DEF userTables, history
<1>2. \A d \in Calls : call'[d] = IF d = c THEN next ELSE call[d]
  BY DEF Goto, SessionsTypeOK
<1>3. SessionsTypeOK'
  BY <1>1 DEF Goto, SessionsTypeOK
<1>4. \A d \in Calls :
         /\ Named(call'[d])
         /\ LettingIn(call'[d]) /\ Refreshing(call'[d]) /\ Loaded(call'[d])
  BY <1>2
<1>5. (\A d \in Calls :
          /\ Named(call[d])
          /\ LettingIn(call[d]) /\ Refreshing(call[d]) /\ Loaded(call[d]))'
  BY <1>1, <1>4 DEF Named, LettingIn, Refreshing, Loaded, Backed
<1>6. (\A t \in tokens : Signed(t))' /\ Rows'
  BY <1>1 DEF Signed, Rows, Backed
<1>7. QED
  BY <1>1, <1>3, <1>5, <1>6

\* Sessions end, requests are given up, the user is suspended or active
\* again: nothing new is found, loaded or signed.
LEMMA LossKeeps ==
    ASSUME SessionsAssumption, Inv, NEW gone \in SUBSET sessions, End(gone),
           \A s \in gone : \A r \in sessions \ gone : r.id # s.id,
           status' \in {"active", "suspended", "removed"},
           status' = "active" => inactive' = {},
           inactive' \subseteq inactive \cup {[age |-> 0]},
           call' \in [Calls -> Call],
           \A d \in Calls : call'[d] = call[d] \/ call'[d].stage = "idle",
           held' \subseteq SessionIds,
           UNCHANGED <<perms, tokens, replaced>>
    PROVE  Inv'
<1> USE DEF Inv
<1>1. /\ sessions' \subseteq sessions
      /\ \A e \in ended' :
            \/ e \in ended
            \/ e.age = 0 /\ \A r \in sessions' : r.id # e.session
  BY DEF End
<1>2. ended' \subseteq Ended
  BY Bounds, Ages DEF End, Ended, Remembered, SessionsTypeOK
<1>3. \A i \in inactive' : i \in inactive \/ i.age = 0
  OBVIOUS
<1>4. inactive' \subseteq [age : Age]
  BY Bounds DEF SessionsTypeOK, Age
<1>5. SessionsTypeOK'
  BY <1>1, <1>2, <1>4 DEF SessionsTypeOK
<1>6. Rows'
  BY <1>1, <1>3, Bounds, Ages DEF Rows
<1>7. ASSUME NEW d \in Calls
      PROVE  (/\ Named(call[d])
              /\ LettingIn(call[d]) /\ Refreshing(call[d]) /\ Loaded(call[d]))'
  <2>1. CASE call'[d].stage = "idle"
    BY <2>1 DEF Named, LettingIn, Refreshing, Loaded
  <2>2. CASE call'[d] = call[d]
    <3>1. LettingIn(call[d])'
      BY <1>3, <2>2, Ages DEF LettingIn
    <3>2. Refreshing(call[d])'
      BY <1>1, <1>3, <2>2, Bounds, Ages DEF Refreshing
    <3>3. Loaded(call[d])' /\ Named(call[d])'
      BY <2>2 DEF Loaded, Backed, Named
    <3>4. QED
      BY <3>1, <3>2, <3>3
  <2>3. QED
    BY <2>1, <2>2
<1>8. ASSUME NEW t \in tokens
      PROVE  Signed(t)'
  BY <1>1, <1>3, Bounds, Ages DEF Signed, Backed
<1>9. QED
  BY <1>5, <1>6, <1>7, <1>8

\* Tokens that are signed when nothing else changes but the request.
LEMMA SignKeeps ==
    ASSUME SessionsAssumption, Inv, NEW id \in SessionIds,
           NEW p \in 0 .. MaxPerms, Sign(id, p),
           Signed([session |-> id, perms |-> p, age |-> 0])
    PROVE  tokens' \subseteq Issued /\ \A t \in tokens' : Signed(t)
<1>1. [session |-> id, perms |-> p, age |-> 0] \in Issued
  BY Bounds DEF Issued
<1>2. QED
  BY <1>1 DEF Sign, Inv, SessionsTypeOK

----
\* handleLogin: the row is new to everybody, and the token as good as the
\* login.
LEMMA CreateKeeps ==
    ASSUME SessionsAssumption, Inv, NEW c \in Calls, NEW id \in SessionIds,
           LoginCreate(c, id) \/ LoginCreateAmbiguous(c, id)
    PROVE  Inv'
<1> USE DEF Inv
<1> DEFINE row == [id |-> id, age |-> 0]
<1>1. /\ call[c].stage = "loaded" /\ Fresh(id)
      /\ sessions' = sessions \cup {row}
      /\ status' = status /\ perms' = perms /\ held' = held
      /\ ended' = ended /\ replaced' = replaced /\ inactive' = inactive
      /\ Sign(id, call[c].perms)
  BY DEF LoginCreate, LoginCreateAmbiguous, CreateRow, history, Sign
<1>2. call[c].perms \in 0 .. MaxPerms /\ call[c].age <= MaxStall
  BY Ages DEF Call
<1>3. PICK next \in {Idle, [call[c] EXCEPT !.stage = "created",
                                           !.session = id]} :
         call' = [call EXCEPT ![c] = next]
  BY DEF LoginCreate, LoginCreateAmbiguous, Goto
<1>4. next \in Call /\ next.stage \in {"idle", "created"}
  BY <1>3, Ages, IdleCall DEF Call, Stage
<1>5. \A d \in Calls : call'[d] = IF d = c THEN next ELSE call[d]
  BY <1>3 DEF SessionsTypeOK
<1>6. \A s \in sessions' : s \in sessions \/ (s.id = id /\ s.age = 0)
  BY <1>1
<1>7. \A i \in inactive : i.age <= MaxStall
  BY <1>1, <1>2, Bounds, Ages DEF LettingIn
<1>8. Signed([session |-> id, perms |-> call[c].perms, age |-> 0])
  <2>1. Backed(call[c].perms, 0 + MaxStall)
    BY <1>1, <1>2, Bounds, Ages DEF Loaded, Backed
  <2>2. \A i \in inactive : i.age <= 0 + MaxStall + SessionTTL + MaxStall
    BY <1>7, Bounds, Ages
  <2>3. QED
    BY <1>1, <2>1, <2>2 DEF Signed, Fresh
<1>9. tokens' \subseteq Issued /\ \A t \in tokens' : Signed(t)
  BY <1>1, <1>2, <1>8, SignKeeps
<1>10. SessionsTypeOK'
  BY <1>1, <1>3, <1>4, <1>9, Bounds DEF SessionsTypeOK, Session, Age
<1>11. Rows'
  <2>1. \A s \in sessions' : \A r \in sessions' : r.id = s.id => r = s
    BY <1>1 DEF Rows, Fresh
  <2>2. \A s \in sessions' : \A e \in ended : e.session # s.id
    BY <1>1 DEF Rows, Fresh
  <2>3. \A s \in sessions' : \A i \in inactive : i.age <= s.age + MaxStall
    BY <1>6, <1>7, Bounds DEF Rows
  <2>4. QED
    BY <1>1, <2>1, <2>2, <2>3 DEF Rows
<1>12. ASSUME NEW d \in Calls
       PROVE  (/\ Named(call[d])
               /\ LettingIn(call[d]) /\ Refreshing(call[d]) /\ Loaded(call[d]))'
  <2>1. CASE d = c
    BY <1>3, <1>4, <1>5, <2>1, Ages, IdleCall DEF Call, Named, LettingIn, Refreshing, Loaded
  <2>2. CASE d # c
    <3>1. call'[d] = call[d] /\ call[d].session # id
      BY <1>1, <1>5, <2>2 DEF Fresh
    <3>2. Refreshing(call[d])'
      BY <1>1, <1>6, <3>1 DEF Refreshing
    <3>3. Named(call[d])' /\ LettingIn(call[d])' /\ Loaded(call[d])'
      BY <1>1, <3>1 DEF Named, LettingIn, Loaded, Backed
    <3>4. QED
      BY <3>2, <3>3
  <2>3. QED
    BY <2>1, <2>2
<1>13. ASSUME NEW t \in tokens'
       PROVE  Signed(t)'
  <2>1. Signed(t)
    BY <1>9
  <2>2. t.session = id \/ t \in tokens
    BY <1>1 DEF Sign
  <2>3. t \in tokens => t.session # id
    BY <1>1 DEF Fresh
  <2>4. t.age \in Nat
    BY <1>9, Bounds DEF Issued
  <2>5. \A s \in sessions' :
           s.id = t.session => s.age <= t.age + MaxStall + SessionTTL
    BY <1>6, <2>1, <2>4, Bounds DEF Signed
  <2>6. QED
    BY <1>1, <2>1, <2>5 DEF Signed, Backed
<1>14. QED
  BY <1>1, <1>10, <1>11, <1>12, <1>13

\* handleRefresh ends.
LEMMA ReplyKeeps ==
    ASSUME SessionsAssumption, Inv, NEW c \in Calls, RefreshReply(c)
    PROVE  Inv'
<1> USE DEF Inv
<1>1. /\ call[c].stage = "granted" /\ Sign(call[c].session, call[c].perms)
      /\ call' = [call EXCEPT ![c] = Idle]
      /\ status' = status /\ perms' = perms /\ sessions' = sessions
      /\ held' = held /\ ended' = ended /\ replaced' = replaced
      /\ inactive' = inactive
  BY DEF RefreshReply, Goto, userTables, history
<1>2. /\ call[c].perms \in 0 .. MaxPerms /\ call[c].age \in Nat
      /\ call[c].age <= MaxStall
  BY Ages DEF Call
<1>3. ASSUME NEW t, t = [session |-> call[c].session, perms |-> call[c].perms,
                         age |-> 0]
      PROVE  Signed(t)
  <2>1. /\ \A e \in ended : e.session = t.session => e.age <= t.age + MaxStall
        /\ \A s \in sessions :
              s.id = t.session => s.age <= t.age + MaxStall + SessionTTL
        /\ \A i \in inactive :
              i.age <= t.age + MaxStall + SessionTTL + MaxStall
    BY <1>1, <1>2, <1>3, Bounds, Ages DEF Refreshing
  <2>2. Backed(t.perms, t.age + MaxStall)
    BY <1>1, <1>2, <1>3, Bounds, Ages DEF Loaded, Backed
  <2>3. QED
    BY <2>1, <2>2 DEF Signed
<1>4. tokens' \subseteq Issued /\ \A t \in tokens' : Signed(t)
  BY <1>1, <1>2, <1>3, SignKeeps DEF Named
<1>5. \A d \in Calls : call'[d] = call[d] \/ call'[d] = Idle
  BY <1>1 DEF SessionsTypeOK
<1>6. SessionsTypeOK'
  BY <1>1, <1>4, IdleCall DEF SessionsTypeOK
<1>7. (\A d \in Calls :
          /\ Named(call[d])
          /\ LettingIn(call[d]) /\ Refreshing(call[d]) /\ Loaded(call[d]))'
  BY <1>1, <1>5, IdleCall DEF Named, LettingIn, Refreshing, Loaded, Backed
<1>8. (\A t \in tokens : Signed(t))'
  BY <1>1, <1>4 DEF Signed, Backed
<1>9. QED
  BY <1>1, <1>6, <1>7, <1>8 DEF Rows

\* What was loaded is current, or replaced just now.
LEMMA ChangeKeeps ==
    ASSUME SessionsAssumption, Inv, ChangePerms
    PROVE  Inv'
<1> USE DEF Inv
<1>1. /\ status' = status /\ sessions' = sessions /\ call' = call
      /\ held' = held /\ tokens' = tokens /\ ended' = ended
      /\ inactive' = inactive
      /\ perms < MaxPerms /\ perms' = perms + 1
      /\ replaced' = replaced \cup {[perms |-> perms, age |-> 0]}
  BY DEF ChangePerms
<1>2. SessionsTypeOK'
  BY <1>1, Bounds DEF SessionsTypeOK, Replaced, Remembered
<1>3. \A p : \A limit \in Nat : Backed(p, limit) => Backed(p, limit)'
  <2> SUFFICES ASSUME NEW p, NEW limit \in Nat, Backed(p, limit)
               PROVE  Backed(p, limit)'
    OBVIOUS
  <2> DEFINE r == [perms |-> perms, age |-> 0]
  <2>1. r \in replaced' /\ r.perms = perms /\ r.age <= limit
    BY <1>1
  <2>2. QED
    BY <1>1, <2>1 DEF Backed
<1>4. (\A c \in Calls : Loaded(call[c]))'
  BY <1>1, <1>3, Ages DEF Loaded
<1>5. (\A c \in Calls :
          Named(call[c]) /\ LettingIn(call[c]) /\ Refreshing(call[c]))'
  BY <1>1 DEF Named, LettingIn, Refreshing
<1>6. ASSUME NEW t \in tokens
      PROVE  Signed(t)'
  <2>1. t.age + MaxStall \in Nat
    BY Bounds, Ages
  <2>2. QED
    BY <1>1, <1>3, <2>1 DEF Signed
<1>7. QED
  BY <1>1, <1>2, <1>4, <1>5, <1>6 DEF Rows

----
(* A unit of time.                                                         *)

\* An age that does not pass its limit, beside one that grows.
LEMMA Grows ==
    ASSUME NEW a \in Nat, NEW b \in Nat, NEW d \in Nat, NEW x \in Nat,
           a <= b + d, x \in {a, a + 1}
    PROVE  x <= (b + 1) + d
  OBVIOUS

LEMMA TickKeeps ==
    ASSUME SessionsAssumption, Inv, Tick
    PROVE  Inv'
<1> USE DEF Inv
<1>1. /\ status' = status /\ perms' = perms /\ held' = held
      /\ \A c \in Calls : Busy(c) => call[c].age < MaxStall
      /\ call' = [c \in Calls |-> IF Busy(c) THEN [call[c] EXCEPT !.age = @ + 1]
                                  ELSE call[c]]
      /\ sessions' = Older(sessions, MaxAge)
      /\ tokens' = {t \in Older(tokens, MaxAge) : Validate(t)}
      /\ ended' = Older(ended, Remembered)
      /\ replaced' = Older(replaced, Remembered)
      /\ inactive' = Older(inactive, MaxAge)
  BY DEF Tick
<1>2. ASSUME NEW s \in sessions'
      PROVE  \E r \in sessions :
                /\ s = [r EXCEPT !.age = IF @ < MaxAge THEN @ + 1 ELSE @]
                /\ s \in Session /\ s.id = r.id /\ s.age \in {r.age, r.age + 1}
                /\ s.age = r.age + 1 \/ s.age = MaxAge
  <2>1. PICK r \in sessions :
           s = [r EXCEPT !.age = IF @ < MaxAge THEN @ + 1 ELSE @]
    BY <1>1 DEF Older
  <2>2. r \in Session
    BY DEF SessionsTypeOK
  <2>3. QED
    BY <2>1, <2>2, Bounds DEF Session, Age
<1>3. ASSUME NEW e \in ended'
      PROVE  \E d \in ended : /\ e \in Ended /\ e.session = d.session
                             /\ e.age \in {d.age, d.age + 1}
  <2>1. PICK d \in ended :
           e = [d EXCEPT !.age = IF @ < Remembered THEN @ + 1 ELSE @]
    BY <1>1 DEF Older
  <2>2. d \in Ended
    BY DEF SessionsTypeOK
  <2>3. QED
    BY <2>1, <2>2, Bounds DEF Ended, Remembered
<1>4. ASSUME NEW r \in replaced
      PROVE  \E q \in replaced' : q.perms = r.perms /\ q.age <= r.age + 1
  <2> DEFINE q == [r EXCEPT !.age = IF @ < Remembered THEN @ + 1 ELSE @]
  <2>1. q \in replaced'
    BY <1>1 DEF Older
  <2>2. r \in Replaced
    BY DEF SessionsTypeOK
  <2>3. q.perms = r.perms /\ q.age <= r.age + 1
    BY <2>2, Bounds DEF Replaced, Remembered
  <2>4. QED
    BY <2>1, <2>3
<1>5. replaced' \subseteq Replaced
  <2> SUFFICES ASSUME NEW q \in replaced'
               PROVE  q \in Replaced
    OBVIOUS
  <2>1. PICK r \in replaced :
           q = [r EXCEPT !.age = IF @ < Remembered THEN @ + 1 ELSE @]
    BY <1>1 DEF Older
  <2>2. r \in Replaced
    BY DEF SessionsTypeOK
  <2>3. QED
    BY <2>1, <2>2, Bounds DEF Replaced, Remembered
<1>6. ASSUME NEW i \in inactive'
      PROVE  \E j \in inactive : i \in [age : Age] /\ i.age \in {j.age, j.age + 1}
  <2>1. PICK j \in inactive :
           i = [j EXCEPT !.age = IF @ < MaxAge THEN @ + 1 ELSE @]
    BY <1>1 DEF Older
  <2>2. j \in [age : Age]
    BY DEF SessionsTypeOK
  <2>3. QED
    BY <2>1, <2>2, Bounds DEF Age
<1>7. ASSUME NEW t \in tokens'
      PROVE  \E u \in tokens : /\ t \in Issued /\ t.session = u.session
                              /\ t.perms = u.perms /\ t.age = u.age + 1
  <2>1. PICK u \in tokens :
           t = [u EXCEPT !.age = IF @ < MaxAge THEN @ + 1 ELSE @]
    BY <1>1 DEF Older
  <2>2. u \in Issued
    BY DEF SessionsTypeOK
  <2>3. t.age <= TokenTTL
    BY <1>1 DEF Validate
  <2>4. QED
    BY <2>1, <2>2, <2>3, Bounds DEF Issued
<1>8. ASSUME NEW c \in Calls
      PROVE  /\ call'[c] \in Call /\ call'[c].stage = call[c].stage
             /\ call'[c].session = call[c].session
             /\ call'[c].perms = call[c].perms
             /\ call[c].stage # "idle" => call'[c].age = call[c].age + 1
  BY <1>1, Bounds, Ages DEF Call, Busy
<1>9. \A p : \A limit \in Nat : Backed(p, limit) => Backed(p, limit + 1)'
  <2> SUFFICES ASSUME NEW p, NEW limit \in Nat, Backed(p, limit)
               PROVE  Backed(p, limit + 1)'
    OBVIOUS
  <2>1. CASE p \in {NoPerms, perms}
    BY <1>1, <2>1 DEF Backed
  <2>2. CASE \E r \in replaced : r.perms = p /\ r.age <= limit
    <3>1. PICK r \in replaced : r.perms = p /\ r.age <= limit
      BY <2>2
    <3>2. PICK q \in replaced' : q.perms = r.perms /\ q.age <= r.age + 1
      BY <1>4
    <3>3. q.age \in Nat /\ r.age \in Nat
      BY <1>5, Bounds, Ages DEF Replaced, Remembered
    <3>4. q.age <= limit + 1
      BY <3>1, <3>2, <3>3
    <3>5. QED
      BY <3>1, <3>2, <3>4 DEF Backed
  <2>3. QED
    BY <2>1, <2>2 DEF Backed
<1>10. SessionsTypeOK'
  <2>1. /\ sessions' \subseteq Session /\ ended' \subseteq Ended
        /\ inactive' \subseteq [age : Age] /\ tokens' \subseteq Issued
    BY <1>2, <1>3, <1>6, <1>7
  <2>2. call' \in [Calls -> Call]
    BY <1>1, <1>8
  <2>3. QED
    BY <1>1, <1>5, <2>1, <2>2 DEF SessionsTypeOK
<1>11. Rows'
  <2>1. ASSUME NEW s \in sessions', NEW r \in sessions', r.id = s.id
        PROVE  r = s
    BY <1>2, <2>1 DEF Rows
  <2>2. ASSUME NEW s \in sessions', NEW e \in ended'
        PROVE  e.session # s.id
    BY <1>2, <1>3 DEF Rows
  <2>3. ASSUME NEW s \in sessions', NEW i \in inactive'
        PROVE  i.age <= s.age + MaxStall
    <3>1. PICK r \in sessions : s.age = r.age + 1 \/ s.age = MaxAge
      BY <1>2
    <3>2. PICK j \in inactive : i \in [age : Age] /\ i.age \in {j.age, j.age + 1}
      BY <1>6
    <3>3. j.age <= r.age + MaxStall
      BY DEF Rows
    <3>4. i.age <= MaxAge /\ i.age \in Nat
      BY <3>2, Bounds DEF Age
    <3>5. CASE s.age = MaxAge
      BY <3>4, <3>5, Bounds
    <3>6. CASE s.age = r.age + 1
      BY <3>2, <3>3, <3>6, Grows, Bounds, Ages
    <3>7. QED
      BY <3>1, <3>5, <3>6
  <2>4. QED
    BY <2>1, <2>2, <2>3 DEF Rows
<1>12. ASSUME NEW c \in Calls
       PROVE  (/\ Named(call[c])
               /\ LettingIn(call[c]) /\ Refreshing(call[c]) /\ Loaded(call[c]))'
  <2>1. Named(call[c])'
    BY <1>8 DEF Named
  <2>2. ASSUME call[c].stage \in {"checked", "loaded"}, NEW i \in inactive'
        PROVE  i.age <= call'[c].age
    <3>1. PICK j \in inactive : i.age \in {j.age, j.age + 1}
      BY <1>6
    <3>2. j.age <= call[c].age
      BY <2>2 DEF LettingIn
    <3>3. QED
      BY <1>8, <2>2, <3>1, <3>2, Ages
  <2>3. ASSUME call[c].stage \in {"session", "user", "granted"},
               NEW e \in ended', e.session = call[c].session
        PROVE  e.age <= call'[c].age
    <3>1. PICK d \in ended : e.session = d.session /\ e.age \in {d.age, d.age + 1}
      BY <1>3
    <3>2. d.age <= call[c].age
      BY <2>3, <3>1 DEF Refreshing
    <3>3. QED
      BY <1>8, <2>3, <3>1, <3>2, Ages
  <2>4. ASSUME call[c].stage \in {"session", "user", "granted"},
               NEW s \in sessions', s.id = call[c].session
        PROVE  s.age <= call'[c].age + SessionTTL
    <3>1. PICK r \in sessions : s.id = r.id /\ s.age \in {r.age, r.age + 1}
      BY <1>2
    <3>2. r.age <= call[c].age + SessionTTL
      BY <2>4, <3>1 DEF Refreshing
    <3>3. QED
      BY <1>8, <2>4, <3>1, <3>2, Grows, Bounds, Ages
  <2>5. ASSUME call[c].stage \in {"session", "user", "granted"},
               NEW i \in inactive'
        PROVE  i.age <= call'[c].age + SessionTTL + MaxStall
    <3>1. PICK j \in inactive : i.age \in {j.age, j.age + 1}
      BY <1>6
    <3>2. j.age <= call[c].age + SessionTTL + MaxStall
      BY <2>5 DEF Refreshing
    <3>3. QED
      BY <1>8, <2>5, <3>1, <3>2, Bounds, Ages
  <2>6. Loaded(call[c])'
    BY <1>8, <1>9, Ages DEF Loaded
  <2>7. QED
    BY <1>8, <2>1, <2>2, <2>3, <2>4, <2>5, <2>6 DEF LettingIn, Refreshing
<1>13. ASSUME NEW t \in tokens'
       PROVE  Signed(t)'
  <2>1. PICK u \in tokens : /\ t \in Issued /\ t.session = u.session
                            /\ t.perms = u.perms /\ t.age = u.age + 1
    BY <1>7
  <2>2. u.age \in Nat
    BY Ages
  <2>3. ASSUME NEW e \in ended', e.session = t.session
        PROVE  e.age <= t.age + MaxStall
    <3>1. PICK d \in ended : e.session = d.session /\ e.age \in {d.age, d.age + 1}
      BY <1>3
    <3>2. d.age <= u.age + MaxStall
      BY <2>1, <2>3, <3>1 DEF Signed
    <3>3. QED
      BY <2>1, <2>2, <3>1, <3>2, Grows, Bounds, Ages
  <2>4. ASSUME NEW s \in sessions', s.id = t.session
        PROVE  s.age <= t.age + MaxStall + SessionTTL
    <3>1. PICK r \in sessions : s.id = r.id /\ s.age \in {r.age, r.age + 1}
      BY <1>2
    <3>2. r.age <= u.age + MaxStall + SessionTTL
      BY <2>1, <2>4, <3>1 DEF Signed
    <3>3. QED
      BY <2>1, <2>2, <3>1, <3>2, Bounds, Ages
  <2>5. ASSUME NEW i \in inactive'
        PROVE  i.age <= t.age + MaxStall + SessionTTL + MaxStall
    <3>1. PICK j \in inactive : i.age \in {j.age, j.age + 1}
      BY <1>6
    <3>2. j.age <= u.age + MaxStall + SessionTTL + MaxStall
      BY <2>1 DEF Signed
    <3>3. QED
      BY <2>1, <2>2, <3>1, <3>2, Bounds, Ages
  <2>6. Backed(t.perms, t.age + MaxStall)'
    <3>1. Backed(u.perms, u.age + MaxStall) /\ u.age + MaxStall \in Nat
      BY <2>2, Bounds DEF Signed
    <3>2. Backed(u.perms, (u.age + MaxStall) + 1)'
      BY <1>9, <3>1
    <3>3. (u.age + MaxStall) + 1 = t.age + MaxStall
      BY <2>1, <2>2, Bounds
    <3>4. QED
      BY <2>1, <3>2, <3>3
  <2>7. QED
    BY <2>3, <2>4, <2>5, <2>6 DEF Signed
<1>14. status' = "active" => inactive' = {}
  BY <1>1 DEF Older
<1>15. QED
  BY <1>10, <1>11, <1>12, <1>13, <1>14

----
LEMMA LoginCheckKeeps ==
    ASSUME SessionsAssumption, Inv, NEW c \in Calls, LoginCheck(c)
    PROVE  Inv'
<1> DEFINE next == Begin("checked", NoSession)
<1>1. Goto(c, next) /\ UNCHANGED <<userTables, held, tokens, history>> /\ inactive = {}
  BY DEF LoginCheck, Inv
<1>2. next \in Call
  BY Bounds DEF Begin, Call, Stage, NoPerms
<1>3. Named(next) /\ LettingIn(next) /\ Refreshing(next) /\ Loaded(next)
  BY <1>1 DEF Begin, Named, LettingIn, Refreshing, Loaded
<1>4. QED
  BY <1>1, <1>2, <1>3, CallKeeps

\* loadPerms: none, or the current ones.
LEMMA PermsKeep ==
    ASSUME SessionsAssumption, Inv, NEW c \in Calls,
           LoginPerms(c) \/ RefreshPerms(c)
    PROVE  Inv'
<1>1. PICK p \in LoadedPerms : \E stage \in {"loaded", "granted"} :
         /\ Goto(c, [call[c] EXCEPT !.stage = stage, !.perms = p])
         /\ stage = "loaded" => call[c].stage = "checked"
         /\ stage = "granted" => call[c].stage = "user"
  BY DEF LoginPerms, RefreshPerms, LoadPerms
<1>2. PICK stage \in {"loaded", "granted"} :
         /\ Goto(c, [call[c] EXCEPT !.stage = stage, !.perms = p])
         /\ stage = "loaded" => call[c].stage = "checked"
         /\ stage = "granted" => call[c].stage = "user"
  BY <1>1
<1> DEFINE next == [call[c] EXCEPT !.stage = stage, !.perms = p]
<1>3. call[c] \in Call
  BY Ages DEF Inv
<1>4. p \in {NoPerms, perms} /\ p \in 0 .. MaxPerms
  BY Bounds DEF LoadedPerms, NoPerms, Inv, SessionsTypeOK
<1>5. /\ next \in Call /\ next.stage = stage /\ next.perms = p
      /\ next.age = call[c].age /\ next.session = call[c].session
  BY <1>3, <1>4 DEF Call, Stage
<1>6. Named(next) /\ LettingIn(next) /\ Refreshing(next)
  BY <1>2, <1>5 DEF Inv, Named, LettingIn, Refreshing
<1>7. Loaded(next)
  BY <1>4, <1>5 DEF Loaded, Backed
<1>8. UNCHANGED <<userTables, held, tokens, history>>
  BY DEF LoginPerms, RefreshPerms
<1>9. QED
  BY <1>2, <1>5, <1>6, <1>7, <1>8, CallKeeps

\* FindByTokenHash: the session is there, so it was not ended, and young.
LEMMA FindKeeps ==
    ASSUME SessionsAssumption, Inv, NEW c \in Calls, NEW id \in SessionIds,
           RefreshSession(c, id) \/ LogoutSession(c, id)
    PROVE  Inv'
<1> USE DEF Inv
<1>1. PICK stage \in {"session", "logout"} : Goto(c, Begin(stage, id))
  BY DEF RefreshSession, LogoutSession
<1>2. PICK s \in sessions : s.id = id /\ s.age < SessionTTL
  BY DEF RefreshSession, LogoutSession, FindByTokenHash
<1> DEFINE next == Begin(stage, id)
<1>3. /\ next \in Call /\ next.stage = stage /\ next.age = 0
      /\ next.session = id
  BY Bounds DEF Begin, Call, Stage, NoPerms
<1>4. Named(next) /\ LettingIn(next) /\ Loaded(next)
  BY <1>3 DEF Named, LettingIn, Loaded
<1>5. Refreshing(next)
  <2>1. \A e \in ended : e.session # id
    BY <1>2 DEF Rows
  <2>2. \A r \in sessions : r.id = id => r.age <= 0 + SessionTTL
    BY <1>2, Bounds, Ages DEF Rows
  <2>3. \A i \in inactive : i.age <= 0 + SessionTTL + MaxStall
    BY <1>2, Bounds, Ages DEF Rows
  <2>4. QED
    BY <1>3, <2>1, <2>2, <2>3 DEF Refreshing
<1>6. UNCHANGED <<userTables, held, tokens, history>>
  BY DEF RefreshSession, LogoutSession
<1>7. QED
  BY <1>1, <1>3, <1>4, <1>5, <1>6, CallKeeps

LEMMA RefreshUserKeeps ==
    ASSUME SessionsAssumption, Inv, NEW c \in Calls, RefreshUser(c)
    PROVE  Inv'
<1> DEFINE next == [call[c] EXCEPT !.stage = "user"]
<1>1. /\ call[c].stage = "session" /\ Goto(c, next)
      /\ UNCHANGED <<userTables, held, tokens, history>>
  BY DEF RefreshUser
<1>2. call[c] \in Call
  BY Ages DEF Inv
<1>3. /\ next \in Call /\ next.stage = "user"
      /\ next.age = call[c].age /\ next.session = call[c].session
  BY <1>2 DEF Call, Stage
<1>4. Named(next) /\ LettingIn(next) /\ Refreshing(next) /\ Loaded(next)
  BY <1>1, <1>3 DEF Inv, Named, LettingIn, Refreshing, Loaded
<1>5. QED
  BY <1>1, <1>3, <1>4, CallKeeps

\* Requests that end without a token, and what is done to the user.
LEMMA OthersKeep ==
    ASSUME SessionsAssumption, Inv,
           \/ \E c \in Calls : \/ LoginReply(c) \/ LogoutDelete(c)
                              \/ LogoutDeleteFails(c) \/ Abandon(c)
           \/ \E id \in SessionIds : LogoutUnknown(id)
           \/ Suspend \/ Reactivate \/ Remove
    PROVE  Inv'
<1> USE DEF Inv
<1>1. \A S \in SUBSET SessionIds : held \ S \subseteq SessionIds
  BY DEF SessionsTypeOK
<1>2. UNCHANGED <<sessions, ended>> => End({})
  BY DEF End
<1>3. ASSUME NEW c \in Calls, Goto(c, Idle)
      PROVE  /\ call' \in [Calls -> Call]
             /\ \A d \in Calls : call'[d] = call[d] \/ call'[d].stage = "idle"
  BY <1>3, IdleCall DEF Goto, SessionsTypeOK
<1>4. status' = status =>
         /\ status' \in {"active", "suspended", "removed"}
         /\ inactive' = inactive => (status' = "active" => inactive' = {})
  BY DEF SessionsTypeOK
<1>5. call' = call =>
         /\ call' \in [Calls -> Call]
         /\ \A d \in Calls : call'[d] = call[d] \/ call'[d].stage = "idle"
  BY DEF SessionsTypeOK
<1>6. ASSUME NEW c \in Calls,
             LoginReply(c) \/ LogoutDeleteFails(c) \/ Abandon(c)
      PROVE  Inv'
  <2>1. /\ Goto(c, Idle) /\ End({})
        /\ UNCHANGED <<status, perms, tokens, replaced, inactive>>
    BY <1>2, <1>6 DEF LoginReply, LogoutDeleteFails, Abandon, userTables, history
  <2>2. held' \subseteq SessionIds
    BY <1>6 DEF LoginReply, LogoutDeleteFails, Abandon, SessionsTypeOK, Named
  <2>3. QED
    BY <1>3, <1>4, <2>1, <2>2, LossKeeps
<1>7. ASSUME NEW c \in Calls, LogoutDelete(c)
      PROVE  Inv'
  <2> DEFINE gone == {s \in sessions : s.id = call[c].session}
  <2>1. /\ Goto(c, Idle) /\ End(gone)
        /\ UNCHANGED <<status, perms, tokens, replaced, inactive>>
    BY <1>7 DEF LogoutDelete
  <2>2. held' \subseteq SessionIds
    BY <1>7 DEF LogoutDelete, SessionsTypeOK
  <2>3. \A s \in gone : \A r \in sessions \ gone : r.id # s.id
    OBVIOUS
  <2>4. gone \in SUBSET sessions
    OBVIOUS
  <2> HIDE DEF gone
  <2>5. QED
    BY <1>3, <1>4, <2>1, <2>2, <2>3, <2>4, LossKeeps
<1>8. ASSUME NEW id \in SessionIds, LogoutUnknown(id)
      PROVE  Inv'
  <2>1. End({}) /\ call' = call
        /\ UNCHANGED <<status, perms, tokens, replaced, inactive>>
    BY <1>2, <1>8 DEF LogoutUnknown, userTables, history
  <2>2. held' \subseteq SessionIds
    BY <1>8 DEF LogoutUnknown, SessionsTypeOK
  <2>3. QED
    BY <1>4, <1>5, <2>1, <2>2, LossKeeps
<1>9. CASE Suspend \/ Reactivate
  <2>1. /\ End({}) /\ call' = call /\ UNCHANGED <<perms, tokens, replaced>>
        /\ held' = held
        /\ status' \in {"active", "suspended", "removed"}
        /\ status' = "active" => inactive' = {}
        /\ inactive' \subseteq inactive \cup {[age |-> 0]}
    BY <1>2, <1>9 DEF Suspend, Reactivate
  <2>2. held' \subseteq SessionIds
    BY <2>1 DEF SessionsTypeOK
  <2>3. QED
    BY <1>5, <2>1, <2>2, LossKeeps
<1>10. CASE Remove
  <2>1. /\ End(sessions) /\ call' = call /\ UNCHANGED <<perms, tokens, replaced>>
        /\ held' = held /\ status' = "removed"
        /\ inactive' \subseteq inactive \cup {[age |-> 0]}
    BY <1>10 DEF Remove
  <2>2. held' \subseteq SessionIds
    BY <2>1 DEF SessionsTypeOK
  <2>3. \A s \in sessions : \A r \in sessions \ sessions : r.id # s.id
    OBVIOUS
  <2>4. QED
    BY <1>5, <2>1, <2>2, <2>3, LossKeeps
<1>11. QED
  BY <1>6, <1>7, <1>8, <1>9, <1>10

LEMMA InvStep ==
    ASSUME SessionsAssumption
    PROVE  Inv /\ [SessionsNext]_sessionVars => Inv'
<1> SUFFICES ASSUME Inv, [SessionsNext]_sessionVars
             PROVE  Inv'
  OBVIOUS
<1>1. CASE UNCHANGED sessionVars
  BY <1>1 DEF sessionVars, Inv, SessionsTypeOK, Rows, Named, LettingIn, Refreshing, Loaded,
              Signed, Backed
<1>2. ASSUME NEW c \in Calls,
             \/ LoginCheck(c) \/ LoginPerms(c) \/ LoginReply(c)
             \/ RefreshUser(c) \/ RefreshPerms(c) \/ RefreshReply(c)
             \/ LogoutDelete(c) \/ LogoutDeleteFails(c) \/ Abandon(c)
      PROVE  Inv'
  BY <1>2, LoginCheckKeeps, PermsKeep, RefreshUserKeeps, ReplyKeeps, OthersKeep
<1>3. ASSUME NEW c \in Calls, NEW id \in SessionIds,
             \/ LoginCreate(c, id) \/ LoginCreateAmbiguous(c, id)
             \/ RefreshSession(c, id) \/ LogoutSession(c, id)
      PROVE  Inv'
  BY <1>3, CreateKeeps, FindKeeps
<1>4. QED
  BY <1>1, <1>2, <1>3, ChangeKeeps, OthersKeep, TickKeeps DEF SessionsNext

----
\* Every variable stays in its range.
THEOREM TypeCorrect ==
    ASSUME SessionsAssumption
    PROVE  SessionsSpec => []SessionsTypeOK
<1>1. SessionsInit => Inv
  BY InitInv
<1>2. Inv /\ [SessionsNext]_sessionVars => Inv'
  BY InvStep
<1>3. Inv => SessionsTypeOK
  BY DEF Inv
<1>4. QED
  BY <1>1, <1>2, <1>3, PTL DEF SessionsSpec

\* An access token outlives the end of its session (logout, expiry, removal of
\* the user) by its own life and one request under way, not longer.
THEOREM EndsHold ==
    ASSUME SessionsAssumption
    PROVE  SessionsSpec => []EndedStaysEnded
<1>1. SessionsInit => Inv
  BY InitInv
<1>2. Inv /\ [SessionsNext]_sessionVars => Inv'
  BY InvStep
<1>3. Inv => EndedStaysEnded
  <2> SUFFICES ASSUME Inv, NEW t \in tokens
               PROVE  /\ \A e \in ended : e.session = t.session =>
                            e.age <= MaxStall + TokenTTL
                      /\ \A s \in sessions : s.id = t.session =>
                            s.age <= SessionTTL + MaxStall + TokenTTL
    BY DEF EndedStaysEnded
  <2>1. t.age \in Nat /\ t.age <= TokenTTL
    BY Ages DEF Inv
  <2>2. QED
    BY <2>1, Bounds, Ages DEF Inv, Signed
<1>4. QED
  BY <1>1, <1>2, <1>3, PTL DEF SessionsSpec

\* An access token carries no permissions, the current ones, or ones that were
\* replaced at most a token's life and a request ago.
THEOREM PermsCorrect ==
    ASSUME SessionsAssumption
    PROVE  SessionsSpec => []PermsFollow
<1>1. SessionsInit => Inv
  BY InitInv
<1>2. Inv /\ [SessionsNext]_sessionVars => Inv'
  BY InvStep
<1>3. Inv => PermsFollow
  <2> SUFFICES ASSUME Inv, NEW t \in tokens
               PROVE  \/ t.perms \in {NoPerms, perms}
                      \/ \E r \in replaced :
                            r.perms = t.perms /\ r.age <= MaxStall + TokenTTL
    BY DEF PermsFollow
  <2>1. t.age \in Nat /\ t.age <= TokenTTL
    BY Ages DEF Inv
  <2>2. \A r \in replaced :
           r.age <= t.age + MaxStall => r.age <= MaxStall + TokenTTL
    BY <2>1, Bounds, Ages DEF Inv
  <2>3. QED
    BY <2>2 DEF Inv, Signed, Backed
<1>4. QED
  BY <1>1, <1>2, <1>3, PTL DEF SessionsSpec

\* handleRefresh does not look at the user's status, but a user who is not
\* active runs out of tokens with the sessions he had.
THEOREM SuspensionCorrect ==
    ASSUME SessionsAssumption
    PROVE  SessionsSpec => []SuspensionHolds
<1>1. SessionsInit => Inv
  BY InitInv
<1>2. Inv /\ [SessionsNext]_sessionVars => Inv'
  BY InvStep
<1>3. Inv => SuspensionHolds
  <2> SUFFICES ASSUME Inv, NEW t \in tokens, NEW i \in inactive
               PROVE  i.age <= MaxStall + SessionTTL + MaxStall + TokenTTL
    BY DEF SuspensionHolds
  <2>1. t.age \in Nat /\ t.age <= TokenTTL
    BY Ages DEF Inv
  <2>2. i.age <= t.age + MaxStall + SessionTTL + MaxStall
    BY DEF Inv, Signed
  <2>3. QED
    BY <2>1, <2>2, Bounds, Ages DEF Inv
<1>4. QED
  BY <1>1, <1>2, <1>3, PTL DEF SessionsSpec

----
\* The steps of the console are a part's own or leave the sessions alone.
LEMMA SessionsPart == ConsoleSpec => SessionsSpec
<1>1. ConsoleInit => SessionsInit
  BY DEF ConsoleInit
<1>2. [ConsoleNext]_<<page, sessionVars, promptVars, tableVars, logVars>>
         => [SessionsNext]_sessionVars
  BY DEF ConsoleNext
<1> QED
  BY <1>1, <1>2, PTL DEF ConsoleSpec, SessionsSpec

\* The routes of auth_handler.go, as the server mounts them.
THEOREM AuthCorrect ==
    ConsoleSpec => [](EndedStaysEnded /\ PermsFollow /\ SuspensionHolds)
<1>1. SessionsAssumption
  BY ConsoleAssumption
<1>2. SessionsSpec => []EndedStaysEnded /\ []PermsFollow /\ []SuspensionHolds
  BY <1>1, EndsHold, PermsCorrect, SuspensionCorrect
<1> QED
  BY <1>2, SessionsPart, PTL
====
