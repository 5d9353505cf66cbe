----------------------------- MODULE AuthProofs -----------------------------
(***************************************************************************)
(* Theorems about Auth, for any logins, passwords and request slots, any   *)
(* way statements fail, either storage and any number of restarts.         *)
(***************************************************************************)
EXTENDS Auth, TLAPS

Taken(l) == users[l] # NoUser

\* Ids are handed out in order, each at most once.
UsersInv ==
  /\ nextId \in Nat /\ restarts \in Nat
  /\ users \in [Logins -> User \cup {NoUser}]
  /\ \A l \in Logins : Taken(l) => users[l].id < nextId
  /\ \A l, m \in Logins : l # m /\ Taken(l) /\ Taken(m) => users[l].id # users[m].id

\* What a request that is about to sign a token, or to compare a password, has seen of
\* the users table is still so.
Seen(c) ==
  /\ call[c].at \in {"store", "sign", "compare"} =>
       call[c].login \in Logins /\ call[c].password \in Passwords
  /\ call[c].at = "sign" =>
       users[call[c].login] = [id |-> call[c].id, hash |-> Key[call[c].password]]
  /\ call[c].at = "compare" =>
       users[call[c].login] = call[c].user /\ call[c].user \in User

CallsInv ==
  /\ call = [c \in Clients |-> call[c]]
  /\ \A c \in Clients : Seen(c)

TokensInv ==
  /\ tokens = [l \in Logins |-> tokens[l]]
  /\ \A l \in Logins : tokens[l] = NoToken \/ (tokens[l].boot \in Nat /\ tokens[l].boot <= restarts
                                         /\ tokens[l].by \in Passwords)
  /\ TokenNamesUser

IInv == UsersInv /\ CallsInv /\ TokensInv

LEMMA Cases ==
  ASSUME Next
  PROVE  \/ \E c \in Clients :
              \/ RegisterStore(c) \/ RegisterConflict(c) \/ RegisterSign(c)
              \/ LogInCompare(c) \/ Parse(c) \/ Finish(c)
              \/ \E l \in Logins : Validate(c, l)
              \/ \E l \in Logins, p \in Passwords : Register(c, l, p) \/ LogIn(c, l, p)
         \/ Tick
         \/ Restart
  BY DEF Next, Proceed

\* A stored user is none that is missing.
LEMMA UserIsSomebody ==
  /\ \A u \in User : u # NoUser
  /\ \A i \in Nat, p \in Passwords : [id |-> i, hash |-> Key[p]] \in User
<1>1. \A u \in User : u.hash # "no hash"
  BY AuthAssumption DEF User, Hashes
<1>2. NoUser.hash = "no hash"
  BY DEF NoUser
<1>3. \A i \in Nat, p \in Passwords : [id |-> i, hash |-> Key[p]] \in User
  BY DEF User, Hashes
<1> QED BY <1>1, <1>2, <1>3

\* A token is none that is missing.
LEMMA TokenIsSomething ==
  ASSUME NEW i, NEW p \in Passwords
  PROVE  Create(i, p) # NoToken /\ Create(i, p).id = i /\ Create(i, p).by = p
         /\ Create(i, p).boot \in {0, restarts}
<1>1. Create(i, p).by = p /\ Create(i, p).id = i /\ Create(i, p).boot \in {0, restarts}
  BY DEF Create
<1>2. NoToken.by = "nobody"
  BY DEF NoToken
<1> QED BY <1>1, <1>2, AuthAssumption

\* A user who is there stays as stored, or the process has been started anew.
Kept == \A l \in Logins : Taken(l) => users'[l] = users[l]

\* A step that keeps the users and changes one request, which has seen what is so.
LEMMA OneCall ==
  ASSUME CallsInv, UsersInv, Kept, NEW c \in Clients, NEW k, Continue(c, k),
         k.at \in {"store", "sign", "compare"} => k.login \in Logins /\ k.password \in Passwords,
         k.at = "sign" => users'[k.login] = [id |-> k.id, hash |-> Key[k.password]],
         k.at = "compare" => users'[k.login] = k.user /\ k.user \in User
  PROVE  CallsInv'
<1>1. call' = [d \in Clients |-> call'[d]]
  BY DEF CallsInv, Continue
<1>2. \A d \in Clients : call'[d] = IF d = c THEN k ELSE call[d]
  BY DEF CallsInv, Continue
<1>3. ASSUME NEW d \in Clients PROVE Seen(d)'
  <2>1. CASE d = c
    BY <1>2, <2>1 DEF Seen
  <2>2. CASE d # c
    <3>1. Seen(d) /\ call'[d] = call[d]
      BY <1>2, <2>2 DEF CallsInv
    <3>2. ASSUME call[d].at = "sign"
          PROVE  users'[call[d].login] = [id |-> call[d].id, hash |-> Key[call[d].password]]
      <4>1. /\ call[d].login \in Logins /\ call[d].password \in Passwords
            /\ users[call[d].login] = [id |-> call[d].id, hash |-> Key[call[d].password]]
        BY <3>1, <3>2 DEF Seen
      <4>2. users[call[d].login].hash = Key[call[d].password] /\ NoUser.hash = "no hash"
        BY <4>1 DEF NoUser
      <4>3. Taken(call[d].login)
        BY <4>1, <4>2, AuthAssumption DEF Taken
      <4> QED BY <4>1, <4>3 DEF Kept
    <3>3. ASSUME call[d].at = "compare" PROVE users'[call[d].login] = call[d].user
      <4>1. /\ call[d].login \in Logins /\ call[d].user \in User
            /\ users[call[d].login] = call[d].user
        BY <3>1, <3>3 DEF Seen
      <4> QED BY <4>1, UserIsSomebody DEF Kept, Taken
    <3> QED BY <3>1, <3>2, <3>3 DEF Seen
  <2> QED BY <2>1, <2>2
<1> QED BY <1>1, <1>3 DEF CallsInv

\* A step that leaves tokens alone and keeps the users.
LEMMA SameTokens ==
  ASSUME TokensInv, UsersInv, Kept, UNCHANGED <<tokens, restarts>>
  PROVE  TokensInv'
<1>1. tokens' = tokens /\ restarts' = restarts
  OBVIOUS
<1>2. ASSUME NEW l \in Logins, tokens[l] # NoToken, InMemory => tokens[l].boot = restarts
      PROVE  users'[l] = [id |-> tokens[l].id, hash |-> Key[tokens[l].by]]
  <2>1. users[l] = [id |-> tokens[l].id, hash |-> Key[tokens[l].by]] /\ tokens[l].by \in Passwords
    BY <1>2 DEF TokensInv, TokenNamesUser
  <2>2. users[l].hash = Key[tokens[l].by] /\ NoUser.hash = "no hash"
    BY <2>1 DEF NoUser
  <2>3. Taken(l)
    BY <2>1, <2>2, AuthAssumption DEF Taken
  <2> QED BY <2>1, <2>3 DEF Kept
<1> QED BY <1>1, <1>2 DEF TokensInv, TokenNamesUser

\* The end of Register and LogIn, for the user that is stored under the login.
LEMMA IssueStep ==
  ASSUME IInv, NEW c \in Clients, NEW l \in Logins, NEW i, NEW p \in Passwords, Issue(c, l, i, p),
         users[l] = [id |-> i, hash |-> Key[p]]
  PROVE  IInv'
<1>1. users' = users /\ nextId' = nextId /\ restarts' = restarts /\ Continue(c, Idle)
  BY DEF Issue, End
<1>2. UsersInv'
  BY <1>1 DEF IInv, UsersInv, Taken
<1>3. Kept /\ Idle.at = "idle"
  BY <1>1 DEF Kept, Idle
<1>4. CallsInv'
  BY <1>1, <1>3, OneCall DEF IInv
<1>5. TokensInv'
  <2>1. CASE ~CanSign
    BY <1>1, <1>3, <2>1, SameTokens DEF IInv, Issue
  <2>2. CASE CanSign
    <3> DEFINE t == Create(i, p)
    <3>1. tokens' = [tokens EXCEPT ![l] = t]
      BY <2>2 DEF Issue
    <3>2. t # NoToken /\ t.id = i /\ t.by = p /\ t.boot \in {0, restarts}
      BY TokenIsSomething
    <3>3. restarts \in Nat /\ tokens = [m \in Logins |-> tokens[m]]
      BY DEF IInv, UsersInv, TokensInv
    <3> HIDE DEF t
    <3>4. tokens' = [m \in Logins |-> tokens'[m]] /\ \A m \in Logins : tokens'[m] = IF m = l THEN t ELSE tokens[m]
      BY <3>1, <3>3
    <3>5. ASSUME NEW m \in Logins
          PROVE  /\ tokens'[m] = NoToken \/
                      (tokens'[m].boot \in Nat /\ tokens'[m].boot <= restarts' /\ tokens'[m].by \in Passwords)
                 /\ tokens'[m] # NoToken /\ (InMemory => tokens'[m].boot = restarts') =>
                      users'[m] = [id |-> tokens'[m].id, hash |-> Key[tokens'[m].by]]
      <4>1. CASE m = l
        BY <1>1, <3>2, <3>3, <3>4, <4>1
      <4>2. CASE m # l
        BY <1>1, <3>4, <4>2 DEF IInv, TokensInv, TokenNamesUser
      <4> QED BY <4>1, <4>2
    <3> QED BY <3>4, <3>5 DEF TokensInv, TokenNamesUser
  <2> QED BY <2>1, <2>2
<1> QED BY <1>2, <1>4, <1>5 DEF IInv

\* A step that changes one request only.
LEMMA CallOnly ==
  ASSUME IInv, NEW c \in Clients, NEW k, Continue(c, k), UNCHANGED <<users, tokens, restarts>>,
         nextId' \in Nat, nextId <= nextId',
         k.at \in {"store", "sign", "compare"} => k.login \in Logins /\ k.password \in Passwords,
         k.at # "sign",
         k.at = "compare" => users[k.login] = k.user /\ k.user \in User
  PROVE  IInv'
<1>1. users' = users /\ tokens' = tokens /\ restarts' = restarts
  OBVIOUS
<1>2. Kept
  BY <1>1 DEF Kept
<1>3. UsersInv'
  <2>1. ASSUME NEW l \in Logins, Taken(l) PROVE users[l].id < nextId'
    <3>1. users[l] \in User /\ users[l].id < nextId
      BY <2>1 DEF IInv, UsersInv, Taken
    <3>2. users[l].id \in Nat /\ nextId \in Nat
      BY <3>1 DEF User, IInv, UsersInv
    <3> QED BY <3>1, <3>2
  <2> QED BY <1>1, <2>1 DEF IInv, UsersInv, Taken
<1>4. CallsInv'
  BY <1>1, <1>2, OneCall DEF IInv
<1> QED BY <1>1, <1>2, <1>3, <1>4, SameTokens DEF IInv

\* The free login gets the next id.
LEMMA StoreStep ==
  ASSUME IInv, NEW c \in Clients, RegisterStore(c)
  PROVE  IInv' /\ Kept
<1> DEFINE l == call[c].login
           p == call[c].password
           u == [id |-> nextId, hash |-> Key[p]]
<1>1. l \in Logins /\ p \in Passwords /\ ~Taken(l)
  BY DEF IInv, CallsInv, Seen, RegisterStore, Taken
<1>2. u \in User /\ u # NoUser /\ u.id = nextId /\ nextId \in Nat
  BY <1>1, UserIsSomebody DEF IInv, UsersInv
<1>3. PICK o \in UserOutcomes :
        /\ IF o = "fail" THEN UNCHANGED <<users, nextId>>
           ELSE users' = [users EXCEPT ![l] = u] /\ nextId' = nextId + 1
        /\ IF o = "ok"
           THEN Continue(c, [at |-> "sign", login |-> l, password |-> p, id |-> nextId])
           ELSE End(c)
  BY DEF RegisterStore
<1>4. tokens' = tokens /\ restarts' = restarts
  BY DEF RegisterStore
<1>5. CASE o = "fail"
  <2>1. users' = users /\ nextId' = nextId /\ Continue(c, Idle)
    BY <1>3, <1>5 DEF End
  <2>2. Idle.at = "idle"
    BY DEF Idle
  <2> QED BY <1>2, <1>4, <2>1, <2>2, CallOnly DEF Kept
<1>6. CASE o # "fail"
  <2>1. users' = [users EXCEPT ![l] = u] /\ nextId' = nextId + 1
    BY <1>3, <1>6
  <2>2. users \in [Logins -> User \cup {NoUser}]
    BY DEF IInv, UsersInv
  <2>3. ASSUME NEW m \in Logins PROVE users'[m] = IF m = l THEN u ELSE users[m]
    BY <2>1, <2>2
  <2>4. Kept
    BY <1>1, <2>3 DEF Kept
  <2>5. users' \in [Logins -> User \cup {NoUser}]
    <3> HIDE DEF u, l
    <3> QED BY <1>1, <1>2, <2>1, <2>2
  <2>6. \A m \in Logins : Taken(m) => users[m].id \in Nat /\ users[m].id < nextId
    <3>1. ASSUME NEW m \in Logins, Taken(m) PROVE users[m].id \in Nat
      <4>1. users[m] \in User
        BY <2>2, <3>1 DEF Taken
      <4> QED BY <4>1 DEF User
    <3> QED BY <3>1 DEF IInv, UsersInv
  <2>7. ASSUME NEW m \in Logins, users'[m] # NoUser PROVE users'[m].id < nextId'
    <3>1. CASE m = l
      BY <1>2, <2>1, <2>3, <3>1
    <3>2. CASE m # l
      <4>1. users'[m] = users[m] /\ users[m].id \in Nat /\ users[m].id < nextId
        BY <2>3, <2>6, <2>7, <3>2 DEF Taken
      <4> QED BY <1>2, <2>1, <4>1
    <3> QED BY <3>1, <3>2
  <2>8. ASSUME NEW m \in Logins, NEW n \in Logins, m # n, users'[m] # NoUser, users'[n] # NoUser
        PROVE  users'[m].id # users'[n].id
    <3>1. \A k \in Logins : k # l /\ users'[k] # NoUser =>
            users'[k] = users[k] /\ Taken(k) /\ users[k].id \in Nat /\ users[k].id < nextId
      BY <2>3, <2>6 DEF Taken
    <3>2. CASE m = l
      <4>1. users'[m].id = nextId /\ users'[n].id \in Nat /\ users'[n].id < nextId
        BY <1>2, <2>3, <2>8, <3>1, <3>2
      <4> QED BY <1>2, <4>1
    <3>3. CASE n = l
      <4>1. users'[n].id = nextId /\ users'[m].id \in Nat /\ users'[m].id < nextId
        BY <1>2, <2>3, <2>8, <3>1, <3>3
      <4> QED BY <1>2, <4>1
    <3>4. CASE m # l /\ n # l
      BY <2>8, <3>1, <3>4 DEF IInv, UsersInv
    <3> QED BY <3>2, <3>3, <3>4
  <2>9. UsersInv'
    <3>1. nextId' \in Nat
      BY <1>2, <2>1
    <3> QED BY <1>4, <2>5, <2>7, <2>8, <3>1 DEF IInv, UsersInv, Taken
  <2>10. CallsInv'
    <3>1. CASE o = "ok"
      <4> DEFINE k == [at |-> "sign", login |-> l, password |-> p, id |-> nextId]
      <4>1. Continue(c, k)
        BY <1>3, <3>1
      <4>2. k.at = "sign" /\ k.login = l /\ k.password = p /\ k.id = nextId
        OBVIOUS
      <4>3. users'[l] = [id |-> nextId, hash |-> Key[p]]
        BY <1>1, <2>3
      <4> HIDE DEF k, l, p
      <4> QED BY <1>1, <2>4, <4>1, <4>2, <4>3, OneCall DEF IInv
    <3>2. CASE o # "ok"
      <4>1. Continue(c, Idle) /\ Idle.at = "idle"
        BY <1>3, <3>2 DEF End, Idle
      <4> QED BY <2>4, <4>1, OneCall DEF IInv
    <3> QED BY <3>1, <3>2
  <2>11. TokensInv'
    BY <1>4, <2>4, SameTokens DEF IInv
  <2> QED BY <2>4, <2>9, <2>10, <2>11 DEF IInv
<1> QED BY <1>5, <1>6

\* The other steps of a request that is under way.
LEMMA ProceedStep ==
  ASSUME IInv, NEW c \in Clients,
         RegisterConflict(c) \/ RegisterSign(c) \/ LogInCompare(c) \/ Parse(c) \/ Finish(c)
  PROVE  IInv'
<1>1. nextId \in Nat /\ Idle.at = "idle" /\ Seen(c)
  BY DEF IInv, UsersInv, CallsInv, Idle
<1>2. CASE RegisterConflict(c)
  <2>1. nextId' \in Nat /\ nextId <= nextId' /\ Continue(c, Idle)
    BY <1>1, <1>2 DEF RegisterConflict, End
  <2> QED BY <1>1, <1>2, <2>1, CallOnly DEF RegisterConflict
<1>3. CASE RegisterSign(c)
  <2>1. /\ call[c].login \in Logins /\ call[c].password \in Passwords
        /\ users[call[c].login] = [id |-> call[c].id, hash |-> Key[call[c].password]]
        /\ Issue(c, call[c].login, call[c].id, call[c].password)
    BY <1>1, <1>3 DEF RegisterSign, Seen
  <2> QED BY <2>1, IssueStep
<1>4. CASE LogInCompare(c)
  <2>1. /\ call[c].login \in Logins /\ call[c].password \in Passwords
        /\ users[call[c].login] = call[c].user /\ call[c].user \in User
    BY <1>1, <1>4 DEF LogInCompare, Seen
  <2>2. CASE Compare(call[c].user.hash, call[c].password)
    <3>1. Issue(c, call[c].login, call[c].user.id, call[c].password)
      BY <1>4, <2>2 DEF LogInCompare
    <3>2. call[c].user = [id |-> call[c].user.id, hash |-> Key[call[c].password]]
      <4> DEFINE w == call[c].user
      <4>1. w = [id |-> w.id, hash |-> w.hash]
        BY <2>1 DEF User
      <4> QED BY <2>2, <4>1 DEF Compare
    <3> QED BY <2>1, <3>1, <3>2, IssueStep
  <2>3. CASE ~Compare(call[c].user.hash, call[c].password)
    <3>1. UNCHANGED <<users, nextId, tokens, restarts>> /\ Continue(c, Idle)
      BY <1>4, <2>3 DEF LogInCompare, End
    <3> QED BY <1>1, <3>1, CallOnly
  <2> QED BY <2>2, <2>3
<1>5. CASE Parse(c)
  <2> DEFINE t == call[c].token
             k == [at |-> IF Valid(t) THEN "served" ELSE "refused", token |-> t, time |-> clock]
  <2>1. Continue(c, k) /\ UNCHANGED <<users, nextId, tokens, restarts>>
    BY <1>5 DEF Parse, Decide
  <2>2. k.at = "served" \/ k.at = "refused"
    OBVIOUS
  <2> HIDE DEF k
  <2> QED BY <1>1, <2>1, <2>2, CallOnly
<1>6. CASE Finish(c)
  <2>1. UNCHANGED <<users, nextId, tokens, restarts>> /\ Continue(c, Idle)
    BY <1>6 DEF Finish, End
  <2> QED BY <1>1, <2>1, CallOnly
<1> QED BY <1>2, <1>3, <1>4, <1>5, <1>6

\* The first step of a request.
LEMMA BeginStep ==
  ASSUME IInv, NEW c \in Clients, NEW l \in Logins,
         Validate(c, l) \/ \E p \in Passwords : Register(c, l, p) \/ LogIn(c, l, p)
  PROVE  IInv'
<1>1. nextId \in Nat
  BY DEF IInv, UsersInv
<1>2. CASE Validate(c, l)
  <2> DEFINE t == tokens[l]
             s == [at |-> "parse", token |-> t]
             r == [at |-> IF Valid(t) THEN "served" ELSE "refused", token |-> t, time |-> clock]
  <2>1. Continue(c, s) \/ Continue(c, r)
    BY <1>2 DEF Validate, Decide
  <2>2. UNCHANGED <<users, nextId, tokens, restarts>>
    BY <1>2 DEF Validate
  <2>3. s.at = "parse" /\ r.at \in {"served", "refused"}
    OBVIOUS
  <2> HIDE DEF s, r
  <2>4. CASE Continue(c, s)
    BY <1>1, <2>2, <2>3, <2>4, CallOnly
  <2>5. CASE Continue(c, r)
    BY <1>1, <2>2, <2>3, <2>5, CallOnly
  <2> QED BY <2>1, <2>4, <2>5
<1>3. ASSUME NEW p \in Passwords, Register(c, l, p) PROVE IInv'
  <2> DEFINE k == [at |-> "store", login |-> l, password |-> p]
  <2>1. Continue(c, k) /\ UNCHANGED <<users, nextId, tokens, restarts>>
    BY <1>3 DEF Register
  <2>2. k.at = "store" /\ k.login = l /\ k.password = p
    OBVIOUS
  <2> HIDE DEF k
  <2> QED BY <1>1, <2>1, <2>2, CallOnly
<1>4. ASSUME NEW p \in Passwords, LogIn(c, l, p) PROVE IInv'
  <2> DEFINE k == [at |-> "compare", login |-> l, password |-> p, user |-> users[l]]
  <2>1. Continue(c, k) /\ UNCHANGED <<users, nextId, tokens, restarts>>
    BY <1>4 DEF LogIn
  <2>2. k.at = "compare" /\ k.login = l /\ k.password = p /\ k.user = users[l]
    OBVIOUS
  <2>3. users[l] \in User
    BY <1>4 DEF LogIn, IInv, UsersInv
  <2> HIDE DEF k
  <2> QED BY <1>1, <2>1, <2>2, <2>3, CallOnly
<1> QED BY <1>2, <1>3, <1>4

\* A restart leaves no request; in memory it leaves no user and no token that counts.
LEMMA RestartStep ==
  ASSUME IInv, Restart
  PROVE  IInv'
<1>1. /\ restarts' = restarts + 1 /\ restarts \in Nat /\ tokens' = tokens
      /\ call' = [c \in Clients |-> Idle] /\ Idle.at = "idle"
  BY DEF Restart, IInv, UsersInv, Idle
<1>2. CallsInv'
  BY <1>1 DEF CallsInv, Seen
<1>3. \A l \in Logins :
        tokens[l] = NoToken \/ (tokens[l].boot \in Nat /\ tokens[l].boot < restarts'
                                /\ tokens[l].by \in Passwords)
  BY <1>1 DEF IInv, TokensInv
<1>4. CASE InMemory
  <2>1. users' = [l \in Logins |-> NoUser] /\ nextId' \in Nat
    BY <1>4 DEF Restart, FirstId
  <2>2. UsersInv'
    BY <1>1, <2>1 DEF UsersInv, Taken
  <2>3. TokensInv'
    BY <1>1, <1>3, <1>4 DEF IInv, TokensInv, TokenNamesUser, InMemory
  <2> QED BY <1>2, <2>2, <2>3 DEF IInv
<1>5. CASE ~InMemory
  <2>1. users' = users /\ nextId' = nextId
    BY <1>5 DEF Restart
  <2>2. UsersInv'
    BY <1>1, <2>1 DEF IInv, UsersInv, Taken
  <2>3. TokensInv'
    BY <1>1, <1>3, <1>5, <2>1 DEF IInv, TokensInv, TokenNamesUser, InMemory
  <2> QED BY <1>2, <2>2, <2>3 DEF IInv
<1> QED BY <1>4, <1>5

LEMMA NextStep ==
  ASSUME IInv, [Next]_vars
  PROVE  IInv'
<1>1. CASE UNCHANGED vars
  BY <1>1 DEF vars, IInv, UsersInv, Taken, CallsInv, Seen, TokensInv, TokenNamesUser
<1>2. CASE Tick
  BY <1>2 DEF Tick, IInv, UsersInv, Taken, CallsInv, Seen, TokensInv, TokenNamesUser
<1> QED BY <1>1, <1>2, Cases, StoreStep, ProceedStep, BeginStep, RestartStep

\* IInv holds throughout: ids are handed out once, and what a request has read of the
\* users is still so when it acts on it.
THEOREM Invariance == Spec => []IInv
<1>1. Init => IInv
  <2> SUFFICES ASSUME Init PROVE IInv
    OBVIOUS
  <2>1. UsersInv
    BY DEF Init, UsersInv, FirstId, Taken, NoUser
  <2>2. CallsInv
    BY DEF Init, CallsInv, Seen, Idle
  <2>3. TokensInv
    BY DEF Init, TokensInv, TokenNamesUser
  <2> QED BY <2>1, <2>2, <2>3 DEF IInv
<1>2. IInv /\ [Next]_vars => IInv'
  BY NextStep
<1> QED BY <1>1, <1>2, PTL DEF Spec

\* A token names the user that is stored, with the id that jobs refer to, and was given
\* for the password of the one registration that succeeded.
THEOREM TokensAreTrue == Spec => []TokenNamesUser
<1>1. IInv => TokenNamesUser
  BY DEF IInv, TokensInv
<1> QED BY <1>1, Invariance, PTL

\* No two users share an id, however registrations interleave, fail or clash: neither with
\* the sequence of PostgreSQL nor with the counter in memory.
IdsAreDistinct ==
  \A l, m \in Logins : l # m /\ users[l] # NoUser /\ users[m] # NoUser => users[l].id # users[m].id

THEOREM OneIdEach == Spec => []IdsAreDistinct
<1>1. IInv => IdsAreDistinct
  BY DEF IInv, UsersInv, Taken, IdsAreDistinct
<1> QED BY <1>1, Invariance, PTL

\* Nothing but a restart changes a user who is stored.
THEOREM UsersStay == Spec => UsersAreKept
<1> DEFINE A == \A l \in Logins : users[l] # NoUser => users'[l] = users[l] \/ restarts' # restarts
<1>1. IInv /\ [Next]_vars => A
  <2> SUFFICES ASSUME IInv, [Next]_vars PROVE A
    OBVIOUS
  <2>1. CASE users' = users
    BY <2>1
  <2>2. CASE Restart
    <3>1. restarts \in Nat /\ restarts' = restarts + 1
      BY <2>2 DEF Restart, IInv, UsersInv
    <3> QED BY <3>1
  <2>3. ASSUME NEW c \in Clients, RegisterStore(c) PROVE A
    BY <2>3, StoreStep DEF Kept, Taken
  <2>4. Next /\ users' # users => Restart \/ \E c \in Clients : RegisterStore(c)
    <3>1. ASSUME NEW c \in Clients, LogInCompare(c) PROVE users' = users
      BY <3>1 DEF LogInCompare, Issue
    <3> QED BY <3>1, Cases DEF RegisterConflict, RegisterSign, Issue, Parse, Finish,
                               Validate, Register, LogIn, Tick
  <2> QED BY <2>1, <2>2, <2>3, <2>4 DEF vars
<1>2. IInv /\ [Next]_vars => [A]_vars
  BY <1>1
<1> QED BY <1>2, Invariance, PTL DEF Spec, UsersAreKept

-----------------------------------------------------------------------------
(* Tokens that a request carries past MWAuth                               *)

Names(t) ==
  (InMemory => t.boot = restarts) =>
    \E l \in Logins : users[l] = [id |-> t.id, hash |-> Key[t.by]]

Carries(c) == call[c].at \in {"parse", "served"}

\* The same of t after a step.
StillNames(t) ==
  (InMemory => t.boot = restarts') =>
    \E l \in Logins : users'[l] = [id |-> t.id, hash |-> Key[t.by]]

CarriedInv ==
  \A c \in Clients : Carries(c) => call[c].token.by \in Passwords /\ Names(call[c].token)

\* Only registrations that succeed and restarts change the users.
LEMMA KeptOrRestart ==
  ASSUME IInv, [Next]_vars
  PROVE  Restart \/ (Kept /\ restarts' = restarts)
<1>1. ASSUME NEW c \in Clients, RegisterStore(c) PROVE Kept /\ restarts' = restarts
  BY <1>1, StoreStep DEF RegisterStore
<1>2. ASSUME NEW c \in Clients, RegisterSign(c) \/ LogInCompare(c)
      PROVE  UNCHANGED <<users, restarts>>
  BY <1>2 DEF RegisterSign, LogInCompare, Issue
<1>3. ASSUME NEW c \in Clients, RegisterConflict(c) \/ Parse(c) \/ Finish(c)
      PROVE  UNCHANGED <<users, restarts>>
  BY <1>3 DEF RegisterConflict, Parse, Finish
<1>4. ASSUME NEW c \in Clients, NEW l \in Logins,
             Validate(c, l) \/ \E p \in Passwords : Register(c, l, p) \/ LogIn(c, l, p)
      PROVE  UNCHANGED <<users, restarts>>
  BY <1>4 DEF Validate, Register, LogIn
<1>5. Tick \/ UNCHANGED vars => UNCHANGED <<users, restarts>>
  BY DEF Tick, vars
<1>6. UNCHANGED <<users, restarts>> => Kept /\ restarts' = restarts
  BY DEF Kept
<1> QED BY <1>1, <1>2, <1>3, <1>4, <1>5, <1>6, Cases

\* A step that changes one request: if it carries a token now, it did so before, or the
\* token is one that a client holds.
LEMMA OneSource ==
  ASSUME CallsInv, NEW c \in Clients, NEW k, Continue(c, k),
         k.at \in {"parse", "served"} =>
           \/ Carries(c) /\ k.token = call[c].token
           \/ \E l \in Logins : tokens[l] # NoToken /\ k.token = tokens[l],
         NEW d \in Clients, Carries(d)'
  PROVE  \/ Carries(d) /\ call'[d].token = call[d].token
         \/ \E l \in Logins : tokens[l] # NoToken /\ call'[d].token = tokens[l]
<1>1. call'[d] = IF d = c THEN k ELSE call[d]
  BY DEF CallsInv, Continue
<1> QED BY <1>1 DEF Carries

LEMMA TokenSource ==
  ASSUME IInv, [Next]_vars, NEW d \in Clients, Carries(d)'
  PROVE  \/ Carries(d) /\ call'[d].token = call[d].token
         \/ \E l \in Logins : tokens[l] # NoToken /\ call'[d].token = tokens[l]
<1> DEFINE From == \/ Carries(d) /\ call'[d].token = call[d].token
                   \/ \E l \in Logins : tokens[l] # NoToken /\ call'[d].token = tokens[l]
<1>1. Idle.at = "idle" /\ CallsInv
  BY DEF Idle, IInv
<1>2. ASSUME NEW c \in Clients, NEW k, Continue(c, k), k.at \notin {"parse", "served"} PROVE From
  BY <1>1, <1>2, OneSource
<1>3. ASSUME NEW c \in Clients, RegisterStore(c) PROVE From
  <2> DEFINE k == [at |-> "sign", login |-> call[c].login, password |-> call[c].password, id |-> nextId]
  <2>1. Continue(c, k) \/ Continue(c, Idle)
    BY <1>3 DEF RegisterStore, End
  <2>2. k.at = "sign"
    OBVIOUS
  <2> HIDE DEF k, From
  <2> QED BY <1>1, <1>2, <2>1, <2>2
<1>4. ASSUME NEW c \in Clients, RegisterConflict(c) \/ RegisterSign(c) \/ LogInCompare(c) \/ Finish(c)
      PROVE  From
  <2>1. Continue(c, Idle)
    BY <1>4 DEF RegisterConflict, RegisterSign, LogInCompare, Finish, Issue, End
  <2> HIDE DEF From
  <2> QED BY <1>1, <1>2, <2>1
<1>5. ASSUME NEW c \in Clients, Parse(c) PROVE From
  <2> DEFINE t == call[c].token
             k == [at |-> IF Valid(t) THEN "served" ELSE "refused", token |-> t, time |-> clock]
  <2>1. Continue(c, k) /\ Carries(c)
    BY <1>5 DEF Parse, Decide, Carries
  <2>2. k.token = call[c].token
    OBVIOUS
  <2> HIDE DEF k
  <2> QED BY <1>1, <2>1, <2>2, OneSource
<1>6. ASSUME NEW c \in Clients, NEW l \in Logins, Validate(c, l) PROVE From
  <2> DEFINE t == tokens[l]
             s == [at |-> "parse", token |-> t]
             r == [at |-> IF Valid(t) THEN "served" ELSE "refused", token |-> t, time |-> clock]
  <2>1. (Continue(c, s) \/ Continue(c, r)) /\ tokens[l] # NoToken
    BY <1>6 DEF Validate, Decide
  <2>2. s.token = tokens[l] /\ r.token = tokens[l]
    OBVIOUS
  <2> HIDE DEF s, r
  <2>3. CASE Continue(c, s)
    BY <1>1, <2>1, <2>2, <2>3, OneSource
  <2>4. CASE Continue(c, r)
    BY <1>1, <2>1, <2>2, <2>4, OneSource
  <2> QED BY <2>1, <2>3, <2>4
<1>7. ASSUME NEW c \in Clients, NEW l \in Logins, NEW p \in Passwords,
             Register(c, l, p) \/ LogIn(c, l, p)
      PROVE  From
  <2> DEFINE s == [at |-> "store", login |-> l, password |-> p]
             k == [at |-> "compare", login |-> l, password |-> p, user |-> users[l]]
  <2>1. Continue(c, s) \/ Continue(c, k)
    BY <1>7 DEF Register, LogIn
  <2>2. s.at = "store" /\ k.at = "compare"
    OBVIOUS
  <2> HIDE DEF s, k, From
  <2> QED BY <1>2, <2>1, <2>2
<1>8. Tick \/ UNCHANGED vars => From
  BY DEF Tick, vars, Carries
<1>9. Restart => From
  BY <1>1 DEF Restart, Carries
<1> HIDE DEF From
<1>10. ASSUME Next PROVE From
  <2>1. CASE \E c \in Clients : \/ RegisterStore(c) \/ RegisterConflict(c) \/ RegisterSign(c)
                                \/ LogInCompare(c) \/ Parse(c) \/ Finish(c)
    BY <1>3, <1>4, <1>5, <2>1
  <2>2. CASE \E c \in Clients, l \in Logins : Validate(c, l)
    BY <1>6, <2>2
  <2>3. CASE \E c \in Clients, l \in Logins, p \in Passwords : Register(c, l, p) \/ LogIn(c, l, p)
    BY <1>7, <2>3
  <2> QED BY <1>8, <1>9, <1>10, <2>1, <2>2, <2>3, Cases
<1>11. UNCHANGED vars => From
  BY <1>8
<1>12. From
  BY <1>10, <1>11
<1> QED BY <1>12 DEF From

LEMMA CarriedStep == IInv /\ CarriedInv /\ [Next]_vars => CarriedInv'
<1> SUFFICES ASSUME IInv, CarriedInv, [Next]_vars, NEW c \in Clients, Carries(c)'
             PROVE  call'[c].token.by \in Passwords /\ StillNames(call'[c].token)
  BY DEF CarriedInv, Names, StillNames, InMemory
<1> DEFINE t == call'[c].token
<1>1. CASE Restart
  BY <1>1 DEF Restart, Carries, Idle
<1>2. CASE Kept /\ restarts' = restarts
  <2>1. t.by \in Passwords /\ Names(t)
    <3>1. ASSUME NEW l \in Logins, tokens[l] # NoToken
          PROVE  tokens[l].by \in Passwords /\ Names(tokens[l])
      BY <3>1 DEF IInv, TokensInv, TokenNamesUser, Names
    <3>2. Carries(c) => call[c].token.by \in Passwords /\ Names(call[c].token)
      BY DEF CarriedInv
    <3> QED BY <3>1, <3>2, TokenSource
  <2>2. ASSUME InMemory => t.boot = restarts
        PROVE  \E l \in Logins : users'[l] = [id |-> t.id, hash |-> Key[t.by]]
    <3>1. PICK l \in Logins : users[l] = [id |-> t.id, hash |-> Key[t.by]]
      BY <2>1, <2>2 DEF Names
    <3>2. users[l].hash = Key[t.by] /\ NoUser.hash = "no hash"
      BY <3>1 DEF NoUser
    <3>3. Taken(l)
      BY <2>1, <3>2, AuthAssumption DEF Taken
    <3> QED BY <1>2, <3>1, <3>3 DEF Kept
  <2>3. StillNames(t)
    BY <1>2, <2>2 DEF StillNames
  <2> QED BY <2>1, <2>3
<1> QED BY <1>1, <1>2, KeptOrRestart

\* A handler behind MWAuth works for a user who is stored, with the id in the token,
\* whatever happened since the token was read.
THEOREM ServedAreStored == Spec => []ServedIsSomebody
<1>1. Init => CarriedInv
  BY DEF Init, CarriedInv, Carries, Idle
<1>2. IInv /\ CarriedInv => ServedIsSomebody
  BY DEF CarriedInv, Carries, Names, ServedIsSomebody
<1> QED BY <1>1, <1>2, CarriedStep, Invariance, PTL DEF Spec

-----------------------------------------------------------------------------
(* Expiry                                                                  *)

\* exp is less than a second before the end of token_ttl.
Dated(t) ==
  /\ t.issued \in Nat /\ t.exp \in Nat
  /\ t.exp <= t.issued + TokenTTL /\ t.issued + TokenTTL < t.exp + Second

Judged(c) ==
  /\ call[c].at \in {"parse", "served", "refused"} => Dated(call[c].token)
  /\ call[c].at \in {"served", "refused"} => call[c].time \in Nat
  /\ call[c].at = "served" => call[c].time < call[c].token.exp
  /\ call[c].at = "refused" => call[c].token.exp <= call[c].time

TimeInv ==
  /\ clock \in Nat
  /\ tokens = [l \in Logins |-> tokens[l]]
  /\ \A l \in Logins : tokens[l] # NoToken => Dated(tokens[l])
  /\ call = [c \in Clients |-> call[c]]
  /\ \A c \in Clients : Judged(c)

LEMMA SecondIsPositive == Second \in Nat \ {0} /\ TokenTTL \in Nat
BY AuthAssumption

LEMMA RoundsDown ==
  ASSUME NEW t \in Nat
  PROVE  NumericDate(t) \in Nat /\ NumericDate(t) <= t /\ t < NumericDate(t) + Second
<1>1. Second \in Nat /\ Second > 0
  BY SecondIsPositive
<1>2. t \div Second \in Nat
  BY <1>1
<1>3. t = Second * (t \div Second) + (t % Second) /\ t % Second \in 0..(Second - 1)
  BY <1>1
<1>4. ASSUME NEW q \in Nat, NEW r \in Nat, t = Second * q + r, r < Second
      PROVE  q * Second \in Nat /\ q * Second <= t /\ t < q * Second + Second
  BY <1>1, <1>4
<1> QED BY <1>1, <1>2, <1>3, <1>4 DEF NumericDate

LEMMA CreatedIsDated ==
  ASSUME clock \in Nat, NEW i, NEW p
  PROVE  Dated(Create(i, p))
<1>1. Create(i, p).issued = clock /\ Create(i, p).exp = NumericDate(clock + TokenTTL)
  BY DEF Create
<1>2. clock + TokenTTL \in Nat
  BY SecondIsPositive
<1> QED BY <1>1, <1>2, RoundsDown DEF Dated

\* A step that changes one request and keeps the tokens.
LEMMA OneJudged ==
  ASSUME TimeInv, NEW c \in Clients, NEW k, Continue(c, k), UNCHANGED <<tokens, clock>>,
         k.at \in {"parse", "served", "refused"} => Dated(k.token),
         k.at \in {"served", "refused"} => k.time \in Nat,
         k.at = "served" => k.time < k.token.exp,
         k.at = "refused" => k.token.exp <= k.time
  PROVE  TimeInv'
<1>1. call' = [d \in Clients |-> call'[d]] /\ \A d \in Clients : call'[d] = IF d = c THEN k ELSE call[d]
  BY DEF TimeInv, Continue
<1>2. ASSUME NEW d \in Clients PROVE Judged(d)'
  <2>1. CASE d = c
    BY <1>1, <2>1 DEF Judged
  <2>2. CASE d # c
    BY <1>1, <2>2 DEF TimeInv, Judged
  <2> QED BY <2>1, <2>2
<1> QED BY <1>1, <1>2 DEF TimeInv

\* Requests that do not look at a token.
LEMMA Unjudged ==
  ASSUME TimeInv, NEW c \in Clients, NEW k, Continue(c, k), UNCHANGED <<tokens, clock>>,
         k.at \notin {"parse", "served", "refused"}
  PROVE  TimeInv'
BY OneJudged

LEMMA IssueIsDated ==
  ASSUME TimeInv, NEW c \in Clients, NEW l \in Logins, NEW i, NEW p, Issue(c, l, i, p)
  PROVE  TimeInv'
<1>1. Continue(c, Idle) /\ clock' = clock /\ Idle.at = "idle"
  BY DEF Issue, End, Idle
<1>2. CASE ~CanSign
  BY <1>1, <1>2, Unjudged DEF Issue
<1>3. CASE CanSign
  <2> DEFINE t == Create(i, p)
  <2>1. tokens' = [tokens EXCEPT ![l] = t] /\ Dated(t)
    BY <1>3, CreatedIsDated DEF Issue, TimeInv
  <2> HIDE DEF t
  <2>2. tokens' = [m \in Logins |-> tokens'[m]]
        /\ \A m \in Logins : tokens'[m] = IF m = l THEN t ELSE tokens[m]
    BY <2>1 DEF TimeInv
  <2>3. \A m \in Logins : tokens'[m] # NoToken => Dated(tokens'[m])
    BY <2>1, <2>2 DEF TimeInv
  <2>4. call' = [d \in Clients |-> call'[d]] /\ \A d \in Clients : call'[d] = IF d = c THEN Idle ELSE call[d]
    BY <1>1 DEF TimeInv, Continue
  <2>5. \A d \in Clients : Judged(d)'
    BY <1>1, <2>4 DEF TimeInv, Judged
  <2> QED BY <1>1, <2>2, <2>3, <2>4, <2>5 DEF TimeInv
<1> QED BY <1>2, <1>3

\* MWAuth looks at the clock and says what it saw.
LEMMA DecisionIsJudged ==
  ASSUME TimeInv, NEW c \in Clients, NEW t, Dated(t), Decide(c, t), UNCHANGED <<tokens, clock>>
  PROVE  TimeInv'
<1> DEFINE k == [at |-> IF Valid(t) THEN "served" ELSE "refused", token |-> t, time |-> clock]
<1>1. k.token = t /\ k.time = clock /\ Continue(c, k)
  BY DEF Decide
<1>2. IF clock < t.exp THEN k.at = "served" ELSE k.at = "refused"
  BY DEF Valid
<1>3. clock \in Nat /\ t.exp \in Nat
  BY DEF TimeInv, Dated
<1> HIDE DEF k
<1>4. CASE clock < t.exp
  BY <1>1, <1>2, <1>3, <1>4, OneJudged
<1>5. CASE ~(clock < t.exp)
  <2>1. t.exp <= clock
    BY <1>3, <1>5
  <2> QED BY <1>1, <1>2, <1>3, <1>5, <2>1, OneJudged
<1> QED BY <1>4, <1>5

LEMMA TimeStep ==
  ASSUME IInv, TimeInv, [Next]_vars
  PROVE  TimeInv'
<1>1. CASE UNCHANGED vars
  BY <1>1 DEF vars, TimeInv, Judged
<1>2. CASE Tick
  BY <1>2 DEF Tick, TimeInv, Judged
<1>3. CASE Restart
  <2>1. clock' = clock /\ tokens' = tokens /\ call' = [c \in Clients |-> Idle] /\ Idle.at = "idle"
    BY <1>3 DEF Restart, Idle
  <2> QED BY <2>1 DEF TimeInv, Judged
<1>4. ASSUME NEW c \in Clients, RegisterStore(c) PROVE TimeInv'
  <2>1. PICK o \in UserOutcomes :
          IF o = "ok"
          THEN Continue(c, [at |-> "sign", login |-> call[c].login,
                            password |-> call[c].password, id |-> nextId])
          ELSE End(c)
    BY <1>4 DEF RegisterStore
  <2>2. UNCHANGED <<tokens, clock>>
    BY <1>4 DEF RegisterStore
  <2> DEFINE k == [at |-> "sign", login |-> call[c].login, password |-> call[c].password, id |-> nextId]
  <2>3. k.at = "sign" /\ Idle.at = "idle"
    BY DEF Idle
  <2>4. Continue(c, k) \/ Continue(c, Idle)
    BY <2>1 DEF End
  <2> HIDE DEF k
  <2> QED BY <2>2, <2>3, <2>4, Unjudged
<1>5. ASSUME NEW c \in Clients, RegisterConflict(c) \/ Finish(c) PROVE TimeInv'
  BY <1>5, Unjudged DEF RegisterConflict, Finish, End, Idle
<1>6. ASSUME NEW c \in Clients, RegisterSign(c) PROVE TimeInv'
  <2>1. call[c].login \in Logins
    BY <1>6 DEF RegisterSign, IInv, CallsInv, Seen
  <2> QED BY <1>6, <2>1, IssueIsDated DEF RegisterSign
<1>7. ASSUME NEW c \in Clients, LogInCompare(c) PROVE TimeInv'
  <2>1. call[c].login \in Logins
    BY <1>7 DEF LogInCompare, IInv, CallsInv, Seen
  <2>2. CASE Compare(call[c].user.hash, call[c].password)
    BY <1>7, <2>1, <2>2, IssueIsDated DEF LogInCompare
  <2>3. CASE ~Compare(call[c].user.hash, call[c].password)
    BY <1>7, <2>3, Unjudged DEF LogInCompare, End, Idle
  <2> QED BY <2>2, <2>3
<1>8. ASSUME NEW c \in Clients, Parse(c) PROVE TimeInv'
  <2>1. Dated(call[c].token) /\ Decide(c, call[c].token) /\ UNCHANGED <<tokens, clock>>
    BY <1>8 DEF Parse, TimeInv, Judged
  <2> QED BY <2>1, DecisionIsJudged
<1>9. ASSUME NEW c \in Clients, NEW l \in Logins, Validate(c, l) PROVE TimeInv'
  <2>1. Dated(tokens[l]) /\ UNCHANGED <<tokens, clock>>
    BY <1>9 DEF Validate, TimeInv
  <2>2. CASE Decide(c, tokens[l])
    BY <2>1, <2>2, DecisionIsJudged
  <2>3. CASE Continue(c, [at |-> "parse", token |-> tokens[l]])
    <3> DEFINE k == [at |-> "parse", token |-> tokens[l]]
    <3>1. k.at = "parse" /\ k.token = tokens[l] /\ Continue(c, k)
      BY <2>3
    <3> HIDE DEF k
    <3> QED BY <2>1, <3>1, OneJudged
  <2> QED BY <1>9, <2>2, <2>3 DEF Validate
<1>10. ASSUME NEW c \in Clients, NEW l \in Logins, NEW p \in Passwords, Register(c, l, p) \/ LogIn(c, l, p)
       PROVE  TimeInv'
  <2> DEFINE s == [at |-> "store", login |-> l, password |-> p]
             k == [at |-> "compare", login |-> l, password |-> p, user |-> users[l]]
  <2>1. Continue(c, s) \/ Continue(c, k)
    BY <1>10 DEF Register, LogIn
  <2>2. s.at = "store" /\ k.at = "compare"
    OBVIOUS
  <2>3. UNCHANGED <<tokens, clock>>
    BY <1>10 DEF Register, LogIn
  <2> HIDE DEF s, k
  <2> QED BY <2>1, <2>2, <2>3, Unjudged
<1> QED BY <1>1, <1>2, <1>3, <1>4, <1>5, <1>6, <1>7, <1>8, <1>9, <1>10, Cases

\* MWAuth lets no token through once token_ttl is over and refuses none a second or
\* more before that, for every token_ttl, although exp is cut to whole seconds.
THEOREM TokensExpireOnTime == Spec => []TokenLivesItsTTL
<1>1. Init => TimeInv
  BY DEF Init, TimeInv, Judged, Idle
<1>2. IInv /\ TimeInv /\ [Next]_vars => TimeInv'
  BY TimeStep
<1>3. TimeInv => TokenLivesItsTTL
  <2> SUFFICES ASSUME TimeInv, NEW c \in Clients
               PROVE  /\ call[c].at = "served" => call[c].time < call[c].token.issued + TokenTTL
                      /\ call[c].at = "refused" => call[c].time + Second > call[c].token.issued + TokenTTL
    BY DEF TokenLivesItsTTL
  <2>1. ASSUME NEW time \in Nat, NEW exp \in Nat, NEW issued \in Nat,
               exp <= issued + TokenTTL, issued + TokenTTL < exp + Second
        PROVE  /\ time < exp => time < issued + TokenTTL
               /\ exp <= time => time + Second > issued + TokenTTL
    BY <2>1, SecondIsPositive
  <2> QED BY <2>1 DEF TimeInv, Judged, Dated
<1> QED BY <1>1, <1>2, <1>3, Invariance, PTL DEF Spec

-----------------------------------------------------------------------------
(* Types                                                                   *)

CallType == Call \cup {Idle}

LEMMA OneTyped ==
  ASSUME TypeOK, NEW c \in Clients, NEW k \in CallType, Continue(c, k)
  PROVE  call' \in [Clients -> CallType]
BY DEF TypeOK, Continue, CallType

\* What a request at each of its stops carries with it.
LEMMA CallParts ==
  ASSUME TypeOK, NEW c \in Clients
  PROVE  /\ call[c].at \in {"store", "sign", "compare"} =>
              call[c].login \in Logins /\ call[c].password \in Passwords
         /\ call[c].at = "sign" => call[c].id \in Nat
         /\ call[c].at = "compare" => call[c].user \in User
         /\ call[c].at = "parse" => call[c].token \in Token
<1>1. call[c] \in Call \cup {Idle} /\ Idle.at = "idle"
  BY DEF TypeOK, Idle
<1>2. CASE call[c] = Idle
  BY <1>1, <1>2
<1>3. CASE call[c] \in [at : {"store"}, login : Logins, password : Passwords]
  BY <1>3
<1>4. CASE call[c] \in [at : {"sign"}, login : Logins, password : Passwords, id : Nat]
  BY <1>4
<1>5. CASE call[c] \in [at : {"compare"}, login : Logins, password : Passwords, user : User]
  BY <1>5
<1>6. CASE call[c] \in [at : {"parse"}, token : Token]
  BY <1>6
<1>7. CASE call[c] \in [at : {"served", "refused"}, token : Token, time : Nat]
  BY <1>7
<1> QED BY <1>1, <1>2, <1>3, <1>4, <1>5, <1>6, <1>7 DEF Call

LEMMA IssueTyped ==
  ASSUME TypeOK, NEW c \in Clients, NEW l \in Logins, NEW i \in Nat, NEW p \in Passwords,
         Issue(c, l, i, p)
  PROVE  TypeOK'
<1> DEFINE t == Create(i, p)
<1>1. t \in Token
  <2>1. clock \in Nat /\ restarts \in Nat /\ clock + TokenTTL \in Nat
    BY SecondIsPositive DEF TypeOK
  <2>2. NumericDate(clock + TokenTTL) \in Nat /\ (IF InMemory THEN restarts ELSE 0) \in Nat
    BY <2>1, RoundsDown
  <2> QED BY <2>1, <2>2 DEF Create, Token
<1>2. call' \in [Clients -> CallType]
  BY OneTyped DEF Issue, End, CallType
<1> HIDE DEF t
<1>3. tokens' \in [Logins -> Token \cup {NoToken}]
  <2>1. tokens \in [Logins -> Token \cup {NoToken}]
    BY DEF TypeOK
  <2>2. tokens' = tokens \/ tokens' = [tokens EXCEPT ![l] = t]
    BY DEF Issue, t
  <2> QED BY <1>1, <2>1, <2>2
<1> QED BY <1>2, <1>3 DEF Issue, TypeOK, CallType

\* A request that changes nothing but itself, and perhaps uses up an id.
LEMMA CallTyped ==
  ASSUME TypeOK, NEW c \in Clients, NEW k \in CallType, Continue(c, k),
         UNCHANGED <<users, tokens, clock, restarts>>, nextId' \in Nat
  PROVE  TypeOK'
BY OneTyped DEF TypeOK, CallType

LEMMA DecisionTyped ==
  ASSUME TypeOK, NEW c \in Clients, NEW t \in Token, Decide(c, t),
         UNCHANGED <<users, nextId, tokens, clock, restarts>>
  PROVE  TypeOK'
<1> DEFINE k == [at |-> IF Valid(t) THEN "served" ELSE "refused", token |-> t, time |-> clock]
<1>1. Continue(c, k) /\ nextId' \in Nat /\ clock \in Nat
  BY DEF TypeOK, Decide
<1>2. k \in CallType
  BY <1>1 DEF CallType, Call
<1> HIDE DEF k
<1> QED BY <1>1, <1>2, CallTyped

LEMMA StoreTyped ==
  ASSUME TypeOK, NEW c \in Clients, RegisterStore(c)
  PROVE  TypeOK'
<1> DEFINE l == call[c].login
           p == call[c].password
           u == [id |-> nextId, hash |-> Key[p]]
           k == [at |-> "sign", login |-> l, password |-> p, id |-> nextId]
<1>1. l \in Logins /\ p \in Passwords /\ nextId \in Nat
  BY CallParts DEF RegisterStore, TypeOK
<1>2. u \in User
  BY <1>1, UserIsSomebody
<1>3. k \in CallType /\ Idle \in CallType
  BY <1>1 DEF CallType, Call
<1>4. /\ \/ users' = users /\ nextId' = nextId
         \/ users' = [users EXCEPT ![l] = u] /\ nextId' = nextId + 1
      /\ Continue(c, k) \/ Continue(c, Idle)
      /\ UNCHANGED <<tokens, clock, restarts>>
  <2>1. PICK o \in UserOutcomes :
          /\ IF o = "fail" THEN UNCHANGED <<users, nextId>>
             ELSE users' = [users EXCEPT ![l] = u] /\ nextId' = nextId + 1
          /\ IF o = "ok" THEN Continue(c, k) ELSE End(c)
    BY DEF RegisterStore
  <2>2. UNCHANGED <<tokens, clock, restarts>>
    BY DEF RegisterStore
  <2> HIDE DEF k, u
  <2> QED BY <2>1, <2>2 DEF End
<1> HIDE DEF k, u
<1>5. call' \in [Clients -> CallType]
  BY <1>3, <1>4, OneTyped
<1>6. users \in [Logins -> User \cup {NoUser}]
  BY DEF TypeOK
<1>7. CASE users' = users /\ nextId' = nextId
  BY <1>4, <1>5, <1>7 DEF TypeOK, CallType
<1>8. CASE users' = [users EXCEPT ![l] = u] /\ nextId' = nextId + 1
  <2> HIDE DEF l
  <2>1. users' \in [Logins -> User \cup {NoUser}]
    BY <1>1, <1>2, <1>6, <1>8
  <2>2. nextId' \in Nat
    BY <1>1, <1>8
  <2> QED BY <1>4, <1>5, <2>1, <2>2 DEF TypeOK, CallType
<1> QED BY <1>4, <1>7, <1>8

LEMMA TypeStep == TypeOK /\ [Next]_vars => TypeOK'
<1> SUFFICES ASSUME TypeOK, [Next]_vars PROVE TypeOK'
  OBVIOUS
<1>1. CASE UNCHANGED vars
  BY <1>1 DEF vars, TypeOK
<1>2. CASE Tick
  BY <1>2 DEF Tick, TypeOK
<1>3. CASE Restart
  BY <1>3 DEF Restart, TypeOK, FirstId
<1>4. ASSUME NEW c \in Clients, RegisterConflict(c) \/ Finish(c) PROVE TypeOK'
  <2>1. nextId' \in Nat /\ Idle \in CallType
    BY <1>4 DEF RegisterConflict, Finish, TypeOK, CallType
  <2> QED BY <1>4, <2>1, CallTyped DEF RegisterConflict, Finish, End
<1>5. ASSUME NEW c \in Clients, RegisterSign(c) PROVE TypeOK'
  BY <1>5, CallParts, IssueTyped DEF RegisterSign
<1>6. ASSUME NEW c \in Clients, LogInCompare(c) PROVE TypeOK'
  <2>1. /\ call[c].login \in Logins /\ call[c].password \in Passwords /\ call[c].user.id \in Nat
        /\ nextId \in Nat /\ Idle \in CallType
    BY <1>6, CallParts DEF LogInCompare, User, TypeOK, CallType
  <2>2. CASE Compare(call[c].user.hash, call[c].password)
    BY <1>6, <2>1, <2>2, IssueTyped DEF LogInCompare
  <2>3. CASE ~Compare(call[c].user.hash, call[c].password)
    BY <1>6, <2>1, <2>3, CallTyped DEF LogInCompare, End
  <2> QED BY <2>2, <2>3
<1>7. ASSUME NEW c \in Clients, Parse(c) PROVE TypeOK'
  BY <1>7, CallParts, DecisionTyped DEF Parse
<1>8. ASSUME NEW c \in Clients, NEW l \in Logins, Validate(c, l) PROVE TypeOK'
  <2>1. tokens[l] \in Token /\ nextId \in Nat
    BY <1>8 DEF Validate, TypeOK
  <2>2. CASE Decide(c, tokens[l])
    BY <1>8, <2>1, <2>2, DecisionTyped DEF Validate
  <2>3. CASE Continue(c, [at |-> "parse", token |-> tokens[l]])
    <3>1. [at |-> "parse", token |-> tokens[l]] \in CallType
      BY <2>1 DEF CallType, Call
    <3> QED BY <1>8, <2>1, <2>3, <3>1, CallTyped DEF Validate
  <2> QED BY <1>8, <2>2, <2>3 DEF Validate
<1>9. ASSUME NEW c \in Clients, NEW l \in Logins, NEW p \in Passwords, Register(c, l, p)
      PROVE  TypeOK'
  <2>1. [at |-> "store", login |-> l, password |-> p] \in CallType /\ nextId \in Nat
    BY DEF CallType, Call, TypeOK
  <2> QED BY <1>9, <2>1, CallTyped DEF Register
<1>10. ASSUME NEW c \in Clients, NEW l \in Logins, NEW p \in Passwords, LogIn(c, l, p)
       PROVE  TypeOK'
  <2>1. users[l] \in User /\ nextId \in Nat
    BY <1>10 DEF LogIn, TypeOK
  <2>2. [at |-> "compare", login |-> l, password |-> p, user |-> users[l]] \in CallType
    BY <2>1 DEF CallType, Call
  <2> QED BY <1>10, <2>1, <2>2, CallTyped DEF LogIn
<1> QED BY <1>1, <1>2, <1>3, <1>4, <1>5, <1>6, <1>7, <1>8, <1>9, <1>10, StoreTyped, Cases

\* Every user, token and request in flight stays in its type: no user without a hash
\* and no request that acts on a user or a token that is not there.
THEOREM TypeCorrect == Spec => []TypeOK
<1>1. Init => TypeOK
  BY DEF Init, TypeOK, FirstId
<1> QED BY <1>1, TypeStep, PTL DEF Spec

-----------------------------------------------------------------------------
(* Progress.  The prover does not know ENABLED, so what FairSpec says of requests and   *)
(* owners is taken in the form that it has by the guards: a request that is under way   *)
(* can always go on, and a login can begin whenever a slot is free.                     *)

Free(c) == call[c] = Idle

\* Two steps from the end of the request, and one.
Early(c) == call[c].at \in {"store", "parse"}
Late(c)  == call[c].at \in {"sign", "compare", "served", "refused"}

\* Weak fairness of Proceed(c).
GoesOn(c) == []<>Free(c) \/ []<><<Proceed(c)>>_vars

Missing(l) == Taken(l) /\ tokens[l] = NoToken
SomeSlot   == \E c \in Clients : Free(c)

CanLogIn(l) == Missing(l) /\ SomeSlot /\ "ok" \in UserOutcomes

\* Strong fairness of OwnerLogsIn(l): an owner without a token who again and again finds a
\* slot takes one, again and again.
ComesBack(l) == <>[]~CanLogIn(l) \/ []<><<OwnerLogsIn(l)>>_vars

\* The password of a request that logs l in is about to be compared, and is right.
Trying(l, c) ==
  /\ call[c].at = "compare" /\ call[c].login = l
  /\ Compare(call[c].user.hash, call[c].password)

LoggingIn(l) == \E c \in Clients : Trying(l, c)
Answers(l)   == \E c \in Clients : Trying(l, c) /\ LogInCompare(c)

\* Weak fairness of Proceed, for the slot that the owner of l has got.
IsAnswered(l) == []<>~LoggingIn(l) \/ []<><<Answers(l)>>_vars

\* MaxRestarts bounds the restarts, so they come to an end.
RestartsEnd == <>[][restarts' = restarts]_vars

LEMMA CallIs ==
  ASSUME IInv, NEW c \in Clients, NEW k, Continue(c, k)
  PROVE  \A d \in Clients : call'[d] = IF d = c THEN k ELSE call[d]
BY DEF Continue, IInv, CallsInv

LEMMA StopsAt ==
  ASSUME TypeOK, NEW c \in Clients
  PROVE  Free(c) \/ Early(c) \/ Late(c)
<1>1. call[c] \in Call \cup {Idle}
  BY DEF TypeOK
<1>2. ASSUME call[c] \in Call PROVE Early(c) \/ Late(c)
  <2>1. CASE call[c] \in [at : {"store"}, login : Logins, password : Passwords]
    BY <2>1 DEF Early
  <2>2. CASE call[c] \in [at : {"sign"}, login : Logins, password : Passwords, id : Nat]
    BY <2>2 DEF Late
  <2>3. CASE call[c] \in [at : {"compare"}, login : Logins, password : Passwords, user : User]
    BY <2>3 DEF Late
  <2>4. CASE call[c] \in [at : {"parse"}, token : Token]
    BY <2>4 DEF Early
  <2>5. CASE call[c] \in [at : {"served", "refused"}, token : Token, time : Nat]
    BY <2>5 DEF Late
  <2> QED BY <1>2, <2>1, <2>2, <2>3, <2>4, <2>5 DEF Call
<1> QED BY <1>1, <1>2 DEF Free

\* A step of c that is under way.
LEMMA OwnCall ==
  ASSUME IInv, NEW c \in Clients, Proceed(c)
  PROVE  /\ Early(c) => Late(c)' \/ Free(c)'
         /\ Late(c) => Free(c)'
         /\ \A d \in Clients \ {c} : call'[d] = call[d]
<1> USE DEF Early, Late, Free, End
<1>1. CASE RegisterStore(c)
  <2> DEFINE k == [at |-> "sign", login |-> call[c].login, password |-> call[c].password, id |-> nextId]
  <2>1. call[c].at = "store" /\ (Continue(c, k) \/ Continue(c, Idle)) /\ k.at = "sign"
    BY <1>1 DEF RegisterStore
  <2> HIDE DEF k
  <2> QED BY <2>1, CallIs
<1>2. CASE RegisterConflict(c)
  BY <1>2, CallIs DEF RegisterConflict
<1>3. CASE RegisterSign(c)
  BY <1>3, CallIs DEF RegisterSign, Issue
<1>4. CASE LogInCompare(c)
  BY <1>4, CallIs DEF LogInCompare, Issue
<1>5. CASE Parse(c)
  <2> DEFINE k == [at |-> IF Valid(call[c].token) THEN "served" ELSE "refused",
                   token |-> call[c].token, time |-> clock]
  <2>1. call[c].at = "parse" /\ Continue(c, k) /\ k.at \in {"served", "refused"}
    BY <1>5 DEF Parse, Decide
  <2> HIDE DEF k
  <2> QED BY <2>1, CallIs
<1>6. CASE Finish(c)
  BY <1>6, CallIs DEF Finish
<1> QED BY <1>1, <1>2, <1>3, <1>4, <1>5, <1>6 DEF Proceed

\* Others leave a request that is under way alone, and a restart ends it.
LEMMA OtherCall ==
  ASSUME IInv, [Next]_vars, NEW c \in Clients, ~Free(c), ~Proceed(c)
  PROVE  call'[c] = call[c] \/ (Restart /\ Free(c)')
<1>1. ASSUME NEW d \in Clients, Proceed(d) PROVE call'[c] = call[c]
  BY <1>1, OwnCall
<1>2. ASSUME NEW d \in Clients, d # c, NEW k, Continue(d, k) PROVE call'[c] = call[c]
  BY <1>2, CallIs
<1>3. ASSUME NEW d \in Clients, NEW l \in Logins, Validate(d, l) PROVE call'[c] = call[c]
  <2>1. d # c
    BY <1>3 DEF Validate, Free
  <2> QED BY <1>2, <1>3, <2>1 DEF Validate, Decide
<1>4. ASSUME NEW d \in Clients, NEW l \in Logins, NEW p \in Passwords, Register(d, l, p) \/ LogIn(d, l, p)
      PROVE  call'[c] = call[c]
  <2>1. d # c
    BY <1>4 DEF Register, LogIn, Free
  <2> QED BY <1>2, <1>4, <2>1 DEF Register, LogIn
<1>5. CASE Tick \/ UNCHANGED vars
  BY <1>5 DEF Tick, vars
<1>6. CASE Restart
  BY <1>6 DEF Restart, Free
<1> QED BY <1>1, <1>3, <1>4, <1>5, <1>6 DEF Next

\* The slots: whatever a request is doing, its slot is free again before long.
LEMMA SlotsAreFreed ==
  ASSUME NEW c \in Clients
  PROVE  Spec /\ GoesOn(c) => []<>SomeSlot
<1> USE DEF Early, Late, Free
<1>0. Early(c) \/ Late(c) => ~Free(c)
  BY DEF Idle
<1>1. IInv /\ Early(c) /\ [Next]_vars => Early(c)' \/ Late(c)' \/ Free(c)'
  <2> SUFFICES ASSUME IInv, Early(c), [Next]_vars PROVE Early(c)' \/ Late(c)' \/ Free(c)'
    OBVIOUS
  <2>1. CASE Proceed(c)
    BY <2>1, OwnCall
  <2>2. CASE ~Proceed(c)
    BY <1>0, <2>2, OtherCall
  <2> QED BY <2>1, <2>2
<1>2. IInv /\ Early(c) /\ <<Proceed(c)>>_vars => Late(c)' \/ Free(c)'
  BY OwnCall
<1>3. IInv /\ Late(c) /\ [Next]_vars => Late(c)' \/ Free(c)'
  <2> SUFFICES ASSUME IInv, Late(c), [Next]_vars PROVE Late(c)' \/ Free(c)'
    OBVIOUS
  <2>1. CASE Proceed(c)
    BY <2>1, OwnCall
  <2>2. CASE ~Proceed(c)
    BY <1>0, <2>2, OtherCall
  <2> QED BY <2>1, <2>2
<1>4. IInv /\ Late(c) /\ <<Proceed(c)>>_vars => Free(c)'
  BY OwnCall
<1>5. TypeOK => Free(c) \/ Early(c) \/ Late(c)
  BY StopsAt
<1>6. Free(c) => SomeSlot
  BY DEF SomeSlot
<1> HIDE DEF Early, Late, Free
<1> QED BY <1>1, <1>2, <1>3, <1>4, <1>5, <1>6, Invariance, TypeCorrect, PTL DEF Spec, GoesOn

HasToken(l) == ~(tokens[l] = NoToken)

\* A login that is under way with the right password ends with a token.
LEMMA AnswerStep ==
  ASSUME IInv, CanSign, NEW l \in Logins, Answers(l)
  PROVE  HasToken(l)'
<1>1. PICK c \in Clients : Trying(l, c) /\ LogInCompare(c)
  BY DEF Answers
<1>2. Issue(c, l, call[c].user.id, call[c].password) /\ call[c].password \in Passwords
  BY <1>1 DEF Trying, LogInCompare, IInv, CallsInv, Seen
<1> DEFINE t == Create(call[c].user.id, call[c].password)
<1>3. tokens' = [tokens EXCEPT ![l] = t] /\ t # NoToken
  BY <1>2, TokenIsSomething DEF Issue
<1> HIDE DEF t
<1> QED BY <1>3 DEF HasToken, IInv, TokensInv

\* It is not disturbed by anybody.
LEMMA LoginStep ==
  ASSUME IInv, CanSign, NEW l \in Logins, LoggingIn(l), [Next]_vars, restarts' = restarts
  PROVE  LoggingIn(l)' \/ HasToken(l)'
<1>1. PICK c \in Clients : Trying(l, c)
  BY DEF LoggingIn
<1>2. ~Free(c) /\ call[c].at = "compare"
  BY <1>1 DEF Trying, Free, Idle
<1>3. CASE Proceed(c)
  <2>1. LogInCompare(c)
    BY <1>2, <1>3 DEF Proceed, RegisterStore, RegisterConflict, RegisterSign, Parse, Finish
  <2> QED BY <1>1, <2>1, AnswerStep DEF Answers
<1>4. CASE ~Proceed(c)
  <2>1. ~Restart
    BY DEF Restart, IInv, UsersInv
  <2>2. call'[c] = call[c]
    BY <1>2, <1>4, <2>1, OtherCall
  <2> QED BY <1>1, <2>2 DEF LoggingIn, Trying
<1> QED BY <1>3, <1>4

LEMMA OwnerStep ==
  ASSUME IInv, NEW l \in Logins, OwnerLogsIn(l)
  PROVE  LoggingIn(l)'
<1>1. PICK c \in Clients, p \in Passwords : LogIn(c, l, p) /\ Compare(users[l].hash, p)
  BY DEF OwnerLogsIn
<1> DEFINE k == [at |-> "compare", login |-> l, password |-> p, user |-> users[l]]
<1>2. Continue(c, k)
  BY <1>1 DEF LogIn
<1>3. k.at = "compare" /\ k.login = l /\ k.password = p /\ k.user = users[l]
  OBVIOUS
<1> HIDE DEF k
<1>4. call'[c] = k
  BY <1>2, CallIs
<1> QED BY <1>1, <1>3, <1>4 DEF LoggingIn, Trying, Compare

\* With PostgreSQL, which keeps users across restarts, whoever is registered gets a token
\* in the end, whether or not the registration was answered with an error, and however many
\* others log in at the same time.
THEOREM NobodyIsLockedOut ==
  ASSUME Clients # {}, ~InMemory, CanSign, "ok" \in UserOutcomes
  PROVE  Spec /\ RestartsEnd
         /\ (\A c \in Clients : GoesOn(c))
         /\ (\A l \in Logins : ComesBack(l) /\ IsAnswered(l)) => NoLockOut
<1>1. PICK c \in Clients : TRUE
  OBVIOUS
<1>2. Spec /\ GoesOn(c) => []<>SomeSlot
  BY SlotsAreFreed
<1>3. ASSUME NEW l \in Logins
      PROVE  Spec /\ RestartsEnd /\ []<>SomeSlot /\ (ComesBack(l) /\ IsAnswered(l))
             => (users[l] # NoUser ~> tokens[l] # NoToken)
  <2>1. IInv /\ Taken(l) /\ [Next]_vars => Taken(l)'
    <3> SUFFICES ASSUME IInv, Taken(l), [Next]_vars PROVE Taken(l)'
      OBVIOUS
    <3>1. ASSUME NEW d \in Clients, RegisterStore(d) PROVE users'[l] = users[l]
      BY <3>1, StoreStep DEF Kept
    <3>2. Next /\ users' # users => \E d \in Clients : RegisterStore(d)
      <4>1. ASSUME NEW d \in Clients, LogInCompare(d) PROVE users' = users
        BY <4>1 DEF LogInCompare, Issue
      <4> QED BY <4>1, Cases DEF RegisterConflict, RegisterSign, Issue, Parse, Finish,
                                 Validate, Register, LogIn, Tick, Restart
    <3> QED BY <3>1, <3>2 DEF Taken, vars
  <2>2. Taken(l) => Missing(l) \/ HasToken(l)
    BY DEF Missing, HasToken
  <2>3. Missing(l) /\ SomeSlot => CanLogIn(l)
    BY DEF CanLogIn
  <2>4. IInv /\ <<OwnerLogsIn(l)>>_vars => LoggingIn(l)'
    BY OwnerStep
  <2>5. IInv /\ LoggingIn(l) /\ [Next]_vars /\ [restarts' = restarts]_vars
        => LoggingIn(l)' \/ HasToken(l)'
    BY LoginStep DEF vars
  <2>6. IInv /\ <<Answers(l)>>_vars => HasToken(l)'
    BY AnswerStep
  <2>7. (users[l] # NoUser <=> Taken(l)) /\ (tokens[l] # NoToken <=> HasToken(l))
    BY DEF Taken, HasToken
  <2>8. Spec => [](Taken(l) => []Taken(l))
    BY <2>1, Invariance, PTL DEF Spec
  \* A login that is tried without another restart is answered.
  <2>9. []IInv /\ [][Next]_vars /\ [][restarts' = restarts]_vars /\ IsAnswered(l)
        => [](LoggingIn(l) => <>HasToken(l))
    BY <2>5, <2>6, PTL DEF IsAnswered
  \* Nobody who is registered stays without a token for ever.
  <2>10. Spec /\ RestartsEnd /\ []<>SomeSlot /\ (ComesBack(l) /\ IsAnswered(l))
         => [](Taken(l) => <>HasToken(l))
    BY <2>2, <2>3, <2>4, <2>8, <2>9, Invariance, PTL DEF Spec, RestartsEnd, ComesBack, IsAnswered
  <2> QED BY <2>7, <2>10, PTL
<1>4. Spec /\ RestartsEnd /\ []<>SomeSlot /\ (\A l \in Logins : ComesBack(l) /\ IsAnswered(l))
      => NoLockOut
  BY <1>3, Zenon DEF NoLockOut
<1>5. (\A d \in Clients : GoesOn(d)) => GoesOn(c)
  BY Zenon
<1> QED BY <1>2, <1>4, <1>5, Zenon
=============================================================================
