-------------------------------- MODULE Auth --------------------------------
(***************************************************************************)
(* Registration, login and tokens: service.Auth on top of the hasher, the  *)
(* token manager and a UserStorage, and MWAuth, which checks the token of  *)
(* every other request.                                                    *)
(*                                                                         *)
(* A Client is a slot for one request; between two of its calls (storage,  *)
(* token manager) other requests run, time passes and the server restarts. *)
(* Tokens outlive the server: their secret comes from its environment.     *)
(* A request that is refused before its first call changes nothing and has *)
(* no action here.                                                         *)
(***************************************************************************)
EXTENDS Naturals

CONSTANTS
  Clients,
  Logins,           \* the logins that requests name; "" is one of them or not
  Passwords, Short, Long, \* all; below min_password_len; above 72 bytes
  Key,              \* external: what bcrypt looks at, the first 72 bytes
  StorageType,      \* storage.type of the configuration
  UserOutcomes,     \* how a statement on users can end: "ok", "fail" (no
                    \* effect), "lost" (it took effect, yet an error)
  JWTSigningMethod, \* jwt.jwt_signing_method of the configuration
  TokenTTL, Second, \* token_ttl and one second, in steps of the clock
  MaxIds,           \* bound: no registration begins when that many ids are used
  MaxClock,         \* bound of the clock
  MaxRestarts       \* bound: how often the server is started again

ASSUME AuthAssumption ==
  /\ Short \cup Long \subseteq Passwords
  /\ DOMAIN Key = Passwords /\ "nobody" \notin Passwords
  /\ \A p \in Passwords : Key[p] # "no hash"
  /\ StorageType \in {"postgres", "in_memory"}
  /\ UserOutcomes \subseteq {"ok", "fail", "lost"}
  /\ StorageType = "in_memory" => UserOutcomes = {"ok"}
  /\ TokenTTL \in Nat /\ Second \in Nat \ {0}
  /\ MaxIds \in Nat /\ MaxClock \in Nat /\ MaxRestarts \in Nat

VARIABLES
  users,   \* the row (or entry) of each login, NoUser if there is none
  nextId,  \* the sequence behind users.id, or userIDIncrement
  tokens,  \* the last token that a client was given for each login
  call,    \* what the request in each slot has done so far
  clock, restarts

vars == <<users, nextId, tokens, call, clock, restarts>>

InMemory == StorageType = "in_memory"

\* userIDIncrement starts at zero, a SERIAL at one.
FirstId == IF InMemory THEN 0 ELSE 1

NoUser  == [id |-> 0, hash |-> "no hash"]
NoToken == [id |-> 0, by |-> "nobody", issued |-> 0, exp |-> 0, boot |-> 0]
Idle    == [at |-> "idle"]
Hashes  == {Key[p] : p \in Passwords}

User  == [id : Nat, hash : Hashes]
Token == [id : Nat, by : Passwords, issued : Nat, exp : Nat, boot : Nat]
Call  == [at : {"store"}, login : Logins, password : Passwords]
         \cup [at : {"sign"}, login : Logins, password : Passwords, id : Nat]
         \cup [at : {"compare"}, login : Logins, password : Passwords, user : User]
         \cup [at : {"parse"}, token : Token]
         \cup [at : {"served", "refused"}, token : Token, time : Nat]

TypeOK ==
  /\ users \in [Logins -> User \cup {NoUser}]
  /\ nextId \in Nat
  /\ tokens \in [Logins -> Token \cup {NoToken}]
  /\ call \in [Clients -> Call \cup {Idle}]
  /\ clock \in Nat
  /\ restarts \in Nat

Init ==
  /\ users = [l \in Logins |-> NoUser]
  /\ nextId = FirstId
  /\ tokens = [l \in Logins |-> NoToken]
  /\ call = [c \in Clients |-> Idle]
  /\ clock = 0
  /\ restarts = 0

Continue(c, s) == call' = [call EXCEPT ![c] = s]
End(c) == Continue(c, Idle)

-----------------------------------------------------------------------------
(* The hasher and the token manager                                        *)

\* bcrypt refuses to hash what it would not look at to the end.
CanHash(p) == p \notin Long

Compare(hash, p) == hash = Key[p]

\* An unknown method becomes HS256.
Method ==
  IF JWTSigningMethod \in {"HS256", "ES256", "RS256"} THEN JWTSigningMethod ELSE "HS256"

\* The secret is a []byte, and only HMAC takes that for a key.
CanSign == Method = "HS256"

\* MUTANT: seconds, rounded up.
RoundedUp(t) == ((t + Second - 1) \div Second) * Second

\* jwt.NewNumericDate: seconds, rounded down.
NumericDate(t) == (t \div Second) * Second

\* "boot" is no claim of the token: it tells tokens of users who are gone.
Create(i, p) ==
  [id |-> i, by |-> p, issued |-> clock, exp |-> NumericDate(clock + TokenTTL),
   boot |-> IF InMemory THEN restarts ELSE 0]

\* The signature is the server's own; what can fail is the expiry.
Valid(t) == clock < t.exp

\* How Register and LogIn end: with a token, or with the error of Create.
Issue(c, l, i, p) ==
  /\ tokens' = IF CanSign THEN [tokens EXCEPT ![l] = Create(i, p)] ELSE tokens
  /\ End(c)
  /\ UNCHANGED <<users, nextId, clock, restarts>>

-----------------------------------------------------------------------------
(* Register                                                                *)

Register(c, l, p) ==
  /\ call[c] = Idle
  /\ p \notin Short
  /\ l # ""
  /\ CanHash(p)
  /\ nextId <= MaxIds
  /\ Continue(c, [at |-> "store", login |-> l, password |-> p])
  /\ UNCHANGED <<users, nextId, tokens, clock, restarts>>

\* MUTANT: an upsert.
RegisterUpserts(c) ==
  /\ call[c].at = "store"
  /\ users' = [users EXCEPT ![call[c].login] = [id |-> nextId, hash |-> Key[call[c].password]]]
  /\ nextId' = nextId + 1
  /\ Continue(c, [at |-> "sign", login |-> call[c].login, password |-> call[c].password,
                  id |-> nextId])
  /\ UNCHANGED <<tokens, clock, restarts>>

\* MUTANT: the error of GenerateHash is dropped, and its nil is stored.
RegisterUnhashed(c) ==
  /\ call[c].at = "store"
  /\ users[call[c].login] = NoUser
  /\ users' = [users EXCEPT ![call[c].login] = [id |-> nextId, hash |-> "no hash"]]
  /\ nextId' = nextId + 1
  /\ End(c)
  /\ UNCHANGED <<tokens, clock, restarts>>

\* storage.Register for a login that is free.  After an error the row may be
\* there all the same; the client gets no token.
RegisterStore(c) ==
  /\ call[c].at = "store"
  /\ users[call[c].login] = NoUser
  /\ \E o \in UserOutcomes :
       /\ IF o = "fail"
          THEN UNCHANGED <<users, nextId>>
          ELSE /\ users' = [users EXCEPT ![call[c].login] =
                              [id |-> nextId, hash |-> Key[call[c].password]]]
               /\ nextId' = nextId + 1
       /\ IF o = "ok"
          THEN Continue(c, [at |-> "sign", login |-> call[c].login,
                            password |-> call[c].password, id |-> nextId])
          ELSE End(c)
  /\ UNCHANGED <<tokens, clock, restarts>>

\* storage.Register for a login that is taken: ErrConflict.  The INSERT has used
\* up a number of the sequence all the same.
RegisterConflict(c) ==
  /\ call[c].at = "store"
  /\ users[call[c].login] # NoUser
  /\ nextId' = IF InMemory THEN nextId ELSE nextId + 1
  /\ End(c)
  /\ UNCHANGED <<users, tokens, clock, restarts>>

RegisterSign(c) ==
  /\ call[c].at = "sign"
  /\ Issue(c, call[c].login, call[c].id, call[c].password)

-----------------------------------------------------------------------------
(* LogIn                                                                   *)

\* storage.LogIn that finds the user; any other answer of it ends the request.
LogIn(c, l, p) ==
  /\ call[c] = Idle
  /\ users[l] # NoUser
  /\ "ok" \in UserOutcomes
  /\ Continue(c, [at |-> "compare", login |-> l, password |-> p, user |-> users[l]])
  /\ UNCHANGED <<users, nextId, tokens, clock, restarts>>

\* MUTANT: the result of Compare is only logged.
LogInAnyway(c) ==
  /\ call[c].at = "compare"
  /\ Issue(c, call[c].login, call[c].user.id, call[c].password)

\* MUTANT: the test of the error is inverted.
LogInInverted(c) ==
  /\ call[c].at = "compare"
  /\ IF Compare(call[c].user.hash, call[c].password)
     THEN End(c) /\ UNCHANGED <<users, nextId, tokens, clock, restarts>>
     ELSE Issue(c, call[c].login, call[c].user.id, call[c].password)

LogInCompare(c) ==
  /\ call[c].at = "compare"
  /\ IF Compare(call[c].user.hash, call[c].password)
     THEN Issue(c, call[c].login, call[c].user.id, call[c].password)
     ELSE End(c) /\ UNCHANGED <<users, nextId, tokens, clock, restarts>>

-----------------------------------------------------------------------------
(* MWAuth                                                                  *)

Decide(c, t) ==
  Continue(c, [at |-> IF Valid(t) THEN "served" ELSE "refused", token |-> t, time |-> clock])

Validate(c, l) ==
  /\ call[c] = Idle
  /\ tokens[l] # NoToken
  /\ IF Valid(tokens[l])
     THEN Continue(c, [at |-> "parse", token |-> tokens[l]])
     ELSE Decide(c, tokens[l])
  /\ UNCHANGED <<users, nextId, tokens, clock, restarts>>

\* Parse verifies the token again before it reads the claims.
Parse(c) ==
  /\ call[c].at = "parse"
  /\ Decide(c, call[c].token)
  /\ UNCHANGED <<users, nextId, tokens, clock, restarts>>

\* The handler behind MWAuth, or the 401, is done.
Finish(c) ==
  /\ call[c].at \in {"served", "refused"}
  /\ End(c)
  /\ UNCHANGED <<users, nextId, tokens, clock, restarts>>

-----------------------------------------------------------------------------
\* Time passes.
Tick ==
  /\ clock < MaxClock
  /\ clock' = clock + 1
  /\ UNCHANGED <<users, nextId, tokens, call, restarts>>

\* The server ends and is started again: requests are gone, and so are the users
\* if they were in memory, where ids begin anew.
Restart ==
  /\ restarts < MaxRestarts
  /\ restarts' = restarts + 1
  /\ call' = [c \in Clients |-> Idle]
  /\ IF InMemory
     THEN users' = [l \in Logins |-> NoUser] /\ nextId' = FirstId
     ELSE UNCHANGED <<users, nextId>>
  /\ UNCHANGED <<tokens, clock>>

Proceed(c) ==
  \/ RegisterStore(c) \/ RegisterConflict(c) \/ RegisterSign(c)
  \/ LogInCompare(c) \/ Parse(c) \/ Finish(c)

Next ==
  \/ \E c \in Clients :
       \/ Proceed(c)
       \/ \E l \in Logins : Validate(c, l) \/ \E p \in Passwords : Register(c, l, p) \/ LogIn(c, l, p)
  \/ Tick
  \/ Restart

Spec == Init /\ [][Next]_vars

\* The owner of l tries to log in with the password of the registration.
OwnerLogsIn(l) == \E c \in Clients, p \in Passwords : LogIn(c, l, p) /\ Compare(users[l].hash, p)

\* Requests go on, and owners come back until there is a slot for them.
Fairness ==
  /\ \A c \in Clients : WF_vars(Proceed(c))
  /\ \A l \in Logins : SF_vars(OwnerLogsIn(l))

FairSpec == Spec /\ Fairness

-----------------------------------------------------------------------------
(* Properties                                                              *)

\* A token stands for the user it names: it was issued against the password of
\* the one registration of that login that succeeded, with the id that the row
\* has, so the foreign key jobs.user_id finds it.  (Of a token from before a
\* restart this is claimed only if users survive restarts.)
TokenNamesUser ==
  \A l \in Logins :
    tokens[l] # NoToken /\ (InMemory => tokens[l].boot = restarts) =>
      users[l] = [id |-> tokens[l].id, hash |-> Key[tokens[l].by]]

\* Whoever is let in is somebody: while the handler behind MWAuth runs, the user for
\* whom its token was issued is stored under the id in the token, whatever other
\* requests and restarts did since the token was read (else the foreign key
\* jobs.user_id refuses the job, or it goes to somebody else).
ServedIsSomebody ==
  \A c \in Clients :
    call[c].at = "served" /\ (InMemory => call[c].token.boot = restarts) =>
      \E l \in Logins : users[l] = [id |-> call[c].token.id, hash |-> Key[call[c].token.by]]

\* A registration that came second changes nothing: a user stays as stored until
\* a restart takes the whole memory away.
UsersAreKept ==
  [][\A l \in Logins : users[l] # NoUser => users'[l] = users[l] \/ restarts' # restarts]_vars

\* MWAuth, which looks at the expiry twice, lets no token through once token_ttl
\* is over, and refuses none a second or more before that: exp is rounded down.
TokenLivesItsTTL ==
  \A c \in Clients :
    /\ call[c].at = "served"  => call[c].time < call[c].token.issued + TokenTTL
    /\ call[c].at = "refused" => call[c].time + Second > call[c].token.issued + TokenTTL

\* Whoever is registered gets a token in the end, even if the answer to the
\* registration was an error: logging in works although registering does not.
NoLockOut == \A l \in Logins : users[l] # NoUser ~> tokens[l] # NoToken
=============================================================================
