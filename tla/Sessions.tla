------------------------------ MODULE Sessions ------------------------------
(***************************************************************************)
(* Who the API takes a client for: login (api/src/routes/login.rs), the    *)
(* SessionAuth it keeps in Redis, and the cookie that names it.            *)
(*                                                                         *)
(* A login is three awaits: the session is loaded, the account is looked   *)
(* up, and with the answer the session is stored.                          *)
(*                                                                         *)
(* External, modelled from its use here: actix-session's middleware (load, *)
(* renew, store; state under a random id) and Redis.  Roles are changed by *)
(* hand, in the table.                                                     *)
(***************************************************************************)
EXTENDS Naturals

CONSTANTS
  Users,          \* confirmed accounts
  Browsers,       \* cookie jars
  Logins,         \* login requests
  Ids,            \* session ids, enough of them for every login
  Grants,         \* the roles that users are given
  MaxRestarts,    \* bound: how often the API is restarted
  SessionFaults,  \* which faults the environment may inject
  None            \* "no session", "no role", "not begun"

SessionFaultKind ==
  { "db",      \* the account cannot be read, or the password is wrong
    "redis",   \* storing the session fails half-way
    "reply",   \* the answer, and the cookie with it, is lost
    "ttl" }    \* a session expires

Role == {"user", "problemsetter", "admin"}

Rank(role) == CASE role = "user" -> 0
                [] role = "problemsetter" -> 1
                [] role = "admin" -> 2

ASSUME SessionConstantsOK ==
  /\ Grants \subseteq Role
  /\ MaxRestarts \in Nat
  /\ SessionFaults \subseteq SessionFaultKind
  /\ None \notin Ids \cup Users

VARIABLES
  roles,     \* users.role
  redis,     \* redis[i]: the SessionAuth stored under id i
  drawn,     \* the ids that have been used: random, never used again
  cookie,    \* cookie[b]: an id, and the key the cookie is signed with
  key,       \* number of the key that Key::generate drew
  login,     \* login[l]: the request
  granted    \* every user and role that a login has read (history)

sessionVars == <<roles, redis, drawn, cookie, key, login, granted>>

Auth == [user : Users, role : Role]
Cookie == [id : Ids, key : 0 .. MaxRestarts]

\* session, auth: what was loaded; role: what was read from the table.
Over == [at |-> "over"]
Login == {Over} \cup
         [at : {"select", "respond"}, by : Browsers, who : Users,
          session : Ids \cup {None}, auth : Auth \cup {None}, role : Role \cup {None}]

SessionsInit ==
  /\ roles = [u \in Users |-> "user"]
  /\ redis = [i \in Ids |-> None]
  /\ drawn = {}
  /\ cookie = [b \in Browsers |-> None]
  /\ key = 0
  /\ login = [l \in Logins |-> None]
  /\ granted = {}

\* The id a request of b brings along, if its cookie can be read and names a
\* session that is there; and session.get("auth").
Loaded(b) ==
  IF /\ cookie[b] # None /\ cookie[b].key = key
     /\ redis[cookie[b].id] # None
  THEN cookie[b].id ELSE None

LoadedAuth(b) == IF Loaded(b) = None THEN None ELSE redis[Loaded(b)]

-----------------------------------------------------------------------------
(* login *)

At(l, where) == login[l] # None /\ login[l].at = where

LoadSession(l) ==
  /\ login[l] = None
  /\ \E b \in Browsers, u \in Users :
       login' = [login EXCEPT ![l] =
         [at |-> "select", by |-> b, who |-> u,
          session |-> Loaded(b), auth |-> LoadedAuth(b), role |-> None]]
  /\ UNCHANGED <<roles, redis, drawn, cookie, key, granted>>

\* The row is read and the password is right.
VerifyPassword(l) ==
  /\ At(l, "select")
  /\ login' = [login EXCEPT ![l].at = "respond", ![l].role = roles[login[l].who]]
  /\ granted' = granted \cup {[user |-> login[l].who, role |-> roles[login[l].who]]}
  /\ UNCHANGED <<roles, redis, drawn, cookie, key>>

\* No such row, another password, an error: nothing is stored.
RefuseLogin(l) ==
  /\ "db" \in SessionFaults
  /\ At(l, "select")
  /\ login' = [login EXCEPT ![l] = Over]
  /\ UNCHANGED <<roles, redis, drawn, cookie, key, granted>>

\* Mutant of AuthStored: a renewed session is given its new user alone.
AuthStoredMixed(l) ==
  [user |-> login[l].who,
   role |-> IF login[l].auth # None THEN login[l].auth.role ELSE login[l].role]

\* session.renew() keeps what the session holds, whoever has just logged in;
\* session.insert() enters the account.
AuthStored(l) ==
  IF login[l].auth # None THEN login[l].auth
  ELSE [user |-> login[l].who, role |-> login[l].role]

Forget(l) == [i \in Ids |-> IF i = login[l].session THEN None ELSE redis[i]]

\* The old session is deleted and the state is stored under a new id.
StoreSession(l) ==
  /\ At(l, "respond")
  /\ login' = [login EXCEPT ![l] = Over]
  /\ \E i \in Ids \ drawn :
       /\ drawn' = drawn \cup {i}
       /\ redis' = [Forget(l) EXCEPT ![i] = AuthStored(l)]
       /\ \/ cookie' = [cookie EXCEPT ![login[l].by] = [id |-> i, key |-> key]]
          \/ "reply" \in SessionFaults /\ UNCHANGED cookie
  /\ UNCHANGED <<roles, key, granted>>

\* The old session may be gone by then.
StoreFails(l) ==
  /\ "redis" \in SessionFaults
  /\ At(l, "respond")
  /\ login' = [login EXCEPT ![l] = Over]
  /\ redis' \in {redis, Forget(l)}
  /\ UNCHANGED <<roles, drawn, cookie, key, granted>>

-----------------------------------------------------------------------------
(* Around the handlers. *)

ChangeRole(u) ==
  /\ \E r \in Grants \ {roles[u]} : roles' = [roles EXCEPT ![u] = r]
  /\ UNCHANGED <<redis, drawn, cookie, key, login, granted>>

ExpireSession(i) ==
  /\ "ttl" \in SessionFaults
  /\ redis[i] # None
  /\ redis' = [redis EXCEPT ![i] = None]
  /\ UNCHANGED <<roles, drawn, cookie, key, login, granted>>

\* Redis keeps its sessions, but no cookie can be read with the new key.
RestartApi ==
  /\ key < MaxRestarts
  /\ key' = key + 1
  /\ login' = [l \in Logins |-> IF login[l] = None THEN None ELSE Over]
  /\ UNCHANGED <<roles, redis, drawn, cookie, granted>>

LoginStep(l) ==
  \/ LoadSession(l)
  \/ VerifyPassword(l)
  \/ RefuseLogin(l)
  \/ StoreSession(l)
  \/ StoreFails(l)

-----------------------------------------------------------------------------
SessionTypes ==
  /\ roles \in [Users -> Role]
  /\ redis \in [Ids -> Auth \cup {None}]
  /\ drawn \subseteq Ids
  /\ cookie \in [Browsers -> Cookie \cup {None}]
  /\ key \in 0 .. MaxRestarts
  /\ login \in [Logins -> Login \cup {None}]
  /\ granted \subseteq Auth
=============================================================================
