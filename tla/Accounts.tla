------------------------------ MODULE Accounts ------------------------------
(***************************************************************************)
(* How a user gets an account: signup and signup_confirmation of the API   *)
(* (api/src/routes/), over the tables `users` and `verification`, and the  *)
(* mails that EmailClient (models/src/email.rs) hands to a mail service.   *)
(* Module Sessions takes it from there.                                    *)
(*                                                                         *)
(* A signup is named by the token it draws (25 random characters), a       *)
(* confirmation by its request.  A confirmation is a transaction: a row it *)
(* has deleted stays there, locked, until it commits, and a statement of   *)
(* somebody else that touches the row waits.                               *)
(***************************************************************************)
EXTENDS Naturals

CONSTANTS
  Emails, Usernames,
  Tokens,          \* the signups
  Confirmations,   \* the confirmation requests
  MaxRestarts,     \* bound: how often the API is restarted
  AccountFaults,   \* which faults the environment may inject
  None             \* "no token", "no account"

AccountFaultKind ==
  { "db",          \* a statement fails, or its reply is lost
    "mail",        \* the mail service reports an error or takes over 10 s
    "disconnect" } \* the client goes away and actix drops its handler

ASSUME AccountConstantsOK ==
  /\ MaxRestarts \in Nat
  /\ AccountFaults \subseteq AccountFaultKind
  /\ None \notin Tokens \cup Confirmations \cup Emails

VARIABLES
  verification,   \* verification[e]: token of the row for e, of type 'signup'
  fresh,          \* fresh[e]: is created_at of that row less than 7 days ago
  lock,           \* lock[e]: the confirmation that has deleted the row, uncommitted
  users,          \* users[u]: e-mail address of account u
  mail,           \* tokens that were mailed to their address
  issued,         \* issued[e]: the token stored last for e (history)
  spc,            \* spc[t]: await or answer of signup t
  address,        \* address[t]: the e-mail address signup t is for
  cpc,            \* cpc[c]: await or answer of confirmation c
  form,           \* form[c]: token and username of confirmation c
  restarts        \* how often the API was restarted

rows == <<verification, fresh, lock, users>>
requests == <<spc, address, cpc, form>>
accountVars == <<rows, mail, issued, requests, restarts>>

\* Awaits; then the answers: 200, 400, 500, and none at all.
SignupStage == {"new", "store", "send", "ok", "error", "gone"}
ConfirmStage == {"new", "delete", "insert", "commit", "ok", "refused", "error", "gone"}

Open(c) == cpc[c] \in {"delete", "insert", "commit"}
Email(c) == address[form[c].token]

AccountsInit ==
  /\ verification = [e \in Emails |-> None]
  /\ fresh = [e \in Emails |-> FALSE]
  /\ lock = [e \in Emails |-> None]
  /\ users = [u \in Usernames |-> None]
  /\ mail = {}
  /\ issued = [e \in Emails |-> None]
  /\ spc = [t \in Tokens |-> "new"]
  /\ address = [t \in Tokens |-> None]
  /\ cpc = [c \in Confirmations |-> "new"]
  /\ form = [c \in Confirmations |-> None]
  /\ restarts = 0

-----------------------------------------------------------------------------
(* signup *)

Signup(t) ==
  /\ spc[t] = "new"
  /\ spc' = [spc EXCEPT ![t] = "store"]
  /\ \E e \in Emails : address' = [address EXCEPT ![t] = e]
  /\ UNCHANGED <<rows, mail, issued, cpc, form, restarts>>

\* INSERT ... ON CONFLICT (email, token_type) DO UPDATE, in a transaction of its
\* own.  It waits for a confirmation that has deleted the row.
Upsert(t) ==
  /\ lock[address[t]] = None
  /\ verification' = [verification EXCEPT ![address[t]] = t]
  /\ fresh' = [fresh EXCEPT ![address[t]] = TRUE]
  /\ issued' = [issued EXCEPT ![address[t]] = t]
  /\ UNCHANGED <<lock, users>>

StoreToken(t) ==
  /\ spc[t] = "store"
  /\ Upsert(t)
  /\ spc' = [spc EXCEPT ![t] = "send"]
  /\ UNCHANGED <<mail, address, cpc, form, restarts>>

\* An error, or nobody left to answer: the statement may have run.
StoreFails(t) ==
  /\ AccountFaults \cap {"db", "disconnect"} # {}
  /\ spc[t] = "store"
  /\ Upsert(t) \/ UNCHANGED <<rows, issued>>
  /\ spc' = [spc EXCEPT ![t] = "error"]
  /\ UNCHANGED <<mail, address, cpc, form, restarts>>

SendMail(t) ==
  /\ spc[t] = "send"
  /\ mail' = mail \cup {t}
  /\ spc' = [spc EXCEPT ![t] = "ok"]
  /\ UNCHANGED <<rows, issued, address, cpc, form, restarts>>

\* The mail may be on its way for all that.
SendFails(t) ==
  /\ AccountFaults \cap {"mail", "disconnect"} # {}
  /\ spc[t] = "send"
  /\ mail' \in {mail, mail \cup {t}}
  /\ spc' = [spc EXCEPT ![t] = "error"]
  /\ UNCHANGED <<rows, issued, address, cpc, form, restarts>>

-----------------------------------------------------------------------------
(* signup_confirmation *)

\* A user follows the link of a mail and picks a username.
Confirm(c) ==
  /\ cpc[c] = "new"
  /\ \E t \in mail, u \in Usernames : form' = [form EXCEPT ![c] = [token |-> t, name |-> u]]
  /\ cpc' = [cpc EXCEPT ![c] = "delete"]
  /\ UNCHANGED <<rows, mail, issued, address, spc, restarts>>

\* The transaction is dropped: its changes are undone, its locks released.
Rollback(c, answer) ==
  /\ lock' = [e \in Emails |-> IF lock[e] = c THEN None ELSE lock[e]]
  /\ cpc' = [cpc EXCEPT ![c] = answer]
  /\ UNCHANGED <<verification, fresh, users, mail, issued, address, spc, form, restarts>>

\* Mutant of RowMatches: any token of the address will do.
RowOfAddress(c) == verification[Email(c)] # None /\ fresh[Email(c)]

RowMatches(c) == verification[Email(c)] = form[c].token /\ fresh[Email(c)]

\* Mutant of DeleteToken: the DELETE runs on the pool, outside the transaction.
DeleteTokenCommitted(c) ==
  /\ cpc[c] = "delete"
  /\ RowMatches(c)
  /\ lock[Email(c)] = None
  /\ verification' = [verification EXCEPT ![Email(c)] = None]
  /\ cpc' = [cpc EXCEPT ![c] = "insert"]
  /\ UNCHANGED <<fresh, lock, users, mail, issued, address, spc, form, restarts>>

\* DELETE ... RETURNING email, by token and age.
DeleteToken(c) ==
  /\ cpc[c] = "delete"
  /\ RowMatches(c)
  /\ lock[Email(c)] = None
  /\ lock' = [lock EXCEPT ![Email(c)] = c]
  /\ cpc' = [cpc EXCEPT ![c] = "insert"]
  /\ UNCHANGED <<verification, fresh, users, mail, issued, address, spc, form, restarts>>

TokenUnknown(c) ==
  /\ cpc[c] = "delete"
  /\ ~RowMatches(c)
  /\ Rollback(c, "refused")

\* UNIQUE of users.username and users.email.
Taken(c) == users[form[c].name] # None \/ \E u \in Usernames : users[u] = Email(c)

\* Mutant of InsertUser: the schema lacks the constraints.
InsertUserUnchecked(c) ==
  /\ cpc[c] = "insert"
  /\ cpc' = [cpc EXCEPT ![c] = "commit"]
  /\ UNCHANGED <<rows, mail, issued, address, spc, form, restarts>>

\* It waits for a transaction that has inserted the same username.
InsertUser(c) ==
  /\ cpc[c] = "insert"
  /\ ~Taken(c)
  /\ \A d \in Confirmations : cpc[d] = "commit" => form[d].name # form[c].name
  /\ cpc' = [cpc EXCEPT ![c] = "commit"]
  /\ UNCHANGED <<rows, mail, issued, address, spc, form, restarts>>

\* Mutant of UniqueViolation: the transaction stays open.
UniqueViolationOpen(c) ==
  /\ cpc[c] = "insert"
  /\ Taken(c)
  /\ cpc' = [cpc EXCEPT ![c] = "error"]
  /\ UNCHANGED <<rows, mail, issued, address, spc, form, restarts>>

UniqueViolation(c) ==
  /\ cpc[c] = "insert"
  /\ Taken(c)
  /\ Rollback(c, "error")

CommitAnd(c, answer) ==
  /\ cpc[c] = "commit"
  /\ verification' = [verification EXCEPT ![Email(c)] = None]
  /\ users' = [users EXCEPT ![form[c].name] = Email(c)]
  /\ lock' = [lock EXCEPT ![Email(c)] = None]
  /\ cpc' = [cpc EXCEPT ![c] = answer]
  /\ UNCHANGED <<fresh, mail, issued, address, spc, form, restarts>>

Commit(c) == CommitAnd(c, "ok")

\* Mutant of ConfirmFails: the error is answered with the transaction open.
ConfirmFailsOpen(c) ==
  /\ "db" \in AccountFaults
  /\ Open(c)
  /\ cpc' = [cpc EXCEPT ![c] = "error"]
  /\ UNCHANGED <<rows, mail, issued, address, spc, form, restarts>>

\* A statement fails, or the reply to COMMIT is lost.
ConfirmFails(c) ==
  /\ "db" \in AccountFaults
  /\ Open(c)
  /\ Rollback(c, "error") \/ CommitAnd(c, "error")

Disconnect(c) ==
  /\ "disconnect" \in AccountFaults
  /\ Open(c)
  /\ Rollback(c, "gone") \/ CommitAnd(c, "gone")

-----------------------------------------------------------------------------
(* What happens around the handlers. *)

\* Seven days have passed.
Expire(e) ==
  /\ verification[e] # None /\ fresh[e]
  /\ fresh' = [fresh EXCEPT ![e] = FALSE]
  /\ UNCHANGED <<verification, lock, users, mail, issued, requests, restarts>>

\* The API is restarted: its requests are not answered, PostgreSQL rolls their
\* transactions back.  (A COMMIT that gets through all the same is a Disconnect
\* just before.)
RestartApi ==
  /\ restarts < MaxRestarts
  /\ restarts' = restarts + 1
  /\ spc' = [t \in Tokens |-> IF spc[t] \in {"store", "send"} THEN "gone" ELSE spc[t]]
  /\ cpc' = [c \in Confirmations |-> IF Open(c) THEN "gone" ELSE cpc[c]]
  /\ lock' = [e \in Emails |-> None]
  /\ UNCHANGED <<verification, fresh, users, mail, issued, address, form>>

-----------------------------------------------------------------------------
SignupStep(t) ==
  \/ Signup(t)
  \/ StoreToken(t)
  \/ StoreFails(t)
  \/ SendMail(t)
  \/ SendFails(t)

ConfirmStep(c) ==
  \/ DeleteToken(c)
  \/ TokenUnknown(c)
  \/ InsertUser(c)
  \/ UniqueViolation(c)
  \/ Commit(c)

AccountsNext ==
  \/ \E t \in Tokens : SignupStep(t)
  \/ \E c \in Confirmations : Confirm(c) \/ ConfirmStep(c) \/ ConfirmFails(c) \/ Disconnect(c)
  \/ \E e \in Emails : Expire(e)
  \/ RestartApi

AccountsSpec == AccountsInit /\ [][AccountsNext]_accountVars

\* A handler that has begun is driven by the server, and statements return.
AccountsFairness == \A c \in Confirmations : WF_accountVars(ConfirmStep(c))

AccountsFairSpec == AccountsSpec /\ AccountsFairness

-----------------------------------------------------------------------------
(* Properties. *)

AccountTypes ==
  /\ verification \in [Emails -> Tokens \cup {None}]
  /\ fresh \in [Emails -> BOOLEAN]
  /\ lock \in [Emails -> Confirmations \cup {None}]
  /\ users \in [Usernames -> Emails \cup {None}]
  /\ mail \subseteq Tokens
  /\ issued \in [Emails -> Tokens \cup {None}]
  /\ spc \in [Tokens -> SignupStage]
  /\ address \in [Tokens -> Emails \cup {None}]
  /\ cpc \in [Confirmations -> ConfirmStage]
  /\ form \in [Confirmations -> [token : Tokens, name : Usernames] \cup {None}]
  /\ restarts \in 0 .. MaxRestarts

\* Types, and that a lock belongs to a transaction at work on that very row.
AccountsTypeOK ==
  /\ AccountTypes
  /\ \A e \in Emails : lock[e] # None =>
       /\ cpc[lock[e]] \in {"insert", "commit"}
       /\ Email(lock[e]) = e /\ verification[e] = form[lock[e]].token

\* The token of the last signup stays good until there is an account for its
\* address: no failure, race or restart in a confirmation uses it up.
LastTokenGood ==
  \A e \in Emails : issued[e] # None =>
    verification[e] = issued[e] \/ \E u \in Usernames : users[u] = e

\* A confirmation answered with 200 has made its account, and nobody takes it
\* over: of two requests with one token, one address or one name, one succeeds.
ConfirmedOnce ==
  \A c \in Confirmations : cpc[c] = "ok" =>
    /\ users[form[c].name] = Email(c)
    /\ \A u \in Usernames : users[u] = Email(c) => u = form[c].name
    /\ \A d \in Confirmations \ {c} : cpc[d] = "ok" => form[d].token # form[c].token

\* Accounts as a user sees them.
R == INSTANCE Registration WITH
  owner <- address,
  last <- issued,
  mailed <- mail,
  account <- users,
  confirmed <- {form[c] : c \in {d \in Confirmations : cpc[d] = "ok"}}

\* Signup and confirmation, with all that can fail in between, do in one step
\* what Registration says, or nothing: an account is made by the last token that
\* its address was sent, and 200 is answered in that very step.
RegistrationSpec == R!Spec

\* No confirmation waits for ever for the row or the name of another.
ConfirmEnds == \A c \in Confirmations : Open(c) ~> ~Open(c)
=============================================================================
