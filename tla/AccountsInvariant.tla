-------------------------- MODULE AccountsInvariant --------------------------
(***************************************************************************)
(* The inductive invariant behind the theorems of AccountsProofs: why the  *)
(* row lock of a confirmation and the two UNIQUE constraints of `users`    *)
(* are enough for LastTokenGood and ConfirmedOnce.                         *)
(***************************************************************************)
EXTENDS Accounts

\* A token is mailed once it has been stored, and a signup keeps its address.
MailInv ==
  /\ \A t \in Tokens : IF spc[t] = "new" THEN address[t] = None ELSE address[t] \in Emails
  /\ \A t \in mail : spc[t] \notin {"new", "store"}

\* A confirmation carries a token that was mailed.
FormInv ==
  \A c \in Confirmations : cpc[c] # "new" =>
    form[c] \in [token : mail, name : Usernames]

\* From the DELETE to the end of its transaction, the row is the confirmation's.
LockInv ==
  \A c \in Confirmations : cpc[c] \in {"insert", "commit"} => lock[Email(c)] = c

\* What InsertUser has checked stays true until the COMMIT: neither the name
\* nor the address has an account, and no other transaction is about to give
\* the name one.
CommitInv ==
  \A c \in Confirmations : cpc[c] = "commit" =>
    /\ ~Taken(c)
    /\ \A d \in Confirmations \ {c} : cpc[d] = "commit" => form[d].name # form[c].name

\* A row holds the token issued last.
IssuedInv == \A e \in Emails : verification[e] \in {None, issued[e]}

\* An address has one account.
UsersInv == \A u, v \in Usernames : users[u] = users[v] /\ users[u] # None => u = v

AccountsInv ==
  /\ AccountsTypeOK
  /\ MailInv
  /\ FormInv
  /\ LockInv
  /\ CommitInv
  /\ IssuedInv
  /\ UsersInv
  /\ LastTokenGood
  /\ ConfirmedOnce
=============================================================================
