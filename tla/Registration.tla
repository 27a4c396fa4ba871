---------------------------- MODULE Registration ----------------------------
(***************************************************************************)
(* What signup and signup_confirmation promise together, with statements,  *)
(* locks, transactions and failures hidden: an account is made in one      *)
(* step, for an address that has none and under a name that is free, by    *)
(* the token that was issued last for the address, once that has been      *)
(* mailed there.  Accounts are kept, and 200 is answered to nobody but the *)
(* one whose confirmation has just made the account.                       *)
(***************************************************************************)
CONSTANTS Emails, Usernames, Tokens, None

VARIABLES
  owner,      \* owner[t]: the address that token t was drawn for
  last,       \* last[e]: the token issued last for address e
  mailed,     \* tokens that were mailed to their owner
  account,    \* account[u]: e-mail address of account u
  confirmed   \* confirmations that were answered with 200

registrationVars == <<owner, last, mailed, account, confirmed>>

Init ==
  /\ owner = [t \in Tokens |-> None]
  /\ last = [e \in Emails |-> None]
  /\ mailed = {}
  /\ account = [u \in Usernames |-> None]
  /\ confirmed = {}

Draw(t, e) ==
  /\ owner[t] = None
  /\ owner' = [owner EXCEPT ![t] = e]
  /\ UNCHANGED <<last, mailed, account, confirmed>>

\* A token that has been mailed is not issued again.
Issue(t) ==
  /\ owner[t] \in Emails /\ t \notin mailed
  /\ last' = [last EXCEPT ![owner[t]] = t]
  /\ UNCHANGED <<owner, mailed, account, confirmed>>

Mail(t) ==
  /\ owner[t] \in Emails
  /\ mailed' = mailed \cup {t}
  /\ UNCHANGED <<owner, last, account, confirmed>>

\* The answer may get lost.
Register(t, u) ==
  /\ t \in mailed /\ last[owner[t]] = t
  /\ account[u] = None
  /\ \A v \in Usernames : account[v] # owner[t]
  /\ account' = [account EXCEPT ![u] = owner[t]]
  /\ confirmed' \in {confirmed, confirmed \cup {[token |-> t, name |-> u]}}
  /\ UNCHANGED <<owner, last, mailed>>

Next ==
  \E t \in Tokens :
    \/ \E e \in Emails : Draw(t, e)
    \/ Issue(t)
    \/ Mail(t)
    \/ \E u \in Usernames : Register(t, u)

Spec == Init /\ [][Next]_registrationVars
=============================================================================
