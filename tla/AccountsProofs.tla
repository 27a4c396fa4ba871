---------------------------- MODULE AccountsProofs ----------------------------
(***************************************************************************)
(* Theorems of module Accounts, for any sets of addresses, usernames,      *)
(* signups and confirmations, any number of restarts and any faults.       *)
(***************************************************************************)
EXTENDS AccountsInvariant, TLAPS

(* The steps, by what they do to the tables. *)

\* The token of t is stored; the caller may learn of it or not.
Stores(t) ==
  /\ Upsert(t)
  /\ \E a \in {"send", "error"} : spc' = [spc EXCEPT ![t] = a]
  /\ spc[t] = "store"
  /\ UNCHANGED <<mail, address, cpc, form, restarts>>

\* Nothing but the signup itself and its mail.
Mails(t) ==
  /\ \E a \in {"ok", "error"} : spc' = [spc EXCEPT ![t] = a]
  /\ spc[t] \in {"store", "send"}
  /\ mail' \in {mail, mail \cup {t}}
  /\ UNCHANGED <<rows, issued, address, cpc, form, restarts>>

\* A transaction is undone.
RollsBack(c) == Open(c) /\ \E a \in {"refused", "error", "gone"} : Rollback(c, a)

\* A transaction takes effect.
Commits(c) == \E a \in {"ok", "error", "gone"} : CommitAnd(c, a)

\* Every step is of one of these kinds.
LEMMA StepKinds ==
  ASSUME [AccountsNext]_accountVars
  PROVE  \/ UNCHANGED accountVars
         \/ \E t \in Tokens : Signup(t) \/ Stores(t) \/ Mails(t)
         \/ \E c \in Confirmations :
              Confirm(c) \/ DeleteToken(c) \/ InsertUser(c) \/ RollsBack(c) \/ Commits(c)
         \/ \E e \in Emails : Expire(e)
         \/ RestartApi
<1>1. ASSUME NEW t \in Tokens, SignupStep(t)
      PROVE  Signup(t) \/ Stores(t) \/ Mails(t)
  <2>1. CASE StoreToken(t)
    BY <2>1 DEF StoreToken, Stores
  <2>2. CASE StoreFails(t)
    BY <2>2 DEF StoreFails, Stores, Mails
  <2>3. CASE SendMail(t) \/ SendFails(t)
    BY <2>3 DEF SendMail, SendFails, Mails
  <2>. QED
    BY <1>1, <2>1, <2>2, <2>3 DEF SignupStep
<1>2. ASSUME NEW c \in Confirmations, ConfirmStep(c) \/ ConfirmFails(c) \/ Disconnect(c)
      PROVE  DeleteToken(c) \/ InsertUser(c) \/ RollsBack(c) \/ Commits(c)
  BY <1>2 DEF ConfirmStep, ConfirmFails, Disconnect, TokenUnknown, UniqueViolation, Commit,
              RollsBack, Commits, Open
<1>. QED
  BY <1>1, <1>2 DEF AccountsNext

-----------------------------------------------------------------------------
(* The parts of the invariant that speak of confirmations at work. *)

LockOwner ==
  \A e \in Emails : lock[e] # None =>
    /\ cpc[lock[e]] \in {"insert", "commit"}
    /\ Email(lock[e]) = e /\ verification[e] = form[lock[e]].token

\* What is known of a confirmation that has begun.
LEMMA Begun ==
  ASSUME AccountsInv, NEW c \in Confirmations, cpc[c] # "new"
  PROVE  /\ form[c].token \in mail /\ form[c].token \in Tokens /\ form[c].name \in Usernames
         /\ Email(c) \in Emails /\ spc[form[c].token] # "new"
         /\ c # None /\ Email(c) # None
BY AccountConstantsOK
DEF AccountsInv, AccountsTypeOK, AccountTypes, FormInv, MailInv, Email, AccountConstantsOK

\* A step that leaves the rows and the confirmations alone keeps what is said
\* of them.
LEMMA SameConfirmations ==
  ASSUME AccountsInv, UNCHANGED <<verification, lock, users, issued, cpc, form>>,
         \A t \in mail : address'[t] = address[t]
  PROVE  /\ LockOwner' /\ LockInv' /\ CommitInv' /\ UsersInv' /\ IssuedInv'
         /\ LastTokenGood' /\ ConfirmedOnce'
<1>1. \A c \in Confirmations : cpc[c] # "new" => Email(c)' = Email(c)
  BY Begun DEF Email
<1>2. LockOwner'
  <2>. SUFFICES ASSUME NEW e \in Emails, lock[e] # None
                PROVE  /\ cpc[lock[e]] \in {"insert", "commit"}
                       /\ Email(lock[e])' = e /\ verification[e] = form[lock[e]].token
    BY DEF LockOwner
  <2>. QED
    BY <1>1 DEF AccountsInv, AccountsTypeOK, AccountTypes
<1>3. LockInv'
  BY <1>1 DEF AccountsInv, LockInv
<1>4. CommitInv'
  BY <1>1 DEF AccountsInv, CommitInv, Taken
<1>5. UsersInv' /\ IssuedInv' /\ LastTokenGood'
  BY DEF AccountsInv, UsersInv, IssuedInv, LastTokenGood
<1>6. ConfirmedOnce'
  BY <1>1 DEF AccountsInv, ConfirmedOnce
<1>. QED
  BY <1>2, <1>3, <1>4, <1>5, <1>6

-----------------------------------------------------------------------------
(* Each kind of step keeps the invariant. *)

\* A signup and its mail do not touch a confirmation.
LEMMA SignupStepInv ==
  ASSUME AccountsInv, NEW t \in Tokens, Signup(t) \/ Mails(t)
  PROVE  AccountsInv'
<1>0. AccountTypes /\ MailInv
  BY DEF AccountsInv, AccountsTypeOK
<1>1. /\ spc' \in [Tokens -> SignupStage] /\ address' \in [Tokens -> Emails \cup {None}]
      /\ mail' \subseteq Tokens
  BY <1>0 DEF Signup, Mails, AccountTypes, SignupStage
<1>2. AccountTypes'
  BY <1>0, <1>1 DEF Signup, Mails, AccountTypes, rows
<1>3. MailInv'
  BY <1>0, <1>1 DEF Signup, Mails, AccountTypes, MailInv
<1>4. mail \subseteq mail' /\ UNCHANGED <<cpc, form>>
  BY DEF Signup, Mails
<1>5. FormInv'
  BY <1>4 DEF AccountsInv, FormInv
<1>6. \A x \in mail : address'[x] = address[x]
  BY <1>0 DEF Signup, Mails, AccountTypes, MailInv
<1>7. /\ LockOwner' /\ LockInv' /\ CommitInv' /\ UsersInv' /\ IssuedInv'
      /\ LastTokenGood' /\ ConfirmedOnce'
  BY <1>6, SameConfirmations DEF Signup, Mails, rows
<1>. QED
  BY <1>2, <1>3, <1>5, <1>7 DEF AccountsInv, AccountsTypeOK, LockOwner

\* The upsert changes the row of an address that no confirmation has locked.
LEMMA StoresInv ==
  ASSUME AccountsInv, NEW t \in Tokens, Stores(t)
  PROVE  AccountsInv'
<1>0. AccountTypes /\ MailInv
  BY DEF AccountsInv, AccountsTypeOK
<1> DEFINE e == address[t]
<1>1. e \in Emails /\ lock[e] = None
  BY <1>0 DEF Stores, Upsert, MailInv
<1>2. /\ \A x \in Emails : x # e => verification'[x] = verification[x] /\ issued'[x] = issued[x]
      /\ verification'[e] = t /\ issued'[e] = t
      /\ UNCHANGED <<lock, users, mail, address, cpc, form>>
  BY <1>0, <1>1 DEF Stores, Upsert, AccountTypes
<1>3. AccountTypes'
  BY <1>0, <1>1 DEF Stores, Upsert, AccountTypes, SignupStage
<1>4. MailInv' /\ FormInv'
  BY <1>0 DEF Stores, AccountsInv, MailInv, FormInv, AccountTypes
<1>5. LockOwner'
  BY <1>1, <1>2 DEF AccountsInv, AccountsTypeOK, LockOwner, Email
<1>6. LastTokenGood'
  BY <1>2 DEF AccountsInv, LastTokenGood
<1>7. LockInv' /\ CommitInv' /\ UsersInv' /\ IssuedInv' /\ ConfirmedOnce'
  BY <1>2 DEF AccountsInv, LockInv, CommitInv, UsersInv, IssuedInv, ConfirmedOnce, Taken, Email
<1>. QED
  BY <1>3, <1>4, <1>5, <1>6, <1>7 DEF AccountsInv, AccountsTypeOK, LockOwner

\* A confirmation begins, with a token that was mailed.
LEMMA ConfirmInv ==
  ASSUME AccountsInv, NEW c \in Confirmations, Confirm(c)
  PROVE  AccountsInv'
<1>0. AccountTypes
  BY DEF AccountsInv, AccountsTypeOK
<1>1. PICK f \in [token : mail, name : Usernames] : form' = [form EXCEPT ![c] = f]
  BY DEF Confirm
<1>2. /\ cpc[c] = "new"
      /\ \A d \in Confirmations : cpc'[d] = IF d = c THEN "delete" ELSE cpc[d]
      /\ \A d \in Confirmations : form'[d] = IF d = c THEN f ELSE form[d]
      /\ UNCHANGED <<verification, fresh, lock, users, mail, issued, address, spc, restarts>>
  BY <1>0, <1>1 DEF Confirm, AccountTypes, rows
<1>3. AccountTypes'
  BY <1>0, <1>1, <1>2 DEF Confirm, AccountTypes, ConfirmStage
<1>4. MailInv' /\ FormInv'
  BY <1>2 DEF AccountsInv, MailInv, FormInv
<1>5. \A d \in Confirmations : d # c => Email(d)' = Email(d)
  BY <1>2 DEF Email
<1>6. LockOwner'
  <2>. SUFFICES ASSUME NEW e \in Emails, lock[e] # None
                PROVE  /\ cpc'[lock[e]] \in {"insert", "commit"}
                       /\ Email(lock[e])' = e /\ verification[e] = form'[lock[e]].token
    BY <1>2 DEF LockOwner
  <2>1. lock[e] \in Confirmations /\ lock[e] # c
    BY <1>0, <1>2 DEF AccountsInv, AccountsTypeOK, AccountTypes
  <2>. QED
    BY <1>2, <2>1 DEF AccountsInv, AccountsTypeOK, Email
<1>7. LockInv' /\ CommitInv'
  BY <1>2, <1>5 DEF AccountsInv, LockInv, CommitInv, Taken
<1>8. UsersInv' /\ IssuedInv' /\ LastTokenGood'
  BY <1>2 DEF AccountsInv, UsersInv, IssuedInv, LastTokenGood
<1>9. ConfirmedOnce'
  BY <1>2, <1>5 DEF AccountsInv, ConfirmedOnce
<1>. QED
  BY <1>3, <1>4, <1>6, <1>7, <1>8, <1>9 DEF AccountsInv, AccountsTypeOK, LockOwner

\* The DELETE takes the lock of its row, which nobody has.
LEMMA DeleteTokenInv ==
  ASSUME AccountsInv, NEW c \in Confirmations, DeleteToken(c)
  PROVE  AccountsInv'
<1>0. AccountTypes
  BY DEF AccountsInv, AccountsTypeOK
<1>1. /\ cpc[c] = "delete" /\ Email(c) \in Emails /\ lock[Email(c)] = None
      /\ verification[Email(c)] = form[c].token /\ c # None
  BY Begun DEF DeleteToken, RowMatches
<1>2. /\ \A d \in Confirmations : cpc'[d] = IF d = c THEN "insert" ELSE cpc[d]
      /\ \A x \in Emails : lock'[x] = IF x = Email(c) THEN c ELSE lock[x]
      /\ UNCHANGED <<verification, fresh, users, mail, issued, address, spc, form, restarts>>
  BY <1>0, <1>1 DEF DeleteToken, AccountTypes
<1>3. AccountTypes'
  BY <1>0, <1>1 DEF DeleteToken, AccountTypes, ConfirmStage
<1>4. MailInv' /\ FormInv'
  BY <1>1, <1>2 DEF AccountsInv, MailInv, FormInv
<1>5. \A d \in Confirmations : Email(d)' = Email(d)
  BY <1>2 DEF Email
<1>6. LockOwner'
  <2>. SUFFICES ASSUME NEW e \in Emails, lock'[e] # None
                PROVE  /\ cpc'[lock'[e]] \in {"insert", "commit"}
                       /\ address[form[lock'[e]].token] = e /\ verification[e] = form[lock'[e]].token
    BY <1>2 DEF LockOwner, Email
  <2>1. CASE e = Email(c)
    BY <1>1, <1>2, <2>1 DEF Email
  <2>2. CASE e # Email(c)
    <3>1. lock'[e] = lock[e] /\ lock[e] \in Confirmations
      BY <1>0, <1>2, <2>2 DEF AccountTypes
    <3>2. /\ cpc[lock[e]] \in {"insert", "commit"}
          /\ address[form[lock[e]].token] = e /\ verification[e] = form[lock[e]].token
      BY <3>1 DEF AccountsInv, AccountsTypeOK, Email
    <3>. QED
      BY <1>1, <1>2, <3>1, <3>2
  <2>. QED
    BY <2>1, <2>2
<1>7. LockInv'
  <2>. SUFFICES ASSUME NEW d \in Confirmations, cpc'[d] \in {"insert", "commit"}
                PROVE  lock'[Email(d)] = d
    BY <1>5 DEF LockInv
  <2>1. CASE d = c
    BY <1>1, <1>2, <2>1
  <2>2. CASE d # c
    <3>1. lock[Email(d)] = d /\ Email(d) \in Emails /\ d # None
      BY <1>2, <2>2, Begun DEF AccountsInv, LockInv
    <3>. QED
      BY <1>1, <1>2, <3>1
  <2>. QED
    BY <2>1, <2>2
<1>8. CommitInv'
  BY <1>2, <1>5 DEF AccountsInv, CommitInv, Taken
<1>9. UsersInv' /\ IssuedInv' /\ LastTokenGood' /\ ConfirmedOnce'
  BY <1>1, <1>2, <1>5 DEF AccountsInv, UsersInv, IssuedInv, LastTokenGood, ConfirmedOnce
<1>. QED
  BY <1>3, <1>4, <1>6, <1>7, <1>8, <1>9 DEF AccountsInv, AccountsTypeOK, LockOwner

\* The INSERT has seen that name and address are free, and no other transaction
\* has inserted the name.
LEMMA InsertUserInv ==
  ASSUME AccountsInv, NEW c \in Confirmations, InsertUser(c)
  PROVE  AccountsInv'
<1>0. AccountTypes
  BY DEF AccountsInv, AccountsTypeOK
<1>1. /\ cpc[c] = "insert" /\ ~Taken(c)
      /\ \A d \in Confirmations : cpc[d] = "commit" => form[d].name # form[c].name
      /\ \A d \in Confirmations : cpc'[d] = IF d = c THEN "commit" ELSE cpc[d]
      /\ UNCHANGED <<verification, fresh, lock, users, mail, issued, address, spc, form, restarts>>
  BY <1>0 DEF InsertUser, AccountTypes, rows
<1>2. AccountTypes'
  BY <1>0, <1>1 DEF InsertUser, AccountTypes, ConfirmStage
<1>3. MailInv' /\ FormInv' /\ UsersInv' /\ IssuedInv' /\ LastTokenGood'
  BY <1>1 DEF AccountsInv, MailInv, FormInv, UsersInv, IssuedInv, LastTokenGood
<1>4. \A d \in Confirmations : Email(d)' = Email(d) /\ (Taken(d)' <=> Taken(d))
  BY <1>1 DEF Email, Taken
<1>5. LockOwner'
  <2>. SUFFICES ASSUME NEW e \in Emails, lock[e] # None
                PROVE  /\ cpc'[lock[e]] \in {"insert", "commit"}
                       /\ Email(lock[e])' = e /\ verification[e] = form[lock[e]].token
    BY <1>1 DEF LockOwner
  <2>1. lock[e] \in Confirmations
    BY <1>0 DEF AccountTypes
  <2>. QED
    BY <1>1, <1>4, <2>1 DEF AccountsInv, AccountsTypeOK
<1>6. LockInv'
  BY <1>1, <1>4 DEF AccountsInv, LockInv
<1>7. CommitInv'
  BY <1>1, <1>4 DEF AccountsInv, CommitInv
<1>8. ConfirmedOnce'
  BY <1>1, <1>4 DEF AccountsInv, ConfirmedOnce
<1>. QED
  BY <1>2, <1>3, <1>5, <1>6, <1>7, <1>8 DEF AccountsInv, AccountsTypeOK, LockOwner

\* Undoing a transaction releases its lock and nobody else's.
LEMMA RollsBackInv ==
  ASSUME AccountsInv, NEW c \in Confirmations, RollsBack(c)
  PROVE  AccountsInv'
<1>0. AccountTypes
  BY DEF AccountsInv, AccountsTypeOK
<1>1. PICK a \in {"refused", "error", "gone"} : cpc' = [cpc EXCEPT ![c] = a]
  BY DEF RollsBack, Rollback
<1>2. /\ \A d \in Confirmations : cpc'[d] = IF d = c THEN a ELSE cpc[d]
      /\ \A x \in Emails : lock'[x] = IF lock[x] = c THEN None ELSE lock[x]
      /\ cpc[c] # "new"
      /\ UNCHANGED <<verification, fresh, users, mail, issued, address, spc, form, restarts>>
  BY <1>0, <1>1 DEF RollsBack, Rollback, Open, AccountTypes
<1>3. AccountTypes'
  <2>1. lock' \in [Emails -> Confirmations \cup {None}]
    BY <1>0 DEF RollsBack, Rollback, AccountTypes
  <2>2. cpc' \in [Confirmations -> ConfirmStage]
    BY <1>0, <1>1 DEF AccountTypes, ConfirmStage
  <2>. QED
    BY <1>0, <1>2, <2>1, <2>2 DEF AccountTypes
<1>4. MailInv' /\ FormInv' /\ UsersInv' /\ IssuedInv' /\ LastTokenGood'
  BY <1>2 DEF AccountsInv, MailInv, FormInv, UsersInv, IssuedInv, LastTokenGood
<1>5. \A d \in Confirmations : Email(d)' = Email(d) /\ (Taken(d)' <=> Taken(d))
  BY <1>2 DEF Email, Taken
<1>6. LockOwner'
  <2>. SUFFICES ASSUME NEW e \in Emails, lock'[e] # None
                PROVE  /\ cpc'[lock'[e]] \in {"insert", "commit"}
                       /\ address[form[lock'[e]].token] = e /\ verification[e] = form[lock'[e]].token
    BY <1>2 DEF LockOwner, Email
  <2>1. lock'[e] = lock[e] /\ lock[e] \in Confirmations /\ lock[e] # c
    BY <1>0, <1>2 DEF AccountTypes
  <2>. QED
    BY <1>2, <2>1 DEF AccountsInv, AccountsTypeOK, Email
<1>7. LockInv'
  <2>. SUFFICES ASSUME NEW d \in Confirmations, cpc'[d] \in {"insert", "commit"}
                PROVE  lock'[Email(d)] = d
    BY <1>5 DEF LockInv
  <2>1. d # c /\ cpc[d] = cpc'[d]
    BY <1>2
  <2>2. lock[Email(d)] = d /\ Email(d) \in Emails
    BY <2>1, Begun DEF AccountsInv, LockInv
  <2>. QED
    BY <1>2, <2>1, <2>2
<1>8. CommitInv'
  BY <1>2, <1>5 DEF AccountsInv, CommitInv
<1>9. ConfirmedOnce'
  BY <1>2, <1>5 DEF AccountsInv, ConfirmedOnce
<1>. QED
  BY <1>3, <1>4, <1>6, <1>7, <1>8, <1>9 DEF AccountsInv, AccountsTypeOK, LockOwner

\* A COMMIT makes the account under a name and for an address that have none:
\* the lock kept the address, the constraint the name.
LEMMA CommitsInv ==
  ASSUME AccountsInv, NEW c \in Confirmations, Commits(c)
  PROVE  AccountsInv'
<1> DEFINE m == Email(c)
           n == form[c].name
<1>0. AccountTypes
  BY DEF AccountsInv, AccountsTypeOK
<1>1. PICK a \in {"ok", "error", "gone"} : CommitAnd(c, a)
  BY DEF Commits
<1>2. /\ cpc[c] = "commit" /\ m \in Emails /\ m # None /\ n \in Usernames /\ c # None
      /\ form[c].token \in Tokens
      /\ lock[m] = c /\ users[n] = None /\ \A u \in Usernames : users[u] # m
  BY <1>1, Begun DEF CommitAnd, AccountsInv, LockInv, CommitInv, Taken
<1>3. /\ \A d \in Confirmations : cpc'[d] = IF d = c THEN a ELSE cpc[d]
      /\ \A x \in Emails : verification'[x] = IF x = m THEN None ELSE verification[x]
      /\ \A x \in Emails : lock'[x] = IF x = m THEN None ELSE lock[x]
      /\ \A u \in Usernames : users'[u] = IF u = n THEN m ELSE users[u]
      /\ UNCHANGED <<fresh, mail, issued, address, spc, form, restarts>>
  BY <1>0, <1>1, <1>2 DEF CommitAnd, AccountTypes
<1>4. AccountTypes'
  BY <1>0, <1>1, <1>2 DEF CommitAnd, AccountTypes, ConfirmStage
<1>5. MailInv' /\ FormInv'
  BY <1>2, <1>3 DEF AccountsInv, MailInv, FormInv
<1>6. \A d \in Confirmations : Email(d)' = Email(d)
  BY <1>3 DEF Email
<1>7. \A d \in Confirmations : cpc[d] \in {"insert", "commit"} /\ d # c => Email(d) # m
  BY <1>2 DEF AccountsInv, LockInv
<1>8. LockOwner'
  <2>. SUFFICES ASSUME NEW e \in Emails, lock'[e] # None
                PROVE  /\ cpc'[lock'[e]] \in {"insert", "commit"}
                       /\ address[form[lock'[e]].token] = e /\ verification'[e] = form[lock'[e]].token
    BY <1>3 DEF LockOwner, Email
  <2>1. e # m /\ lock'[e] = lock[e] /\ lock[e] \in Confirmations /\ verification'[e] = verification[e]
    BY <1>0, <1>3 DEF AccountTypes
  <2>2. /\ cpc[lock[e]] \in {"insert", "commit"}
        /\ address[form[lock[e]].token] = e /\ verification[e] = form[lock[e]].token
    BY <2>1 DEF AccountsInv, AccountsTypeOK, Email
  <2>. QED
    BY <1>2, <1>3, <1>7, <2>1, <2>2 DEF Email
<1>9. LockInv'
  <2>. SUFFICES ASSUME NEW d \in Confirmations, cpc'[d] \in {"insert", "commit"}
                PROVE  lock'[Email(d)] = d
    BY <1>6 DEF LockInv
  <2>1. d # c /\ cpc[d] = cpc'[d]
    BY <1>3
  <2>2. lock[Email(d)] = d /\ Email(d) \in Emails /\ Email(d) # m
    BY <1>7, <2>1, Begun DEF AccountsInv, LockInv
  <2>. QED
    BY <1>3, <2>2
<1>10. CommitInv'
  <2>. SUFFICES ASSUME NEW d \in Confirmations, cpc'[d] = "commit"
                PROVE  /\ ~Taken(d)'
                       /\ \A x \in Confirmations \ {d} : cpc'[x] = "commit" => form[x].name # form[d].name
    BY <1>3 DEF CommitInv
  <2>1. d # c /\ cpc[d] = "commit" /\ Email(d) # m /\ form[d].name # n /\ form[d].name \in Usernames
    BY <1>2, <1>3, <1>7, Begun DEF AccountsInv, CommitInv
  <2>2. users[form[d].name] = None /\ \A u \in Usernames : users[u] # Email(d)
    BY <2>1 DEF AccountsInv, CommitInv, Taken
  <2>3. ~Taken(d)'
    BY <1>3, <1>6, <2>1, <2>2 DEF Taken
  <2>4. \A x \in Confirmations \ {d} : cpc'[x] = "commit" => form[x].name # form[d].name
    BY <1>3, <2>1 DEF AccountsInv, CommitInv
  <2>. QED
    BY <2>3, <2>4
<1>11. UsersInv' /\ IssuedInv'
  BY <1>2, <1>3 DEF AccountsInv, UsersInv, IssuedInv
<1>12. LastTokenGood'
  <2>. SUFFICES ASSUME NEW e \in Emails, issued[e] # None
                PROVE  verification'[e] = issued[e] \/ \E u \in Usernames : users'[u] = e
    BY <1>3 DEF LastTokenGood
  <2>1. CASE e = m
    BY <1>2, <1>3, <2>1
  <2>2. CASE e # m
    <3>1. CASE verification[e] = issued[e]
      BY <1>3, <2>2, <3>1
    <3>2. ASSUME NEW u \in Usernames, users[u] = e
          PROVE  users'[u] = e
      BY <1>2, <1>3, <2>2, <3>2, AccountConstantsOK DEF AccountConstantsOK
    <3>. QED
      BY <3>1, <3>2 DEF AccountsInv, LastTokenGood
  <2>. QED
    BY <2>1, <2>2
<1>13. ConfirmedOnce'
  <2>. SUFFICES ASSUME NEW d \in Confirmations, cpc'[d] = "ok"
                PROVE  /\ users'[form[d].name] = Email(d)
                       /\ \A u \in Usernames : users'[u] = Email(d) => u = form[d].name
                       /\ \A x \in Confirmations \ {d} : cpc'[x] = "ok" => form[x].token # form[d].token
    BY <1>3, <1>6 DEF ConfirmedOnce
  <2>1. \A x \in Confirmations \ {c} : cpc[x] = "ok" =>
          /\ users[form[x].name] = Email(x) /\ Email(x) # m /\ Email(x) # None
          /\ form[x].name \in Usernames /\ form[x].name # n /\ form[x].token # form[c].token
    <3>. SUFFICES ASSUME NEW x \in Confirmations \ {c}, cpc[x] = "ok"
                  PROVE  /\ users[form[x].name] = Email(x) /\ Email(x) # m /\ Email(x) # None
                         /\ form[x].name \in Usernames /\ form[x].name # n
                         /\ form[x].token # form[c].token
      OBVIOUS
    <3>1. users[form[x].name] = Email(x) /\ form[x].name \in Usernames /\ Email(x) # None
      BY Begun DEF AccountsInv, ConfirmedOnce
    <3>2. Email(x) # m /\ form[x].name # n
      BY <1>2, <3>1
    <3>. QED
      BY <3>1, <3>2 DEF Email
  <2>2. CASE d = c
    BY <1>2, <1>3, <2>1, <2>2
  <2>3. CASE d # c
    <3>1. cpc[d] = "ok"
      BY <1>3, <2>3
    <3>2. users'[form[d].name] = Email(d)
      BY <1>3, <2>1, <2>3, <3>1
    <3>3. \A u \in Usernames : users'[u] = Email(d) => u = form[d].name
      BY <1>3, <2>1, <2>3, <3>1 DEF AccountsInv, ConfirmedOnce
    <3>4. \A x \in Confirmations \ {d} : cpc'[x] = "ok" => form[x].token # form[d].token
      BY <1>3, <2>1, <2>3, <3>1 DEF AccountsInv, ConfirmedOnce
    <3>. QED
      BY <3>2, <3>3, <3>4
  <2>. QED
    BY <2>2, <2>3
<1>. QED
  BY <1>4, <1>5, <1>8, <1>9, <1>10, <1>11, <1>12, <1>13 DEF AccountsInv, AccountsTypeOK, LockOwner

\* Seven days, or a restart, which undoes every transaction.
LEMMA AroundInv ==
  ASSUME AccountsInv, RestartApi \/ \E e \in Emails : Expire(e)
  PROVE  AccountsInv'
<1>0. AccountTypes
  BY DEF AccountsInv, AccountsTypeOK
<1>1. ASSUME NEW e \in Emails, Expire(e)
      PROVE  AccountsInv'
  <2>1. AccountTypes'
    BY <1>0, <1>1 DEF Expire, AccountTypes, requests
  <2>2. MailInv' /\ FormInv'
    BY <1>1 DEF Expire, AccountsInv, MailInv, FormInv, requests
  <2>3. /\ LockOwner' /\ LockInv' /\ CommitInv' /\ UsersInv' /\ IssuedInv'
        /\ LastTokenGood' /\ ConfirmedOnce'
    BY <1>1, SameConfirmations DEF Expire, requests
  <2>. QED
    BY <2>1, <2>2, <2>3 DEF AccountsInv, AccountsTypeOK, LockOwner
<1>2. CASE RestartApi
  <2>1. /\ \A t \in Tokens : spc'[t] = IF spc[t] \in {"store", "send"} THEN "gone" ELSE spc[t]
        /\ \A c \in Confirmations : cpc'[c] = IF Open(c) THEN "gone" ELSE cpc[c]
        /\ \A e \in Emails : lock'[e] = None
        /\ UNCHANGED <<verification, fresh, users, mail, issued, address, form>>
    BY <1>2 DEF RestartApi
  <2>2. AccountTypes'
    <3>1. /\ spc' \in [Tokens -> SignupStage]
          /\ cpc' \in [Confirmations -> ConfirmStage]
          /\ lock' \in [Emails -> Confirmations \cup {None}]
      BY <1>0, <1>2 DEF RestartApi, AccountTypes, SignupStage, ConfirmStage
    <3>2. restarts' \in 0 .. MaxRestarts
      BY <1>0, <1>2, AccountConstantsOK DEF RestartApi, AccountTypes, AccountConstantsOK
    <3>. QED
      BY <1>0, <2>1, <3>1, <3>2 DEF AccountTypes
  <2>3. \A c \in Confirmations : /\ cpc'[c] \notin {"insert", "commit"}
                                 /\ cpc'[c] = "ok" <=> cpc[c] = "ok"
                                 /\ cpc'[c] # "new" <=> cpc[c] # "new"
    BY <2>1 DEF Open
  <2>4. MailInv' /\ FormInv'
    BY <1>0, <2>1, <2>3 DEF AccountsInv, MailInv, FormInv, AccountTypes
  <2>5. LockOwner' /\ LockInv' /\ CommitInv'
    BY <2>1, <2>3 DEF LockOwner, LockInv, CommitInv
  <2>6. UsersInv' /\ IssuedInv' /\ LastTokenGood' /\ ConfirmedOnce'
    BY <2>1, <2>3 DEF AccountsInv, UsersInv, IssuedInv, LastTokenGood, ConfirmedOnce, Email
  <2>. QED
    BY <2>2, <2>4, <2>5, <2>6 DEF AccountsInv, AccountsTypeOK, LockOwner
<1>. QED
  BY <1>1, <1>2

-----------------------------------------------------------------------------
(* The invariant, and what follows from it. *)

\* No account, no token and no request.
LEMMA InitAccountsInv == AccountsInit => AccountsInv
BY AccountConstantsOK
DEF AccountsInit, AccountsInv, AccountsTypeOK, AccountTypes, MailInv, FormInv, LockInv, CommitInv,
    UsersInv, IssuedInv, LastTokenGood, ConfirmedOnce, SignupStage, ConfirmStage, AccountConstantsOK

\* Every step keeps every part.
LEMMA NextAccountsInv == AccountsInv /\ [AccountsNext]_accountVars => AccountsInv'
<1>. HAVE AccountsInv /\ [AccountsNext]_accountVars
<1>1. CASE UNCHANGED accountVars
  BY <1>1
  DEF accountVars, rows, requests, AccountsInv, AccountsTypeOK, AccountTypes, MailInv, FormInv,
      LockInv, CommitInv, UsersInv, IssuedInv, LastTokenGood, ConfirmedOnce, Email, Taken
<1>. QED
  BY <1>1, StepKinds, SignupStepInv, StoresInv, ConfirmInv, DeleteTokenInv, InsertUserInv,
     RollsBackInv, CommitsInv, AroundInv

\* AccountsInv holds throughout.
THEOREM AccountsInvariance == AccountsSpec => []AccountsInv
BY InitAccountsInv, NextAccountsInv, PTL DEF AccountsSpec

\* A row of `verification` is locked only by a transaction at work on that row:
\* no path through signup_confirmation leaves a lock behind.
THEOREM LocksAreHeld == AccountsSpec => []AccountsTypeOK
<1>1. AccountsInv => AccountsTypeOK
  BY DEF AccountsInv
<1>. QED
  BY <1>1, AccountsInvariance, PTL

\* No failure, race or restart of a confirmation uses up the token that was
\* issued last: it is in the table until its address has an account.
THEOREM TokenKept == AccountsSpec => []LastTokenGood
<1>1. AccountsInv => LastTokenGood
  BY DEF AccountsInv
<1>. QED
  BY <1>1, AccountsInvariance, PTL

\* Of any number of confirmations with one token, one address or one name, at
\* most one is answered with 200, and its account is there for good.
THEOREM OneAccountEach == AccountsSpec => []ConfirmedOnce
<1>1. AccountsInv => ConfirmedOnce
  BY DEF AccountsInv
<1>. QED
  BY <1>1, AccountsInvariance, PTL

-----------------------------------------------------------------------------
(* Accounts implements Registration.                                        *)

\* What Registration calls `confirmed`.
Confirmed == {form[c] : c \in {d \in Confirmations : cpc[d] = "ok"}}

\* A step that changes nothing Registration speaks of.
LEMMA RegistrationStutter ==
  ASSUME UNCHANGED <<address, issued, mail, users, Confirmed>>
  PROVE  UNCHANGED R!registrationVars
BY DEF R!registrationVars, Confirmed

\* An answer other than 200 does not change who was answered with 200.
LEMMA SameConfirmed ==
  ASSUME AccountTypes, NEW c \in Confirmations, cpc[c] # "ok",
         NEW a \in ConfirmStage \ {"ok"}, cpc' = [cpc EXCEPT ![c] = a],
         \A d \in Confirmations \ {c} : form'[d] = form[d]
  PROVE  UNCHANGED Confirmed
<1>1. \A d \in Confirmations : (cpc'[d] = "ok" <=> cpc[d] = "ok") /\ (cpc[d] = "ok" => d # c)
  BY DEF AccountTypes
<1>. QED
  BY <1>1 DEF Confirmed

\* A COMMIT is the one step that makes an account, and the last chance to
\* answer 200.
LEMMA CommitRegisters ==
  ASSUME AccountsInv, NEW c \in Confirmations, Commits(c)
  PROVE  R!Register(form[c].token, form[c].name)
<1>0. AccountTypes
  BY DEF AccountsInv, AccountsTypeOK
<1>1. PICK a \in {"ok", "error", "gone"} : CommitAnd(c, a)
  BY DEF Commits
<1>2. /\ cpc[c] = "commit" /\ ~Taken(c) /\ lock[Email(c)] = c
      /\ Email(c) \in Emails /\ c # None
      /\ form[c] \in [token : mail, name : Usernames]
  BY <1>1, Begun DEF CommitAnd, AccountsInv, CommitInv, LockInv, FormInv
<1>3. verification[Email(c)] = form[c].token /\ form[c].token \in Tokens
  BY <1>2, Begun DEF AccountsInv, AccountsTypeOK
<1>4. issued[Email(c)] = form[c].token
  BY <1>2, <1>3, AccountConstantsOK
  DEF AccountsInv, LastTokenGood, IssuedInv, Taken, AccountConstantsOK
<1>5. users' = [users EXCEPT ![form[c].name] = address[form[c].token]]
  BY <1>1 DEF CommitAnd, Email
<1>6. Confirmed' \in {Confirmed, Confirmed \cup {form[c]}}
  <2>1. UNCHANGED form /\ \A d \in Confirmations : cpc'[d] = IF d = c THEN a ELSE cpc[d]
    BY <1>0, <1>1 DEF CommitAnd, AccountTypes
  <2>2. CASE a = "ok"
    BY <1>2, <2>1, <2>2 DEF Confirmed
  <2>3. CASE a # "ok"
    BY <1>2, <2>1, <2>3 DEF Confirmed
  <2>. QED
    BY <2>2, <2>3
<1>7. form[c] = [token |-> form[c].token, name |-> form[c].name]
  BY <1>2
<1>8. /\ form[c].token \in mail /\ users[form[c].name] = None
      /\ \A v \in Usernames : users[v] # address[form[c].token]
      /\ issued[address[form[c].token]] = form[c].token
      /\ UNCHANGED <<address, issued, mail>>
  BY <1>1, <1>2, <1>4 DEF CommitAnd, Taken, Email
<1>. QED
  BY <1>5, <1>6, <1>7, <1>8 DEF R!Register, Confirmed

\* Every step is one of Registration or none.
LEMMA NextRegistration ==
  AccountsInv /\ [AccountsNext]_accountVars => [R!Next]_(R!registrationVars)
<1>. SUFFICES ASSUME AccountsInv, [AccountsNext]_accountVars
              PROVE  [R!Next]_(R!registrationVars)
  OBVIOUS
<1>0. AccountTypes /\ MailInv
  BY DEF AccountsInv, AccountsTypeOK
<1>1. CASE UNCHANGED accountVars
  BY <1>1, RegistrationStutter DEF accountVars, rows, requests, Confirmed
<1>2. ASSUME NEW t \in Tokens, Signup(t)
      PROVE  [R!Next]_(R!registrationVars)
  <2>1. PICK e \in Emails : address' = [address EXCEPT ![t] = e]
    BY <1>2 DEF Signup
  <2>2. UNCHANGED <<issued, mail, users, Confirmed>>
    BY <1>2 DEF Signup, rows, Confirmed
  <2>3. address[t] = None
    BY <1>0, <1>2 DEF Signup, MailInv
  <2>. QED
    BY <2>1, <2>2, <2>3 DEF R!Draw, R!Next, Confirmed
<1>3. ASSUME NEW t \in Tokens, Stores(t)
      PROVE  [R!Next]_(R!registrationVars)
  <2>1. address[t] \in Emails /\ t \notin mail
    BY <1>0, <1>3 DEF Stores, MailInv
  <2>2. UNCHANGED <<address, mail, users, Confirmed>>
    BY <1>3 DEF Stores, Upsert, Confirmed
  <2>3. R!Issue(t)
    BY <1>3, <2>1, <2>2 DEF Stores, Upsert, R!Issue, Confirmed
  <2>. QED
    BY <2>3 DEF R!Next
<1>4. ASSUME NEW t \in Tokens, Mails(t)
      PROVE  [R!Next]_(R!registrationVars)
  <2>1. UNCHANGED <<address, issued, users, Confirmed>>
    BY <1>4 DEF Mails, rows, Confirmed
  <2>2. CASE mail' = mail
    BY <2>1, <2>2, RegistrationStutter
  <2>3. CASE mail' = mail \cup {t}
    <3>1. address[t] \in Emails
      BY <1>0, <1>4 DEF Mails, MailInv
    <3>2. R!Mail(t)
      BY <2>1, <2>3, <3>1 DEF R!Mail, Confirmed
    <3>. QED
      BY <3>2 DEF R!Next
  <2>. QED
    BY <1>4, <2>2, <2>3 DEF Mails
<1>5. ASSUME NEW c \in Confirmations, Confirm(c) \/ DeleteToken(c) \/ InsertUser(c) \/ RollsBack(c)
      PROVE  [R!Next]_(R!registrationVars)
  <2>1. UNCHANGED <<address, issued, mail, users>>
    BY <1>5 DEF Confirm, DeleteToken, InsertUser, RollsBack, Rollback, rows
  <2>2. /\ cpc[c] # "ok"
        /\ \E a \in ConfirmStage \ {"ok"} : cpc' = [cpc EXCEPT ![c] = a]
        /\ \A d \in Confirmations \ {c} : form'[d] = form[d]
    BY <1>0, <1>5
    DEF Confirm, DeleteToken, InsertUser, RollsBack, Rollback, Open, ConfirmStage, AccountTypes
  <2>. QED
    BY <1>0, <2>1, <2>2, SameConfirmed, RegistrationStutter
<1>6. ASSUME NEW c \in Confirmations, Commits(c)
      PROVE  [R!Next]_(R!registrationVars)
  <2>1. form[c].token \in Tokens /\ form[c].name \in Usernames
    BY <1>6, Begun DEF Commits, CommitAnd
  <2>. QED
    BY <1>6, <2>1, CommitRegisters DEF R!Next, R!Register
<1>7. ASSUME NEW e \in Emails, Expire(e)
      PROVE  [R!Next]_(R!registrationVars)
  BY <1>7, RegistrationStutter DEF Expire, requests, Confirmed
<1>8. CASE RestartApi
  <2>1. UNCHANGED <<address, issued, mail, users, form>>
    BY <1>8 DEF RestartApi
  <2>2. \A c \in Confirmations : cpc'[c] = "ok" <=> cpc[c] = "ok"
    BY <1>8 DEF RestartApi, Open
  <2>3. UNCHANGED Confirmed
    BY <2>1, <2>2 DEF Confirmed
  <2>. QED
    BY <2>1, <2>3, RegistrationStutter
<1>. QED
  BY <1>1, <1>2, <1>3, <1>4, <1>5, <1>6, <1>7, <1>8, StepKinds

\* The two handlers, the row lock, the constraints and the transaction make of
\* signup and confirmation what Registration says: an account is made in one
\* step by the last token that its address was sent, and 200 is answered in that
\* step or not at all.
THEOREM ImplementsRegistration == AccountsSpec => RegistrationSpec
<1>1. AccountsInit => R!Init
  BY DEF AccountsInit, R!Init
<1>2. AccountsInv /\ [AccountsNext]_accountVars => [R!Next]_(R!registrationVars)
  BY NextRegistration
<1>. QED
  BY <1>1, <1>2, AccountsInvariance, PTL DEF AccountsSpec, RegistrationSpec, R!Spec
=============================================================================
