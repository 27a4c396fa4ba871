------------------------------ MODULE Lending ------------------------------
(***************************************************************************)
(* What the listen loop and its tasks may count on of the container pool,  *)
(* with permits, recycling and the daemon hidden: a container is lent to   *)
(* one task at a time, to at most Size of them, and exists when it is      *)
(* lent; nothing is lent once the pool is being torn down, and the process *)
(* ends only when the removal of all that was ever lent has been tried.    *)
(***************************************************************************)
EXTENDS FiniteSets, Naturals

CONSTANTS Tasks, Objects, Size, None

VARIABLES
  stage,     \* stage[t]: has task t been served, and is it done
  object,    \* object[t]: what task t has on loan
  open,      \* does the pool lend
  known,     \* what the pool will remove at the end
  removed,   \* what is removed
  refused    \* what could not be removed

lendingVars == <<stage, object, open, known, removed, refused>>

Borrowers == {t \in Tasks : object[t] # None}

Init ==
  /\ stage = [t \in Tasks |-> "waiting"]
  /\ object = [t \in Tasks |-> None]
  /\ open = TRUE
  /\ known = {}
  /\ removed = {}
  /\ refused = {}

\* t can have o: there is a permit, and o is there and with nobody.
Available(t, o) ==
  /\ open
  /\ stage[t] = "waiting"
  /\ Cardinality(Borrowers) < Size
  /\ o \notin removed
  /\ \A u \in Tasks : object[u] # o

Lend(t, o) ==
  /\ Available(t, o)
  /\ stage' = [stage EXCEPT ![t] = "using"]
  /\ object' = [object EXCEPT ![t] = o]
  /\ known' = known \cup {o}
  /\ UNCHANGED <<open, removed, refused>>

\* The message does not parse, so o is put back at once.
Spare(t, o) ==
  /\ Available(t, o)
  /\ stage' = [stage EXCEPT ![t] = "over"]
  /\ known' = known \cup {o}
  /\ UNCHANGED <<object, open, removed, refused>>

Return(t) ==
  /\ stage[t] = "using"
  /\ stage' = [stage EXCEPT ![t] = "over"]
  /\ object' = [object EXCEPT ![t] = None]
  /\ UNCHANGED <<open, known, removed, refused>>

\* The pool removes an object when it is torn down; others may at any time.
Remove(o) ==
  /\ removed' = removed \cup {o}
  /\ UNCHANGED <<stage, object, open, known, refused>>

\* It tries in vain to remove o.
Refuse(o) ==
  /\ ~open
  /\ o \in known
  /\ refused' = refused \cup {o}
  /\ UNCHANGED <<stage, object, open, known, removed>>

Shut ==
  /\ open' = FALSE
  /\ UNCHANGED <<stage, object, known, removed, refused>>

\* The tasks that are left are over.
Finish ==
  /\ stage' = [t \in Tasks |-> "over"]
  /\ object' = [t \in Tasks |-> None]
  /\ UNCHANGED <<known, removed, refused>>

\* The process ends ...
End ==
  /\ ~open
  /\ known \subseteq removed \cup refused
  /\ Finish
  /\ UNCHANGED open

\* ... or is killed.
Crash ==
  /\ open' = FALSE
  /\ Finish

Next ==
  \/ \E t \in Tasks : Return(t) \/ \E o \in Objects : Lend(t, o) \/ Spare(t, o)
  \/ \E o \in Objects : Remove(o) \/ Refuse(o)
  \/ Shut
  \/ End
  \/ Crash

Spec == Init /\ [][Next]_lendingVars
=============================================================================
