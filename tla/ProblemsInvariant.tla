-------------------------- MODULE ProblemsInvariant --------------------------
(***************************************************************************)
(* What makes the properties of Problems inductive: TLC checks ProblemsInv,*)
(* ProblemsProofs proves it.                                               *)
(***************************************************************************)
EXTENDS Problems

Pending(l) == login[l] # None /\ login[l] # Over

\* What Redis holds, and what a login under way will store, was read together
\* from the table.
Genuine ==
  /\ \A i \in Ids : redis[i] \in granted \cup {None}
  /\ \A l \in Logins : Pending(l) =>
       /\ login[l].auth \in granted \cup {None}
       /\ login[l].at = "respond" =>
            [user |-> login[l].who, role |-> login[l].role] \in granted

\* Whoever got past the check of the role had a role that passes it.
Admitted ==
  \A r \in Creations :
    /\ req[r].auth \in granted \cup {None}
    /\ req[r].at \notin {"new", "unauthorized"} => MayCreate(req[r].auth)

Numbered == {r \in Creations : req[r].id # 0}

\* The sequence counts the requests that have inserted their problem.
Counted ==
  /\ sequence = 2 + Cardinality(Numbered)
  /\ \A r \in Creations :
       /\ req[r].id < sequence
       /\ req[r].at \in {"new", "unauthorized", "begin", "problem"} => req[r].id = 0
       /\ req[r].at \in {"testcase", "commit"} => req[r].id # 0

\* A client that pages has received what stands before its offset.
Passed ==
  walk # None =>
    /\ walk.due \subseteq problems
    /\ \A p \in walk.due : Position(p) < walk.offset => p \in walk.seen
    /\ walk.over => walk.due \subseteq walk.seen

SessionInv == SessionTypes /\ Genuine

Distinct ==
  /\ \A p \in problems \cup cases : p < sequence
  /\ \A r, s \in Creations : req[r].id = req[s].id /\ req[r].id # 0 => r = s

ProblemInv == ProblemTypes /\ Counted /\ Distinct /\ Admitted /\ ListedIsJudgeable

ProblemsInv == SessionInv /\ ProblemInv /\ Passed
=============================================================================
