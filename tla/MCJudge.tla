------------------------------- MODULE MCJudge -------------------------------
(* Model values and small instances for TLC's runs of module Judge.         *)
EXTENDS Judge, TLC

CONSTANTS s1, s2, w1

\* s1 passes or runs into the time limit, s2 is wrong.
MCRuns ==
  [m \in Submissions |->
     IF m = s1 THEN {[exit_code |-> 0, same |-> TRUE],
                     [exit_code |-> TIMEOUT_EXIT, same |-> FALSE]}
               ELSE {[exit_code |-> 1, same |-> FALSE]}]

\* Every submission is wrong, however it ends.
WrongRuns ==
  [m \in Submissions |->
     {[exit_code |-> 0, same |-> FALSE], [exit_code |-> 1, same |-> FALSE]}]

\* How often each process is started.
Once == [w \in Workers |-> 1]
W1Twice == [w \in Workers |-> IF w = w1 THEN 2 ELSE 1]

\* The submissions are alike.
Symmetry == Permutations(Submissions)
=============================================================================
