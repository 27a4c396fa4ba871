------------------------------ MODULE MCWorker ------------------------------
(* Model values and small instances for TLC's runs of module Worker.        *)
EXTENDS WorkerInvariant

CONSTANTS s1, s2, g1

\* s1 is right but slow: it passes or runs into the time limit, depending on
\* the load of the host.  s2 is wrong.
MCRuns ==
  [m \in Submissions |->
     IF m = s1 THEN {[exit_code |-> 0, same |-> TRUE],
                     [exit_code |-> TIMEOUT_EXIT, same |-> FALSE]}
               ELSE {[exit_code |-> 1, same |-> FALSE]}]

\* How often each process is started.
Once == [w \in Workers |-> 1]
Twice == [w \in Workers |-> 2]
=============================================================================
