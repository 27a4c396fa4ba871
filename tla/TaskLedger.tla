----------------------------- MODULE TaskLedger -----------------------------
(***************************************************************************)
(* What the judge promises a client about one submission, with the queue,  *)
(* the workers and the containers hidden: a submission that was taken in   *)
(* stays queued until it is either done, and then its row holds a verdict, *)
(* or parked in the dead-letter queue.  It is settled once.  A verdict may *)
(* be written (again) at any time after the submission was taken in; the   *)
(* row never goes back to PENDING.                                         *)
(***************************************************************************)
EXTENDS ExecStatus

CONSTANTS Submissions

VARIABLES
  fate,   \* what became of the submission's message
  row     \* submit_status.status of the submission, "ABSENT" before the INSERT

ledgerVars == <<fate, row>>

Fate == {"absent", "queued", "done", "parked"}
Row == {"ABSENT", "PENDING"} \cup ExecStatus

LedgerTypeOK ==
  /\ fate \in [Submissions -> Fate]
  /\ row \in [Submissions -> Row]

Init ==
  /\ fate = [m \in Submissions |-> "absent"]
  /\ row = [m \in Submissions |-> "ABSENT"]

TakeIn(m) ==
  /\ fate[m] = "absent"
  /\ fate' = [fate EXCEPT ![m] = "queued"]
  /\ row' = [row EXCEPT ![m] = "PENDING"]

Record(m, v) ==
  /\ fate[m] # "absent"
  /\ row' = [row EXCEPT ![m] = v]
  /\ UNCHANGED fate

Complete(m) ==
  /\ fate[m] = "queued"
  /\ row[m] \in ExecStatus
  /\ fate' = [fate EXCEPT ![m] = "done"]
  /\ UNCHANGED row

Park(m) ==
  /\ fate[m] = "queued"
  /\ fate' = [fate EXCEPT ![m] = "parked"]
  /\ UNCHANGED row

Next ==
  \E m \in Submissions :
    \/ TakeIn(m)
    \/ \E v \in ExecStatus : Record(m, v)
    \/ Complete(m)
    \/ Park(m)

Spec == Init /\ [][Next]_ledgerVars
=============================================================================
