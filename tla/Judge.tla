-------------------------------- MODULE Judge --------------------------------
(***************************************************************************)
(* The way of a submission through the whole system: the API's handler     *)
(* (SubmitApi) and the workers (Worker) over one database and one broker.  *)
(* The client of request m sees pc[m], the answer, and then polls          *)
(* status[m].                                                              *)
(***************************************************************************)
EXTENDS Worker

CONSTANTS Admissible, ApiFaults

VARIABLES pc, conn, wire

Api == INSTANCE SubmitApi WITH declared <- Declared

ASSUME ApiConstantsOK == Api!ApiConstants

apiVars == <<pc, conn, wire>>
judgeVars == <<vars, apiVars>>

JudgeInit == Init /\ Api!ApiInit

\* A step of the API or of its connection leaves the workers alone ...
ApiStep ==
  /\ Api!ApiNext
  /\ UNCHANGED <<stray, dlq, acked, channel, starts, loop, tasks>>

\* ... and a step of theirs leaves the API alone.
WorkerStep ==
  /\ Consume
  /\ UNCHANGED apiVars

JudgeNext == ApiStep \/ WorkerStep

JudgeSpec == JudgeInit /\ [][JudgeNext]_judgeVars

-----------------------------------------------------------------------------
(* Properties. *)

\* No worker ever holds a task whose row is missing, so that its UPDATE always
\* finds one: the row is committed before the task is published.
MessageHasRow ==
  \A m \in Submissions : m \in wire \cup Published => status[m] # "ABSENT"

\* A submission answered with 200 is on its way: its task is on the wire, with
\* the broker, or settled.
AnsweredIsKept ==
  \A m \in Submissions : pc[m] = "ok" => m \in wire \cup Published

\* Seen from the queue a submission begins when its task arrives: with the rows
\* hidden until then, the system does what Worker's atomic Submit says.
SeenStatus == [m \in Submissions |-> IF m \in Published THEN status[m] ELSE "ABSENT"]

W == INSTANCE WorkerInvariant WITH status <- SeenStatus

WorkerSpec == W!Spec

\* A request's row is there before its task, and its task is published once.
RowInv ==
  \A m \in Submissions :
    /\ pc[m] \in {"new", "channel", "insert"} => status[m] = "ABSENT"
    /\ pc[m] \in {"exchange", "publish"} => status[m] = "PENDING"
    /\ pc[m] \in {"exchange", "publish"} => m \notin wire \cup Published
    /\ m \in wire => status[m] = "PENDING" /\ m \notin Published
    /\ m \in Published => status[m] # "ABSENT"
    /\ m \notin Published => status[m] \in {"ABSENT", "PENDING"}

\* The inductive invariant: that of the workers over what is seen of the rows,
\* and what the handlers know of a row and its task at each of their awaits.
JudgeInv ==
  /\ status \in [Submissions -> Row]
  /\ Api!ApiTypeOK
  /\ W!IInv
  /\ RowInv
=============================================================================
