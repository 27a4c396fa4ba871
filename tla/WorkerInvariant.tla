--------------------------- MODULE WorkerInvariant ---------------------------
(***************************************************************************)
(* The inductive invariant behind the theorems of WorkerProofs.  OnePlace, *)
(* NoTaskLost and SingleJudge do not carry themselves over a step: what a  *)
(* task may still settle depends on what its process, its channel and its  *)
(* token went through since the delivery.                                  *)
(***************************************************************************)
EXTENDS Worker

\* A process that is down has nothing; a cancelled token means that `execute`
\* is in its teardown; a closed channel holds no delivery.
ProcessInv ==
  \A w \in Workers :
    /\ phase[w] = "down" =>
         /\ ~chan[w] /\ ~token[w] /\ hand[w] = None
         /\ \A m \in Submissions : stage[w][m] = "none"
         /\ \A m \in Messages : tag[w][m] = 0
    /\ token[w] => phase[w] = "closing"
    /\ ~chan[w] => unacked[w] = {}
    /\ \A m \in Submissions : stage[w][m] = "requeue" => token[w]

\* Nobody has heard of a submission before its row exists.
AbsentInv ==
  \A m \in Submissions : status[m] = "ABSENT" =>
    /\ m \notin ready \cup dlq \cup acked
    /\ \A w \in Workers :
         /\ m \notin unacked[w]
         /\ tag[w][m] = 0 /\ hand[w] # m /\ stage[w][m] = "none"
    /\ \A u \in stray : u.m # m

\* A row's message is with the broker from the publish on.
KeptInv ==
  \A m \in Submissions : status[m] # "ABSENT" =>
    m \in ready \cup dlq \cup acked \/ \E w \in Workers : m \in unacked[w]

\* A task acknowledges only after its UPDATE ran.
VerdictInv ==
  \A m \in Submissions :
    /\ m \in acked => status[m] \in ExecStatus
    /\ \A w \in Workers :
         /\ stage[w][m] \in {"update", "written"} => result[w][m] \in ExecStatus
         /\ stage[w][m] \in {"written", "ack"} => status[m] \in ExecStatus

\* Deliveries are taken in the order of their tags: what is in the hand or
\* with a task has been taken, and the hand holds nothing a task is at.
OrderInv ==
  \A w \in Workers :
    /\ \A m \in Messages : hand[w] = m => tag[w][m] <= taken[w]
    /\ \A m \in Submissions : stage[w][m] # "none" =>
         tag[w][m] <= taken[w] /\ hand[w] # m

\* While its channel is open and its token is not cancelled, a worker works
\* only on deliveries the broker still counts as its own.
OwnInv ==
  \A w \in Workers : ~Detached(w) =>
    /\ \A m \in Submissions : stage[w][m] # "none" => m \in unacked[w]
    /\ \A m \in Messages : hand[w] = m => m \in unacked[w]
    /\ \A m \in Messages : tag[w][m] > taken[w] => m \in unacked[w]

\* The inductive invariant: the parts above with types and OnePlace.
IInv ==
  /\ TypeOK
  /\ ProcessInv
  /\ AbsentInv
  /\ KeptInv
  /\ VerdictInv
  /\ OrderInv
  /\ OnePlace
  /\ OwnInv

-----------------------------------------------------------------------------
(* What NoAbandonedDelivery and VerdictIsGenuine rest on.  They hold only    *)
(* where tasks do not panic, and where nobody closes the pool under tasks    *)
(* whose token is not cancelled; IInv holds under every fault.               *)

Tagged(w) == {m \in Messages : tag[w][m] # 0}

Consuming(w) == phase[w] = "listening" /\ chan[w]

\* On a channel that is consumed, tags are given once and in order, and what
\* has a tag is not settled or was settled for good: nothing comes back.
TagOrder(w) ==
  /\ phase[w] = "down" => taken[w] = 0
  /\ Consuming(w) =>
       /\ taken[w] <= Cardinality(Tagged(w))
       /\ \A m \in Messages : tag[w][m] <= Cardinality(Tagged(w))
       /\ \A m, x \in Tagged(w) : tag[w][m] = tag[w][x] => m = x
       /\ \A m \in Tagged(w) : m \in unacked[w] \cup dlq \cup acked

TagInv == \A w \in Workers : TagOrder(w)

\* A worker that consumes has its channel, and one that tears its pool down
\* has cancelled its token: a signal is the only way out of the listen loop.
CalmInv ==
  \A w \in Workers :
    /\ phase[w] # "draining"
    /\ phase[w] = "listening" => chan[w]
    /\ phase[w] = "closing" => token[w]

\* The verdicts that undisturbed executions of m give.
Genuine(m) == {StatusOf(o) : o \in Runs[m]}

\* A verdict is genuine in the row, in the task that is about to write it, and
\* in the UPDATE nobody awaits any more.
GenuineInv ==
  /\ \A m \in Submissions :
       /\ status[m] \in {"ABSENT", "PENDING"} \cup Genuine(m)
       /\ \A w \in Workers :
            stage[w][m] \in {"update", "written"} => result[w][m] \in Genuine(m)
  /\ \A u \in stray : u.v \in Genuine(u.m)

\* The strengthening, on top of IInv, for workers that are left in peace.
SettleInv ==
  /\ TagInv
  /\ CalmInv
  /\ GenuineInv

-----------------------------------------------------------------------------
(* What VerdictFinal rests on where the executions of a submission differ.   *)
(* It holds where, besides, no worker is ever stopped (MaxStarts[w] <= 1).   *)

\* A process that was started is in its loop.
UpInv == \A w \in Workers : phase[w] = IF starts[w] = 0 THEN "down" ELSE "listening"

\* No verdict for m has been sent.
Unheard(m) == status[m] \notin ExecStatus /\ \A u \in stray : u.m # m

\* Who waits to be executed, or is at it: in the buffer, in the hand, in a task.
Waiting(w, m) == tag[w][m] > taken[w] \/ hand[w] = m \/ stage[w][m] \in {"fetch", "exec"}

\* A submission is executed before there is a verdict for it, and never after.
NewsInv ==
  \A m \in Submissions : m \in ready \/ (\E w \in Workers : Waiting(w, m)) => Unheard(m)

\* The row, the task that writes it and the UPDATEs nobody awaits agree.
AgreeInv ==
  /\ \A u \in stray :
       /\ status[u.m] \in ExecStatus => status[u.m] = u.v
       /\ \A x \in stray : x.m = u.m => x.v = u.v
  /\ \A m \in Submissions : \A w \in Workers : stage[w][m] \in {"update", "written"} =>
       /\ status[m] \in ExecStatus => status[m] = result[w][m]
       /\ \A u \in stray : u.m = m => u.v = result[w][m]

\* The strengthening, on top of IInv and SettleInv, for workers that stay up.
StayInv ==
  /\ UpInv
  /\ NewsInv
  /\ AgreeInv
=============================================================================
