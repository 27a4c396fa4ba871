---------------------------- MODULE JudgeProofs ----------------------------
(***************************************************************************)
(* Theorems of module Judge, for every set of requests and of workers,     *)
(* every pool size and every choice of faults: the API, the database, the  *)
(* broker and the workers together implement module Worker, whose producer *)
(* is a single step, and so the theorems of WorkerProofs and of         *)
(* VerdictProofs hold of the whole system, from the request on.            *)
(***************************************************************************)
EXTENDS Judge, TLAPS

\* The theorems about the workers, over what is seen of the rows.
P == INSTANCE VerdictProofs WITH status <- SeenStatus

-----------------------------------------------------------------------------
(* Module Judge has Worker three times: itself, W over what is seen of the   *)
(* rows, and P, which is W with the theorems.                               *)

\* The theorems of WorkerProofs may be cited: their assumptions are Worker's.
LEMMA Assumptions == P!ConstantsOK /\ P!RunsOK
<1>1. P!ConstantsOK
  BY ConstantsOK
  DEF ConstantsOK, P!ConstantsOK, Messages, P!Messages, FaultKind, P!FaultKind,
      ExecStatus, P!ExecStatus, IsFiniteSet, P!IsFiniteSet
<1>2. P!RunsOK
  BY RunsOK DEF RunsOK, P!RunsOK, ExecOutput, P!ExecOutput
<1>. QED
  BY <1>1, <1>2

\* The instances bring the operators of FiniteSets along.
LEMMA SameCardinality ==
  \A S : P!Cardinality(S) = Cardinality(S) /\ W!Cardinality(S) = Cardinality(S)
BY DEF Cardinality, P!Cardinality, W!Cardinality

\* The two instances of Worker begin alike ...
LEMMA SameInit == W!Init <=> P!Init
BY DEF W!Init, P!Init, W!Messages, P!Messages

\* ... and have the same steps,
LEMMA SameNext == [W!Next]_(W!vars) <=> [P!Next]_(P!vars)
BY DEF W!Next, P!Next, W!Submit, P!Submit, W!Consume, P!Consume,
  W!Environment, P!Environment, W!PublishGarbage, P!PublishGarbage,
  W!RunStray, P!RunStray, W!Process, P!Process, W!vars, P!vars, W!db, P!db,
  W!queues, P!queues, W!channel, P!channel, W!loop, P!loop, W!tasks, P!tasks,
  W!Start, P!Start, W!Crash, P!Crash, W!EndProcess, P!EndProcess, W!Mortal,
  P!Mortal, W!Signal, P!Signal, W!Exit, P!Exit, W!ChannelLost, P!ChannelLost,
  W!CloseChannel, P!CloseChannel, W!Listen, P!Listen, W!Deliver, P!Deliver,
  W!Take, P!Take, W!ConsumerEnds, P!ConsumerEnds, W!Spawn, P!Spawn,
  W!PoolGetFails, P!PoolGetFails, W!ListenFails, P!ListenFails,
  W!RejectGarbage, P!RejectGarbage, W!RejectFails, P!RejectFails,
  W!HandleDelivery, P!HandleDelivery, W!HandleMessage, P!HandleMessage,
  W!FetchTestcase, P!FetchTestcase, W!FetchFails, P!FetchFails,
  W!ExecTestcase, P!ExecTestcase, W!ExecReturns, P!ExecReturns, W!ExecKilled,
  P!ExecKilled, W!ExecFails, P!ExecFails, W!Panic, P!Panic, W!RunUpdate,
  P!RunUpdate, W!RetryUpdate, P!RetryUpdate, W!UpdateFails, P!UpdateFails,
  W!UpdateReturns, P!UpdateReturns, W!Cancelled, P!Cancelled, W!LeftBehind,
  P!LeftBehind, W!Ack, P!Ack, W!Nack, P!Nack, W!Requeue, P!Requeue, W!UpTo,
  P!UpTo, W!Refused, P!Refused, W!Move, P!Move, W!Fail, P!Fail, W!InUse,
  P!InUse, W!Handling, P!Handling, W!Messages, P!Messages, W!Declared,
  P!Declared, W!Published, P!Published, W!Cardinality, P!Cardinality,
  W!StatusOf, P!StatusOf, W!KilledOutput, P!KilledOutput, W!SIGKILL_EXIT,
  P!SIGKILL_EXIT, W!SIGSEGV_EXIT, P!SIGSEGV_EXIT, W!TIMEOUT_EXIT,
  P!TIMEOUT_EXIT

\* and the same invariant.
LEMMA SameIInv == W!IInv <=> P!IInv
BY DEF W!IInv, P!IInv, W!TypeOK, P!TypeOK, W!Types, P!Types, W!PoolBound,
  P!PoolBound, W!ProcessInv, P!ProcessInv, W!AbsentInv, P!AbsentInv,
  W!KeptInv, P!KeptInv, W!VerdictInv, P!VerdictInv, W!OrderInv, P!OrderInv,
  W!OnePlace, P!OnePlace, W!OwnInv, P!OwnInv, W!Detached, P!Detached, W!InUse,
  P!InUse, W!Handling, P!Handling, W!Messages, P!Messages, W!Row, P!Row,
  W!Update, P!Update, W!Phase, P!Phase, W!Stage, P!Stage, W!Cardinality,
  P!Cardinality, W!ExecStatus, P!ExecStatus

-----------------------------------------------------------------------------
(* What a step of the workers does to the queue and to what is seen. *)

\* A step of the workers moves tasks about and loses none.
LEMMA PublishedStays ==
  ASSUME unacked \in [Workers -> SUBSET Messages], Consume
  PROVE  \A m \in Submissions : m \in Published' <=> m \in Published
<1>1. ASSUME NEW g \in Garbage, PublishGarbage(g)
      PROVE  \A m \in Submissions : m \in Published' <=> m \in Published
  BY <1>1, ConstantsOK DEF ConstantsOK, PublishGarbage, Published, channel
<1>2. ASSUME UNCHANGED <<queues, unacked>>
      PROVE  Published' = Published
  BY <1>2 DEF Published, queues
<1>3. ASSUME NEW w \in Workers, CloseChannel(w)
      PROVE  Published' = Published
  <2>1. \A v \in Workers : unacked'[v] = IF v = w THEN {} ELSE unacked[v]
    BY <1>3 DEF CloseChannel
  <2>. QED
    BY <1>3, <2>1 DEF CloseChannel, Published
<1>4. ASSUME NEW w \in Workers, EndProcess(w)
      PROVE  Published' = Published
  <2>1. \A v \in Workers : unacked'[v] = IF v = w THEN {} ELSE unacked[v]
    BY <1>4 DEF EndProcess
  <2>. QED
    BY <1>4, <2>1 DEF EndProcess, Published
<1>5. ASSUME NEW w \in Workers, NEW m \in Messages, Deliver(w, m)
      PROVE  Published' = Published
  <2>1. \A v \in Workers : unacked'[v] = IF v = w THEN unacked[v] \cup {m} ELSE unacked[v]
    BY <1>5 DEF Deliver
  <2>. QED
    BY <1>5, <2>1 DEF Deliver, Published
\* A settlement moves part of what is delivered to one of the three queues.
<1>6. ASSUME NEW w \in Workers, NEW S \in SUBSET unacked[w],
             unacked' = [unacked EXCEPT ![w] = @ \ S],
             ready' \cup dlq' \cup acked' = ready \cup dlq \cup acked \cup S
      PROVE  Published' = Published
  <2>1. \A v \in Workers : unacked'[v] = IF v = w THEN unacked[v] \ S ELSE unacked[v]
    BY <1>6
  <2>. QED
    BY <1>6, <2>1 DEF Published
<1>7. ASSUME NEW w \in Workers, NEW m \in Submissions, Ack(w, m) \/ Nack(w, m)
      PROVE  Published' = Published
  <2>1. CASE CloseChannel(w)
    BY <2>1, <1>3
  <2>2. CASE ~CloseChannel(w)
    <3>1. /\ {m} \in SUBSET unacked[w]
          /\ unacked' = [unacked EXCEPT ![w] = @ \ {m}]
          /\ ready' \cup dlq' \cup acked' = ready \cup dlq \cup acked \cup {m}
      BY <1>7, <2>2 DEF Ack, Nack, Refused
    <3>. QED
      BY <3>1, <1>6
  <2>. QED
    BY <2>1, <2>2
<1>8. ASSUME NEW w \in Workers, NEW m \in Submissions, Requeue(w, m)
      PROVE  Published' = Published
  <2>1. CASE CloseChannel(w)
    BY <2>1, <1>3
  <2>2. CASE ~CloseChannel(w)
    <3>1. /\ UpTo(w, m) \in SUBSET unacked[w]
          /\ unacked' = [unacked EXCEPT ![w] = @ \ UpTo(w, m)]
          /\ ready' \cup dlq' \cup acked' = ready \cup dlq \cup acked \cup UpTo(w, m)
      BY <1>8, <2>2 DEF Requeue, Refused, UpTo
    <3>. QED
      BY <3>1, <1>6
  <2>. QED
    BY <2>1, <2>2
<1>9. ASSUME NEW w \in Workers, RejectGarbage(w)
      PROVE  Published' = Published
  <2>1. CASE CloseChannel(w)
    BY <2>1, <1>3
  <2>2. CASE ~CloseChannel(w)
    <3>1. /\ {hand[w]} \in SUBSET unacked[w]
          /\ unacked' = [unacked EXCEPT ![w] = @ \ {hand[w]}]
          /\ ready' \cup dlq' \cup acked' = ready \cup dlq \cup acked \cup {hand[w]}
      BY <1>9, <2>2 DEF RejectGarbage, Refused
    <3>. QED
      BY <3>1, <1>6
  <2>. QED
    BY <2>1, <2>2
<1>10. ASSUME NEW w \in Workers, Process(w)
       PROVE  Published' = Published
  BY <1>10, <1>2, <1>3, <1>4
  DEF Process, Start, Crash, Signal, Exit, ChannelLost, queues, channel
<1>11. ASSUME NEW w \in Workers, Listen(w)
       PROVE  Published' = Published
  BY <1>11, <1>2, <1>5, <1>9
  DEF Listen, Take, ConsumerEnds, Spawn, PoolGetFails, RejectFails, ListenFails, channel
<1>12. ASSUME NEW w \in Workers, NEW m \in Submissions, HandleDelivery(w, m)
       PROVE  Published' = Published
  BY <1>12, <1>2, <1>7, <1>8
  DEF HandleDelivery, HandleMessage, FetchTestcase, FetchFails, ExecTestcase, ExecKilled,
      ExecReturns, ExecFails, Panic, RunUpdate, RetryUpdate, UpdateFails, UpdateReturns,
      Cancelled, channel
<1>13. ASSUME NEW u \in stray, RunStray(u)
       PROVE  Published' = Published
  BY <1>13, <1>2 DEF RunStray, channel
<1>. QED
  BY <1>1, <1>10, <1>11, <1>12, <1>13 DEF Consume, Environment

\* If no row changes, what is seen of the rows stays.
LEMMA SeenStays ==
  ASSUME \A m \in Submissions : m \in Published' <=> m \in Published, status' = status
  PROVE  SeenStatus' = SeenStatus
BY DEF SeenStatus

\* Writing to a row that is seen is writing to what is seen.
LEMMA SeenWritten ==
  ASSUME status \in [Submissions -> Row],
         \A m \in Submissions : m \in Published' <=> m \in Published,
         NEW m \in Submissions, NEW v, m \in Published,
         status' = [status EXCEPT ![m] = v]
  PROVE  SeenStatus' = [SeenStatus EXCEPT ![m] = v]
BY DEF SeenStatus

\* Worker's operators in the two instances: only the rows differ.
LEMMA SameOperators ==
  /\ W!Messages = Messages
  /\ \A w \in Workers : W!InUse(w) = InUse(w) /\ W!Cardinality(W!InUse(w)) = Cardinality(InUse(w))
  /\ \A o : W!StatusOf(o) = StatusOf(o)
  /\ W!KilledOutput = KilledOutput
<1>1. W!Messages = Messages /\ W!KilledOutput = KilledOutput
  BY DEF Messages, W!Messages, KilledOutput, W!KilledOutput, SIGKILL_EXIT, W!SIGKILL_EXIT
<1>2. \A w \in Workers : W!InUse(w) = InUse(w)
  BY DEF InUse, W!InUse, Handling, W!Handling
<1>3. \A o : W!StatusOf(o) = StatusOf(o)
  BY DEF StatusOf, W!StatusOf, SIGKILL_EXIT, W!SIGKILL_EXIT,
         SIGSEGV_EXIT, W!SIGSEGV_EXIT, TIMEOUT_EXIT, W!TIMEOUT_EXIT
<1>. QED
  BY <1>1, <1>2, <1>3, SameCardinality

\* A step that writes no row is the same step over what is seen of the rows.
LEMMA QuietSeen ==
  ASSUME Consume, status' = status, SeenStatus' = SeenStatus,
         ~ \E w \in Workers, m \in Submissions : RunUpdate(w, m),
         ~ \E u \in stray : RunStray(u)
  PROVE  W!Consume
<1>1. ASSUME NEW g \in Garbage, PublishGarbage(g)
      PROVE  W!PublishGarbage(g)
  BY <1>1 DEF PublishGarbage, W!PublishGarbage, Declared, W!Declared, Published, W!Published,
    db, W!db, channel, W!channel, loop, W!loop, tasks, W!tasks
<1>2. ASSUME NEW w \in Workers, Process(w)
      PROVE  W!Process(w)
  <2>1. ASSUME EndProcess(w) PROVE W!EndProcess(w)
    BY <2>1, SameOperators DEF EndProcess, W!EndProcess
  <2>2. ASSUME Start(w) \/ Signal(w) PROVE W!Start(w) \/ W!Signal(w)
    BY <2>2 DEF Start, W!Start, Signal, W!Signal, Mortal, W!Mortal,
      db, W!db, queues, W!queues, channel, W!channel, tasks, W!tasks
  <2>3. ASSUME ChannelLost(w) PROVE W!ChannelLost(w)
    BY <2>3 DEF ChannelLost, W!ChannelLost, CloseChannel, W!CloseChannel, Mortal, W!Mortal,
      db, W!db, loop, W!loop, tasks, W!tasks
  <2>. QED
    BY <1>2, <2>1, <2>2, <2>3
    DEF Process, W!Process, Crash, W!Crash, Exit, W!Exit, Mortal, W!Mortal
<1>3. ASSUME NEW w \in Workers, Listen(w)
      PROVE  W!Listen(w)
  <2>1. ASSUME NEW m \in Messages, Deliver(w, m) PROVE W!Deliver(w, m)
    BY <2>1, SameOperators, SameCardinality
    DEF Deliver, W!Deliver, db, W!db, loop, W!loop, tasks, W!tasks
  <2>2. ASSUME NEW m \in Messages, Take(w, m) PROVE W!Take(w, m)
    BY <2>2
    DEF Take, W!Take, db, W!db, queues, W!queues, channel, W!channel, tasks, W!tasks
  <2>3. ASSUME ConsumerEnds(w) PROVE W!ConsumerEnds(w)
    BY <2>3, SameOperators
    DEF ConsumerEnds, W!ConsumerEnds, db, W!db, queues, W!queues, channel, W!channel,
        tasks, W!tasks
  <2>4. ASSUME Spawn(w) PROVE W!Spawn(w)
    BY <2>4, SameOperators
    DEF Spawn, W!Spawn, db, W!db, queues, W!queues, channel, W!channel
  <2>5. ASSUME ListenFails(w) PROVE W!ListenFails(w)
    BY <2>5
    DEF ListenFails, W!ListenFails, db, W!db, queues, W!queues, channel, W!channel,
        tasks, W!tasks
  <2>6. ASSUME RejectGarbage(w) PROVE W!RejectGarbage(w)
    BY <2>6, SameOperators DEF RejectGarbage, W!RejectGarbage, db, W!db, tasks, W!tasks
  <2>. QED
    BY <1>3, <2>1, <2>2, <2>3, <2>4, <2>5, <2>6, SameOperators
    DEF Listen, W!Listen, PoolGetFails, W!PoolGetFails, RejectFails, W!RejectFails
<1>4. ASSUME NEW w \in Workers, NEW m \in Submissions, HandleMessage(w, m)
      PROVE  W!HandleMessage(w, m)
  <2>1. ASSUME NEW o, ExecReturns(w, m, o) PROVE W!ExecReturns(w, m, o)
    BY <2>1, SameOperators
    DEF ExecReturns, W!ExecReturns, Move, W!Move, db, W!db, queues, W!queues,
        channel, W!channel, loop, W!loop
  <2>2. ASSUME ExecTestcase(w, m) \/ ExecKilled(w, m)
        PROVE  W!ExecTestcase(w, m) \/ W!ExecKilled(w, m)
    BY <2>1, <2>2, SameOperators
    DEF ExecTestcase, W!ExecTestcase, ExecKilled, W!ExecKilled
  <2>3. ASSUME FetchTestcase(w, m) \/ FetchFails(w, m)
        PROVE  W!FetchTestcase(w, m) \/ W!FetchFails(w, m)
    BY <2>3
    DEF FetchTestcase, W!FetchTestcase, FetchFails, W!FetchFails, Fail, W!Fail,
        Move, W!Move, db, W!db, queues, W!queues, channel, W!channel, loop, W!loop
  <2>4. ASSUME ExecFails(w, m) \/ Panic(w, m)
        PROVE  W!ExecFails(w, m) \/ W!Panic(w, m)
    BY <2>4
    DEF ExecFails, W!ExecFails, Panic, W!Panic, Fail, W!Fail, Move, W!Move,
        db, W!db, queues, W!queues, channel, W!channel, loop, W!loop
  <2>5. ASSUME RetryUpdate(w, m) PROVE W!RetryUpdate(w, m)
    BY <2>5
    DEF RetryUpdate, W!RetryUpdate, Move, W!Move, queues, W!queues,
        channel, W!channel, loop, W!loop
  <2>6. ASSUME UpdateFails(w, m) \/ UpdateReturns(w, m)
        PROVE  W!UpdateFails(w, m) \/ W!UpdateReturns(w, m)
    BY <2>6
    DEF UpdateFails, W!UpdateFails, UpdateReturns, W!UpdateReturns, Fail, W!Fail,
        Move, W!Move, db, W!db, queues, W!queues, channel, W!channel, loop, W!loop
  <2>. QED
    BY <1>4, <2>2, <2>3, <2>4, <2>5, <2>6 DEF HandleMessage, W!HandleMessage
<1>5. ASSUME NEW w \in Workers, NEW m \in Submissions, HandleDelivery(w, m)
      PROVE  W!HandleDelivery(w, m)
  <2>1. ASSUME Refused(w, m) PROVE W!Refused(w, m)
    BY <2>1 DEF Refused, W!Refused, CloseChannel, W!CloseChannel
  <2>2. ASSUME Ack(w, m) PROVE W!Ack(w, m)
    BY <2>1, <2>2
    DEF Ack, W!Ack, Move, W!Move, db, W!db, loop, W!loop
  <2>3. ASSUME Nack(w, m) PROVE W!Nack(w, m)
    BY <2>1, <2>3
    DEF Nack, W!Nack, Move, W!Move, db, W!db, loop, W!loop
  <2>4. ASSUME Requeue(w, m) PROVE W!Requeue(w, m)
    BY <2>1, <2>4
    DEF Requeue, W!Requeue, UpTo, W!UpTo, Move, W!Move, db, W!db, loop, W!loop
  <2>5. ASSUME Cancelled(w, m) PROVE W!Cancelled(w, m)
    BY <2>5
    DEF Cancelled, W!Cancelled, LeftBehind, W!LeftBehind, Handling, W!Handling,
        Move, W!Move, queues, W!queues, channel, W!channel, loop, W!loop
  <2>. QED
    BY <1>4, <1>5, <2>2, <2>3, <2>4, <2>5 DEF HandleDelivery, W!HandleDelivery
<1>. QED
  BY <1>1, <1>2, <1>3, <1>5
  DEF Consume, W!Consume, Environment, W!Environment

\* What the workers' invariant says of a row that is not yet seen: no task is
\* at it, and no UPDATE of it is on its way.
LEMMA UnseenUntouched ==
  ASSUME W!IInv, NEW m \in Submissions, m \notin Published
  PROVE  /\ \A w \in Workers : stage[w][m] = "none"
         /\ \A u \in stray : u.m # m
BY DEF W!IInv, W!AbsentInv, SeenStatus

\* Only the UPDATEs write rows.
LEMMA QuietRows ==
  ASSUME Consume, ~ \E w \in Workers, m \in Submissions : RunUpdate(w, m),
         ~ \E u \in stray : RunStray(u)
  PROVE  status' = status
<1>1. ASSUME NEW w \in Workers, Process(w) \/ Listen(w)
      PROVE  status' = status
  BY <1>1
  DEF Process, Start, Crash, Signal, Exit, EndProcess, ChannelLost, Listen, Deliver, Take,
      ConsumerEnds, Spawn, PoolGetFails, RejectGarbage, RejectFails, ListenFails, db
<1>2. ASSUME NEW w \in Workers, NEW m \in Submissions, HandleDelivery(w, m),
             ~RunUpdate(w, m)
      PROVE  status' = status
  BY <1>2
  DEF HandleDelivery, HandleMessage, FetchTestcase, FetchFails, ExecTestcase, ExecKilled,
      ExecReturns, ExecFails, Panic, RetryUpdate, UpdateFails, UpdateReturns, Cancelled,
      Ack, Nack, Requeue, db
<1>3. ASSUME NEW g \in Garbage, PublishGarbage(g)
      PROVE  status' = status
  BY <1>3 DEF PublishGarbage, db
<1>. QED
  BY <1>1, <1>2, <1>3 DEF Consume, Environment

\* No task is lost by a step of the workers, and a row is written only when its
\* task has been with the broker, with a verdict.
LEMMA WorkerStepRows ==
  ASSUME JudgeInv, Consume
  PROVE  /\ \A m \in Submissions : m \in Published' <=> m \in Published
         /\ \A w \in Workers, m \in Submissions : RunUpdate(w, m) =>
              m \in Published /\ result[w][m] \in ExecStatus
         /\ \A u \in stray :
              u.m \in Submissions \cap Published /\ u.v \in ExecStatus
         /\ \/ status' = status
            \/ \E m \in Submissions \cap Published, v \in ExecStatus :
                 status' = [status EXCEPT ![m] = v]
<1>1. unacked \in [Workers -> SUBSET Messages] /\ stray \subseteq Update
  BY SameOperators
  DEF JudgeInv, W!IInv, W!TypeOK, W!Types, W!Update, Update, W!ExecStatus, ExecStatus
<1>2. \A m \in Submissions : m \in Published' <=> m \in Published
  BY <1>1, PublishedStays
<1>3. \A w \in Workers, m \in Submissions : RunUpdate(w, m) =>
        m \in Published /\ result[w][m] \in ExecStatus
  BY UnseenUntouched
  DEF RunUpdate, JudgeInv, W!IInv, W!VerdictInv, W!ExecStatus, ExecStatus
<1>4. \A u \in stray : u.m \in Submissions \cap Published /\ u.v \in ExecStatus
  BY <1>1, UnseenUntouched DEF Update, JudgeInv
<1>5. \A w \in Workers, m \in Submissions : RunUpdate(w, m) =>
        status' = [status EXCEPT ![m] = result[w][m]]
  BY DEF RunUpdate
<1>6. \A u \in stray : RunStray(u) => status' = [status EXCEPT ![u.m] = u.v]
  BY DEF RunStray
<1>7. \/ status' = status
      \/ \E m \in Submissions \cap Published, v \in ExecStatus :
           status' = [status EXCEPT ![m] = v]
  BY <1>3, <1>4, <1>5, <1>6, QuietRows
<1>. QED
  BY <1>2, <1>3, <1>4, <1>7

\* Every step of the workers is one over what is seen of the rows.
LEMMA WorkerStepSeen ==
  ASSUME JudgeInv, Consume
  PROVE  W!Consume
<1>1. ASSUME NEW w \in Workers, NEW m \in Submissions, RunUpdate(w, m)
      PROVE  W!Consume
  <2>1. SeenStatus' = [SeenStatus EXCEPT ![m] = result[w][m]]
    BY <1>1, WorkerStepRows, SeenWritten DEF RunUpdate, JudgeInv
  <2>2. W!RunUpdate(w, m)
    BY <1>1, <2>1
    DEF RunUpdate, W!RunUpdate, Move, W!Move, queues, W!queues, channel, W!channel, loop, W!loop
  <2>. QED
    BY <2>2 DEF W!Consume, W!HandleDelivery, W!HandleMessage
<1>2. ASSUME NEW u \in stray, RunStray(u)
      PROVE  W!Consume
  <2>1. SeenStatus' = [SeenStatus EXCEPT ![u.m] = u.v]
    BY <1>2, WorkerStepRows, SeenWritten DEF RunStray, JudgeInv
  <2>2. W!RunStray(u)
    BY <1>2, <2>1
    DEF RunStray, W!RunStray, queues, W!queues, channel, W!channel, loop, W!loop, tasks, W!tasks
  <2>. QED
    BY <2>2 DEF W!Consume, W!Environment
<1>3. CASE /\ ~ \E w \in Workers, m \in Submissions : RunUpdate(w, m)
           /\ ~ \E u \in stray : RunStray(u)
  <2>1. status' = status
    BY <1>3, QuietRows
  <2>. QED
    BY <1>3, <2>1, WorkerStepRows, SeenStays, QuietSeen
<1>. QED
  BY <1>1, <1>2, <1>3

-----------------------------------------------------------------------------
(* The API's steps. *)

\* The API settles nothing: what the other parts have published stays.
LEMMA EnqueuePublishes ==
  ASSUME NEW m \in Submissions, Api!Enqueue(m), UNCHANGED <<dlq, acked, unacked>>
  PROVE  Published' = IF Declared THEN Published \cup {m} ELSE Published
BY DEF Api!Enqueue, Published

\* A task that reaches the queue is Worker's Submit, if the queue is there.
LEMMA EnqueueSeen ==
  ASSUME JudgeInv, NEW m \in Submissions, Api!Enqueue(m), status[m] = "PENDING",
         m \notin Published, status' = status,
         UNCHANGED <<stray, dlq, acked, channel, starts, loop, tasks>>
  PROVE  [W!Next]_(W!vars)
<1>1. Published' = IF Declared THEN Published \cup {m} ELSE Published
  BY EnqueuePublishes DEF channel
<1>2. CASE Declared
  <2>1. SeenStatus[m] = "ABSENT" /\ SeenStatus' = [SeenStatus EXCEPT ![m] = "PENDING"]
    BY <1>1, <1>2 DEF SeenStatus
  <2>2. W!Submit(m)
    BY <1>2, <2>1
    DEF Api!Enqueue, W!Submit, Declared, W!Declared, channel, W!channel, loop, W!loop,
        tasks, W!tasks
  <2>. QED
    BY <2>2 DEF W!Next
<1>3. CASE ~Declared
  <2>1. SeenStatus' = SeenStatus
    BY <1>1, <1>3 DEF SeenStatus
  <2>. QED
    BY <1>3, <2>1
    DEF Api!Enqueue, W!vars, W!db, W!queues, channel, W!channel, loop, W!loop, tasks, W!tasks
<1>. QED
  BY <1>2, <1>3

\* A step that leaves the queue alone and writes only rows that are not seen is
\* not seen.
LEMMA UnseenStep ==
  ASSUME UNCHANGED <<stray, queues, channel, starts, loop, tasks>>,
         \A m \in Submissions \cap Published : status'[m] = status[m]
  PROVE  UNCHANGED W!vars
<1>1. Published' = Published
  BY DEF Published, queues, channel
<1>2. SeenStatus' = SeenStatus
  BY <1>1 DEF SeenStatus
<1>. QED
  BY <1>2
  DEF W!vars, W!db, queues, W!queues, channel, W!channel, loop, W!loop, tasks, W!tasks

\* Every step of the API is Worker's Submit or is not seen.
LEMMA ApiStepSeen ==
  ASSUME JudgeInv, ApiStep
  PROVE  [W!Next]_(W!vars)
<1>0. /\ RowInv /\ status \in [Submissions -> Row]
      /\ UNCHANGED <<stray, dlq, acked, channel, starts, loop, tasks>>
  BY DEF JudgeInv, ApiStep
<1>1. ASSUME NEW m \in Submissions,
             \/ Api!Receive(m) \/ Api!CreateChannel(m) \/ Api!QueueFails(m)
             \/ Api!DeclareExchange(m) \/ Api!Publish(m)
      PROVE  [W!Next]_(W!vars)
  BY <1>0, <1>1, UnseenStep
  DEF Api!Receive, Api!CreateChannel, Api!QueueFails, Api!DeclareExchange, Api!Publish, queues
<1>2. ASSUME NEW m \in Submissions, Api!Insert(m) \/ Api!InsertFails(m)
      PROVE  [W!Next]_(W!vars)
  <2>1. m \notin Published
    BY <1>0, <1>2 DEF RowInv, Api!Insert, Api!InsertFails
  <2>2. \A x \in Submissions \cap Published : status'[x] = status[x]
    BY <1>0, <1>2, <2>1 DEF Api!Insert, Api!InsertFails
  <2>. QED
    BY <1>0, <1>2, <2>2, UnseenStep DEF Api!Insert, Api!InsertFails, queues
<1>3. ASSUME NEW m \in Submissions, Api!Route(m) \/ Api!PublishBreaks(m)
      PROVE  [W!Next]_(W!vars)
  <2>1. status[m] = "PENDING" /\ m \notin Published
    BY <1>0, <1>3 DEF RowInv, Api!Route, Api!PublishBreaks
  <2>. QED
    BY <1>0, <1>3, <2>1, EnqueueSeen DEF Api!Route, Api!PublishBreaks
<1>4. CASE Api!ConnLost \/ Api!ApiRestart
  BY <1>0, <1>4, UnseenStep DEF Api!ConnLost, Api!ApiRestart, queues
<1>. QED
  BY <1>1, <1>2, <1>3, <1>4 DEF ApiStep, Api!ApiNext, Api!Handler

\* Every step of the whole system is one of Worker over what is seen.
LEMMA NextSeen == JudgeInv /\ [JudgeNext]_judgeVars => [W!Next]_(W!vars)
<1>. SUFFICES ASSUME JudgeInv, [JudgeNext]_judgeVars PROVE [W!Next]_(W!vars)
  OBVIOUS
<1>1. CASE UNCHANGED judgeVars
  BY <1>1, UnseenStep DEF judgeVars, vars, db
<1>2. CASE WorkerStep
  BY <1>2, WorkerStepSeen DEF WorkerStep, W!Next
<1>. QED
  BY <1>1, <1>2, ApiStepSeen DEF JudgeNext

-----------------------------------------------------------------------------
(* The inductive invariant. *)

\* It holds of the empty system ...
LEMMA InitJudgeInv == JudgeInit => JudgeInv
<1>. SUFFICES ASSUME JudgeInit PROVE JudgeInv
  OBVIOUS
<1>1. Published = {}
  BY DEF JudgeInit, Init, Published
<1>2. W!Init
  BY <1>1, SameOperators
  DEF JudgeInit, Init, W!Init, SeenStatus
<1>3. W!IInv
  BY <1>2, SameInit, SameIInv, P!InitIInv, Assumptions
<1>4. status \in [Submissions -> Row] /\ Api!ApiTypeOK
  BY DEF JudgeInit, Init, Row, Api!ApiInit, Api!ApiTypeOK, Api!InFlight, Api!Answer
<1>5. RowInv
  BY <1>1 DEF JudgeInit, Init, Api!ApiInit, RowInv
<1>. QED
  BY <1>3, <1>4, <1>5 DEF JudgeInv

\* A step of the workers writes rows whose tasks are with the broker, and the
\* handlers know nothing of those.
LEMMA WorkerStepRowInv ==
  ASSUME JudgeInv, WorkerStep
  PROVE  status' \in [Submissions -> Row] /\ Api!ApiTypeOK' /\ RowInv'
<1>1. Consume /\ UNCHANGED apiVars
  BY DEF WorkerStep
<1>2. /\ \A m \in Submissions : m \in Published' <=> m \in Published
      /\ \/ status' = status
         \/ \E m \in Submissions \cap Published, v \in ExecStatus :
              status' = [status EXCEPT ![m] = v]
  BY <1>1, WorkerStepRows
<1>3. status' \in [Submissions -> Row]
  BY <1>2 DEF JudgeInv, Row
<1>4. \A m \in Submissions :
        \/ status'[m] = status[m]
        \/ m \in Published /\ status'[m] # "ABSENT"
  BY <1>2 DEF JudgeInv, ExecStatus
<1>5. RowInv'
  BY <1>1, <1>2, <1>4 DEF apiVars, JudgeInv, RowInv
<1>6. Api!ApiTypeOK'
  BY <1>1 DEF apiVars, JudgeInv, Api!ApiTypeOK, Api!InFlight, Api!Answer
<1>. QED
  BY <1>3, <1>5, <1>6

\* At each of its awaits a handler leaves its row and its task as the next one
\* expects them, whatever fails.
LEMMA ApiStepRowInv ==
  ASSUME JudgeInv, ApiStep
  PROVE  status' \in [Submissions -> Row] /\ Api!ApiTypeOK' /\ RowInv'
<1>0. /\ RowInv /\ Api!ApiTypeOK /\ status \in [Submissions -> Row]
      /\ UNCHANGED <<dlq, acked, unacked>>
  BY DEF JudgeInv, ApiStep, channel
<1>1. ASSUME UNCHANGED ready PROVE Published' = Published
  BY <1>0, <1>1 DEF Published
<1>2. ASSUME NEW m \in Submissions,
             \/ Api!Receive(m) \/ Api!CreateChannel(m) \/ Api!QueueFails(m)
             \/ Api!DeclareExchange(m)
      PROVE  status' \in [Submissions -> Row] /\ Api!ApiTypeOK' /\ RowInv'
  BY <1>0, <1>1, <1>2
  DEF Api!Receive, Api!CreateChannel, Api!QueueFails, Api!DeclareExchange, Api!Go,
      RowInv, Api!ApiTypeOK, Api!InFlight, Api!Answer
<1>3. ASSUME NEW m \in Submissions, Api!Insert(m) \/ Api!InsertFails(m)
      PROVE  status' \in [Submissions -> Row] /\ Api!ApiTypeOK' /\ RowInv'
  BY <1>0, <1>1, <1>3
  DEF Api!Insert, Api!InsertFails, Api!Go, RowInv, Row, Api!ApiTypeOK, Api!InFlight, Api!Answer
<1>4. ASSUME NEW m \in Submissions, Api!Publish(m)
      PROVE  status' \in [Submissions -> Row] /\ Api!ApiTypeOK' /\ RowInv'
  BY <1>0, <1>1, <1>4
  DEF Api!Publish, Api!Go, RowInv, Api!ApiTypeOK, Api!InFlight, Api!Answer
<1>5. ASSUME NEW m \in Submissions, Api!Route(m) \/ Api!PublishBreaks(m)
      PROVE  status' \in [Submissions -> Row] /\ Api!ApiTypeOK' /\ RowInv'
  <2>1. Published' = IF Declared THEN Published \cup {m} ELSE Published
    BY <1>0, <1>5, EnqueuePublishes DEF Api!Route, Api!PublishBreaks
  <2>. QED
    BY <1>0, <1>5, <2>1
    DEF Api!Route, Api!PublishBreaks, Api!Go, RowInv, Api!ApiTypeOK, Api!InFlight, Api!Answer
<1>6. CASE Api!ConnLost \/ Api!ApiRestart
  BY <1>0, <1>1, <1>6
  DEF Api!ConnLost, Api!ApiRestart, RowInv, Api!ApiTypeOK, Api!InFlight, Api!Answer
<1>. QED
  BY <1>2, <1>3, <1>4, <1>5, <1>6 DEF ApiStep, Api!ApiNext, Api!Handler

\* ... and every step keeps it: the workers' part by WorkerProofs.
LEMMA NextJudgeInv == JudgeInv /\ [JudgeNext]_judgeVars => JudgeInv'
<1>. SUFFICES ASSUME JudgeInv, [JudgeNext]_judgeVars PROVE JudgeInv'
  OBVIOUS
<1>1. W!IInv'
  <2>1. P!IInv'
    BY NextSeen, SameNext, SameIInv, P!NextIInv, Assumptions DEF JudgeInv
  <2>2. W!IInv' <=> P!IInv'
    BY SameIInv, PTL
  <2>. QED
    BY <2>1, <2>2
<1>2. status' \in [Submissions -> Row] /\ Api!ApiTypeOK' /\ RowInv'
  <2>1. CASE UNCHANGED judgeVars
    BY <2>1
    DEF judgeVars, vars, db, queues, channel, apiVars, JudgeInv, RowInv, Published,
        Api!ApiTypeOK, Api!InFlight, Api!Answer
  <2>. QED
    BY <2>1, WorkerStepRowInv, ApiStepRowInv DEF JudgeNext
<1>. QED
  BY <1>1, <1>2 DEF JudgeInv

-----------------------------------------------------------------------------
(* The theorems. *)

\* The inductive invariant holds: of the rows a handler is at work on, of the
\* tasks on the wire, and of all that the workers and the broker hold.
THEOREM JudgeInvariance == JudgeSpec => []JudgeInv
BY InitJudgeInv, NextJudgeInv, PTL DEF JudgeSpec

\* No worker ever holds a task whose row is missing.
THEOREM RowBeforeTask == JudgeSpec => []MessageHasRow
<1>1. JudgeInv => MessageHasRow
  BY DEF JudgeInv, RowInv, MessageHasRow
<1>. QED
  BY <1>1, JudgeInvariance, PTL

\* The API's awaits, its connection and the broker's routing add up to Worker's
\* single step Submit, or to nothing: the system implements Worker.
THEOREM ImplementsWorker == JudgeSpec => WorkerSpec
<1>1. JudgeInit => W!Init
  <2>1. ASSUME JudgeInit PROVE W!Init
    BY <2>1, SameOperators DEF JudgeInit, Init, W!Init, SeenStatus, Published
  <2>. QED
    BY <2>1
<1>. QED
  BY <1>1, JudgeInvariance, NextSeen, PTL DEF JudgeSpec, WorkerSpec, W!Spec

\* In the whole system, too, two workers handle one submission only if one of
\* them has lost its channel or its token.
THEOREM WholeJudgedByOne == JudgeSpec => []SingleJudge
<1>1. P!SingleJudge => SingleJudge
  BY DEF SingleJudge, P!SingleJudge, Detached, P!Detached, Handling, P!Handling
<1>2. WorkerSpec => P!Spec
  BY SameInit, SameNext, PTL DEF WorkerSpec, W!Spec, P!Spec
<1>. QED
  BY <1>1, <1>2, ImplementsWorker, P!JudgedByOne, Assumptions, PTL

\* From the queue on, the whole system keeps the promises of TaskLedger.
THEOREM WholeKeepsLedger == JudgeSpec => W!LedgerSpec
<1>1. WorkerSpec => P!Spec
  BY SameInit, SameNext, PTL DEF WorkerSpec, W!Spec, P!Spec
<1>2. P!Ledger!Init <=> W!Ledger!Init
  BY DEF P!Ledger!Init, W!Ledger!Init, P!FateOf, W!FateOf
<1>3. [P!Ledger!Next]_(P!Ledger!ledgerVars) <=> [W!Ledger!Next]_(W!Ledger!ledgerVars)
  BY DEF P!Ledger!Next, W!Ledger!Next, P!Ledger!ledgerVars, W!Ledger!ledgerVars,
         P!Ledger!TakeIn, W!Ledger!TakeIn, P!Ledger!Record, W!Ledger!Record,
         P!Ledger!Complete, W!Ledger!Complete, P!Ledger!Park, W!Ledger!Park,
         P!Ledger!ExecStatus, W!Ledger!ExecStatus, P!FateOf, W!FateOf
<1>4. P!LedgerSpec => W!LedgerSpec
  BY <1>2, <1>3, PTL DEF P!LedgerSpec, W!LedgerSpec, P!Ledger!Spec, W!Ledger!Spec
<1>. QED
  BY <1>1, <1>4, ImplementsWorker, P!KeepsLedger, Assumptions, PTL

\* What is seen of a row is the row, once it has a verdict.
LEMMA VerdictIsSeen ==
  ASSUME JudgeInv, NEW m \in Submissions
  PROVE  status[m] \in ExecStatus => SeenStatus[m] = status[m]
BY DEF JudgeInv, RowInv, SeenStatus, ExecStatus

\* A submission that has one verdict shows its client no other, once it has
\* shown one, wherever workers crash, stop and start and queries are retried;
\* so does every submission as long as no worker is stopped.
THEOREM WholeVerdictFinal ==
  ASSUME {"pool", "channel"} \cap Faults = {},
         \/ \A m \in Submissions : \A o, p \in Runs[m] : StatusOf(o) = StatusOf(p)
         \/ \A w \in Workers : MaxStarts[w] <= 1
  PROVE  JudgeSpec => VerdictFinal
<1>1. WorkerSpec => P!Spec
  BY SameInit, SameNext, PTL DEF WorkerSpec, W!Spec, P!Spec
<1>2. P!LeftInPeace /\ (P!OneVerdict \/ P!NeverStopped)
  <2>1. \A o : P!StatusOf(o) = StatusOf(o)
    BY DEF StatusOf, P!StatusOf, SIGKILL_EXIT, P!SIGKILL_EXIT,
           SIGSEGV_EXIT, P!SIGSEGV_EXIT, TIMEOUT_EXIT, P!TIMEOUT_EXIT
  <2>. QED
    BY <2>1 DEF P!LeftInPeace, P!OneVerdict, P!Genuine, P!NeverStopped
<1>3. P!Spec => P!VerdictFinal
  BY <1>2, Assumptions, P!FinalVerdicts
<1>4. /\ JudgeInv /\ JudgeInv'
      /\ [\A m \in Submissions :
            SeenStatus[m] \in P!ExecStatus => SeenStatus'[m] = SeenStatus[m]]_(P!vars)
      => [\A m \in Submissions : status[m] \in ExecStatus => status'[m] = status[m]]_vars
  <2>. SUFFICES ASSUME JudgeInv, JudgeInv', NEW m \in Submissions, status[m] \in ExecStatus,
                       SeenStatus[m] \in P!ExecStatus => SeenStatus'[m] = SeenStatus[m]
                PROVE  status'[m] = status[m]
    BY DEF P!vars, P!db
  <2>1. SeenStatus[m] = status[m] /\ SeenStatus'[m] = status[m]
    BY VerdictIsSeen DEF ExecStatus, P!ExecStatus
  <2>2. SeenStatus'[m] \in ExecStatus => SeenStatus'[m] = status'[m]
    BY DEF JudgeInv, RowInv, SeenStatus, ExecStatus
  <2>. QED
    BY <2>1, <2>2
<1>5. P!VerdictFinal /\ []JudgeInv => VerdictFinal
  BY <1>4, PTL DEF P!VerdictFinal, VerdictFinal
<1>. QED
  BY <1>1, <1>3, <1>5, ImplementsWorker, JudgeInvariance, PTL
=============================================================================
