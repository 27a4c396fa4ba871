---------------------------- MODULE WorkerProofs ----------------------------
(***************************************************************************)
(* Theorems of module Worker, for every set of workers and of messages,    *)
(* every pool size, every bound on restarts and every choice of faults.    *)
(* One lemma per part of the inductive invariant of WorkerInvariant, with  *)
(* one step per action; then the theorems.                                 *)
(***************************************************************************)
EXTENDS WorkerInvariant, FiniteSetTheorems, TLAPS

-----------------------------------------------------------------------------
(* Facts about the operators the actions are built from. *)

\* Whatever an execution leaves behind, the verdict is one of the five.
LEMMA StatusOfType == \A o : StatusOf(o) \in ExecStatus
BY DEF StatusOf, ExecStatus

\* The messages are finitely many, so that delivery tags are numbers.
LEMMA MessagesFinite ==
  /\ IsFiniteSet(Messages)
  /\ \A S \in SUBSET Messages : IsFiniteSet(S) /\ Cardinality(S) \in Nat
BY ConstantsOK, FS_Union, FS_Subset, FS_CardinalityType DEF Messages

\* Closing a channel keeps the broker's state well-typed.
LEMMA CloseTypes ==
  ASSUME Types, NEW w \in Workers, CloseChannel(w)
  PROVE  /\ ready' \subseteq Messages /\ dlq' \subseteq Messages
         /\ acked' \subseteq Messages
         /\ unacked' \in [Workers -> SUBSET Messages]
         /\ tag' \in [Workers -> [Messages -> Nat]]
         /\ chan' \in [Workers -> BOOLEAN]
BY DEF CloseChannel, Types

\* Moving one task leaves the stages well-typed.
LEMMA MoveTypes ==
  ASSUME Types, NEW w \in Workers, NEW m \in Submissions, NEW to \in Stage,
         Move(w, m, to)
  PROVE  stage' \in [Workers -> [Submissions -> Stage]]
BY DEF Move, Types

\* A task that does not enter handle_message takes no container.
LEMMA PoolShrinks ==
  ASSUME Types, PoolBound,
         NEW w \in Workers, NEW m \in Submissions, NEW to,
         stage[w][m] \in Handling \/ to \notin Handling, Move(w, m, to)
  PROVE  PoolBound'
<1>1. SUFFICES ASSUME NEW v \in Workers PROVE Cardinality(InUse(v)') <= PoolSize
  BY DEF PoolBound
<1>2. InUse(v)' \subseteq InUse(v)
  BY DEF InUse, Move, Types
<1>3. IsFiniteSet(InUse(v))
  BY ConstantsOK, FS_Subset DEF ConstantsOK, InUse
<1>4. /\ Cardinality(InUse(v)') <= Cardinality(InUse(v))
      /\ Cardinality(InUse(v)') \in Nat /\ Cardinality(InUse(v)) \in Nat
  BY <1>2, <1>3, FS_Subset, FS_CardinalityType
<1>. QED
  BY <1>4, ConstantsOK DEF PoolBound, ConstantsOK

\* The steps inside handle_message that touch neither database nor broker.
Inner(w, m) ==
  \/ FetchTestcase(w, m) \/ FetchFails(w, m)
  \/ ExecTestcase(w, m) \/ ExecKilled(w, m) \/ ExecFails(w, m) \/ Panic(w, m)
  \/ UpdateFails(w, m) \/ UpdateReturns(w, m)

InnerEffect ==
  /\ UNCHANGED <<db, queues, channel, starts, loop>>
  /\ \A v \in Workers, x \in Submissions :
       /\ stage'[v][x] # "none" => stage[v][x] # "none"
       /\ stage'[v][x] = "requeue" => stage[v][x] = "requeue"

\* Such a step gives no task a delivery, and cancels none.
LEMMA InnerFrame ==
  ASSUME Types, NEW w \in Workers, NEW m \in Submissions, Inner(w, m)
  PROVE  InnerEffect
<1>1. UNCHANGED <<db, queues, channel, starts, loop>>
  BY DEF Inner, FetchTestcase, FetchFails, ExecTestcase, ExecKilled, ExecFails,
         ExecReturns, Panic, UpdateFails, UpdateReturns
<1>2. stage[w][m] # "none"
  BY DEF Inner, FetchTestcase, FetchFails, ExecTestcase, ExecKilled, ExecFails,
         ExecReturns, Panic, UpdateFails, UpdateReturns
<1>3. \E to \in {"exec", "update", "nack", "ack", "none"} : Move(w, m, to)
  BY DEF Inner, FetchTestcase, FetchFails, ExecTestcase, ExecKilled, ExecFails,
         ExecReturns, Panic, UpdateFails, UpdateReturns, Fail
<1>. QED
  BY <1>1, <1>2, <1>3 DEF InnerEffect, Move, Types

-----------------------------------------------------------------------------
(* Each part of the inductive invariant is kept by every step. *)

\* Types are kept: what a task writes, it writes with a verdict in hand.
LEMMA TypesStep ==
  ASSUME Types, VerdictInv, [Next]_vars
  PROVE  Types'
<1>1. CASE UNCHANGED vars
  BY <1>1 DEF vars, db, queues, channel, loop, tasks, Types, Messages, Row,
    Update, Phase, Stage
<1>2. ASSUME NEW m \in Submissions, Submit(m)
      PROVE  Types'
  BY <1>2, ConstantsOK
  DEF Submit, Declared, channel, loop, tasks, Types, Messages, Row, Update,
      Phase, Stage
<1>3. ASSUME NEW g \in Garbage, PublishGarbage(g)
      PROVE  Types'
  BY <1>3, ConstantsOK
  DEF PublishGarbage, Declared, Published, channel, db, loop, tasks, Types,
      Messages, Row, Update, Phase, Stage
<1>4. ASSUME NEW u \in stray, RunStray(u)
      PROVE  Types'
  BY <1>4, ConstantsOK
  DEF RunStray, channel, loop, queues, tasks, Types, Messages, Row, Update,
      Phase, Stage
<1>5. ASSUME NEW w \in Workers, Start(w)
      PROVE  Types'
  <2>1. starts' \in [Workers -> Nat] /\ \A v \in Workers : starts'[v] <= MaxStarts[v]
    <3>1. \A v \in Workers : starts[v] \in Nat /\ MaxStarts[v] \in Nat
      BY ConstantsOK DEF Types, ConstantsOK
    <3>2. starts[w] + 1 \in Nat /\ starts[w] + 1 <= MaxStarts[w]
      BY <1>5, <3>1 DEF Start
    <3>. QED
      BY <1>5, <3>1, <3>2 DEF Start, Types
  <2>. QED
    BY <1>5, <2>1 DEF Start, db, queues, tasks, Types, Phase
<1>6. ASSUME NEW w \in Workers, EndProcess(w)
      PROVE  Types'
  <2>1. stray' \subseteq Update
    BY <1>6 DEF EndProcess, VerdictInv, Types, Update
  <2>2. ready' \subseteq Messages /\ dlq' \subseteq Messages /\ acked' \subseteq Messages
    BY <1>6 DEF EndProcess, Types
  <2>3. /\ stage' \in [Workers -> [Submissions -> Stage]]
        /\ result' \in [Workers -> [Submissions -> ExecStatus \cup {None}]]
    BY <1>6 DEF EndProcess, Types, Stage
  <2>4. tag' \in [Workers -> [Messages -> Nat]]
    BY <1>6 DEF EndProcess, Types
  <2>. QED
    BY <1>6, <2>1, <2>2, <2>3, <2>4 DEF EndProcess, Types, Phase
<1>7. ASSUME NEW w \in Workers,
             Signal(w) \/ ConsumerEnds(w) \/ ListenFails(w)
      PROVE  Types'
  BY <1>7, ConstantsOK
  DEF Signal, Mortal, channel, db, queues, tasks, ConsumerEnds, ListenFails,
      Types, Messages, Row, Update, Phase, Stage
<1>8. ASSUME NEW w \in Workers, ChannelLost(w)
      PROVE  Types'
  BY <1>8, ConstantsOK
  DEF ChannelLost, CloseChannel, db, loop, tasks, Types, Messages, Row,
      Update, Phase, Stage
<1>9. ASSUME NEW w \in Workers, NEW m \in Messages, Deliver(w, m)
      PROVE  Types'
  <2>1. Cardinality({x \in Messages : tag[w][x] # 0}) \in Nat
    BY MessagesFinite
  <2>2. tag' \in [Workers -> [Messages -> Nat]]
    BY <1>9, <2>1 DEF Deliver, Types
  <2>. QED
    BY <1>9, <2>2 DEF Deliver, db, loop, tasks, Types
<1>10. ASSUME NEW w \in Workers, NEW m \in Messages, Take(w, m)
      PROVE  Types'
  BY <1>10 DEF Take, db, queues, channel, tasks, Types
<1>11. ASSUME NEW w \in Workers, Spawn(w)
      PROVE  Types'
  BY <1>11, ConstantsOK
  DEF Spawn, channel, db, queues, Types, Messages, Row, Update, Phase, Stage
<1>12. ASSUME NEW w \in Workers, RejectGarbage(w)
      PROVE  Types'
  BY <1>12, ConstantsOK
  DEF RejectGarbage, db, tasks, Types, Messages, Row, Update, Phase, Stage
<1>13. ASSUME NEW w \in Workers, NEW m \in Submissions, FetchTestcase(w, m)
      PROVE  Types'
  BY <1>13, ConstantsOK
  DEF FetchTestcase, Move, channel, db, loop, queues, Types, Messages, Row,
      Update, Phase, Stage
<1>14. ASSUME NEW w \in Workers, NEW m \in Submissions, FetchFails(w, m)
      PROVE  Types'
  BY <1>14, ConstantsOK
  DEF FetchFails, Fail, Move, channel, db, loop, queues, Types, Messages,
      Row, Update, Phase, Stage
<1>15. ASSUME NEW w \in Workers, NEW m \in Submissions, ExecTestcase(w, m)
      PROVE  Types'
  BY <1>15, StatusOfType
  DEF ExecTestcase, ExecReturns, Move, db, queues, channel, loop, Types, Stage
<1>16. ASSUME NEW w \in Workers, NEW m \in Submissions, ExecKilled(w, m)
      PROVE  Types'
  BY <1>16, StatusOfType
  DEF ExecKilled, ExecReturns, Move, db, queues, channel, loop, Types, Stage
<1>17. ASSUME NEW w \in Workers, NEW m \in Submissions, ExecFails(w, m)
      PROVE  Types'
  BY <1>17, ConstantsOK
  DEF ExecFails, Fail, Move, channel, db, loop, queues, Types, Messages, Row,
      Update, Phase, Stage
<1>18. ASSUME NEW w \in Workers, NEW m \in Submissions, Panic(w, m)
      PROVE  Types'
  BY <1>18, ConstantsOK
  DEF Panic, Move, channel, db, loop, queues, Types, Messages, Row, Update,
      Phase, Stage
<1>19. ASSUME NEW w \in Workers, NEW m \in Submissions, UpdateFails(w, m)
      PROVE  Types'
  BY <1>19, ConstantsOK
  DEF UpdateFails, Fail, Move, channel, db, loop, queues, Types, Messages,
      Row, Update, Phase, Stage
<1>20. ASSUME NEW w \in Workers, NEW m \in Submissions, UpdateReturns(w, m)
      PROVE  Types'
  BY <1>20, ConstantsOK
  DEF UpdateReturns, Move, channel, db, loop, queues, Types, Messages, Row,
      Update, Phase, Stage
<1>21. ASSUME NEW w \in Workers, NEW m \in Submissions, RunUpdate(w, m)
      PROVE  Types'
  BY <1>21 DEF RunUpdate, Move, queues, channel, loop, VerdictInv, Types, Stage, Row
<1>22. ASSUME NEW w \in Workers, NEW m \in Submissions, RetryUpdate(w, m)
      PROVE  Types'
  <2>1. stray' \subseteq Update
    BY <1>22 DEF RetryUpdate, VerdictInv, Types, Update
  <2>. QED
    BY <1>22, <2>1 DEF RetryUpdate, Move, queues, channel, loop, Types, Stage
<1>23. ASSUME NEW w \in Workers, NEW m \in Submissions, Cancelled(w, m)
      PROVE  Types'
  <2>1. stray' \subseteq Update
    BY <1>23 DEF Cancelled, LeftBehind, VerdictInv, Types, Update
  <2>. QED
    BY <1>23, <2>1 DEF Cancelled, Move, queues, channel, loop, Types, Stage
<1>24. ASSUME NEW w \in Workers, NEW m \in Submissions, Ack(w, m)
      PROVE  Types'
  <2>1. stage' \in [Workers -> [Submissions -> Stage]]
    BY <1>24, MoveTypes DEF Ack, Stage
  <2>2. CASE Refused(w, m)
    BY <1>24, <2>1, <2>2, CloseTypes DEF Ack, Refused, db, loop, Types
  <2>3. CASE ~Refused(w, m)
    BY <1>24, <2>1, <2>3 DEF Ack, db, loop, Types, Messages
  <2>. QED
    BY <2>2, <2>3
<1>25. ASSUME NEW w \in Workers, NEW m \in Submissions, Nack(w, m)
      PROVE  Types'
  <2>1. stage' \in [Workers -> [Submissions -> Stage]]
    BY <1>25, MoveTypes DEF Nack, Stage
  <2>2. CASE Refused(w, m)
    BY <1>25, <2>1, <2>2, CloseTypes DEF Nack, Refused, db, loop, Types
  <2>3. CASE ~Refused(w, m)
    BY <1>25, <2>1, <2>3 DEF Nack, db, loop, Types, Messages
  <2>. QED
    BY <2>2, <2>3
<1>26. ASSUME NEW w \in Workers, NEW m \in Submissions, Requeue(w, m)
      PROVE  Types'
  <2>1. stage' \in [Workers -> [Submissions -> Stage]]
    BY <1>26, MoveTypes DEF Requeue, Stage
  <2>2. CASE Refused(w, m)
    BY <1>26, <2>1, <2>2, CloseTypes DEF Requeue, Refused, db, loop, Types
  <2>3. CASE ~Refused(w, m)
    <3>1. UpTo(w, m) \subseteq Messages
      BY DEF UpTo, Types
    <3>. QED
      BY <1>26, <2>1, <2>3, <3>1 DEF Requeue, db, loop, Types
  <2>. QED
    BY <2>2, <2>3
<1>. QED
  BY <1>1, <1>2, <1>3, <1>4, <1>5, <1>6, <1>7, <1>8, <1>9, <1>10, <1>11,
     <1>12, <1>13, <1>14, <1>15, <1>16, <1>17, <1>18, <1>19, <1>20, <1>21,
     <1>22, <1>23, <1>24, <1>25, <1>26
  DEF Next, Consume, Environment, Process, Listen, HandleDelivery, HandleMessage, 
      Crash, Exit, PoolGetFails, RejectFails

\* The pool hands out at most max_size containers: only Spawn takes one, under
\* the permit.
LEMMA PoolStep ==
  ASSUME Types, PoolBound, [Next]_vars
  PROVE  PoolBound'
<1>1. CASE UNCHANGED vars
  BY <1>1 DEF vars, db, queues, channel, loop, tasks, PoolBound, InUse,
    Handling, Types
<1>2. ASSUME NEW m \in Submissions, Submit(m)
      PROVE  PoolBound'
  BY <1>2
  DEF Submit, Declared, channel, loop, tasks, PoolBound, InUse, Handling,
      Types
<1>3. ASSUME NEW g \in Garbage, PublishGarbage(g)
      PROVE  PoolBound'
  BY <1>3
  DEF PublishGarbage, Declared, Published, channel, db, loop, tasks,
      PoolBound, InUse, Handling, Types
<1>4. ASSUME NEW u \in stray, RunStray(u)
      PROVE  PoolBound'
  BY <1>4
  DEF RunStray, channel, loop, queues, tasks, PoolBound, InUse, Handling,
      Types
<1>5. ASSUME NEW w \in Workers,
             Start(w) \/ Signal(w) \/ ChannelLost(w) \/ ConsumerEnds(w) \/
             ListenFails(w) \/ RejectGarbage(w)
      PROVE  PoolBound'
  BY <1>5
  DEF Start, db, queues, tasks, Signal, Mortal, channel, ChannelLost,
      CloseChannel, loop, ConsumerEnds, ListenFails, RejectGarbage,
      PoolBound, InUse, Handling, Types
<1>6. ASSUME NEW w \in Workers, EndProcess(w)
      PROVE  PoolBound'
  <2>1. SUFFICES ASSUME NEW v \in Workers PROVE Cardinality(InUse(v)') <= PoolSize
    BY DEF PoolBound
  <2>2. CASE v = w
    <3>1. InUse(v)' = {}
      BY <1>6, <2>2 DEF EndProcess, InUse, Handling, Types
    <3>. QED
      BY <3>1, FS_EmptySet, ConstantsOK DEF ConstantsOK
  <2>3. CASE v # w
    <3>1. InUse(v)' = InUse(v)
      BY <1>6, <2>3 DEF EndProcess, InUse, Types
    <3>. QED
      BY <3>1 DEF PoolBound
  <2>. QED
    BY <2>2, <2>3
<1>7. ASSUME NEW w \in Workers, NEW m \in Messages,
             Deliver(w, m) \/ Take(w, m)
      PROVE  PoolBound'
  BY <1>7
  DEF Deliver, db, loop, tasks, Take, channel, queues, PoolBound, InUse,
      Handling, Types
<1>8. ASSUME NEW w \in Workers, Spawn(w)
      PROVE  PoolBound'
  <2>1. SUFFICES ASSUME NEW v \in Workers PROVE Cardinality(InUse(v)') <= PoolSize
    BY DEF PoolBound
  <2>2. CASE v = w
    <3>1. InUse(w)' = InUse(w) \cup {hand[w]}
      BY <1>8 DEF Spawn, InUse, Handling, Types
    <3>2. IsFiniteSet(InUse(w))
      BY ConstantsOK, FS_Subset DEF ConstantsOK, InUse
    <3>3. /\ Cardinality(InUse(w)) \in Nat
          /\ \/ Cardinality(InUse(w)') = Cardinality(InUse(w))
             \/ Cardinality(InUse(w)') = Cardinality(InUse(w)) + 1
      BY <3>1, <3>2, FS_AddElement, FS_CardinalityType
    <3>. QED
      BY <1>8, <2>2, <3>3, ConstantsOK DEF Spawn, ConstantsOK
  <2>3. CASE v # w
    <3>1. InUse(v)' = InUse(v)
      BY <1>8, <2>3 DEF Spawn, InUse, Types
    <3>. QED
      BY <3>1 DEF PoolBound
  <2>. QED
    BY <2>2, <2>3
<1>9. ASSUME NEW w \in Workers, NEW m \in Submissions, FetchTestcase(w, m)
      PROVE  PoolBound'
  BY <1>9, PoolShrinks DEF FetchTestcase, Handling
<1>10. ASSUME NEW w \in Workers, NEW m \in Submissions, FetchFails(w, m)
      PROVE  PoolBound'
  BY <1>10, PoolShrinks DEF FetchFails, Fail, Handling
<1>11. ASSUME NEW w \in Workers, NEW m \in Submissions, ExecTestcase(w, m)
      PROVE  PoolBound'
  BY <1>11, PoolShrinks DEF ExecTestcase, ExecReturns, Handling
<1>12. ASSUME NEW w \in Workers, NEW m \in Submissions, ExecKilled(w, m)
      PROVE  PoolBound'
  BY <1>12, PoolShrinks DEF ExecKilled, ExecReturns, Handling
<1>13. ASSUME NEW w \in Workers, NEW m \in Submissions, ExecFails(w, m)
      PROVE  PoolBound'
  BY <1>13, PoolShrinks DEF ExecFails, Fail, Handling
<1>14. ASSUME NEW w \in Workers, NEW m \in Submissions, Panic(w, m)
      PROVE  PoolBound'
  BY <1>14, PoolShrinks DEF Panic, Handling
<1>15. ASSUME NEW w \in Workers, NEW m \in Submissions, UpdateFails(w, m)
      PROVE  PoolBound'
  BY <1>15, PoolShrinks DEF UpdateFails, Fail, Handling
<1>16. ASSUME NEW w \in Workers, NEW m \in Submissions, UpdateReturns(w, m)
      PROVE  PoolBound'
  BY <1>16, PoolShrinks DEF UpdateReturns, Handling
<1>17. ASSUME NEW w \in Workers, NEW m \in Submissions, RunUpdate(w, m)
      PROVE  PoolBound'
  BY <1>17, PoolShrinks DEF RunUpdate, Handling
<1>18. ASSUME NEW w \in Workers, NEW m \in Submissions, RetryUpdate(w, m)
      PROVE  PoolBound'
  BY <1>18, PoolShrinks DEF RetryUpdate, Handling
<1>19. ASSUME NEW w \in Workers, NEW m \in Submissions, Cancelled(w, m)
      PROVE  PoolBound'
  BY <1>19, PoolShrinks DEF Cancelled, Handling
<1>20. ASSUME NEW w \in Workers, NEW m \in Submissions, Ack(w, m)
      PROVE  PoolBound'
  BY <1>20, PoolShrinks DEF Ack, Handling
<1>21. ASSUME NEW w \in Workers, NEW m \in Submissions, Nack(w, m)
      PROVE  PoolBound'
  BY <1>21, PoolShrinks DEF Nack, Handling
<1>22. ASSUME NEW w \in Workers, NEW m \in Submissions, Requeue(w, m)
      PROVE  PoolBound'
  BY <1>22, PoolShrinks DEF Requeue, Handling
<1>. QED
  BY <1>1, <1>2, <1>3, <1>4, <1>5, <1>6, <1>7, <1>8, <1>9, <1>10, <1>11,
     <1>12, <1>13, <1>14, <1>15, <1>16, <1>17, <1>18, <1>19, <1>20, <1>21,
     <1>22
  DEF Next, Consume, Environment, Process, Listen, HandleDelivery, HandleMessage, 
      Crash, Exit, PoolGetFails, RejectFails

\* A process that is down, closing, or without a channel has let go.
LEMMA ProcessStep ==
  ASSUME Types, ProcessInv, AbsentInv, [Next]_vars
  PROVE  ProcessInv'
<1>1. CASE UNCHANGED vars
  BY <1>1 DEF vars, db, queues, channel, loop, tasks, ProcessInv, Types,
    Messages
<1>2. ASSUME NEW m \in Submissions, Submit(m)
      PROVE  ProcessInv'
  BY <1>2
  DEF Submit, Declared, channel, loop, tasks, ProcessInv, Types, Messages
<1>3. ASSUME NEW g \in Garbage, PublishGarbage(g)
      PROVE  ProcessInv'
  BY <1>3
  DEF PublishGarbage, Declared, Published, channel, db, loop, tasks,
      ProcessInv, Types, Messages
<1>4. ASSUME NEW u \in stray, RunStray(u)
      PROVE  ProcessInv'
  BY <1>4
  DEF RunStray, channel, loop, queues, tasks, ProcessInv, Types, Messages
<1>5. ASSUME NEW w \in Workers, Start(w)
      PROVE  ProcessInv'
  BY <1>5
  DEF Start, db, queues, tasks, ProcessInv, Types, Messages
<1>6. ASSUME NEW w \in Workers, EndProcess(w)
      PROVE  ProcessInv'
  BY <1>6
  DEF EndProcess, ProcessInv, Types, Messages
<1>7. ASSUME NEW w \in Workers,
             Signal(w) \/ ConsumerEnds(w) \/ ListenFails(w) \/
             RejectGarbage(w)
      PROVE  ProcessInv'
  BY <1>7
  DEF Signal, Mortal, channel, db, queues, tasks, ConsumerEnds, ListenFails,
      RejectGarbage, ProcessInv, Types, Messages
<1>8. ASSUME NEW w \in Workers, ChannelLost(w)
      PROVE  ProcessInv'
  BY <1>8
  DEF ChannelLost, CloseChannel, db, loop, tasks, ProcessInv, Types, Messages
<1>9. ASSUME NEW w \in Workers, NEW m \in Messages, Deliver(w, m)
      PROVE  ProcessInv'
  BY <1>9
  DEF Deliver, db, loop, tasks, ProcessInv, Types, Messages
<1>10. ASSUME NEW w \in Workers, NEW m \in Messages, Take(w, m)
      PROVE  ProcessInv'
  BY <1>10
  DEF Take, channel, db, queues, tasks, ProcessInv, Types, Messages
<1>11. ASSUME NEW w \in Workers, Spawn(w)
      PROVE  ProcessInv'
  BY <1>11
  DEF Spawn, channel, db, queues, ProcessInv, Types, Messages
<1>12. ASSUME NEW w \in Workers, NEW m \in Submissions, Inner(w, m)
      PROVE  ProcessInv'
  <2>1. InnerEffect
    BY <1>12, InnerFrame
  <2>. QED
    BY <2>1
    DEF InnerEffect, db, queues, channel, loop, ProcessInv, Types, Messages
<1>13. ASSUME NEW w \in Workers, NEW m \in Submissions, RunUpdate(w, m)
      PROVE  ProcessInv'
  BY <1>13
  DEF RunUpdate, Move, channel, loop, queues, ProcessInv, Types, Messages
<1>14. ASSUME NEW w \in Workers, NEW m \in Submissions, RetryUpdate(w, m)
      PROVE  ProcessInv'
  BY <1>14
  DEF RetryUpdate, Move, channel, loop, queues, ProcessInv, Types, Messages
<1>15. ASSUME NEW w \in Workers, NEW m \in Submissions, Cancelled(w, m)
      PROVE  ProcessInv'
  BY <1>15
  DEF Cancelled, LeftBehind, Move, channel, loop, queues, ProcessInv, Types,
      Messages
<1>16. ASSUME NEW w \in Workers, NEW m \in Submissions, Ack(w, m)
      PROVE  ProcessInv'
  BY <1>16
  DEF Ack, Refused, CloseChannel, Move, db, loop, ProcessInv, Types, Messages
<1>17. ASSUME NEW w \in Workers, NEW m \in Submissions, Nack(w, m)
      PROVE  ProcessInv'
  BY <1>17
  DEF Nack, Refused, CloseChannel, Move, db, loop, ProcessInv, Types, Messages
<1>18. ASSUME NEW w \in Workers, NEW m \in Submissions, Requeue(w, m)
      PROVE  ProcessInv'
  BY <1>18
  DEF Requeue, UpTo, Refused, CloseChannel, Move, db, loop, ProcessInv,
      Types, Messages
<1>. QED
  BY <1>1, <1>2, <1>3, <1>4, <1>5, <1>6, <1>7, <1>8, <1>9, <1>10, <1>11,
     <1>12, <1>13, <1>14, <1>15, <1>16, <1>17, <1>18
  DEF Next, Consume, Environment, Process, Listen, HandleDelivery, HandleMessage, Inner,
      Crash, Exit, PoolGetFails, RejectFails

\* No component gets hold of a submission that was not taken in.
LEMMA AbsentStep ==
  ASSUME Types, ProcessInv, AbsentInv, VerdictInv, [Next]_vars
  PROVE  AbsentInv'
<1>1. CASE UNCHANGED vars
  BY <1>1 DEF vars, db, queues, channel, loop, tasks, AbsentInv, Types,
    Messages, Update
<1>2. ASSUME NEW m \in Submissions, Submit(m)
      PROVE  AbsentInv'
  BY <1>2, ConstantsOK
  DEF Submit, Declared, channel, loop, tasks, AbsentInv, Types, Messages,
      Update
<1>3. ASSUME NEW g \in Garbage, PublishGarbage(g)
      PROVE  AbsentInv'
  BY <1>3, ConstantsOK
  DEF PublishGarbage, Declared, Published, channel, db, loop, tasks,
      AbsentInv, Types, Messages, Update
<1>4. ASSUME NEW u \in stray, RunStray(u)
      PROVE  AbsentInv'
  <2>1. u.m \in Submissions /\ u.v # "ABSENT"
    BY <1>4 DEF Types, Update, ExecStatus
  <2>. QED
    BY <1>4, <2>1 DEF RunStray, queues, channel, loop, tasks, AbsentInv, Types
<1>5. ASSUME NEW w \in Workers,
             Start(w) \/ Signal(w) \/ ConsumerEnds(w) \/ ListenFails(w)
      PROVE  AbsentInv'
  BY <1>5, ConstantsOK
  DEF Start, db, queues, tasks, Signal, Mortal, channel, ConsumerEnds,
      ListenFails, AbsentInv, Types, Messages, Update
<1>6. ASSUME NEW w \in Workers, EndProcess(w)
      PROVE  AbsentInv'
  BY <1>6, ConstantsOK
  DEF EndProcess, AbsentInv, Types, Messages, Update
<1>7. ASSUME NEW w \in Workers, ChannelLost(w)
      PROVE  AbsentInv'
  BY <1>7, ConstantsOK
  DEF ChannelLost, CloseChannel, db, loop, tasks, AbsentInv, Types, Messages,
      Update
<1>8. ASSUME NEW w \in Workers, NEW m \in Messages, Deliver(w, m)
      PROVE  AbsentInv'
  BY <1>8, ConstantsOK
  DEF Deliver, db, loop, tasks, AbsentInv, Types, Messages, Update
<1>9. ASSUME NEW w \in Workers, NEW m \in Messages, Take(w, m)
      PROVE  AbsentInv'
  BY <1>9, ConstantsOK
  DEF Take, channel, db, queues, tasks, AbsentInv, Types, Messages, Update
<1>10. ASSUME NEW w \in Workers, Spawn(w)
      PROVE  AbsentInv'
  BY <1>10, ConstantsOK
  DEF Spawn, channel, db, queues, AbsentInv, Types, Messages, Update
<1>11. ASSUME NEW w \in Workers, RejectGarbage(w)
      PROVE  AbsentInv'
  BY <1>11, ConstantsOK
  DEF RejectGarbage, db, tasks, AbsentInv, Types, Messages, Update
<1>12. ASSUME NEW w \in Workers, NEW m \in Submissions, Inner(w, m)
      PROVE  AbsentInv'
  <2>1. InnerEffect
    BY <1>12, InnerFrame
  <2>. QED
    BY <2>1, ConstantsOK
    DEF InnerEffect, db, queues, channel, loop, AbsentInv, Types, Messages,
        Update
<1>13. ASSUME NEW w \in Workers, NEW m \in Submissions, RunUpdate(w, m)
      PROVE  AbsentInv'
  <2>1. result[w][m] # "ABSENT"
    BY <1>13 DEF RunUpdate, VerdictInv, ExecStatus
  <2>. QED
    BY <1>13, <2>1 DEF RunUpdate, Move, queues, channel, loop, AbsentInv, Types
<1>14. ASSUME NEW w \in Workers, NEW m \in Submissions, RetryUpdate(w, m)
      PROVE  AbsentInv'
  BY <1>14, ConstantsOK
  DEF RetryUpdate, Move, channel, loop, queues, AbsentInv, Types, Messages,
      Update
<1>15. ASSUME NEW w \in Workers, NEW m \in Submissions, Cancelled(w, m)
      PROVE  AbsentInv'
  <2>1. status[m] # "ABSENT"
    BY <1>15 DEF Cancelled, Handling, AbsentInv
  <2>2. \A u \in stray' : u \in stray \/ u.m = m
    BY <1>15 DEF Cancelled, LeftBehind
  <2>. QED
    BY <1>15, <2>1, <2>2 DEF Cancelled, Move, queues, channel, loop, AbsentInv, Types
<1>16. ASSUME NEW w \in Workers, NEW m \in Submissions, Ack(w, m)
      PROVE  AbsentInv'
  BY <1>16, ConstantsOK
  DEF Ack, Refused, CloseChannel, Move, db, loop, AbsentInv, Types, Messages,
      Update
<1>17. ASSUME NEW w \in Workers, NEW m \in Submissions, Nack(w, m)
      PROVE  AbsentInv'
  BY <1>17, ConstantsOK
  DEF Nack, Refused, CloseChannel, Move, db, loop, AbsentInv, Types,
      Messages, Update
<1>18. ASSUME NEW w \in Workers, NEW m \in Submissions, Requeue(w, m)
      PROVE  AbsentInv'
  BY <1>18, ConstantsOK
  DEF Requeue, UpTo, Refused, CloseChannel, Move, db, loop, AbsentInv, Types,
      Messages, Update
<1>. QED
  BY <1>1, <1>2, <1>3, <1>4, <1>5, <1>6, <1>7, <1>8, <1>9, <1>10, <1>11,
     <1>12, <1>13, <1>14, <1>15, <1>16, <1>17, <1>18
  DEF Next, Consume, Environment, Process, Listen, HandleDelivery, HandleMessage, Inner,
      Crash, Exit, PoolGetFails, RejectFails

\* The broker drops a message only into acked or the dead-letter queue.
LEMMA KeptStep ==
  ASSUME Types, AbsentInv, KeptInv, [Next]_vars
  PROVE  KeptInv'
<1>1. CASE UNCHANGED vars
  BY <1>1 DEF vars, db, queues, channel, loop, tasks, KeptInv, Types
<1>2. ASSUME NEW m \in Submissions, Submit(m)
      PROVE  KeptInv'
  BY <1>2
  DEF Submit, Declared, channel, loop, tasks, KeptInv, Types
<1>3. ASSUME NEW g \in Garbage, PublishGarbage(g)
      PROVE  KeptInv'
  BY <1>3
  DEF PublishGarbage, Declared, Published, channel, db, loop, tasks, KeptInv,
      Types
<1>4. ASSUME NEW u \in stray, RunStray(u)
      PROVE  KeptInv'
  BY <1>4
  DEF RunStray, channel, loop, queues, tasks, KeptInv, Types, AbsentInv,
      Update
<1>5. ASSUME NEW w \in Workers,
             Start(w) \/ Signal(w) \/ ConsumerEnds(w) \/ Spawn(w) \/
             ListenFails(w)
      PROVE  KeptInv'
  BY <1>5
  DEF Start, db, queues, tasks, Signal, Mortal, channel, ConsumerEnds, Spawn,
      ListenFails, KeptInv, Types
<1>6. ASSUME NEW w \in Workers, EndProcess(w)
      PROVE  KeptInv'
  BY <1>6
  DEF EndProcess, KeptInv, Types
<1>7. ASSUME NEW w \in Workers, ChannelLost(w)
      PROVE  KeptInv'
  BY <1>7
  DEF ChannelLost, CloseChannel, db, loop, tasks, KeptInv, Types
<1>8. ASSUME NEW w \in Workers, NEW m \in Messages, Deliver(w, m)
      PROVE  KeptInv'
  BY <1>8
  DEF Deliver, db, loop, tasks, KeptInv, Types
<1>9. ASSUME NEW w \in Workers, NEW m \in Messages, Take(w, m)
      PROVE  KeptInv'
  BY <1>9
  DEF Take, channel, db, queues, tasks, KeptInv, Types
<1>10. ASSUME NEW w \in Workers, RejectGarbage(w)
      PROVE  KeptInv'
  BY <1>10
  DEF RejectGarbage, db, tasks, KeptInv, Types
<1>11. ASSUME NEW w \in Workers, NEW m \in Submissions,
             Inner(w, m) \/ RetryUpdate(w, m) \/ Cancelled(w, m)
      PROVE  KeptInv'
  BY <1>11, InnerFrame
  DEF InnerEffect, db, queues, channel, loop, RetryUpdate, Move, Cancelled,
      LeftBehind, KeptInv, Types
<1>12. ASSUME NEW w \in Workers, NEW m \in Submissions, RunUpdate(w, m)
      PROVE  KeptInv'
  BY <1>12
  DEF RunUpdate, Move, channel, loop, queues, KeptInv, Types, AbsentInv
<1>13. ASSUME NEW w \in Workers, NEW m \in Submissions, Ack(w, m)
      PROVE  KeptInv'
  BY <1>13
  DEF Ack, Refused, CloseChannel, Move, db, loop, KeptInv, Types
<1>14. ASSUME NEW w \in Workers, NEW m \in Submissions, Nack(w, m)
      PROVE  KeptInv'
  BY <1>14
  DEF Nack, Refused, CloseChannel, Move, db, loop, KeptInv, Types
<1>15. ASSUME NEW w \in Workers, NEW m \in Submissions, Requeue(w, m)
      PROVE  KeptInv'
  BY <1>15
  DEF Requeue, UpTo, Refused, CloseChannel, Move, db, loop, KeptInv, Types
<1>. QED
  BY <1>1, <1>2, <1>3, <1>4, <1>5, <1>6, <1>7, <1>8, <1>9, <1>10, <1>11,
     <1>12, <1>13, <1>14, <1>15
  DEF Next, Consume, Environment, Process, Listen, HandleDelivery, HandleMessage, Inner,
      Crash, Exit, PoolGetFails, RejectFails

\* Acknowledging comes after the UPDATE, and no UPDATE takes a verdict away.
LEMMA VerdictStep ==
  ASSUME Types, AbsentInv, VerdictInv, OnePlace, [Next]_vars
  PROVE  VerdictInv'
<1>1. CASE UNCHANGED vars
  BY <1>1 DEF vars, db, queues, channel, loop, tasks, VerdictInv, Types,
    Update, Messages
<1>2. ASSUME NEW m \in Submissions, Submit(m)
      PROVE  VerdictInv'
  BY <1>2
  DEF Submit, Declared, channel, loop, tasks, VerdictInv, Types, Update,
      Messages, AbsentInv
<1>3. ASSUME NEW g \in Garbage, PublishGarbage(g)
      PROVE  VerdictInv'
  BY <1>3
  DEF PublishGarbage, Declared, Published, channel, db, loop, tasks,
      VerdictInv, Types, Update, Messages
<1>4. ASSUME NEW u \in stray, RunStray(u)
      PROVE  VerdictInv'
  BY <1>4
  DEF RunStray, channel, loop, queues, tasks, VerdictInv, Types, Update,
      Messages
<1>5. ASSUME NEW w \in Workers,
             Start(w) \/ Signal(w) \/ ChannelLost(w) \/ ConsumerEnds(w) \/
             ListenFails(w) \/ RejectGarbage(w)
      PROVE  VerdictInv'
  BY <1>5
  DEF Start, db, queues, tasks, Signal, Mortal, channel, ChannelLost,
      CloseChannel, loop, ConsumerEnds, ListenFails, RejectGarbage,
      VerdictInv, Types, Update, Messages
<1>6. ASSUME NEW w \in Workers, EndProcess(w)
      PROVE  VerdictInv'
  BY <1>6
  DEF EndProcess, VerdictInv, Types, Update, Messages
<1>7. ASSUME NEW w \in Workers, NEW m \in Messages,
             Deliver(w, m) \/ Take(w, m)
      PROVE  VerdictInv'
  BY <1>7
  DEF Deliver, db, loop, tasks, Take, channel, queues, VerdictInv, Types,
      Update, Messages
<1>8. ASSUME NEW w \in Workers, Spawn(w)
      PROVE  VerdictInv'
  BY <1>8
  DEF Spawn, channel, db, queues, VerdictInv, Types, Update, Messages
<1>9. ASSUME NEW w \in Workers, NEW m \in Submissions, FetchTestcase(w, m)
      PROVE  VerdictInv'
  BY <1>9
  DEF FetchTestcase, Move, channel, db, loop, queues, VerdictInv, Types,
      Update, Messages
<1>10. ASSUME NEW w \in Workers, NEW m \in Submissions, FetchFails(w, m)
      PROVE  VerdictInv'
  BY <1>10
  DEF FetchFails, Fail, Move, channel, db, loop, queues, VerdictInv, Types,
      Update, Messages
<1>11. ASSUME NEW w \in Workers, NEW m \in Submissions, ExecTestcase(w, m)
      PROVE  VerdictInv'
  BY <1>11, StatusOfType
  DEF ExecTestcase, ExecReturns, Move, channel, db, loop, queues, VerdictInv,
      Types, Update, Messages
<1>12. ASSUME NEW w \in Workers, NEW m \in Submissions, ExecKilled(w, m)
      PROVE  VerdictInv'
  BY <1>12, StatusOfType
  DEF ExecKilled, ExecReturns, Move, KilledOutput, channel, db, loop, queues,
      VerdictInv, Types, Update, Messages
<1>13. ASSUME NEW w \in Workers, NEW m \in Submissions, ExecFails(w, m)
      PROVE  VerdictInv'
  BY <1>13
  DEF ExecFails, Fail, Move, channel, db, loop, queues, VerdictInv, Types,
      Update, Messages
<1>14. ASSUME NEW w \in Workers, NEW m \in Submissions, Panic(w, m)
      PROVE  VerdictInv'
  BY <1>14
  DEF Panic, Move, channel, db, loop, queues, VerdictInv, Types, Update,
      Messages
<1>15. ASSUME NEW w \in Workers, NEW m \in Submissions, UpdateFails(w, m)
      PROVE  VerdictInv'
  BY <1>15
  DEF UpdateFails, Fail, Move, channel, db, loop, queues, VerdictInv, Types,
      Update, Messages
<1>16. ASSUME NEW w \in Workers, NEW m \in Submissions, UpdateReturns(w, m)
      PROVE  VerdictInv'
  BY <1>16
  DEF UpdateReturns, Move, channel, db, loop, queues, VerdictInv, Types,
      Update, Messages
<1>17. ASSUME NEW w \in Workers, NEW m \in Submissions, RunUpdate(w, m)
      PROVE  VerdictInv'
  BY <1>17
  DEF RunUpdate, Move, channel, loop, queues, VerdictInv, Types, Update,
      Messages
<1>18. ASSUME NEW w \in Workers, NEW m \in Submissions, RetryUpdate(w, m)
      PROVE  VerdictInv'
  BY <1>18
  DEF RetryUpdate, Move, channel, loop, queues, VerdictInv, Types, Update,
      Messages
<1>19. ASSUME NEW w \in Workers, NEW m \in Submissions, Cancelled(w, m)
      PROVE  VerdictInv'
  BY <1>19
  DEF Cancelled, LeftBehind, Move, channel, loop, queues, VerdictInv, Types,
      Update, Messages
<1>20. ASSUME NEW w \in Workers, NEW m \in Submissions, Ack(w, m)
      PROVE  VerdictInv'
  BY <1>20
  DEF Ack, Refused, CloseChannel, Move, db, loop, VerdictInv, Types, Update,
      Messages
<1>21. ASSUME NEW w \in Workers, NEW m \in Submissions, Nack(w, m)
      PROVE  VerdictInv'
  BY <1>21
  DEF Nack, Refused, CloseChannel, Move, db, loop, VerdictInv, Types, Update,
      Messages
<1>22. ASSUME NEW w \in Workers, NEW m \in Submissions, Requeue(w, m)
      PROVE  VerdictInv'
  BY <1>22
  DEF Requeue, UpTo, Refused, CloseChannel, Move, db, loop, VerdictInv,
      Types, Update, Messages
<1>. QED
  BY <1>1, <1>2, <1>3, <1>4, <1>5, <1>6, <1>7, <1>8, <1>9, <1>10, <1>11,
     <1>12, <1>13, <1>14, <1>15, <1>16, <1>17, <1>18, <1>19, <1>20, <1>21,
     <1>22
  DEF Next, Consume, Environment, Process, Listen, HandleDelivery, HandleMessage, 
      Crash, Exit, PoolGetFails, RejectFails

\* Taking follows the tags; a delivery under way is not delivered again to the
\* same worker while it owns it.
LEMMA OrderStep ==
  ASSUME Types, ProcessInv, OrderInv, OwnInv, OnePlace, [Next]_vars
  PROVE  OrderInv'
<1>1. CASE UNCHANGED vars
  BY <1>1 DEF vars, db, queues, channel, loop, tasks, OrderInv, Types,
    Messages
<1>2. ASSUME NEW m \in Submissions, Submit(m)
      PROVE  OrderInv'
  BY <1>2, ConstantsOK
  DEF Submit, Declared, channel, loop, tasks, OrderInv, Types, Messages
<1>3. ASSUME NEW g \in Garbage, PublishGarbage(g)
      PROVE  OrderInv'
  BY <1>3, ConstantsOK
  DEF PublishGarbage, Declared, Published, channel, db, loop, tasks,
      OrderInv, Types, Messages
<1>4. ASSUME NEW u \in stray, RunStray(u)
      PROVE  OrderInv'
  BY <1>4, ConstantsOK
  DEF RunStray, channel, loop, queues, tasks, OrderInv, Types, Messages
<1>5. ASSUME NEW w \in Workers, Start(w)
      PROVE  OrderInv'
  BY <1>5, ConstantsOK
  DEF Start, db, queues, tasks, OrderInv, Types, Messages
<1>6. ASSUME NEW w \in Workers, EndProcess(w)
      PROVE  OrderInv'
  BY <1>6, ConstantsOK
  DEF EndProcess, OrderInv, Types, Messages
<1>7. ASSUME NEW w \in Workers, Signal(w)
      PROVE  OrderInv'
  BY <1>7, ConstantsOK
  DEF Signal, Mortal, channel, db, queues, tasks, OrderInv, Types, Messages
<1>8. ASSUME NEW w \in Workers, ChannelLost(w)
      PROVE  OrderInv'
  BY <1>8, ConstantsOK
  DEF ChannelLost, CloseChannel, db, loop, tasks, OrderInv, Types, Messages
<1>9. ASSUME NEW w \in Workers, NEW m \in Messages, Deliver(w, m)
      PROVE  OrderInv'
  <2>1. m \notin unacked[w] /\ ~Detached(w)
    BY <1>9 DEF Deliver, OnePlace, ProcessInv, Detached, Types
  <2>2. hand[w] # m /\ (m \in Submissions => stage[w][m] = "none")
    BY <2>1 DEF OwnInv
  <2>3. \A v \in Workers, x \in Messages : v # w \/ x # m => tag'[v][x] = tag[v][x]
    BY <1>9 DEF Deliver, Types
  <2>. QED
    BY <1>9, <2>2, <2>3 DEF Deliver, loop, tasks, OrderInv, Messages
<1>10. ASSUME NEW w \in Workers, NEW m \in Messages, Take(w, m)
      PROVE  OrderInv'
  BY <1>10, ConstantsOK
  DEF Take, channel, db, queues, tasks, OrderInv, Types, Messages
<1>11. ASSUME NEW w \in Workers, ConsumerEnds(w)
      PROVE  OrderInv'
  BY <1>11, ConstantsOK
  DEF ConsumerEnds, channel, db, queues, tasks, OrderInv, Types, Messages
<1>12. ASSUME NEW w \in Workers, Spawn(w)
      PROVE  OrderInv'
  BY <1>12, ConstantsOK
  DEF Spawn, channel, db, queues, OrderInv, Types, Messages
<1>13. ASSUME NEW w \in Workers, ListenFails(w)
      PROVE  OrderInv'
  BY <1>13, ConstantsOK
  DEF ListenFails, channel, db, queues, tasks, OrderInv, Types, Messages
<1>14. ASSUME NEW w \in Workers, RejectGarbage(w)
      PROVE  OrderInv'
  BY <1>14, ConstantsOK
  DEF RejectGarbage, db, tasks, OrderInv, Types, Messages
<1>15. ASSUME NEW w \in Workers, NEW m \in Submissions, Inner(w, m)
      PROVE  OrderInv'
  <2>1. InnerEffect
    BY <1>15, InnerFrame
  <2>. QED
    BY <2>1, ConstantsOK
    DEF InnerEffect, db, queues, channel, loop, OrderInv, Types, Messages
<1>16. ASSUME NEW w \in Workers, NEW m \in Submissions, RunUpdate(w, m)
      PROVE  OrderInv'
  BY <1>16, ConstantsOK
  DEF RunUpdate, Move, channel, loop, queues, OrderInv, Types, Messages
<1>17. ASSUME NEW w \in Workers, NEW m \in Submissions, RetryUpdate(w, m)
      PROVE  OrderInv'
  BY <1>17, ConstantsOK
  DEF RetryUpdate, Move, channel, loop, queues, OrderInv, Types, Messages
<1>18. ASSUME NEW w \in Workers, NEW m \in Submissions, Cancelled(w, m)
      PROVE  OrderInv'
  BY <1>18, ConstantsOK
  DEF Cancelled, LeftBehind, Move, channel, loop, queues, OrderInv, Types,
      Messages, Handling
<1>19. ASSUME NEW w \in Workers, NEW m \in Submissions, Ack(w, m)
      PROVE  OrderInv'
  BY <1>19, ConstantsOK
  DEF Ack, Refused, CloseChannel, Move, db, loop, OrderInv, Types, Messages
<1>20. ASSUME NEW w \in Workers, NEW m \in Submissions, Nack(w, m)
      PROVE  OrderInv'
  BY <1>20, ConstantsOK
  DEF Nack, Refused, CloseChannel, Move, db, loop, OrderInv, Types, Messages
<1>21. ASSUME NEW w \in Workers, NEW m \in Submissions, Requeue(w, m)
      PROVE  OrderInv'
  BY <1>21, ConstantsOK
  DEF Requeue, UpTo, Refused, CloseChannel, Move, db, loop, OrderInv, Types,
      Messages
<1>. QED
  BY <1>1, <1>2, <1>3, <1>4, <1>5, <1>6, <1>7, <1>8, <1>9, <1>10, <1>11,
     <1>12, <1>13, <1>14, <1>15, <1>16, <1>17, <1>18, <1>19, <1>20, <1>21
  DEF Next, Consume, Environment, Process, Listen, HandleDelivery, HandleMessage, Inner,
      Crash, Exit, PoolGetFails, RejectFails

\* A settlement or a closed channel moves a message, it never copies it.
LEMMA OnePlaceStep ==
  ASSUME Types, AbsentInv, OnePlace, [Next]_vars
  PROVE  OnePlace'
<1>1. CASE UNCHANGED vars
  BY <1>1 DEF vars, db, queues, channel, loop, tasks, OnePlace, Types,
    Messages
<1>2. ASSUME NEW m \in Submissions, Submit(m)
      PROVE  OnePlace'
  BY <1>2
  DEF Submit, Declared, channel, loop, tasks, OnePlace, Types, Messages,
      AbsentInv
<1>3. ASSUME NEW g \in Garbage, PublishGarbage(g)
      PROVE  OnePlace'
  BY <1>3
  DEF PublishGarbage, Declared, Published, channel, db, loop, tasks,
      OnePlace, Types, Messages
<1>4. ASSUME NEW u \in stray, RunStray(u)
      PROVE  OnePlace'
  BY <1>4
  DEF RunStray, channel, loop, queues, tasks, OnePlace, Types, Messages
<1>5. ASSUME NEW w \in Workers,
             Start(w) \/ Signal(w) \/ ConsumerEnds(w) \/ Spawn(w) \/
             ListenFails(w)
      PROVE  OnePlace'
  BY <1>5
  DEF Start, db, queues, tasks, Signal, Mortal, channel, ConsumerEnds, Spawn,
      ListenFails, OnePlace, Types, Messages
<1>6. ASSUME NEW w \in Workers, EndProcess(w)
      PROVE  OnePlace'
  BY <1>6
  DEF EndProcess, OnePlace, Types, Messages
<1>7. ASSUME NEW w \in Workers, ChannelLost(w)
      PROVE  OnePlace'
  BY <1>7
  DEF ChannelLost, CloseChannel, db, loop, tasks, OnePlace, Types, Messages
<1>8. ASSUME NEW w \in Workers, NEW m \in Messages, Deliver(w, m)
      PROVE  OnePlace'
  BY <1>8
  DEF Deliver, db, loop, tasks, OnePlace, Types, Messages
<1>9. ASSUME NEW w \in Workers, NEW m \in Messages, Take(w, m)
      PROVE  OnePlace'
  BY <1>9
  DEF Take, channel, db, queues, tasks, OnePlace, Types, Messages
<1>10. ASSUME NEW w \in Workers, RejectGarbage(w)
      PROVE  OnePlace'
  BY <1>10
  DEF RejectGarbage, db, tasks, OnePlace, Types, Messages
<1>11. ASSUME NEW w \in Workers, NEW m \in Submissions,
             Inner(w, m) \/ RunUpdate(w, m) \/ RetryUpdate(w, m) \/
             Cancelled(w, m)
      PROVE  OnePlace'
  BY <1>11, InnerFrame
  DEF InnerEffect, db, queues, channel, loop, RunUpdate, Move, RetryUpdate,
      Cancelled, LeftBehind, OnePlace, Types, Messages
<1>12. ASSUME NEW w \in Workers, NEW m \in Submissions, Ack(w, m)
      PROVE  OnePlace'
  <2>1. CASE Refused(w, m)
    BY <1>12, <2>1 DEF Ack, Refused, CloseChannel, OnePlace, Types
  <2>2. CASE ~Refused(w, m)
    <3>1. /\ m \in unacked[w]
          /\ unacked' = [unacked EXCEPT ![w] = @ \ {m}]
          /\ acked' = acked \cup {m}
          /\ UNCHANGED <<ready, dlq>>
      BY <1>12, <2>2 DEF Ack
    <3>. QED
      BY <3>1 DEF OnePlace, Types
  <2>. QED
    BY <2>1, <2>2
<1>13. ASSUME NEW w \in Workers, NEW m \in Submissions, Nack(w, m)
      PROVE  OnePlace'
  <2>1. CASE Refused(w, m)
    BY <1>13, <2>1 DEF Nack, Refused, CloseChannel, OnePlace, Types
  <2>2. CASE ~Refused(w, m)
    <3>1. /\ m \in unacked[w]
          /\ unacked' = [unacked EXCEPT ![w] = @ \ {m}]
          /\ dlq' = dlq \cup {m}
          /\ UNCHANGED <<ready, acked>>
      BY <1>13, <2>2 DEF Nack
    <3>. QED
      BY <3>1 DEF OnePlace, Types
  <2>. QED
    BY <2>1, <2>2
<1>14. ASSUME NEW w \in Workers, NEW m \in Submissions, Requeue(w, m)
      PROVE  OnePlace'
  <2>1. CASE Refused(w, m)
    BY <1>14, <2>1 DEF Requeue, Refused, CloseChannel, OnePlace, Types
  <2>2. CASE ~Refused(w, m)
    <3>1. /\ m \in unacked[w]
          /\ unacked' = [unacked EXCEPT ![w] = @ \ UpTo(w, m)]
          /\ ready' = ready \cup UpTo(w, m)
          /\ UNCHANGED <<dlq, acked>>
      BY <1>14, <2>2 DEF Requeue
    <3>. QED
      BY <3>1 DEF UpTo, OnePlace, Types
  <2>. QED
    BY <2>1, <2>2
<1>. QED
  BY <1>1, <1>2, <1>3, <1>4, <1>5, <1>6, <1>7, <1>8, <1>9, <1>10, <1>11,
     <1>12, <1>13, <1>14
  DEF Next, Consume, Environment, Process, Listen, HandleDelivery, HandleMessage, Inner,
      Crash, Exit, PoolGetFails, RejectFails

\* Ownership is lost only by closing the channel or cancelling the token: a
\* nack with `multiple` is sent after the token is cancelled.
LEMMA OwnStep ==
  ASSUME Types, ProcessInv, OrderInv, OnePlace, OwnInv, [Next]_vars
  PROVE  OwnInv'
<1>1. CASE UNCHANGED vars
  BY <1>1 DEF vars, db, queues, channel, loop, tasks, OwnInv, Detached,
    Types, Messages
<1>2. ASSUME NEW m \in Submissions, Submit(m)
      PROVE  OwnInv'
  BY <1>2, ConstantsOK
  DEF Submit, Declared, channel, loop, tasks, OwnInv, Detached, Types,
      Messages
<1>3. ASSUME NEW g \in Garbage, PublishGarbage(g)
      PROVE  OwnInv'
  BY <1>3, ConstantsOK
  DEF PublishGarbage, Declared, Published, channel, db, loop, tasks, OwnInv,
      Detached, Types, Messages
<1>4. ASSUME NEW u \in stray, RunStray(u)
      PROVE  OwnInv'
  BY <1>4, ConstantsOK
  DEF RunStray, channel, loop, queues, tasks, OwnInv, Detached, Types,
      Messages
<1>5. ASSUME NEW w \in Workers, Start(w)
      PROVE  OwnInv'
  BY <1>5, ConstantsOK
  DEF Start, db, queues, tasks, OwnInv, Detached, Types, Messages, ProcessInv
<1>6. ASSUME NEW w \in Workers, EndProcess(w)
      PROVE  OwnInv'
  BY <1>6, ConstantsOK
  DEF EndProcess, OwnInv, Detached, Types, Messages
<1>7. ASSUME NEW w \in Workers, Signal(w)
      PROVE  OwnInv'
  BY <1>7, ConstantsOK
  DEF Signal, Mortal, channel, db, queues, tasks, OwnInv, Detached, Types,
      Messages
<1>8. ASSUME NEW w \in Workers, ChannelLost(w)
      PROVE  OwnInv'
  BY <1>8, ConstantsOK
  DEF ChannelLost, CloseChannel, db, loop, tasks, OwnInv, Detached, Types,
      Messages
<1>9. ASSUME NEW w \in Workers, NEW m \in Messages, Deliver(w, m)
      PROVE  OwnInv'
  BY <1>9, ConstantsOK
  DEF Deliver, db, loop, tasks, OwnInv, Detached, Types, Messages
<1>10. ASSUME NEW w \in Workers, NEW m \in Messages, Take(w, m)
      PROVE  OwnInv'
  BY <1>10, ConstantsOK
  DEF Take, channel, db, queues, tasks, OwnInv, Detached, Types, Messages
<1>11. ASSUME NEW w \in Workers, ConsumerEnds(w)
      PROVE  OwnInv'
  BY <1>11, ConstantsOK
  DEF ConsumerEnds, channel, db, queues, tasks, OwnInv, Detached, Types,
      Messages
<1>12. ASSUME NEW w \in Workers, Spawn(w)
      PROVE  OwnInv'
  BY <1>12, ConstantsOK
  DEF Spawn, channel, db, queues, OwnInv, Detached, Types, Messages
<1>13. ASSUME NEW w \in Workers, ListenFails(w)
      PROVE  OwnInv'
  BY <1>13, ConstantsOK
  DEF ListenFails, channel, db, queues, tasks, OwnInv, Detached, Types,
      Messages
<1>14. ASSUME NEW w \in Workers, RejectGarbage(w)
      PROVE  OwnInv'
  BY <1>14, ConstantsOK
  DEF RejectGarbage, db, tasks, OwnInv, Detached, Types, Messages, OrderInv,
      ConstantsOK
<1>15. ASSUME NEW w \in Workers, NEW m \in Submissions, Inner(w, m)
      PROVE  OwnInv'
  <2>1. InnerEffect
    BY <1>15, InnerFrame
  <2>. QED
    BY <2>1, ConstantsOK
    DEF InnerEffect, db, queues, channel, loop, OwnInv, Detached, Types,
        Messages
<1>16. ASSUME NEW w \in Workers, NEW m \in Submissions, RunUpdate(w, m)
      PROVE  OwnInv'
  BY <1>16, ConstantsOK
  DEF RunUpdate, Move, channel, loop, queues, OwnInv, Detached, Types,
      Messages
<1>17. ASSUME NEW w \in Workers, NEW m \in Submissions, RetryUpdate(w, m)
      PROVE  OwnInv'
  BY <1>17, ConstantsOK
  DEF RetryUpdate, Move, channel, loop, queues, OwnInv, Detached, Types,
      Messages
<1>18. ASSUME NEW w \in Workers, NEW m \in Submissions, Cancelled(w, m)
      PROVE  OwnInv'
  BY <1>18, ConstantsOK
  DEF Cancelled, LeftBehind, Move, channel, loop, queues, OwnInv, Detached,
      Types, Messages
<1>19. ASSUME NEW w \in Workers, NEW m \in Submissions, Ack(w, m)
      PROVE  OwnInv'
  <2>1. CASE Refused(w, m)
    BY <1>19, <2>1 DEF Ack, Refused, CloseChannel, Move, db, loop, ProcessInv, OrderInv, OwnInv, Detached, Types, Messages
  <2>2. CASE ~Refused(w, m)
    BY <1>19, <2>2 DEF Ack, Move, db, loop, ProcessInv, OrderInv, OwnInv, Detached, Types, Messages
  <2>. QED
    BY <2>1, <2>2
<1>20. ASSUME NEW w \in Workers, NEW m \in Submissions, Nack(w, m)
      PROVE  OwnInv'
  <2>1. CASE Refused(w, m)
    BY <1>20, <2>1 DEF Nack, Refused, CloseChannel, Move, db, loop, ProcessInv, OrderInv, OwnInv, Detached, Types, Messages
  <2>2. CASE ~Refused(w, m)
    BY <1>20, <2>2 DEF Nack, Move, db, loop, ProcessInv, OrderInv, OwnInv, Detached, Types, Messages
  <2>. QED
    BY <2>1, <2>2
<1>21. ASSUME NEW w \in Workers, NEW m \in Submissions, Requeue(w, m)
      PROVE  OwnInv'
  <2>1. CASE Refused(w, m)
    BY <1>21, <2>1 DEF Requeue, Refused, CloseChannel, Move, db, loop, ProcessInv, OrderInv, OwnInv, Detached, Types, Messages
  <2>2. CASE ~Refused(w, m)
    BY <1>21, <2>2 DEF Requeue, UpTo, Move, db, loop, ProcessInv, OrderInv, OwnInv, Detached, Types, Messages
  <2>. QED
    BY <2>1, <2>2
<1>. QED
  BY <1>1, <1>2, <1>3, <1>4, <1>5, <1>6, <1>7, <1>8, <1>9, <1>10, <1>11,
     <1>12, <1>13, <1>14, <1>15, <1>16, <1>17, <1>18, <1>19, <1>20, <1>21
  DEF Next, Consume, Environment, Process, Listen, HandleDelivery, HandleMessage, Inner,
      Crash, Exit, PoolGetFails, RejectFails

-----------------------------------------------------------------------------
(* The invariant and the theorems. *)

\* The invariant holds before anything has started.
LEMMA InitIInv == Init => IInv
<1>. SUFFICES ASSUME Init PROVE IInv
  OBVIOUS
<1>1. Types
  BY ConstantsOK DEF Init, Types, Row, Phase, Stage, Update
<1>2. PoolBound
  <2>1. \A w \in Workers : InUse(w) = {}
    BY DEF Init, InUse, Handling
  <2>. QED
    BY <2>1, FS_EmptySet, ConstantsOK DEF PoolBound, ConstantsOK
<1>3. ProcessInv /\ AbsentInv /\ KeptInv /\ OrderInv /\ OnePlace /\ OwnInv
  BY ConstantsOK
  DEF Init, ProcessInv, AbsentInv, KeptInv, OrderInv, OnePlace, OwnInv,
      Detached, Messages
<1>4. VerdictInv
  BY DEF Init, VerdictInv
<1>. QED
  BY <1>1, <1>2, <1>3, <1>4 DEF IInv, TypeOK

\* ... and every step keeps it.
LEMMA NextIInv == IInv /\ [Next]_vars => IInv'
<1>. SUFFICES ASSUME IInv, [Next]_vars PROVE IInv'
  OBVIOUS
<1>1. Types /\ PoolBound /\ ProcessInv /\ AbsentInv /\ KeptInv /\ VerdictInv
      /\ OrderInv /\ OnePlace /\ OwnInv
  BY DEF IInv, TypeOK
<1>2. Types' /\ PoolBound'
  BY <1>1, TypesStep, PoolStep
<1>3. ProcessInv' /\ AbsentInv' /\ KeptInv'
  BY <1>1, ProcessStep, AbsentStep, KeptStep
<1>4. VerdictInv' /\ OrderInv' /\ OnePlace' /\ OwnInv'
  BY <1>1, VerdictStep, OrderStep, OnePlaceStep, OwnStep
<1>. QED
  BY <1>2, <1>3, <1>4 DEF IInv, TypeOK

\* The inductive invariant holds in every reachable state.
THEOREM Invariance == Spec => []IInv
BY InitIInv, NextIInv, PTL DEF Spec

\* Types hold, and a worker's tasks never hold more than max_size containers.
THEOREM TypeCorrect == Spec => []TypeOK
<1>1. IInv => TypeOK
  BY DEF IInv
<1>. QED
  BY <1>1, Invariance, PTL

\* A message is at one place, whatever was requeued, dead-lettered or closed.
THEOREM NeverDuplicated == Spec => []OnePlace
<1>1. IInv => OnePlace
  BY DEF IInv
<1>. QED
  BY <1>1, Invariance, PTL

\* A PENDING submission's message is with the broker, through every crash.
THEOREM NeverLost == Spec => []NoTaskLost
<1>1. IInv => NoTaskLost
  <2>. SUFFICES ASSUME IInv, NEW m \in Submissions, status[m] = "PENDING"
               PROVE  m \in ready \cup dlq \cup UNION {unacked[w] : w \in Workers}
    BY DEF NoTaskLost
  <2>1. m \notin acked
    BY DEF IInv, VerdictInv, ExecStatus
  <2>2. m \in ready \cup dlq \cup acked \/ \E w \in Workers : m \in unacked[w]
    BY DEF IInv, KeptInv
  <2>. QED
    BY <2>1, <2>2
<1>. QED
  BY <1>1, Invariance, PTL

\* Two workers judge one submission at a time only if one of them has lost its
\* channel or is shutting down.
THEOREM JudgedByOne == Spec => []SingleJudge
<1>1. IInv => SingleJudge
  BY DEF IInv, OnePlace, OwnInv, SingleJudge, Handling
<1>. QED
  BY <1>1, Invariance, PTL

-----------------------------------------------------------------------------
(* The workers implement the ledger. *)

\* Initially every submission is absent.
LEMMA InitLedger == Init => Ledger!Init
BY DEF Init, Ledger!Init, FateOf

\* A step that leaves the row, acked and dlq of every submission alone
\* stutters in the ledger.
LEMMA LedgerStutter ==
  ASSUME status' = status,
         \A m \in Submissions : (m \in acked' <=> m \in acked) /\ (m \in dlq' <=> m \in dlq)
  PROVE  UNCHANGED Ledger!ledgerVars
BY DEF Ledger!ledgerVars, FateOf

\* Writing a verdict to a row that exists is the ledger's Record.
LEMMA LedgerRecord ==
  ASSUME Types, NEW m \in Submissions, NEW v \in ExecStatus, status[m] # "ABSENT",
         status' = [status EXCEPT ![m] = v], UNCHANGED <<acked, dlq>>
  PROVE  [Ledger!Next]_(Ledger!ledgerVars)
<1>1. \A x \in Submissions : (status'[x] = "ABSENT") <=> (status[x] = "ABSENT")
  BY DEF Types, ExecStatus
<1>2. \A x \in Submissions : FateOf(x)' = FateOf(x)
  BY <1>1 DEF FateOf
<1>3. FateOf(m) # "absent"
  BY DEF FateOf
<1>4. Ledger!Record(m, v)
  BY <1>2, <1>3 DEF Ledger!Record
<1>5. Ledger!Next
  BY <1>4 DEF Ledger!Next, Ledger!ExecStatus, ExecStatus
<1>. QED
  BY <1>5

\* Every step of the workers, the broker and the database is a step of the
\* ledger or leaves it unchanged.
LEMMA NextLedger ==
  ASSUME IInv, [Next]_vars
  PROVE  [Ledger!Next]_(Ledger!ledgerVars)
<1>0. Types /\ AbsentInv /\ VerdictInv /\ OnePlace
  BY DEF IInv, TypeOK
<1>1. CASE UNCHANGED vars
  BY <1>1, LedgerStutter DEF vars, db, queues
<1>2. ASSUME NEW m \in Submissions, Submit(m)
      PROVE  [Ledger!Next]_(Ledger!ledgerVars)
  <2>1. m \notin acked \cup dlq /\ FateOf(m) = "absent"
    BY <1>0, <1>2 DEF Submit, AbsentInv, FateOf
  <2>2. FateOf(m)' = "queued"
    BY <1>0, <1>2, <2>1 DEF Submit, FateOf, Types
  <2>3. \A x \in Submissions : x # m => FateOf(x)' = FateOf(x)
    BY <1>0, <1>2 DEF Submit, FateOf, Types
  <2>4. Ledger!TakeIn(m)
    BY <1>2, <2>1, <2>2, <2>3 DEF Submit, Ledger!TakeIn
  <2>. QED
    BY <2>4 DEF Ledger!Next
<1>3. ASSUME NEW u \in stray, RunStray(u)
      PROVE  [Ledger!Next]_(Ledger!ledgerVars)
  <2>1. u.m \in Submissions /\ u.v \in ExecStatus /\ status[u.m] # "ABSENT"
    BY <1>0 DEF Types, Update, AbsentInv
  <2>. QED
    BY <1>0, <1>3, <2>1, LedgerRecord DEF RunStray, queues
<1>4. ASSUME NEW w \in Workers, NEW m \in Submissions, RunUpdate(w, m)
      PROVE  [Ledger!Next]_(Ledger!ledgerVars)
  <2>1. result[w][m] \in ExecStatus /\ status[m] # "ABSENT"
    BY <1>0, <1>4 DEF RunUpdate, VerdictInv, AbsentInv
  <2>. QED
    BY <1>0, <1>4, <2>1, LedgerRecord DEF RunUpdate, queues
<1>5. ASSUME NEW w \in Workers, NEW m \in Submissions, Ack(w, m)
      PROVE  [Ledger!Next]_(Ledger!ledgerVars)
  <2>1. CASE Refused(w, m)
    BY <1>5, <2>1, LedgerStutter DEF Ack, Refused, CloseChannel, db
  <2>2. CASE ~Refused(w, m)
    <3>1. m \in unacked[w] /\ acked' = acked \cup {m} /\ UNCHANGED <<dlq, status>>
      BY <1>5, <2>2 DEF Ack, db
    <3>2. status[m] \in ExecStatus /\ FateOf(m) = "queued"
      BY <1>0, <1>5, <3>1 DEF Ack, VerdictInv, OnePlace, FateOf, ExecStatus
    <3>3. FateOf(m)' = "done"
      BY <3>1 DEF FateOf
    <3>4. \A x \in Submissions : x # m => FateOf(x)' = FateOf(x)
      BY <3>1 DEF FateOf
    <3>5. Ledger!Complete(m)
      BY <3>1, <3>2, <3>3, <3>4 DEF Ledger!Complete, Ledger!ExecStatus, ExecStatus
    <3>. QED
      BY <3>5 DEF Ledger!Next
  <2>. QED
    BY <2>1, <2>2
<1>6. ASSUME NEW w \in Workers, NEW m \in Submissions, Nack(w, m)
      PROVE  [Ledger!Next]_(Ledger!ledgerVars)
  <2>1. CASE Refused(w, m)
    BY <1>6, <2>1, LedgerStutter DEF Nack, Refused, CloseChannel, db
  <2>2. CASE ~Refused(w, m)
    <3>1. m \in unacked[w] /\ dlq' = dlq \cup {m} /\ UNCHANGED <<acked, status>>
      BY <1>6, <2>2 DEF Nack, db
    <3>2. m \notin acked /\ FateOf(m) = "queued"
      BY <1>0, <3>1 DEF OnePlace, AbsentInv, FateOf
    <3>3. FateOf(m)' = "parked" /\ \A x \in Submissions : x # m => FateOf(x)' = FateOf(x)
      BY <3>1, <3>2 DEF FateOf
    <3>4. Ledger!Park(m)
      BY <3>1, <3>2, <3>3 DEF Ledger!Park
    <3>. QED
      BY <3>4 DEF Ledger!Next
  <2>. QED
    BY <2>1, <2>2
<1>7. ASSUME NEW w \in Workers, RejectGarbage(w)
      PROVE  [Ledger!Next]_(Ledger!ledgerVars)
  BY <1>7, LedgerStutter, ConstantsOK DEF RejectGarbage, db, ConstantsOK
<1>8. ASSUME NEW w \in Workers, NEW m \in Submissions,
             Inner(w, m) \/ RetryUpdate(w, m) \/ Cancelled(w, m)
      PROVE  [Ledger!Next]_(Ledger!ledgerVars)
  <2>1. UNCHANGED <<status, queues>>
    BY <1>0, <1>8, InnerFrame DEF InnerEffect, RetryUpdate, Cancelled, db
  <2>. QED
    BY <2>1, LedgerStutter DEF queues
<1>9. ASSUME NEW w \in Workers, NEW m \in Submissions, Requeue(w, m)
      PROVE  [Ledger!Next]_(Ledger!ledgerVars)
  BY <1>9, LedgerStutter DEF Requeue, Refused, CloseChannel, db
<1>10. ASSUME NEW w \in Workers,
              Process(w) \/ ConsumerEnds(w) \/ Spawn(w) \/ ListenFails(w)
       PROVE  [Ledger!Next]_(Ledger!ledgerVars)
  BY <1>10, LedgerStutter
  DEF Process, Start, Crash, Signal, Exit, EndProcess, ChannelLost, CloseChannel,
      ConsumerEnds, Spawn, ListenFails, db, queues
<1>11. ASSUME NEW w \in Workers, NEW m \in Messages, Deliver(w, m) \/ Take(w, m)
       PROVE  [Ledger!Next]_(Ledger!ledgerVars)
  BY <1>11, LedgerStutter DEF Deliver, Take, db, queues
<1>12. ASSUME NEW g \in Garbage, PublishGarbage(g)
       PROVE  [Ledger!Next]_(Ledger!ledgerVars)
  BY <1>12, LedgerStutter DEF PublishGarbage, db
<1>. QED
  BY <1>1, <1>2, <1>3, <1>4, <1>5, <1>6, <1>7, <1>8, <1>9, <1>10, <1>11, <1>12
  DEF Next, Consume, Environment, Listen, HandleDelivery, HandleMessage, Inner,
      PoolGetFails, RejectFails

\* The workers keep the ledger's promises: a submission is settled once, done
\* only with a verdict in its row, and its row never returns to PENDING.
THEOREM KeepsLedger == Spec => LedgerSpec
<1>1. Init => Ledger!Init
  BY InitLedger
<1>2. IInv /\ [Next]_vars => [Ledger!Next]_(Ledger!ledgerVars)
  BY NextLedger
<1>. QED
  BY <1>1, <1>2, Invariance, PTL DEF Spec, LedgerSpec, Ledger!Spec
=============================================================================
