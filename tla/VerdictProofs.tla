---------------------------- MODULE VerdictProofs ----------------------------
(***************************************************************************)
(* More theorems of module Worker: what holds as long as no task panics    *)
(* (every delivery is attended to), and as long as nobody closes the pool  *)
(* under tasks that go on (every verdict is genuine; it is final if the    *)
(* submission has but one, or if no worker is stopped).  Crashes,          *)
(* restarts, signals, errors of the database and of Docker are allowed     *)
(* wherever a hypothesis does not exclude them.                            *)
(***************************************************************************)
EXTENDS WorkerProofs

-----------------------------------------------------------------------------
(* Delivery tags.                                                           *)

\* What every step leaves of w's tags, but for the steps that give or take
\* one, start w or end it.
TagQuiet(w) ==
  /\ tag'[w] = tag[w]
  /\ phase'[w] = "down" => phase[w] = "down" /\ taken'[w] = taken[w]
  /\ Consuming(w)' =>
       /\ Consuming(w)
       /\ taken'[w] = taken[w]
       /\ \A m \in unacked[w] : m \in unacked'[w] \cup dlq' \cup acked'

Settled == dlq \subseteq dlq' /\ acked \subseteq acked'

\* Such steps keep the tags' part of the invariant.
LEMMA QuietTags ==
  ASSUME NEW w \in Workers, TagOrder(w), Settled, TagQuiet(w)
  PROVE  TagOrder(w)'
<1>1. Tagged(w)' = Tagged(w)
  BY DEF TagQuiet, Tagged
<1>. QED
  BY <1>1 DEF TagQuiet, TagOrder, Settled

\* Who may have been given a tag, or lost them all.
TagStep(w) ==
  \/ \E m \in Messages : Deliver(w, m) \/ Take(w, m)
  \/ Start(w)
  \/ EndProcess(w)

\* Every other step leaves all tags in peace, and these those of the others.
LEMMA QuietSteps ==
  ASSUME Types, ProcessInv, [Next]_vars
  PROVE  /\ Settled
         /\ \A v \in Workers : TagQuiet(v) \/ TagStep(v)
<1>. DEFINE Kept == Settled /\ \A v \in Workers : TagQuiet(v) \/ TagStep(v)
<1>. USE DEF Settled, Consuming
<1>1. CASE UNCHANGED vars
  BY <1>1 DEF vars, db, queues, channel, loop, tasks, TagQuiet
<1>2. ASSUME NEW m \in Submissions, Submit(m) PROVE Kept
  BY <1>2 DEF Submit, channel, loop, tasks, TagQuiet
<1>3. ASSUME NEW g \in Garbage, PublishGarbage(g) PROVE Kept
  BY <1>3 DEF PublishGarbage, channel, loop, tasks, TagQuiet
<1>4. ASSUME NEW u \in stray, RunStray(u) PROVE Kept
  BY <1>4 DEF RunStray, queues, channel, loop, tasks, TagQuiet
<1>5. ASSUME NEW w \in Workers, NEW v \in Workers, v # w, Start(w) \/ EndProcess(w)
      PROVE  TagQuiet(v)
  BY <1>5 DEF Start, EndProcess, db, queues, tasks, Types, TagQuiet
<1>6. ASSUME NEW w \in Workers, NEW v \in Workers, v # w,
             NEW m \in Messages, Deliver(w, m) \/ Take(w, m)
      PROVE  TagQuiet(v)
  BY <1>6 DEF Deliver, Take, db, queues, channel, loop, tasks, Types, TagQuiet
<1>7. ASSUME NEW w \in Workers, TagStep(w) PROVE Kept
  <2>1. Settled
    BY <1>7 DEF TagStep, Deliver, Take, Start, EndProcess, queues
  <2>2. ASSUME NEW v \in Workers PROVE TagQuiet(v) \/ TagStep(v)
    BY <1>5, <1>6, <1>7 DEF TagStep
  <2>. QED
    BY <2>1, <2>2
<1>8. ASSUME NEW w \in Workers,
             Signal(w) \/ ChannelLost(w) \/ ConsumerEnds(w) \/ ListenFails(w) \/ Spawn(w)
      PROVE  Kept
  <2>1. Settled
    BY <1>8 DEF Signal, ChannelLost, CloseChannel, ConsumerEnds, ListenFails, Spawn, queues
  <2>2. ASSUME NEW v \in Workers PROVE TagQuiet(v)
    <3>1. CASE ChannelLost(w)
      BY <3>1 DEF ChannelLost, CloseChannel, loop, Types, TagQuiet
    <3>2. CASE Spawn(w)
      BY <3>2 DEF Spawn, channel, TagQuiet
    <3>3. CASE Signal(w) \/ ConsumerEnds(w) \/ ListenFails(w)
      <4>1. /\ UNCHANGED <<tag, unacked, chan, taken>>
            /\ phase'[v] = phase[v] \/ phase'[v] \in {"draining", "closing"}
        BY <3>3 DEF Signal, ConsumerEnds, ListenFails, channel, Types
      <4>. QED
        BY <4>1 DEF TagQuiet
    <3>. QED
      BY <1>8, <3>1, <3>2, <3>3
  <2>. QED
    BY <2>1, <2>2
<1>9. ASSUME NEW w \in Workers, RejectGarbage(w) PROVE Kept
  BY <1>9 DEF RejectGarbage, Types, TagQuiet
<1>10. ASSUME NEW w \in Workers, NEW m \in Submissions,
              Inner(w, m) \/ RunUpdate(w, m) \/ RetryUpdate(w, m) \/ Cancelled(w, m)
       PROVE  Kept
  <2>1. UNCHANGED <<queues, channel, loop>>
    BY <1>10, InnerFrame DEF InnerEffect, RunUpdate, RetryUpdate, Cancelled
  <2>. QED
    BY <2>1 DEF queues, channel, loop, TagQuiet
<1>11. ASSUME NEW w \in Workers, NEW m \in Submissions,
              Ack(w, m) \/ Nack(w, m) \/ Requeue(w, m)
       PROVE  Kept
  <2>1. CASE Refused(w, m)
    BY <1>11, <2>1 DEF Ack, Nack, Requeue, Refused, CloseChannel, loop, Types, TagQuiet
  <2>2. CASE Ack(w, m) /\ ~Refused(w, m)
    BY <2>2 DEF Ack, loop, Types, TagQuiet
  <2>3. CASE Nack(w, m) /\ ~Refused(w, m)
    BY <2>3 DEF Nack, loop, Types, TagQuiet
  <2>4. CASE Requeue(w, m) /\ ~Refused(w, m)
    <3>1. phase[w] = "closing"
      BY <2>4 DEF Requeue, ProcessInv
    <3>. QED
      BY <2>4, <3>1 DEF Requeue, loop, Types, TagQuiet
  <2>. QED
    BY <1>11, <2>1, <2>2, <2>3, <2>4
<1>. QED
  <2>. HIDE DEF Settled, Consuming
  <2>. QED
    BY <1>1, <1>2, <1>3, <1>4, <1>7, <1>8, <1>9, <1>10, <1>11
    DEF Next, Consume, Environment, Process, Listen, HandleDelivery, HandleMessage, Inner,
        Crash, Exit, PoolGetFails, RejectFails, TagStep

\* A delivery's tag counts the deliveries before it.
LEMMA NextTag ==
  ASSUME NEW w \in Workers, NEW m \in Messages, Deliver(w, m)
  PROVE  \E n \in Nat : /\ n = 1 + Cardinality(Tagged(w))
                        /\ tag' = [tag EXCEPT ![w][m] = n]
<1>. DEFINE n == 1 + Cardinality(Tagged(w))
<1>1. Cardinality(Tagged(w)) \in Nat
  BY MessagesFinite DEF Tagged
<1>2. n \in Nat
  BY <1>1
<1>3. tag' = [tag EXCEPT ![w][m] = n]
  BY DEF Deliver, Tagged
<1>. QED
  BY <1>2, <1>3

\* A delivery gets the next tag: whatever has one already is not in the queue.
LEMMA DeliverTags ==
  ASSUME Types, OnePlace, NEW w \in Workers, TagOrder(w), NEW m \in Messages, Deliver(w, m)
  PROVE  TagOrder(w)'
<1>1. Consuming(w) /\ m \in ready
  BY DEF Deliver, Consuming
<1>2. m \notin Tagged(w)
  BY <1>1 DEF TagOrder, OnePlace
<1>3. /\ IsFiniteSet(Tagged(w)) /\ Cardinality(Tagged(w)) \in Nat
  BY MessagesFinite DEF Tagged
<1>4. PICK n \in Nat : n = 1 + Cardinality(Tagged(w)) /\ tag' = [tag EXCEPT ![w][m] = n]
  BY NextTag
<1>5. Tagged(w)' = Tagged(w) \cup {m}
  <2>1. n # 0
    BY <1>3, <1>4
  <2>2. \A x \in Messages : tag'[w][x] = IF x = m THEN n ELSE tag[w][x]
    BY <1>4 DEF Types
  <2>. QED
    BY <2>1, <2>2 DEF Tagged
<1>6. Cardinality(Tagged(w))' = Cardinality(Tagged(w)) + 1
  BY <1>2, <1>3, <1>5, FS_AddElement
<1>7. /\ phase'[w] = "listening" /\ taken'[w] = taken[w] /\ taken[w] \in Nat
      /\ unacked'[w] = unacked[w] \cup {m} /\ UNCHANGED <<dlq, acked>>
  BY <1>1 DEF Deliver, loop, Types, Consuming
<1>8. \A x \in Messages : tag[w][x] \in Nat /\ tag[w][x] <= Cardinality(Tagged(w))
  BY <1>1 DEF TagOrder, Types
<1>9. taken'[w] <= Cardinality(Tagged(w))'
  BY <1>1, <1>3, <1>6, <1>7 DEF TagOrder
<1>10. \A x \in Messages : tag'[w][x] <= Cardinality(Tagged(w))'
  BY <1>3, <1>4, <1>6, <1>8 DEF Types
<1>11. \A x, y \in Tagged(w)' : tag'[w][x] = tag'[w][y] => x = y
  <2>1. SUFFICES ASSUME NEW x \in Tagged(w) \cup {m}, NEW y \in Tagged(w) \cup {m},
                        tag'[w][x] = tag'[w][y]
                 PROVE  x = y
    BY <1>5
  <2>2. x \in Messages /\ y \in Messages
    BY DEF Tagged
  <2>3. CASE x # m /\ y # m
    BY <1>1, <1>4, <2>1, <2>2, <2>3 DEF TagOrder, Types
  <2>4. CASE x = m \/ y = m
    BY <1>3, <1>4, <1>8, <2>1, <2>2, <2>4 DEF Types
  <2>. QED
    BY <2>3, <2>4
<1>12. \A x \in Tagged(w)' : x \in unacked'[w] \cup dlq' \cup acked'
  BY <1>1, <1>5, <1>7 DEF TagOrder
<1>. QED
  BY <1>7, <1>9, <1>10, <1>11, <1>12 DEF TagOrder

\* Every step keeps the order of the tags, under any fault.
LEMMA TagInvStep ==
  ASSUME Types, ProcessInv, OnePlace, TagInv, [Next]_vars
  PROVE  TagInv'
<1>. SUFFICES ASSUME NEW w \in Workers PROVE TagOrder(w)'
  BY DEF TagInv
<1>0. TagOrder(w) /\ Settled /\ (TagQuiet(w) \/ TagStep(w))
  BY QuietSteps DEF TagInv
<1>1. CASE TagQuiet(w)
  BY <1>0, <1>1, QuietTags
<1>2. ASSUME NEW m \in Messages, Deliver(w, m) PROVE TagOrder(w)'
  BY <1>0, <1>2, DeliverTags
<1>3. ASSUME NEW m \in Messages, Take(w, m) PROVE TagOrder(w)'
  <2>1. /\ UNCHANGED <<phase, chan, tag, unacked, dlq, acked>> /\ phase[w] = "listening"
        /\ taken'[w] = tag[w][m]
    BY <1>3 DEF Take, queues, channel, Types
  <2>2. Tagged(w)' = Tagged(w) /\ Consuming(w)' = Consuming(w)
    BY <2>1 DEF Tagged, Consuming
  <2>. QED
    BY <1>0, <2>1, <2>2 DEF TagOrder
<1>4. CASE Start(w)
  <2>1. /\ \A m \in Messages : tag'[w][m] = 0
        /\ taken'[w] = 0 /\ phase'[w] = "listening"
    BY <1>0, <1>4 DEF Start, ProcessInv, TagOrder, Types
  <2>2. Tagged(w)' = {}
    BY <2>1 DEF Tagged
  <2>. QED
    BY <2>1, <2>2, FS_EmptySet DEF TagOrder
<1>5. CASE EndProcess(w)
  BY <1>5 DEF EndProcess, TagOrder, Consuming, Types
<1>. QED
  BY <1>0, <1>1, <1>2, <1>3, <1>4, <1>5 DEF TagStep

-----------------------------------------------------------------------------
(* Every delivery is attended to.                                           *)

\* Outside of a panic, no step inside handle_message ends a task.
LEMMA InnerStays ==
  ASSUME Types, NEW w \in Workers, NEW m \in Submissions, Inner(w, m), ~Panic(w, m)
  PROVE  \A v \in Workers, x \in Submissions : stage[v][x] # "none" => stage'[v][x] # "none"
<1>1. \E to \in {"exec", "update", "nack", "ack"} : Move(w, m, to)
  BY DEF Inner, FetchTestcase, FetchFails, ExecTestcase, ExecKilled, ExecFails,
         ExecReturns, UpdateFails, UpdateReturns, Fail
<1>. QED
  BY <1>1 DEF Move, Types

\* Without panics, no step of a listening worker forgets a delivery.
LEMMA AttendedStep ==
  ASSUME "panic" \notin Faults, Types, ProcessInv, TagInv, NoAbandonedDelivery, [Next]_vars
  PROVE  NoAbandonedDelivery'
<1>. USE DEF NoAbandonedDelivery
<1>1. CASE UNCHANGED vars
  BY <1>1 DEF vars, db, queues, channel, loop, tasks
<1>2. ASSUME NEW m \in Submissions, Submit(m) PROVE NoAbandonedDelivery'
  BY <1>2 DEF Submit, channel, loop, tasks
<1>3. ASSUME NEW g \in Garbage, PublishGarbage(g) PROVE NoAbandonedDelivery'
  BY <1>3 DEF PublishGarbage, channel, loop, tasks
<1>4. ASSUME NEW u \in stray, RunStray(u) PROVE NoAbandonedDelivery'
  BY <1>4 DEF RunStray, queues, channel, loop, tasks
<1>5. ASSUME NEW w \in Workers, Start(w) PROVE NoAbandonedDelivery'
  BY <1>5 DEF Start, db, queues, tasks, Types, ProcessInv
<1>6. ASSUME NEW w \in Workers, EndProcess(w) PROVE NoAbandonedDelivery'
  BY <1>6 DEF EndProcess, Types
<1>7. ASSUME NEW w \in Workers, Signal(w) \/ ConsumerEnds(w) \/ ListenFails(w)
      PROVE  NoAbandonedDelivery'
  BY <1>7 DEF Signal, ConsumerEnds, ListenFails, channel, tasks, Types
<1>8. ASSUME NEW w \in Workers, ChannelLost(w) PROVE NoAbandonedDelivery'
  BY <1>8 DEF ChannelLost, CloseChannel, loop, tasks, Types
<1>9. ASSUME NEW w \in Workers, NEW m \in Messages, Deliver(w, m)
      PROVE  NoAbandonedDelivery'
  <2>1. PICK n \in Nat : /\ n = 1 + Cardinality(Tagged(w))
                         /\ tag' = [tag EXCEPT ![w][m] = n]
    BY <1>9, NextTag
  <2>2. n > taken[w]
    <3>1. Cardinality(Tagged(w)) \in Nat /\ taken[w] <= Cardinality(Tagged(w))
      BY <1>9, MessagesFinite DEF Tagged, TagInv, TagOrder, Deliver, Consuming
    <3>. QED
      BY <2>1, <3>1 DEF Types
  <2>. QED
    BY <1>9, <2>1, <2>2 DEF Deliver, loop, tasks, Types
<1>10. ASSUME NEW w \in Workers, NEW m \in Messages, Take(w, m)
       PROVE  NoAbandonedDelivery'
  <2>1. /\ UNCHANGED <<unacked, tag, chan, phase, stage>>
        /\ hand' = [hand EXCEPT ![w] = m] /\ taken' = [taken EXCEPT ![w] = @ + 1]
        /\ hand[w] = None /\ tag[w][m] = taken[w] + 1 /\ phase[w] = "listening"
    BY <1>10 DEF Take, channel, tasks
  <2>2. taken[w] \in Nat /\ taken'[w] = taken[w] + 1 /\ hand'[w] = m
    BY <2>1 DEF Types
  <2>3. ASSUME NEW x \in unacked[w]
        PROVE  tag'[w][x] > taken'[w] \/ hand'[w] = x \/ (x \in Submissions /\ stage'[w][x] # "none")
    <3>1. Consuming(w) /\ x \in Messages /\ x # None /\ tag[w][x] \in Nat
      BY <2>1, ConstantsOK DEF ProcessInv, Consuming, Types, ConstantsOK
    <3>2. CASE tag[w][x] = taken[w] + 1
      <4>1. x \in Tagged(w) /\ m \in Tagged(w)
        BY <2>2, <2>1, <3>1, <3>2 DEF Tagged
      <4>2. x = m
        BY <2>1, <3>1, <3>2, <4>1 DEF TagInv, TagOrder
      <4>. QED
        BY <2>2, <4>2
    <3>3. CASE tag[w][x] # taken[w] + 1
      <4>1. tag[w][x] > taken[w] \/ (x \in Submissions /\ stage[w][x] # "none")
        BY <2>1, <3>1 DEF NoAbandonedDelivery
      <4>2. tag'[w][x] = tag[w][x] /\ stage'[w][x] = stage[w][x]
        BY <2>1
      <4>. QED
        BY <2>2, <3>1, <3>3, <4>1, <4>2
    <3>. QED
      BY <3>2, <3>3
  <2>. QED
    BY <2>2, <2>1, <2>3 DEF Types
<1>11. ASSUME NEW w \in Workers, Spawn(w) PROVE NoAbandonedDelivery'
  BY <1>11 DEF Spawn, channel, Types
<1>12. ASSUME NEW w \in Workers, RejectGarbage(w) PROVE NoAbandonedDelivery'
  BY <1>12 DEF RejectGarbage, tasks, Types
<1>13. ASSUME NEW w \in Workers, NEW m \in Submissions, Inner(w, m)
       PROVE  NoAbandonedDelivery'
  <2>1. ~Panic(w, m)
    BY DEF Panic
  <2>. QED
    BY <1>13, <2>1, InnerFrame, InnerStays DEF InnerEffect, channel, loop
<1>14. ASSUME NEW w \in Workers, NEW m \in Submissions,
              RunUpdate(w, m) \/ RetryUpdate(w, m) \/ Cancelled(w, m)
       PROVE  NoAbandonedDelivery'
  <2>1. UNCHANGED <<unacked, tag, phase, taken, hand>>
    BY <1>14 DEF RunUpdate, RetryUpdate, Cancelled, channel, loop
  <2>2. \E to \in {"written", "update", "requeue"} : Move(w, m, to)
    BY <1>14 DEF RunUpdate, RetryUpdate, Cancelled
  <2>3. \A v \in Workers, x \in Submissions : stage[v][x] # "none" => stage'[v][x] # "none"
    BY <2>2 DEF Move, Types
  <2>. QED
    BY <2>1, <2>3
<1>15. ASSUME NEW w \in Workers, NEW m \in Submissions,
              Ack(w, m) \/ Nack(w, m) \/ Requeue(w, m)
       PROVE  NoAbandonedDelivery'
  <2>1. CASE Refused(w, m)
    BY <1>15, <2>1 DEF Ack, Nack, Requeue, Refused, CloseChannel, Move, loop, Types
  <2>2. CASE Ack(w, m) /\ ~Refused(w, m)
    BY <2>2 DEF Ack, Move, loop, Types
  <2>3. CASE Nack(w, m) /\ ~Refused(w, m)
    BY <2>3 DEF Nack, Move, loop, Types
  <2>4. CASE Requeue(w, m) /\ ~Refused(w, m)
    <3>1. phase[w] = "closing"
      BY <2>4 DEF Requeue, ProcessInv
    <3>. QED
      BY <2>4, <3>1 DEF Requeue, Move, loop, Types
  <2>. QED
    BY <1>15, <2>1, <2>2, <2>3, <2>4
<1>. QED
  <2>. HIDE DEF NoAbandonedDelivery
  <2>. QED
    BY <1>1, <1>2, <1>3, <1>4, <1>5, <1>6, <1>7, <1>8, <1>9, <1>10, <1>11, <1>12,
       <1>13, <1>14, <1>15
    DEF Next, Consume, Environment, Process, Listen, HandleDelivery, HandleMessage, Inner,
        Crash, Exit, PoolGetFails, RejectFails

\* The tags' part of the invariant holds in every reachable state, under any
\* fault.
LEMMA TagInvariance == Spec => []TagInv
<1>1. Init => TagInv
  <2>1. ASSUME Init, NEW w \in Workers PROVE TagOrder(w)
    BY <2>1 DEF Init, TagOrder, Consuming
  <2>. QED
    BY <2>1 DEF TagInv
<1>2. IInv /\ TagInv /\ [Next]_vars => TagInv'
  BY TagInvStep DEF IInv, TypeOK
<1>. QED
  BY <1>1, <1>2, Invariance, PTL DEF Spec

\* As long as no task panics, a listening worker is answerable for every
\* delivery it has not settled: it is buffered, in the loop's hand, or a task
\* is at it.
THEOREM EveryDeliveryAttended ==
  ASSUME "panic" \notin Faults
  PROVE  Spec => []NoAbandonedDelivery
<1>1. Init => NoAbandonedDelivery
  BY DEF Init, NoAbandonedDelivery
<1>2. IInv /\ TagInv /\ NoAbandonedDelivery /\ [Next]_vars => NoAbandonedDelivery'
  BY AttendedStep DEF IInv, TypeOK
<1>. QED
  BY <1>1, <1>2, Invariance, TagInvariance, PTL DEF Spec

-----------------------------------------------------------------------------
(* Verdicts, where nobody closes the pool under a task that goes on: no     *)
(* container fails to be created, and no channel is lost.                   *)

LeftInPeace == {"pool", "channel"} \cap Faults = {}

\* A worker is refused a settlement only once it has cancelled its token.
LEMMA RefusedIsClosing ==
  ASSUME ProcessInv, OwnInv, CalmInv,
         NEW w \in Workers, NEW m \in Submissions, stage[w][m] # "none", Refused(w, m)
  PROVE  phase[w] # "listening"
BY DEF ProcessInv, OwnInv, CalmInv, Refused, Detached

\* A worker that consumes keeps its channel, and only a signal ends that.
LEMMA CalmStep ==
  ASSUME LeftInPeace, Types, ProcessInv, OwnInv, CalmInv, [Next]_vars
  PROVE  CalmInv'
<1>1. CASE UNCHANGED vars
  BY <1>1 DEF vars, channel, loop, CalmInv
<1>2. ASSUME NEW m \in Submissions, Submit(m) PROVE CalmInv'
  BY <1>2 DEF Submit, channel, loop, CalmInv
<1>3. ASSUME NEW g \in Garbage, PublishGarbage(g) PROVE CalmInv'
  BY <1>3 DEF PublishGarbage, channel, loop, CalmInv
<1>4. ASSUME NEW u \in stray, RunStray(u) PROVE CalmInv'
  BY <1>4 DEF RunStray, channel, loop, CalmInv
<1>5. ASSUME NEW w \in Workers, Start(w) \/ Signal(w) \/ EndProcess(w) PROVE CalmInv'
  <2>1. CASE Start(w)
    BY <2>1 DEF Start, Types, CalmInv
  <2>2. CASE Signal(w)
    BY <2>2 DEF Signal, channel, Types, CalmInv
  <2>3. CASE EndProcess(w)
    <3>1. \A v \in Workers :
            /\ v = w => phase'[v] = "down"
            /\ v # w => phase'[v] = phase[v] /\ chan'[v] = chan[v] /\ token'[v] = token[v]
      BY <2>3 DEF EndProcess, Types
    <3>. QED
      BY <3>1 DEF CalmInv
  <2>. QED
    BY <1>5, <2>1, <2>2, <2>3
<1>6. ASSUME NEW w \in Workers,
             ChannelLost(w) \/ ConsumerEnds(w) \/ PoolGetFails(w) \/ RejectFails(w)
      PROVE  CalmInv'
  BY <1>6 DEF ChannelLost, ConsumerEnds, PoolGetFails, RejectFails, LeftInPeace, CalmInv
<1>7. ASSUME NEW w \in Workers, NEW m \in Messages, Deliver(w, m) \/ Take(w, m)
      PROVE  CalmInv'
  BY <1>7 DEF Deliver, Take, channel, loop, CalmInv
<1>8. ASSUME NEW w \in Workers, Spawn(w) \/ RejectGarbage(w) PROVE CalmInv'
  BY <1>8 DEF Spawn, RejectGarbage, channel, CalmInv
<1>9. ASSUME NEW w \in Workers, NEW m \in Submissions,
             Inner(w, m) \/ RunUpdate(w, m) \/ RetryUpdate(w, m) \/ Cancelled(w, m)
      PROVE  CalmInv'
  <2>1. UNCHANGED <<channel, loop>>
    BY <1>9, InnerFrame DEF InnerEffect, RunUpdate, RetryUpdate, Cancelled
  <2>. QED
    BY <2>1 DEF channel, loop, CalmInv
<1>10. ASSUME NEW w \in Workers, NEW m \in Submissions,
              Ack(w, m) \/ Nack(w, m) \/ Requeue(w, m)
       PROVE  CalmInv'
  <2>1. UNCHANGED loop /\ stage[w][m] # "none"
    BY <1>10 DEF Ack, Nack, Requeue
  <2>2. CASE Refused(w, m)
    <3>1. phase[w] # "listening"
      BY <2>1, <2>2, RefusedIsClosing
    <3>. QED
      BY <2>1, <2>2, <3>1 DEF Refused, CloseChannel, loop, Types, CalmInv
  <2>3. CASE ~Refused(w, m)
    BY <1>10, <2>1, <2>3 DEF Ack, Nack, Requeue, loop, CalmInv
  <2>. QED
    BY <2>2, <2>3
<1>. QED
  BY <1>1, <1>2, <1>3, <1>4, <1>5, <1>6, <1>7, <1>8, <1>9, <1>10
  DEF Next, Consume, Environment, Process, Listen, HandleDelivery, HandleMessage, Inner,
      Crash, Exit

\* What a task or a stray UPDATE may write is not touched.
VerdictQuiet ==
  /\ UNCHANGED <<status, stray, result>>
  /\ \A v \in Workers, x \in Submissions :
       stage'[v][x] \in {"update", "written"} => stage[v][x] \in {"update", "written"}

LEMMA QuietVerdicts ==
  ASSUME GenuineInv, VerdictQuiet
  PROVE  GenuineInv'
BY DEF GenuineInv, VerdictQuiet, Genuine

\* A task that moves on with a verdict it had, or without one.
LEMMA MoveGenuine ==
  ASSUME Types, GenuineInv, NEW w \in Workers, NEW m \in Submissions, NEW to,
         Move(w, m, to), UNCHANGED <<status, stray>>,
         \/ /\ UNCHANGED result
            /\ to \in {"update", "written"} => stage[w][m] \in {"update", "written"}
         \/ /\ result' = [result EXCEPT ![w][m] = None]
            /\ to \notin {"update", "written"}
         \/ \E o \in Runs[m] : result' = [result EXCEPT ![w][m] = StatusOf(o)]
  PROVE  GenuineInv'
<1>1. ASSUME NEW v \in Workers, NEW x \in Submissions,
             stage'[v][x] \in {"update", "written"}
      PROVE  result'[v][x] \in Genuine(x)
  <2>1. CASE v = w /\ x = m
    BY <1>1, <2>1 DEF Move, Types, GenuineInv, Genuine
  <2>2. CASE ~(v = w /\ x = m)
    <3>1. stage'[v][x] = stage[v][x] /\ result'[v][x] = result[v][x]
      BY <2>2 DEF Move, Types
    <3>. QED
      BY <1>1, <3>1 DEF GenuineInv
  <2>. QED
    BY <2>1, <2>2
<1>. QED
  BY <1>1 DEF GenuineInv, Genuine

\* Every verdict comes from an execution that was left in peace: a container is
\* killed only under tasks whose token is cancelled, and these write nothing.
LEMMA GenuineStep ==
  ASSUME Types, ProcessInv, CalmInv, GenuineInv, [Next]_vars
  PROVE  GenuineInv'
<1>1. CASE UNCHANGED vars
  BY <1>1, QuietVerdicts DEF vars, db, tasks, VerdictQuiet
<1>2. ASSUME NEW m \in Submissions, Submit(m) PROVE GenuineInv'
  BY <1>2 DEF Submit, tasks, Types, GenuineInv, Genuine
<1>3. ASSUME NEW g \in Garbage, PublishGarbage(g) PROVE GenuineInv'
  BY <1>3, QuietVerdicts DEF PublishGarbage, db, tasks, VerdictQuiet
<1>4. ASSUME NEW u \in stray, RunStray(u) PROVE GenuineInv'
  BY <1>4 DEF RunStray, tasks, Types, Update, GenuineInv, Genuine
<1>5. ASSUME NEW w \in Workers, EndProcess(w) PROVE GenuineInv'
  <2>1. \A u \in stray' : u.v \in Genuine(u.m)
    BY <1>5 DEF EndProcess, GenuineInv
  <2>2. \A v \in Workers, x \in Submissions : stage'[v][x] \in {"update", "written"} =>
          stage[v][x] \in {"update", "written"} /\ result'[v][x] = result[v][x]
    BY <1>5 DEF EndProcess, Types
  <2>. QED
    BY <1>5, <2>1, <2>2 DEF EndProcess, GenuineInv, Genuine
<1>6. ASSUME NEW w \in Workers,
             Start(w) \/ Signal(w) \/ ChannelLost(w) \/ ConsumerEnds(w) \/ ListenFails(w)
               \/ RejectGarbage(w)
      PROVE  GenuineInv'
  BY <1>6, QuietVerdicts
  DEF Start, Signal, ChannelLost, ConsumerEnds, ListenFails, RejectGarbage, db, tasks,
      VerdictQuiet
<1>7. ASSUME NEW w \in Workers, NEW m \in Messages, Deliver(w, m) \/ Take(w, m)
      PROVE  GenuineInv'
  BY <1>7, QuietVerdicts DEF Deliver, Take, db, tasks, VerdictQuiet
<1>8. ASSUME NEW w \in Workers, Spawn(w) PROVE GenuineInv'
  BY <1>8, QuietVerdicts DEF Spawn, db, Types, VerdictQuiet
<1>9. ASSUME NEW w \in Workers, NEW m \in Submissions,
             FetchTestcase(w, m) \/ FetchFails(w, m) \/ ExecFails(w, m) \/ Panic(w, m)
               \/ UpdateFails(w, m) \/ UpdateReturns(w, m)
      PROVE  GenuineInv'
  <2>1. UNCHANGED <<status, stray>>
    BY <1>9 DEF FetchTestcase, FetchFails, ExecFails, Panic, UpdateFails, UpdateReturns, db
  <2>2. PICK to \in {"exec", "nack", "none", "ack"} :
          Move(w, m, to) /\ (UNCHANGED result \/ result' = [result EXCEPT ![w][m] = None])
    BY <1>9 DEF FetchTestcase, FetchFails, ExecFails, Panic, UpdateFails, UpdateReturns, Fail
  <2>. QED
    BY <2>1, <2>2, MoveGenuine
<1>10. ASSUME NEW w \in Workers, NEW m \in Submissions, ExecTestcase(w, m)
       PROVE  GenuineInv'
  BY <1>10, MoveGenuine DEF ExecTestcase, ExecReturns, db
<1>11. ASSUME NEW w \in Workers, NEW m \in Submissions
       PROVE  ~ExecKilled(w, m)
  BY DEF ExecKilled, ExecReturns, CalmInv
<1>12. ASSUME NEW w \in Workers, NEW m \in Submissions, RunUpdate(w, m)
       PROVE  GenuineInv'
  <2>1. ASSUME NEW v \in Workers, NEW x \in Submissions,
               stage'[v][x] \in {"update", "written"}
        PROVE  stage[v][x] \in {"update", "written"}
    BY <1>12, <2>1 DEF RunUpdate, Move, Types
  <2>2. result[w][m] \in Genuine(m)
    BY <1>12 DEF RunUpdate, GenuineInv
  <2>. QED
    BY <1>12, <2>1, <2>2 DEF RunUpdate, Types, GenuineInv, Genuine
<1>13. ASSUME NEW w \in Workers, NEW m \in Submissions, RetryUpdate(w, m)
       PROVE  GenuineInv'
  <2>1. ASSUME NEW v \in Workers, NEW x \in Submissions,
               stage'[v][x] \in {"update", "written"}
        PROVE  stage[v][x] \in {"update", "written"}
    BY <1>13, <2>1 DEF RetryUpdate, Move, Types
  <2>2. \A u \in stray' : u.v \in Genuine(u.m)
    BY <1>13 DEF RetryUpdate, GenuineInv
  <2>. QED
    BY <1>13, <2>1, <2>2 DEF RetryUpdate, GenuineInv, Genuine
<1>14. ASSUME NEW w \in Workers, NEW m \in Submissions, Cancelled(w, m)
       PROVE  GenuineInv'
  <2>1. ASSUME NEW v \in Workers, NEW x \in Submissions,
               stage'[v][x] \in {"update", "written"}
        PROVE  stage[v][x] \in {"update", "written"} /\ result'[v][x] = result[v][x]
    BY <1>14, <2>1 DEF Cancelled, Move, Types
  <2>2. \A u \in stray' : u.v \in Genuine(u.m)
    BY <1>14 DEF Cancelled, LeftBehind, GenuineInv
  <2>. QED
    BY <1>14, <2>1, <2>2 DEF Cancelled, GenuineInv, Genuine
<1>15. ASSUME NEW w \in Workers, NEW m \in Submissions,
              Ack(w, m) \/ Nack(w, m) \/ Requeue(w, m)
       PROVE  GenuineInv'
  <2>1. UNCHANGED <<status, stray, result>> /\ Move(w, m, "none")
    BY <1>15 DEF Ack, Nack, Requeue, db
  <2>. QED
    BY <2>1, MoveGenuine
<1>. QED
  BY <1>1, <1>2, <1>3, <1>4, <1>5, <1>6, <1>7, <1>8, <1>9, <1>10, <1>11, <1>12,
     <1>13, <1>14, <1>15
  DEF Next, Consume, Environment, Process, Listen, HandleDelivery, HandleMessage,
      Crash, Exit, PoolGetFails, RejectFails

\* The whole strengthening holds in every reachable state.
THEOREM SettleInvariance ==
  ASSUME LeftInPeace
  PROVE  Spec => []SettleInv
<1>1. Init => CalmInv /\ GenuineInv
  BY DEF Init, CalmInv, GenuineInv, Genuine
<1>2. IInv /\ CalmInv /\ GenuineInv /\ [Next]_vars => CalmInv' /\ GenuineInv'
  BY CalmStep, GenuineStep DEF IInv, TypeOK
<1>3. TagInv /\ CalmInv /\ GenuineInv <=> SettleInv
  BY DEF SettleInv
<1>. QED
  BY <1>1, <1>2, <1>3, Invariance, TagInvariance, PTL DEF Spec

\* Killing, stopping and restarting workers, retrying UPDATEs and failing
\* executions make no verdict up: what a row says is what some undisturbed
\* execution of the submission gives.
THEOREM GenuineVerdicts ==
  ASSUME LeftInPeace
  PROVE  Spec => []VerdictIsGenuine
<1>1. SettleInv => VerdictIsGenuine
  BY DEF SettleInv, GenuineInv, Genuine, VerdictIsGenuine
<1>. QED
  BY <1>1, SettleInvariance, PTL

\* Every execution of a submission gives the same verdict.
OneVerdict == \A m \in Submissions : \A v, x \in Genuine(m) : v = x

\* A verdict is not replaced by something that is none: this is the ledger's
\* Record.
LEMMA VerdictStays ==
  ASSUME IInv, [Next]_vars, NEW m \in Submissions, status[m] \in ExecStatus
  PROVE  status'[m] \in ExecStatus
<1>1. [Ledger!Next]_(Ledger!ledgerVars) /\ status \in [Submissions -> Row]
  BY NextLedger DEF IInv, TypeOK, Types
<1>2. FateOf(m) # "absent"
  BY DEF FateOf, ExecStatus
<1>3. CASE UNCHANGED Ledger!ledgerVars
  BY <1>3 DEF Ledger!ledgerVars
<1>4. ASSUME NEW x \in Submissions, Ledger!TakeIn(x) PROVE status'[m] \in ExecStatus
  <2>1. x # m
    BY <1>2, <1>4 DEF Ledger!TakeIn
  <2>. QED
    BY <1>1, <1>4, <2>1 DEF Ledger!TakeIn
<1>5. ASSUME NEW x \in Submissions, NEW v \in ExecStatus, Ledger!Record(x, v)
      PROVE  status'[m] \in ExecStatus
  BY <1>1, <1>5 DEF Ledger!Record
<1>6. ASSUME NEW x \in Submissions, Ledger!Complete(x) \/ Ledger!Park(x)
      PROVE  status'[m] \in ExecStatus
  BY <1>6 DEF Ledger!Complete, Ledger!Park
<1>. QED
  BY <1>1, <1>3, <1>4, <1>5, <1>6 DEF Ledger!Next, Ledger!ExecStatus, ExecStatus

-----------------------------------------------------------------------------
(* A verdict is final, too, where the executions of a submission differ, if *)
(* no worker is ever stopped: a submission is then executed only once.      *)

NeverStopped == \A w \in Workers : MaxStarts[w] <= 1

\* The broker takes a settlement: the delivery leaves w's channel for good.
Settle(w, m) ==
  /\ stage[w][m] # "none" /\ Move(w, m, "none")
  /\ unacked' = [unacked EXCEPT ![w] = @ \ {m}]
  /\ UNCHANGED <<db, ready, tag, chan, starts, loop, result>>

\* The steps that are left where no worker is stopped.
UpStep ==
  \/ UNCHANGED vars
  \/ \E m \in Submissions : Submit(m)
  \/ \E g \in Garbage : PublishGarbage(g)
  \/ \E u \in stray : RunStray(u)
  \/ \E w \in Workers :
       \/ Start(w) \/ Spawn(w) \/ RejectGarbage(w)
       \/ \E m \in Messages : Deliver(w, m) \/ Take(w, m)
       \/ \E m \in Submissions :
            (Inner(w, m) /\ ~ExecKilled(w, m)) \/ RunUpdate(w, m) \/ RetryUpdate(w, m)
              \/ Settle(w, m)

\* A worker that has something to do is in its loop, with its channel open and
\* its token not cancelled.
LEMMA AtWork ==
  ASSUME Types, ProcessInv, OwnInv, CalmInv, UpInv, NEW w \in Workers
  PROVE  /\ phase[w] \in {"down", "listening"} /\ ~token[w]
         /\ \A m \in Submissions : stage[w][m] # "none" \/ Waiting(w, m) =>
              phase[w] = "listening" /\ m \in unacked[w]
<1>1. phase[w] \in {"down", "listening"} /\ ~token[w]
  BY DEF UpInv, ProcessInv
<1>2. ASSUME NEW m \in Submissions, stage[w][m] # "none" \/ Waiting(w, m)
      PROVE  phase[w] = "listening" /\ m \in unacked[w]
  <2>1. m \in Messages /\ m # None
    BY ConstantsOK DEF Messages, ConstantsOK
  <2>2. CASE phase[w] = "down"
    <3>1. tag[w][m] = 0 /\ hand[w] = None /\ stage[w][m] = "none" /\ taken[w] \in Nat
      BY <2>1, <2>2 DEF ProcessInv, Types
    <3>. QED
      BY <1>2, <2>1, <3>1 DEF Waiting
  <2>3. CASE phase[w] = "listening"
    <3>1. ~Detached(w)
      BY <1>1, <2>3 DEF CalmInv, Detached
    <3>. QED
      BY <1>2, <2>1, <2>3, <3>1 DEF OwnInv, Waiting
  <2>. QED
    BY <1>1, <2>2, <2>3
<1>. QED
  BY <1>1, <1>2

\* A task is alone with its submission, and has it off the queue.
LEMMA OneTask ==
  ASSUME Types, ProcessInv, OrderInv, OnePlace, OwnInv, CalmInv, UpInv,
         NEW w \in Workers, NEW m \in Submissions, stage[w][m] # "none"
  PROVE  /\ m \notin ready
         /\ \A v \in Workers \ {w} : stage[v][m] = "none" /\ ~Waiting(v, m)
         /\ stage[w][m] \notin {"fetch", "exec"} => ~Waiting(w, m)
<1>1. m \in unacked[w]
  BY AtWork
<1>2. \A v \in Workers \ {w} : m \notin unacked[v]
  BY <1>1 DEF OnePlace
<1>3. ASSUME NEW v \in Workers \ {w} PROVE stage[v][m] = "none" /\ ~Waiting(v, m)
  BY <1>2, AtWork
<1>4. tag[w][m] <= taken[w] /\ hand[w] # m
  BY DEF OrderInv
<1>5. tag[w][m] \in Nat /\ taken[w] \in Nat
  BY DEF Types, Messages
<1>. QED
  BY <1>1, <1>3, <1>4, <1>5 DEF OnePlace, Waiting

\* Nobody is stopped, so no token is cancelled, no channel closed, and no
\* settlement refused.
LEMMA UpSteps ==
  ASSUME LeftInPeace, NeverStopped, Types, ProcessInv, OwnInv, CalmInv, UpInv, [Next]_vars
  PROVE  UpStep
<1>1. ASSUME NEW w \in Workers PROVE ~(Signal(w) \/ Crash(w) \/ Exit(w))
  <2>1. phase[w] = "down" \/ phase[w] = "listening"
    BY AtWork
  <2>2. Mortal(w) => starts[w] = 0
    <3>1. starts[w] \in Nat /\ starts[w] <= MaxStarts[w] /\ MaxStarts[w] \in Nat
      BY ConstantsOK DEF Types, ConstantsOK
    <3>. QED
      BY <3>1 DEF Mortal, NeverStopped
  <2>3. Mortal(w) => phase[w] = "down"
    BY <2>2 DEF UpInv
  <2>. QED
    BY <2>1, <2>3 DEF Signal, Crash, Exit
<1>2. ASSUME NEW w \in Workers
      PROVE  ~(ChannelLost(w) \/ ConsumerEnds(w) \/ PoolGetFails(w) \/ RejectFails(w))
  BY DEF ChannelLost, ConsumerEnds, PoolGetFails, RejectFails, LeftInPeace, CalmInv
<1>3. ASSUME NEW w \in Workers, NEW m \in Submissions
      PROVE  ~(ExecKilled(w, m) \/ Cancelled(w, m) \/ Requeue(w, m))
  BY AtWork DEF ExecKilled, Cancelled, Requeue, ProcessInv
<1>4. ASSUME NEW w \in Workers, NEW m \in Submissions, Ack(w, m) \/ Nack(w, m)
      PROVE  Settle(w, m)
  <2>1. stage[w][m] # "none"
    BY <1>4 DEF Ack, Nack
  <2>2. ~Refused(w, m)
    BY <2>1, AtWork DEF Refused
  <2>. QED
    BY <1>4, <2>1, <2>2 DEF Ack, Nack, Settle
<1>. QED
  BY <1>1, <1>2, <1>3, <1>4
  DEF Next, Consume, Environment, Process, Listen, HandleDelivery, HandleMessage, Inner, UpStep

\* Only a start changes the phase of a process.
LEMMA UpStays ==
  ASSUME Types, UpInv, UpStep
  PROVE  UpInv'
<1>1. CASE UNCHANGED vars
  BY <1>1 DEF vars, loop, UpInv
<1>2. ASSUME NEW w \in Workers, Start(w) PROVE UpInv'
  <2>1. starts[w] + 1 # 0
    BY DEF Types
  <2>. QED
    BY <1>2, <2>1 DEF Start, Types, UpInv
<1>3. ASSUME ~(\E w \in Workers : Start(w)), ~UNCHANGED vars PROVE UNCHANGED <<phase, starts>>
  BY <1>3, InnerFrame
  DEF UpStep, Submit, PublishGarbage, RunStray, Spawn, RejectGarbage, Deliver, Take,
      InnerEffect, RunUpdate, RetryUpdate, Settle, loop
<1>. QED
  BY <1>1, <1>2, <1>3 DEF UpInv

\* Nothing comes to wait that did not, and no verdict is sent.
NewsQuiet ==
  /\ UNCHANGED <<status, stray>>
  /\ \A m \in Submissions : \A w \in Workers :
       Waiting(w, m)' => Waiting(w, m) \/ m \in ready
  /\ ready' \cap Submissions \subseteq ready

LEMMA QuietNews ==
  ASSUME NewsInv, NewsQuiet
  PROVE  NewsInv'
BY DEF NewsInv, NewsQuiet, Unheard

\* A submission is executed before there is a verdict for it, and never after.
LEMMA NewsStays ==
  ASSUME Types, ProcessInv, AbsentInv, OrderInv, OnePlace, OwnInv, CalmInv, UpInv, NewsInv,
         UpStep
  PROVE  NewsInv'
<1>1. CASE UNCHANGED vars
  BY <1>1, QuietNews DEF vars, db, queues, channel, loop, tasks, NewsQuiet, Waiting
<1>2. ASSUME NEW m \in Submissions, Submit(m) PROVE NewsInv'
  <2>1. \A x \in Submissions, w \in Workers : Waiting(w, x)' = Waiting(w, x)
    BY <1>2 DEF Submit, channel, loop, tasks, Waiting
  <2>2. \A u \in stray : u.m # m
    BY <1>2 DEF Submit, AbsentInv
  <2>3. Unheard(m)'
    BY <1>2, <2>2 DEF Submit, Types, Unheard, ExecStatus
  <2>. QED
    BY <1>2, <2>1, <2>3 DEF Submit, Types, NewsInv, Unheard
<1>3. ASSUME NEW g \in Garbage, PublishGarbage(g) PROVE NewsInv'
  BY <1>3, QuietNews, ConstantsOK
  DEF PublishGarbage, db, channel, loop, tasks, NewsQuiet, Waiting, ConstantsOK
<1>4. ASSUME NEW u \in stray, RunStray(u) PROVE NewsInv'
  <2>1. \A x \in Submissions, w \in Workers : Waiting(w, x)' = Waiting(w, x)
    BY <1>4 DEF RunStray, channel, loop, tasks, Waiting
  <2>2. ready' = ready /\ stray' \subseteq stray
    BY <1>4 DEF RunStray, queues
  <2>3. \A x \in Submissions : x # u.m => status'[x] = status[x]
    BY <1>4 DEF RunStray, Types
  <2>. QED
    BY <2>1, <2>2, <2>3 DEF NewsInv, Unheard
<1>5. ASSUME NEW w \in Workers, Start(w) PROVE NewsInv'
  BY <1>5, QuietNews DEF Start, db, queues, tasks, NewsQuiet, Waiting
<1>6. ASSUME NEW w \in Workers, Spawn(w) PROVE NewsInv'
  <2>1. UNCHANGED <<status, stray, ready, tag, taken>>
    BY <1>6 DEF Spawn, db, queues, channel
  <2>2. \A x \in Submissions, v \in Workers : Waiting(v, x)' => Waiting(v, x)
    BY <1>6, ConstantsOK DEF Spawn, channel, Types, Waiting, ConstantsOK, Messages
  <2>. QED
    BY <2>1, <2>2, QuietNews DEF NewsQuiet
<1>7. ASSUME NEW w \in Workers, RejectGarbage(w) PROVE NewsInv'
  <2>1. \A x \in Submissions, v \in Workers : Waiting(v, x)' => Waiting(v, x)
    BY <1>7, ConstantsOK DEF RejectGarbage, tasks, Types, Waiting, ConstantsOK, Messages
  <2>. QED
    BY <1>7, <2>1, QuietNews DEF RejectGarbage, db, NewsQuiet
<1>8. ASSUME NEW w \in Workers, NEW m \in Messages, Deliver(w, m) PROVE NewsInv'
  <2>1. PICK n \in Nat : tag' = [tag EXCEPT ![w][m] = n]
    BY <1>8, NextTag
  <2>2. m \in ready /\ ready' \subseteq ready /\ UNCHANGED <<db, loop, tasks>>
    BY <1>8 DEF Deliver
  <2>3. \A x \in Submissions, v \in Workers : Waiting(v, x)' => Waiting(v, x) \/ x \in ready
    BY <2>1, <2>2 DEF loop, tasks, Types, Waiting
  <2>. QED
    BY <2>2, <2>3, QuietNews DEF db, NewsQuiet
<1>9. ASSUME NEW w \in Workers, NEW m \in Messages, Take(w, m) PROVE NewsInv'
  <2>1. \A x \in Submissions, v \in Workers : Waiting(v, x)' => Waiting(v, x)
    BY <1>9 DEF Take, channel, tasks, Types, Waiting, Messages
  <2>. QED
    BY <1>9, <2>1, QuietNews DEF Take, db, queues, NewsQuiet
<1>10. ASSUME NEW w \in Workers, NEW m \in Submissions, Inner(w, m) PROVE NewsInv'
  <2>1. UNCHANGED <<status, stray, ready, tag, taken, hand>>
    BY <1>10, InnerFrame DEF InnerEffect, db, queues, channel, loop
  <2>2. PICK to \in {"exec", "update", "nack", "ack", "none"} :
          Move(w, m, to) /\ (to = "exec" => stage[w][m] = "fetch")
    BY <1>10 DEF Inner, FetchTestcase, FetchFails, ExecTestcase, ExecKilled, ExecFails,
                 ExecReturns, Panic, UpdateFails, UpdateReturns, Fail
  <2>3. \A x \in Submissions, v \in Workers : Waiting(v, x)' => Waiting(v, x)
    BY <2>1, <2>2 DEF Move, Types, Waiting
  <2>. QED
    BY <2>1, <2>3, QuietNews DEF NewsQuiet
<1>11. ASSUME NEW w \in Workers, NEW m \in Submissions, RunUpdate(w, m) \/ RetryUpdate(w, m)
       PROVE  NewsInv'
  <2>1. /\ UNCHANGED <<ready, tag, taken, hand>>
        /\ stage[w][m] \in {"update", "written"}
    BY <1>11 DEF RunUpdate, RetryUpdate, queues, channel, loop
  <2>2. PICK to \in {"update", "written"} : Move(w, m, to)
    BY <1>11 DEF RunUpdate, RetryUpdate
  <2>3. \A x \in Submissions, v \in Workers : Waiting(v, x)' => Waiting(v, x)
    BY <2>1, <2>2 DEF Move, Types, Waiting
  <2>4. m \notin ready /\ \A v \in Workers : ~Waiting(v, m)
    BY <2>1, OneTask
  <2>5. /\ \A x \in Submissions : x # m => status'[x] = status[x]
        /\ \A u \in stray' : u.m # m => u \in stray
    BY <1>11 DEF RunUpdate, RetryUpdate, Types
  <2>. QED
    BY <2>1, <2>3, <2>4, <2>5 DEF NewsInv, Unheard
<1>12. ASSUME NEW w \in Workers, NEW m \in Submissions, Settle(w, m) PROVE NewsInv'
  <2>1. \A x \in Submissions, v \in Workers : Waiting(v, x)' => Waiting(v, x)
    BY <1>12 DEF Settle, Move, loop, Types, Waiting
  <2>. QED
    BY <1>12, <2>1, QuietNews DEF Settle, db, NewsQuiet
<1>. QED
  BY <1>1, <1>2, <1>3, <1>4, <1>5, <1>6, <1>7, <1>8, <1>9, <1>10, <1>11, <1>12 DEF UpStep

\* Nobody gets a verdict to write, and no verdict is sent or written.
AgreeQuiet ==
  /\ UNCHANGED <<status, stray>>
  /\ \A v \in Workers, x \in Submissions : stage'[v][x] \in {"update", "written"} =>
       stage[v][x] \in {"update", "written"} /\ result'[v][x] = result[v][x]

LEMMA QuietAgree ==
  ASSUME AgreeInv, AgreeQuiet
  PROVE  AgreeInv'
BY DEF AgreeInv, AgreeQuiet

\* Row, task and UPDATEs under way agree on the verdict: there was but one
\* execution.
LEMMA AgreeStays ==
  ASSUME Types, ProcessInv, OrderInv, OnePlace, OwnInv, CalmInv, UpInv, NewsInv, AgreeInv,
         UpStep
  PROVE  AgreeInv'
<1>1. CASE UNCHANGED vars
  BY <1>1, QuietAgree DEF vars, db, tasks, AgreeQuiet
<1>2. ASSUME NEW m \in Submissions, Submit(m) PROVE AgreeInv'
  <2>1. /\ UNCHANGED <<stray, stage, result>>
        /\ \A x \in Submissions : status'[x] \in ExecStatus => status'[x] = status[x]
    BY <1>2 DEF Submit, tasks, Types, ExecStatus
  <2>2. \A u \in stray : u.m \in Submissions
    BY DEF Types, Update
  <2>. QED
    BY <2>1, <2>2 DEF AgreeInv
<1>3. ASSUME NEW g \in Garbage, PublishGarbage(g) PROVE AgreeInv'
  BY <1>3, QuietAgree DEF PublishGarbage, db, tasks, AgreeQuiet
<1>4. ASSUME NEW u \in stray, RunStray(u) PROVE AgreeInv'
  <2>1. /\ UNCHANGED <<stage, result>> /\ stray' \subseteq stray
        /\ \A x \in Submissions : status'[x] = IF x = u.m THEN u.v ELSE status[x]
    BY <1>4 DEF RunStray, tasks, Types
  <2>2. \A x \in stray : x.m \in Submissions
    BY DEF Types, Update
  <2>3. \A x \in stray : x.m = u.m => x.v = u.v
    BY DEF AgreeInv
  <2>4. \A x \in stray' : /\ status'[x.m] \in ExecStatus => status'[x.m] = x.v
                          /\ \A y \in stray' : y.m = x.m => y.v = x.v
    BY <2>1, <2>2, <2>3 DEF AgreeInv
  <2>5. ASSUME NEW x \in Submissions, NEW w \in Workers, stage'[w][x] \in {"update", "written"}
        PROVE  /\ status'[x] \in ExecStatus => status'[x] = result'[w][x]
               /\ \A y \in stray' : y.m = x => y.v = result'[w][x]
    BY <2>1, <2>5 DEF AgreeInv
  <2>. QED
    BY <2>4, <2>5 DEF AgreeInv
<1>5. ASSUME NEW w \in Workers, Start(w) \/ Spawn(w) \/ RejectGarbage(w) PROVE AgreeInv'
  BY <1>5, QuietAgree DEF Start, Spawn, RejectGarbage, db, tasks, Types, AgreeQuiet
<1>6. ASSUME NEW w \in Workers, NEW m \in Messages, Deliver(w, m) \/ Take(w, m)
      PROVE  AgreeInv'
  BY <1>6, QuietAgree DEF Deliver, Take, db, tasks, AgreeQuiet
<1>7. ASSUME NEW w \in Workers, NEW m \in Submissions, Settle(w, m) PROVE AgreeInv'
  BY <1>7, QuietAgree DEF Settle, Move, db, Types, AgreeQuiet
<1>8. ASSUME NEW w \in Workers, NEW m \in Submissions,
             FetchTestcase(w, m) \/ FetchFails(w, m) \/ ExecFails(w, m) \/ Panic(w, m)
               \/ UpdateFails(w, m) \/ UpdateReturns(w, m)
      PROVE  AgreeInv'
  <2>1. UNCHANGED <<status, stray>>
    BY <1>8 DEF FetchTestcase, FetchFails, ExecFails, Panic, UpdateFails, UpdateReturns, db
  <2>2. PICK to \in {"exec", "nack", "none", "ack"} :
          Move(w, m, to) /\ (UNCHANGED result \/ result' = [result EXCEPT ![w][m] = None])
    BY <1>8 DEF FetchTestcase, FetchFails, ExecFails, Panic, UpdateFails, UpdateReturns, Fail
  <2>3. AgreeQuiet
    BY <2>1, <2>2 DEF Move, Types, AgreeQuiet
  <2>. QED
    BY <2>3, QuietAgree
<1>9. ASSUME NEW w \in Workers, NEW m \in Submissions, ExecTestcase(w, m) PROVE AgreeInv'
  <2>1. PICK o : /\ stage[w][m] = "exec" /\ Move(w, m, "update") /\ UNCHANGED <<status, stray>>
                 /\ result' = [result EXCEPT ![w][m] = o]
    BY <1>9 DEF ExecTestcase, ExecReturns, db
  <2>2. Unheard(m)
    BY <2>1 DEF NewsInv, Waiting
  <2>3. ASSUME NEW v \in Workers, NEW x \in Submissions, stage'[v][x] \in {"update", "written"}
        PROVE  \/ v = w /\ x = m
               \/ stage[v][x] \in {"update", "written"} /\ result'[v][x] = result[v][x]
    BY <2>1, <2>3 DEF Move, Types
  <2>. QED
    BY <2>1, <2>2, <2>3 DEF AgreeInv, Unheard
<1>10. ASSUME NEW w \in Workers, NEW m \in Submissions, RunUpdate(w, m) PROVE AgreeInv'
  <2>1. /\ stage[w][m] = "update" /\ Move(w, m, "written") /\ UNCHANGED <<stray, result>>
        /\ \A x \in Submissions : status'[x] = IF x = m THEN result[w][m] ELSE status[x]
    BY <1>10 DEF RunUpdate, Types
  <2>2. \A x \in stray : x.m \in Submissions
    BY DEF Types, Update
  <2>3. \A x \in stray : x.m = m => x.v = result[w][m]
    BY <2>1 DEF AgreeInv
  <2>4. \A v \in Workers : v # w => stage[v][m] = "none"
    BY <2>1, OneTask
  <2>5. ASSUME NEW x \in Submissions, NEW v \in Workers, stage'[v][x] \in {"update", "written"}
        PROVE  stage[v][x] \in {"update", "written"} /\ (x = m => v = w)
    BY <2>1, <2>4, <2>5 DEF Move, Types
  <2>6. \A x \in stray' : /\ status'[x.m] \in ExecStatus => status'[x.m] = x.v
                          /\ \A y \in stray' : y.m = x.m => y.v = x.v
    BY <2>1, <2>2, <2>3 DEF AgreeInv
  <2>7. ASSUME NEW x \in Submissions, NEW v \in Workers, stage'[v][x] \in {"update", "written"}
        PROVE  /\ status'[x] \in ExecStatus => status'[x] = result'[v][x]
               /\ \A y \in stray' : y.m = x => y.v = result'[v][x]
    BY <2>1, <2>5, <2>7 DEF AgreeInv
  <2>. QED
    BY <2>6, <2>7 DEF AgreeInv
<1>11. ASSUME NEW w \in Workers, NEW m \in Submissions, RetryUpdate(w, m) PROVE AgreeInv'
  <2>1. /\ stage[w][m] \in {"update", "written"} /\ Move(w, m, "update")
        /\ UNCHANGED <<status, result>>
        /\ \A u \in stray' : u \in stray \/ (u.m = m /\ u.v = result[w][m])
    BY <1>11 DEF RetryUpdate
  <2>2. /\ status[m] \in ExecStatus => status[m] = result[w][m]
        /\ \A u \in stray : u.m = m => u.v = result[w][m]
    BY <2>1 DEF AgreeInv
  <2>3. \A v \in Workers : v # w => stage[v][m] = "none"
    BY <2>1, OneTask
  <2>4. ASSUME NEW x \in Submissions, NEW v \in Workers, stage'[v][x] \in {"update", "written"}
        PROVE  stage[v][x] \in {"update", "written"} /\ (x = m => v = w)
    BY <2>1, <2>3, <2>4 DEF Move, Types
  <2>5. \A x \in stray' : /\ status'[x.m] \in ExecStatus => status'[x.m] = x.v
                          /\ \A y \in stray' : y.m = x.m => y.v = x.v
    BY <2>1, <2>2 DEF AgreeInv
  <2>6. ASSUME NEW x \in Submissions, NEW v \in Workers, stage'[v][x] \in {"update", "written"}
        PROVE  /\ status'[x] \in ExecStatus => status'[x] = result'[v][x]
               /\ \A y \in stray' : y.m = x => y.v = result'[v][x]
    BY <2>1, <2>2, <2>4, <2>6 DEF AgreeInv
  <2>. QED
    BY <2>5, <2>6 DEF AgreeInv
<1>. QED
  BY <1>1, <1>2, <1>3, <1>4, <1>5, <1>6, <1>7, <1>8, <1>9, <1>10, <1>11 DEF UpStep, Inner

\* Workers that stay up execute a submission once, and all writes of its
\* verdict agree.
THEOREM StayInvariance ==
  ASSUME LeftInPeace, NeverStopped
  PROVE  Spec => []StayInv
<1>1. Init => StayInv
  <2>. SUFFICES ASSUME Init PROVE StayInv
    OBVIOUS
  <2>1. \A m \in Submissions, w \in Workers : ~Waiting(w, m)
    BY ConstantsOK DEF Init, Waiting, Messages, ConstantsOK
  <2>. QED
    BY <2>1 DEF Init, StayInv, UpInv, NewsInv, AgreeInv, Unheard
<1>2. IInv /\ SettleInv /\ StayInv /\ [Next]_vars => StayInv'
  <2>. SUFFICES ASSUME IInv, SettleInv, StayInv, [Next]_vars PROVE StayInv'
    OBVIOUS
  <2>1. /\ Types /\ ProcessInv /\ AbsentInv /\ OrderInv /\ OnePlace /\ OwnInv /\ CalmInv
        /\ UpInv /\ NewsInv /\ AgreeInv
    BY DEF IInv, TypeOK, SettleInv, StayInv
  <2>2. UpStep
    BY <2>1, UpSteps
  <2>. QED
    BY <2>1, <2>2, UpStays, NewsStays, AgreeStays DEF StayInv
<1>. QED
  BY <1>1, <1>2, Invariance, SettleInvariance, PTL DEF Spec

\* What is written to a row that has a verdict is that verdict.
LEMMA AgreedVerdict ==
  ASSUME Types, AgreeInv, UpStep, NEW m \in Submissions, status[m] \in ExecStatus
  PROVE  status'[m] = status[m]
<1>1. ASSUME NEW x \in Submissions, Submit(x) PROVE status'[m] = status[m]
  BY <1>1 DEF Submit, Types, ExecStatus
<1>2. ASSUME NEW u \in stray, RunStray(u) PROVE status'[m] = status[m]
  BY <1>2 DEF RunStray, Types, AgreeInv
<1>3. ASSUME NEW w \in Workers, NEW x \in Submissions, RunUpdate(w, x)
      PROVE  status'[m] = status[m]
  BY <1>3 DEF RunUpdate, Types, AgreeInv
<1>4. ASSUME NEW w \in Workers, NEW x \in Submissions, Inner(w, x) \/ Settle(w, x) \/ RetryUpdate(w, x)
      PROVE  status' = status
  BY <1>4, InnerFrame DEF InnerEffect, Settle, RetryUpdate, db
<1>5. ASSUME NEW w \in Workers, NEW x \in Messages, Deliver(w, x) \/ Take(w, x)
      PROVE  status' = status
  BY <1>5 DEF Deliver, Take, db
<1>6. ASSUME NEW w \in Workers, Start(w) \/ Spawn(w) \/ RejectGarbage(w)
      PROVE  status' = status
  BY <1>6 DEF Start, Spawn, RejectGarbage, db
<1>7. ASSUME NEW g \in Garbage, PublishGarbage(g) PROVE status' = status
  BY <1>7 DEF PublishGarbage, db
<1>8. CASE UNCHANGED vars
  BY <1>8 DEF vars, db
<1>. QED
  BY <1>1, <1>2, <1>3, <1>4, <1>5, <1>6, <1>7, <1>8 DEF UpStep

\* A submission that has one verdict keeps it: it may be delivered, executed
\* and written again, by a task of another worker, by a retry or by an UPDATE
\* whose sender is gone, but never differently.  So does every submission as
\* long as no worker is stopped, however often its UPDATE is retried.
THEOREM FinalVerdicts ==
  ASSUME LeftInPeace, OneVerdict \/ NeverStopped
  PROVE  Spec => VerdictFinal
<1>1. ASSUME OneVerdict
      PROVE  IInv /\ SettleInv /\ SettleInv' /\ [Next]_vars =>
               [\A m \in Submissions : status[m] \in ExecStatus => status'[m] = status[m]]_vars
  <2>. SUFFICES ASSUME IInv, SettleInv, SettleInv', [Next]_vars,
                       NEW m \in Submissions, status[m] \in ExecStatus
                PROVE  status'[m] = status[m]
    OBVIOUS
  <2>1. status'[m] \in ExecStatus
    BY VerdictStays
  <2>2. status[m] \in Genuine(m)
    BY DEF SettleInv, GenuineInv, ExecStatus
  <2>3. status'[m] \in Genuine(m)
    BY <2>1 DEF SettleInv, GenuineInv, ExecStatus, Genuine
  <2>. QED
    BY <1>1, <2>2, <2>3 DEF OneVerdict
<1>2. CASE OneVerdict
  BY <1>1, <1>2, Invariance, SettleInvariance, PTL DEF Spec, VerdictFinal
<1>3. ASSUME NeverStopped
      PROVE  IInv /\ SettleInv /\ StayInv /\ [Next]_vars =>
               [\A m \in Submissions : status[m] \in ExecStatus => status'[m] = status[m]]_vars
  <2>. SUFFICES ASSUME IInv, SettleInv, StayInv, [Next]_vars,
                       NEW m \in Submissions, status[m] \in ExecStatus
                PROVE  status'[m] = status[m]
    OBVIOUS
  <2>1. Types /\ ProcessInv /\ OwnInv /\ CalmInv /\ UpInv /\ AgreeInv
    BY DEF IInv, TypeOK, SettleInv, StayInv
  <2>2. UpStep
    BY <1>3, <2>1, UpSteps
  <2>. QED
    BY <2>1, <2>2, AgreedVerdict
<1>4. CASE NeverStopped
  BY <1>3, <1>4, Invariance, SettleInvariance, StayInvariance, PTL DEF Spec, VerdictFinal
<1>. QED
  BY <1>2, <1>4
=============================================================================
