------------------------------ MODULE PoolProofs ------------------------------
(***************************************************************************)
(* Theorems of module ContainerPool, for every finite set of containers    *)
(* and of deliveries, every max_size and every choice of faults (but for   *)
(* RunningBound, which needs inspect_container to answer truly, and        *)
(* ClosedClean, which needs kills and removals to succeed).                *)
(***************************************************************************)
EXTENDS PoolInvariant, FiniteSetTheorems, SequenceTheorems, TLAPS

-----------------------------------------------------------------------------
(* The pool's queue of idle objects and the list of containers. *)

Elems(s) == {s[i] : i \in DOMAIN s}
Distinct(s) == \A i, j \in DOMAIN s : s[i] = s[j] => i = j

\* Appending an element adds it, and keeps the others distinct.
LEMMA AppendElems ==
  ASSUME NEW S, NEW s \in Seq(S), NEW e \in S
  PROVE  /\ Append(s, e) \in Seq(S)
         /\ Elems(Append(s, e)) = Elems(s) \cup {e}
         /\ Distinct(s) /\ e \notin Elems(s) => Distinct(Append(s, e))
<1>1. /\ DOMAIN s = 1 .. Len(s) /\ Len(s) \in Nat
      /\ DOMAIN Append(s, e) = 1 .. Len(s) + 1
      /\ \A i \in 1 .. Len(s) : Append(s, e)[i] = s[i]
      /\ Append(s, e)[Len(s) + 1] = e
      /\ Append(s, e) \in Seq(S)
  BY AppendProperties, LenProperties
<1>2. \A i \in 1 .. Len(s) + 1 : i \in 1 .. Len(s) \/ i = Len(s) + 1
  BY <1>1
<1>3. 1 .. Len(s) \subseteq 1 .. Len(s) + 1 /\ Len(s) + 1 \in 1 .. Len(s) + 1
  BY <1>1
<1>4. Elems(Append(s, e)) = Elems(s) \cup {e}
  BY <1>1, <1>2, <1>3 DEF Elems
<1>5. ASSUME Distinct(s), e \notin Elems(s)
      PROVE  Distinct(Append(s, e))
  BY <1>1, <1>2, <1>5 DEF Distinct, Elems
<1>. QED
  BY <1>1, <1>4, <1>5

\* Taking the head off leaves the others, once each.
LEMMA TailElems ==
  ASSUME NEW S, NEW s \in Seq(S), s # <<>>
  PROVE  /\ Head(s) \in S /\ Tail(s) \in Seq(S)
         /\ Elems(s) = {Head(s)} \cup Elems(Tail(s))
         /\ Distinct(s) => Distinct(Tail(s)) /\ Head(s) \notin Elems(Tail(s))
<1>1. /\ DOMAIN s = 1 .. Len(s) /\ Len(s) \in Nat /\ Len(s) # 0
      /\ Head(s) \in S /\ Tail(s) \in Seq(S) /\ Head(s) = s[1]
      /\ DOMAIN Tail(s) = 1 .. Len(s) - 1
      /\ \A i \in 1 .. Len(s) - 1 : Tail(s)[i] = s[i + 1]
  BY EmptySeq, HeadTailProperties, LenProperties
<1>2. \A i \in 1 .. Len(s) : i = 1 \/ \E j \in 1 .. Len(s) - 1 : i = j + 1
  <2>1. TAKE i \in 1 .. Len(s)
  <2>2. CASE i # 1
    <3>1. i - 1 \in 1 .. Len(s) - 1 /\ i = (i - 1) + 1
      BY <1>1, <2>2
    <3>. QED
      BY <3>1
  <2>. QED
    BY <2>2
<1>3. 1 \in 1 .. Len(s) /\ \A j \in 1 .. Len(s) - 1 : j + 1 \in 1 .. Len(s)
  BY <1>1
<1>4. Elems(s) = {Head(s)} \cup Elems(Tail(s))
  <2>1. ASSUME NEW i \in 1 .. Len(s) PROVE s[i] = Head(s) \/ s[i] \in Elems(Tail(s))
    <3>1. CASE i = 1
      BY <1>1, <3>1
    <3>2. CASE i # 1
      <4>1. PICK j \in 1 .. Len(s) - 1 : i = j + 1
        BY <1>2, <3>2
      <4>2. s[i] = Tail(s)[j] /\ j \in DOMAIN Tail(s)
        BY <1>1, <4>1
      <4>. QED
        BY <4>2 DEF Elems
    <3>. QED
      BY <3>1, <3>2
  <2>2. ASSUME NEW j \in 1 .. Len(s) - 1 PROVE Tail(s)[j] \in Elems(s)
    BY <1>1, <1>3 DEF Elems
  <2>3. Head(s) \in Elems(s)
    BY <1>1, <1>3 DEF Elems
  <2>. QED
    BY <1>1, <2>1, <2>2, <2>3 DEF Elems
<1>5. ASSUME Distinct(s)
      PROVE  Distinct(Tail(s)) /\ Head(s) \notin Elems(Tail(s))
  BY <1>1, <1>3, <1>5 DEF Distinct, Elems
<1>. QED
  BY <1>1, <1>4, <1>5

\* The empty sequence has no elements.
LEMMA NoElems == Elems(<<>>) = {} /\ Distinct(<<>>)
BY DEF Elems, Distinct

\* The sets of the invariant are the elements of the queues.
LEMMA IdleElems ==
  /\ Idle = Elems(idle) /\ Listed = Elems(containers) /\ Left = Elems(left)
  /\ (\A i, j \in DOMAIN idle : idle[i] = idle[j] => i = j) <=> Distinct(idle)
BY DEF Idle, Listed, Left, Elems, Distinct

-----------------------------------------------------------------------------
(* Handing an object over, and giving it back. *)

\* pool.get() has returned the container it was at: it now belongs to a task or
\* is idle, and to nobody else.
LEMMA HandOverEffect ==
  ASSUME PoolTypeOK, GetInv, HoldInv, get.at \in {"inspect", "start"}, HandOver(get.on)
  PROVE  /\ idle' \in Seq(Containers) /\ get' = NoGet
         /\ task' \in [Deliveries -> TaskStage]
         /\ holds' \in [Deliveries -> Containers \cup {None}]
         /\ OneOwner'
         /\ HoldInv'
         /\ Pooled' = Pooled \cup {get.on}
         /\ \A d \in Deliveries :
              \/ task'[d] = task[d] /\ holds'[d] = holds[d]
              \/ task[d] = "new" /\ task'[d] \in {"fetch", "done"}
<1> DEFINE c == get.on
           d == get.for
<1>1. /\ c \in Containers /\ d \in Deliveries /\ task[d] = "new" /\ holds[d] = None
      /\ idle \in Seq(Containers) /\ task \in [Deliveries -> TaskStage]
      /\ holds \in [Deliveries -> Containers \cup {None}]
      /\ c # None /\ None \notin Containers
  BY PoolConstantsOK DEF PoolTypeOK, PoolTypes, GetInv, HoldInv, PoolConstantsOK
<1>2. /\ Distinct(idle) /\ c \notin Idle
      /\ \A e \in Held : holds[e] \notin Idle \cup {c}
      /\ \A e, f \in Held : holds[e] = holds[f] => e = f
  BY IdleElems DEF PoolTypeOK, OneOwner
<1>3. get' = NoGet /\ None \notin Idle'
  <2>1. idle' \in Seq(Containers)
    BY <1>1, AppendElems DEF HandOver
  <2>2. Idle' \subseteq Containers
    BY <2>1, LenProperties DEF Idle
  <2>. QED
    BY <1>1, <2>2 DEF HandOver
<1>4. CASE /\ task' = [task EXCEPT ![d] = "fetch"]
           /\ holds' = [holds EXCEPT ![d] = c]
           /\ idle' = idle
  <2>1. Held' = Held \cup {d} /\ Idle' = Idle
    BY <1>1, <1>4 DEF Held, Idle
  <2>2. Pooled' = Pooled \cup {c}
    BY <1>1, <1>4, <2>1 DEF Pooled, Held
  <2>3. OneOwner'
    BY <1>1, <1>2, <1>3, <1>4, <2>1, IdleElems DEF OneOwner, Distinct, NoGet, Held
  <2>4. HoldInv'
    BY <1>1, <1>4 DEF HoldInv
  <2>. QED
    BY <1>1, <1>3, <1>4, <2>2, <2>3, <2>4 DEF TaskStage
<1>5. CASE /\ task' = [task EXCEPT ![d] = "done"]
           /\ idle' = Append(idle, c)
           /\ holds' = holds
  <2>1. /\ idle' \in Seq(Containers) /\ Elems(idle') = Idle \cup {c} /\ Distinct(idle')
        /\ Held' = Held
    BY <1>1, <1>2, <1>5, AppendElems, IdleElems DEF Held
  <2>2. Idle' = Idle \cup {c}
    BY <2>1 DEF Idle, Elems
  <2>3. Pooled' = Pooled \cup {c}
    BY <1>5, <2>1, <2>2 DEF Pooled
  <2>4. OneOwner'
    BY <1>1, <1>2, <1>3, <1>5, <2>1, <2>2 DEF OneOwner, Distinct, NoGet, Held
  <2>5. HoldInv'
    BY <1>1, <1>5 DEF HoldInv
  <2>. QED
    BY <1>1, <1>3, <1>5, <2>1, <2>3, <2>4, <2>5 DEF TaskStage
<1>. QED
  BY <1>4, <1>5 DEF HandOver

\* A task gives its object back to the pool.
LEMMA GiveBackEffect ==
  ASSUME PoolTypeOK, HoldInv, NEW d \in Held, GiveBack(d), UNCHANGED get
  PROVE  /\ idle' \in Seq(Containers)
         /\ task' \in [Deliveries -> TaskStage]
         /\ holds' \in [Deliveries -> Containers \cup {None}]
         /\ OneOwner'
         /\ HoldInv'
         /\ Pooled' = Pooled
         /\ task' = [task EXCEPT ![d] = "done"]
         /\ \A e \in Deliveries : e # d => holds'[e] = holds[e]
<1>1. /\ d \in Deliveries /\ holds[d] \in Containers
      /\ idle \in Seq(Containers) /\ task \in [Deliveries -> TaskStage]
      /\ holds \in [Deliveries -> Containers \cup {None}]
      /\ None \notin Containers
  BY PoolConstantsOK DEF PoolTypeOK, PoolTypes, Held, PoolConstantsOK
<1>2. /\ Distinct(idle) /\ get.on \notin Idle
      /\ \A e \in Held : holds[e] \notin Idle \cup {get.on}
      /\ \A e, f \in Held : holds[e] = holds[f] => e = f
  BY IdleElems DEF PoolTypeOK, OneOwner
<1>3. /\ idle' \in Seq(Containers) /\ Elems(idle') = Idle \cup {holds[d]} /\ Distinct(idle')
      /\ Held' = Held \ {d}
  BY <1>1, <1>2, AppendElems, IdleElems DEF GiveBack, Held
<1>4. Idle' = Idle \cup {holds[d]}
  BY <1>3 DEF Idle, Elems
<1>5. \A e \in Deliveries : e # d => holds'[e] = holds[e]
  BY <1>1 DEF GiveBack
<1>6. Pooled' = Pooled
  <2>1. \A e \in Held' : holds'[e] = holds[e]
    BY <1>3, <1>5 DEF Held
  <2>2. {holds'[e] : e \in Held'} = {holds[e] : e \in Held \ {d}}
    BY <1>3, <2>1
  <2>. QED
    BY <1>3, <1>4, <2>2 DEF Pooled
<1>7. OneOwner'
  <2>1. get' = get /\ \A e \in Held' : e \in Held /\ e # d /\ holds'[e] = holds[e]
    BY <1>3, <1>5 DEF Held
  <2>2. get'.on \notin Idle'
    BY <1>2, <1>4, <2>1
  <2>3. \A e \in Held' : holds'[e] \notin Idle' \cup {get'.on}
    BY <1>2, <1>4, <2>1
  <2>4. \A e, f \in Held' : holds'[e] = holds'[f] => e = f
    BY <1>2, <2>1
  <2>. QED
    BY <1>3, <2>2, <2>3, <2>4 DEF OneOwner, Distinct
<1>8. HoldInv'
  BY <1>1, <1>5 DEF HoldInv, GiveBack
<1>. QED
  BY <1>1, <1>3, <1>5, <1>6, <1>7, <1>8 DEF GiveBack, TaskStage

\* The steps of a task that end it.
Ends(d) == StartExecFails(d) \/ ExecBreaks(d) \/ TaskEnds(d) \/ CancelTask(d)

\* They give the object back, and do nothing else.
LEMMA EndsFrame ==
  ASSUME HoldInv, NEW d \in Deliveries, Ends(d)
  PROVE  d \in Held /\ GiveBack(d) /\ UNCHANGED <<docker, inside, containers, get, phase, left, stuck>>
BY DEF Ends, StartExecFails, ExecBreaks, TaskEnds, CancelTask, HoldInv, Held

\* The steps of a task that keep its container, and those of the daemon.
Works(d) == StartExec(d) \/ ExecEnds(d)
Happens(c) == (\E d \in Deliveries : ProcessEnds(c, d)) \/ Die(c) \/ Prune(c)

\* The process ends, in order or not.
Over == EndExecute \/ Crash

\* It leaves what is inside the containers, and the list.
LEMMA OverFrame ==
  ASSUME Over
  PROVE  /\ idle' = <<>> /\ left' = <<>> /\ get' = NoGet /\ phase' \in {"gone", "crashed"}
         /\ task' = [d \in Deliveries |-> "done"] /\ holds' = [d \in Deliveries |-> None]
         /\ UNCHANGED <<inside, containers, stuck>>
         /\ RequestLands
BY DEF Over, EndExecute, Crash, Vanish, RequestLands

\* A request that may have reached the daemon concerns one container that is not
\* in the list, and only while the process listens.
LEMMA RequestEffect ==
  ASSUME PoolTypeOK, GetInv, ListInv, RequestLands
  PROVE  \/ docker' = docker
         \/ \E c \in Containers :
              /\ phase = "listening"
              /\ \/ get.at = "create" /\ docker[c] = "unborn"
                 \/ get.at = "start" /\ docker[c] = "created" /\ get.on = c
              /\ \E state \in {"created", "running"} : docker' = [docker EXCEPT ![c] = state]
<1>1. CASE docker' = docker
  BY <1>1
<1>2. ASSUME NEW c \in Containers, get.at = "create", docker[c] = "unborn",
             docker' = [docker EXCEPT ![c] = "created"]
      PROVE  \E x \in Containers :
               /\ phase = "listening"
               /\ \/ get.at = "create" /\ docker[x] = "unborn"
                  \/ get.at = "start" /\ docker[x] = "created" /\ get.on = x
               /\ \E state \in {"created", "running"} : docker' = [docker EXCEPT ![x] = state]
  <2>1. phase = "listening"
    BY <1>2 DEF GetInv
  <2>. QED
    BY <1>2, <2>1
<1>3. CASE get.at = "start" /\ docker' = [docker EXCEPT ![get.on] = "running"]
  <2>1. phase = "listening" /\ get.on \in Containers /\ docker[get.on] = "created"
    BY <1>3 DEF GetInv, ListInv
  <2>. QED
    BY <1>3, <2>1
<1>. QED
  BY <1>1, <1>2, <1>3 DEF RequestLands

\* What a round of close() may do to its container: one that is gone stays gone,
\* one that was never there does not appear, and one that is not removed is noted.
Tried(c, state) ==
  /\ docker' = [docker EXCEPT ![c] = state]
  /\ docker[c] = "removed" => state = "removed"
  /\ docker[c] = "unborn" => state \in {"unborn", "removed"}
  /\ docker[c] # "unborn" => state # "unborn"
  /\ stuck' = IF state = "removed" THEN stuck ELSE stuck \cup {c}
  /\ {"kill", "remove"} \cap PoolFaults = {} => state = "removed"

\* A round concerns the head of what is left to do.
LEMMA CloseEffect ==
  ASSUME PoolTypeOK, CloseNext
  PROVE  /\ Head(left) \in Containers /\ left' = Tail(left) /\ left # <<>>
         /\ inside' \in [Containers -> SUBSET Deliveries]
         /\ \A x \in Containers : inside'[x] \subseteq inside[x]
         /\ \E state \in DockerState : Tried(Head(left), state)
<1>1. Head(left) \in Containers /\ left' = Tail(left) /\ left # <<>>
  BY TailElems DEF CloseNext, PoolTypeOK, PoolTypes
<1>2. PICK c \in Containers : c = Head(left)
  BY <1>1
<1>3. PICK killed \in DockerState, state \in DockerState :
        /\ AfterKill(docker[c], killed) /\ AfterRemove(killed, state)
        /\ docker' = [docker EXCEPT ![c] = state]
        /\ inside' = [inside EXCEPT ![c] = IF killed = "running" THEN @ ELSE {}]
        /\ stuck' = IF state = "removed" THEN stuck ELSE stuck \cup {c}
  BY <1>2 DEF CloseNext, CloseOne
<1>4. Tried(c, state)
  BY <1>3 DEF Tried, AfterKill, AfterRemove
<1>5. /\ inside' \in [Containers -> SUBSET Deliveries]
      /\ \A x \in Containers : inside'[x] \subseteq inside[x]
  BY <1>3 DEF PoolTypeOK, PoolTypes
<1>. QED
  BY <1>1, <1>2, <1>4, <1>5

-----------------------------------------------------------------------------
(* Each part of the inductive invariant is kept by every step. *)

\* Types are kept, and every object keeps one owner.
LEMMA TypeStep ==
  ASSUME PoolTypeOK, GetInv, HoldInv, ListInv, [PoolNext]_poolVars
  PROVE  PoolTypeOK'
<1>0. PoolTypes /\ OneOwner /\ None \notin Containers
  BY PoolConstantsOK DEF PoolTypeOK, PoolConstantsOK
<1>1. CASE UNCHANGED poolVars
  BY <1>0, <1>1 DEF poolVars, PoolTypeOK, PoolTypes, OneOwner, Idle, Held
<1>2. ASSUME UNCHANGED <<idle, holds, get>> PROVE OneOwner'
  BY <1>0, <1>2 DEF OneOwner, Idle, Held
<1>3. ASSUME NEW d \in Deliveries, AskPool(d)
      PROVE  PoolTypeOK'
  <2>1. get'.on \notin Containers
    BY <1>0, <1>3 DEF AskPool
  <2>2. OneOwner'
    <3>1. Idle' = Idle /\ Held' = Held /\ Idle \subseteq Containers
      BY <1>0, <1>3, LenProperties DEF AskPool, Idle, Held, PoolTypes
    <3>2. \A e \in Held : holds[e] \in Containers
      BY <1>0 DEF Held, PoolTypes
    <3>. QED
      BY <1>0, <1>3, <2>1, <3>1, <3>2 DEF AskPool, OneOwner
  <2>. QED
    BY <1>0, <1>3, <2>2 DEF AskPool, PoolTypeOK, PoolTypes, GetStage
<1>4. CASE TakeIdle
  <2>1. /\ Head(idle) \in Containers /\ idle' \in Seq(Containers)
        /\ Idle = {Head(idle)} \cup Elems(idle') /\ Distinct(idle')
        /\ Head(idle) \notin Elems(idle')
    BY <1>0, <1>4, TailElems, IdleElems DEF TakeIdle, PoolTypes, OneOwner
  <2>2. Idle' = Elems(idle') /\ Held' = Held /\ get'.on = Head(idle)
    BY <1>0, <1>4 DEF TakeIdle, Idle, Elems, Held, PoolTypes
  <2>3. \A e \in Held : holds[e] \notin Idle
    BY <1>0 DEF OneOwner
  <2>4. OneOwner'
    BY <1>0, <1>4, <2>1, <2>2, <2>3 DEF TakeIdle, OneOwner, Distinct
  <2>5. get' \in [at : GetStage, on : Containers \cup {None}, for : Deliveries \cup {None}]
    BY <1>0, <1>4, <2>1 DEF TakeIdle, PoolTypes, GetStage
  <2>. QED
    BY <1>0, <1>4, <2>1, <2>4, <2>5 DEF TakeIdle, PoolTypeOK, PoolTypes
<1>5. CASE GrowPool
  <2>1. get' \in [at : GetStage, on : Containers \cup {None}, for : Deliveries \cup {None}]
        /\ get'.on = get.on
    BY <1>0, <1>5 DEF GrowPool, PoolTypes, GetStage
  <2>2. OneOwner'
    BY <1>0, <1>5, <2>1 DEF GrowPool, OneOwner, Idle, Held
  <2>. QED
    BY <1>0, <1>5, <2>1, <2>2 DEF GrowPool, PoolTypeOK, PoolTypes
<1>6. CASE RecycleOk
  BY <1>0, <1>6, HandOverEffect
  DEF RecycleOk, PoolTypeOK, PoolTypes, NoGet, GetStage
<1>7. CASE RecycleFails
  <2>1. get' \in [at : GetStage, on : Containers \cup {None}, for : Deliveries \cup {None}]
        /\ get'.on = None
    BY <1>0, <1>7 DEF RecycleFails, PoolTypes, GetStage
  <2>2. Idle' = Idle /\ Held' = Held /\ Idle \subseteq Containers
    BY <1>0, <1>7, LenProperties DEF RecycleFails, Idle, Held, PoolTypes
  <2>3. \A e \in Held : holds[e] # None
    BY DEF Held
  <2>4. OneOwner'
    BY <1>0, <1>7, <2>1, <2>2, <2>3 DEF RecycleFails, OneOwner
  <2>. QED
    BY <1>0, <1>7, <2>1, <2>4 DEF RecycleFails, PoolTypeOK, PoolTypes
<1>8. ASSUME NEW c \in Containers, CreateContainer(c)
      PROVE  PoolTypeOK'
  <2>1. get' \in [at : GetStage, on : Containers \cup {None}, for : Deliveries \cup {None}]
        /\ get'.on = c
    BY <1>0, <1>8 DEF CreateContainer, PoolTypes, GetStage
  <2>2. c \notin Pooled
    BY <1>8 DEF CreateContainer, ListInv
  <2>3. OneOwner'
    BY <1>0, <1>8, <2>1, <2>2 DEF CreateContainer, OneOwner, Idle, Held, Pooled
  <2>4. docker' \in [Containers -> DockerState]
    BY <1>0, <1>8 DEF CreateContainer, PoolTypes, DockerState
  <2>. QED
    BY <1>0, <1>8, <2>1, <2>3, <2>4 DEF CreateContainer, PoolTypeOK, PoolTypes
<1>9. CASE StartContainer
  <2>1. /\ docker' \in [Containers -> DockerState] /\ containers' \in Seq(Containers)
        /\ OneOwner' /\ idle' \in Seq(Containers) /\ get' = NoGet
        /\ task' \in [Deliveries -> TaskStage]
        /\ holds' \in [Deliveries -> Containers \cup {None}]
    BY <1>0, <1>9, AppendElems, HandOverEffect
    DEF StartContainer, GetInv, PoolTypes, DockerState
  <2>. QED
    BY <1>0, <1>9, <2>1 DEF StartContainer, PoolTypeOK, PoolTypes, NoGet, GetStage
<1>10. ASSUME get' = NoGet, UNCHANGED <<idle, holds>>
       PROVE  OneOwner'
  <2>1. Idle' = Idle /\ Held' = Held /\ Idle \subseteq Containers
    BY <1>0, <1>10, LenProperties DEF Idle, Held, PoolTypes
  <2>2. \A e \in Held : holds[e] # None
    BY DEF Held
  <2>. QED
    BY <1>0, <1>10, <2>1, <2>2 DEF OneOwner, NoGet
<1>11. CASE GetFails
  BY <1>0, <1>10, <1>11 DEF GetFails, PoolTypeOK, PoolTypes, NoGet, GetStage
<1>12. ASSUME NEW d \in Deliveries, Works(d)
       PROVE  PoolTypeOK'
  <2>1. holds[d] \in Containers
    BY <1>0, <1>12 DEF Works, StartExec, ExecEnds, HoldInv, PoolTypes
  <2>2. inside' \in [Containers -> SUBSET Deliveries]
    <3>1. PICK X \in SUBSET Deliveries : inside' = [inside EXCEPT ![holds[d]] = X]
      BY <1>0, <1>12, <2>1 DEF Works, StartExec, ExecEnds, PoolTypes
    <3>. QED
      BY <1>0, <2>1, <3>1 DEF PoolTypes
  <2>3. task' \in [Deliveries -> TaskStage]
    BY <1>0, <1>12 DEF Works, StartExec, ExecEnds, PoolTypes, TaskStage
  <2>. QED
    BY <1>0, <1>2, <1>12, <2>2, <2>3 DEF Works, StartExec, ExecEnds, PoolTypeOK, PoolTypes
<1>13. ASSUME NEW d \in Deliveries, Ends(d)
       PROVE  PoolTypeOK'
  BY <1>0, <1>13, EndsFrame, GiveBackEffect DEF PoolTypeOK, PoolTypes
<1>14. CASE Signal
  <2>1. docker' \in [Containers -> DockerState]
    BY <1>0, <1>14, RequestEffect DEF Signal, PoolTypes, DockerState
  <2>. QED
    BY <1>0, <1>10, <1>14, <2>1 DEF Signal, PoolTypeOK, PoolTypes, NoGet, GetStage
<1>15. CASE CloseNext
  <2>1. left' \in Seq(Containers)
    BY <1>0, <1>15, TailElems DEF CloseNext, PoolTypes
  <2>2. PICK c \in Containers, state \in DockerState : Tried(c, state)
    BY <1>15, CloseEffect
  <2>3. docker' \in [Containers -> DockerState] /\ stuck' \subseteq Containers
    BY <1>0, <2>2 DEF Tried, PoolTypes
  <2>4. inside' \in [Containers -> SUBSET Deliveries]
    BY <1>15, CloseEffect
  <2>. QED
    BY <1>0, <1>2, <1>15, <2>1, <2>3, <2>4 DEF CloseNext, PoolTypeOK, PoolTypes
<1>16. CASE Over
  <2>1. Idle' = {} /\ Held' = {} /\ Distinct(idle')
    BY <1>16, OverFrame, NoElems DEF Idle, Held, Elems
  <2>2. OneOwner'
    BY <2>1 DEF OneOwner, Distinct
  <2>3. /\ idle' \in Seq(Containers) /\ left' \in Seq(Containers)
        /\ task' \in [Deliveries -> TaskStage] /\ holds' \in [Deliveries -> Containers \cup {None}]
    BY <1>16, OverFrame, EmptySeq DEF TaskStage
  <2>4. docker' \in [Containers -> DockerState]
    BY <1>0, <1>16, OverFrame, RequestEffect DEF PoolTypes, DockerState
  <2>. QED
    BY <1>0, <1>16, <2>2, <2>3, <2>4, OverFrame DEF PoolTypeOK, PoolTypes, NoGet, GetStage
<1>17. ASSUME NEW c \in Containers, Happens(c)
       PROVE  PoolTypeOK'
  <2>1. docker' \in [Containers -> DockerState]
    <3>1. \/ docker' = docker
          \/ docker' = [docker EXCEPT ![c] = "stopped"]
          \/ docker' = [docker EXCEPT ![c] = "removed"]
      BY <1>17 DEF Happens, ProcessEnds, Die, Prune
    <3>. QED
      BY <1>0, <3>1 DEF PoolTypes, DockerState
  <2>2. inside' \in [Containers -> SUBSET Deliveries]
    <3>1. ASSUME NEW d \in Deliveries, ProcessEnds(c, d)
          PROVE  inside' \in [Containers -> SUBSET Deliveries]
      <4>1. inside[c] \ {d} \in SUBSET Deliveries
        BY <1>0 DEF PoolTypes
      <4>. QED
        BY <1>0, <3>1, <4>1 DEF ProcessEnds, PoolTypes
    <3>2. CASE Die(c) \/ Prune(c)
      BY <1>0, <3>2 DEF Die, Prune, PoolTypes
    <3>. QED
      BY <1>17, <3>1, <3>2 DEF Happens
  <2>. QED
    BY <1>0, <1>2, <1>17, <2>1, <2>2 DEF Happens, ProcessEnds, Die, Prune, PoolTypeOK, PoolTypes
<1>. QED
  BY <1>1, <1>3, <1>4, <1>5, <1>6, <1>7, <1>8, <1>9, <1>11, <1>12, <1>13, <1>14, <1>15,
     <1>16, <1>17
  DEF PoolNext, PoolGet, Task, Teardown, Daemon, Works, Ends, Happens, Over

\* pool.get() stays with the listen loop, for a delivery that has no task yet.
LEMMA GetStep ==
  ASSUME PoolTypeOK, GetInv, HoldInv, [PoolNext]_poolVars
  PROVE  GetInv'
<1>0. PoolTypes
  BY DEF PoolTypeOK
<1>1. CASE UNCHANGED poolVars
  BY <1>1 DEF poolVars, GetInv
<1>2. ASSUME NEW d \in Deliveries, AskPool(d)
      PROVE  GetInv'
  BY <1>2 DEF AskPool, GetInv
<1>3. CASE TakeIdle
  <2>1. Head(idle) \in Containers
    BY <1>0, <1>3, TailElems DEF TakeIdle, PoolTypes
  <2>2. get'.at = "inspect" /\ get'.on = Head(idle) /\ get'.for = get.for
    BY <1>0, <1>3 DEF TakeIdle, PoolTypes
  <2>. QED
    BY <1>3, <2>1, <2>2 DEF TakeIdle, GetInv
<1>4. CASE GrowPool \/ RecycleFails
  BY <1>0, <1>4 DEF GrowPool, RecycleFails, GetInv, PoolTypes
<1>5. ASSUME NEW c \in Containers, CreateContainer(c)
      PROVE  GetInv'
  BY <1>0, <1>5 DEF CreateContainer, GetInv, PoolTypes
<1>6. CASE get' = NoGet
  BY <1>6 DEF GetInv, NoGet
<1>7. ASSUME UNCHANGED <<get, phase>>,
             \A d \in Deliveries : task[d] = "new" => task'[d] = "new"
      PROVE  GetInv'
  BY <1>7 DEF GetInv
<1>8. ASSUME NEW d \in Deliveries, Works(d)
      PROVE  GetInv'
  BY <1>0, <1>7, <1>8 DEF Works, StartExec, ExecEnds, PoolTypes
<1>9. ASSUME NEW d \in Deliveries, Ends(d)
      PROVE  GetInv'
  <2>1. d \in Held /\ task' = [task EXCEPT ![d] = "done"]
    BY <1>9, EndsFrame, GiveBackEffect
  <2>2. \A e \in Deliveries : task[e] = "new" => task'[e] = "new"
    BY <1>0, <2>1 DEF HoldInv, Held, PoolTypes
  <2>. QED
    BY <1>7, <1>9, <2>2, EndsFrame
<1>10. CASE CloseNext
  BY <1>7, <1>10 DEF CloseNext
<1>11. CASE Over
  BY <1>6, <1>11, OverFrame
<1>12. ASSUME NEW c \in Containers, Happens(c)
       PROVE  GetInv'
  BY <1>7, <1>12 DEF Happens, ProcessEnds, Die, Prune
<1>13. CASE RecycleOk \/ StartContainer \/ GetFails \/ Signal
  BY <1>6, <1>13 DEF RecycleOk, StartContainer, HandOver, GetFails, Signal
<1>. QED
  BY <1>1, <1>2, <1>3, <1>4, <1>5, <1>8, <1>9, <1>10, <1>11, <1>12, <1>13
  DEF PoolNext, PoolGet, Task, Teardown, Daemon, Works, Ends, Happens, Over

\* A task holds a container from the handing over to its end.
LEMMA HoldStep ==
  ASSUME PoolTypeOK, GetInv, HoldInv, [PoolNext]_poolVars
  PROVE  HoldInv'
<1>0. PoolTypes
  BY DEF PoolTypeOK
<1>1. CASE UNCHANGED <<task, holds>>
  BY <1>1 DEF HoldInv
<1>2. CASE RecycleOk \/ StartContainer
  BY <1>2, HandOverEffect DEF RecycleOk, StartContainer
<1>3. ASSUME NEW d \in Deliveries, Works(d)
      PROVE  HoldInv'
  BY <1>0, <1>3 DEF Works, StartExec, ExecEnds, HoldInv, PoolTypes
<1>4. ASSUME NEW d \in Deliveries, Ends(d)
      PROVE  HoldInv'
  BY <1>4, EndsFrame, GiveBackEffect
<1>5. CASE Over
  BY <1>5, OverFrame DEF HoldInv
<1>. QED
  BY <1>1, <1>2, <1>3, <1>4, <1>5
  DEF PoolNext, PoolGet, Task, Teardown, Daemon, Works, Ends, poolVars, AskPool, TakeIdle,
      GrowPool, RecycleFails, CreateContainer, GetFails, Signal, CloseNext, ProcessEnds, Die,
      Prune, Over

\* A process stays where it was started.
LEMMA InsideStep ==
  ASSUME PoolTypeOK, GetInv, HoldInv, InsideInv, [PoolNext]_poolVars
  PROVE  InsideInv'
<1>0. PoolTypes
  BY DEF PoolTypeOK
<1>1. ASSUME UNCHANGED <<task, holds>>,
             \A c \in Containers : inside'[c] \subseteq inside[c]
      PROVE  InsideInv'
  BY <1>1 DEF InsideInv
<1>2. CASE RecycleOk \/ StartContainer
  <2>1. /\ inside' = inside
        /\ \A d \in Deliveries :
             \/ task'[d] = task[d] /\ holds'[d] = holds[d]
             \/ task[d] = "new"
    BY <1>2, HandOverEffect DEF RecycleOk, StartContainer
  <2>. QED
    BY <1>0, <2>1 DEF InsideInv, PoolTypes
<1>3. ASSUME NEW d \in Deliveries, StartExec(d)
      PROVE  InsideInv'
  <2>1. \A c \in Containers : d \notin inside[c]
    BY <1>3 DEF StartExec, InsideInv
  <2>2. \A c \in Containers :
          inside'[c] = IF c = holds[d] THEN inside[c] \cup {d} ELSE inside[c]
    BY <1>0, <1>3 DEF StartExec, PoolTypes
  <2>3. /\ holds' = holds
        /\ \A e \in Deliveries : task'[e] = IF e = d THEN "exec" ELSE task[e]
    BY <1>0, <1>3 DEF StartExec, PoolTypes
  <2>4. ASSUME NEW c \in Containers, NEW e \in inside'[c]
        PROVE  /\ task'[e] \notin {"new", "fetch"}
               /\ task'[e] = "exec" => holds'[e] = c
    <3>1. CASE e = d
      BY <2>1, <2>2, <2>3, <3>1
    <3>2. CASE e # d
      <4>1. e \in inside[c]
        BY <2>2, <2>4, <3>2
      <4>2. e \in Deliveries
        BY <1>0, <4>1 DEF PoolTypes
      <4>. QED
        BY <2>3, <3>2, <4>1, <4>2 DEF InsideInv
    <3>. QED
      BY <3>1, <3>2
  <2>. QED
    BY <2>4 DEF InsideInv
<1>4. ASSUME NEW d \in Deliveries, ExecEnds(d)
      PROVE  InsideInv'
  <2>1. /\ \A c \in Containers : inside'[c] \subseteq inside[c]
        /\ holds' = holds
        /\ \A e \in Deliveries : task'[e] = IF e = d THEN "update" ELSE task[e]
    BY <1>0, <1>4 DEF ExecEnds, PoolTypes
  <2>. QED
    BY <1>0, <2>1 DEF InsideInv, PoolTypes
<1>5. ASSUME NEW d \in Deliveries, Ends(d)
      PROVE  InsideInv'
  <2>1. /\ inside' = inside /\ task' = [task EXCEPT ![d] = "done"]
        /\ \A e \in Deliveries : e # d => holds'[e] = holds[e]
    BY <1>5, EndsFrame, GiveBackEffect
  <2>2. \A e \in Deliveries : task'[e] = IF e = d THEN "done" ELSE task[e]
    BY <1>0, <2>1 DEF PoolTypes
  <2>. QED
    BY <1>0, <2>1, <2>2 DEF InsideInv, PoolTypes
<1>6. CASE Over
  BY <1>0, <1>6, OverFrame DEF InsideInv, PoolTypes
<1>7. CASE CloseNext
  BY <1>1, <1>7, CloseEffect DEF CloseNext
<1>8. ASSUME NEW c \in Containers, Happens(c)
      PROVE  InsideInv'
  BY <1>0, <1>1, <1>8 DEF Happens, ProcessEnds, Die, Prune, PoolTypes
<1>9. CASE UNCHANGED <<task, holds, inside>>
  BY <1>1, <1>9
<1>. QED
  BY <1>2, <1>3, <1>4, <1>5, <1>6, <1>7, <1>8, <1>9
  DEF PoolNext, PoolGet, Task, Teardown, Daemon, Ends, Happens, poolVars, AskPool, TakeIdle,
      GrowPool, RecycleFails, CreateContainer, GetFails, Signal, Over

\* What the list lacks is the one container that is being started or was when
\* the listen loop ended.
LEMMA ListStep ==
  ASSUME PoolTypeOK, GetInv, HoldInv, ListInv, CloseInv, [PoolNext]_poolVars
  PROVE  ListInv'
<1>0. PoolTypes /\ None \notin Containers
  BY PoolConstantsOK DEF PoolTypeOK, PoolConstantsOK
<1>1. ASSUME UNCHANGED <<docker, containers, idle, holds>>
      PROVE  Listed' = Listed /\ Pooled' = Pooled
  BY <1>1 DEF Listed, Pooled, Idle, Held
<1>2. CASE UNCHANGED <<docker, containers, idle, holds, get, phase>>
  BY <1>1, <1>2 DEF ListInv
<1>3. ASSUME NEW d \in Deliveries, AskPool(d)
      PROVE  ListInv'
  BY <1>1, <1>3 DEF AskPool, ListInv, NoGet
<1>4. CASE TakeIdle
  <2>1. Idle = {Head(idle)} \cup Elems(idle')
    BY <1>0, <1>4, TailElems, IdleElems DEF TakeIdle, PoolTypes
  <2>2. Idle' = Elems(idle') /\ Held' = Held /\ Listed' = Listed /\ UNCHANGED <<holds, docker, phase>>
    BY <1>4 DEF TakeIdle, Idle, Elems, Held, Listed
  <2>4. Pooled' \subseteq Pooled /\ Head(idle) \in Pooled
    BY <2>1, <2>2 DEF Pooled
  <2>3. get'.at = "inspect" /\ get'.on = Head(idle) /\ get.at = "slot"
    BY <1>0, <1>4 DEF TakeIdle, PoolTypes
  <2>. QED
    BY <2>2, <2>3, <2>4 DEF ListInv
<1>5. CASE GrowPool \/ RecycleFails
  <2>1. get'.at \in {"create", "slot"} /\ get.at \in {"slot", "inspect"}
    BY <1>0, <1>5 DEF GrowPool, RecycleFails, PoolTypes
  <2>. QED
    BY <1>1, <1>5, <2>1 DEF GrowPool, RecycleFails, ListInv
<1>6. CASE RecycleOk
  BY <1>6, HandOverEffect DEF RecycleOk, ListInv, NoGet, Listed
<1>7. ASSUME NEW c \in Containers, CreateContainer(c)
      PROVE  ListInv'
  <2>1. get'.at = "start" /\ get'.on = c /\ get.at = "create" /\ phase = "listening"
    BY <1>0, <1>7 DEF CreateContainer, PoolTypes, GetInv
  <2>2. \A x \in Containers : docker'[x] = IF x = c THEN "created" ELSE docker[x]
    BY <1>0, <1>7 DEF CreateContainer, PoolTypes
  <2>3. Listed' = Listed /\ Pooled' = Pooled /\ phase' = phase
    BY <1>7 DEF CreateContainer, Listed, Pooled, Idle, Held
  <2>4. Listed \subseteq Containers /\ c \notin Listed
    BY <1>0, <1>7, LenProperties DEF CreateContainer, ListInv, Listed, PoolTypes
  <2>. QED
    BY <2>1, <2>2, <2>3, <2>4 DEF ListInv
<1>8. CASE StartContainer
  <2>1. get.at = "start" /\ get.on \in Containers /\ get' = NoGet
        /\ Pooled' = Pooled \cup {get.on}
    BY <1>8, HandOverEffect DEF StartContainer, GetInv
  <2>2. Listed' = Listed \cup {get.on}
    <3>1. Elems(containers') = Elems(containers) \cup {get.on}
      BY <1>0, <1>8, <2>1, AppendElems DEF StartContainer, PoolTypes
    <3>. QED
      BY <3>1 DEF Listed, Elems
  <2>3. \A x \in Containers : docker'[x] = IF x = get.on THEN "running" ELSE docker[x]
    BY <1>0, <1>8 DEF StartContainer, PoolTypes
  <2>4. Listed \subseteq Containers
    BY <1>0, LenProperties DEF Listed, PoolTypes
  <2>. QED
    BY <1>8, <2>1, <2>2, <2>3, <2>4 DEF ListInv, NoGet
<1>9. CASE GetFails
  BY <1>1, <1>9 DEF GetFails, ListInv, NoGet
<1>10. ASSUME NEW d \in Deliveries, Ends(d)
       PROVE  ListInv'
  <2>1. Pooled' = Pooled /\ UNCHANGED <<docker, containers, get, phase>>
    BY <1>10, EndsFrame, GiveBackEffect
  <2>. QED
    BY <2>1 DEF ListInv, Listed
<1>11. CASE Signal \/ Over
  <2>1. /\ Listed' = Listed /\ Pooled' \subseteq Pooled /\ get' = NoGet /\ phase' # "listening"
        /\ RequestLands
    <3>1. CASE Signal
      BY <3>1 DEF Signal, Listed, Pooled, Idle, Held
    <3>2. CASE Over
      BY <3>2, OverFrame, NoElems DEF Listed, Pooled, Idle, Held, Elems
    <3>. QED
      BY <1>11, <3>1, <3>2
  <2>2. Listed \subseteq Containers
    BY <1>0, LenProperties DEF Listed, PoolTypes
  <2>3. CASE docker' = docker
    BY <2>1, <2>3 DEF ListInv, NoGet
  <2>4. ASSUME NEW c \in Containers, NEW state \in {"created", "running"},
               phase = "listening",
               \/ get.at = "create" /\ docker[c] = "unborn"
               \/ get.at = "start" /\ docker[c] = "created" /\ get.on = c,
               docker' = [docker EXCEPT ![c] = state]
        PROVE  ListInv'
    <3>1. \A x \in Containers : docker'[x] = IF x = c THEN state ELSE docker[x]
      BY <1>0, <2>4 DEF PoolTypes
    <3>. QED
      BY <2>1, <2>2, <2>4, <3>1 DEF ListInv, NoGet
  <2>. QED
    BY <2>1, <2>3, <2>4, RequestEffect
<1>12. CASE CloseNext
  <2>1. Listed \subseteq Containers /\ Head(left) \in Listed
    <3>1. Head(left) \in Elems(left)
      BY <1>0, <1>12, TailElems DEF CloseNext, PoolTypes
    <3>2. Listed \subseteq Containers
      BY <1>0, LenProperties DEF Listed, PoolTypes
    <3>. QED
      BY <3>1, <3>2, IdleElems DEF CloseInv
  <2>2. PICK state \in DockerState : Tried(Head(left), state)
    BY <1>12, CloseEffect
  <2>3. /\ \A x \in Containers : docker'[x] = IF x = Head(left) THEN state ELSE docker[x]
        /\ state # "unborn"
    BY <1>0, <2>1, <2>2 DEF Tried, ListInv, PoolTypes
  <2>4. Listed' = Listed /\ Pooled' = Pooled /\ UNCHANGED <<get, phase>>
    BY <1>12 DEF CloseNext, Listed, Pooled, Idle, Held
  <2>. QED
    BY <2>1, <2>3, <2>4 DEF ListInv, GetInv
<1>13. ASSUME NEW c \in Containers, Happens(c)
       PROVE  ListInv'
  <2>1. \A x \in Containers :
          \/ docker'[x] = docker[x]
          \/ docker[x] \notin {"unborn", "created"} /\ docker'[x] # "unborn"
    BY <1>0, <1>13 DEF Happens, ProcessEnds, Die, Prune, PoolTypes
  <2>2. Listed' = Listed /\ Pooled' = Pooled /\ UNCHANGED <<get, phase>>
    BY <1>13 DEF Happens, ProcessEnds, Die, Prune, Listed, Pooled, Idle, Held
  <2>3. Listed \subseteq Containers
    BY <1>0, LenProperties DEF Listed, PoolTypes
  <2>. QED
    BY <2>1, <2>2, <2>3 DEF ListInv, GetInv
<1>14. ASSUME NEW d \in Deliveries, Works(d)
       PROVE  ListInv'
  BY <1>2, <1>14 DEF Works, StartExec, ExecEnds
<1>. QED
  BY <1>2, <1>3, <1>4, <1>5, <1>6, <1>7, <1>8, <1>9, <1>10, <1>11, <1>12, <1>13, <1>14
  DEF PoolNext, PoolGet, Task, Teardown, Daemon, Works, Ends, Happens, Over, poolVars

\* close() forgets nothing that is in the list.
LEMMA CloseStep ==
  ASSUME PoolTypeOK, GetInv, HoldInv, ListInv, CloseInv, [PoolNext]_poolVars
  PROVE  CloseInv'
<1>0. PoolTypes /\ Listed \subseteq Containers
  BY LenProperties DEF PoolTypeOK, PoolTypes, Listed
<1>1. ASSUME UNCHANGED <<containers, phase, left, stuck>>,
             \A c \in Containers : docker[c] = "removed" => docker'[c] = "removed"
      PROVE  CloseInv'
  BY <1>0, <1>1 DEF CloseInv, Listed, Left
<1>2. CASE UNCHANGED <<docker, containers, phase, left, stuck>>
  BY <1>1, <1>2
<1>3. ASSUME NEW c \in Containers, CreateContainer(c) \/ Happens(c)
      PROVE  CloseInv'
  BY <1>0, <1>1, <1>3 DEF CreateContainer, Happens, ProcessEnds, Die, Prune, PoolTypes
<1>4. CASE StartContainer
  <2>1. phase' = "listening" /\ left' = <<>> /\ stuck' = {}
    BY <1>4 DEF StartContainer, GetInv, CloseInv
  <2>2. Left' = {}
    BY <2>1, NoElems DEF Left, Elems
  <2>. QED
    BY <2>1, <2>2 DEF CloseInv
<1>5. CASE Signal \/ GetFails
  <2>1. phase' \in {"failed", "cancelled"} /\ Left' = Listed' /\ Listed' = Listed /\ stuck' = stuck
    BY <1>5 DEF Signal, GetFails, Left, Listed
  <2>. QED
    BY <2>1 DEF CloseInv
<1>6. CASE CloseNext
  <2>1. Left = {Head(left)} \cup Elems(left') /\ Head(left) \in Containers
    BY <1>0, <1>6, TailElems, IdleElems DEF CloseNext, PoolTypes
  <2>2. PICK state \in DockerState : Tried(Head(left), state)
    BY <1>6, CloseEffect
  <2>3. /\ \A x \in Containers : docker'[x] = IF x = Head(left) THEN state ELSE docker[x]
        /\ stuck' = IF state = "removed" THEN stuck ELSE stuck \cup {Head(left)}
        /\ docker[Head(left)] = "removed" => state = "removed"
        /\ {"kill", "remove"} \cap PoolFaults = {} => state = "removed"
    BY <1>0, <2>1, <2>2 DEF Tried, PoolTypes
  <2>4. Left' = Elems(left') /\ Listed' = Listed /\ phase' = phase /\ left # <<>>
    BY <1>6 DEF CloseNext, Listed, Left, Elems
  <2>5. phase \in {"failed", "cancelled"}
    BY <1>0, <2>4 DEF CloseInv, PoolTypes
  <2>6. Left' \subseteq Listed' /\ stuck' \subseteq Listed'
    BY <2>1, <2>3, <2>4 DEF CloseInv
  <2>7. ASSUME NEW c \in Listed
        PROVE  docker'[c] = "removed" \/ c \in Left' \cup stuck'
    <3>1. CASE c = Head(left)
      BY <1>0, <2>3, <3>1
    <3>2. CASE c # Head(left)
      BY <1>0, <2>1, <2>3, <2>4, <2>5, <3>2 DEF CloseInv
    <3>. QED
      BY <3>1, <3>2
  <2>8. {"kill", "remove"} \cap PoolFaults = {} => stuck' = {}
    BY <2>3 DEF CloseInv
  <2>. QED
    BY <2>4, <2>5, <2>6, <2>7, <2>8 DEF CloseInv
<1>7. CASE EndExecute
  <2>1. /\ left' = <<>> /\ Left' = {} /\ Left = {} /\ phase \in {"failed", "cancelled"}
        /\ phase' = "gone"
    BY <1>7, NoElems DEF EndExecute, Vanish, Left, Elems
  <2>2. UNCHANGED <<docker, containers, stuck>> /\ Listed' = Listed
    BY <1>7 DEF EndExecute, Listed
  <2>. QED
    BY <2>1, <2>2 DEF CloseInv
<1>8. CASE Crash
  <2>1. left' = <<>> /\ Left' = {} /\ phase' = "crashed" /\ stuck' = stuck /\ Listed' = Listed
    BY <1>8, NoElems DEF Crash, Vanish, Left, Listed, Elems
  <2>. QED
    BY <2>1 DEF CloseInv
<1>9. ASSUME NEW d \in Deliveries, Ends(d)
      PROVE  CloseInv'
  BY <1>2, <1>9, EndsFrame
<1>. QED
  BY <1>2, <1>3, <1>4, <1>5, <1>6, <1>7, <1>8, <1>9
  DEF PoolNext, PoolGet, Task, Teardown, Daemon, Ends, Happens, poolVars, AskPool, TakeIdle,
      GrowPool, RecycleOk, RecycleFails, StartExec, ExecEnds

\* The places of the pool are finitely many, and so are the containers alive.
Counted ==
  /\ Pooled \subseteq Containers /\ IsFiniteSet(Pooled)
  /\ Slots \subseteq Containers \cup {None} /\ IsFiniteSet(Slots)
  /\ IsFiniteSet(Live) /\ Cardinality(Live) \in Nat /\ Cardinality(Slots) \in Nat
  /\ None \notin Containers

\* They can be counted, in every state of the right types.
LEMMA SlotsFinite == PoolTypeOK => Counted
<1>. HAVE PoolTypeOK
<1>1. Pooled \subseteq Containers /\ Slots \subseteq Containers \cup {None}
  BY LenProperties DEF PoolTypeOK, PoolTypes, Pooled, Slots, Idle, Held
<1>2. IsFiniteSet(Containers) /\ IsFiniteSet(Containers \cup {None}) /\ None \notin Containers
  BY PoolConstantsOK, FS_AddElement DEF PoolConstantsOK
<1>3. Live \subseteq Containers
  BY DEF Live
<1>4. IsFiniteSet(Pooled) /\ IsFiniteSet(Slots) /\ IsFiniteSet(Live)
  BY <1>1, <1>2, <1>3, FS_Subset
<1>. QED
  BY <1>1, <1>2, <1>4, FS_CardinalityType DEF Counted

\* A container that is created takes the place that was kept for it.
LEMMA CreatedTakesSlot ==
  ASSUME PoolTypeOK, NEW c \in Containers
  PROVE  Cardinality(Pooled \cup {c}) <= Cardinality(Pooled \cup {None})
<1>1. IsFiniteSet(Pooled) /\ None \notin Pooled
  BY SlotsFinite DEF Counted
<1>2. Cardinality(Pooled \cup {None}) = Cardinality(Pooled) + 1
  BY <1>1, FS_AddElement
<1>3. Cardinality(Pooled \cup {c}) \in {Cardinality(Pooled), Cardinality(Pooled) + 1}
  BY <1>1, FS_AddElement
<1>4. Cardinality(Pooled) \in Nat
  BY <1>1, FS_CardinalityType
<1>. QED
  BY <1>2, <1>3, <1>4

\* pool.get() takes a place only while fewer than max_size tasks have one.
LEMMA SlotStep ==
  ASSUME PoolTypeOK, PoolTypeOK', GetInv, HoldInv, CloseInv, SlotInv, [PoolNext]_poolVars
  PROVE  SlotInv'
<1>0. PoolTypes /\ PoolSize \in Nat
  BY PoolConstantsOK DEF PoolTypeOK, PoolConstantsOK
<1>1. ASSUME phase' = "listening" => phase = "listening", Slots' \subseteq Slots
      PROVE  SlotInv'
  <2>1. Cardinality(Slots') <= Cardinality(Slots)
    BY <1>1, SlotsFinite, FS_Subset DEF Counted
  <2>2. Cardinality(Slots') \in Nat /\ Cardinality(Slots) \in Nat
    BY <1>1, SlotsFinite, FS_Subset, FS_CardinalityType DEF Counted
  <2>. QED
    BY <1>0, <1>1, <2>1, <2>2 DEF SlotInv
<1>2. ASSUME UNCHANGED <<idle, holds>> PROVE Pooled' = Pooled
  BY <1>2 DEF Pooled, Idle, Held
<1>3. CASE UNCHANGED <<idle, holds, get, phase>>
  BY <1>1, <1>2, <1>3 DEF Slots
<1>4. ASSUME NEW d \in Deliveries, AskPool(d)
      PROVE  SlotInv'
  BY <1>1, <1>2, <1>4 DEF AskPool, Slots
<1>5. CASE TakeIdle
  <2>1. Idle = {Head(idle)} \cup Elems(idle')
    BY <1>0, <1>5, TailElems, IdleElems DEF TakeIdle, PoolTypes
  <2>2. Idle' = Elems(idle') /\ Held' = Held /\ UNCHANGED <<holds, phase>>
    BY <1>5 DEF TakeIdle, Idle, Elems, Held
  <2>3. get'.on = Head(idle)
    BY <1>0, <1>5 DEF TakeIdle, PoolTypes
  <2>4. Slots' \subseteq Slots
    BY <2>1, <2>2, <2>3 DEF Slots, Pooled
  <2>. QED
    BY <1>1, <2>2, <2>4
<1>6. CASE GrowPool
  <2>1. IsFiniteSet(Held)
    BY PoolConstantsOK, FS_Subset DEF Held, PoolConstantsOK
  <2>2. Pooled = {holds[d] : d \in Held} /\ Pooled' = Pooled
    BY <1>2, <1>6, NoElems, IdleElems DEF GrowPool, Pooled
  <2>3. Cardinality(Pooled) <= Cardinality(Held)
    <3>1. [d \in Held |-> holds[d]] \in Surjection(Held, Pooled)
      BY <2>2 DEF Surjection
    <3>. QED
      BY <2>1, <3>1, FS_Surjection
  <2>4. get'.at = "create" /\ get'.on = None
    BY <1>0, <1>6 DEF GrowPool, GetInv, PoolTypes
  <2>5. Slots' = Pooled \cup {None}
    BY <2>2, <2>4 DEF Slots
  <2>6. Cardinality(Slots') \in {Cardinality(Pooled), Cardinality(Pooled) + 1}
    BY <2>5, SlotsFinite, FS_AddElement DEF Counted
  <2>7. Cardinality(Pooled) \in Nat /\ Cardinality(Held) \in Nat
    BY <2>1, SlotsFinite, FS_CardinalityType DEF Counted
  <2>8. Cardinality(Held) < PoolSize
    BY <1>6 DEF GrowPool
  <2>. QED
    BY <1>0, <2>3, <2>6, <2>7, <2>8 DEF SlotInv
<1>7. CASE RecycleOk \/ StartContainer
  <2>1. Pooled' = Pooled \cup {get.on} /\ get' = NoGet /\ phase' = phase
    BY <1>7, HandOverEffect DEF RecycleOk, StartContainer
  <2>2. get.at \in {"inspect", "start"}
    BY <1>7 DEF RecycleOk, StartContainer
  <2>. QED
    BY <1>1, <2>1, <2>2 DEF Slots, NoGet
<1>8. CASE RecycleFails
  <2>1. get'.at = "slot"
    BY <1>0, <1>8 DEF RecycleFails, PoolTypes
  <2>. QED
    BY <1>1, <1>2, <1>8, <2>1 DEF RecycleFails, Slots
<1>9. ASSUME NEW c \in Containers, CreateContainer(c)
      PROVE  SlotInv'
  <2>1. /\ get'.at = "start" /\ get'.on = c /\ get.at = "create" /\ get.on = None
        /\ phase' = phase
    BY <1>0, <1>9 DEF CreateContainer, GetInv, PoolTypes
  <2>2. Slots' = Pooled \cup {c} /\ Slots = Pooled \cup {None}
    BY <1>2, <1>9, <2>1 DEF CreateContainer, Slots
  <2>3. Cardinality(Slots') <= Cardinality(Slots)
    BY <2>2, CreatedTakesSlot
  <2>4. Cardinality(Slots') \in Nat /\ Cardinality(Slots) \in Nat
    BY <2>2, SlotsFinite, FS_AddElement, FS_CardinalityType DEF Counted
  <2>. QED
    BY <1>0, <2>1, <2>3, <2>4 DEF SlotInv
<1>10. CASE phase' # "listening"
  BY <1>10 DEF SlotInv
<1>11. CASE GetFails \/ Signal \/ Over
  BY <1>10, <1>11, OverFrame DEF GetFails, Signal
<1>12. ASSUME NEW d \in Deliveries, Ends(d)
       PROVE  SlotInv'
  <2>1. Pooled' = Pooled /\ UNCHANGED <<get, phase>>
    BY <1>12, EndsFrame, GiveBackEffect
  <2>. QED
    BY <1>1, <2>1 DEF Slots
<1>. QED
  BY <1>3, <1>4, <1>5, <1>6, <1>7, <1>8, <1>9, <1>11, <1>12
  DEF PoolNext, PoolGet, Task, Teardown, Daemon, Ends, Over, poolVars,
      CloseNext, ProcessEnds, Die, Prune, StartExec, ExecEnds

\* Whatever dies, is pruned and replaced, the containers that are at the daemon
\* are no more than the places of the pool.
LEMMA LiveStep ==
  ASSUME PoolTypeOK, PoolTypeOK', GetInv, HoldInv, ListInv, CloseInv, SlotInv, SlotInv', LiveInv,
         "inspect" \notin PoolFaults, [PoolNext]_poolVars
  PROVE  LiveInv'
<1>0. PoolTypes /\ PoolSize \in Nat /\ None \notin Containers
  BY PoolConstantsOK DEF PoolTypeOK, PoolConstantsOK
<1>a. /\ IsFiniteSet(Live) /\ Cardinality(Live) \in Nat
      /\ IsFiniteSet(Slots) /\ Cardinality(Slots) \in Nat /\ Live \subseteq Containers
  BY SlotsFinite DEF Live, Counted
<1>b. /\ IsFiniteSet(Live') /\ Cardinality(Live') \in Nat
      /\ IsFiniteSet(Slots') /\ Cardinality(Slots') \in Nat
  <2>1. Counted'
    BY SlotsFinite, PTL
  <2>. QED
    BY <2>1 DEF Counted
<1>1. ASSUME phase' = "listening", Live' \subseteq Slots'
      PROVE  LiveInv'
  <2>1. Cardinality(Live') <= Cardinality(Slots')
    BY <1>1, <1>b, FS_Subset
  <2>. QED
    BY <1>0, <1>1, <1>b, <2>1 DEF SlotInv, LiveInv
<1>2. ASSUME phase' # "listening", Live' \subseteq Live
      PROVE  LiveInv'
  <2>1. Cardinality(Live') <= Cardinality(Live)
    BY <1>2, <1>a, FS_Subset
  <2>. QED
    BY <1>0, <1>2, <1>a, <1>b, <2>1 DEF LiveInv
<1>3. ASSUME Live' \subseteq Live, phase' = phase, Slots \subseteq Slots'
      PROVE  LiveInv'
  BY <1>1, <1>2, <1>3 DEF LiveInv
<1>4. ASSUME UNCHANGED docker PROVE Live' = Live
  BY <1>4 DEF Live
<1>5. ASSUME UNCHANGED <<idle, holds>> PROVE Pooled' = Pooled
  BY <1>5 DEF Pooled, Idle, Held
<1>6. CASE UNCHANGED <<docker, idle, holds, get, phase>>
  BY <1>3, <1>4, <1>5, <1>6 DEF Slots
<1>7. ASSUME NEW d \in Deliveries, AskPool(d)
      PROVE  LiveInv'
  BY <1>3, <1>4, <1>5, <1>7 DEF AskPool, Slots, NoGet
<1>8. CASE TakeIdle
  <2>1. Idle = {Head(idle)} \cup Elems(idle')
    BY <1>0, <1>8, TailElems, IdleElems DEF TakeIdle, PoolTypes
  <2>2. Idle' = Elems(idle') /\ Held' = Held /\ UNCHANGED <<holds, phase>>
    BY <1>8 DEF TakeIdle, Idle, Elems, Held
  <2>3. get'.on = Head(idle) /\ get'.at = "inspect" /\ get.at = "slot"
    BY <1>0, <1>8 DEF TakeIdle, PoolTypes
  <2>4. Slots' = Slots
    BY <2>1, <2>2, <2>3 DEF Slots, Pooled
  <2>. QED
    BY <1>3, <1>4, <1>8, <2>4 DEF TakeIdle
<1>9. CASE GrowPool
  BY <1>3, <1>4, <1>5, <1>9 DEF GrowPool, Slots
<1>10. CASE RecycleOk
  <2>1. Pooled' = Pooled \cup {get.on}
    BY <1>10, HandOverEffect DEF RecycleOk
  <2>. QED
    BY <1>3, <1>4, <1>10, <2>1 DEF RecycleOk, Slots
<1>11. CASE RecycleFails
  <2>1. /\ get.on \notin Live /\ Live' = Live /\ Pooled' = Pooled
        /\ phase' = "listening" /\ phase = "listening"
    BY <1>4, <1>5, <1>11 DEF RecycleFails, Live, GetInv
  <2>2. Live \subseteq Pooled \cup {get.on}
    BY <2>1 DEF LiveInv, Slots
  <2>3. Pooled' \subseteq Slots'
    BY DEF Slots
  <2>. QED
    BY <1>1, <2>1, <2>2, <2>3
<1>12. ASSUME NEW c \in Containers, CreateContainer(c)
       PROVE  LiveInv'
  <2>1. /\ get'.at = "start" /\ get'.on = c /\ get.at = "create" /\ get.on = None
        /\ phase = "listening" /\ phase' = "listening"
    BY <1>0, <1>12 DEF CreateContainer, GetInv, PoolTypes
  <2>2. Slots' = Pooled \cup {c} /\ Slots = Pooled \cup {None}
    BY <1>5, <1>12, <2>1 DEF CreateContainer, Slots
  <2>3. Live' \subseteq Live \cup {c}
    BY <1>0, <1>12 DEF CreateContainer, Live, PoolTypes
  <2>. QED
    BY <1>0, <1>1, <1>a, <2>1, <2>2, <2>3 DEF LiveInv
<1>13. CASE StartContainer
  <2>1. Pooled' = Pooled \cup {get.on} /\ get.at = "start" /\ phase' = phase
        /\ phase = "listening"
    BY <1>13, HandOverEffect DEF StartContainer, GetInv
  <2>2. Live' \subseteq Live \cup {get.on}
    BY <1>0, <1>13 DEF StartContainer, Live, PoolTypes
  <2>. QED
    BY <1>1, <2>1, <2>2 DEF LiveInv, Slots
<1>14. CASE GetFails
  BY <1>2, <1>4, <1>14 DEF GetFails
<1>15. ASSUME NEW d \in Deliveries, Ends(d)
       PROVE  LiveInv'
  <2>1. Pooled' = Pooled /\ UNCHANGED <<docker, get, phase>>
    BY <1>15, EndsFrame, GiveBackEffect
  <2>. QED
    BY <1>3, <1>4, <2>1 DEF Slots
<1>16. CASE Signal \/ Over
  <2>0. phase' # "listening" /\ RequestLands
    BY <1>16, OverFrame DEF Signal
  <2>1. CASE docker' = docker
    BY <1>2, <1>4, <2>0, <2>1
  <2>2. ASSUME NEW c \in Containers, NEW state \in {"created", "running"},
               phase = "listening", get.at = "create", docker' = [docker EXCEPT ![c] = state]
        PROVE  LiveInv'
    <3>1. Live \subseteq Pooled /\ Slots = Pooled \cup {None}
      BY <1>0, <1>a, <2>2 DEF LiveInv, Slots, GetInv
    <3>2. Live' \subseteq Pooled \cup {c}
      BY <1>0, <2>2, <3>1 DEF Live, PoolTypes
    <3>3. /\ Cardinality(Live') <= Cardinality(Pooled \cup {c})
          /\ Cardinality(Pooled \cup {c}) \in Nat
      BY <3>2, SlotsFinite, FS_AddElement, FS_Subset, FS_CardinalityType DEF Counted
    <3>4. Cardinality(Pooled \cup {c}) <= Cardinality(Slots)
      BY <3>1, CreatedTakesSlot
    <3>. QED
      BY <1>0, <1>a, <1>b, <2>0, <2>2, <3>3, <3>4 DEF SlotInv, LiveInv
  <2>3. ASSUME NEW c \in Containers, NEW state \in {"created", "running"},
               docker[c] = "created", docker' = [docker EXCEPT ![c] = state]
        PROVE  LiveInv'
    <3>1. Live' \subseteq Live
      BY <1>0, <2>3 DEF Live, PoolTypes
    <3>. QED
      BY <1>2, <2>0, <3>1
  <2>. QED
    BY <2>0, <2>1, <2>2, <2>3, RequestEffect
<1>17. CASE CloseNext
  <2>1. PICK state \in DockerState : Tried(Head(left), state)
    BY <1>17, CloseEffect
  <2>2. Live' \subseteq Live
    BY <1>0, <2>1 DEF Tried, Live, PoolTypes
  <2>. QED
    BY <1>2, <1>17, <2>2 DEF CloseNext, CloseInv
<1>18. ASSUME NEW c \in Containers, Happens(c)
       PROVE  LiveInv'
  <2>1. Live' \subseteq Live
    BY <1>0, <1>18 DEF Happens, ProcessEnds, Die, Prune, Live, PoolTypes
  <2>. QED
    BY <1>3, <1>5, <1>18, <2>1 DEF Happens, ProcessEnds, Die, Prune, Slots
<1>. QED
  BY <1>6, <1>7, <1>8, <1>9, <1>10, <1>11, <1>12, <1>13, <1>14, <1>15, <1>16, <1>17, <1>18
  DEF PoolNext, PoolGet, Task, Teardown, Daemon, Ends, Happens, Over, poolVars, StartExec, ExecEnds

-----------------------------------------------------------------------------
(* The invariant, and what follows from it. *)

\* Nothing is at the daemon and nothing is asked of the pool.
LEMMA InitPoolInv == PoolInit => PoolInv
<1>. HAVE PoolInit
<1>1. /\ Idle = {} /\ Held = {} /\ Listed = {} /\ Left = {} /\ Pooled = {} /\ Slots = {} /\ Live = {}
      /\ Distinct(idle)
  BY NoElems DEF PoolInit, Idle, Held, Listed, Left, Pooled, Slots, Live, Elems, NoGet
<1>2. PoolTypeOK
  BY <1>1, EmptySeq DEF PoolInit, PoolTypeOK, PoolTypes, OneOwner, Distinct, NoGet, DockerState,
                        GetStage, TaskStage
<1>3. GetInv /\ HoldInv /\ InsideInv /\ ListInv /\ CloseInv
  BY <1>1 DEF PoolInit, GetInv, HoldInv, InsideInv, ListInv, CloseInv, NoGet
<1>4. SlotInv /\ LiveInv
  BY <1>1, PoolConstantsOK, FS_EmptySet DEF SlotInv, LiveInv, PoolConstantsOK
<1>. QED
  BY <1>2, <1>3, <1>4 DEF PoolInv

\* Every step keeps every part.
LEMMA NextPoolInv == PoolInv /\ [PoolNext]_poolVars => PoolInv'
<1>. HAVE PoolInv /\ [PoolNext]_poolVars
<1>1. PoolTypeOK'
  BY TypeStep DEF PoolInv
<1>2. SlotInv'
  BY <1>1, SlotStep DEF PoolInv
<1>3. LiveInv'
  <2>1. CASE "inspect" \in PoolFaults
    BY <2>1 DEF LiveInv
  <2>. QED
    BY <1>1, <1>2, <2>1, LiveStep DEF PoolInv
<1>4. GetInv'
  BY GetStep DEF PoolInv
<1>5. HoldInv'
  BY HoldStep DEF PoolInv
<1>6. InsideInv'
  BY InsideStep DEF PoolInv
<1>7. ListInv' /\ CloseInv'
  BY ListStep, CloseStep DEF PoolInv
<1>. QED
  BY <1>1, <1>2, <1>3, <1>4, <1>5, <1>6, <1>7 DEF PoolInv

\* PoolInv holds throughout: every container that Docker knows of is with an
\* object of the pool, in the list, or the one on its way to it.
THEOREM PoolInvariance == PoolSpec => []PoolInv
BY InitPoolInv, NextPoolInv, PTL DEF PoolSpec

\* Every object of the pool is at one place: idle once, with pool.get(), or
\* with one task.  An Object is never returned twice.
THEOREM OwnedByOne == PoolSpec => []PoolTypeOK
<1>1. PoolInv => PoolTypeOK
  BY DEF PoolInv
<1>. QED
  BY <1>1, PoolInvariance, PTL

\* Two run_exec never share a container, because each runs in the one its task
\* holds and no two tasks hold the same.
THEOREM NoSharedContainer == PoolSpec => []Exclusive
<1>1. PoolInv => Exclusive
  <2>. SUFFICES ASSUME PoolInv, NEW c \in Containers, NEW d \in inside[c], NEW e \in inside[c],
                       task[d] = "exec", task[e] = "exec"
                PROVE  d = e
    BY DEF Exclusive
  <2>1. d \in Deliveries /\ e \in Deliveries /\ holds[d] = c /\ holds[e] = c /\ c # None
    BY PoolConstantsOK DEF PoolInv, PoolTypeOK, PoolTypes, InsideInv, PoolConstantsOK
  <2>. QED
    BY <2>1 DEF PoolInv, PoolTypeOK, OneOwner, Held
<1>. QED
  BY <1>1, PoolInvariance, PTL

\* As long as the daemon kills and removes what it is told to, close() removes
\* every container of the list before execute returns, whatever becomes of them
\* meanwhile.  (Its errors are dropped, so without that it leaves those that it
\* could not remove: AtMostOneLeaks.)
THEOREM CloseLeavesNone ==
  ASSUME {"kill", "remove"} \cap PoolFaults = {}
  PROVE  PoolSpec => []ClosedClean
<1>1. PoolInv => ClosedClean
  BY NoElems DEF PoolInv, CloseInv, ClosedClean, Listed, Left, Elems
<1>. QED
  BY <1>1, PoolInvariance, PTL

\* However the listen loop ends and whichever calls of close() fail, each
\* container of the list is tried: besides those that could not be removed, at
\* most one outlives a process that is not killed, the one that was being created
\* or started and is in nobody's list.
THEOREM AtMostOneLeaks == PoolSpec => []LeakBound
<1>1. PoolInv => LeakBound
  <2>. SUFFICES ASSUME PoolInv, phase = "gone"
                PROVE  Cardinality(Live \ stuck) <= 1
    <3>1. {c \in Containers \ stuck : docker[c] \notin {"unborn", "removed"}} = Live \ stuck
      BY DEF Live
    <3>. QED
      BY <3>1 DEF LeakBound
  <2>1. Left = {}
    BY NoElems DEF PoolInv, CloseInv, Left, Elems
  <2>2. \A c \in Live \ stuck : c \in Containers \ Listed /\ docker[c] # "unborn"
    BY <2>1 DEF PoolInv, CloseInv, Live
  <2>3. \A c, d \in Live \ stuck : c = d
    BY <2>2 DEF PoolInv, ListInv
  <2>4. CASE Live \ stuck = {}
    BY <2>4, FS_EmptySet
  <2>5. ASSUME NEW c \in Live \ stuck
        PROVE  Cardinality(Live \ stuck) <= 1
    <3>1. Live \ stuck = {c}
      BY <2>3, <2>5
    <3>2. Cardinality({c}) = 1
      BY FS_Singleton
    <3>. QED
      BY <3>1, <3>2
  <2>. QED
    BY <2>4, <2>5
<1>. QED
  BY <1>1, PoolInvariance, PTL

\* As long as inspect_container fails only for a container that is gone, no
\* more than max_size of the worker's containers run at once, whichever died,
\* were removed and replaced.  (Where it fails for another reason, the pool
\* forgets a container that runs and creates one more.)
THEOREM RunningBounded ==
  ASSUME "inspect" \notin PoolFaults
  PROVE  PoolSpec => []RunningBound
<1>1. PoolInv => RunningBound
  <2>. SUFFICES ASSUME PoolInv PROVE RunningBound
    OBVIOUS
  <2>. DEFINE Running == {c \in Containers : docker[c] = "running"}
  <2>1. Running \subseteq Live
    BY DEF Live
  <2>2. IsFiniteSet(Live) /\ Cardinality(Live) \in Nat /\ Cardinality(Live) <= PoolSize
    BY SlotsFinite DEF PoolInv, LiveInv, Counted
  <2>3. Cardinality(Running) <= Cardinality(Live) /\ Cardinality(Running) \in Nat
    BY <2>1, <2>2, FS_Subset, FS_CardinalityType
  <2>4. Cardinality(Running) <= PoolSize
    <3>. HIDE DEF Running
    <3>. QED
      BY <2>2, <2>3, PoolConstantsOK DEF PoolConstantsOK
  <2>. QED
    BY <2>4 DEF RunningBound
<1>. QED
  BY <1>1, PoolInvariance, PTL

-----------------------------------------------------------------------------
(* The pool implements Lending.                                             *)

\* What Lending sees of a task, and of the daemon.
Served(d) ==
  IF task[d] = "new" THEN "waiting" ELSE IF task[d] = "done" THEN "over" ELSE "using"

Removed == {c \in Containers : docker[c] = "removed"}

\* A step that nobody can see from outside.
LEMMA LendingStutter ==
  ASSUME UNCHANGED <<holds, phase, stuck>>, Listed' = Listed, Removed' = Removed,
         \A d \in Deliveries : Served(d)' = Served(d)
  PROVE  UNCHANGED L!lendingVars
BY DEF L!lendingVars, Listed, Removed, Served

\* pool.get() still has, when it returns, the permit it took several awaits
\* before, and what it returns is there and with nobody.
LEMMA PermitHeld ==
  ASSUME PoolTypeOK, GetInv, HoldInv, SlotInv, get.at \in {"inspect", "start"}
  PROVE  /\ Cardinality(Held) < PoolSize
         /\ \A d \in Deliveries : holds[d] # get.on
<1>. DEFINE H == {holds[d] : d \in Held}
<1>1. get.on \in Containers /\ get.on # None /\ phase = "listening"
  BY PoolConstantsOK DEF GetInv, PoolConstantsOK
<1>2. \A d \in Deliveries : holds[d] # get.on
  BY <1>1 DEF PoolTypeOK, OneOwner, Held
<1>3. get.on \notin H
  BY <1>2 DEF Held
<1>4. H \subseteq Pooled /\ IsFiniteSet(H) /\ IsFiniteSet(Slots)
  BY SlotsFinite, FS_Subset DEF Counted, Pooled
<1>5. Cardinality(Held) <= Cardinality(H)
  <2>1. [d \in Held |-> holds[d]] \in Injection(Held, H)
    BY DEF PoolTypeOK, OneOwner, Injection, IsInjective
  <2>. HIDE DEF H
  <2>. QED
    BY <1>4, <2>1, FS_Injection
<1>6. IsFiniteSet(Held)
  BY PoolConstantsOK, FS_Subset DEF Held, PoolConstantsOK
<1>7. H \cup {get.on} \subseteq Slots
  BY <1>4 DEF Slots
<1>8. Cardinality(H \cup {get.on}) = Cardinality(H) + 1
  <2>. HIDE DEF H
  <2>. QED
    BY <1>3, <1>4, FS_AddElement
<1>9. Cardinality(H \cup {get.on}) <= Cardinality(Slots)
  <2>. HIDE DEF H
  <2>. QED
    BY <1>4, <1>7, FS_Subset
<1>10. /\ Cardinality(H) \in Nat /\ Cardinality(Held) \in Nat /\ Cardinality(Slots) \in Nat
       /\ PoolSize \in Nat
  <2>. HIDE DEF H
  <2>. QED
    BY <1>4, <1>6, FS_CardinalityType, PoolConstantsOK DEF PoolConstantsOK
<1>11. Cardinality(Slots) <= PoolSize
  BY <1>1 DEF SlotInv
<1>12. Cardinality(Held) < PoolSize
  <2>. HIDE DEF H
  <2>. QED
    BY <1>5, <1>8, <1>9, <1>10, <1>11
<1>. QED
  BY <1>2, <1>12

\* Handing an object over lends it, or spares it.
LEMMA HandOverLends ==
  ASSUME PoolTypeOK, GetInv, HoldInv, SlotInv, get.at \in {"inspect", "start"},
         HandOver(get.on), UNCHANGED <<phase, stuck>>, docker[get.on] # "removed",
         Listed' = Listed \cup {get.on}, Removed' = Removed
  PROVE  L!Next
<1>0. PICK c \in Containers, d \in Deliveries : c = get.on /\ d = get.for
  BY DEF GetInv
<1>1. /\ task[d] = "new" /\ phase = "listening" /\ docker[c] # "removed"
      /\ task \in [Deliveries -> TaskStage] /\ holds \in [Deliveries -> Containers \cup {None}]
      /\ Listed' = Listed \cup {c}
  BY <1>0 DEF GetInv, PoolTypeOK, PoolTypes
<1>2. L!Available(d, c)
  <2>1. L!Cardinality(L!Borrowers) < PoolSize
    <3>1. L!Borrowers = Held /\ L!Cardinality(Held) = Cardinality(Held)
      BY DEF L!Borrowers, Held, L!Cardinality, Cardinality
    <3>. QED
      BY <3>1, PermitHeld
  <2>2. \A e \in Deliveries : holds[e] # c
    BY <1>0, PermitHeld
  <2>. QED
    BY <1>1, <2>1, <2>2 DEF L!Available
<1>3. CASE task' = [task EXCEPT ![d] = "fetch"] /\ holds' = [holds EXCEPT ![d] = c]
  <2>1. Served(d)' = "using" /\ \A e \in Deliveries : e # d => Served(e)' = Served(e)
    BY <1>1, <1>3 DEF Served
  <2>2. L!Lend(d, c)
    BY <1>1, <1>2, <1>3, <2>1 DEF L!Lend, Served, Listed, Removed
  <2>. QED
    BY <1>1, <2>2 DEF L!Next
<1>4. CASE task' = [task EXCEPT ![d] = "done"] /\ UNCHANGED holds
  <2>1. Served(d)' = "over" /\ \A e \in Deliveries : e # d => Served(e)' = Served(e)
    BY <1>1, <1>4 DEF Served
  <2>2. L!Spare(d, c)
    BY <1>1, <1>2, <1>4, <2>1 DEF L!Spare, Served, Listed, Removed
  <2>. QED
    BY <1>1, <2>2 DEF L!Next
<1>. QED
  BY <1>0, <1>3, <1>4 DEF HandOver

\* Every step of the pool is one of Lending, or is not seen.
LEMMA NextLending ==
  ASSUME PoolInv, [PoolNext]_poolVars
  PROVE  [L!Next]_(L!lendingVars)
<1>0. /\ PoolTypeOK /\ PoolTypes /\ GetInv /\ HoldInv /\ ListInv /\ CloseInv /\ SlotInv
      /\ task \in [Deliveries -> TaskStage] /\ docker \in [Containers -> DockerState]
      /\ holds \in [Deliveries -> Containers \cup {None}]
  BY DEF PoolInv, PoolTypeOK, PoolTypes
<1>1. CASE UNCHANGED <<docker, containers, task, holds, phase, stuck>>
  BY <1>1, LendingStutter DEF Listed, Removed, Served
<1>2. CASE RecycleOk
  <2>1. get.on \in Listed /\ Listed' = Listed /\ Removed' = Removed
    BY <1>0, <1>2 DEF RecycleOk, ListInv, Listed, Removed
  <2>2. Listed' = Listed \cup {get.on}
    BY <2>1
  <2>3. docker[get.on] # "removed"
    BY <1>2 DEF RecycleOk
  <2>. QED
    BY <1>0, <1>2, <2>1, <2>2, <2>3, HandOverLends DEF RecycleOk
<1>3. CASE StartContainer
  <2>1. get.on \in Containers /\ docker[get.on] = "created"
    BY <1>0, <1>3 DEF StartContainer, GetInv, ListInv
  <2>2. Removed' = Removed
    BY <1>0, <1>3, <2>1 DEF StartContainer, Removed
  <2>3. Listed' = Listed \cup {get.on}
    <3>1. Elems(containers') = Elems(containers) \cup {get.on}
      BY <1>0, <1>3, <2>1, AppendElems DEF StartContainer, PoolTypes
    <3>. QED
      BY <3>1 DEF Listed, Elems
  <2>. QED
    BY <1>0, <1>3, <2>1, <2>2, <2>3, HandOverLends DEF StartContainer
<1>4. ASSUME NEW c \in Containers, CreateContainer(c)
      PROVE  [L!Next]_(L!lendingVars)
  <2>1. Removed' = Removed
    BY <1>0, <1>4 DEF CreateContainer, Removed
  <2>. QED
    BY <1>4, <2>1, LendingStutter DEF CreateContainer, Listed, Served
<1>5. ASSUME RequestLands PROVE Removed' = Removed
  BY <1>0, <1>5, RequestEffect DEF Removed
<1>6. CASE GetFails \/ Signal
  <2>1. Removed' = Removed
    BY <1>5, <1>6 DEF GetFails, Signal, Removed
  <2>2. /\ UNCHANGED <<task, holds, containers, stuck>>
        /\ phase' # "listening"
    BY <1>6 DEF GetFails, Signal
  <2>3. L!Shut
    BY <2>1, <2>2 DEF L!Shut, Removed
  <2>. QED
    BY <2>3 DEF L!Next
<1>7. ASSUME NEW d \in Deliveries, StartExec(d) \/ ExecEnds(d)
      PROVE  [L!Next]_(L!lendingVars)
  <2>1. \A e \in Deliveries : Served(e)' = Served(e)
    BY <1>0, <1>7 DEF StartExec, ExecEnds, Served
  <2>. QED
    BY <1>7, <2>1, LendingStutter DEF StartExec, ExecEnds, Listed, Removed
<1>8. ASSUME NEW d \in Deliveries, Ends(d)
      PROVE  [L!Next]_(L!lendingVars)
  <2>1. d \in Held /\ GiveBack(d) /\ UNCHANGED <<docker, containers, phase, stuck>>
    BY <1>0, <1>8, EndsFrame
  <2>2. Served(d) = "using"
    BY <1>0, <2>1 DEF HoldInv, Held, Served
  <2>3. Served(d)' = "over" /\ \A e \in Deliveries : e # d => Served(e)' = Served(e)
    BY <1>0, <2>1 DEF GiveBack, Served
  <2>4. L!Return(d)
    BY <1>0, <2>1, <2>2, <2>3 DEF L!Return, GiveBack, Served
  <2>. QED
    BY <2>4 DEF L!Next
<1>9. ASSUME NEW c \in Containers,
             docker' = [docker EXCEPT ![c] = "removed"],
             UNCHANGED <<containers, task, holds, phase, stuck>>
      PROVE  [L!Next]_(L!lendingVars)
  <2>1. Removed' = Removed \cup {c}
    BY <1>0, <1>9 DEF Removed
  <2>2. L!Remove(c)
    BY <1>9, <2>1 DEF L!Remove, Removed
  <2>. QED
    BY <2>2 DEF L!Next
<1>10. CASE CloseNext
  <2>1. PICK c \in Containers, state \in DockerState : c = Head(left) /\ Tried(c, state)
    BY <1>0, <1>10, CloseEffect
  <2>2. UNCHANGED <<containers, task, holds, phase>> /\ left # <<>>
    BY <1>10 DEF CloseNext
  <2>3. CASE state = "removed"
    BY <1>9, <2>1, <2>2, <2>3 DEF Tried
  <2>4. CASE state # "removed"
    <3>1. Removed' = Removed /\ stuck' = stuck \cup {c}
      BY <1>0, <2>1, <2>4 DEF Tried, Removed
    <3>2. c \in Listed /\ phase # "listening"
      <4>1. c \in Elems(left)
        BY <1>0, <2>1, <2>2, TailElems DEF PoolTypes
      <4>. QED
        BY <1>0, <2>2, <4>1, IdleElems DEF CloseInv
    <3>3. L!Refuse(c)
      BY <2>2, <3>1, <3>2 DEF L!Refuse, Listed, Removed
    <3>. QED
      BY <3>3 DEF L!Next
  <2>. QED
    BY <2>3, <2>4
<1>11. ASSUME NEW c \in Containers, Prune(c)
       PROVE  [L!Next]_(L!lendingVars)
  BY <1>9, <1>11 DEF Prune
<1>12. ASSUME NEW c \in Containers, Die(c)
       PROVE  [L!Next]_(L!lendingVars)
  <2>1. Removed' = Removed
    BY <1>0, <1>12 DEF Die, Removed
  <2>. QED
    BY <1>12, <2>1, LendingStutter DEF Die, Listed, Served
<1>13. CASE EndExecute
  <2>1. Left = {}
    BY <1>13, NoElems DEF EndExecute, Left, Elems
  <2>2. Listed \subseteq Containers
    BY <1>0, LenProperties DEF PoolTypes, Listed
  <2>3. Listed \subseteq Removed \cup stuck /\ phase # "listening" /\ phase' # "listening"
    BY <1>0, <1>13, <2>1, <2>2 DEF EndExecute, Vanish, CloseInv, Removed
  <2>4. L!Finish
    BY <1>13 DEF EndExecute, Vanish, L!Finish
  <2>5. L!End
    BY <2>3, <2>4 DEF L!End, Listed, Removed
  <2>. QED
    BY <2>5 DEF L!Next
<1>14. CASE Crash
  <2>1. Removed' = Removed
    BY <1>5, <1>14 DEF Crash
  <2>2. L!Finish
    BY <1>14, <2>1 DEF Crash, Vanish, L!Finish, Removed
  <2>3. L!Crash
    BY <1>14, <2>2 DEF Crash, Vanish, L!Crash
  <2>. QED
    BY <2>3 DEF L!Next
<1>. QED
  BY <1>1, <1>2, <1>3, <1>4, <1>6, <1>7, <1>8, <1>10, <1>11, <1>12, <1>13, <1>14
  DEF PoolNext, PoolGet, Task, Teardown, Daemon, Ends, poolVars, AskPool, TakeIdle, GrowPool,
      RecycleFails, ProcessEnds

\* The pool implements Lending: a container is lent to one task at a time and
\* to at most max_size, only while it exists and nobody tears the pool down;
\* and unless it is killed, the process ends only when the removal of everything
\* it lent has been tried.
THEOREM ImplementsLending == PoolSpec => LendingSpec
<1>1. PoolInit => L!Init
  BY NoElems DEF PoolInit, L!Init, Elems
<1>2. PoolInv /\ [PoolNext]_poolVars => [L!Next]_(L!lendingVars)
  BY NextLending
<1>. QED
  BY <1>1, <1>2, PoolInvariance, PTL DEF PoolSpec, LendingSpec, L!Spec
=============================================================================
