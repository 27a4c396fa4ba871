---------------------------- MODULE ContainerPool ----------------------------
(***************************************************************************)
(* The containers of one worker process, from the first pool.get() to the  *)
(* teardown (worker/src/pool.rs, worker/src/docker.rs, and their use in    *)
(* worker/src/executer.rs).  Worker counts the pool's permits; here each   *)
(* container has a life of its own at Docker, which goes on when the       *)
(* future that drives it is dropped.                                       *)
(*                                                                         *)
(* External, modelled from its use here: deadpool's managed pool (permits, *)
(* a FIFO of idle objects, an object returned when it is dropped) and the  *)
(* Docker daemon.                                                          *)
(***************************************************************************)
EXTENDS Sequences, FiniteSets, Naturals

CONSTANTS
  Containers,   \* container ids
  Deliveries,   \* what the listen loop takes from its consumer
  PoolSize,     \* max_size of the pool
  PoolFaults,   \* which faults the environment may inject
  None          \* "no container"

PoolFaultKind ==
  { "create",    \* create_container fails at the daemon
    "start",     \* start_container fails
    "inspect",   \* inspect_container fails although the container is there
    "die",       \* a container stops by itself
    "prune",     \* somebody removes a stopped container
    "exec",      \* run_exec fails or panics while its process goes on
    "kill",      \* kill_container fails although the container runs
    "remove",    \* remove_container fails although the container is stopped
    "crash" }    \* the worker process is killed

ASSUME PoolConstantsOK ==
  /\ IsFiniteSet(Containers) /\ IsFiniteSet(Deliveries)
  /\ None \notin Containers
  /\ PoolSize \in Nat \ {0}
  /\ PoolFaults \subseteq PoolFaultKind

VARIABLES
  docker,       \* docker[c]: state of c at the daemon
  inside,       \* inside[c]: deliveries with a process running in c
  containers,   \* ContainerGroup.containers
  idle,         \* objects in the pool, oldest first
  get,          \* the pool.get() of the listen loop: where it is, on what, for what
  task,         \* task[d]: where the task of d is
  holds,        \* holds[d]: container of the Object the task of d owns
  phase,        \* where `execute` is
  left,         \* what close() has yet to do, in order
  stuck         \* what it could not remove (history)

poolVars == <<docker, inside, containers, idle, get, task, holds, phase, left, stuck>>

DockerState == {"unborn", "created", "running", "stopped", "removed"}

\* fetch: before the exec.  exec: in run_exec.  update: after it.
TaskStage == {"new", "fetch", "exec", "update", "done"}

\* slot: waiting for a permit.  The others are awaits on the daemon.
GetStage == {"none", "slot", "inspect", "create", "start"}

NoGet == [at |-> "none", on |-> None, for |-> None]

Held == {d \in Deliveries : holds[d] # None}

PoolInit ==
  /\ docker = [c \in Containers |-> "unborn"]
  /\ inside = [c \in Containers |-> {}]
  /\ containers = <<>>
  /\ idle = <<>>
  /\ get = NoGet
  /\ task = [d \in Deliveries |-> "new"]
  /\ holds = [d \in Deliveries |-> None]
  /\ phase = "listening"
  /\ left = <<>>
  /\ stuck = {}

-----------------------------------------------------------------------------
(* pool.get() in the listen loop.                                           *)

AskPool(d) ==
  /\ phase = "listening" /\ get = NoGet
  /\ task[d] = "new"
  /\ get' = [at |-> "slot", on |-> None, for |-> d]
  /\ UNCHANGED <<docker, inside, containers, idle, task, holds, phase, left, stuck>>

\* A permit is free: the oldest idle object is tried, or a container created.
TakeIdle ==
  /\ get.at = "slot"
  /\ Cardinality(Held) < PoolSize
  /\ idle # <<>>
  /\ get' = [get EXCEPT !.at = "inspect", !.on = Head(idle)]
  /\ idle' = Tail(idle)
  /\ UNCHANGED <<docker, inside, containers, task, holds, phase, left, stuck>>

GrowPool ==
  /\ get.at = "slot"
  /\ Cardinality(Held) < PoolSize
  /\ idle = <<>>
  /\ get' = [get EXCEPT !.at = "create"]
  /\ UNCHANGED <<docker, inside, containers, idle, task, holds, phase, left, stuck>>

\* pool.get() has returned c: the task is spawned with it, or the message does
\* not parse and the object is dropped.
HandOver(c) ==
  /\ get' = NoGet
  /\ \/ /\ task' = [task EXCEPT ![get.for] = "fetch"]
        /\ holds' = [holds EXCEPT ![get.for] = c]
        /\ UNCHANGED idle
     \/ /\ task' = [task EXCEPT ![get.for] = "done"]
        /\ idle' = Append(idle, c)
        /\ UNCHANGED holds

\* Mutant of RecycleOk: recycle() does not ask.
RecycleUnasked ==
  /\ get.at = "inspect"
  /\ HandOver(get.on)
  /\ UNCHANGED <<docker, inside, containers, phase, left, stuck>>

\* recycle() asks whether the container exists, running or not.
RecycleOk ==
  /\ get.at = "inspect"
  /\ docker[get.on] \in {"created", "running", "stopped"}
  /\ HandOver(get.on)
  /\ UNCHANGED <<docker, inside, containers, phase, left, stuck>>

\* Mutant of RecycleFails: a container that is in order is turned down.
RecycleFailsAlive ==
  /\ get.at = "inspect"
  /\ get' = [get EXCEPT !.at = "slot", !.on = None]
  /\ UNCHANGED <<docker, inside, containers, idle, task, holds, phase, left, stuck>>

\* The object is dropped and the pool looks for another one.
RecycleFails ==
  /\ get.at = "inspect"
  /\ docker[get.on] = "removed" \/ "inspect" \in PoolFaults
  /\ get' = [get EXCEPT !.at = "slot", !.on = None]
  /\ UNCHANGED <<docker, inside, containers, idle, task, holds, phase, left, stuck>>

CreateContainer(c) ==
  /\ get.at = "create"
  /\ docker[c] = "unborn"
  /\ docker' = [docker EXCEPT ![c] = "created"]
  /\ get' = [get EXCEPT !.at = "start", !.on = c]
  /\ UNCHANGED <<inside, containers, idle, task, holds, phase, left, stuck>>

\* Mutant of StartContainer: create() does not enter the container in the list.
StartContainerUnlisted ==
  /\ get.at = "start"
  /\ docker' = [docker EXCEPT ![get.on] = "running"]
  /\ HandOver(get.on)
  /\ UNCHANGED <<inside, containers, phase, left, stuck>>

\* The container runs and is entered in the list; the lock is free, because
\* only close() holds it for longer.
StartContainer ==
  /\ get.at = "start"
  /\ docker' = [docker EXCEPT ![get.on] = "running"]
  /\ containers' = Append(containers, get.on)
  /\ HandOver(get.on)
  /\ UNCHANGED <<inside, phase, left, stuck>>

\* The error leaves the listen loop; its branch of the select! runs close().
GetFails ==
  /\ \/ get.at = "create" /\ "create" \in PoolFaults
     \/ get.at = "start" /\ "start" \in PoolFaults
  /\ get' = NoGet
  /\ phase' = "failed"
  /\ left' = containers
  /\ UNCHANGED <<docker, inside, containers, idle, task, holds, stuck>>

-----------------------------------------------------------------------------
(* The task that owns a container.                                          *)

\* The object is dropped: back to the pool it goes, whatever runs inside.
GiveBack(d) ==
  /\ holds' = [holds EXCEPT ![d] = None]
  /\ idle' = Append(idle, holds[d])
  /\ task' = [task EXCEPT ![d] = "done"]

\* Mutant of StartExec: the task keeps the id and drops the object.
StartExecDropsObject(d) ==
  /\ task[d] = "fetch"
  /\ docker[holds[d]] = "running"
  /\ inside' = [inside EXCEPT ![holds[d]] = @ \cup {d}]
  /\ task' = [task EXCEPT ![d] = "exec"]
  /\ idle' = Append(idle, holds[d])
  /\ holds' = [holds EXCEPT ![d] = None]
  /\ UNCHANGED <<docker, containers, get, phase, left, stuck>>

StartExec(d) ==
  /\ task[d] = "fetch" /\ phase # "cancelled"
  /\ docker[holds[d]] = "running"
  /\ inside' = [inside EXCEPT ![holds[d]] = @ \cup {d}]
  /\ task' = [task EXCEPT ![d] = "exec"]
  /\ UNCHANGED <<docker, containers, idle, get, holds, phase, left, stuck>>

\* The testcase cannot be fetched, or the daemon refuses the exec.
StartExecFails(d) ==
  /\ task[d] = "fetch"
  /\ GiveBack(d)
  /\ UNCHANGED <<docker, inside, containers, get, phase, left, stuck>>

\* The process has ended, by itself or with its container, and run_exec has
\* the exit code.
ExecEnds(d) ==
  /\ task[d] = "exec" /\ phase # "cancelled"
  /\ inside' = [inside EXCEPT ![holds[d]] = @ \ {d}]
  /\ task' = [task EXCEPT ![d] = "update"]
  /\ UNCHANGED <<docker, containers, idle, get, holds, phase, left, stuck>>

\* run_exec fails or panics with the process still running.
ExecBreaks(d) ==
  /\ "exec" \in PoolFaults
  /\ task[d] = "exec"
  /\ GiveBack(d)
  /\ UNCHANGED <<docker, inside, containers, get, phase, left, stuck>>

\* Mutant of TaskEnds: the object is taken out of the pool's sight and kept.
TaskEndsKeeping(d) ==
  /\ task[d] = "update"
  /\ task' = [task EXCEPT ![d] = "done"]
  /\ UNCHANGED <<docker, inside, containers, idle, get, holds, phase, left, stuck>>

\* Mutant of TaskEnds: the object is put back by hand and by its drop.
TaskEndsTwice(d) ==
  /\ task[d] = "update"
  /\ holds' = [holds EXCEPT ![d] = None]
  /\ idle' = idle \o <<holds[d], holds[d]>>
  /\ task' = [task EXCEPT ![d] = "done"]
  /\ UNCHANGED <<docker, inside, containers, get, phase, left, stuck>>

\* The row is written, or not: handle_message returns.
TaskEnds(d) ==
  /\ task[d] = "update"
  /\ GiveBack(d)
  /\ UNCHANGED <<docker, inside, containers, get, phase, left, stuck>>

\* The cancelled token drops handle_message wherever it is.
CancelTask(d) ==
  /\ phase = "cancelled"
  /\ holds[d] # None
  /\ GiveBack(d)
  /\ UNCHANGED <<docker, inside, containers, get, phase, left, stuck>>

-----------------------------------------------------------------------------
(* The teardown: select! and close().                                       *)

\* A request that nobody awaits any more may have reached the daemon, or not.
RequestLands ==
  \/ UNCHANGED docker
  \/ /\ get.at = "create"
     /\ \E c \in Containers : docker[c] = "unborn" /\ docker' = [docker EXCEPT ![c] = "created"]
  \/ /\ get.at = "start"
     /\ docker' = [docker EXCEPT ![get.on] = "running"]

\* A signal drops the listen future.
Signal ==
  /\ phase = "listening"
  /\ phase' = "cancelled"
  /\ left' = containers
  /\ get' = NoGet
  /\ RequestLands
  /\ UNCHANGED <<inside, containers, idle, task, holds, stuck>>

\* What kill_container and then remove_container, without `force`, may leave of a
\* container.  The one fails if it does not run, the other if it does.
AfterKill(before, after) ==
  \/ before = "running" /\ after = "stopped"
  \/ (before # "running" \/ "kill" \in PoolFaults) /\ after = before

AfterRemove(before, after) ==
  \/ before # "running" /\ after = "removed"
  \/ (before = "running" \/ "remove" \in PoolFaults) /\ after = before

\* One round of close(), for c: its processes end if it was killed.
CloseOne(c) ==
  \E killed, removed \in DockerState :
    /\ AfterKill(docker[c], killed)
    /\ AfterRemove(killed, removed)
    /\ docker' = [docker EXCEPT ![c] = removed]
    /\ inside' = [inside EXCEPT ![c] = IF killed = "running" THEN @ ELSE {}]
    /\ stuck' = IF removed = "removed" THEN stuck ELSE stuck \cup {c}

\* Mutant of CloseNext: an error is not dropped but returned, as by `?`; a
\* container that is stopped or gone already makes kill_container fail.
CloseNextOrReturn ==
  /\ left # <<>>
  /\ CloseOne(Head(left))
  /\ left' = IF docker[Head(left)] = "running" /\ stuck' = stuck THEN Tail(left) ELSE <<>>
  /\ UNCHANGED <<containers, idle, get, task, holds, phase>>

\* The errors of both calls are dropped, and the next container is at turn.
CloseNext ==
  /\ left # <<>>
  /\ CloseOne(Head(left))
  /\ left' = Tail(left)
  /\ UNCHANGED <<containers, idle, get, task, holds, phase>>

\* The process is over, and with it the pool and the tasks.
Vanish(how) ==
  /\ phase' = how
  /\ idle' = <<>> /\ left' = <<>>
  /\ get' = NoGet
  /\ task' = [d \in Deliveries |-> "done"]
  /\ holds' = [d \in Deliveries |-> None]

\* close() has returned: execute ends, and the process with it.
EndExecute ==
  /\ phase \in {"failed", "cancelled"}
  /\ left = <<>>
  /\ Vanish("gone")
  /\ UNCHANGED <<docker, inside, containers, stuck>>

\* SIGKILL, or the host fails: nothing is closed.
Crash ==
  /\ "crash" \in PoolFaults
  /\ phase \in {"listening", "failed", "cancelled"}
  /\ RequestLands
  /\ Vanish("crashed")
  /\ UNCHANGED <<inside, containers, stuck>>

-----------------------------------------------------------------------------
(* What happens to containers and processes by themselves.                  *)

\* A process nobody waits for any more ends: its `timeout` has passed.
ProcessEnds(c, d) ==
  /\ d \in inside[c]
  /\ task[d] # "exec"
  /\ inside' = [inside EXCEPT ![c] = @ \ {d}]
  /\ UNCHANGED <<docker, containers, idle, get, task, holds, phase, left, stuck>>

Die(c) ==
  /\ "die" \in PoolFaults
  /\ docker[c] = "running"
  /\ docker' = [docker EXCEPT ![c] = "stopped"]
  /\ inside' = [inside EXCEPT ![c] = {}]
  /\ UNCHANGED <<containers, idle, get, task, holds, phase, left, stuck>>

Prune(c) ==
  /\ "prune" \in PoolFaults
  /\ docker[c] = "stopped"
  /\ docker' = [docker EXCEPT ![c] = "removed"]
  /\ UNCHANGED <<inside, containers, idle, get, task, holds, phase, left, stuck>>

-----------------------------------------------------------------------------
PoolGet ==
  \/ \E d \in Deliveries : AskPool(d)
  \/ TakeIdle
  \/ GrowPool
  \/ RecycleOk
  \/ RecycleFails
  \/ \E c \in Containers : CreateContainer(c)
  \/ StartContainer
  \/ GetFails

Task(d) ==
  \/ StartExec(d)
  \/ StartExecFails(d)
  \/ ExecEnds(d)
  \/ ExecBreaks(d)
  \/ TaskEnds(d)
  \/ CancelTask(d)

Teardown ==
  \/ Signal
  \/ CloseNext
  \/ EndExecute
  \/ Crash

Daemon ==
  \E c \in Containers :
    \/ \E d \in Deliveries : ProcessEnds(c, d)
    \/ Die(c)
    \/ Prune(c)

PoolNext ==
  \/ PoolGet
  \/ \E d \in Deliveries : Task(d)
  \/ Teardown
  \/ Daemon

PoolSpec == PoolInit /\ [][PoolNext]_poolVars

\* The daemon answers, an execution ends (its `timeout`), a query gives up.
PoolFairness ==
  /\ WF_poolVars(TakeIdle) /\ WF_poolVars(GrowPool)
  /\ WF_poolVars(RecycleOk \/ RecycleFails)
  /\ WF_poolVars(\E c \in Containers : CreateContainer(c))
  /\ WF_poolVars(StartContainer)
  /\ WF_poolVars(CloseNext) /\ WF_poolVars(EndExecute)
  /\ \A d \in Deliveries :
       WF_poolVars(StartExec(d) \/ StartExecFails(d) \/ ExecEnds(d) \/ TaskEnds(d))

PoolFairSpec == PoolSpec /\ PoolFairness

-----------------------------------------------------------------------------
(* Properties. *)

PoolTypes ==
  /\ docker \in [Containers -> DockerState]
  /\ inside \in [Containers -> SUBSET Deliveries]
  /\ containers \in Seq(Containers) /\ idle \in Seq(Containers) /\ left \in Seq(Containers)
  /\ get \in [at : GetStage, on : Containers \cup {None}, for : Deliveries \cup {None}]
  /\ task \in [Deliveries -> TaskStage]
  /\ holds \in [Deliveries -> Containers \cup {None}]
  /\ phase \in {"listening", "failed", "cancelled", "gone", "crashed"}
  /\ stuck \subseteq Containers

Idle == {idle[i] : i \in DOMAIN idle}

\* An object is at one place: idle once, with pool.get(), or with one task.
OneOwner ==
  /\ \A i, j \in DOMAIN idle : idle[i] = idle[j] => i = j
  /\ get.on \notin Idle
  /\ \A d \in Held : holds[d] \notin Idle \cup {get.on}
  /\ \A d, e \in Held : holds[d] = holds[e] => d = e

\* Types, and that every object has one owner.
PoolTypeOK == PoolTypes /\ OneOwner

\* Two executions never run in one container: an object belongs to one task,
\* from recycle() to the last line of handle_message.  (A process that run_exec
\* has given up may still be there.)
Exclusive ==
  \A c \in Containers : \A d, e \in inside[c] :
    task[d] = "exec" /\ task[e] = "exec" => d = e

\* The memory the worker commits is bounded: at most max_size of its containers
\* run at once, whichever of them died, were removed and replaced.
RunningBound ==
  Cardinality({c \in Containers : docker[c] = "running"}) <= PoolSize

\* What the pool knows of does not outlive a process that ends in order: close()
\* leaves no container of its list, used, idle, dead or removed by others.  The
\* daemon has to do as it is told for that, since close() drops its errors.
ClosedClean ==
  phase = "gone" =>
    \A i \in DOMAIN containers : docker[containers[i]] = "removed"

\* pool.get() returns: the listen loop is not held up for ever, because tasks
\* give their container back on each of their ways out.
GetReturns == get.at # "none" ~> get.at = "none"

\* close() tries every container of its list, whatever it interrupts and however
\* many of its calls fail: besides what the daemon would not kill or remove, at
\* most one container is left at Docker, the one on its way from create_container
\* to the list when the listen loop is dropped, or whose start fails.  (A process
\* that is killed leaves all of its containers.)
LeakBound ==
  phase = "gone" =>
    Cardinality({c \in Containers \ stuck : docker[c] \notin {"unborn", "removed"}}) <= 1

\* The pool as the listen loop and its tasks see it.
L == INSTANCE Lending WITH
  Tasks <- Deliveries, Objects <- Containers, Size <- PoolSize,
  stage <- [d \in Deliveries |-> IF task[d] = "new" THEN "waiting"
                                 ELSE IF task[d] = "done" THEN "over" ELSE "using"],
  object <- holds,
  open <- phase = "listening",
  known <- {containers[i] : i \in DOMAIN containers},
  removed <- {c \in Containers : docker[c] = "removed"},
  refused <- stuck

\* The pool keeps the promises of Lending: a container is lent to one task at a
\* time, to at most max_size, and only while it exists; and unless it is killed,
\* the process ends only when the removal of everything lent has been tried.
LendingSpec == L!Spec
=============================================================================
