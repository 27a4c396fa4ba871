---------------------------- MODULE PoolInvariant ----------------------------
(***************************************************************************)
(* The inductive invariant behind the theorems of PoolProofs.  Exclusive,  *)
(* RunningBound, ClosedClean and LeakBound each need to know where every   *)
(* container is that Docker knows of: with an object of the pool, in the   *)
(* list that close() works off, or in the one window between the two.      *)
(***************************************************************************)
EXTENDS ContainerPool

Listed == {containers[i] : i \in DOMAIN containers}
Left == {left[i] : i \in DOMAIN left}

\* Containers of the pool's objects, idle or with a task.
Pooled == Idle \cup {holds[d] : d \in Held}

\* What takes one of the pool's max_size places; a container that is yet to be
\* created is None.
Slots == Pooled \cup IF get.at \in {"inspect", "create", "start"} THEN {get.on} ELSE {}

\* Containers at the daemon, running or not.
Live == {c \in Containers : docker[c] \notin {"unborn", "removed"}}

\* pool.get() is at work in the listen loop only, for a delivery without a task.
GetInv ==
  /\ get.at = "none" => get = NoGet
  /\ get.at # "none" => phase = "listening" /\ get.for \in Deliveries /\ task[get.for] = "new"
  /\ get.at \in {"slot", "create"} => get.on = None
  /\ get.at \in {"inspect", "start"} => get.on \in Containers

\* A task holds its container on each of its awaits, and none before or after.
HoldInv ==
  \A d \in Deliveries : holds[d] # None <=> task[d] \in {"fetch", "exec", "update"}

\* A process is in the container its task holds, unless the task is past it.
InsideInv ==
  \A c \in Containers : \A d \in inside[c] :
    /\ task[d] \notin {"new", "fetch"}
    /\ task[d] = "exec" => holds[d] = c

\* What the pool hands out is in the list, and what is in the list was created.
\* Only a container that is being started is at Docker and not in the list, and
\* when the listen loop is over, at most one that was.
ListInv ==
  /\ Pooled \subseteq Listed
  /\ get.at = "inspect" => get.on \in Listed
  /\ get.at = "start" => get.on \notin Listed /\ docker[get.on] = "created"
  /\ \A c \in Listed : docker[c] # "unborn"
  /\ \A c, d \in Containers \ Listed : docker[c] # "unborn" /\ docker[d] # "unborn" => c = d
  /\ \A c \in Containers \ Listed : docker[c] # "unborn" /\ phase = "listening" =>
       get.at = "start" /\ get.on = c

\* close() works off the list: what it has not removed it has yet to do, or could
\* not remove.
CloseInv ==
  /\ Left \subseteq Listed /\ stuck \subseteq Listed
  /\ phase \in {"listening", "gone", "crashed"} => left = <<>>
  /\ phase = "listening" => stuck = {}
  /\ phase \in {"failed", "cancelled", "gone"} =>
       \A c \in Listed : docker[c] = "removed" \/ c \in Left \cup stuck
  /\ {"kill", "remove"} \cap PoolFaults = {} => stuck = {}

\* The pool keeps to its size ...
SlotInv == phase = "listening" => Cardinality(Slots) <= PoolSize

\* ... and forgets only containers that are gone, if inspect_container tells it
\* the truth.
LiveInv ==
  "inspect" \notin PoolFaults =>
    /\ phase = "listening" => Live \subseteq Slots
    /\ Cardinality(Live) <= PoolSize

PoolInv ==
  /\ PoolTypeOK
  /\ GetInv
  /\ HoldInv
  /\ InsideInv
  /\ ListInv
  /\ CloseInv
  /\ SlotInv
  /\ LiveInv
=============================================================================
