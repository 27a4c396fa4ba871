------------------------------- MODULE Worker -------------------------------
(***************************************************************************)
(* The worker service (worker/src/executer.rs): processes that consume one *)
(* runtime's RabbitMQ queue, run each submission in a pooled container,    *)
(* write the verdict to PostgreSQL and acknowledge the message.            *)
(*                                                                         *)
(* A process is the `select!` of `execute`: the listen loop against the    *)
(* two signals.  The loop spawns one task per delivery; tasks run on the   *)
(* tokio threads, interleaved with the loop, with each other and with the  *)
(* teardown of the process.  A task is at the await point its stage names. *)
(*                                                                         *)
(* External, modelled from its use here: the broker (one queue, the        *)
(* dead-letter queue, one channel per process), PostgreSQL and Docker.     *)
(***************************************************************************)
EXTENDS ExecStatus, FiniteSets

CONSTANTS
  Workers,       \* the worker processes of this runtime
  Submissions,   \* submission ids; a well-formed message is named by its own
  Garbage,       \* messages that do not parse as a WorkerTask
  Runs,          \* Runs[m]: what undisturbed executions of m can leave behind
  PoolSize,      \* max_size of the container pool
  MaxStarts,     \* bound: MaxStarts[w] is how often w is started
  Faults,        \* which faults the environment may inject
  None           \* "no message", "no verdict"

FaultKind ==
  { "crash",     \* the process is killed (SIGKILL, host failure)
    "channel",   \* the AMQP channel is lost (network, broker, consumer_timeout)
    "pool",      \* pool.get() fails: a container cannot be created
    "panic",     \* exit_code.unwrap() panics in the task
    "db",        \* a query fails until its backoff gives up, or loses its reply
    "exec" }     \* a Docker call of run_exec fails

Messages == Submissions \cup Garbage

ASSUME ConstantsOK ==
  /\ IsFiniteSet(Submissions) /\ IsFiniteSet(Garbage)
  /\ Submissions \cap Garbage = {}
  /\ None \notin Messages \cup ExecStatus
  /\ PoolSize \in Nat \ {0}
  /\ MaxStarts \in [Workers -> Nat]
  /\ Faults \subseteq FaultKind

ASSUME RunsOK ==
  \A m \in Submissions : Runs[m] \subseteq ExecOutput /\ Runs[m] # {}

VARIABLES
  status,    \* submit_status.status by submission
  stray,     \* UPDATEs PostgreSQL may still run though nobody awaits them
  ready,     \* messages of the runtime queue not delivered to anyone
  dlq,       \* messages in the dead-letter queue
  acked,     \* messages the broker dropped because they were acknowledged
  unacked,   \* unacked[w]: delivered on w's channel and not settled
  tag,       \* tag[w][m]: delivery tag of m on w's channel, 0 if not delivered
  chan,      \* chan[w]: is w's channel open
  starts,    \* starts[w]: how often w was started
  phase,     \* phase[w]: where `execute` is
  token,     \* token[w]: has the CancellationToken been cancelled
  taken,     \* taken[w]: deliveries consumer.next() has yielded
  hand,      \* hand[w]: delivery the loop holds while it awaits pool.get()
  stage,     \* stage[w][m]: await point of the task for m
  result     \* result[w][m]: verdict the task for m is writing

db == <<status, stray>>
queues == <<ready, dlq, acked>>
channel == <<unacked, tag, chan>>
loop == <<phase, token, taken, hand>>
tasks == <<stage, result>>
vars == <<db, queues, channel, starts, loop, tasks>>

\* listening: in the listen loop.  draining: the loop has ended and listen
\* awaits task_tracker.wait().  closing: select! has taken a branch, which is
\* tearing the pool down.
Phase == {"down", "listening", "draining", "closing"}

\* fetch: in fetch_testcase.  exec: in exec_testcase.  update: the UPDATE is
\* sent or about to be retried.  written: it has run, the reply is on its way.
\* ack, nack, requeue: handle_message is over, the reply to the broker is due.
Stage == {"none", "fetch", "exec", "update", "written", "ack", "nack", "requeue"}

\* The stages inside handle_message, which owns the pooled container.
Handling == {"fetch", "exec", "update", "written"}

InUse(w) == {m \in Submissions : stage[w][m] \in Handling}

Row == {"ABSENT", "PENDING"} \cup ExecStatus
Update == [m : Submissions, v : ExecStatus]

-----------------------------------------------------------------------------
Init ==
  /\ status = [m \in Submissions |-> "ABSENT"]
  /\ stray = {}
  /\ ready = {} /\ dlq = {} /\ acked = {}
  /\ unacked = [w \in Workers |-> {}]
  /\ tag = [w \in Workers |-> [m \in Messages |-> 0]]
  /\ chan = [w \in Workers |-> FALSE]
  /\ starts = [w \in Workers |-> 0]
  /\ phase = [w \in Workers |-> "down"]
  /\ token = [w \in Workers |-> FALSE]
  /\ taken = [w \in Workers |-> 0]
  /\ hand = [w \in Workers |-> None]
  /\ stage = [w \in Workers |-> [m \in Submissions |-> "none"]]
  /\ result = [w \in Workers |-> [m \in Submissions |-> None]]

-----------------------------------------------------------------------------
(* The producers and the broker. *)

\* The queue exists once some worker has declared it.
Declared == \E w \in Workers : starts[w] > 0

Published == ready \cup dlq \cup acked \cup UNION {unacked[w] : w \in Workers}

\* The API inserts the PENDING row and the task reaches the queue.  The steps
\* in between are those of SubmitApi; Judge shows that they add up to this one.
Submit(m) ==
  /\ Declared
  /\ status[m] = "ABSENT"
  /\ status' = [status EXCEPT ![m] = "PENDING"]
  /\ ready' = ready \cup {m}
  /\ UNCHANGED <<stray, dlq, acked, channel, starts, loop, tasks>>

PublishGarbage(g) ==
  /\ Declared
  /\ g \notin Published
  /\ ready' = ready \cup {g}
  /\ UNCHANGED <<db, dlq, acked, channel, starts, loop, tasks>>

\* No basic_qos: the broker pushes every ready message at once, and the
\* consumer buffers what the loop has not asked for.
Deliver(w, m) ==
  /\ m \in ready
  /\ chan[w] /\ phase[w] = "listening"
  /\ ready' = ready \ {m}
  /\ unacked' = [unacked EXCEPT ![w] = @ \cup {m}]
  /\ tag' = [tag EXCEPT ![w][m] = 1 + Cardinality({x \in Messages : tag[w][x] # 0})]
  /\ UNCHANGED <<db, dlq, acked, chan, starts, loop, tasks>>

\* A channel that closes gives everything unsettled back to the queue.
CloseChannel(w) ==
  /\ chan' = [chan EXCEPT ![w] = FALSE]
  /\ ready' = ready \cup unacked[w]
  /\ unacked' = [unacked EXCEPT ![w] = {}]
  /\ UNCHANGED <<dlq, acked, tag>>

\* The broker answers a settlement of a tag it does not know by closing the
\* channel (PRECONDITION_FAILED); on a closed channel lapin returns an error,
\* which the task drops.
Refused(w, m) ==
  /\ m \notin unacked[w]
  /\ CloseChannel(w)

\* Bound: the last incarnation of a process is left running, with its channel.
Mortal(w) == starts[w] < MaxStarts[w]

ChannelLost(w) ==
  /\ "channel" \in Faults
  /\ Mortal(w)
  /\ chan[w]
  /\ CloseChannel(w)
  /\ UNCHANGED <<db, starts, loop, tasks>>

-----------------------------------------------------------------------------
(* The life of a worker process: `execute`. *)

\* Connect, declare the queues, consume.  A start that fails leaves it down.
Start(w) ==
  /\ phase[w] = "down"
  /\ starts[w] < MaxStarts[w]
  /\ starts' = [starts EXCEPT ![w] = @ + 1]
  /\ phase' = [phase EXCEPT ![w] = "listening"]
  /\ chan' = [chan EXCEPT ![w] = TRUE]
  /\ UNCHANGED <<db, queues, unacked, tag, token, taken, hand, tasks>>

\* The process ends: its tasks are gone, the broker sees the connection close,
\* and PostgreSQL may still run any UPDATE that was already sent.
EndProcess(w) ==
  /\ phase' = [phase EXCEPT ![w] = "down"]
  /\ token' = [token EXCEPT ![w] = FALSE]
  /\ taken' = [taken EXCEPT ![w] = 0]
  /\ hand' = [hand EXCEPT ![w] = None]
  /\ stage' = [stage EXCEPT ![w] = [m \in Submissions |-> "none"]]
  /\ result' = [result EXCEPT ![w] = [m \in Submissions |-> None]]
  /\ chan' = [chan EXCEPT ![w] = FALSE]
  /\ ready' = ready \cup unacked[w]
  /\ unacked' = [unacked EXCEPT ![w] = {}]
  /\ tag' = [tag EXCEPT ![w] = [m \in Messages |-> 0]]
  /\ \E sent \in SUBSET {m \in Submissions : stage[w][m] = "update"} :
       stray' = stray \cup {[m |-> m, v |-> result[w][m]] : m \in sent}
  /\ UNCHANGED <<status, dlq, acked, starts>>

Crash(w) ==
  /\ "crash" \in Faults
  /\ Mortal(w)
  /\ phase[w] # "down"
  /\ EndProcess(w)

\* Mutant of Signal: token.cancel() is forgotten.
SignalNoCancel(w) ==
  /\ phase[w] \in {"listening", "draining"}
  /\ Mortal(w)
  /\ phase' = [phase EXCEPT ![w] = "closing"]
  /\ hand' = [hand EXCEPT ![w] = None]
  /\ UNCHANGED <<db, queues, channel, starts, token, taken, tasks>>

\* CTRL-C or SIGTERM: the select! drops the listen future, consumer and held
\* delivery included, closes the tracker and cancels the token.
Signal(w) ==
  /\ phase[w] \in {"listening", "draining"}
  /\ Mortal(w)
  /\ phase' = [phase EXCEPT ![w] = "closing"]
  /\ token' = [token EXCEPT ![w] = TRUE]
  /\ hand' = [hand EXCEPT ![w] = None]
  /\ UNCHANGED <<db, queues, channel, starts, taken, tasks>>

\* manager().close() returns, then execute and main: nothing waits for tasks.
Exit(w) ==
  /\ phase[w] = "closing"
  /\ EndProcess(w)

-----------------------------------------------------------------------------
(* The listen loop. *)

\* consumer.next() yields the buffered delivery with the next tag.
Take(w, m) ==
  /\ phase[w] = "listening"
  /\ hand[w] = None
  /\ tag[w][m] = taken[w] + 1
  /\ hand' = [hand EXCEPT ![w] = m]
  /\ taken' = [taken EXCEPT ![w] = @ + 1]
  /\ UNCHANGED <<db, queues, channel, starts, phase, token, tasks>>

\* The consumer ends after a channel error: the loop is left, and listen
\* awaits task_tracker.wait().  That returns once the tracker is closed and
\* empty; only the signal branches close it, so no action ends this wait but a
\* signal or a crash.
ConsumerEnds(w) ==
  /\ phase[w] = "listening"
  /\ ~chan[w]
  /\ hand[w] = None
  /\ \A m \in Messages : tag[w][m] <= taken[w]
  /\ phase' = [phase EXCEPT ![w] = "draining"]
  /\ UNCHANGED <<db, queues, channel, starts, token, taken, hand, tasks>>

\* Mutant of Spawn: the task takes its container without the pool's permit.
SpawnUnbounded(w) ==
  /\ phase[w] = "listening"
  /\ hand[w] \in Submissions
  /\ stage' = [stage EXCEPT ![w][hand[w]] = "fetch"]
  /\ hand' = [hand EXCEPT ![w] = None]
  /\ UNCHANGED <<db, queues, channel, starts, phase, token, taken, result>>

\* pool.get() yields a container and the task is spawned with it.
Spawn(w) ==
  /\ phase[w] = "listening"
  /\ hand[w] \in Submissions
  /\ Cardinality(InUse(w)) < PoolSize
  /\ stage' = [stage EXCEPT ![w][hand[w]] = "fetch"]
  /\ hand' = [hand EXCEPT ![w] = None]
  /\ UNCHANGED <<db, queues, channel, starts, phase, token, taken, result>>

\* The loop body returns through `?`: listen is over, its branch of the
\* select! closes the pool.  The token is not cancelled.
ListenFails(w) ==
  /\ phase' = [phase EXCEPT ![w] = "closing"]
  /\ hand' = [hand EXCEPT ![w] = None]
  /\ UNCHANGED <<db, queues, channel, starts, token, taken, tasks>>

PoolGetFails(w) ==
  /\ "pool" \in Faults
  /\ phase[w] = "listening"
  /\ hand[w] # None
  /\ Cardinality(InUse(w)) < PoolSize
  /\ ListenFails(w)

\* A message that does not parse needs a container too, which it gives back.
RejectGarbage(w) ==
  /\ phase[w] = "listening"
  /\ hand[w] \in unacked[w] \cap Garbage
  /\ Cardinality(InUse(w)) < PoolSize
  /\ dlq' = dlq \cup {hand[w]}
  /\ unacked' = [unacked EXCEPT ![w] = @ \ {hand[w]}]
  /\ hand' = [hand EXCEPT ![w] = None]
  /\ UNCHANGED <<db, ready, acked, tag, chan, starts, phase, token, taken, tasks>>

RejectFails(w) ==
  /\ phase[w] = "listening"
  /\ hand[w] \in Garbage
  /\ ~chan[w]
  /\ Cardinality(InUse(w)) < PoolSize
  /\ ListenFails(w)

-----------------------------------------------------------------------------
(* A task: handle_message under the token, then the reply to the broker.    *)
(* A poll of the task runs handle_message to its next await and looks at    *)
(* the token only if that is pending.  So once the token is cancelled, a    *)
(* task still ends with what it awaits (an error, or the last reply) when   *)
(* that is ready; it never gets as far as another await.                    *)

Move(w, m, to) == stage' = [stage EXCEPT ![w][m] = to]

\* Mutants of Fail: an error is acknowledged like a success, or leaves the task
\* through `?`.
FailAcked(w, m) ==
  /\ Move(w, m, "ack")
  /\ result' = [result EXCEPT ![w][m] = None]

FailUnsettled(w, m) ==
  /\ Move(w, m, "none")
  /\ result' = [result EXCEPT ![w][m] = None]

\* handle_message returned an error: the container is given back.
Fail(w, m) ==
  /\ Move(w, m, "nack")
  /\ result' = [result EXCEPT ![w][m] = None]

FetchTestcase(w, m) ==
  /\ stage[w][m] = "fetch" /\ ~token[w]
  /\ Move(w, m, "exec")
  /\ UNCHANGED <<db, queues, channel, starts, loop, result>>

FetchFails(w, m) ==
  /\ "db" \in Faults
  /\ stage[w][m] = "fetch"
  /\ Fail(w, m)
  /\ UNCHANGED <<db, queues, channel, starts, loop>>

\* exec_testcase returned: the verdict is picked and the UPDATE sent.
ExecReturns(w, m, o) ==
  /\ stage[w][m] = "exec" /\ ~token[w]
  /\ Move(w, m, "update")
  /\ result' = [result EXCEPT ![w][m] = StatusOf(o)]
  /\ UNCHANGED <<db, queues, channel, starts, loop>>

ExecTestcase(w, m) == \E o \in Runs[m] : ExecReturns(w, m, o)

\* close() kills the container under a running execution: run_exec sees the
\* output end and an exit code of 137.
KilledOutput == [exit_code |-> SIGKILL_EXIT, same |-> FALSE]

ExecKilled(w, m) ==
  /\ phase[w] = "closing"
  /\ ExecReturns(w, m, KilledOutput)

ExecFails(w, m) ==
  /\ "exec" \in Faults \/ phase[w] = "closing"
  /\ stage[w][m] = "exec"
  /\ Fail(w, m)
  /\ UNCHANGED <<db, queues, channel, starts, loop>>

\* The task is gone and nobody will settle its delivery.
Panic(w, m) ==
  /\ "panic" \in Faults
  /\ stage[w][m] = "exec"
  /\ Move(w, m, "none")
  /\ UNCHANGED <<db, queues, channel, starts, loop, result>>

RunUpdate(w, m) ==
  /\ stage[w][m] = "update"
  /\ status' = [status EXCEPT ![m] = result[w][m]]
  /\ Move(w, m, "written")
  /\ UNCHANGED <<stray, queues, channel, starts, loop, result>>

\* The connection breaks and the backoff sleeps and retries: before the UPDATE
\* ran, in which case it may still run later, or after.
RetryUpdate(w, m) ==
  /\ "db" \in Faults
  /\ ~token[w]
  /\ \/ /\ stage[w][m] = "update"
        /\ stray' = stray \cup {[m |-> m, v |-> result[w][m]]}
     \/ /\ stage[w][m] = "written"
        /\ UNCHANGED stray
  /\ Move(w, m, "update")
  /\ UNCHANGED <<status, queues, channel, starts, loop, result>>

\* max_elapsed_time has passed: the error goes up, whether the row was
\* written or not.
UpdateFails(w, m) ==
  /\ "db" \in Faults
  /\ stage[w][m] \in {"update", "written"}
  /\ Fail(w, m)
  /\ UNCHANGED <<db, queues, channel, starts, loop>>

UpdateReturns(w, m) ==
  /\ stage[w][m] = "written"
  /\ Move(w, m, "ack")
  /\ result' = [result EXCEPT ![w][m] = None]
  /\ UNCHANGED <<db, queues, channel, starts, loop>>

\* A task that is dropped while its UPDATE is under way leaves it behind.
LeftBehind(w, m) ==
  \/ UNCHANGED stray
  \/ /\ stage[w][m] = "update"
     /\ stray' = stray \cup {[m |-> m, v |-> result[w][m]]}

\* Mutant of Cancelled: the task is given up without a look at the token, as if
\* a timeout ran into the same arm.
CancelledUnasked(w, m) ==
  /\ stage[w][m] \in Handling
  /\ LeftBehind(w, m)
  /\ Move(w, m, "requeue")
  /\ result' = [result EXCEPT ![w][m] = None]
  /\ UNCHANGED <<status, queues, channel, starts, loop>>

\* The token is cancelled: handle_message is dropped, with its container.
Cancelled(w, m) ==
  /\ token[w]
  /\ stage[w][m] \in Handling
  /\ LeftBehind(w, m)
  /\ Move(w, m, "requeue")
  /\ result' = [result EXCEPT ![w][m] = None]
  /\ UNCHANGED <<status, queues, channel, starts, loop>>

Ack(w, m) ==
  /\ stage[w][m] = "ack"
  /\ Move(w, m, "none")
  /\ \/ /\ m \in unacked[w]
        /\ unacked' = [unacked EXCEPT ![w] = @ \ {m}]
        /\ acked' = acked \cup {m}
        /\ UNCHANGED <<ready, dlq, tag, chan>>
     \/ Refused(w, m)
  /\ UNCHANGED <<db, starts, loop, result>>

\* Mutant of Nack: requeue is true.
NackRequeue(w, m) ==
  /\ stage[w][m] = "nack"
  /\ Move(w, m, "none")
  /\ \/ /\ m \in unacked[w]
        /\ unacked' = [unacked EXCEPT ![w] = @ \ {m}]
        /\ ready' = ready \cup {m}
        /\ UNCHANGED <<dlq, acked, tag, chan>>
     \/ Refused(w, m)
  /\ UNCHANGED <<db, starts, loop, result>>

\* Mutant of Nack: multiple and requeue are true, as after a cancellation.
NackMultiple(w, m) ==
  /\ stage[w][m] = "nack"
  /\ Move(w, m, "none")
  /\ \/ /\ m \in unacked[w]
        /\ LET upTo == {x \in unacked[w] : tag[w][x] <= tag[w][m]}
           IN  /\ unacked' = [unacked EXCEPT ![w] = @ \ upTo]
               /\ ready' = ready \cup upTo
        /\ UNCHANGED <<dlq, acked, tag, chan>>
     \/ Refused(w, m)
  /\ UNCHANGED <<db, starts, loop, result>>

\* requeue: false, so the queue's dead-letter exchange takes the message.
Nack(w, m) ==
  /\ stage[w][m] = "nack"
  /\ Move(w, m, "none")
  /\ \/ /\ m \in unacked[w]
        /\ unacked' = [unacked EXCEPT ![w] = @ \ {m}]
        /\ dlq' = dlq \cup {m}
        /\ UNCHANGED <<ready, acked, tag, chan>>
     \/ Refused(w, m)
  /\ UNCHANGED <<db, starts, loop, result>>

\* Mutant of UpTo: deliveries settled long ago are given back as well.
UpToSettled(w, m) == {x \in Messages : tag[w][x] \in 1 .. tag[w][m]}

\* multiple: true, so everything on the channel up to this tag goes back.
UpTo(w, m) == {x \in unacked[w] : tag[w][x] <= tag[w][m]}

Requeue(w, m) ==
  /\ stage[w][m] = "requeue"
  /\ Move(w, m, "none")
  /\ \/ /\ m \in unacked[w]
        /\ unacked' = [unacked EXCEPT ![w] = @ \ UpTo(w, m)]
        /\ ready' = ready \cup UpTo(w, m)
        /\ UNCHANGED <<dlq, acked, tag, chan>>
     \/ Refused(w, m)
  /\ UNCHANGED <<db, starts, loop, result>>

\* PostgreSQL runs an UPDATE whose sender is gone.
RunStray(u) ==
  /\ u \in stray
  /\ stray' = stray \ {u}
  /\ status' = [status EXCEPT ![u.m] = u.v]
  /\ UNCHANGED <<queues, channel, starts, loop, tasks>>

-----------------------------------------------------------------------------
Environment ==
  \/ \E g \in Garbage : PublishGarbage(g)
  \/ \E u \in stray : RunStray(u)

Process(w) ==
  \/ Start(w)
  \/ Crash(w)
  \/ Signal(w)
  \/ Exit(w)
  \/ ChannelLost(w)

Listen(w) ==
  \/ \E m \in Messages : Deliver(w, m) \/ Take(w, m)
  \/ ConsumerEnds(w)
  \/ Spawn(w)
  \/ PoolGetFails(w)
  \/ RejectGarbage(w)
  \/ RejectFails(w)

HandleMessage(w, m) ==
  \/ FetchTestcase(w, m)
  \/ FetchFails(w, m)
  \/ ExecTestcase(w, m)
  \/ ExecKilled(w, m)
  \/ ExecFails(w, m)
  \/ Panic(w, m)
  \/ RunUpdate(w, m)
  \/ RetryUpdate(w, m)
  \/ UpdateFails(w, m)
  \/ UpdateReturns(w, m)

HandleDelivery(w, m) ==
  \/ HandleMessage(w, m)
  \/ Cancelled(w, m)
  \/ Ack(w, m)
  \/ Nack(w, m)
  \/ Requeue(w, m)

\* Everything but the producer (see Judge).
Consume ==
  \/ Environment
  \/ \E w \in Workers :
       \/ Process(w)
       \/ Listen(w)
       \/ \E m \in Submissions : HandleDelivery(w, m)

Next ==
  \/ \E m \in Submissions : Submit(m)
  \/ Consume

Spec == Init /\ [][Next]_vars

\* The steps of a task that nothing can hold up for ever: queries and their
\* retries are cut off by max_elapsed_time, the run command by `timeout`.
TaskStep(w, m) ==
  \/ FetchTestcase(w, m) \/ FetchFails(w, m)
  \/ ExecTestcase(w, m) \/ ExecFails(w, m)
  \/ RunUpdate(w, m)
  \/ Ack(w, m) \/ Nack(w, m) \/ Requeue(w, m)

UpdateEnds(w, m) == UpdateReturns(w, m) \/ UpdateFails(w, m)

Fairness ==
  \A w \in Workers :
    /\ WF_vars(Start(w)) /\ WF_vars(Exit(w))
    /\ WF_vars(ConsumerEnds(w)) /\ WF_vars(Spawn(w)) /\ WF_vars(RejectGarbage(w))
    /\ \A m \in Messages : WF_vars(Deliver(w, m)) /\ WF_vars(Take(w, m))
    /\ \A m \in Submissions : WF_vars(TaskStep(w, m)) /\ WF_vars(UpdateEnds(w, m))

FairSpec == Spec /\ Fairness

-----------------------------------------------------------------------------
(* Properties. *)

Types ==
  /\ status \in [Submissions -> Row]
  /\ stray \subseteq Update
  /\ ready \subseteq Messages /\ dlq \subseteq Messages /\ acked \subseteq Messages
  /\ unacked \in [Workers -> SUBSET Messages]
  /\ tag \in [Workers -> [Messages -> Nat]]
  /\ chan \in [Workers -> BOOLEAN]
  /\ starts \in [Workers -> Nat] /\ \A w \in Workers : starts[w] <= MaxStarts[w]
  /\ phase \in [Workers -> Phase]
  /\ token \in [Workers -> BOOLEAN]
  /\ taken \in [Workers -> Nat]
  /\ hand \in [Workers -> Messages \cup {None}]
  /\ stage \in [Workers -> [Submissions -> Stage]]
  /\ result \in [Workers -> [Submissions -> ExecStatus \cup {None}]]

PoolBound == \A w \in Workers : Cardinality(InUse(w)) <= PoolSize

\* Types, and the pool's limit: tasks never hold more containers than max_size.
TypeOK == Types /\ PoolBound

\* No task is silently lost: while a submission is PENDING its message is
\* queued, delivered, or in the dead-letter queue, whatever crashed or closed.
NoTaskLost ==
  \A m \in Submissions :
    status[m] = "PENDING" =>
      m \in ready \cup dlq \cup UNION {unacked[w] : w \in Workers}

\* Settling is exclusive: a message is at one place, so acknowledgement,
\* dead-lettering and requeueing (with `multiple`) never duplicate it.
OnePlace ==
  /\ \A m \in ready : m \notin dlq \cup acked
  /\ \A m \in dlq : m \notin acked
  /\ \A w \in Workers : \A m \in unacked[w] :
       /\ m \notin ready \cup dlq \cup acked
       /\ \A v \in Workers \ {w} : m \notin unacked[v]

\* A worker that lost its channel or its token may still be at work on
\* messages the broker has given to somebody else.
Detached(w) == ~chan[w] \/ token[w]

\* Two workers handle the same submission only if one of them is detached:
\* in normal operation a submission is judged by one task at a time.
SingleJudge ==
  \A m \in Submissions : \A v, w \in Workers :
    /\ v # w
    /\ stage[v][m] \in Handling
    /\ stage[w][m] \in Handling
    => Detached(v) \/ Detached(w)

\* A listening worker is answerable for every delivery it has not settled: it
\* is buffered, in the loop's hand, or a task is at it.
NoAbandonedDelivery ==
  \A w \in Workers : \A m \in unacked[w] :
    phase[w] = "listening" =>
      \/ tag[w][m] > taken[w]
      \/ hand[w] = m
      \/ m \in Submissions /\ stage[w][m] # "none"

\* A verdict in the database is one that some undisturbed execution of the
\* submission gives: tearing a worker down never makes one up.
VerdictIsGenuine ==
  \A m \in Submissions :
    status[m] \in {"ABSENT", "PENDING"} \cup {StatusOf(o) : o \in Runs[m]}

\* A verdict is final: once written it is not replaced by another.
VerdictFinal ==
  [][\A m \in Submissions : status[m] \in ExecStatus => status'[m] = status[m]]_vars

\* A process leaves its shutdown only when no task is left at work: the
\* teardown that README.md describes, "waits for the TaskTracker to drain".
ExitDrained ==
  [][\A w \in Workers :
       phase[w] = "closing" /\ phase'[w] = "down" =>
         \A m \in Submissions : stage[w][m] = "none"]_vars

\* A worker whose consumer ended gets past task_tracker.wait(): to the pool's
\* teardown and a new start, with the tracker drained.
DrainEnds ==
  \A w \in Workers : phase[w] = "draining" ~> phase[w] # "draining"

\* Every message is settled in the end: acknowledged or dead-lettered.
EventuallySettled ==
  \A m \in Messages : m \in ready ~> m \in acked \cup dlq

\* What becomes of a submission, seen from outside.
FateOf(m) ==
  IF m \in acked THEN "done"
  ELSE IF m \in dlq THEN "parked"
  ELSE IF status[m] = "ABSENT" THEN "absent"
  ELSE "queued"

Ledger == INSTANCE TaskLedger WITH
  fate <- [m \in Submissions |-> FateOf(m)],
  row <- status

\* The workers keep the promises of TaskLedger: a submission is settled once,
\* done only with a verdict in its row, and its row is never PENDING again.
LedgerSpec == Ledger!Spec
=============================================================================
