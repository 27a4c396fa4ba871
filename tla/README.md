# Crabjudge in TLA+

Models, model checks and proofs for crabjudge, an online judge written in Rust.
A client submits a program through an HTTP API, a worker runs it in a Docker
container, and the client polls for a verdict. The interesting part is
everything between the submission and the verdict: a queue, worker processes
that are killed and restarted, tasks that are cancelled, queries that are
retried, and containers that live longer than the code that started them.

The modules are translated from the code. File and line of each definition are
in `PROJECT.json` under `map`.

## The system

    client --HTTP--> API --INSERT--> PostgreSQL <--UPDATE-- worker --> Docker
                      |                                       ^
                      +--publish--> RabbitMQ ----deliver------+

| component | state | operations |
|---|---|---|
| Submission API (`api/src/routes/submit.rs`, `status.rs`) | one AMQP connection for the life of the process, the row in `submit_status` | validate, create a channel, INSERT the row (PENDING), declare the exchange, publish, answer; poll the row |
| RabbitMQ (external) | one queue per runtime, a dead-letter queue `dlq`, unsettled deliveries of each channel | route or drop, deliver, ack, nack (`multiple`, `requeue`), redeliver what a closed channel had not settled |
| Worker process (`worker/src/executer.rs`: `execute`, `listen`) | channel and consumer, CancellationToken, TaskTracker, the delivery in the loop's hand | declare, consume, take a delivery, wait for a container, spawn a task, react to SIGTERM and CTRL-C, close the pool, exit |
| Task (`handle_delivery`, `handle_message`) | where it awaits, the verdict it writes, the container it owns | fetch testcases, execute, pick the verdict, UPDATE with backoff, ack or nack |
| Execution (`exec_testcase`, `worker/src/docker.rs`: `run_exec`) | the pipes to and from a process, the output so far, what is in the container's `/tmp` | write the testcase, shut stdin down, read chunks, ask for the exit code; compile, run under `timeout` |
| Container pool (`worker/src/pool.rs`, `docker.rs`) | deadpool's permits and idle objects, the list `ContainerGroup.containers`, containers at Docker | create and start, recycle, hand over, exec, give back, kill and remove all |
| Accounts (`api/src/routes/signup.rs`, `signup_confirmation.rs`) | `users`, `verification`, mails under way | signup, confirm in a transaction |
| Sessions and roles (`login.rs`, `startup.rs`) | `SessionAuth` in Redis, cookies and the key that signs them, `users.role` | load, look up, store or renew; expire |
| Problems and listings (`create_problem/`, `problems.rs`, `problem.rs`, `submissions.rs`, `stats.rs`) | `problems`, `problem_testcases`, the sequence of ids | one transaction for creation, pages of a list; single queries otherwise |
| Start-up, configuration, CORS, rate limiter, e-mail client | none, or that of a library | wiring |

How they interact: the API and the workers share PostgreSQL and RabbitMQ and
nothing else. Inside a worker the listen loop and its tasks are tokio tasks that
run in parallel. They share the channel, the token, the tracker and the pool.
`execute` is a `select!` that drops the listen future when a signal arrives.

What is hard:

- **Concurrency.** Tasks settle deliveries on one channel out of order, and one
  of the replies has `multiple: true`, so a cancelled task gives back deliveries
  that other tasks are still working on.
- **Cancellation.** A future is dropped at whatever `await` it stands at. What
  it asked of PostgreSQL or Docker may happen afterwards.
- **Failure.** Processes are killed between UPDATE and ack; channels are lost;
  a query is repeated, or given up, without knowing whether it ran.
- **Teardown.** The pool's containers are killed under the tasks that use them.
- **Pipes.** `run_exec` writes all of the testcase before it reads anything, over pipes
  that fill up; output comes in chunks cut anywhere, from two streams.
- **What is left behind.** A container is recycled with `/tmp` as the last program left
  it, and perhaps with a process that `run_exec` gave up.
- **Shared rows.** Two confirmations with one token, one address or one name; two logins in
  one browser; a list that grows while a client pages through it.

What makes each component correct:

- *Worker and tasks*: no task is lost or duplicated; a task is acknowledged only
  with a verdict in its row; one worker judges a submission at a time; a verdict
  comes from a genuine execution; every delivery is settled in the end.
- *API*: the row is there before the task; an accepted submission is judged.
- *Execution*: `run_exec` returns, with all that the program wrote; a PASSED, a time
  limit and a program that is run are the submission's own.
- *Pool*: a container has one owner and runs one execution; no more than
  `max_size` run; the teardown tries every container it knows of, whatever fails
  on the way; `pool.get()` returns.
- *Accounts*: a token is not used up without an account; a confirmation that is
  answered 200 made the account, once; confirmations do not block each other.
- *Sessions*: a session joins a user to the role that this user had.
- *Problems*: created by those who may; never listed without a testcase; paging misses
  none.

The hazards behind these properties are in `PROJECT.json`, each at its line
and with the properties that would catch it, or a note saying why none does.

## Modules

| module | models |
|---|---|
| `ExecStatus` | the verdicts, and `StatusOf`: the verdict of an exit code and an output |
| `TaskLedger` | abstract specification: what the judge promises about one submission |
| `Worker` | worker processes, their loops and tasks, over broker and database |
| `WorkerInvariant` | the inductive invariant `IInv` of `Worker`, and `SettleInv` and `StayInv`, which strengthen it |
| `WorkerProofs` | theorems about `Worker`, under every fault |
| `VerdictProofs` | theorems about `Worker` that need some faults to be absent |
| `SubmitApi` | `submit_problem`, one await per action |
| `Judge` | `SubmitApi` and `Worker` over one database and one broker, and the invariant `JudgeInv` |
| `JudgeProofs` | theorems about `Judge`: it implements `Worker` |
| `Execution` | one execution: `run_exec`, the shell command in the container, the pipes between them |
| `ExecutionInvariant`, `ExecutionProofs` | the inductive invariant `ExecInv`, and theorems |
| `ContainerPool` | the containers of one worker, from the first `pool.get()` to the teardown |
| `Lending` | abstract specification: what a task may count on of the container it is handed |
| `PoolInvariant`, `PoolProofs` | the inductive invariant `PoolInv`, and theorems |
| `Accounts` | signup and confirmation, and restarts of the API |
| `Registration` | abstract specification: how an address gets an account |
| `AccountsInvariant`, `AccountsProofs` | the inductive invariant `AccountsInv`, and theorems |
| `Sessions` | login, sessions in Redis and cookies |
| `Problems` | `create_problem` and `list_problems` over `Sessions` |
| `ProblemsInvariant` | the inductive invariant `ProblemsInv` of `Problems` and `Sessions` |
| `ProblemsProofs` | theorems about `Problems` |
| `MCWorker`, `MCJudge` | instances for TLC: the outputs `Runs` of each submission |
| `MCExecution`, `MCProblems` | instances for TLC: the commands `Scripts`; a symmetry |

### Worker

State and code:

| variable | code |
|---|---|
| `status` | `submit_status.status`, `"ABSENT"` before the INSERT |
| `stray` | UPDATEs sent by a future that was dropped: PostgreSQL may run them later |
| `ready`, `dlq`, `acked` | the broker's two queues, and what it has discarded as acknowledged |
| `unacked[w]`, `tag[w]`, `chan[w]` | `w`'s channel: unsettled deliveries, delivery tags, open or not |
| `phase[w]` | `execute`: in `listen`'s loop, in `task_tracker.wait()`, in `close()`, or not running |
| `token[w]` | the `CancellationToken` |
| `taken[w]`, `hand[w]` | what `consumer.next()` has yielded, and the delivery for which the loop awaits `pool.get()` |
| `stage[w][m]`, `result[w][m]` | the await of the task of `m`, and the verdict it is writing |

An action is what happens between two awaits. `handle_message` is `FetchTestcase`,
`ExecTestcase`, `RunUpdate` and `UpdateReturns`, with an action for each way out of
it by error (`FetchFails`, `ExecFails`, `UpdateFails`) or panic. `RetryUpdate` is the
backoff. `Cancelled` is `with_cancellation_token_owned` yielding `None`;
after it comes `Requeue` (`nack`, `multiple` and `requeue`). A settlement of a tag
the broker no longer knows closes the channel (`Refused`). `EndProcess` is what the
end of a process means whatever ended it: its tasks vanish, its deliveries go back,
and its UPDATEs under way may still run. `Submit` is the whole API in one step.
`Judge` shows that the API's handler refines it.

A pool is its permits here: a task in one of the `Handling` stages owns a
container. What a container is and does is `ContainerPool`'s subject. A message
that does not parse needs a container as well, since the code takes the container
before it parses.

### SubmitApi and Judge

`pc[m]` is the await at which the handler of request `m` stands, then its answer.
The INSERT commits by itself. `Publish` only puts the task on the wire, because the
channel is not in confirm mode, and `Route` drops it when no worker has declared the
queue yet. `PublishBreaks` is a publish that fails after the broker got the task.
`ConnLost` is final until `ApiRestart`. `Judge` interleaves these steps with those of
`Worker`. The API shares `status`, `ready` and `Declared` with it and nothing else.

### Execution

Two processes and what is between them. `run_exec` is `pc`: `StartExec`, `WriteInput`
(the testcase, piece by piece), `CloseInput`, `ReadChunk`, `EndOfStream`, `InspectExec`, with
`NoExitCode` for the `unwrap()`, `RunExecFails` for each `?` and `StreamBreaks` for the
`while let Some(Ok(..))` that takes an error for the end. The command is `script`: a
sequence of steps (read, write to a stream, compile, spin, exit), of which the
first `untimed` belong to the compile command. `Leave` is `&&`, `TimesOut` the `timeout`
in front of the run command alone. `stdin` and `pipe` hold at most `Cap`; a step of
either side waits when they are full or empty. `Decode` is the lossy decoding of one
chunk, byte by byte: a byte of a character that the chunk cuts in two becomes `"?"`. `Same` is `are_equal_ignore_whitespace`, and the result goes to
`StatusOf` of `ExecStatus`. `binary` is `/tmp/a.out`, which an earlier submission may have left.
`wrote` and `origin` are history variables: all that the process wrote, and the stream each
byte of `exec_output` came on. With them `Source(i)` is the byte that became byte `i` of the
output, and `Whole` says that everything written has been read, with no need to
guess how the two streams were mixed.

`Worker` takes one element of `Runs` as an execution's outcome. `Execution` is how
that outcome comes about, and `ContainerPool` where.

### ContainerPool

`docker[c]` and `inside[c]` belong to Docker, and change when nobody watches. The
rest belongs to the process: the list `containers` that `close()` works from, the
pool's `idle` objects, the `get` of the listen loop, and the object each task holds.
`TakeIdle`, `RecycleOk`, `RecycleFails`, `GrowPool`, `CreateContainer` and
`StartContainer` are deadpool's `get()` with the manager's `create` and `recycle`.
`GiveBack` is the drop of the object. `CloseNext` is one round of `close()`: it kills and
removes the next container of the list (`AfterKill`, `AfterRemove`), drops the errors of both
calls and goes on. A kill fails on a container that does not run, a removal on one that does, and
either may fail at the daemon (`kill`, `remove`); so a listed container may be left running or
stopped. `stuck` is a history variable: what `close()` could not remove. `RequestLands` is a create or
start that the daemon carries out although nobody awaits it any more. `Crash` is a killed process,
which closes nothing. Bound: `Containers` is finite, so a worker that has used up its ids cannot
create more. `Lending` is seen through the mapping `L`: whether a delivery is new, at work or over,
what it holds, the list, what Docker has removed, and what it refused to (`stuck`).

### Accounts

A confirmation is a transaction over one row of `verification` and one of `users`.
`lock` is PostgreSQL's row lock on a deleted and not yet committed row. Statements
that touch a locked row wait, as does an INSERT of a username that another open
transaction has inserted. `issued` is a history variable. `Registration` is seen through the
mapping `R`: the owners of tokens, the token issued last for each address, the mails and the accounts.

### Sessions and Problems

A login is `LoadSession` (the middleware reads the cookie and loads the state),
`VerifyPassword` or `RefuseLogin` (the row and the hash), and `StoreSession` or
`StoreFails`. Between them roles change, other logins store, sessions expire.
`AuthStored` is the `if let` of `login.rs`: `renew()` keeps what was loaded, `insert()`
enters who logged in. A cookie can be read while `key` is the one it was signed with;
`RestartApi` draws another. `granted` is a history variable.

`Problems` extends it. A request of `create_problem` is `CheckRole`, `BeginTx`,
`InsertProblem`, `InsertTestcase` and `CommitTx`. The id comes from `sequence` and is visible
at COMMIT only. `aborted` is the state of a transaction whose statement failed, for which
COMMIT is a ROLLBACK. `walk` is a client that pages: `ListProblems` reads one page from
the offset it has got to.

### External

Modelled from their use in `src/`: RabbitMQ (`Deliver`, `Refused`, `ChannelLost`,
`Route`), PostgreSQL (`RunStray`, row locks, `sequence`, `CommitAborted`), Docker
(`Die`, `Prune`, `ProcessEnds`, the pipes), the process in the container (`Read`, `Write`,
`TimesOut`), deadpool, actix-session and Redis.

## What is checked

Passing runs:

| run | instance | shows |
|---|---|---|
| `worker_faults` | 1 worker, 2 submissions, 1 garbage message, 2 containers, 2 starts, every fault | `NoTaskLost`, `OnePlace`, `IInv`; `TaskLedger` is implemented (`LedgerSpec`) |
| `worker_settles` | the same with 1 container; crashes, database and Docker faults; fair | `TypeOK` (types and permits), `NoAbandonedDelivery`, `VerdictIsGenuine`, `SettleInv`, `EventuallySettled` |
| `judge` | API and 2 workers with 2 containers each, 2 requests; API loses connection, INSERT or process; workers are stopped, killed or lose their channel, and one of them is started again | `MessageHasRow`, `SingleJudge`, `JudgeInv`, `VerdictFinal`; with rows hidden until their task arrives, the whole is a behaviour of `Worker` (`WorkerSpec`) |
| `execution` | 13 commands, a testcase of 4 pieces, pipes that hold 3; failing calls, a broken stream, a late exit code, a kill, a stray process; fair | `ExecTypeOK`, `OutputComplete`, `PassedIsEarned`, `OwnProgram`, `TimeLimitIsEarned`, `ExecInv`, `ExecReturns` |
| `pool` | 3 deliveries, 3 containers, `max_size` 2; containers fail to be created, started, killed or removed, die, are removed by others, keep a stray process; the worker is stopped or killed; fair | `PoolTypeOK` (one owner), `Exclusive`, `RunningBound`, `LeakBound`, `PoolInv`, `GetReturns`; `Lending` is implemented (`LendingSpec`), teardown included |
| `accounts` | 2 signups, 2 confirmations, 2 addresses, 2 names, 1 restart; lost statements, failing mails, clients that go away; fair | `AccountsTypeOK`, `LastTokenGood`, `ConfirmedOnce`, `AccountsInv`, `ConfirmEnds`; `Registration` is implemented (`RegistrationSpec`) |
| `problems` | 2 users, 2 logins in 1 browser, 2 creations, 1 walk with pages of 1, 1 restart; refused passwords, failing stores, lost answers, expiry, failing statements and COMMITs | `ProblemsTypeOK`, `ProblemsInv`, `SetterOnly`, `ListedIsJudgeable`, `PagingComplete` |

Runs that find a disagreement between the code and what the repository says of it:

| run | property | what the code does |
|---|---|---|
| `worker_exit_drained` | `ExitDrained` | on a signal `execute` closes the tracker and returns without waiting for it (`executer.rs:487-496`); README.md:86 says it waits |
| `worker_drain_ends` | `DrainEnds` | when the consumer ends, `listen` awaits a tracker that nobody closes (`executer.rs:234`), so the worker neither consumes nor exits |
| `worker_pool_error` | `VerdictIsGenuine` | a failing `pool.get()` closes the pool without cancelling the tasks; one whose container is killed reads 137, writes MEMORY LIMIT EXCEEDED and acknowledges |
| `judge_unroutable` | `AnsweredIsKept` | a submission is answered 200 although no queue exists yet, and is dropped |
| `problems_created` | `CreatedExists` | the result of the second INSERT is thrown away (`create_problem/post.rs:44`), COMMIT then rolls back without an error, and the answer is 200; README.md:83 says that database failures are answered 500 |

Properties are checked where the code can keep them, and the faults left out are
named: `worker_settles` is without `pool` (`worker_pool_error` shows why),
`channel` (`worker_drain_ends`) and `panic` (a panicking task's delivery is not
settled before the broker's consumer timeout). `pool` is without `inspect`: an
`inspect_container` that fails for a container that is there makes the pool forget
it while it runs on, beyond `max_size`. `OutputComplete` and `PassedIsEarned` are about
streams that do not break off, `OwnProgram` about containers without a stray process,
and `ExecReturns` about commands that somebody ends: `Endless` names the others.
`VerdictFinal` is checked where submissions are judged again, after a crash, a signal or a lost
channel, and while a second worker or a stray UPDATE still writes for them; the executions of
a submission give one verdict there. Where they differ, the row may go from one to the other.
`worker_settles` shows that either is genuine, and `FinalVerdicts` that, with pool and channel
in order, this takes a worker that was stopped.

### Bounds

- *Two submissions and a garbage message* are the least that gives `multiple: true`
  something to sweep along (a delivery in the loop's hand, in the buffer or with
  another task) and something unparseable to stand in front. Two containers let two
  tasks of one worker settle out of order (`worker_faults`, `judge`); one makes the loop
  wait with a delivery in its hand (`worker_settles`).
- *MaxStarts*: how often each process is started. With two starts (`Twice`) a process dies, is
  told to exit, or loses its channel at any point, and its successor finds what it left.
  Redelivery, stray UPDATEs and late acknowledgements all happen with one restart. The last
  incarnation of each worker keeps running and keeps its channel, as an operator's supervisor would
  keep one up; otherwise no liveness property could hold. In `judge` the first worker is started
  twice and the second once (`W1Twice`): what the first gives back, or runs on without a
  channel, goes to the second.
- *Runs*: in the runs of `Worker` one submission has one output and the other two, of different
  verdicts. None gives 137, so a made-up MEMORY LIMIT EXCEEDED is seen. In `judge` each has two
  outputs of one verdict (`WrongRuns`), since `VerdictFinal` does not hold of others; the
  submissions are then alike, and TLC uses the symmetry between them. The run has no liveness
  property, and leaves failing queries and executions of the workers to `worker_faults`.
- *Execution*: the testcase is longer than a pipe, and commands write more than a pipe
  holds, so that either side waits for the other and both do at once. The commands
  are right, slow to read, done before they have read, noisy on stderr, looping, wrong,
  crashing, ending with the exit code of `timeout`, deaf to SIGTERM; compilers say much, fail, fail in the
  very words that are expected, or warn. One character has two bytes.
- *ContainerPool*: one more delivery and one more container than `max_size`, so that
  the loop waits for a permit and one container is replaced.
- *Accounts*: two of everything that can collide, and one restart.
- *Problems*: two logins suffice for one to renew, replace or overtake the other's session;
  two creations commit in either order, in front of or behind the walk; pages of one
  give a client three of them. `PageCap` is 1 and `MaxLimit` 2, so that a limit is cut down.
  The run uses the symmetry of users, requests and session ids; it has no temporal
  property.

### Fairness

`Fairness` of `Worker` is weak fairness of the steps that nothing holds up for
ever: a query and its retries end, because the backoff has a `max_elapsed_time` of
10 s; an execution ends, because the run command is under `timeout`; the broker
delivers; and the loop is driven by tokio. Retries alone are not fair: `UpdateEnds`
says that the UPDATE returns or gives up. No fault is fair. The assumption about
executions leaves compilation out: the compile command has no `timeout`, so a
compiler that hangs holds its container for ever. Restarting a worker that is down
is fair: it stands for the operator. `PoolFairness` says that Docker answers
and executions end. `ExecFairSpec` has tokio drive `run_exec`, the kernel the process,
and `timeout` its clock; that a `spin` or a stall outlasts every other step is what a limit
in seconds means. `AccountsFairness` says that a handler's statements return
when they need not wait for a lock.

## What is proved

Every invariant of a passing run is proved by TLAPS for every value of the constants, and so are
`VerdictFinal` and the refinements; six of these
need hypotheses, which the tables name. What stays with TLC is at the end of this section.
The runs check each inductive invariant as well, but for `StayInv`, which is there for executions
that differ; `judge` checks `VerdictFinal` for those that agree.

### Workers

`WorkerProofs` proves, whatever the faults:

| theorem | states |
|---|---|
| `Invariance` | `Spec => []IInv` |
| `TypeCorrect` | `Spec => []TypeOK`, with the pool's limit |
| `NeverDuplicated` | `Spec => []OnePlace` |
| `NeverLost` | `Spec => []NoTaskLost` |
| `JudgedByOne` | `Spec => []SingleJudge` |
| `KeepsLedger` | `Spec => LedgerSpec`: `Worker` implements `TaskLedger` |

They assume `ConstantsOK` and `RunsOK` of `Worker`: finitely many submissions and
garbage messages, no name used twice, at least one container, and executions that
leave some output. Any number of workers, restarts and containers, and any set of
faults, are covered.

The argument. None of the properties is inductive. What a task may settle depends
on what its process, channel and token have gone through since the delivery, so
`IInv` says what remains true of that:

- `ProcessInv`: a process that is down has nothing; a cancelled token means that
  `execute` is in its teardown; a closed channel holds no delivery; a task is
  about to requeue only under a cancelled token.
- `AbsentInv`: nobody has heard of a submission without a row. It makes `Submit`
  safe: the message it adds is nowhere else.
- `KeptInv`: a row's message is somewhere at the broker. `NoTaskLost` follows from
  it with `VerdictInv`, which excludes `acked` while the row is PENDING.
- `VerdictInv`: the verdict is in the row from `written` on, so `Ack` never
  acknowledges without one. It is the step `Complete` of `TaskLedger`.
- `OrderInv`: deliveries are taken in the order of their tags, so what the loop
  takes next is with no task.
- `OwnInv`: with the channel open and the token not cancelled, whatever the worker
  has in its hand, its buffer or its tasks is unsettled on its channel.
  `SingleJudge` is `OwnInv` for two workers and `OnePlace` between them. `Nack`
  with `multiple` (a mutant) breaks it, and the real `Requeue` does not, only
  because its token is cancelled.

The proof has one step per action and below it one per conjunct the action disturbs.
Lemmas over the shared parts (`EndProcess`, `CloseChannel`, settling) are stated
once. `worker_faults` checks `IInv` itself as well.

### Deliveries and verdicts

`VerdictProofs` goes on from `IInv`. Its hypotheses are about `Faults` and `Runs`, and each
excludes what really breaks the property: a panic forgets a delivery; a pool that fails, or a
`reject` on a lost channel, closes the pool under live tasks (`worker_pool_error`).

| theorem | assuming | states |
|---|---|---|
| `EveryDeliveryAttended` | no task panics | `Spec => []NoAbandonedDelivery` |
| `SettleInvariance` | `LeftInPeace`: neither `pool` nor `channel` among the faults | `Spec => []SettleInv` |
| `GenuineVerdicts` | `LeftInPeace` | `Spec => []VerdictIsGenuine` |
| `StayInvariance` | `LeftInPeace`, and `NeverStopped`: `MaxStarts[w] <= 1` for every `w` | `Spec => []StayInv` |
| `FinalVerdicts` | `LeftInPeace`, and the executions of a submission agree, or `NeverStopped` | `Spec => VerdictFinal` |

- `TagInv` (under any fault): on a channel that is consumed, tags are given once and in order, and
  a message with a tag does not come back to the queue. So the delivery the loop takes next is
  the only one with that tag, and none is skipped.
- `CalmInv`: a worker that consumes has its channel, and one that closes its pool has cancelled its
  token. A settlement can only be refused after the cancellation (`OwnInv`), so the broker has no
  reason to close a channel that is consumed.
- `GenuineInv`: the verdict is genuine in the row, in the task that is about to write it, and in the
  UPDATE whose sender is gone. `ExecKilled` cannot happen: it would need a closing pool and
  a live token.
- `StayInv` is for executions that differ. `Mortal` stops only workers that may start again, so
  with one start nobody is stopped. Such workers are refused nothing and
  requeue nothing, so a task is alone with its submission (`OneTask`, from `OwnInv` and `OnePlace`).
  `NewsInv`: while a message is queued, buffered, in the hand or being executed, no verdict
  for it has been sent, so that no execution follows a verdict. `AgreeInv`: the row, the task that
  writes it, and the UPDATEs that retries left behind say the same. Both hypotheses are needed:
  a worker that is stopped, or loses its channel, has its submissions judged again.

### The whole system

`JudgeProofs` proves of the API, the database, the broker and the workers together:

| theorem | states |
|---|---|
| `JudgeInvariance` | `JudgeSpec => []JudgeInv` |
| `RowBeforeTask` | `JudgeSpec => []MessageHasRow` |
| `ImplementsWorker` | `JudgeSpec => WorkerSpec` |
| `WholeJudgedByOne` | `JudgeSpec => []SingleJudge` |
| `WholeVerdictFinal` | `JudgeSpec => VerdictFinal`, under the hypotheses of `FinalVerdicts` |
| `WholeKeepsLedger` | `JudgeSpec => W!LedgerSpec` |

The refinement mapping hides a row until its task is with the broker (`SeenStatus`), so that INSERT,
channel, exchange and publish stutter and `Route` is `Submit`. A step of the workers is one
of `Worker` over what is seen, because it writes only rows whose message was published; this
is where `RowInv` is needed. The theorems about the workers are then those of `WorkerProofs` and
`VerdictProofs`, instantiated over the mapping. Nothing is assumed of `ApiFaults`.

### Containers

| theorem of `PoolProofs` | states |
|---|---|
| `PoolInvariance` | `PoolSpec => []PoolInv` |
| `OwnedByOne` | `PoolSpec => []PoolTypeOK` |
| `NoSharedContainer` | `PoolSpec => []Exclusive` |
| `CloseLeavesNone` | `PoolSpec => []ClosedClean`, if neither `kill` nor `remove` is among the faults |
| `AtMostOneLeaks` | `PoolSpec => []LeakBound` |
| `ImplementsLending` | `PoolSpec => LendingSpec`: `ContainerPool` implements `Lending` |
| `RunningBounded` | `PoolSpec => []RunningBound`, if `inspect` is not among the faults |

`PoolInv` says where every container is that Docker knows of: with an object of the pool
(`HoldInv`, `SlotInv`), in the list (`ListInv`), or the one that is being started. `AtMostOneLeaks` is
`ListInv` and `CloseInv` when `execute` has returned. `CloseInv` is the loop invariant of `close()`: what is
in the list is removed, still to be tried (`left`), or was tried in vain (`stuck`); and nothing is
tried in vain if no call fails, which gives `CloseLeavesNone`. `LeakBound` says nothing of a
process that is killed: it leaves all its containers. `LiveInv` carries
`RunningBounded`: what lives takes one of the pool's places, since an object is dropped only
when its container is gone. The hypothesis is needed: an `inspect_container` that fails
otherwise makes the pool forget a container that runs on.

In `Lending` a container is handed out in one step, when a permit is free, the container exists and
nobody has it. `pool.get()` picks the permit and the container several awaits before it returns.
`PermitHeld` shows that they are still good then: `SlotInv` has kept the place, and an object has
one owner. The process ends (`End`) only when all that was ever handed out is removed or was refused
(`Refuse`), which is `CloseInv` when `left` is empty; or it is killed (`Crash`). This is what `Worker`
counts on where it counts permits only.

### Accounts

| theorem of `AccountsProofs` | states |
|---|---|
| `AccountsInvariance` | `AccountsSpec => []AccountsInv` |
| `LocksAreHeld` | `AccountsSpec => []AccountsTypeOK` |
| `TokenKept` | `AccountsSpec => []LastTokenGood` |
| `OneAccountEach` | `AccountsSpec => []ConfirmedOnce` |
| `ImplementsRegistration` | `AccountsSpec => RegistrationSpec`: `Accounts` implements `Registration` |

`LockInv`: from its DELETE to its end, the row is the confirmation's, so two with one token or
address never reach the INSERT together. `CommitInv`: what the UNIQUE constraints have checked at the
INSERT stays true until the COMMIT. `IssuedInv`: a row holds the token issued last, so with `LockInv`
that is what a COMMIT uses up. `UsersInv`: an address has one account.

In `Registration` an account is made in one step. The refinement maps every COMMIT to that step
(`Register`), whether its answer arrives or not, and the rest of the transaction, rollbacks, expiry and
restarts to stuttering. `Taken`, which the INSERT has looked at two awaits before, is still false
at the COMMIT (`CommitInv`): that is where the row lock and the wait of a second INSERT for the first are used.

### Executions

| theorem of `ExecutionProofs` | states |
|---|---|
| `ExecInvariance` | `ExecSpec => []ExecInv` |
| `PipesAreFaithful` | `ExecSpec => []ExecTypeOK` |
| `OutputIsComplete` | `ExecSpec => []OutputComplete` |
| `NoForeignProgram` | `ExecSpec => []OwnProgram` |
| `OnlySlowTimesOut` | `ExecSpec => []TimeLimitIsEarned` |
| `PassedEarned` | `ExecSpec => []PassedIsEarned`, if the testcase holds no U+FFFD |

They hold for every set of commands, every testcase and every capacity. `ScriptsOK` says what
`sh -c` and `timeout` give: a command ends or loops, and a compile command fails or leaves a program
(the compile command stands in front of `&&`). `ExecInv` relates the two ends of the pipes:

- `TextInv`: what was read of a stream and what is still in its pipe make up what was written to it,
  byte for byte, for any cutting into chunks. When the output has ended, the pipes are empty,
  which gives `OutputComplete`.
- `WrittenInv` and `InputInv`: what was written is what the steps so far write, and while
  `run_exec` writes it has read nothing. A process that stalls has therefore written more than
  the pipe holds before it has read its input: it `Clogs`, which gives `TimeLimitIsEarned`.
- `CodeInv` with `PathInv`: an exit code other than 124 and 137 is the command's own, of the program
  or of a compile command that failed; `ResultInv`: the result is that of all that was read.
- `BinaryInv`: past its compile command, what is in the container and what is run is the submission's.

A program that exits with 124 by itself is judged as stopped (`Mimics`): an exit code is all
that `run_exec` sees of `timeout`.

`PassedEarned` needs to know what `are_equal_ignore_whitespace` compares. `Filtered` ranks the places
without whitespace, and `Ranked` shows that the ranks have no gaps (an injection between finite sets
of one size is onto), so that whatever is left of one output is found in the other (`Left`,
`LeftOf`). A lost byte stands in the output as U+FFFD, which is left; so the testcase would have
to hold one. One that does can be passed by an output that lost a byte: hence the hypothesis.

### Problems and sessions

`ProblemsProofs` proves:

| theorem | states |
|---|---|
| `ProblemsInvariance` | `ProblemsSpec => []ProblemsInv` |
| `ProblemsTypeCorrect` | `ProblemsSpec => []ProblemsTypeOK` |
| `MadeBySetters` | `ProblemsSpec => []SetterOnly` |
| `AlwaysJudgeable` | `ProblemsSpec => []ListedIsJudgeable` |
| `PagingMissesNone` | `ProblemsSpec => []PagingComplete` |

They assume `SessionConstantsOK` and `ProblemConstantsOK`: finitely many requests, pages that
hold something, and roles out of the three there are. `ProblemsInv` has four parts:

- `Genuine`: what Redis holds, and what a login under way is about to store, was read
  together from the table. `SetterOnly` says so of requests only, which is not inductive.
- `Admitted`: past the check of the role, a request has a role that passes it.
- `Counted` and `Distinct`: the sequence counts the requests that have inserted, so that the id
  drawn next is new, and no id becomes visible before it is drawn.
- `Passed`: a walk has received what stands before its offset. It is kept because
  a new problem can only move others back (`PositionsGrow`), and an empty page means
  the end because positions have no gaps (`NoGaps`, `PageFacts`).

### Only model-checked

- Liveness: `EventuallySettled`, `GetReturns`, `ExecReturns`, `ConfirmEnds`. The prover has
  no rule for fairness.
- The five disagreements: a violation is a counterexample, which TLC gives.

## Disagreements without a run

Met while modelling; each is visible in a module, or is about detail that the modules
abstract from.

- README.md:86 has the container pool torn down cleanly. `close()` drops the errors of
  `kill_container` and `remove_container` (`pool.rs:51`, `pool.rs:59`), so that any number of containers
  may be left, running or stopped (`stuck`); a container on its way from `create_container` to the list
  is left when a signal comes, or its start fails (`pool.rs:75`, `docker.rs:38`); and a killed
  worker leaves all it had (`Crash`), which no later one removes. `LeakBound` and `ClosedClean` say
  what `close()` does for its part.
- README.md:53 has the client poll until the status is no longer PENDING. A task that fails is
  dead-lettered (`executer.rs:254`; `Nack` of `Worker`) and its row is not written; nothing
  reads `dlq`. The row stays PENDING, and the client polls, for ever. `EventuallySettled` is
  about the message only. The same holds of a row whose publish failed.
- The cookie key is drawn at each start (`startup.rs:112`), so sessions kept in Redis cannot be
  reached after a restart; README.md:65 calls the API stateless across restarts.
  (`RestartApi` in `Sessions`.)
- Outputs are compared without any of their whitespace (`executer.rs:19-23`), so that `1 2` equals
  `12`; README.md:88 speaks of trailing whitespace and newlines. (`Same`.) The `execution` run has a
  case: a program that prints `a e1 e2 blank` passes for the expected `a blank e1 e2`.
  `PassedIsEarned` therefore speaks of equality without any whitespace.
- A compile command that fails, and whose words on stderr are the expected output, is judged PASSED
  (`executer.rs:132`, `executer.rs:427`): exit code and source of the output are not
  looked at. README.md:52 compares the output of the submitted program. (`PassedIsEarned`, `Compiled`.)
- Neither the compile command nor a program that ignores SIGTERM is ended by anybody
  (`executer.rs:132`); README.md:87 says the timeout kills long-running processes. (`Endless`.)
- A character of several bytes is lost when a chunk ends inside it (`docker.rs:84`). (`Decode`.)
- A stream that breaks off is judged as it is (`docker.rs:83`), or panics on the missing exit
  code (`docker.rs:90`). (`StreamBreaks`, `NoExitCode`.)
- What the compiler and the program write to stderr is part of the compared output. (`ReadChunk`.)
- An unknown username at login is answered 500 (`login.rs:149`), not 401. (`RefuseLogin`.)
- A role in the table that is none of the three panics (`login.rs:176`).

## What is not modelled

- *Broker restart*: queues are not durable and messages not persistent, so a restart
  loses both. No code reacts to it.
- *Rows without a task*: a failure between INSERT and publish leaves one for ever. It
  is listed as a hazard; nothing in the repository forbids it.
- *Accounts*: decoding and validation of credentials and forms, and the password hash. The
  repository has no logout.
- *Problem, submissions, statistics*: single SELECTs without state.
- *Configuration, CORS, rate limiter, mail text*: wiring and layout. The rate limiter is a
  counter of a library in Redis.
- *Memory and PID limits* of a container: Docker's; their effect is an exit code (`Killed`).

## Plan

Done, in this order: `ExecStatus`, `TaskLedger`, `Worker` with its runs;
`WorkerInvariant` and `WorkerProofs`; `SubmitApi` and `Judge`; `ContainerPool`;
`Accounts`; `Execution`; `Sessions` and `Problems`; `ProblemsInvariant` and
`ProblemsProofs`; `JudgeProofs`, `PoolProofs`, `AccountsProofs`, `ExecutionProofs`, each with
its invariant; `VerdictProofs`; `Registration` and `Lending` with their refinements.

Left: the seams between `Worker` and the modules below it are argued, not proved. `Worker` counts
permits, and `Lending` says why a permit is a container of one's own. `Worker` takes an execution's outcome from `Runs`,
and its theorems hold for every choice of `Runs`; that `Execution` ends with such an
outcome is in `ExecTypeOK`. A module that composes the three would replace `Spawn`,
`ExecReturns` and the ends of a task by the steps of `ContainerPool` and `Execution`, as `Judge` does
with `Submit`.
