----------------------------- MODULE Execution -----------------------------
(***************************************************************************)
(* One execution of a submission: run_exec (worker/src/docker.rs) and the  *)
(* process that exec_testcase starts in the container, up to the output    *)
(* that handle_testcase judges.  Worker takes the outcome from Runs; here  *)
(* it is produced.                                                         *)
(*                                                                         *)
(* run_exec writes the whole testcase before it reads any output, and the  *)
(* pipes to and from the process hold so much and no more.                 *)
(*                                                                         *)
(* External, modelled from its use here: Docker's exec, sh and timeout.    *)
(***************************************************************************)
EXTENDS ExecStatus, Sequences, SequencesExt

CONSTANTS
  Scripts,      \* what a command may do: its steps, of which the first `untimed`
                \* are those of the compile command, if there is one
  InputLen,     \* length of the testcase
  Expected,     \* the testcase's output, a sequence of bytes
  Cap,          \* what a pipe and the buffers along it hold
  ExecFaults,   \* which faults the environment may inject
  None          \* "no exit code", "no result"

ExecFaultKind ==
  { "docker",   \* a call of the Docker API fails
    "stream",   \* the stream of output breaks off
    "stray",    \* a process that run_exec gave up earlier compiles its program
    "late",     \* the exit code is recorded after the output has ended
    "kill" }    \* the container is killed

ASSUME ExecConstantsOK ==
  /\ InputLen \in Nat /\ Cap \in Nat \ {0}
  /\ ExecFaults \subseteq ExecFaultKind
  /\ None \notin Int /\ None \notin {"old", "own"}

Streams == {"out", "err"}

\* A command ends or loops; a compile command fails or leaves its program.
ASSUME ScriptsOK ==
  \A s \in Scripts : LET n == Len(s.steps) IN
    /\ n \in Nat \ {0} /\ DOMAIN s.steps = 1 .. n /\ s.untimed \in 0 .. n
    /\ s.steps[n].do \in {"exit", "spin"}
    /\ \A i \in 1 .. n :
         /\ s.steps[i].do \in {"read", "compile", "exit", "spin"} \cup Streams
         /\ s.steps[i].do = "exit" => s.steps[i].arg \in Int
    /\ s.untimed > 0 => \E i \in 1 .. s.untimed : s.steps[i].do \in {"compile", "exit"}

VARIABLES
  script,   \* the command at work
  pc,       \* where run_exec is
  sent,     \* how much of the testcase it has written
  closed,   \* has it shut its side of stdin down
  stdin,    \* how much is on its way to the process
  pipe,     \* what is on its way from the process, on stdout and stderr
  wrote,    \* all that the process has written (history)
  ip,       \* the process's next step
  binary,   \* whose program is in the container's /tmp/a.out
  ran,      \* whose program was run (history)
  spoilt,   \* has a stray process been there (history)
  code,     \* the exit code of a process that has ended
  text,     \* exec_output, with "?" for a byte that was lost
  origin,   \* the stream that each byte of it came on (history)
  cut,      \* has the stream of output broken off (history)
  result    \* what handle_testcase gets

output == <<text, origin>>
client == <<pc, sent, closed, output, cut, result>>
files == <<binary, spoilt>>
process == <<script, wrote, ip, ran, code>>
execVars == <<client, process, files, stdin, pipe>>

ClientStage == {"start", "write", "read", "inspect", "done", "error", "panic"}

Step == script.steps[ip]
Running == pc # "start" /\ code = None
Timed == ip > script.untimed
AtWork == Running /\ (Timed => ran # None)

\* Bytes are characters but for "e1" "e2", the two bytes of one.  Each chunk is
\* decoded by itself, so that a character cut in two is lost.
Decode(f) ==
  LET torn(i) == \/ f[i] = "e1" /\ ~(i + 1 \in DOMAIN f /\ f[i + 1] = "e2")
                 \/ f[i] = "e2" /\ ~(i - 1 \in DOMAIN f /\ f[i - 1] = "e1")
  IN  [i \in DOMAIN f |-> IF torn(i) THEN "?" ELSE f[i]]

\* Where s has no whitespace, and what is left of s: the k-th such place has k of
\* them up to and with itself.
Places(s) == {i \in DOMAIN s : s[i] # " "}

Filtered(s) ==
  LET nth(k) == CHOOSE i \in Places(s) : Cardinality(Places(s) \cap 1 .. i) = k
  IN  [k \in 1 .. Cardinality(Places(s)) |-> s[nth(k)]]

\* Mutant of Same: the characters are compared in pairs, up to the shorter end.
SameZipped(s, t) ==
  \A i \in DOMAIN Filtered(s) \cap DOMAIN Filtered(t) : Filtered(s)[i] = Filtered(t)[i]

\* are_equal_ignore_whitespace
Same(s, t) == Filtered(s) = Filtered(t)

ExecInit ==
  /\ script \in Scripts
  /\ pc = "start" /\ sent = 0 /\ closed = FALSE
  /\ text = <<>> /\ origin = <<>> /\ cut = FALSE /\ result = None
  /\ stdin = 0 /\ pipe = [s \in Streams |-> <<>>]
  /\ wrote = [s \in Streams |-> <<>>]
  /\ ip = 1 /\ ran = None /\ code = None
  /\ binary \in {None, "old"} /\ spoilt = FALSE

-----------------------------------------------------------------------------
(* run_exec *)

StartExec ==
  /\ pc = "start"
  /\ pc' = "write"
  /\ UNCHANGED <<process, files, stdin, pipe, sent, closed, output, cut, result>>

\* Mutant of WriteInput: write_all is not told where the testcase ends.
WriteInputOn ==
  /\ pc = "write"
  /\ stdin < Cap
  /\ sent' = sent + 1 /\ stdin' = stdin + 1
  /\ UNCHANGED <<process, files, pipe, pc, closed, output, cut, result>>

\* Nobody takes the input of a process that has ended: it is thrown away.
WriteInput ==
  /\ pc = "write" /\ sent < InputLen
  /\ sent' = sent + 1
  /\ \/ Running /\ stdin < Cap /\ stdin' = stdin + 1
     \/ ~Running /\ UNCHANGED stdin
  /\ UNCHANGED <<process, files, pipe, pc, closed, output, cut, result>>

\* Mutant of CloseInput: without shutdown.
CloseInputNever ==
  /\ pc = "write" /\ sent = InputLen
  /\ pc' = "read"
  /\ UNCHANGED <<process, files, stdin, pipe, sent, closed, output, cut, result>>

CloseInput ==
  /\ pc = "write" /\ sent = InputLen
  /\ closed' = TRUE
  /\ pc' = "read"
  /\ UNCHANGED <<process, files, stdin, pipe, sent, output, cut, result>>

\* Mutant of ReadChunk: `if let` for `while let`.
ReadChunkOnce ==
  /\ pc = "read"
  /\ \E s \in Streams : \E n \in 1 .. Len(pipe[s]) :
       /\ text' = text \o Decode(SubSeq(pipe[s], 1, n))
       /\ origin' = origin \o [i \in 1 .. n |-> s]
       /\ pipe' = [pipe EXCEPT ![s] = SubSeq(@, n + 1, Len(@))]
  /\ pc' = "inspect"
  /\ UNCHANGED <<process, files, stdin, sent, closed, cut, result>>

\* A chunk is whatever has come in on one of the streams.
ReadChunk ==
  /\ pc = "read"
  /\ \E s \in Streams : \E n \in 1 .. Len(pipe[s]) :
       /\ text' = text \o Decode(SubSeq(pipe[s], 1, n))
       /\ origin' = origin \o [i \in 1 .. n |-> s]
       /\ pipe' = [pipe EXCEPT ![s] = SubSeq(@, n + 1, Len(@))]
  /\ UNCHANGED <<process, files, stdin, pc, sent, closed, cut, result>>

\* Mutant of EndOfStream: what has not been read when the process ends is left.
EndOfProcess ==
  /\ pc = "read" /\ ~Running
  /\ pc' = "inspect"
  /\ UNCHANGED <<process, files, stdin, pipe, sent, closed, output, cut, result>>

EndOfStream ==
  /\ pc = "read" /\ ~Running
  /\ \A s \in Streams : pipe[s] = <<>>
  /\ pc' = "inspect"
  /\ UNCHANGED <<process, files, stdin, pipe, sent, closed, output, cut, result>>

\* `while let Some(Ok(msg))`: an error ends the loop like the end of the output.
StreamBreaks ==
  /\ "stream" \in ExecFaults
  /\ pc = "read"
  /\ pc' = "inspect"
  /\ cut' = TRUE
  /\ UNCHANGED <<process, files, stdin, pipe, sent, closed, output, result>>

InspectExec ==
  /\ pc = "inspect" /\ ~Running
  /\ pc' = "done"
  /\ result' = [exit_code |-> code, same |-> Same(text, Expected)]
  /\ UNCHANGED <<process, files, stdin, pipe, sent, closed, output, cut>>

\* exit_code.unwrap() without an exit code.
NoExitCode ==
  /\ pc = "inspect"
  /\ Running \/ "late" \in ExecFaults
  /\ pc' = "panic"
  /\ UNCHANGED <<process, files, stdin, pipe, sent, closed, output, cut, result>>

\* Writing to a process that has ended may fail as well.
RunExecFails ==
  /\ \/ "docker" \in ExecFaults /\ pc \in {"start", "write", "inspect"}
     \/ pc = "write" /\ ~Running
  /\ pc' = "error"
  /\ UNCHANGED <<process, files, stdin, pipe, sent, closed, output, cut, result>>

-----------------------------------------------------------------------------
(* The process: sh, the compiler, and the program under `timeout`.          *)

\* It takes a piece of its input, or finds the end of it.
Read ==
  /\ AtWork /\ Step.do = "read"
  /\ \/ stdin > 0 /\ stdin' = stdin - 1
     \/ stdin = 0 /\ closed /\ UNCHANGED stdin
  /\ ip' = ip + 1
  /\ UNCHANGED <<client, files, pipe, script, wrote, ran, code>>

Write ==
  /\ AtWork /\ Step.do \in Streams
  /\ Len(pipe[Step.do]) < Cap
  /\ pipe' = [pipe EXCEPT ![Step.do] = Append(@, Step.arg)]
  /\ wrote' = [wrote EXCEPT ![Step.do] = Append(@, Step.arg)]
  /\ ip' = ip + 1
  /\ UNCHANGED <<client, files, stdin, script, ran, code>>

\* The compiler has read /tmp/file and leaves its result.
Compile ==
  /\ AtWork /\ Step.do = "compile"
  /\ binary' = "own"
  /\ ip' = ip + 1
  /\ UNCHANGED <<client, spoilt, stdin, pipe, script, wrote, ran, code>>

\* What the run command names: the compiled program, or the source itself.
Launch ==
  /\ Running /\ Timed /\ ran = None
  /\ ran' = IF script.untimed > 0 THEN binary ELSE "own"
  /\ UNCHANGED <<client, files, stdin, pipe, script, wrote, ip, code>>

End(c) ==
  /\ Running
  /\ code' = c
  /\ UNCHANGED <<client, files, stdin, pipe, script, wrote, ip, ran>>

\* Mutant of Leave: `;` for `&&` after the compile command.
LeaveTimed ==
  /\ AtWork /\ Step.do = "exit"
  /\ IF Timed THEN End(Step.arg)
     ELSE ip' = ip + 1 /\ UNCHANGED <<client, files, stdin, pipe, script, wrote, ran, code>>

\* A compile command that fails ends the whole: `&&`.
Leave == AtWork /\ Step.do = "exit" /\ End(Step.arg)

\* The process waits for run_exec and run_exec for the process.
Stalled ==
  /\ \/ Step.do \in Streams /\ Len(pipe[Step.do]) = Cap
     \/ Step.do = "read" /\ stdin = 0 /\ ~closed
  /\ \/ pc = "write" /\ sent < InputLen /\ stdin = Cap
     \/ pc = "read" /\ \A s \in Streams : pipe[s] = <<>>

\* Mutant of TimesOut: `timeout` stands before the compile command.
TimesOutCompiling ==
  /\ Step.do = "spin" \/ Stalled
  /\ ~Timed /\ Step.arg # "deaf"
  /\ End(TIMEOUT_EXIT)

\* `timeout` sends SIGTERM, once, and a program may be deaf to it.  Whatever
\* else happens takes less time than the limit.
TimesOut ==
  /\ Step.do = "spin" \/ Stalled
  /\ AtWork /\ Timed /\ Step.arg # "deaf"
  /\ End(TIMEOUT_EXIT)

Killed == "kill" \in ExecFaults /\ End(SIGKILL_EXIT)

StrayCompiles ==
  /\ "stray" \in ExecFaults
  /\ binary' = "old" /\ spoilt' = TRUE
  /\ UNCHANGED <<client, process, stdin, pipe>>

-----------------------------------------------------------------------------
RunExec ==
  \/ StartExec
  \/ WriteInput
  \/ CloseInput
  \/ ReadChunk
  \/ EndOfStream
  \/ InspectExec
  \/ NoExitCode

Process ==
  \/ Read
  \/ Write
  \/ Compile
  \/ Launch
  \/ Leave
  \/ TimesOut

ExecNext ==
  \/ RunExec
  \/ StreamBreaks
  \/ RunExecFails
  \/ Process
  \/ Killed
  \/ StrayCompiles

ExecSpec == ExecInit /\ [][ExecNext]_execVars

\* tokio drives run_exec, the kernel the process, and `timeout` its clock.
ExecFairSpec == ExecSpec /\ WF_execVars(RunExec) /\ WF_execVars(Process)

-----------------------------------------------------------------------------
(* Properties. *)

\* Types and the capacities, and that what is under way was written.
ExecTypeOK ==
  /\ script \in Scripts
  /\ pc \in ClientStage
  /\ sent \in 0 .. InputLen /\ closed \in BOOLEAN
  /\ stdin \in 0 .. Cap
  /\ \A s \in Streams : Len(pipe[s]) <= Cap /\ IsSuffix(pipe[s], wrote[s])
  /\ ip \in DOMAIN script.steps
  /\ binary \in {None, "old", "own"} /\ ran \in {None, "old", "own"}
  /\ spoilt \in BOOLEAN
  /\ cut \in BOOLEAN
  /\ Len(origin) = Len(text)
  /\ result \in ExecOutput \cup {None}

\* How many of the first k bytes of exec_output came on stream s.
Count(k, s) == Cardinality({j \in 1 .. k : origin[j] = s})

\* The byte that became byte i of exec_output: on either stream the first that
\* is read is the first that was written, and so on.
Source(i) == wrote[origin[i]][Count(i, origin[i])]

Kept(i) == text[i] = Source(i) \/ (text[i] = "?" /\ Source(i) \in {"e1", "e2"})

\* All that was written on either stream has been read.
Whole == \A s \in Streams : Count(Len(origin), s) = Len(wrote[s])

\* run_exec returns all that the process wrote, each stream in its order, in
\* whatever chunks it came and however the process ended, but for the bytes of
\* a character cut in two, and unless the stream broke off, which nobody is
\* told of.
OutputComplete ==
  pc = "done" /\ ~cut =>
    /\ Whole
    /\ \A i \in DOMAIN text : Kept(i)

Verdict == StatusOf(result)

\* No chunk boundary, kill or timeout earns a PASSED: the command ended by
\* itself, all that it wrote was read, none of it was lost, and it equals the
\* testcase once ALL whitespace is dropped from both.  What ended is the program,
\* or else a compile command that failed: the code does not tell the words of a
\* compiler from the output of a program.
PassedIsEarned ==
  pc = "done" /\ ~cut /\ Verdict = "PASSED" =>
    /\ Step.do = "exit" /\ Step.arg = code
    /\ ran # None \/ ~Timed
    /\ Whole
    /\ \A i \in DOMAIN text : text[i] = Source(i)
    /\ Filtered(text) = Filtered(Expected)

\* A submission is judged by a run of its own program or by its compiler's
\* words: what earlier submissions left in the recycled container is not run.
\* (A process that was given up there may put its program in place of this one.)
OwnProgram == pc = "done" /\ ~spoilt => ran \in {None, "own"}

\* How often the command does it in its first i steps.
Before(i, what) == Cardinality({j \in 1 .. i : script.steps[j].do = what})

\* A step that writes more than the pipe holds while the input that nobody has
\* read is more than the way in holds.
Clogs(i) ==
  LET s == script.steps[i].do
  IN  s \in Streams /\ Before(i, s) > Cap /\ Before(i, "read") + Cap < InputLen

Spins(i) == script.steps[i].do = "spin"

\* A program that ends by itself with the exit code of `timeout`.
Mimics(i) == script.steps[i].do = "exit" /\ script.steps[i].arg = TIMEOUT_EXIT

\* The time limit strikes a program that loops, or one that clogs both pipes
\* because run_exec does not read while it writes.  No other is stopped, and
\* none is judged as if it were but for one that says so itself.
TimeLimitIsEarned ==
  code = TIMEOUT_EXIT => \E i \in DOMAIN script.steps : Spins(i) \/ Clogs(i) \/ Mimics(i)

Over == pc \in {"done", "error", "panic"}

\* What nobody ends: a compile command that loops or clogs, a deaf program.
Endless(i) ==
  \/ i <= script.untimed /\ (Spins(i) \/ Clogs(i))
  \/ Spins(i) /\ script.steps[i].arg = "deaf"

\* run_exec returns, with an output, an error or a panic, whatever the program
\* reads, writes or omits and whatever fails, unless nobody ends the command.
ExecReturns == (\A i \in DOMAIN script.steps : ~Endless(i)) => <>Over
=============================================================================
