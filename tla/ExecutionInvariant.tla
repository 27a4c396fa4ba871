------------------------- MODULE ExecutionInvariant -------------------------
(***************************************************************************)
(* The inductive invariant behind the theorems of ExecutionProofs: what    *)
(* the two ends of the pipes know of each other.                           *)
(***************************************************************************)
EXTENDS Execution

\* What a command may write.
Written ==
  UNION {{s.steps[i].arg : i \in {j \in DOMAIN s.steps : s.steps[j].do \in Streams}} : s \in Scripts}

\* What has been written is what the steps taken so far write.
WrittenInv ==
  /\ pipe \in [Streams -> Seq(Written)] /\ wrote \in [Streams -> Seq(Written)]
  /\ \A s \in Streams : Len(wrote[s]) = Before(ip - 1, s)

\* What has been read of a stream and what is still in its pipe make up what was
\* written to it; once the output has ended, the pipes are empty for good.
TextInv ==
  /\ text \in Seq(Written \cup {"?"}) /\ origin \in Seq(Streams)
  /\ \A s \in Streams : Count(Len(origin), s) + Len(pipe[s]) = Len(wrote[s])
  /\ \A i \in DOMAIN text : Kept(i)
  /\ pc \in {"inspect", "done"} /\ ~cut => code # None /\ \A s \in Streams : pipe[s] = <<>>

\* Nobody gets past the end of a command.
PathInv == \A i \in 1 .. ip - 1 : script.steps[i].do \notin {"exit", "spin"}

\* While it writes, run_exec has read nothing, and what it has written is under
\* way or was read by the process, as long as there is one.
InputInv ==
  /\ pc = "start" => code = None
  /\ pc \in {"start", "write"} =>
       /\ ~closed
       /\ pipe = wrote
       /\ code = None => sent = stdin + Before(ip - 1, "read")
  /\ pc = "read" => closed

\* An exit code is the command's own unless somebody stopped it: that of the
\* program, which was run then, or of a compile command that failed.
CodeInv ==
  /\ code \in Int \cup {None}
  /\ code \notin {None, SIGKILL_EXIT, TIMEOUT_EXIT} =>
       Step.do = "exit" /\ Step.arg = code /\ (ran # None \/ ~Timed)

\* The result is that of the process, and of all that was read.
ResultInv ==
  pc = "done" => code # None /\ result = [exit_code |-> code, same |-> Same(text, Expected)]

\* Once its compiler is done, the program in the container is the submission's,
\* and so is what was run.
BinaryInv ==
  ~spoilt =>
    /\ ran \in {None, "own"}
    /\ (\E i \in 1 .. ip - 1 : script.steps[i].do = "compile") => binary = "own"

ExecInv ==
  /\ ExecTypeOK
  /\ WrittenInv
  /\ TextInv
  /\ PathInv
  /\ InputInv
  /\ CodeInv
  /\ ResultInv
  /\ BinaryInv
  /\ TimeLimitIsEarned
=============================================================================
