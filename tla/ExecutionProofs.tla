--------------------------- MODULE ExecutionProofs ---------------------------
(***************************************************************************)
(* Theorems of module Execution, for any set of commands (ScriptsOK), any  *)
(* testcase, any capacity of the pipes and any faults.                     *)
(***************************************************************************)
EXTENDS ExecutionInvariant, SequenceTheorems, FiniteSetTheorems, TLAPS

-----------------------------------------------------------------------------
(* Counting the steps of a command, and the queues of a pipe. *)

\* Before counts one more step at a time.
LEMMA BeforeStep ==
  ASSUME NEW i \in Nat, NEW what
  PROVE  /\ Before(i, what) \in Nat
         /\ Before(0, what) = 0
         /\ Before(i + 1, what) = Before(i, what) + (IF script.steps[i + 1].do = what THEN 1 ELSE 0)
<1> DEFINE At(k) == {j \in 1 .. k : script.steps[j].do = what}
<1>1. IsFiniteSet(At(i)) /\ Cardinality(At(i)) \in Nat
  <2>1. IsFiniteSet(1 .. i)
    BY FS_Interval
  <2>2. At(i) \in SUBSET (1 .. i)
    OBVIOUS
  <2>. QED
    BY <2>1, <2>2, FS_Subset, FS_CardinalityType
<1>2. At(0) = {}
  OBVIOUS
<1>3. At(i + 1) = IF script.steps[i + 1].do = what THEN At(i) \cup {i + 1} ELSE At(i)
  OBVIOUS
<1>4. i + 1 \notin At(i)
  OBVIOUS
<1>5. /\ Before(0, what) = Cardinality(At(0)) /\ Before(i, what) = Cardinality(At(i))
      /\ Before(i + 1, what) = Cardinality(At(i + 1))
  BY DEF Before
<1>6. Cardinality(At(i) \cup {i + 1}) = Cardinality(At(i)) + 1
  BY <1>1, <1>4, FS_AddElement
<1>. HIDE DEF At
<1>. QED
  BY <1>1, <1>2, <1>3, <1>5, <1>6, FS_EmptySet

\* A suffix, element by element.
Ends(s, t) ==
  /\ Len(s) <= Len(t)
  /\ \A i \in 1 .. Len(s) : s[i] = t[Len(t) - Len(s) + i]

\* IsSuffix means that.
LEMMA SuffixElements ==
  ASSUME NEW S, NEW s \in Seq(S), NEW t \in Seq(S)
  PROVE  IsSuffix(s, t) <=> Ends(s, t)
<1> DEFINE m == Len(s)
           n == Len(t)
           r == Reverse(s)
           q == Reverse(t)
<1>1. /\ m \in Nat /\ n \in Nat
      /\ r = [i \in 1 .. m |-> s[m - i + 1]] /\ q = [i \in 1 .. n |-> t[n - i + 1]]
  BY LenProperties DEF Reverse
<1>2. /\ \A i \in 1 .. m : s[i] \in S
      /\ \A i \in 1 .. n : t[i] \in S
  BY ElementOfSeq
<1>3. /\ r \in Seq(S) /\ Len(r) = m
      /\ q \in Seq(S) /\ Len(q) = n
  BY <1>1, <1>2, IsASeq
<1>4. CASE m <= n
  <2>1. /\ Len(SubSeq(r, 1, m)) = m /\ Len(SubSeq(q, 1, m)) = m
        /\ SubSeq(r, 1, m) \in Seq(S) /\ SubSeq(q, 1, m) \in Seq(S)
        /\ \A i \in 1 .. m : SubSeq(r, 1, m)[i] = r[i] /\ SubSeq(q, 1, m)[i] = q[i]
    BY <1>1, <1>3, <1>4, SubSeqProperties
  <2>2. SubSeq(r, 1, m) = SubSeq(q, 1, m) <=> \A i \in 1 .. m : r[i] = q[i]
    BY <2>1, SeqEqual
  <2>3. \A i \in 1 .. m : r[i] = s[m - i + 1] /\ q[i] = t[n - i + 1]
    BY <1>1, <1>4
  <2>4. ASSUME \A i \in 1 .. m : r[i] = q[i], NEW i \in 1 .. m
        PROVE  s[i] = t[n - m + i]
    <3>1. m - i + 1 \in 1 .. m /\ m - (m - i + 1) + 1 = i /\ n - (m - i + 1) + 1 = n - m + i
      BY <1>1
    <3>. QED
      BY <2>3, <2>4, <3>1
  <2>5. ASSUME \A i \in 1 .. m : s[i] = t[n - m + i], NEW i \in 1 .. m
        PROVE  r[i] = q[i]
    <3>1. m - i + 1 \in 1 .. m /\ n - m + (m - i + 1) = n - i + 1
      BY <1>1
    <3>. QED
      BY <2>3, <2>5, <3>1
  <2>. QED
    BY <1>3, <1>4, <2>2, <2>4, <2>5 DEF IsSuffix, IsPrefix, Ends
<1>5. CASE ~(m <= n)
  BY <1>3, <1>5 DEF IsSuffix, IsPrefix, Ends
<1>. QED
  BY <1>4, <1>5

\* Writing to a pipe, and reading from its other end, keeps it a suffix of all
\* that was written.
LEMMA SuffixKept ==
  ASSUME NEW S, NEW s \in Seq(S), NEW t \in Seq(S), IsSuffix(s, t)
  PROVE  /\ \A e \in S : IsSuffix(Append(s, e), Append(t, e))
         /\ \A n \in 1 .. Len(s) :
              /\ SubSeq(s, n + 1, Len(s)) \in Seq(S)
              /\ Len(SubSeq(s, n + 1, Len(s))) = Len(s) - n
              /\ IsSuffix(SubSeq(s, n + 1, Len(s)), t)
<1>1. Ends(s, t) /\ Len(s) \in Nat /\ Len(t) \in Nat
  BY SuffixElements, LenProperties
<1>2. ASSUME NEW e \in S
      PROVE  IsSuffix(Append(s, e), Append(t, e))
  <2>1. /\ Append(s, e) \in Seq(S) /\ Append(t, e) \in Seq(S)
        /\ Len(Append(s, e)) = Len(s) + 1 /\ Len(Append(t, e)) = Len(t) + 1
        /\ \A i \in 1 .. Len(s) : Append(s, e)[i] = s[i]
        /\ \A i \in 1 .. Len(t) : Append(t, e)[i] = t[i]
        /\ Append(s, e)[Len(s) + 1] = e /\ Append(t, e)[Len(t) + 1] = e
    BY AppendProperties
  <2>2. ASSUME NEW i \in 1 .. Len(s) + 1
        PROVE  Append(s, e)[i] = Append(t, e)[Len(t) + 1 - (Len(s) + 1) + i]
    <3>1. CASE i = Len(s) + 1
      BY <1>1, <2>1, <3>1
    <3>2. CASE i # Len(s) + 1
      <4>1. /\ i \in 1 .. Len(s) /\ Len(t) - Len(s) + i \in 1 .. Len(t)
            /\ Len(t) + 1 - (Len(s) + 1) + i = Len(t) - Len(s) + i
        BY <1>1, <3>2 DEF Ends
      <4>. QED
        BY <1>1, <2>1, <4>1 DEF Ends
    <3>. QED
      BY <3>1, <3>2
  <2>3. Ends(Append(s, e), Append(t, e))
    <3> DEFINE a == Append(s, e)
               b == Append(t, e)
    <3>1. /\ Len(a) = Len(s) + 1 /\ Len(b) = Len(t) + 1
          /\ \A i \in 1 .. Len(s) + 1 : a[i] = b[Len(t) + 1 - (Len(s) + 1) + i]
      BY <2>1, <2>2
    <3>2. Len(s) + 1 <= Len(t) + 1
      BY <1>1 DEF Ends
    <3>. HIDE DEF a, b
    <3>3. Ends(a, b)
      BY <3>1, <3>2 DEF Ends
    <3>. QED
      BY <3>3 DEF a, b
  <2>. QED
    BY <2>1, <2>3, SuffixElements
<1>3. ASSUME NEW n \in 1 .. Len(s)
      PROVE  /\ SubSeq(s, n + 1, Len(s)) \in Seq(S)
             /\ Len(SubSeq(s, n + 1, Len(s))) = Len(s) - n
             /\ IsSuffix(SubSeq(s, n + 1, Len(s)), t)
  <2> DEFINE u == SubSeq(s, n + 1, Len(s))
  <2>1. /\ u \in Seq(S) /\ Len(u) = Len(s) - n
        /\ \A i \in 1 .. Len(s) - n : u[i] = s[n + i]
    <3>1. CASE n = Len(s)
      <4>1. u = <<>>
        BY <1>1, <3>1, SubSeqEmpty
      <4>. QED
        BY <1>1, <3>1, <4>1, EmptySeq
    <3>2. CASE n # Len(s)
      <4>1. n + 1 \in Int /\ Len(s) \in Int /\ n + 1 <= Len(s) /\ Len(s) - (n + 1) + 1 = Len(s) - n
        BY <1>1, <3>2
      <4>2. \A i \in n + 1 .. Len(s) : s[i] \in S
        BY <1>1, ElementOfSeq
      <4>3. /\ u \in Seq(S) /\ Len(u) = Len(s) - (n + 1) + 1
            /\ \A i \in 1 .. Len(s) - (n + 1) + 1 : u[i] = s[n + 1 + i - 1]
        BY <4>1, <4>2, SubSeqProperties
      <4>4. \A i \in 1 .. Len(s) - n : n + 1 + i - 1 = n + i
        BY <1>1
      <4>. QED
        BY <4>1, <4>3, <4>4
    <3>. QED
      BY <3>1, <3>2
  <2>2. ASSUME NEW i \in 1 .. Len(s) - n
        PROVE  u[i] = t[Len(t) - (Len(s) - n) + i]
    <3>1. n + i \in 1 .. Len(s) /\ Len(t) - Len(s) + (n + i) = Len(t) - (Len(s) - n) + i
      BY <1>1
    <3>. QED
      BY <1>1, <2>1, <3>1 DEF Ends
  <2>3. Ends(u, t)
    <3>1. Len(s) - n <= Len(t)
      BY <1>1 DEF Ends
    <3>. QED
      BY <2>1, <2>2, <3>1 DEF Ends
  <2>. QED
    BY <2>1, <2>3, SuffixElements
<1>. QED
  BY <1>2, <1>3

-----------------------------------------------------------------------------
(* Where the process is, and how it moves. *)

\* What is known of the command at work and of its next step.
LEMMA Here ==
  ASSUME script \in Scripts, ip \in DOMAIN script.steps
  PROVE  /\ Len(script.steps) \in Nat /\ DOMAIN script.steps = 1 .. Len(script.steps)
         /\ ip \in Nat /\ ip \in 1 .. Len(script.steps) /\ ip - 1 \in Nat /\ (ip - 1) + 1 = ip
         /\ script.steps[Len(script.steps)].do \in {"exit", "spin"}
         /\ Step = script.steps[ip]
         /\ Step.do \in Streams => Step.arg \in Written
         /\ Step.do = "exit" => Step.arg \in Int
         /\ script.untimed \in 0 .. Len(script.steps)
<1>1. /\ Len(script.steps) \in Nat \ {0} /\ DOMAIN script.steps = 1 .. Len(script.steps)
      /\ script.steps[Len(script.steps)].do \in {"exit", "spin"}
      /\ script.untimed \in 0 .. Len(script.steps)
      /\ \A i \in 1 .. Len(script.steps) : script.steps[i].do = "exit" => script.steps[i].arg \in Int
  BY ScriptsOK DEF ScriptsOK
<1>2. ip \in 1 .. Len(script.steps) /\ ip \in Nat /\ ip - 1 \in Nat /\ (ip - 1) + 1 = ip
  BY <1>1
<1>3. Step.do \in Streams => Step.arg \in Written
  BY DEF Step, Written
<1>. QED
  BY <1>1, <1>2, <1>3 DEF Step

\* The step at hand counts once it is taken.
LEMMA StepCounts ==
  ASSUME script \in Scripts, ip \in DOMAIN script.steps, NEW what
  PROVE  /\ Before(ip - 1, what) \in Nat
         /\ Before(ip, what) = Before(ip - 1, what) + (IF Step.do = what THEN 1 ELSE 0)
<1> DEFINE i == ip - 1
<1>1. i \in Nat /\ i + 1 = ip /\ script.steps[i + 1] = Step
  BY Here
<1>. HIDE DEF i
<1>2. /\ Before(i, what) \in Nat
      /\ Before(i + 1, what) = Before(i, what) + (IF script.steps[i + 1].do = what THEN 1 ELSE 0)
  BY <1>1, BeforeStep
<1>. QED
  BY <1>1, <1>2 DEF i

\* The process goes on by one step at a time, and not past one that ends it or
\* loops.
LEMMA Moves ==
  ASSUME script \in Scripts, ip \in DOMAIN script.steps, [ExecNext]_execVars
  PROVE  /\ script' = script
         /\ ip' \in DOMAIN script.steps
         /\ \/ ip' = ip
            \/ /\ ip' = ip + 1
               /\ Step.do \notin {"exit", "spin"} /\ AtWork
               /\ Read \/ Write \/ Compile
<1>1. CASE Read \/ Write \/ Compile
  <2>1. /\ ip' = ip + 1 /\ script' = script
        /\ Step.do \notin {"exit", "spin"} /\ AtWork
    BY <1>1 DEF Read, Write, Compile, Streams
  <2>2. ip # Len(script.steps)
    BY <2>1, Here
  <2>3. ip + 1 \in 1 .. Len(script.steps)
    BY <2>2, Here
  <2>. QED
    BY <1>1, <2>1, <2>3, Here
<1>2. CASE script' = script /\ ip' = ip
  BY <1>2
<1>. QED
  BY <1>1, <1>2
  DEF ExecNext, RunExec, Process, StartExec, WriteInput, CloseInput, ReadChunk, EndOfStream,
      StreamBreaks, InspectExec, NoExitCode, RunExecFails, Launch, End, Leave, TimesOut, Killed,
      StrayCompiles, execVars, process, client, files

-----------------------------------------------------------------------------
(* Each part of the inductive invariant is kept by every step. *)

\* What is on its way in a pipe is the end of what was written, and fits.
PipeInv ==
  /\ pipe \in [Streams -> Seq(Written)] /\ wrote \in [Streams -> Seq(Written)]
  /\ \A s \in Streams : Len(pipe[s]) <= Cap /\ IsSuffix(pipe[s], wrote[s])

\* Writing and reading keep it so.
LEMMA PipeStep ==
  ASSUME ExecInv, [ExecNext]_execVars
  PROVE  PipeInv'
<1>0. /\ PipeInv /\ script \in Scripts /\ ip \in DOMAIN script.steps /\ Cap \in Nat
  BY ExecConstantsOK DEF ExecInv, ExecTypeOK, WrittenInv, PipeInv, ExecConstantsOK
<1>1. CASE UNCHANGED <<pipe, wrote>>
  BY <1>0, <1>1 DEF PipeInv
<1>2. CASE Write
  <2> DEFINE s == Step.do
             e == Step.arg
  <2>1. s \in Streams /\ e \in Written /\ Len(pipe[s]) < Cap
    BY <1>0, <1>2, Here DEF Write
  <2>2. /\ pipe' = [pipe EXCEPT ![s] = Append(pipe[s], e)]
        /\ wrote' = [wrote EXCEPT ![s] = Append(wrote[s], e)]
    BY <1>2 DEF Write
  <2>3. pipe[s] \in Seq(Written) /\ wrote[s] \in Seq(Written) /\ IsSuffix(pipe[s], wrote[s])
    BY <1>0, <2>1 DEF PipeInv
  <2>. HIDE DEF s, e
  <2>4. /\ Append(pipe[s], e) \in Seq(Written) /\ Append(wrote[s], e) \in Seq(Written)
        /\ Len(Append(pipe[s], e)) = Len(pipe[s]) + 1 /\ Len(pipe[s]) \in Nat
        /\ IsSuffix(Append(pipe[s], e), Append(wrote[s], e))
    BY <2>1, <2>3, AppendProperties, LenProperties, SuffixKept
  <2>5. Len(Append(pipe[s], e)) <= Cap
    BY <1>0, <2>1, <2>4
  <2>. QED
    BY <1>0, <2>1, <2>2, <2>4, <2>5 DEF PipeInv
<1>3. CASE ReadChunk
  <2>1. PICK s \in Streams : \E n \in 1 .. Len(pipe[s]) :
          pipe' = [pipe EXCEPT ![s] = SubSeq(@, n + 1, Len(@))]
    BY <1>3 DEF ReadChunk
  <2>2. PICK n \in 1 .. Len(pipe[s]) : pipe' = [pipe EXCEPT ![s] = SubSeq(pipe[s], n + 1, Len(pipe[s]))]
    BY <2>1
  <2> DEFINE u == SubSeq(pipe[s], n + 1, Len(pipe[s]))
  <2>3. /\ pipe[s] \in Seq(Written) /\ wrote[s] \in Seq(Written) /\ IsSuffix(pipe[s], wrote[s])
        /\ Len(pipe[s]) <= Cap /\ Len(pipe[s]) \in Nat
    BY <1>0, LenProperties DEF PipeInv
  <2>4. u \in Seq(Written) /\ Len(u) = Len(pipe[s]) - n /\ IsSuffix(u, wrote[s])
    BY <2>3, SuffixKept
  <2>5. Len(u) <= Cap
    BY <1>0, <2>3, <2>4
  <2>6. pipe' = [pipe EXCEPT ![s] = u] /\ wrote' = wrote
    BY <1>3, <2>2 DEF ReadChunk, process
  <2>. HIDE DEF u
  <2>. QED
    BY <1>0, <2>4, <2>5, <2>6 DEF PipeInv
<1>. QED
  BY <1>1, <1>2, <1>3
  DEF ExecNext, RunExec, Process, StartExec, WriteInput, CloseInput, EndOfStream,
      StreamBreaks, InspectExec, NoExitCode, RunExecFails, Read, Compile, Launch, End, Leave,
      TimesOut, Killed, StrayCompiles, execVars, process, client, files

\* What has been written is counted by the steps taken.
LEMMA CountStep ==
  ASSUME ExecInv, [ExecNext]_execVars
  PROVE  (\A s \in Streams : Len(wrote[s]) = Before(ip - 1, s))'
<1>0. /\ wrote \in [Streams -> Seq(Written)] /\ script \in Scripts /\ ip \in DOMAIN script.steps
      /\ \A s \in Streams : Len(wrote[s]) = Before(ip - 1, s)
  BY DEF ExecInv, ExecTypeOK, WrittenInv
<1>1. script' = script
  BY <1>0, Moves
<1>3. CASE ip' = ip /\ wrote' = wrote
  BY <1>0, <1>1, <1>3 DEF Before
<1>4. CASE Read \/ Compile
  <2>1. ip' - 1 = ip /\ wrote' = wrote /\ Step.do \notin Streams
    <3>1. ip' = ip + 1 /\ wrote' = wrote /\ Step.do \in {"read", "compile"}
      BY <1>4 DEF Read, Compile
    <3>2. ip \in Nat
      BY <1>0, Here
    <3>. QED
      BY <3>1, <3>2 DEF Streams
  <2>2. \A s \in Streams : Before(ip, s) = Before(ip - 1, s)
    BY <1>0, <2>1, StepCounts
  <2>3. \A s \in Streams : Len(wrote[s]) = Before(ip, s)
    BY <1>0, <2>2
  <2>. QED
    BY <1>1, <2>1, <2>3 DEF Before
<1>5. CASE Write
  <2> DEFINE s == Step.do
  <2>1. /\ s \in Streams /\ Step.arg \in Written /\ ip' - 1 = ip
        /\ wrote' = [wrote EXCEPT ![s] = Append(wrote[s], Step.arg)]
    BY <1>0, <1>5, Here DEF Write
  <2>2. \A w \in Streams : Before(ip, w) = Before(ip - 1, w) + (IF s = w THEN 1 ELSE 0)
    BY <1>0, StepCounts
  <2>3. \A w \in Streams : Len(wrote'[w]) = Len(wrote[w]) + (IF s = w THEN 1 ELSE 0)
    BY <1>0, <2>1, AppendProperties, LenProperties
  <2>4. \A w \in Streams : Len(wrote'[w]) = Before(ip, w)
    BY <1>0, <2>2, <2>3
  <2>. QED
    BY <1>1, <2>1, <2>4 DEF Before
<1>. QED
  BY <1>0, <1>3, <1>4, <1>5, Moves
  DEF ExecNext, RunExec, Process, StartExec, WriteInput, CloseInput, ReadChunk, EndOfStream,
      StreamBreaks, InspectExec, NoExitCode, RunExecFails, Launch, End, Leave,
      TimesOut, Killed, StrayCompiles, execVars, process, client, files

\* A process that has ended stays where it ended; one that runs gets past no
\* step that ends it.
LEMMA PathStep ==
  ASSUME ExecInv, [ExecNext]_execVars
  PROVE  PathInv' /\ (code # None => UNCHANGED <<ip, script>> /\ Step' = Step)
<1>1. script \in Scripts /\ ip \in DOMAIN script.steps /\ PathInv
  BY DEF ExecInv, ExecTypeOK
<1>2. CASE ip' = ip
  BY <1>1, <1>2, Moves DEF PathInv, Step
<1>3. CASE ip' # ip
  <2>1. /\ ip' - 1 = ip /\ script' = script /\ code = None
        /\ script.steps[ip].do \notin {"exit", "spin"}
    BY <1>1, <1>3, Here, Moves DEF AtWork, Running
  <2>2. \A i \in 1 .. ip : i \in 1 .. ip - 1 \/ i = ip
    BY <1>1, Here
  <2>. QED
    BY <1>1, <2>1, <2>2 DEF PathInv
<1>. QED
  BY <1>2, <1>3

\* The exit code is given once, to a process that runs.
LEMMA CodeStep ==
  ASSUME ExecInv, [ExecNext]_execVars
  PROVE  CodeInv' /\ (code # None => code' = code) /\ (code' # code => pc # "start" /\ pc' = pc)
<1>0. CodeInv /\ script \in Scripts /\ ip \in DOMAIN script.steps /\ None \notin Int
  BY ExecConstantsOK DEF ExecInv, ExecTypeOK, ExecConstantsOK
<1>1. CASE Leave
  <2>1. /\ Step.do = "exit" /\ code' = Step.arg /\ code = None /\ pc # "start" /\ pc' = pc
        /\ UNCHANGED <<ip, script>>
    BY <1>1 DEF Leave, End, Running, client
  <2>2. Step' = Step /\ Step.arg \in Int
    BY <1>0, <2>1, Here DEF Step
  <2>3. (ran # None \/ ~Timed)' /\ None \notin {SIGKILL_EXIT, TIMEOUT_EXIT}
    BY <1>0, <1>1 DEF Leave, AtWork, End, Timed, SIGKILL_EXIT, TIMEOUT_EXIT
  <2>. QED
    BY <2>1, <2>2, <2>3 DEF CodeInv
<1>2. CASE TimesOut \/ Killed
  <2>1. code' \in {SIGKILL_EXIT, TIMEOUT_EXIT} /\ code = None /\ pc # "start" /\ pc' = pc
    BY <1>2 DEF TimesOut, Killed, End, Running, client
  <2>. QED
    BY <2>1 DEF CodeInv, SIGKILL_EXIT, TIMEOUT_EXIT
<1>3. CASE UNCHANGED code /\ code = None
  BY <1>0, <1>3 DEF CodeInv
<1>4. CASE UNCHANGED <<code, ran>>
  <2>1. code # None => Step' = Step /\ Timed' = Timed
    BY PathStep DEF Timed
  <2>. QED
    BY <1>0, <1>4, <2>1 DEF CodeInv
<1>. QED
  BY <1>1, <1>2, <1>3, <1>4
  DEF ExecNext, RunExec, Process, StartExec, WriteInput, CloseInput, ReadChunk, EndOfStream,
      StreamBreaks, InspectExec, NoExitCode, RunExecFails, Read, Write, Compile, Launch,
      Running, AtWork, StrayCompiles, execVars, process, client, files

\* What run_exec has written is in the pipe or was read, until it is through
\* with writing.
LEMMA InputStep ==
  ASSUME ExecInv, [ExecNext]_execVars
  PROVE  InputInv'
<1>0. /\ InputInv /\ script \in Scripts /\ ip \in DOMAIN script.steps
      /\ stdin \in Int /\ sent \in Int
      /\ pipe \in [Streams -> Seq(Written)] /\ wrote \in [Streams -> Seq(Written)]
  BY ExecConstantsOK DEF ExecInv, ExecTypeOK, WrittenInv, ExecConstantsOK
<1> DEFINE Reads(i) == Before(i, "read")
<1>1. /\ script' = script /\ (ip' = ip => Reads(ip - 1)' = Reads(ip - 1))
      /\ (ip' = ip + 1 => Reads(ip - 1)' = Reads(ip))
  <2>1. script' = script
    BY <1>0, Moves
  <2>2. ip' = ip + 1 => ip' - 1 = ip
    BY <1>0, Here
  <2>. QED
    BY <2>1, <2>2 DEF Before
<1>2. Reads(ip - 1) \in Nat /\ Reads(ip) = Reads(ip - 1) + (IF Step.do = "read" THEN 1 ELSE 0)
  BY <1>0, StepCounts
<1>. HIDE DEF Reads
<1>3. ASSUME InputInv, UNCHANGED <<stdin, pipe, wrote, sent, closed, ip>>,
             code' # None \/ code' = code, pc' # "start" \/ (pc' = pc /\ code' = code),
             pc' = pc \/ pc' \notin {"start", "write", "read"} \/ (pc = "start" /\ pc' = "write")
      PROVE  InputInv'
  BY <1>1, <1>3 DEF InputInv, Reads
<1>4. CASE StartExec
  BY <1>0, <1>3, <1>4 DEF StartExec, process
<1>5. CASE WriteInput
  <2>1. CASE Running /\ stdin' = stdin + 1
    <3>1. /\ sent' = sent + 1 /\ stdin' = stdin + 1 /\ pc = "write" /\ ip' = ip
          /\ UNCHANGED <<code, pipe, wrote, pc, closed>>
      BY <1>5, <2>1 DEF WriteInput, process
    <3>2. ~closed /\ pipe = wrote /\ (code = None => sent = stdin + Reads(ip - 1))
      BY <1>0, <3>1 DEF InputInv, Reads
    <3>3. code = None => sent' = stdin' + Reads(ip - 1)'
      BY <1>0, <1>1, <1>2, <3>1, <3>2
    <3>. QED
      BY <3>1, <3>2, <3>3 DEF InputInv, Reads
  <2>2. CASE ~Running
    <3>1. code' # None
      BY <1>5, <2>2 DEF WriteInput, Running, process
    <3>. QED
      BY <1>0, <1>5, <3>1 DEF WriteInput, InputInv, process
  <2>. QED
    BY <1>5, <2>1, <2>2 DEF WriteInput
<1>6. CASE CloseInput
  BY <1>6 DEF CloseInput, InputInv
<1>7. CASE ReadChunk
  BY <1>0, <1>7 DEF ReadChunk, InputInv
<1>8. CASE EndOfStream \/ StreamBreaks \/ InspectExec \/ NoExitCode \/ RunExecFails
  BY <1>0, <1>3, <1>8 DEF EndOfStream, StreamBreaks, InspectExec, NoExitCode, RunExecFails, process
<1>9. CASE Read
  <2>1. /\ Step.do = "read" /\ ip' = ip + 1 /\ pc # "start" /\ code = None
        /\ UNCHANGED <<pc, sent, closed, pipe, wrote, code>>
        /\ stdin' = stdin - 1 \/ closed
    BY <1>9 DEF Read, AtWork, Running, client
  <2>. QED
    BY <1>0, <1>1, <1>2, <2>1 DEF InputInv, Reads
<1>10. CASE Write
  <2>1. /\ Step.do \in Streams /\ Step.do # "read" /\ ip' = ip + 1 /\ pc # "start" /\ code = None
        /\ UNCHANGED <<pc, sent, closed, stdin, code>>
        /\ pipe = wrote => pipe' = wrote'
    BY <1>10 DEF Write, AtWork, Running, client, Streams
  <2>. QED
    BY <1>0, <1>1, <1>2, <2>1 DEF InputInv, Reads
<1>11. CASE Compile
  <2>1. /\ Step.do # "read" /\ ip' = ip + 1 /\ pc # "start"
        /\ UNCHANGED <<pc, sent, closed, stdin, code, pipe, wrote>>
    BY <1>11 DEF Compile, AtWork, Running, client
  <2>. QED
    BY <1>0, <1>1, <1>2, <2>1 DEF InputInv, Reads
<1>12. CASE Leave \/ TimesOut \/ Killed
  <2>1. code' # None /\ pc # "start" /\ pc' = pc
    <3>1. code = None /\ pc # "start" /\ pc' = pc
      BY <1>12 DEF Leave, TimesOut, Killed, End, Running, client
    <3>2. code' \in Int
      BY <1>0, <1>12, Here DEF Leave, TimesOut, Killed, End, SIGKILL_EXIT, TIMEOUT_EXIT
    <3>. QED
      BY <3>1, <3>2, ExecConstantsOK DEF ExecConstantsOK
  <2>. QED
    BY <1>0, <1>3, <1>12, <2>1 DEF Leave, TimesOut, Killed, End, client
<1>13. CASE Launch \/ StrayCompiles \/ UNCHANGED execVars
  BY <1>0, <1>3, <1>13 DEF Launch, StrayCompiles, client, process, execVars
<1>. QED
  BY <1>4, <1>5, <1>6, <1>7, <1>8, <1>9, <1>10, <1>11, <1>12, <1>13 DEF ExecNext, RunExec, Process

\* What handle_testcase gets was made from the exit code and the whole text.
LEMMA ResultStep ==
  ASSUME ExecInv, [ExecNext]_execVars
  PROVE  ResultInv'
<1>0. ResultInv
  BY DEF ExecInv
<1>1. CASE InspectExec
  BY <1>1 DEF InspectExec, ResultInv, Running, process, output
<1>2. CASE pc = "done" /\ UNCHANGED <<pc, text, result>>
  BY <1>0, <1>2, CodeStep DEF ResultInv
<1>3. CASE pc' # "done"
  BY <1>3 DEF ResultInv
<1>. QED
  BY <1>1, <1>2, <1>3
  DEF ExecNext, RunExec, Process, StartExec, WriteInput, CloseInput, ReadChunk, EndOfStream,
      StreamBreaks, NoExitCode, RunExecFails, Read, Write, Compile, Launch, End, Leave,
      TimesOut, Killed, StrayCompiles, execVars, process, client, output, files

\* The run command is reached past a compile command that left its program.
LEMMA BinaryStep ==
  ASSUME ExecInv, [ExecNext]_execVars
  PROVE  BinaryInv'
<1>0. BinaryInv /\ PathInv /\ script \in Scripts /\ ip \in DOMAIN script.steps
  BY DEF ExecInv, ExecTypeOK
<1> DEFINE Compiled(i) == \E j \in 1 .. i : script.steps[j].do = "compile"
<1>1. CASE Compile
  BY <1>0, <1>1 DEF Compile, BinaryInv, process, client, files
<1>2. CASE Launch
  <2>1. CASE script.untimed > 0 /\ ~spoilt
    <3>1. PICK j \in 1 .. script.untimed : script.steps[j].do \in {"compile", "exit"}
      BY <1>0, <2>1, ScriptsOK DEF ScriptsOK
    <3>2. j \in 1 .. ip - 1
      BY <1>0, <1>2, Here DEF Launch, Timed
    <3>3. binary = "own"
      BY <1>0, <2>1, <3>1, <3>2 DEF PathInv, BinaryInv
    <3>. QED
      BY <1>0, <1>2, <2>1, <3>3 DEF Launch, BinaryInv, files
  <2>2. CASE ~(script.untimed > 0 /\ ~spoilt)
    BY <1>0, <1>2, <2>2 DEF Launch, BinaryInv, files
  <2>. QED
    BY <2>1, <2>2
<1>3. CASE StrayCompiles
  BY <1>3 DEF StrayCompiles, BinaryInv
<1>4. CASE Read \/ Write
  <2>1. /\ UNCHANGED <<binary, ran, spoilt, script>> /\ ip' - 1 = ip
        /\ script.steps[ip].do # "compile"
    BY <1>0, <1>4, Here DEF Read, Write, Streams, files, client
  <2>2. \A j \in 1 .. ip : j \in 1 .. ip - 1 \/ j = ip
    BY <1>0, Here
  <2>. QED
    BY <1>0, <2>1, <2>2 DEF BinaryInv
<1>5. CASE UNCHANGED <<binary, ran, spoilt, ip, script>>
  BY <1>0, <1>5 DEF BinaryInv
<1>. QED
  BY <1>1, <1>2, <1>3, <1>4, <1>5
  DEF ExecNext, RunExec, Process, StartExec, WriteInput, CloseInput, ReadChunk, EndOfStream,
      StreamBreaks, InspectExec, NoExitCode, RunExecFails, End, Leave,
      TimesOut, Killed, execVars, process, client, files

\* A program that is stopped while run_exec and it wait for each other clogs
\* both pipes: run_exec waits to write, as it has read nothing yet.
LEMMA StalledClogs ==
  ASSUME ExecInv, AtWork, Stalled
  PROVE  Clogs(ip)
<1>0. /\ InputInv /\ WrittenInv /\ script \in Scripts /\ ip \in DOMAIN script.steps
      /\ stdin \in Int /\ sent \in Int /\ Cap \in Nat \ {0} /\ code = None
      /\ pipe \in [Streams -> Seq(Written)]
  BY ExecConstantsOK DEF ExecInv, ExecTypeOK, WrittenInv, ExecConstantsOK, AtWork, Running
<1>1. pc = "write" /\ sent < InputLen /\ stdin = Cap /\ Step.do \in Streams
      /\ Len(pipe[Step.do]) = Cap
  <2>1. CASE pc = "write" /\ sent < InputLen /\ stdin = Cap
    BY <1>0, <2>1 DEF Stalled
  <2>2. CASE pc = "read" /\ \A s \in Streams : pipe[s] = <<>>
    <3>1. closed
      BY <1>0, <2>2 DEF InputInv
    <3>2. Step.do \in Streams => Len(pipe[Step.do]) = 0
      BY <2>2, EmptySeq
    <3>. QED
      BY <1>0, <3>1, <3>2 DEF Stalled
  <2>. QED
    BY <2>1, <2>2 DEF Stalled
<1>2. pipe = wrote /\ sent = stdin + Before(ip - 1, "read")
  BY <1>0, <1>1 DEF InputInv
<1>3. Len(wrote[Step.do]) = Before(ip - 1, Step.do)
  BY <1>0, <1>1 DEF WrittenInv
<1>4. /\ Before(ip, Step.do) = Before(ip - 1, Step.do) + 1
      /\ Before(ip, "read") = Before(ip - 1, "read")
      /\ Before(ip - 1, "read") \in Nat /\ Before(ip - 1, Step.do) \in Nat
  BY <1>0, <1>1, StepCounts DEF Streams
<1>5. Before(ip, Step.do) > Cap
  BY <1>0, <1>1, <1>2, <1>3, <1>4
<1>6. Before(ip, "read") + Cap < InputLen
  BY <1>0, <1>1, <1>2, <1>4, ExecConstantsOK DEF ExecConstantsOK
<1>. QED
  BY <1>1, <1>5, <1>6 DEF Clogs, Step

\* The time limit strikes nobody else.
LEMMA TimeLimitStep ==
  ASSUME ExecInv, [ExecNext]_execVars
  PROVE  TimeLimitIsEarned'
<1>0. TimeLimitIsEarned /\ script \in Scripts /\ ip \in DOMAIN script.steps
  BY DEF ExecInv, ExecTypeOK
<1>1. /\ script' = script
      /\ \A i \in DOMAIN script.steps : (Spins(i) \/ Clogs(i) \/ Mimics(i))
                                          => Spins(i)' \/ Clogs(i)' \/ Mimics(i)'
  <2>1. script' = script
    BY <1>0, Moves
  <2>. QED
    BY <2>1 DEF Spins, Clogs, Mimics, Before
<1>2. CASE TimesOut
  <2>1. Spins(ip) \/ Clogs(ip)
    BY <1>2, StalledClogs DEF TimesOut, Spins, Step
  <2>. QED
    BY <1>0, <1>1, <2>1 DEF TimeLimitIsEarned
<1>3. CASE Leave
  <2>1. code' = TIMEOUT_EXIT => Mimics(ip)
    BY <1>3 DEF Leave, End, Mimics, Step
  <2>. QED
    BY <1>0, <1>1, <2>1 DEF TimeLimitIsEarned
<1>4. CASE Killed
  BY <1>4 DEF Killed, End, TimeLimitIsEarned, SIGKILL_EXIT, TIMEOUT_EXIT
<1>5. CASE code' = code
  BY <1>0, <1>1, <1>5 DEF TimeLimitIsEarned
<1>. QED
  BY <1>2, <1>3, <1>4, <1>5
  DEF ExecNext, RunExec, Process, StartExec, WriteInput, CloseInput, ReadChunk, EndOfStream,
      StreamBreaks, InspectExec, NoExitCode, RunExecFails, Read, Write, Compile, Launch,
      StrayCompiles, execVars, process, client, files

-----------------------------------------------------------------------------
(* Where the bytes of exec_output came from. *)

\* How many of the first k elements of o are s: Count(k, s), for any o.
Held(o, k, s) == Cardinality({j \in 1 .. k : o[j] = s})

\* It is a number that grows with k.
LEMMA HeldGrows ==
  ASSUME NEW o, NEW k \in Nat, NEW s
  PROVE  /\ Held(o, k, s) \in Nat
         /\ \A i \in 1 .. k :
              /\ Held(o, i, s) \in Nat /\ Held(o, i, s) <= Held(o, k, s)
              /\ o[i] = s => Held(o, i, s) >= 1
<1> DEFINE At(i) == {j \in 1 .. i : o[j] = s}
<1>1. ASSUME NEW i \in Nat
      PROVE  IsFiniteSet(At(i)) /\ Cardinality(At(i)) \in Nat
  <2>1. IsFiniteSet(1 .. i)
    BY FS_Interval
  <2>2. At(i) \in SUBSET (1 .. i)
    OBVIOUS
  <2>. QED
    BY <2>1, <2>2, FS_Subset, FS_CardinalityType
<1>2. ASSUME NEW i \in 1 .. k
      PROVE  /\ Cardinality(At(i)) <= Cardinality(At(k))
             /\ o[i] = s => At(i) # {}
  <2>1. At(i) \in SUBSET At(k)
    OBVIOUS
  <2>2. Cardinality(At(i)) <= Cardinality(At(k))
    BY <1>1, <2>1, FS_Subset
  <2>3. ASSUME o[i] = s
        PROVE  i \in At(i)
    BY <2>3
  <2>. QED
    BY <2>2, <2>3
<1>3. \A i : Held(o, i, s) = Cardinality(At(i))
  BY DEF Held
<1>4. \A i \in 1 .. k : i \in Nat
  OBVIOUS
<1>. HIDE DEF At
<1>5. ASSUME NEW i \in 1 .. k, o[i] = s
      PROVE  Cardinality(At(i)) >= 1
  <2>1. Cardinality(At(i)) # 0 /\ Cardinality(At(i)) \in Nat
    BY <1>1, <1>2, <1>4, <1>5, FS_EmptySet
  <2>. QED
    BY <2>1
<1>. QED
  BY <1>1, <1>2, <1>3, <1>4, <1>5

\* It depends on those k elements only.
LEMMA HeldSame ==
  ASSUME NEW o, NEW p, NEW k \in Nat, NEW w, \A i \in 1 .. k : p[i] = o[i]
  PROVE  Held(p, k, w) = Held(o, k, w)
<1>1. {j \in 1 .. k : p[j] = w} = {j \in 1 .. k : o[j] = w}
  OBVIOUS
<1>. QED
  BY <1>1 DEF Held

\* Up to its e-th element p is o, as far as the m-th, and bytes of stream s.
Extends(o, p, m, e, s) ==
  /\ m \in Nat /\ e \in Nat /\ m <= e
  /\ \A i \in 1 .. m : p[i] = o[i]
  /\ \A i \in m + 1 .. e : p[i] = s

\* The bytes of each stream among the first e of p.
Counts(o, p, m, e, s) ==
  /\ Held(p, e, s) = Held(o, m, s) + (e - m)
  /\ \A w : w # s => Held(p, e, w) = Held(o, m, w)

\* Behind the m-th element there are only bytes of stream s: each of them is one
\* more of s, in its order, and none of the other.
LEMMA HeldAfter ==
  ASSUME NEW o, NEW p, NEW m, NEW e, NEW s, Extends(o, p, m, e, s)
  PROVE  Counts(o, p, m, e, s)
<1>. SUFFICES ASSUME NEW w
              PROVE  /\ w = s => Held(p, e, w) = Held(o, m, w) + (e - m)
                     /\ w # s => Held(p, e, w) = Held(o, m, w)
  BY DEF Counts
<1> DEFINE A == {j \in 1 .. m : p[j] = w}
           B == m + 1 .. e
           C == {j \in 1 .. e : p[j] = w}
<1>0. /\ m \in Nat /\ e \in Nat /\ m <= e
      /\ \A i \in 1 .. m : p[i] = o[i]
      /\ \A i \in m + 1 .. e : p[i] = s
  BY DEF Extends
<1>1. 1 .. e = (1 .. m) \cup B /\ (1 .. m) \cap B = {}
  BY <1>0
<1>2. A \cap B = {} /\ (w = s => C = A \cup B) /\ (w # s => C = A)
  BY <1>0, <1>1
<1>3. IsFiniteSet(B) /\ Cardinality(B) = e - m
  <2>1. m + 1 \in Int /\ e \in Int /\ (m + 1 > e <=> e - m = 0) /\ e - (m + 1) + 1 = e - m
    BY <1>0
  <2>. QED
    BY <2>1, FS_Interval
<1>4. IsFiniteSet(A) /\ Cardinality(A) \in Nat
  <2>1. IsFiniteSet(1 .. m)
    BY <1>0, FS_Interval
  <2>2. A \in SUBSET (1 .. m)
    OBVIOUS
  <2>. QED
    BY <2>1, <2>2, FS_Subset, FS_CardinalityType
<1>5. Held(p, e, w) = Cardinality(C) /\ Held(p, m, w) = Cardinality(A)
  BY DEF Held
<1>6. Held(p, m, w) = Held(o, m, w)
  BY <1>0, HeldSame
<1>. HIDE DEF A, B, C
<1>7. Cardinality(A \cup B) = Cardinality(A) + (e - m)
  <2>1. Cardinality(A \cup B) = Cardinality(A) + Cardinality(B) - Cardinality(A \cap B)
    BY <1>3, <1>4, FS_Union
  <2>2. Cardinality(A \cap B) = 0
    BY <1>2, FS_EmptySet
  <2>. QED
    BY <1>0, <1>3, <1>4, <2>1, <2>2
<1>. QED
  BY <1>2, <1>5, <1>6, <1>7

\* A sequence that a chunk is appended to, element by element.
LEMMA ChunkAppended ==
  ASSUME NEW o \in Seq(Streams), NEW c \in Seq(Streams), NEW s,
         \A i \in 1 .. Len(c) : c[i] = s
  PROVE  /\ o \o c \in Seq(Streams) /\ Len(o \o c) = Len(o) + Len(c)
         /\ \A i \in 1 .. Len(o) : (o \o c)[i] = o[i]
         /\ \A i \in Len(o) + 1 .. Len(o) + Len(c) : (o \o c)[i] = s
<1> DEFINE m == Len(o)
           n == Len(c)
           p == o \o c
<1>1. m \in Nat /\ n \in Nat
  BY LenProperties
<1>2. /\ p \in Seq(Streams) /\ Len(p) = m + n
      /\ \A i \in 1 .. m + n : p[i] = IF i <= m THEN o[i] ELSE c[i - m]
  BY ConcatProperties
<1>3. \A i \in 1 .. n : c[i] = s
  OBVIOUS
<1>. HIDE DEF m, n, p
<1>4. \A i \in 1 .. m : p[i] = o[i]
  BY <1>1, <1>2
<1>5. ASSUME NEW i \in m + 1 .. m + n
      PROVE  p[i] = s
  <2>1. i \in 1 .. m + n /\ ~(i <= m) /\ i - m \in 1 .. n
    BY <1>1
  <2>. QED
    BY <1>1, <1>2, <1>3, <2>1
<1>. QED
  BY <1>2, <1>4, <1>5 DEF m, n, p

\* Decoding a chunk keeps each of its bytes but those of a character cut in two.
LEMMA Decoded ==
  ASSUME NEW S, NEW f \in Seq(S)
  PROVE  /\ Decode(f) \in Seq(S \cup {"?"}) /\ Len(Decode(f)) = Len(f)
         /\ \A i \in 1 .. Len(f) : \/ Decode(f)[i] = f[i]
                                   \/ Decode(f)[i] = "?" /\ f[i] \in {"e1", "e2"}
<1>1. Len(f) \in Nat /\ DOMAIN f = 1 .. Len(f) /\ \A i \in 1 .. Len(f) : f[i] \in S
  BY LenProperties, ElementOfSeq
<1>2. \A i \in 1 .. Len(f) : \/ Decode(f)[i] = f[i]
                             \/ Decode(f)[i] = "?" /\ f[i] \in {"e1", "e2"}
  BY <1>1 DEF Decode
<1>3. DOMAIN Decode(f) = 1 .. Len(f) /\ Decode(f) = [i \in 1 .. Len(f) |-> Decode(f)[i]]
  BY <1>1 DEF Decode
<1>4. \A i \in 1 .. Len(f) : Decode(f)[i] \in S \cup {"?"}
  BY <1>1, <1>2
<1>5. Decode(f) \in Seq(S \cup {"?"})
  BY <1>1, <1>3, <1>4, IsASeq
<1>. QED
  BY <1>1, <1>2, <1>3, <1>5, LenProperties

\* Every byte of exec_output is one that was written, so that more writing does
\* not move its source.
LEMMA SourceWritten ==
  ASSUME TextInv, PipeInv, NEW i \in DOMAIN text, Len(origin) = Len(text)
  PROVE  /\ origin[i] \in Streams /\ i \in 1 .. Len(origin)
         /\ Count(i, origin[i]) \in 1 .. Len(wrote[origin[i]])
<1>1. i \in 1 .. Len(origin) /\ Len(origin) \in Nat /\ origin[i] \in Streams
  BY LenProperties, ElementOfSeq DEF TextInv
<1>2. /\ Held(origin, Len(origin), origin[i]) \in Nat
      /\ Held(origin, i, origin[i]) \in Nat
      /\ Held(origin, i, origin[i]) <= Held(origin, Len(origin), origin[i])
      /\ Held(origin, i, origin[i]) >= 1
  BY <1>1, HeldGrows
<1>3. Held(origin, Len(origin), origin[i]) + Len(pipe[origin[i]]) = Len(wrote[origin[i]])
  BY <1>1 DEF TextInv, Count, Held
<1>4. Len(pipe[origin[i]]) \in Nat /\ Len(wrote[origin[i]]) \in Nat
  BY <1>1, LenProperties DEF PipeInv
<1>5. Held(origin, i, origin[i]) \in 1 .. Len(wrote[origin[i]])
  BY <1>2, <1>3, <1>4
<1>. QED
  BY <1>1, <1>5 DEF Count, Held

\* The output has ended for good when run_exec looks at the exit code.
LEMMA EndedStep ==
  ASSUME ExecInv, [ExecNext]_execVars
  PROVE  pc' \in {"inspect", "done"} /\ ~cut' => code' # None /\ \A s \in Streams : pipe'[s] = <<>>
<1>0. pc \in {"inspect", "done"} /\ ~cut => code # None /\ \A s \in Streams : pipe[s] = <<>>
  BY DEF ExecInv, TextInv
<1>1. CASE EndOfStream
  BY <1>1 DEF EndOfStream, Running, process
<1>2. CASE StreamBreaks
  BY <1>2 DEF StreamBreaks
<1>3. CASE pc' \notin {"inspect", "done"}
  BY <1>3
<1>4. CASE InspectExec
  BY <1>0, <1>4 DEF InspectExec, process
<1>5. CASE UNCHANGED <<pc, cut>> /\ (code # None => UNCHANGED <<code, pipe>>)
  BY <1>0, <1>5
<1>. QED
  BY <1>1, <1>2, <1>3, <1>4, <1>5
  DEF ExecNext, RunExec, Process, StartExec, WriteInput, CloseInput, ReadChunk, NoExitCode,
      RunExecFails, Read, Write, Compile, Launch, End, Leave, TimesOut, Killed, StrayCompiles,
      AtWork, Running, execVars, process, client, files

\* A byte goes from the program to exec_output through its pipe, in its turn.
LEMMA TextStep ==
  ASSUME ExecInv, PipeInv', [ExecNext]_execVars
  PROVE  TextInv' /\ Len(origin') = Len(text')
<1>0. /\ TextInv /\ PipeInv /\ Len(origin) = Len(text) /\ script \in Scripts /\ ip \in DOMAIN script.steps
  BY DEF ExecInv, ExecTypeOK, WrittenInv, PipeInv
<1>1. /\ text \in Seq(Written \cup {"?"}) /\ origin \in Seq(Streams)
      /\ Len(origin) \in Nat /\ DOMAIN text = 1 .. Len(origin)
      /\ pipe \in [Streams -> Seq(Written)] /\ wrote \in [Streams -> Seq(Written)]
      /\ \A s \in Streams : /\ Held(origin, Len(origin), s) + Len(pipe[s]) = Len(wrote[s])
                            /\ Held(origin, Len(origin), s) \in Nat
  <2>1. /\ text \in Seq(Written \cup {"?"}) /\ origin \in Seq(Streams)
        /\ Len(origin) \in Nat /\ DOMAIN text = 1 .. Len(origin)
        /\ pipe \in [Streams -> Seq(Written)] /\ wrote \in [Streams -> Seq(Written)]
    BY <1>0, LenProperties DEF TextInv, PipeInv
  <2>2. \A s \in Streams : Held(origin, Len(origin), s) + Len(pipe[s]) = Len(wrote[s])
    BY <1>0 DEF TextInv, Count, Held
  <2>3. \A s \in Streams : Held(origin, Len(origin), s) \in Nat
    BY <2>1, HeldGrows
  <2>. QED
    BY <2>1, <2>2, <2>3
<1>2. CASE Write
  <2> DEFINE s == Step.do
             e == Step.arg
  <2>1. s \in Streams /\ e \in Written
    BY <1>0, <1>2, Here DEF Write
  <2>2. /\ pipe' = [pipe EXCEPT ![s] = Append(pipe[s], e)]
        /\ wrote' = [wrote EXCEPT ![s] = Append(wrote[s], e)]
        /\ text' = text /\ origin' = origin
    BY <1>2 DEF Write, client, output
  <2>. HIDE DEF s, e
  <2>3. \A w \in Streams : /\ Len(pipe'[w]) = Len(pipe[w]) + (IF w = s THEN 1 ELSE 0)
                           /\ Len(wrote'[w]) = Len(wrote[w]) + (IF w = s THEN 1 ELSE 0)
                           /\ \A i \in 1 .. Len(wrote[w]) : wrote'[w][i] = wrote[w][i]
    <3>1. /\ pipe[s] \in Seq(Written) /\ wrote[s] \in Seq(Written)
          /\ pipe'[s] = Append(pipe[s], e) /\ wrote'[s] = Append(wrote[s], e)
      BY <1>1, <2>1, <2>2
    <3>2. /\ Len(pipe'[s]) = Len(pipe[s]) + 1 /\ Len(wrote'[s]) = Len(wrote[s]) + 1
          /\ \A i \in 1 .. Len(wrote[s]) : wrote'[s][i] = wrote[s][i]
      BY <2>1, <3>1, AppendProperties
    <3>3. \A w \in Streams : w # s => pipe'[w] = pipe[w] /\ wrote'[w] = wrote[w]
      BY <1>1, <2>2
    <3>4. \A w \in Streams : Len(pipe[w]) \in Nat /\ Len(wrote[w]) \in Nat
      BY <1>1, LenProperties
    <3>. TAKE w \in Streams
    <3>5. CASE w = s
      BY <3>2, <3>5
    <3>6. CASE w # s
      BY <3>3, <3>4, <3>6
    <3>. QED
      BY <3>5, <3>6
  <2>4. \A w \in Streams : Len(pipe[w]) \in Nat /\ Len(wrote[w]) \in Nat
    BY <1>1, LenProperties
  <2>5. \A w \in Streams : Held(origin', Len(origin'), w) + Len(pipe'[w]) = Len(wrote'[w])
    BY <1>1, <2>2, <2>3, <2>4
  <2>6. ASSUME NEW i \in DOMAIN text
        PROVE  Kept(i)'
    <3>1. origin[i] \in Streams /\ Count(i, origin[i]) \in 1 .. Len(wrote[origin[i]]) /\ Kept(i)
      BY <1>0, SourceWritten DEF TextInv
    <3>2. Count(i, origin[i])' = Count(i, origin[i])
      BY <2>2 DEF Count
    <3>3. Source(i)' = Source(i)
      BY <2>2, <2>3, <3>1, <3>2 DEF Source
    <3>. QED
      BY <2>2, <3>1, <3>3 DEF Kept
  <2>. QED
    BY <1>0, <1>1, <2>2, <2>5, <2>6, EndedStep DEF TextInv, Count, Held
<1>3. CASE ReadChunk
  <2>1. PICK s \in Streams : \E n \in 1 .. Len(pipe[s]) :
          /\ text' = text \o Decode(SubSeq(pipe[s], 1, n))
          /\ origin' = origin \o [i \in 1 .. n |-> s]
          /\ pipe' = [pipe EXCEPT ![s] = SubSeq(pipe[s], n + 1, Len(pipe[s]))]
    BY <1>3 DEF ReadChunk
  <2>2. PICK n \in 1 .. Len(pipe[s]) :
          /\ text' = text \o Decode(SubSeq(pipe[s], 1, n))
          /\ origin' = origin \o [i \in 1 .. n |-> s]
          /\ pipe' = [pipe EXCEPT ![s] = SubSeq(pipe[s], n + 1, Len(pipe[s]))]
    BY <2>1
  <2>3. wrote' = wrote
    BY <1>3 DEF ReadChunk, process
  <2> DEFINE q == pipe[s]
             m == Len(origin)
             f == SubSeq(q, 1, n)
             d == Decode(f)
  <2>4. /\ q \in Seq(Written) /\ wrote[s] \in Seq(Written) /\ Len(q) \in Nat /\ Len(wrote[s]) \in Nat
        /\ Ends(q, wrote[s]) /\ n \in Nat
    BY <1>0, <1>1, LenProperties, SuffixElements DEF PipeInv
  <2>5. /\ f \in Seq(Written) /\ Len(f) = n
        /\ \A k \in 1 .. n : f[k] = q[k]
    <3>1. \A k \in 1 .. n : q[k] \in Written
      BY <2>4, ElementOfSeq
    <3>. HIDE DEF q
    <3>2. /\ SubSeq(q, 1, n) \in Seq(Written) /\ Len(SubSeq(q, 1, n)) = n - 1 + 1
          /\ \A k \in 1 .. n - 1 + 1 : SubSeq(q, 1, n)[k] = q[1 + k - 1]
      BY <2>4, <3>1, SubSeqProperties
    <3>3. n - 1 + 1 = n /\ \A k \in 1 .. n : 1 + k - 1 = k
      BY <2>4
    <3>. QED
      BY <3>2, <3>3
  <2>. HIDE DEF f
  <2>6. /\ d \in Seq(Written \cup {"?"}) /\ Len(d) = n
        /\ \A k \in 1 .. n : d[k] = q[k] \/ (d[k] = "?" /\ q[k] \in {"e1", "e2"})
    <3>1. /\ Decode(f) \in Seq(Written \cup {"?"}) /\ Len(Decode(f)) = Len(f)
          /\ \A k \in 1 .. Len(f) : Decode(f)[k] = f[k] \/ (Decode(f)[k] = "?" /\ f[k] \in {"e1", "e2"})
      BY <2>5, Decoded
    <3>. HIDE DEF q
    <3>. QED
      BY <2>5, <3>1
  <2>7. text' = text \o d
    BY <2>2 DEF f
  <2>. HIDE DEF d
  <2>8. /\ text' \in Seq(Written \cup {"?"}) /\ Len(text') = m + n
        /\ \A i \in 1 .. m + n : text'[i] = IF i <= m THEN text[i] ELSE d[i - m]
    <3> DEFINE S == Written \cup {"?"}
               t == text
    <3>1. t \in Seq(S) /\ d \in Seq(S) /\ Len(t) = m /\ Len(d) = n /\ text' = t \o d
      BY <1>0, <1>1, <2>6, <2>7
    <3>. HIDE DEF S, t, m
    <3>2. /\ t \o d \in Seq(S)
          /\ Len(t \o d) = Len(t) + Len(d)
          /\ \A i \in 1 .. Len(t) + Len(d) : (t \o d)[i] = IF i <= Len(t) THEN t[i] ELSE d[i - Len(t)]
      BY <3>1, ConcatProperties
    <3>. QED
      BY <3>1, <3>2 DEF S, t
  <2>9. /\ origin' \in Seq(Streams) /\ Len(origin') = m + n
        /\ \A i \in 1 .. m : origin'[i] = origin[i]
        /\ \A i \in m + 1 .. m + n : origin'[i] = s
    <3> DEFINE o == origin
               c == [i \in 1 .. n |-> s]
    <3>1. c \in Seq(Streams) /\ Len(c) = n /\ \A i \in 1 .. n : c[i] = s
      BY <2>4, LenProperties, IsASeq
    <3>2. origin' = o \o c /\ o \in Seq(Streams) /\ m = Len(o)
      BY <1>1, <2>2
    <3>. HIDE DEF o, c, m
    <3>3. \A i \in 1 .. Len(c) : c[i] = s
      BY <3>1
    <3>4. /\ o \o c \in Seq(Streams) /\ Len(o \o c) = Len(o) + Len(c)
          /\ \A i \in 1 .. Len(o) : (o \o c)[i] = o[i]
          /\ \A i \in Len(o) + 1 .. Len(o) + Len(c) : (o \o c)[i] = s
      BY <3>1, <3>2, <3>3, ChunkAppended
    <3>. QED
      BY <3>1, <3>2, <3>4 DEF o
  <2>10. m \in Nat /\ n \in Nat /\ m + n \in Nat /\ m <= m + n /\ (m + n) - m = n
    BY <1>1, <2>4
  <2>11. DOMAIN text = 1 .. m /\ DOMAIN text' = 1 .. m + n /\ Len(origin') = m + n
    BY <1>1, <2>8, <2>9, LenProperties
  <2>12. \A i \in 1 .. m : origin'[i] = origin[i]
    BY <2>9
  <2>13. \A i \in m + 1 .. m + n : origin'[i] = s
    BY <2>9
  <2>14. \A i \in 1 .. m + n : text'[i] = IF i <= m THEN text[i] ELSE d[i - m]
    BY <2>8
  <2>15. \A w \in Streams : Held(origin, m, w) + Len(pipe[w]) = Len(wrote[w]) /\ Held(origin, m, w) \in Nat
    BY <1>1
  <2>. HIDE DEF m
  <2>16. ASSUME NEW w \in Streams
         PROVE  Count(Len(origin), w)' + Len(pipe'[w]) = Len(wrote'[w])
    <3>1. Len(SubSeq(q, n + 1, Len(q))) = Len(q) - n
      BY <1>0, <2>4, SuffixKept DEF PipeInv
    <3>2. /\ w = s => pipe[w] = q /\ Len(pipe'[w]) = Len(q) - n
          /\ w # s => pipe'[w] = pipe[w]
          /\ Len(pipe[w]) \in Nat /\ Len(wrote[w]) \in Nat
      <4>1. Len(pipe[w]) \in Nat /\ Len(wrote[w]) \in Nat
        BY <1>1, LenProperties
      <4>2. CASE w = s
        BY <1>1, <2>2, <3>1, <4>1, <4>2
      <4>3. CASE w # s
        BY <1>1, <2>2, <4>1, <4>3
      <4>. QED
        BY <4>2, <4>3
    <3>3. /\ w = s => Held(origin', m + n, w) = Held(origin, m, w) + n
          /\ w # s => Held(origin', m + n, w) = Held(origin, m, w)
      <4>1. Extends(origin, origin', m, m + n, s)
        BY <2>10, <2>12, <2>13 DEF Extends
      <4>2. Counts(origin, origin', m, m + n, s)
        BY <4>1, HeldAfter
      <4>. QED
        BY <2>10, <4>2 DEF Counts
    <3>4. Count(Len(origin), w)' = Held(origin', m + n, w)
      BY <2>11 DEF Count, Held
    <3>5. wrote'[w] = wrote[w]
      BY <2>3
    <3>. QED
      <4>1. Held(origin, m, w) + Len(pipe[w]) = Len(wrote[w]) /\ Held(origin, m, w) \in Nat
        BY <2>15
      <4>2. CASE w = s
        <5>1. Held(origin', m + n, w) = Held(origin, m, w) + n /\ Len(pipe'[w]) = Len(pipe[w]) - n
          BY <3>2, <3>3, <4>2
        <5>. QED
          BY <2>10, <3>2, <3>4, <3>5, <4>1, <5>1
      <4>3. CASE w # s
        BY <3>2, <3>3, <3>4, <3>5, <4>1, <4>3
      <4>. QED
        BY <4>2, <4>3
  <2>17. ASSUME NEW i \in 1 .. m
         PROVE  Kept(i)'
    <3>1. i \in Nat /\ i \in DOMAIN text /\ i \in 1 .. m + n /\ i <= m
      BY <2>10, <2>11
    <3>2. \A j \in 1 .. i : origin'[j] = origin[j]
      BY <2>10, <2>12
    <3>3. Held(origin', i, origin[i]) = Held(origin, i, origin[i])
      BY <3>1, <3>2, HeldSame
    <3>4. origin'[i] = origin[i] /\ text'[i] = text[i]
      BY <2>12, <2>14, <3>1
    <3>5. Count(i, origin[i])' = Count(i, origin[i])
      BY <3>3, <3>4 DEF Count, Held
    <3>6. Source(i)' = Source(i)
      BY <2>3, <3>4, <3>5 DEF Source
    <3>7. Kept(i)
      BY <1>0, <3>1 DEF TextInv
    <3>. QED
      BY <3>4, <3>6, <3>7 DEF Kept
  <2>18. ASSUME NEW i \in m + 1 .. m + n
         PROVE  Kept(i)'
    <3> DEFINE k == i - m
    <3>1. k \in 1 .. n /\ i \in Nat /\ m <= i /\ i \in 1 .. m + n /\ ~(i <= m)
      BY <2>10
    <3>2. origin'[i] = s /\ text'[i] = d[k]
      BY <2>13, <2>14, <3>1
    <3>3. Extends(origin, origin', m, i, s)
      <4>1. \A j \in m + 1 .. i : origin'[j] = s
        BY <2>10, <2>13
      <4>. QED
        BY <2>12, <3>1, <4>1, <2>10 DEF Extends
    <3>4. Held(origin', i, s) = Held(origin, m, s) + (i - m)
      <4>1. Counts(origin, origin', m, i, s)
        BY <3>3, HeldAfter
      <4>. QED
        BY <4>1 DEF Counts
    <3>5. Held(origin', i, s) = Len(wrote[s]) - Len(q) + k /\ k \in 1 .. Len(q)
      <4>1. Held(origin, m, s) = Len(wrote[s]) - Len(q) /\ Held(origin', i, s) = Held(origin, m, s) + k
        <5>1. Held(origin, m, s) + Len(q) = Len(wrote[s]) /\ Held(origin, m, s) \in Nat
          BY <2>15
        <5>2. Len(q) \in Nat /\ Len(wrote[s]) \in Nat
          BY <2>4
        <5>. HIDE DEF q
        <5>. QED
          BY <3>4, <5>1, <5>2
      <4>2. k \in 1 .. Len(q)
        BY <2>4, <3>1
      <4>. HIDE DEF k
      <4>. QED
        BY <4>1, <4>2
    <3>. HIDE DEF k
    <3>6. wrote[s][Held(origin', i, s)] = q[k]
      BY <2>4, <3>5 DEF Ends
    <3>7. Count(i, origin[i])' = Held(origin', i, s)
      BY <3>2 DEF Count, Held
    <3>8. Source(i)' = q[k]
      BY <2>3, <3>2, <3>6, <3>7 DEF Source
    <3>9. d[k] = q[k] \/ (d[k] = "?" /\ q[k] \in {"e1", "e2"})
      BY <2>6, <3>1
    <3>. QED
      BY <3>2, <3>8, <3>9 DEF Kept
  <2>19. ASSUME NEW i \in DOMAIN text'
         PROVE  Kept(i)'
    <3>1. i \in 1 .. m \/ i \in m + 1 .. m + n
      BY <2>10, <2>11
    <3>. QED
      BY <2>17, <2>18, <3>1
  <2>20. (pc \in {"inspect", "done"} /\ ~cut => code # None /\ \A w \in Streams : pipe[w] = <<>>)'
    BY EndedStep
  <2>21. text' \in Seq(Written \cup {"?"}) /\ origin' \in Seq(Streams) /\ Len(origin') = Len(text')
    BY <2>8, <2>9
  <2>. QED
    BY <2>16, <2>19, <2>20, <2>21 DEF TextInv
<1>4. CASE UNCHANGED <<text, origin, pipe, wrote>>
  <2>2. ASSUME NEW i \in DOMAIN text
        PROVE  Kept(i)'
    <3>1. Count(i, origin[i])' = Count(i, origin[i])
      BY <1>4 DEF Count
    <3>2. Source(i)' = Source(i)
      BY <1>4, <3>1 DEF Source
    <3>. QED
      BY <1>0, <1>4, <3>2 DEF TextInv, Kept
  <2>3. ASSUME NEW s \in Streams
        PROVE  (Count(Len(origin), s) + Len(pipe[s]) = Len(wrote[s]))'
    <3>1. Count(Len(origin), s)' = Count(Len(origin), s)
      BY <1>4 DEF Count
    <3>. QED
      BY <1>0, <1>4, <3>1 DEF TextInv
  <2>4. (pc \in {"inspect", "done"} /\ ~cut => code # None /\ \A s \in Streams : pipe[s] = <<>>)'
    BY EndedStep
  <2>. QED
    BY <1>0, <1>4, <2>2, <2>3, <2>4 DEF TextInv
<1>. QED
  BY <1>2, <1>3, <1>4
  DEF ExecNext, RunExec, Process, StartExec, WriteInput, CloseInput, EndOfStream,
      StreamBreaks, InspectExec, NoExitCode, RunExecFails, Read, Compile, Launch, End, Leave,
      TimesOut, Killed, StrayCompiles, execVars, process, client, output, files

\* No more is written than the testcase has, nothing is under way beyond the
\* capacities, and the rest keeps its type.
LEMMA TypeStep ==
  ASSUME ExecInv, PipeInv', ResultInv', CodeInv', (Len(origin) = Len(text))', [ExecNext]_execVars
  PROVE  ExecTypeOK'
<1>0. ExecTypeOK /\ InputLen \in Nat /\ Cap \in Nat
  BY ExecConstantsOK DEF ExecInv, ExecConstantsOK
<1>1. script' \in Scripts /\ ip' \in DOMAIN script'.steps
  BY <1>0, Moves DEF ExecTypeOK
<1>2. sent' \in 0 .. InputLen /\ stdin' \in 0 .. Cap
  <2>1. CASE WriteInput
    BY <1>0, <2>1 DEF WriteInput, ExecTypeOK
  <2>2. CASE Read
    BY <1>0, <2>2 DEF Read, client, ExecTypeOK
  <2>3. CASE UNCHANGED <<sent, stdin>>
    BY <1>0, <2>3 DEF ExecTypeOK
  <2>. QED
    BY <2>1, <2>2, <2>3
    DEF ExecNext, RunExec, Process, StartExec, CloseInput, ReadChunk, EndOfStream,
        StreamBreaks, InspectExec, NoExitCode, RunExecFails, Write, Compile, Launch, End, Leave,
        TimesOut, Killed, StrayCompiles, execVars, process, client, files
<1>3. pc' \in ClientStage
  BY <1>0
  DEF ExecTypeOK, ClientStage, ExecNext, RunExec, Process, StartExec, WriteInput, CloseInput,
      ReadChunk, EndOfStream, StreamBreaks, InspectExec, NoExitCode, RunExecFails, Read, Write,
      Compile, Launch, End, Leave, TimesOut, Killed, StrayCompiles, execVars, client
<1>4. closed' \in BOOLEAN /\ cut' \in BOOLEAN
  BY <1>0
  DEF ExecTypeOK, ExecNext, RunExec, Process, StartExec, WriteInput, CloseInput,
      ReadChunk, EndOfStream, StreamBreaks, InspectExec, NoExitCode, RunExecFails, Read, Write,
      Compile, Launch, End, Leave, TimesOut, Killed, StrayCompiles, execVars, client
<1>5. binary' \in {None, "old", "own"} /\ ran' \in {None, "old", "own"} /\ spoilt' \in BOOLEAN
  BY <1>0
  DEF ExecTypeOK, ExecNext, RunExec, Process, StartExec, WriteInput, CloseInput,
      ReadChunk, EndOfStream, StreamBreaks, InspectExec, NoExitCode, RunExecFails, Read, Write,
      Compile, Launch, End, Leave, TimesOut, Killed, StrayCompiles, execVars, process, client, files
<1>6. result' \in ExecOutput \cup {None}
  <2>1. CASE InspectExec
    <3>1. result' = [exit_code |-> code', same |-> Same(text, Expected)'] /\ code' \in Int
      BY <2>1 DEF InspectExec, ResultInv, CodeInv
    <3>2. Same(text, Expected)' \in BOOLEAN
      BY DEF Same
    <3>. QED
      BY <3>1, <3>2 DEF ExecOutput
  <2>2. CASE result' = result
    BY <1>0, <2>2 DEF ExecTypeOK
  <2>. QED
    BY <2>1, <2>2
    DEF ExecNext, RunExec, Process, StartExec, WriteInput, CloseInput, ReadChunk, EndOfStream,
        StreamBreaks, NoExitCode, RunExecFails, Read, Write, Compile, Launch, End, Leave,
        TimesOut, Killed, StrayCompiles, execVars, client
<1>. QED
  BY <1>1, <1>2, <1>3, <1>4, <1>5, <1>6 DEF ExecTypeOK, PipeInv

-----------------------------------------------------------------------------
(* The invariant, and what follows from it. *)

\* Nothing is written, read or run yet.
LEMMA InitExecInv == ExecInit => ExecInv
<1>. HAVE ExecInit
<1>1. ip = 1 /\ script \in Scripts /\ ip \in DOMAIN script.steps
  <2>1. Len(script.steps) \in Nat \ {0} /\ DOMAIN script.steps = 1 .. Len(script.steps)
    BY ScriptsOK DEF ExecInit, ScriptsOK
  <2>. QED
    BY <2>1 DEF ExecInit
<1>2. \A w : Before(ip - 1, w) = 0
  <2>1. ip - 1 = 0 /\ 0 \in Nat
    BY <1>1
  <2>. QED
    BY <2>1, BeforeStep
<1>3. /\ <<>> \in Seq(Written) /\ Len(<<>>) = 0 /\ IsSuffix(<<>>, <<>>)
  <2>1. <<>> \in Seq(Written) /\ Len(<<>>) = 0
    BY EmptySeq
  <2>2. Ends(<<>>, <<>>)
    BY <2>1 DEF Ends
  <2>. QED
    BY <2>1, <2>2, SuffixElements
<1>4. ExecTypeOK
  <2>1. \A s \in Streams : Len(pipe[s]) <= Cap /\ IsSuffix(pipe[s], wrote[s])
    BY <1>3, ExecConstantsOK DEF ExecInit, ExecConstantsOK
  <2>2. sent \in 0 .. InputLen /\ stdin \in 0 .. Cap
    BY ExecConstantsOK DEF ExecInit, ExecConstantsOK
  <2>. QED
    BY <1>1, <2>1, <2>2 DEF ExecInit, ExecTypeOK, ClientStage
<1>5. WrittenInv
  BY <1>2, <1>3 DEF ExecInit, WrittenInv
<1>8. TextInv
  <2>1. {j \in 1 .. 0 : origin[j] = "out"} = {} /\ {j \in 1 .. 0 : origin[j] = "err"} = {}
    OBVIOUS
  <2>2. \A s \in Streams : Count(Len(origin), s) = 0
    BY <1>3, <2>1, FS_EmptySet DEF ExecInit, Count, Streams
  <2>3. text = <<>> /\ origin = <<>> /\ DOMAIN text = {} /\ pc = "start"
    BY DEF ExecInit
  <2>4. \A s \in Streams : Len(pipe[s]) = 0 /\ Len(wrote[s]) = 0
    BY <1>3 DEF ExecInit
  <2>. QED
    BY <2>2, <2>3, <2>4, EmptySeq DEF TextInv
<1>6. InputInv
  BY <1>2 DEF ExecInit, InputInv
<1>7. PathInv /\ CodeInv /\ ResultInv /\ BinaryInv /\ TimeLimitIsEarned
  BY <1>1, ExecConstantsOK
  DEF ExecInit, PathInv, CodeInv, ResultInv, BinaryInv, TimeLimitIsEarned, TIMEOUT_EXIT,
      ExecConstantsOK
<1>. QED
  BY <1>4, <1>5, <1>6, <1>7, <1>8 DEF ExecInv

\* Every step keeps every part.
LEMMA NextExecInv == ExecInv /\ [ExecNext]_execVars => ExecInv'
<1>. HAVE ExecInv /\ [ExecNext]_execVars
<1>1. PipeInv' /\ PathInv' /\ InputInv' /\ CodeInv' /\ ResultInv' /\ BinaryInv' /\ TimeLimitIsEarned'
  BY PipeStep, PathStep, InputStep, CodeStep, ResultStep, BinaryStep, TimeLimitStep
<1>2. TextInv' /\ (Len(origin) = Len(text))'
  BY <1>1, TextStep
<1>3. ExecTypeOK'
  BY <1>1, <1>2, TypeStep
<1>4. WrittenInv'
  BY <1>1, CountStep DEF WrittenInv, PipeInv
<1>. QED
  BY <1>1, <1>2, <1>3, <1>4 DEF ExecInv

\* ExecInv holds throughout.
THEOREM ExecInvariance == ExecSpec => []ExecInv
BY InitExecInv, NextExecInv, PTL DEF ExecSpec

\* What is in a pipe is the end of what was written to it, and no buffer holds
\* more than its capacity: nothing is lost or made up on the way.
THEOREM PipesAreFaithful == ExecSpec => []ExecTypeOK
<1>1. ExecInv => ExecTypeOK
  BY DEF ExecInv
<1>. QED
  BY <1>1, ExecInvariance, PTL

\* No submission is judged by the program that another one left in the
\* recycled container, for the run command stands behind `&&`.
THEOREM NoForeignProgram == ExecSpec => []OwnProgram
<1>1. ExecInv => OwnProgram
  BY DEF ExecInv, BinaryInv, OwnProgram
<1>. QED
  BY <1>1, ExecInvariance, PTL

\* TIME LIMIT EXCEEDED is given to a program that loops, one that clogs both
\* pipes, or one that exits with 124.
THEOREM OnlySlowTimesOut == ExecSpec => []TimeLimitIsEarned
<1>1. ExecInv => TimeLimitIsEarned
  BY DEF ExecInv
<1>. QED
  BY <1>1, ExecInvariance, PTL

\* With an output that did not break off, the pipes are empty at the end, so
\* that all that was written has been read.
LEMMA AllRead == ExecInv /\ pc = "done" /\ ~cut => Whole
<1>. SUFFICES ASSUME ExecInv, pc = "done", ~cut, NEW s \in Streams
              PROVE  Count(Len(origin), s) = Len(wrote[s])
  BY DEF Whole
<1>1. Count(Len(origin), s) + Len(pipe[s]) = Len(wrote[s]) /\ pipe[s] = <<>>
  BY DEF ExecInv, TextInv
<1>2. Count(Len(origin), s) \in Nat
  <2>1. Len(origin) \in Nat
    BY LenProperties DEF ExecInv, TextInv
  <2>2. Held(origin, Len(origin), s) \in Nat
    BY <2>1, HeldGrows
  <2>. QED
    BY <2>2 DEF Count, Held
<1>. QED
  BY <1>1, <1>2, EmptySeq

\* However the output is cut into chunks, whichever stream they come on and
\* however the process ends, exec_output is all that it wrote, in its order.
THEOREM OutputIsComplete == ExecSpec => []OutputComplete
<1>1. ExecInv => OutputComplete
  BY AllRead DEF ExecInv, TextInv, OutputComplete
<1>. QED
  BY <1>1, ExecInvariance, PTL

-----------------------------------------------------------------------------
(* What Same says of two sequences. *)

\* How many places of s there are up to i.
Rank(s, i) == Cardinality(Places(s) \cap 1 .. i)

\* The places of a sequence are ranked from 1 without gaps, each with its own rank.
LEMMA Ranked ==
  ASSUME NEW S, NEW s \in Seq(S)
  PROVE  /\ Cardinality(Places(s)) \in Nat
         /\ \A i \in Places(s) : Rank(s, i) \in 1 .. Cardinality(Places(s))
         /\ \A i, j \in Places(s) : Rank(s, i) = Rank(s, j) => i = j
         /\ \A k \in 1 .. Cardinality(Places(s)) : \E i \in Places(s) : Rank(s, i) = k
<1> DEFINE P == Places(s)
           Upto(i) == P \cap 1 .. i
           n == Cardinality(P)
           f == [i \in P |-> Rank(s, i)]
<1>1. P \subseteq 1 .. Len(s) /\ Len(s) \in Nat
  <2>1. Len(s) \in Nat /\ DOMAIN s = 1 .. Len(s)
    BY LenProperties
  <2>2. P \subseteq DOMAIN s
    BY DEF Places
  <2>. QED
    BY <2>1, <2>2
<1>2. IsFiniteSet(P) /\ n \in Nat
  <2>1. IsFiniteSet(1 .. Len(s)) /\ P \in SUBSET (1 .. Len(s))
    BY <1>1, FS_Interval
  <2>. QED
    BY <2>1, FS_Subset, FS_CardinalityType
<1>3. ASSUME NEW i \in P
      PROVE  /\ IsFiniteSet(Upto(i)) /\ Rank(s, i) = Cardinality(Upto(i))
             /\ Rank(s, i) \in Nat /\ Rank(s, i) # 0 /\ Rank(s, i) <= n
             /\ i \in Upto(i)
  <2>1. i \in Upto(i) /\ Upto(i) \in SUBSET P
    BY <1>1
  <2>2. IsFiniteSet(Upto(i)) /\ Cardinality(Upto(i)) <= n /\ Cardinality(Upto(i)) \in Nat
    BY <1>2, <2>1, FS_Subset, FS_CardinalityType
  <2>. QED
    BY <2>1, <2>2, FS_EmptySet DEF Rank
<1>4. ASSUME NEW i \in P, NEW j \in P, Rank(s, i) = Rank(s, j), i < j
      PROVE  FALSE
  <2>1. Upto(i) \in SUBSET Upto(j) /\ j \notin Upto(i) /\ j \in Upto(j)
    BY <1>1, <1>4
  <2>. QED
    BY <1>3, <1>4, <2>1, FS_Subset
<1>5. \A i, j \in P : Rank(s, i) = Rank(s, j) => i = j
  <2>1. \A i, j \in P : i \in Nat /\ j \in Nat
    BY <1>1
  <2>. QED
    BY <1>4, <2>1
<1>6. \A i \in P : Rank(s, i) \in 1 .. n
  <2>. SUFFICES ASSUME NEW i \in P
                PROVE  Rank(s, i) \in 1 .. n
    OBVIOUS
  <2>. DEFINE r == Rank(s, i)
  <2>1. r \in Nat /\ r # 0 /\ r <= n
    BY <1>3
  <2>2. r \in 1 .. n
    <3>. HIDE DEF r, n
    <3>. QED
      BY <1>2, <2>1
  <2>. QED
    BY <2>2
<1>7. f \in Injection(P, 1 .. n)
  BY <1>5, <1>6 DEF Injection, IsInjective
<1>8. f \in Surjection(P, 1 .. n)
  <2>1. IsFiniteSet(1 .. n) /\ Cardinality(1 .. n) = n
    BY <1>2, FS_Interval
  <2>. QED
    BY <1>7, <2>1, FS_Injection
<1>9. \A k \in 1 .. n : \E i \in P : Rank(s, i) = k
  BY <1>8 DEF Surjection
<1>. QED
  BY <1>2, <1>5, <1>6, <1>9

\* A character that is not whitespace is left, at its rank.
LEMMA Left ==
  ASSUME NEW S, NEW s \in Seq(S), NEW i \in Places(s)
  PROVE  Rank(s, i) \in DOMAIN Filtered(s) /\ Filtered(s)[Rank(s, i)] = s[i]
<1>1. Rank(s, i) \in 1 .. Cardinality(Places(s))
  BY Ranked
<1>2. (CHOOSE j \in Places(s) : Cardinality(Places(s) \cap 1 .. j) = Rank(s, i)) = i
  <2>1. \A j \in Places(s) : Rank(s, j) = Rank(s, i) => j = i
    BY Ranked
  <2>. QED
    BY <2>1 DEF Rank
<1>. QED
  BY <1>1, <1>2 DEF Filtered

\* What is left of a sequence was in it.
LEMMA LeftOf ==
  ASSUME NEW S, NEW s \in Seq(S), NEW k \in DOMAIN Filtered(s)
  PROVE  \E i \in DOMAIN s : Filtered(s)[k] = s[i]
<1>1. PICK i \in Places(s) : Rank(s, i) = k
  BY Ranked DEF Filtered
<1>. QED
  BY <1>1, Left DEF Places

\* A command that passes was stopped by nobody: the exit code is the one it gave
\* itself, by the program, which was run then, or by a compile command that failed.
\* It is judged by all that it wrote, and no chunk boundary has cost it a byte: a
\* lost one would stand in the output as U+FFFD, which is no whitespace, so that
\* the testcase would have to hold it too.
THEOREM PassedEarned ==
  ASSUME NEW bytes, Expected \in Seq(bytes), "?" \notin bytes
  PROVE  ExecSpec => []PassedIsEarned
<1>1. ExecInv => PassedIsEarned
  <2>. SUFFICES ASSUME ExecInv, pc = "done", ~cut, Verdict = "PASSED"
                PROVE  /\ Step.do = "exit" /\ Step.arg = code
                       /\ ran # None \/ ~Timed
                       /\ Whole
                       /\ \A i \in DOMAIN text : text[i] = Source(i)
                       /\ Filtered(text) = Filtered(Expected)
    BY DEF PassedIsEarned
  <2>1. code # None /\ result = [exit_code |-> code, same |-> Same(text, Expected)]
    BY DEF ExecInv, ResultInv
  <2>2. code \notin {SIGKILL_EXIT, TIMEOUT_EXIT} /\ Same(text, Expected)
    BY <2>1 DEF Verdict, StatusOf, SIGKILL_EXIT, SIGSEGV_EXIT, TIMEOUT_EXIT
  <2>3. Step.do = "exit" /\ Step.arg = code /\ (ran # None \/ ~Timed)
    BY <2>1, <2>2 DEF ExecInv, CodeInv
  <2>4. Filtered(text) = Filtered(Expected)
    BY <2>2 DEF Same
  <2>5. ASSUME NEW i \in DOMAIN text, text[i] # Source(i)
        PROVE  FALSE
    <3>1. text[i] = "?"
      BY <2>5 DEF ExecInv, TextInv, Kept
    <3>2. i \in Places(text) /\ text \in Seq(Written \cup {"?"})
      BY <3>1 DEF Places, ExecInv, TextInv
    <3>3. PICK k \in DOMAIN Filtered(text) : Filtered(text)[k] = "?"
      BY <3>1, <3>2, Left
    <3>4. PICK j \in DOMAIN Expected : Expected[j] = "?"
      BY <2>4, <3>3, LeftOf
    <3>. QED
      BY <3>4, ElementOfSeq, LenProperties
  <2>. QED
    BY <2>3, <2>4, <2>5, AllRead
<1>. QED
  BY <1>1, ExecInvariance, PTL
=============================================================================
