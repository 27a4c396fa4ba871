----------------------------- MODULE ExecStatus -----------------------------
(***************************************************************************)
(* The verdicts of the judge and how the worker picks one from what an     *)
(* execution in a container left behind (models/src/exec.rs and            *)
(* TestcaseHandler::handle_testcase in worker/src/executer.rs).            *)
(***************************************************************************)
EXTENDS Integers

ExecStatus == {"PASSED", "WRONG ANSWER", "MEMORY LIMIT EXCEEDED",
               "SEGMENTATION FAULT", "TIME LIMIT EXCEEDED"}

\* What run_exec hands over: the exit code of the exec, and whether the
\* captured output equals the expected one but for whitespace.
ExecOutput == [exit_code : Int, same : BOOLEAN]

\* The exit codes the handler singles out.  137 = 128 + SIGKILL is what the
\* kernel's OOM killer leaves, and so does a `docker kill` of the container.
SIGKILL_EXIT == 137
SIGSEGV_EXIT == 139
TIMEOUT_EXIT == 124

\* Any other exit code, a failed compilation included, goes to the comparison.
StatusOf(o) ==
  CASE o.exit_code = SIGKILL_EXIT -> "MEMORY LIMIT EXCEEDED"
    [] o.exit_code = SIGSEGV_EXIT -> "SEGMENTATION FAULT"
    [] o.exit_code = TIMEOUT_EXIT -> "TIME LIMIT EXCEEDED"
    [] OTHER -> IF o.same THEN "PASSED" ELSE "WRONG ANSWER"
=============================================================================
