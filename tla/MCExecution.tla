----------------------------- MODULE MCExecution -----------------------------
(* Small commands for TLC's runs of module Execution.                      *)
EXTENDS ExecutionInvariant

Do(what) == [do |-> what, arg |-> ""]
Out(c) == [do |-> "out", arg |-> c]
Err(c) == [do |-> "err", arg |-> c]
Deaf == [do |-> "spin", arg |-> "deaf"]
Exit(n) == [do |-> "exit", arg |-> n]

Timed1(steps) == [steps |-> steps, untimed |-> 0]
Compiled(n, steps) == [steps |-> steps, untimed |-> n]

MCExpected == <<"a", " ", "e1", "e2">>

\* Right, slow to read, early, noisy, looping, wrong, crashing, ending with the
\* exit code of `timeout`, deaf; compilers that say more than a pipe holds, that
\* fail, that fail in the very words that are expected, and that warn.
MCScripts ==
  { Timed1(<<Do("read"), Out("a"), Do("read"), Out("e1"), Out("e2"), Exit(0)>>),
    Timed1(<<Do("read"), Do("read"), Do("read"), Do("read"), Do("read"),
             Out("a"), Out(" "), Out("e1"), Out("e2"), Exit(1)>>),
    Timed1(<<Out("a"), Out("e1"), Out("e2"), Out(" "), Do("read"), Exit(0)>>),
    Timed1(<<Out("a"), Err("x"), Out("b"), Err("y"), Exit(0)>>),
    Timed1(<<Do("read"), Out("a"), Do("spin")>>),
    Timed1(<<Out("a"), Out(" "), Exit(0)>>),
    Timed1(<<Out("a"), Out("b"), Exit(139)>>),
    Timed1(<<Out("a"), Exit(124)>>),
    Timed1(<<Do("read"), Deaf>>),
    Compiled(5, <<Err("x"), Err("y"), Err("x"), Err("y"), Exit(1)>>),
    Compiled(2, <<Err("x"), Exit(1), Out("a"), Exit(0)>>),
    Compiled(4, <<Err("a"), Err("e1"), Err("e2"), Exit(1), Out("a"), Exit(0)>>),
    Compiled(2, <<Err("x"), Do("compile"), Do("read"), Out("a"), Do("spin")>>) }
=============================================================================
