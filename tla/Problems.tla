------------------------------ MODULE Problems ------------------------------
(***************************************************************************)
(* The problems of the judge: create_problem (routes/create_problem/post.rs*)
(* of the API) behind the roles of module Sessions, and the list that      *)
(* clients page through (list_problems, routes/problems.rs).               *)
(*                                                                         *)
(* A problem is two rows written by one transaction.  Its id comes from a  *)
(* sequence when the first is inserted, so that problems become visible in *)
(* another order than that of their ids.                                   *)
(***************************************************************************)
EXTENDS Sessions, FiniteSets, FiniteSetsExt

CONSTANTS
  Creations,      \* create_problem requests
  PageCap,        \* what list_problems bounds `limit` by (50)
  MaxLimit,       \* bound: the largest `limit` a client asks for
  ProblemFaults   \* which faults the environment may inject

ProblemFaultKind ==
  { "begin",        \* no connection: begin().await.unwrap() panics
    "statement",    \* PostgreSQL refuses a statement: a zero byte, a full disk
    "connection",   \* the connection is lost
    "disconnect" }  \* the client goes away and actix drops its handler

ASSUME ProblemConstantsOK ==
  /\ IsFiniteSet(Creations)
  /\ PageCap \in Nat \ {0} /\ MaxLimit \in Nat \ {0}
  /\ ProblemFaults \subseteq ProblemFaultKind

VARIABLES
  problems,   \* committed rows of `problems`
  cases,      \* problem_id of the committed rows of `problem_testcases`
  sequence,   \* the next problem_id
  req,        \* req[r]: a create_problem request and its transaction
  walk        \* a client that pages through the list

problemVars == <<problems, cases, sequence, req, walk>>
allVars == <<sessionVars, problemVars>>

ProblemIds == 1 .. 1 + Cardinality(Creations)

\* Awaits; then the answers: 200, 401, 500, and none at all.
CreateStage == {"new", "begin", "problem", "testcase", "commit",
                "ok", "unauthorized", "error", "gone"}

\* aborted: a statement of the transaction has failed.
Request == [at : CreateStage, auth : Auth \cup {None}, id : {0} \cup ProblemIds, aborted : BOOLEAN]

\* seen: the ids received; due: those that were listed when it began.
Walk == [offset : Nat, seen : SUBSET ProblemIds, due : SUBSET ProblemIds, over : BOOLEAN]

\* The migrations leave one problem and its testcase.
ProblemsInit ==
  /\ SessionsInit
  /\ problems = {1} /\ cases = {1}
  /\ sequence = 2
  /\ req = [r \in Creations |-> [at |-> "new", auth |-> None, id |-> 0, aborted |-> FALSE]]
  /\ walk = None

-----------------------------------------------------------------------------
(* create_problem *)

Answer(r, answer) == req' = [req EXCEPT ![r].at = answer]

MayCreate(auth) == auth # None /\ Rank(auth.role) >= Rank("problemsetter")

CheckRole(r) ==
  /\ req[r].at = "new"
  /\ \E b \in Browsers :
       req' = [req EXCEPT
         ![r].auth = LoadedAuth(b),
         ![r].at = IF MayCreate(LoadedAuth(b)) THEN "begin" ELSE "unauthorized"]
  /\ UNCHANGED <<sessionVars, problems, cases, sequence, walk>>

BeginTx(r) ==
  /\ req[r].at = "begin"
  /\ \/ Answer(r, "problem")
     \/ "begin" \in ProblemFaults /\ Answer(r, "gone")
  /\ UNCHANGED <<sessionVars, problems, cases, sequence, walk>>

\* Mutant of InsertProblem: the INSERT runs on the pool and commits by itself.
InsertProblemCommitted(r) ==
  /\ req[r].at = "problem"
  /\ req' = [req EXCEPT ![r].id = sequence, ![r].at = "testcase"]
  /\ sequence' = sequence + 1
  /\ problems' = problems \cup {sequence}
  /\ UNCHANGED <<sessionVars, cases, walk>>

\* Mutant of InsertProblem: the id is one more than the largest.
InsertProblemMax(r) ==
  /\ req[r].at = "problem"
  /\ req' = [req EXCEPT ![r].id = Max(problems) + 1, ![r].at = "testcase"]
  /\ sequence' = sequence + 1
  /\ UNCHANGED <<sessionVars, problems, cases, walk>>

InsertProblem(r) ==
  /\ req[r].at = "problem"
  /\ req' = [req EXCEPT ![r].id = sequence, ![r].at = "testcase"]
  /\ sequence' = sequence + 1
  /\ UNCHANGED <<sessionVars, problems, cases, walk>>

\* The transaction is dropped.
InsertProblemFails(r) ==
  /\ ProblemFaults \cap {"statement", "connection"} # {}
  /\ req[r].at = "problem"
  /\ Answer(r, "error")
  /\ UNCHANGED <<sessionVars, problems, cases, sequence, walk>>

\* `let _row`: what became of the INSERT is not looked at.
InsertTestcase(r) ==
  /\ req[r].at = "testcase"
  /\ \E failed \in {FALSE} \cup {"statement" \in ProblemFaults} :
       req' = [req EXCEPT ![r].at = "commit", ![r].aborted = failed]
  /\ UNCHANGED <<sessionVars, problems, cases, sequence, walk>>

CommitAnd(r, answer) ==
  /\ req[r].at = "commit" /\ ~req[r].aborted
  /\ Answer(r, answer)
  /\ problems' = problems \cup {req[r].id}
  /\ cases' = cases \cup {req[r].id}
  /\ UNCHANGED <<sessionVars, sequence, walk>>

CommitTx(r) == CommitAnd(r, "ok")

\* COMMIT of a transaction that has failed is a ROLLBACK, and no error.
CommitAborted(r) ==
  /\ req[r].at = "commit" /\ req[r].aborted
  /\ Answer(r, "ok")
  /\ UNCHANGED <<sessionVars, problems, cases, sequence, walk>>

RollbackAnd(r, answer) ==
  /\ req[r].at \in {"begin", "problem", "testcase", "commit"}
  /\ Answer(r, answer)
  /\ UNCHANGED <<sessionVars, problems, cases, sequence, walk>>

\* Only COMMIT reports that the connection is lost, and may have run.
CommitFails(r) ==
  /\ "connection" \in ProblemFaults
  /\ req[r].at = "commit"
  /\ CommitAnd(r, "error") \/ RollbackAnd(r, "error")

DropRequest(r) ==
  /\ "disconnect" \in ProblemFaults
  /\ CommitAnd(r, "gone") \/ RollbackAnd(r, "gone")

-----------------------------------------------------------------------------
(* list_problems *)

Position(p) == Cardinality({q \in problems : q < p})

\* Mutant of Page: without ORDER BY, the rows come in any order.
PageUnordered(limit, offset) ==
  LET n == Cardinality(problems) - offset
      size == Min({limit, PageCap, n})
  IN  IF n <= 0 THEN {{}} ELSE kSubset(size, problems)

\* ORDER BY problem_id LIMIT min(limit, 50) OFFSET offset: the one page.
Page(limit, offset) ==
  {{p \in problems : Position(p) \in offset .. offset + Min({limit, PageCap}) - 1}}

BeginWalk ==
  /\ walk = None
  /\ walk' = [offset |-> 0, seen |-> {}, due |-> problems, over |-> FALSE]
  /\ UNCHANGED <<sessionVars, problems, cases, sequence, req>>

\* A client goes on behind what it has received, until nothing comes.
ListProblems ==
  /\ walk # None /\ ~walk.over
  /\ \E limit \in 1 .. MaxLimit : \E page \in Page(limit, walk.offset) :
       walk' = [walk EXCEPT !.offset = @ + Cardinality(page),
                            !.seen = @ \cup page,
                            !.over = page = {}]
  /\ UNCHANGED <<sessionVars, problems, cases, sequence, req>>

-----------------------------------------------------------------------------
\* The transactions of an API that goes down are rolled back.  (A COMMIT that
\* gets through all the same is a DropRequest just before.)
RestartServer ==
  /\ RestartApi
  /\ req' = [r \in Creations |->
       IF req[r].at \in {"begin", "problem", "testcase", "commit"}
       THEN [req[r] EXCEPT !.at = "gone"] ELSE req[r]]
  /\ UNCHANGED <<problems, cases, sequence, walk>>

Create(r) ==
  \/ CheckRole(r)
  \/ BeginTx(r)
  \/ InsertProblem(r)
  \/ InsertProblemFails(r)
  \/ InsertTestcase(r)
  \/ CommitTx(r)
  \/ CommitAborted(r)
  \/ CommitFails(r)
  \/ DropRequest(r)

SessionStep ==
  /\ \/ \E l \in Logins : LoginStep(l)
     \/ \E u \in Users : ChangeRole(u)
     \/ \E i \in Ids : ExpireSession(i)
  /\ UNCHANGED problemVars

ProblemsNext ==
  \/ SessionStep
  \/ \E r \in Creations : Create(r)
  \/ BeginWalk
  \/ ListProblems
  \/ RestartServer

ProblemsSpec == ProblemsInit /\ [][ProblemsNext]_allVars

-----------------------------------------------------------------------------
(* Properties. *)

ProblemTypes ==
  /\ problems \subseteq ProblemIds /\ cases \subseteq ProblemIds
  /\ sequence \in 2 .. Cardinality(ProblemIds) + 1
  /\ req \in [Creations -> Request]
  /\ walk = None \/ walk \in Walk

\* Types, and that no id is given out twice or ahead of the sequence.
ProblemsTypeOK ==
  /\ SessionTypes /\ ProblemTypes
  /\ \A p \in problems \cup cases : p < sequence
  /\ \A r, s \in Creations : req[r].id = req[s].id /\ req[r].id # 0 => r = s

\* Whoever made a problem had logged in as that user, with a role that allows
\* it: renewed, expired, overtaken or orphaned, a session never joins the user
\* of one login to the role of another.
SetterOnly ==
  \A r \in Creations : req[r].id \in problems =>
    MayCreate(req[r].auth) /\ req[r].auth \in granted

\* What is listed can be judged: a problem is never visible without the
\* testcase that the worker fetches, whatever fails between the two INSERTs.
ListedIsJudgeable == problems \subseteq cases

\* A client that pages through the list receives every problem that was there
\* when it began, however many are created meanwhile and in whatever order
\* they become visible.  (It may receive one twice.)
PagingComplete == walk # None /\ walk.over => walk.due \subseteq walk.seen

\* The API maps "DB/queue failures to 500" (README.md): a 200 means that the
\* problem was created.
CreatedExists == \A r \in Creations : req[r].at = "ok" => req[r].id \in problems
=============================================================================
