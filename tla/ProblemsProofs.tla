--------------------------- MODULE ProblemsProofs ---------------------------
(***************************************************************************)
(* Theorems about Problems, and about Sessions below it, for any number of *)
(* users, logins, requests, roles and restarts and any set of faults.      *)
(***************************************************************************)
EXTENDS ProblemsInvariant, FiniteSetTheorems, WellFoundedInduction, TLAPS

-----------------------------------------------------------------------------
(* Sessions. *)

\* What a request gets to see of a session is what is stored.
LEMMA LoadedAuthGenuine ==
  ASSUME SessionInv, NEW b \in Browsers
  PROVE  /\ Loaded(b) \in Ids \cup {None}
         /\ LoadedAuth(b) \in (granted \cup {None}) \cap (Auth \cup {None})
<1>1. Loaded(b) # None => Loaded(b) \in Ids
  BY DEF SessionInv, SessionTypes, Loaded, Cookie
<1>2. LoadedAuth(b) \in granted \cup {None}
  BY <1>1 DEF SessionInv, Genuine, LoadedAuth
<1>. QED
  BY <1>1, <1>2 DEF SessionInv, SessionTypes

\* A login under way has its request's type.
LEMMA LoginTypes ==
  ASSUME SessionInv, NEW l \in Logins, NEW where \in {"select", "respond"}, At(l, where)
  PROVE  /\ Pending(l)
         /\ login[l] \in [at : {"select", "respond"}, by : Browsers, who : Users,
                          session : Ids \cup {None}, auth : Auth \cup {None},
                          role : Role \cup {None}]
  BY DEF SessionInv, SessionTypes, Login, Over, At, Pending

\* Everything a login does.
LEMMA LoginKeeps ==
  ASSUME SessionInv, NEW l \in Logins, LoginStep(l)
  PROVE  SessionInv' /\ granted \subseteq granted'
<1>. USE DEF SessionInv, SessionTypes, Genuine
<1>1. CASE LoadSession(l)
  <2>1. PICK b \in Browsers, u \in Users :
          login' = [login EXCEPT ![l] =
            [at |-> "select", by |-> b, who |-> u,
             session |-> Loaded(b), auth |-> LoadedAuth(b), role |-> None]]
    BY <1>1 DEF LoadSession
  <2>2. login'[l].auth \in granted \cup {None} /\ login'[l].at = "select" /\ login'[l] \in Login
    BY <2>1, LoadedAuthGenuine DEF Login
  <2>3. \A k \in Logins \ {l} : login'[k] = login[k]
    BY <2>1
  <2>4. UNCHANGED <<roles, redis, drawn, cookie, key, granted>>
    BY <1>1 DEF LoadSession
  <2>5. login' \in [Logins -> Login \cup {None}]
    BY <2>1, <2>2
  <2>. QED
    BY <2>2, <2>3, <2>4, <2>5 DEF Pending, Cookie
<1>2. CASE VerifyPassword(l)
  <2>. DEFINE who == login[l].who
              entry == [user |-> who, role |-> roles[who]]
  <2>1. /\ Pending(l) /\ who \in Users /\ roles[who] \in Role
        /\ login[l].auth \in granted \cup {None}
    BY <1>2, LoginTypes DEF VerifyPassword
  <2>2. entry \in Auth
    BY <2>1 DEF Auth
  <2>3. /\ login' = [login EXCEPT ![l] = [login[l] EXCEPT !.at = "respond", !.role = roles[who]]]
        /\ granted' = granted \cup {entry}
        /\ UNCHANGED <<roles, redis, drawn, cookie, key>>
    BY <1>2 DEF VerifyPassword, At
  <2>4. /\ login'[l].auth = login[l].auth /\ login'[l].who = who
        /\ login'[l].role = roles[who] /\ login'[l] \in Login
    BY <2>1, <2>3, <1>2, LoginTypes DEF VerifyPassword, Login
  <2>5. \A k \in Logins \ {l} : login'[k] = login[k]
    BY <2>3
  <2>6. login' \in [Logins -> Login \cup {None}]
    BY <2>3, <2>4
  <2>. QED
    BY <2>1, <2>2, <2>3, <2>4, <2>5, <2>6 DEF Pending, Cookie
<1>3. ASSUME login' = [login EXCEPT ![l] = Over],
             redis' \in [Ids -> Auth \cup {None}],
             \A i \in Ids : redis'[i] \in granted \cup {None},
             drawn' \subseteq Ids, cookie' \in [Browsers -> Cookie \cup {None}],
             UNCHANGED <<roles, key, granted>>
      PROVE  SessionInv' /\ granted \subseteq granted'
  <2>1. login' \in [Logins -> Login \cup {None}]
    BY <1>3 DEF Login
  <2>2. \A k \in Logins : login'[k] = Over \/ login'[k] = login[k]
    BY <1>3
  <2>. QED
    BY <1>3, <2>1, <2>2 DEF Pending, Cookie
<1>4. CASE RefuseLogin(l)
  BY <1>3, <1>4 DEF RefuseLogin, Cookie
<1>5. Forget(l) \in [Ids -> Auth \cup {None}] /\ \A i \in Ids : Forget(l)[i] \in granted \cup {None}
  BY DEF Forget
<1>6. CASE StoreSession(l)
  <2>1. Pending(l) /\ login[l].at = "respond" /\ login[l].by \in Browsers
    BY <1>6, LoginTypes DEF StoreSession, At
  <2>2. AuthStored(l) \in granted
    BY <2>1 DEF AuthStored
  <2>3. PICK i \in Ids :
          /\ drawn' = drawn \cup {i}
          /\ redis' = [Forget(l) EXCEPT ![i] = AuthStored(l)]
          /\ cookie' = [cookie EXCEPT ![login[l].by] = [id |-> i, key |-> key]]
             \/ UNCHANGED cookie
    BY <1>6 DEF StoreSession
  <2>4. /\ redis' \in [Ids -> Auth \cup {None}]
        /\ \A j \in Ids : redis'[j] \in granted \cup {None}
    BY <2>2, <2>3, <1>5
  <2>5. cookie' \in [Browsers -> Cookie \cup {None}]
    BY <2>1, <2>3 DEF Cookie
  <2>. QED
    BY <1>3, <1>6, <2>3, <2>4, <2>5 DEF StoreSession
<1>7. CASE StoreFails(l)
  BY <1>3, <1>5, <1>7 DEF StoreFails, Cookie
<1>. QED
  BY <1>1, <1>2, <1>4, <1>6, <1>7 DEF LoginStep

\* Everything else that happens to sessions.
LEMMA SurroundingsKeep ==
  ASSUME SessionInv,
         \/ \E u \in Users : ChangeRole(u)
         \/ \E i \in Ids : ExpireSession(i)
         \/ RestartApi
  PROVE  SessionInv' /\ granted' = granted
<1>. USE DEF SessionInv, SessionTypes, Genuine
<1>1. ASSUME NEW u \in Users, ChangeRole(u) PROVE SessionInv' /\ granted' = granted
  <2>1. PICK r \in Grants : roles' = [roles EXCEPT ![u] = r]
    BY <1>1 DEF ChangeRole
  <2>2. roles' \in [Users -> Role]
    BY <2>1, SessionConstantsOK DEF SessionConstantsOK
  <2>. QED
    BY <1>1, <2>2 DEF ChangeRole, Pending, Cookie
<1>2. ASSUME NEW i \in Ids, ExpireSession(i) PROVE SessionInv' /\ granted' = granted
  BY <1>2 DEF ExpireSession, Pending, Cookie
<1>3. CASE RestartApi
  <2>1. login' \in [Logins -> Login \cup {None}] /\ \A l \in Logins : ~Pending(l)'
    BY <1>3 DEF RestartApi, Login, Pending
  <2>2. key' \in 0 .. MaxRestarts
    BY <1>3, SessionConstantsOK DEF RestartApi, SessionConstantsOK
  <2>. QED
    BY <1>3, <2>1, <2>2 DEF RestartApi, Cookie
<1>. QED
  BY <1>1, <1>2, <1>3

-----------------------------------------------------------------------------
(* Positions in the list. *)

\* Every set of numbers that is not empty has a smallest.
LEMMA Smallest ==
  ASSUME NEW S \in SUBSET Nat, S # {}
  PROVE  \E n \in S : \A m \in S : n <= m
<1>1. PICK n \in S : \A m \in S : <<m, n>> \notin OpToRel(<, Nat)
  BY NatLessThanWellFounded, WFMin
<1>2. ASSUME NEW m \in S PROVE n <= m
  <2>1. <<m, n>> \in Nat \X Nat /\ <<m, n>>[1] = m /\ <<m, n>>[2] = n
    OBVIOUS
  <2>2. ~(m < n)
    BY <1>1, <2>1 DEF OpToRel
  <2>. QED
    BY <2>2
<1>. QED
  BY <1>2

\* The ids in use are those of finitely many numbers.
LEMMA IdsFinite ==
  ASSUME ProblemTypes
  PROVE  /\ ProblemIds \subseteq Nat \ {0}
         /\ Cardinality(ProblemIds) = 1 + Cardinality(Creations)
         /\ Cardinality(Creations) \in Nat
         /\ IsFiniteSet(problems)
         /\ \A S \in SUBSET problems : IsFiniteSet(S) /\ Cardinality(S) \in Nat
<1>1. Cardinality(Creations) \in Nat
  BY ProblemConstantsOK, FS_CardinalityType DEF ProblemConstantsOK
<1>2. IsFiniteSet(ProblemIds) /\ Cardinality(ProblemIds) = 1 + Cardinality(Creations)
  BY <1>1, FS_Interval DEF ProblemIds
<1>3. IsFiniteSet(problems)
  BY <1>2, FS_Subset DEF ProblemTypes
<1>4. \A S \in SUBSET problems : IsFiniteSet(S) /\ Cardinality(S) \in Nat
  BY <1>3, FS_Subset, FS_CardinalityType
<1>. QED
  BY <1>1, <1>2, <1>3, <1>4 DEF ProblemIds

\* Problems stand in the list in the order of their ids.
LEMMA PositionOrder ==
  ASSUME ProblemTypes
  PROVE  /\ \A p \in problems : Position(p) \in Nat
         /\ \A p, q \in problems : p < q => Position(p) < Position(q)
<1>1. \A p \in problems : Position(p) \in Nat
  BY IdsFinite DEF Position
<1>2. ASSUME NEW p \in problems, NEW q \in problems, p < q
      PROVE  Position(p) < Position(q)
  <2>. DEFINE P == {r \in problems : r < p}
              Q == {r \in problems : r < q}
  <2>1. problems \subseteq Nat
    BY IdsFinite DEF ProblemTypes
  <2>2. P \subseteq Q /\ p \in Q \ P
    <3>1. p \in Nat /\ q \in Nat
      BY <2>1
    <3>2. ASSUME NEW r \in P PROVE r \in Q
      <4>1. r \in Nat
        BY <2>1
      <4>. QED
        BY <1>2, <3>1, <4>1
    <3>3. p \in Q /\ p \notin P
      BY <1>2, <3>1
    <3>. QED
      BY <3>2, <3>3
  <2>3. IsFiniteSet(Q)
    <3>1. Q \in SUBSET problems
      OBVIOUS
    <3>. QED
      BY <3>1, IdsFinite
  <2>4. Cardinality(P) <= Cardinality(Q) /\ Cardinality(P) # Cardinality(Q)
    BY <2>2, <2>3, FS_Subset
  <2>5. Position(p) = Cardinality(P) /\ Position(q) = Cardinality(Q)
    BY DEF Position
  <2>. HIDE DEF P, Q
  <2>. QED
    BY <2>4, <2>5, <1>1
<1>. QED
  BY <1>1, <1>2

\* There are no gaps: where some problem stands at n or behind, one stands at n.
LEMMA NoGaps ==
  ASSUME ProblemTypes, NEW n \in Nat, NEW p \in problems, Position(p) >= n
  PROVE  \E q \in problems : Position(q) = n
<1>. DEFINE S == {q \in problems : Position(q) >= n}
<1>1. PICK q \in S : \A r \in S : q <= r
  BY Smallest, IdsFinite DEF ProblemTypes
<1>. DEFINE B == {r \in problems : r < q}
<1>2. \A r \in B : Position(r) \in 0 .. n - 1
  BY <1>1, IdsFinite, PositionOrder DEF ProblemTypes
<1>. DEFINE f == [r \in B |-> Position(r)]
<1>3. f \in Injection(B, 0 .. n - 1)
  <2>1. f \in [B -> 0 .. n - 1]
    BY <1>2
  <2>2. ASSUME NEW a \in B, NEW b \in B, f[a] = f[b] PROVE a = b
    <3>1. Position(a) = Position(b) /\ a \in Nat /\ b \in Nat
      BY <2>2, IdsFinite DEF ProblemTypes
    <3>. QED
      BY <3>1, PositionOrder
  <2>. QED
    BY <2>1, <2>2 DEF Injection, IsInjective
<1>4. IsFiniteSet(0 .. n - 1) /\ Cardinality(0 .. n - 1) = n
  BY FS_Interval
<1>5. Cardinality(B) <= n
  BY <1>3, <1>4, FS_Injection
<1>6. Position(q) = Cardinality(B)
  BY DEF Position
<1>7. Position(q) \in Nat /\ Position(q) >= n /\ q \in problems
  BY PositionOrder
<1>. QED
  BY <1>5, <1>6, <1>7

\* A page holds at least what stands at its offset, and as many positions as
\* it has problems.
LEMMA PageFacts ==
  ASSUME ProblemTypes, NEW limit \in 1 .. MaxLimit, NEW offset \in Nat,
         NEW page \in Page(limit, offset)
  PROVE  /\ page \subseteq problems
         /\ Cardinality(page) \in Nat
         /\ \A p \in problems :
              /\ offset <= Position(p) /\ Position(p) < offset + Cardinality(page) => p \in page
              /\ page = {} => Position(p) < offset
<1>. DEFINE size == Min({limit, PageCap})
<1>1. size \in Nat \ {0}
  <2>1. \E x \in {limit, PageCap} : \A y \in {limit, PageCap} : x =< y
    BY ProblemConstantsOK DEF ProblemConstantsOK
  <2>2. size \in {limit, PageCap}
    BY <2>1 DEF Min
  <2>. QED
    BY <2>2, ProblemConstantsOK DEF ProblemConstantsOK
<1>2. page = {p \in problems : Position(p) \in offset .. offset + size - 1}
  BY DEF Page
<1>3. Cardinality(page) \in Nat
  BY <1>2, IdsFinite
<1>4. Cardinality(page) <= size
  <2>. DEFINE f == [p \in page |-> Position(p)]
              I == offset .. offset + size - 1
  <2>1. f \in Injection(page, I)
    <3>1. f \in [page -> I]
      BY <1>2
    <3>2. ASSUME NEW a \in page, NEW b \in page, f[a] = f[b] PROVE a = b
      <4>1. Position(a) = Position(b) /\ a \in Nat /\ b \in Nat /\ a \in problems /\ b \in problems
        BY <1>2, <3>2, IdsFinite DEF ProblemTypes
      <4>. QED
        BY <4>1, PositionOrder
    <3>. QED
      BY <3>1, <3>2 DEF Injection, IsInjective
  <2>2. IsFiniteSet(I) /\ Cardinality(I) = size
    <3>. HIDE DEF size
    <3>1. offset \in Int /\ offset + size - 1 \in Int /\ offset <= offset + size - 1
      BY <1>1
    <3>2. IsFiniteSet(I) /\ Cardinality(I) = (offset + size - 1) - offset + 1
      BY <3>1, FS_Interval
    <3>. QED
      BY <1>1, <3>2
  <2>. QED
    BY <2>1, <2>2, FS_Injection
<1>5. ASSUME NEW p \in problems,
             offset <= Position(p), Position(p) < offset + Cardinality(page)
      PROVE  p \in page
  BY <1>1, <1>2, <1>3, <1>4, <1>5, PositionOrder
<1>6. ASSUME NEW p \in problems, page = {} PROVE Position(p) < offset
  <2>1. SUFFICES ASSUME Position(p) >= offset PROVE FALSE
    BY PositionOrder
  <2>2. PICK q \in problems : Position(q) = offset
    BY <2>1, NoGaps
  <2>3. offset \in offset .. offset + size - 1
    BY <1>1
  <2>. QED
    BY <1>2, <1>6, <2>2, <2>3
<1>. QED
  BY <1>2, <1>3, <1>5, <1>6

\* A problem that becomes visible moves others back, never forward.
LEMMA PositionsGrow ==
  ASSUME ProblemTypes, ProblemTypes', problems \subseteq problems', NEW p \in problems
  PROVE  Position(p) <= Position(p)'
<1>. DEFINE B == {q \in problems : q < p}
            C == {q \in problems' : q < p}
<1>1. B \subseteq C
  OBVIOUS
<1>2. IsFiniteSet(problems')
  <2>1. IsFiniteSet(ProblemIds)
    BY ProblemConstantsOK, FS_CardinalityType, FS_Interval DEF ProblemIds, ProblemConstantsOK
  <2>. QED
    BY <2>1, FS_Subset DEF ProblemTypes
<1>3. IsFiniteSet(C)
  BY <1>2, FS_Subset
<1>. QED
  BY <1>1, <1>3, FS_Subset DEF Position

-----------------------------------------------------------------------------
(* create_problem. *)

\* A request moves on with the id it has, and its problem may become visible.
LEMMA RequestMoves ==
  ASSUME ProblemInv, NEW r \in Creations, NEW new \in Request,
         req' = [req EXCEPT ![r] = new],
         new.id = req[r].id,
         new.auth \in granted \cup {None},
         new.at \notin {"new", "unauthorized"} => MayCreate(new.auth),
         new.at \in {"new", "unauthorized", "begin", "problem"} => new.id = 0,
         new.at \in {"testcase", "commit"} => new.id # 0,
         NEW shown \in SUBSET ({req[r].id} \ {0}),
         problems' = problems \cup shown, cases' = cases \cup shown,
         UNCHANGED <<granted, sequence, walk>>
  PROVE  ProblemInv'
<1>. USE DEF ProblemInv
<1>1. /\ req' \in [Creations -> Request]
      /\ req'[r] = new /\ \A s \in Creations \ {r} : req'[s] = req[s]
      /\ \A s \in Creations : req'[s].id = req[s].id
  BY DEF ProblemTypes
<1>2. shown \subseteq ProblemIds /\ \A p \in shown : p < sequence
  BY DEF ProblemTypes, Request, Counted
<1>3. ProblemTypes'
  BY <1>1, <1>2 DEF ProblemTypes
<1>4. Numbered' = Numbered
  BY <1>1 DEF Numbered
<1>5. Counted'
  BY <1>1, <1>4 DEF Counted
<1>6. Distinct'
  BY <1>1, <1>2 DEF Distinct
<1>7. Admitted'
  BY <1>1 DEF Admitted
<1>8. ListedIsJudgeable'
  BY DEF ListedIsJudgeable
<1>. QED
  BY <1>3, <1>5, <1>6, <1>7, <1>8

\* The INSERT that draws the id.
LEMMA InsertKeeps ==
  ASSUME ProblemInv, NEW r \in Creations, InsertProblem(r)
  PROVE  ProblemInv'
<1>. USE DEF ProblemInv
<1>. DEFINE new == [req[r] EXCEPT !.id = sequence, !.at = "testcase"]
<1>1. /\ req[r] \in Request /\ req[r].id = 0 /\ req[r].at = "problem"
      /\ sequence \in Nat \ {0, 1}
  BY DEF InsertProblem, ProblemTypes, Counted
<1>2. r \notin Numbered /\ Numbered \subseteq Creations
  BY <1>1 DEF Numbered
<1>3. IsFiniteSet(Numbered) /\ Cardinality(Numbered) \in Nat
  BY <1>2, ProblemConstantsOK, FS_Subset, FS_CardinalityType DEF ProblemConstantsOK
<1>4. Cardinality(Numbered \cup {r}) = Cardinality(Numbered) + 1
  BY <1>2, <1>3, FS_AddElement
<1>5. Cardinality(Numbered) + 1 <= Cardinality(Creations)
  <2>1. (Numbered \cup {r}) \in SUBSET Creations
    BY <1>2
  <2>. QED
    BY <2>1, <1>4, ProblemConstantsOK, FS_Subset DEF ProblemConstantsOK
<1>6. sequence \in ProblemIds /\ sequence' \in 2 .. Cardinality(ProblemIds) + 1
  BY <1>1, <1>3, <1>5, IdsFinite DEF Counted, ProblemIds, InsertProblem
<1>7. /\ req' = [req EXCEPT ![r] = new]
      /\ new \in Request /\ new.id = sequence /\ new.at = "testcase" /\ new.auth = req[r].auth
      /\ sequence' = sequence + 1
      /\ UNCHANGED <<problems, cases, walk, granted>>
  BY <1>1, <1>6 DEF InsertProblem, Request, CreateStage, sessionVars
<1>8. /\ req'[r] = new /\ \A s \in Creations \ {r} : req'[s] = req[s]
      /\ req' \in [Creations -> Request]
  BY <1>7 DEF ProblemTypes
<1>. HIDE DEF new
<1>9. ProblemTypes'
  BY <1>6, <1>7, <1>8 DEF ProblemTypes
<1>10. Numbered' = Numbered \cup {r}
  BY <1>1, <1>7, <1>8 DEF Numbered
<1>11. \A s \in Creations : req[s].id \in Nat /\ req[s].id < sequence
  BY IdsFinite DEF ProblemTypes, Request, Counted
<1>12. Counted'
  BY <1>1, <1>3, <1>4, <1>7, <1>8, <1>10, <1>11 DEF Counted
<1>13. Distinct'
  <2>1. \A p \in problems \cup cases : p \in Nat /\ p < sequence
    BY IdsFinite DEF ProblemTypes, Distinct
  <2>2. \A p \in (problems \cup cases)' : p < sequence'
    BY <2>1, <1>1, <1>7
  <2>3. \A s, t \in Creations : req'[s].id = req'[t].id /\ req'[s].id # 0 => s = t
    BY <1>1, <1>7, <1>8, <1>11 DEF Distinct
  <2>. QED
    BY <2>2, <2>3 DEF Distinct
<1>14. Admitted'
  BY <1>1, <1>7, <1>8 DEF Admitted
<1>15. ListedIsJudgeable'
  BY <1>7 DEF ListedIsJudgeable
<1>. QED
  BY <1>9, <1>12, <1>13, <1>14, <1>15

\* Every step of a request.
LEMMA CreateKeeps ==
  ASSUME SessionInv, ProblemInv, NEW r \in Creations, Create(r)
  PROVE  ProblemInv' /\ problems \subseteq problems' /\ UNCHANGED <<sessionVars, walk>>
<1>1. /\ req[r] \in Request
      /\ req[r].auth \in granted \cup {None}
      /\ req[r].at \notin {"new", "unauthorized"} => MayCreate(req[r].auth)
      /\ req[r].at \in {"new", "unauthorized", "begin", "problem"} => req[r].id = 0
      /\ req[r].at \in {"testcase", "commit"} => req[r].id # 0
      /\ req \in [Creations -> Request]
  BY DEF ProblemInv, ProblemTypes, Admitted, Counted
<1>2. ASSUME req[r].at \in {"begin", "problem", "testcase", "commit"},
             NEW answer \in {"error", "gone", "ok"}, Answer(r, answer),
             NEW shown \in SUBSET ({req[r].id} \ {0}),
             problems' = problems \cup shown, cases' = cases \cup shown,
             UNCHANGED <<sessionVars, sequence, walk>>
      PROVE  ProblemInv' /\ problems \subseteq problems' /\ UNCHANGED <<sessionVars, walk>>
  <2>. DEFINE new == [req[r] EXCEPT !.at = answer]
  <2>1. /\ req' = [req EXCEPT ![r] = new]
        /\ new \in Request /\ new.at = answer /\ new.id = req[r].id /\ new.auth = req[r].auth
    BY <1>1, <1>2 DEF Answer, Request, CreateStage
  <2>. HIDE DEF new
  <2>2. ProblemInv'
    BY <1>1, <1>2, <2>1, RequestMoves DEF sessionVars
  <2>. QED
    BY <1>2, <2>2
<1>3. ASSUME NEW answer \in {"error", "gone", "ok"}, CommitAnd(r, answer)
      PROVE  ProblemInv' /\ problems \subseteq problems' /\ UNCHANGED <<sessionVars, walk>>
  <2>. DEFINE shown == {req[r].id}
  <2>1. req[r].at = "commit" /\ shown \in SUBSET ({req[r].id} \ {0})
    BY <1>1, <1>3 DEF CommitAnd
  <2>. QED
    BY <1>2, <1>3, <2>1 DEF CommitAnd
<1>4. ASSUME NEW answer \in {"error", "gone", "ok"},
             Answer(r, answer), req[r].at \in {"begin", "problem", "testcase", "commit"},
             UNCHANGED <<sessionVars, problems, cases, sequence, walk>>
      PROVE  ProblemInv' /\ problems \subseteq problems' /\ UNCHANGED <<sessionVars, walk>>
  <2>. DEFINE shown == {}
  <2>1. shown \in SUBSET ({req[r].id} \ {0})
    OBVIOUS
  <2>. QED
    BY <1>2, <1>4, <2>1
<1>5. ASSUME NEW answer \in {"error", "gone", "ok"}, RollbackAnd(r, answer)
      PROVE  ProblemInv' /\ problems \subseteq problems' /\ UNCHANGED <<sessionVars, walk>>
  BY <1>4, <1>5 DEF RollbackAnd
<1>6. ASSUME NEW new \in Request, req' = [req EXCEPT ![r] = new], new.id = req[r].id,
             new.auth \in granted \cup {None},
             new.at \notin {"new", "unauthorized"} => MayCreate(new.auth),
             new.at \in {"new", "unauthorized", "begin", "problem"} => new.id = 0,
             new.at \in {"testcase", "commit"} => new.id # 0,
             UNCHANGED <<sessionVars, problems, cases, sequence, walk>>
      PROVE  ProblemInv' /\ problems \subseteq problems' /\ UNCHANGED <<sessionVars, walk>>
  <2>. DEFINE shown == {}
  <2>1. /\ shown \in SUBSET ({req[r].id} \ {0})
        /\ problems' = problems \cup shown /\ cases' = cases \cup shown
    BY <1>6
  <2>. QED
    BY <1>6, <2>1, RequestMoves DEF sessionVars
<1>7. CASE CheckRole(r)
  <2>1. PICK b \in Browsers :
          req' = [req EXCEPT
            ![r].auth = LoadedAuth(b),
            ![r].at = IF MayCreate(LoadedAuth(b)) THEN "begin" ELSE "unauthorized"]
    BY <1>7 DEF CheckRole
  <2>. DEFINE new == [req[r] EXCEPT
                 !.auth = LoadedAuth(b),
                 !.at = IF MayCreate(LoadedAuth(b)) THEN "begin" ELSE "unauthorized"]
  <2>2. LoadedAuth(b) \in (granted \cup {None}) \cap (Auth \cup {None})
    BY LoadedAuthGenuine
  <2>3. /\ req' = [req EXCEPT ![r] = new]
        /\ new \in Request /\ new.id = req[r].id /\ new.auth = LoadedAuth(b)
        /\ new.at = IF MayCreate(LoadedAuth(b)) THEN "begin" ELSE "unauthorized"
    BY <1>1, <2>1, <2>2 DEF Request, CreateStage
  <2>. HIDE DEF new
  <2>. QED
    BY <1>1, <1>6, <1>7, <2>2, <2>3 DEF CheckRole
<1>8. CASE BeginTx(r)
  <2>1. CASE Answer(r, "problem")
    <3>. DEFINE new == [req[r] EXCEPT !.at = "problem"]
    <3>1. /\ req' = [req EXCEPT ![r] = new]
          /\ new \in Request /\ new.id = req[r].id /\ new.auth = req[r].auth /\ new.at = "problem"
      BY <1>1, <2>1 DEF Answer, Request, CreateStage
    <3>. HIDE DEF new
    <3>. QED
      BY <1>1, <1>6, <1>8, <3>1 DEF BeginTx
  <2>. QED
    BY <1>4, <1>8, <2>1 DEF BeginTx
<1>9. CASE InsertProblem(r)
  BY <1>9, InsertKeeps DEF InsertProblem
<1>10. CASE InsertProblemFails(r)
  BY <1>4, <1>10 DEF InsertProblemFails
<1>11. CASE InsertTestcase(r)
  <2>1. PICK failed \in {FALSE} \cup {"statement" \in ProblemFaults} :
          req' = [req EXCEPT ![r].at = "commit", ![r].aborted = failed]
    BY <1>11, Zenon DEF InsertTestcase
  <2>2. failed \in BOOLEAN
    <3>. DEFINE broken == "statement" \in ProblemFaults
    <3>1. broken \in BOOLEAN
      OBVIOUS
    <3>2. failed \in {FALSE} \cup {broken}
      OBVIOUS
    <3>. HIDE DEF broken
    <3>. QED
      BY <3>1, <3>2
  <2>. DEFINE new == [req[r] EXCEPT !.at = "commit", !.aborted = failed]
  <2>3. /\ req' = [req EXCEPT ![r] = new]
        /\ new \in Request /\ new.id = req[r].id /\ new.auth = req[r].auth /\ new.at = "commit"
    BY <1>1, <2>1, <2>2 DEF Request, CreateStage
  <2>. HIDE DEF new
  <2>. QED
    BY <1>1, <1>6, <1>11, <2>3 DEF InsertTestcase
<1>12. CASE CommitTx(r)
  BY <1>3, <1>12 DEF CommitTx
<1>13. CASE CommitAborted(r)
  BY <1>4, <1>13 DEF CommitAborted
<1>14. CASE CommitFails(r)
  BY <1>3, <1>5, <1>14 DEF CommitFails
<1>15. CASE DropRequest(r)
  BY <1>3, <1>5, <1>15 DEF DropRequest
<1>. QED
  BY <1>7, <1>8, <1>9, <1>10, <1>11, <1>12, <1>13, <1>14, <1>15 DEF Create

-----------------------------------------------------------------------------
(* list_problems, and the whole. *)

\* What others do to the list costs a walk nothing.
LEMMA PassedKept ==
  ASSUME ProblemTypes, ProblemTypes', Passed, problems \subseteq problems', UNCHANGED walk
  PROVE  Passed'
<1>1. CASE walk = None
  BY <1>1 DEF Passed
<1>2. CASE walk # None
  <2>1. walk \in Walk /\ walk.offset \in Nat
    BY <1>2 DEF ProblemTypes, Walk
  <2>2. ASSUME NEW p \in walk.due, Position(p)' < walk.offset PROVE p \in walk.seen
    <3>1. p \in problems /\ p \in problems'
      BY <1>2 DEF Passed
    <3>2. Position(p) <= Position(p)' /\ Position(p) \in Nat
      BY <3>1, PositionsGrow, PositionOrder
    <3>3. Position(p)' \in Nat
      <4>1. IsFiniteSet(ProblemIds)
        BY IdsFinite, FS_Interval DEF ProblemIds
      <4>2. IsFiniteSet({q \in problems' : q < p})
        BY <4>1, FS_Subset DEF ProblemTypes
      <4>. QED
        BY <4>2, FS_CardinalityType DEF Position
    <3>4. Position(p) < walk.offset
      BY <2>1, <2>2, <3>2, <3>3
    <3>. QED
      BY <1>2, <3>4 DEF Passed
  <2>. QED
    BY <1>2, <2>2 DEF Passed
<1>. QED
  BY <1>1, <1>2

\* The client begins its walk, or reads a page.
LEMMA WalkKeeps ==
  ASSUME ProblemInv, Passed, BeginWalk \/ ListProblems
  PROVE  ProblemInv' /\ Passed'
<1>1. UNCHANGED <<sessionVars, problems, cases, sequence, req>>
  BY DEF BeginWalk, ListProblems
<1>2. ASSUME walk' \in Walk PROVE ProblemInv'
  BY <1>1, <1>2 DEF ProblemInv, ProblemTypes, Counted, Numbered, Distinct, Admitted,
       ListedIsJudgeable, sessionVars
<1>3. ProblemTypes /\ problems \subseteq ProblemIds
  BY DEF ProblemInv, ProblemTypes
<1>4. \A p \in problems : Position(p)' = Position(p)
  BY <1>1 DEF Position
<1>5. CASE BeginWalk
  <2>1. walk' = [offset |-> 0, seen |-> {}, due |-> problems, over |-> FALSE]
    BY <1>5 DEF BeginWalk
  <2>2. walk' \in Walk
    BY <1>3, <2>1 DEF Walk
  <2>3. \A p \in problems : ~(Position(p) < 0)
    BY <1>3, PositionOrder
  <2>. QED
    BY <1>1, <1>2, <1>4, <2>1, <2>2, <2>3 DEF Passed
<1>6. CASE ListProblems
  <2>1. walk \in Walk /\ walk # None
    BY <1>3, <1>6 DEF ListProblems, ProblemTypes
  <2>2. PICK limit \in 1 .. MaxLimit :
          \E page \in Page(limit, walk.offset) :
            walk' = [walk EXCEPT !.offset = @ + Cardinality(page),
                                 !.seen = @ \cup page,
                                 !.over = page = {}]
    BY <1>6 DEF ListProblems
  <2>3. PICK page \in Page(limit, walk.offset) :
          walk' = [walk EXCEPT !.offset = @ + Cardinality(page),
                               !.seen = @ \cup page,
                               !.over = page = {}]
    BY <2>2
  <2>4. walk.offset \in Nat
    BY <2>1 DEF Walk
  <2>5. /\ page \subseteq problems
        /\ Cardinality(page) \in Nat
        /\ \A p \in problems :
             /\ walk.offset <= Position(p) /\ Position(p) < walk.offset + Cardinality(page)
                  => p \in page
             /\ page = {} => Position(p) < walk.offset
    BY <1>3, <2>4, PageFacts
  <2>. DEFINE last == page = {}
  <2>6. last \in BOOLEAN /\ (last <=> page = {})
    OBVIOUS
  <2>7. walk' = [walk EXCEPT !.offset = @ + Cardinality(page), !.seen = @ \cup page,
                             !.over = last]
    BY <2>3
  <2>. HIDE DEF last
  <2>8. /\ walk'.offset = walk.offset + Cardinality(page)
        /\ walk'.seen = walk.seen \cup page
        /\ walk'.due = walk.due
        /\ walk'.over = last
    BY <2>1, <2>7 DEF Walk
  <2>9. walk' \in Walk
    <3>1. /\ walk.offset + Cardinality(page) \in Nat
          /\ walk.seen \cup page \in SUBSET ProblemIds
          /\ walk.due \in SUBSET ProblemIds
      BY <1>3, <2>1, <2>4, <2>5 DEF Walk
    <3>. QED
      BY <2>1, <2>6, <2>7, <3>1 DEF Walk
  <2>10. walk.due \subseteq problems
    BY <2>1 DEF Passed
  <2>11. ASSUME NEW p \in walk.due, Position(p) < walk'.offset PROVE p \in walk'.seen
    <3>1. p \in problems /\ Position(p) \in Nat
      BY <1>3, <2>10, PositionOrder
    <3>2. CASE Position(p) < walk.offset
      BY <2>1, <2>8, <3>2 DEF Passed
    <3>3. CASE walk.offset <= Position(p)
      BY <2>5, <2>8, <2>11, <3>1, <3>3
    <3>. QED
      BY <2>4, <3>1, <3>2, <3>3
  <2>12. walk'.over => walk'.due \subseteq walk'.seen
    <3>. SUFFICES ASSUME walk'.over, NEW p \in walk.due PROVE p \in walk.seen
      BY <2>8
    <3>1. page = {}
      BY <2>8, <2>6
    <3>. QED
      BY <2>1, <2>5, <2>10, <3>1 DEF Passed
  <2>. QED
    BY <1>1, <1>2, <1>4, <2>8, <2>9, <2>10, <2>11, <2>12 DEF Passed
<1>. QED
  BY <1>5, <1>6

\* The restart leaves requests unanswered and their transactions rolled back.
LEMMA RestartKeeps ==
  ASSUME ProblemInv, RestartServer
  PROVE  ProblemInv' /\ UNCHANGED <<problems, walk>>
<1>. DEFINE Under == {"begin", "problem", "testcase", "commit"}
            moved(r) == IF req[r].at \in Under THEN [req[r] EXCEPT !.at = "gone"] ELSE req[r]
<1>1. /\ req' = [r \in Creations |-> moved(r)]
      /\ UNCHANGED <<problems, cases, sequence, walk, granted>>
  BY DEF RestartServer, RestartApi
<1>2. \A r \in Creations :
        /\ req[r] \in Request
        /\ moved(r) \in Request /\ moved(r).id = req[r].id /\ moved(r).auth = req[r].auth
        /\ moved(r).at = IF req[r].at \in Under THEN "gone" ELSE req[r].at
  BY DEF ProblemInv, ProblemTypes, Request, CreateStage
<1>. HIDE DEF moved
<1>3. \A r \in Creations : req'[r] = moved(r)
  BY <1>1
<1>4. ProblemTypes'
  BY <1>1, <1>2 DEF ProblemInv, ProblemTypes
<1>5. Numbered' = Numbered
  BY <1>2, <1>3 DEF Numbered
<1>6. Counted'
  BY <1>1, <1>2, <1>3, <1>5 DEF ProblemInv, Counted
<1>7. Distinct'
  BY <1>1, <1>2, <1>3 DEF ProblemInv, Distinct
<1>8. Admitted'
  BY <1>1, <1>2, <1>3 DEF ProblemInv, Admitted
<1>. QED
  BY <1>1, <1>4, <1>6, <1>7, <1>8 DEF ProblemInv, ListedIsJudgeable

\* What happens to sessions only adds to what logins have read.
LEMMA SessionsAside ==
  ASSUME ProblemInv, granted \subseteq granted', UNCHANGED problemVars
  PROVE  ProblemInv'
  BY DEF ProblemInv, ProblemTypes, Counted, Numbered, Distinct, Admitted, ListedIsJudgeable,
         problemVars

\* The invariant is inductive.
LEMMA InitInv == ProblemsInit => ProblemsInv
<1>. SUFFICES ASSUME ProblemsInit PROVE ProblemsInv
  OBVIOUS
<1>1. SessionInv
  BY SessionConstantsOK
  DEF ProblemsInit, SessionsInit, SessionInv, SessionTypes, Genuine, SessionConstantsOK,
      Role, Pending
<1>2. Cardinality(Creations) \in Nat /\ ProblemIds = 1 .. 1 + Cardinality(Creations)
  BY ProblemConstantsOK, FS_CardinalityType DEF ProblemConstantsOK, ProblemIds
<1>3. Cardinality(ProblemIds) = 1 + Cardinality(Creations)
  BY <1>2, FS_Interval
<1>4. ProblemTypes
  BY <1>2, <1>3 DEF ProblemsInit, ProblemTypes, Request, CreateStage
<1>5. Numbered = {}
  BY DEF ProblemsInit, Numbered
<1>6. Counted
  BY <1>5, FS_EmptySet DEF ProblemsInit, Counted
<1>7. Distinct /\ Admitted /\ ListedIsJudgeable /\ Passed
  BY DEF ProblemsInit, Distinct, Admitted, ListedIsJudgeable, Passed
<1>. QED
  BY <1>1, <1>4, <1>6, <1>7 DEF ProblemsInv, ProblemInv

LEMMA NextInv == ProblemsInv /\ [ProblemsNext]_allVars => ProblemsInv'
<1>. SUFFICES ASSUME ProblemsInv, [ProblemsNext]_allVars PROVE ProblemsInv'
  OBVIOUS
<1>. USE DEF ProblemsInv
<1>1. ProblemTypes /\ (ProblemInv' => ProblemTypes')
  BY DEF ProblemInv
<1>2. ASSUME UNCHANGED sessionVars PROVE SessionInv'
  BY <1>2 DEF sessionVars, SessionInv, SessionTypes, Genuine, Pending, Cookie
<1>3. CASE UNCHANGED allVars
  <2>1. UNCHANGED sessionVars /\ UNCHANGED problemVars /\ granted' = granted
    BY <1>3 DEF allVars, sessionVars, problemVars
  <2>2. ProblemInv'
    BY <2>1, SessionsAside
  <2>. QED
    BY <1>1, <1>2, <2>1, <2>2, PassedKept DEF problemVars
<1>4. CASE SessionStep
  <2>1. SessionInv' /\ granted \subseteq granted'
    BY <1>4, LoginKeeps, SurroundingsKeep DEF SessionStep
  <2>2. UNCHANGED problemVars
    BY <1>4 DEF SessionStep
  <2>3. ProblemInv'
    BY <2>1, <2>2, SessionsAside
  <2>. QED
    BY <1>1, <2>1, <2>2, <2>3, PassedKept DEF problemVars
<1>5. ASSUME NEW r \in Creations, Create(r) PROVE ProblemsInv'
  <2>1. ProblemInv' /\ problems \subseteq problems' /\ UNCHANGED <<sessionVars, walk>>
    BY <1>5, CreateKeeps
  <2>. QED
    BY <1>1, <1>2, <2>1, PassedKept
<1>6. CASE BeginWalk \/ ListProblems
  BY <1>2, <1>6, WalkKeeps DEF BeginWalk, ListProblems
<1>7. CASE RestartServer
  <2>1. SessionInv'
    BY <1>7, SurroundingsKeep DEF RestartServer
  <2>2. ProblemInv' /\ UNCHANGED <<problems, walk>>
    BY <1>7, RestartKeeps
  <2>. QED
    BY <1>1, <2>1, <2>2, PassedKept
<1>. QED
  BY <1>3, <1>4, <1>5, <1>6, <1>7 DEF ProblemsNext

-----------------------------------------------------------------------------
(* The theorems. *)

\* The invariant holds of every behaviour.
THEOREM ProblemsInvariance == ProblemsSpec => []ProblemsInv
BY InitInv, NextInv, PTL DEF ProblemsSpec

\* Types; and of two problems, however their transactions overlap, fail or are
\* rolled back, no two get one id, and none an id ahead of the sequence.
THEOREM ProblemsTypeCorrect == ProblemsSpec => []ProblemsTypeOK
<1>1. ProblemsInv => ProblemsTypeOK
  BY DEF ProblemsInv, SessionInv, ProblemInv, Distinct, ProblemsTypeOK
<1>. QED
  BY <1>1, ProblemsInvariance, PTL

\* Whoever made a problem had logged in as that user with a role that allows
\* it, whatever happened to the session since.
THEOREM MadeBySetters == ProblemsSpec => []SetterOnly
<1>1. ProblemsInv => SetterOnly
  <2>. SUFFICES ASSUME ProblemsInv, NEW r \in Creations, req[r].id \in problems
                PROVE  MayCreate(req[r].auth) /\ req[r].auth \in granted
    BY DEF SetterOnly
  <2>1. req[r].id # 0
    BY IdsFinite DEF ProblemsInv, ProblemInv, ProblemTypes
  <2>2. req[r].at \notin {"new", "unauthorized"}
    BY <2>1 DEF ProblemsInv, ProblemInv, Counted
  <2>. QED
    BY <2>2 DEF ProblemsInv, ProblemInv, Admitted, MayCreate
<1>. QED
  BY <1>1, ProblemsInvariance, PTL

\* No problem is visible without its testcase.
THEOREM AlwaysJudgeable == ProblemsSpec => []ListedIsJudgeable
<1>1. ProblemsInv => ListedIsJudgeable
  BY DEF ProblemsInv, ProblemInv
<1>. QED
  BY <1>1, ProblemsInvariance, PTL

\* Paging through the list misses no problem that was there, for any number of
\* creations, any page size and any limits, changing from page to page.
THEOREM PagingMissesNone == ProblemsSpec => []PagingComplete
<1>1. ProblemsInv => PagingComplete
  BY DEF ProblemsInv, Passed, PagingComplete
<1>. QED
  BY <1>1, ProblemsInvariance, PTL
=============================================================================
