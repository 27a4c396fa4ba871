------------------------------ MODULE SubmitApi ------------------------------
(***************************************************************************)
(* How a submission gets into the system: submit_problem of the API        *)
(* (api/src/routes/submit.rs), one of its awaits per action, over the one  *)
(* AMQP connection the API opens when it starts.  A request is named by    *)
(* the submission it would create.                                         *)
(*                                                                         *)
(* The database and the runtime's queue are shared with module Worker;     *)
(* Judge composes the two.                                                 *)
(***************************************************************************)
EXTENDS Naturals

CONSTANTS
  Submissions,   \* the requests, by the submission they would create
  Admissible,    \* those with a session, a valid body and a known environment
  ApiFaults      \* which faults the environment may inject

ApiFaultKind ==
  { "conn",      \* the AMQP connection breaks
    "db",        \* the INSERT fails, or its reply is lost
    "crash" }    \* the API process is killed and started again

\* What Judge assumes of these constants.
ApiConstants ==
  Admissible \subseteq Submissions /\ ApiFaults \subseteq ApiFaultKind

VARIABLES
  pc,         \* pc[m]: the await the handler of request m stands at, or its answer
  conn,       \* is the API's AMQP connection open
  wire,       \* tasks published and not yet handled by the broker
  status,     \* submit_status.status, of Worker
  ready,      \* the runtime queue, of Worker
  declared    \* has a worker declared and bound the runtime queue, of Worker

\* The handler's awaits; then the answers: 200, 4xx, 500, and none at all.
InFlight == {"channel", "insert", "exchange", "publish"}
Answer == {"ok", "refused", "error", "gone"}

ApiTypeOK ==
  /\ pc \in [Submissions -> {"new"} \cup InFlight \cup Answer]
  /\ conn \in BOOLEAN
  /\ wire \subseteq Submissions

ApiInit ==
  /\ pc = [m \in Submissions |-> "new"]
  /\ conn = TRUE
  /\ wire = {}

Go(m, to) == pc' = [pc EXCEPT ![m] = to]

\* Validation, the session and the environment are checked before anything else.
Receive(m) ==
  /\ pc[m] = "new"
  /\ Go(m, IF m \in Admissible THEN "channel" ELSE "refused")
  /\ UNCHANGED <<conn, wire, status, ready>>

CreateChannel(m) ==
  /\ pc[m] = "channel" /\ conn
  /\ Go(m, "insert")
  /\ UNCHANGED <<conn, wire, status, ready>>

\* create_channel, exchange_declare and basic_publish fail on a broken
\* connection; the API never opens another one.
QueueFails(m) ==
  /\ pc[m] \in {"channel", "exchange", "publish"} /\ ~conn
  /\ Go(m, "error")
  /\ UNCHANGED <<conn, wire, status, ready>>

\* The INSERT commits by itself, with the default status.
Insert(m) ==
  /\ pc[m] = "insert"
  /\ status' = [status EXCEPT ![m] = "PENDING"]
  /\ Go(m, "exchange")
  /\ UNCHANGED <<conn, wire, ready>>

\* Mutant of InsertFails: the error is dropped and the handler goes on.
InsertErrorIgnored(m) ==
  /\ "db" \in ApiFaults
  /\ pc[m] = "insert"
  /\ Go(m, "exchange")
  /\ UNCHANGED <<conn, wire, status, ready>>

InsertFails(m) ==
  /\ "db" \in ApiFaults
  /\ pc[m] = "insert"
  /\ \/ UNCHANGED status
     \/ status' = [status EXCEPT ![m] = "PENDING"]
  /\ Go(m, "error")
  /\ UNCHANGED <<conn, wire, ready>>

DeclareExchange(m) ==
  /\ pc[m] = "exchange" /\ conn
  /\ Go(m, "publish")
  /\ UNCHANGED <<conn, wire, status, ready>>

\* Mutant of Publish: it is repeated without knowing what became of the first.
PublishRepeated(m) ==
  /\ pc[m] = "publish" /\ conn
  /\ wire' = wire \cup {m}
  /\ Go(m, "ok") \/ UNCHANGED pc
  /\ UNCHANGED <<conn, status, ready>>

\* basic_publish returns when the frame is written.  The channel is not in
\* confirm mode, so the answer does not wait for the broker.
Publish(m) ==
  /\ pc[m] = "publish" /\ conn
  /\ wire' = wire \cup {m}
  /\ Go(m, "ok")
  /\ UNCHANGED <<conn, status, ready>>

\* The broker drops a task it cannot route: `mandatory` is not set.
Enqueue(m) == ready' = IF declared THEN ready \cup {m} ELSE ready

Route(m) ==
  /\ m \in wire
  /\ wire' = wire \ {m}
  /\ Enqueue(m)
  /\ UNCHANGED <<pc, conn, status>>

\* The connection breaks while the frame is being written, and the broker has it.
PublishBreaks(m) ==
  /\ "conn" \in ApiFaults
  /\ pc[m] = "publish" /\ conn
  /\ conn' = FALSE
  /\ wire' = {}
  /\ Enqueue(m)
  /\ Go(m, "error")
  /\ UNCHANGED status

ConnLost ==
  /\ "conn" \in ApiFaults
  /\ conn
  /\ conn' = FALSE
  /\ wire' = {}
  /\ UNCHANGED <<pc, status, ready>>

\* The requests under way are never answered; the new process connects.
ApiRestart ==
  /\ "crash" \in ApiFaults
  /\ pc' = [m \in Submissions |-> IF pc[m] \in InFlight THEN "gone" ELSE pc[m]]
  /\ conn' = TRUE
  /\ wire' = {}
  /\ UNCHANGED <<status, ready>>

Handler(m) ==
  \/ Receive(m)
  \/ CreateChannel(m)
  \/ QueueFails(m)
  \/ Insert(m)
  \/ InsertFails(m)
  \/ DeclareExchange(m)
  \/ Publish(m)
  \/ PublishBreaks(m)

ApiNext ==
  \/ \E m \in Submissions : Handler(m) \/ Route(m)
  \/ ConnLost
  \/ ApiRestart
=============================================================================
