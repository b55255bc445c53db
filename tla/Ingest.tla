------------------------------- MODULE Ingest -------------------------------
(***************************************************************************)
(* The API in front of the pool: clients that submit work, the handler     *)
(* that takes it, and the operator who registers circuits. A handler reads *)
(* the queue's depth, the circuit, the circuit again inside enqueue, and   *)
(* then inserts: four calls to the database, in four steps, with other     *)
(* requests, the operator and the workers in between.                      *)
(*                                                                         *)
(* What a request asks for is left to the constants: the job it hashes to, *)
(* the circuit it names and the schemas it conforms to. Requests computes  *)
(* them.                                                                   *)
(***************************************************************************)
EXTENDS WorkerPool, FiniteSets

CONSTANTS
  Client,         \* whoever submits, one request at a time
  Request,        \* what may be asked for
  NoRequest,      \* a client with nothing in hand and nothing accepted
  Circuit,        \* circuit ids, registered or not
  Schema,         \* input schemas a circuit may be registered with
  CircuitOf,      \* the circuit each request names
  JobOf,          \* the job each request hashes to
  Conforming,     \* the requests each schema and the limits let through
  Unregistered,   \* a circuit with no row
  InitialCircuits,\* tables of circuits to start from
  MaxQueueDepth,  \* max_queue_depth
  Upserts         \* bound on the operator's changes

Rows == [enabled : BOOLEAN, schema : Schema]

ASSUME IngestAssumption ==
  /\ IsFiniteSet(Client) /\ Client # {}
  /\ IsFiniteSet(Job)
  /\ NoRequest \notin Request
  /\ CircuitOf \in [Request -> Circuit]
  /\ JobOf \in [Request -> Job]
  /\ Conforming \in [Schema -> SUBSET Request]
  /\ Unregistered \notin Rows
  /\ InitialCircuits \subseteq [Circuit -> Rows \cup {Unregistered}]
  /\ MaxQueueDepth \in Nat \ {0}
  /\ Upserts \in Nat

VARIABLES
  circuits,  \* the circuits table
  upserts,   \* the operator's changes so far
  at,        \* the call each client's request has come to
  request,   \* the request each client makes, or was last accepted
  answer,    \* what it was told
  welcome    \* history: its circuit was enabled and its inputs conformed at
             \* some moment since the request was made

requests == <<at, request, answer, welcome>>
api == <<circuits, upserts, requests>>
ingest == <<vars, api>>

Accepted == {"created", "duplicate"}

Refusals == {"overloaded", "unknown_circuit", "circuit_disabled",
             "invalid_request", "internal_error"}

IngestTypeOK ==
  /\ PoolTypeOK
  /\ circuits \in [Circuit -> Rows \cup {Unregistered}]
  /\ upserts \in 0..Upserts
  /\ at \in [Client -> {"idle", "looking", "enqueuing", "inserting", "reading"}]
  /\ request \in [Client -> Request \cup {NoRequest}]
  /\ \A cl \in Client :
       request[cl] # NoRequest <=> at[cl] # "idle" \/ answer[cl] \in Accepted
  /\ answer \in [Client -> {"none"} \cup Accepted \cup Refusals]
  /\ welcome \in [Client -> BOOLEAN]

IngestInit ==
  /\ PoolInit
  /\ circuits \in InitialCircuits
  /\ upserts = 0
  /\ at = [cl \in Client |-> "idle"]
  /\ request = [cl \in Client |-> NoRequest]
  /\ answer = [cl \in Client |-> "none"]
  /\ welcome = [cl \in Client |-> FALSE]
-----------------------------------------------------------------------------
(* What the handler asks of the tables. *)

\* Slip: the flag is not among the columns read.
IsRegistered(row) == row # Unregistered

IsOpen(row) == row # Unregistered /\ row.enabled

Welcomes(table, r) ==
  LET row == table[CircuitOf[r]]
  IN row # Unregistered /\ row.enabled /\ r \in Conforming[row.schema]

\* queue_depth: jobs between attempts count too, waiting for a retry or not.
QueueDepth == Cardinality({j \in Job : state[j] = "queued"})

\* Slip: one more than the limit.
IsAboveLimit == QueueDepth > MaxQueueDepth

IsFull == QueueDepth >= MaxQueueDepth

\* What submit makes of the circuit it read.
Verdict(r) ==
  LET row == circuits[CircuitOf[r]]
  IN CASE row = Unregistered -> "unknown_circuit"
       [] ~IsOpen(row) -> "circuit_disabled"
       [] r \notin Conforming[row.schema] -> "invalid_request"
       [] OTHER -> "welcome"

\* Slip: any row nobody has started on is taken for one's own.
IsUnstarted(j) == state[j] \in {"absent", "queued"}

\* INSERT ... ON CONFLICT DO NOTHING RETURNING returned a row.
IsNew(j) == state[j] = "absent"
-----------------------------------------------------------------------------
(* One request. *)

GoesTo(cl, step) ==
  /\ at' = [at EXCEPT ![cl] = step]
  /\ UNCHANGED <<circuits, upserts, request, answer, welcome>>

\* Slip: an answer that keeps what it refused.
IsToldAndHeld(cl, what) ==
  /\ at' = [at EXCEPT ![cl] = "idle"]
  /\ answer' = [answer EXCEPT ![cl] = what]
  /\ welcome' = [welcome EXCEPT ![cl] = FALSE]
  /\ UNCHANGED <<circuits, upserts, request>>

\* The request is over; only what was accepted is kept.
IsTold(cl, what) ==
  /\ at' = [at EXCEPT ![cl] = "idle"]
  /\ answer' = [answer EXCEPT ![cl] = what]
  /\ request' = [request EXCEPT ![cl] = IF what \in Accepted THEN @ ELSE NoRequest]
  /\ welcome' = [welcome EXCEPT ![cl] = FALSE]
  /\ UNCHANGED <<circuits, upserts>>

\* submit, up to its first answer: backpressure comes before anything else.
Ask(cl, r) ==
  /\ at[cl] = "idle"
  /\ \/ IsFull /\ IsTold(cl, "overloaded")
     \/ /\ ~IsFull
        /\ at' = [at EXCEPT ![cl] = "looking"]
        /\ request' = [request EXCEPT ![cl] = r]
        /\ answer' = [answer EXCEPT ![cl] = "none"]
        /\ welcome' = [welcome EXCEPT ![cl] = Welcomes(circuits, r)]
        /\ UNCHANGED <<circuits, upserts>>
  /\ UNCHANGED vars

\* submit, the circuit and the checks against it.
LookUp(cl) ==
  /\ at[cl] = "looking"
  /\ LET verdict == Verdict(request[cl])
     IN IF verdict = "welcome" THEN GoesTo(cl, "enqueuing") ELSE IsTold(cl, verdict)
  /\ UNCHANGED vars

\* enqueue reads the circuit for itself. What it refuses is an error of the
\* store, which the handler reports as its own.
LookUpAgain(cl) ==
  /\ at[cl] = "enqueuing"
  /\ IF IsOpen(circuits[CircuitOf[request[cl]]])
       THEN GoesTo(cl, "inserting") ELSE IsTold(cl, "internal_error")
  /\ UNCHANGED vars

\* enqueue, the insert.
Insert(cl) ==
  /\ at[cl] = "inserting"
  /\ Submit(JobOf[request[cl]])
  /\ IF IsNew(JobOf[request[cl]]) THEN IsTold(cl, "created") ELSE GoesTo(cl, "reading")

\* enqueue, the row that was there already.
ReadBack(cl) ==
  /\ at[cl] = "reading"
  /\ IsTold(cl, "duplicate")
  /\ UNCHANGED vars

\* The call fails, or the client goes away and the handler with it. The
\* insert may have been committed all the same.
BreaksOff(cl) ==
  /\ at[cl] # "idle"
  /\ IsTold(cl, "internal_error") \/ IsTold(cl, "none")
  /\ \/ UNCHANGED vars
     \/ at[cl] = "inserting" /\ Submit(JobOf[request[cl]])

Handle(cl) ==
  \/ \E r \in Request : Ask(cl, r)
  \/ LookUp(cl) \/ LookUpAgain(cl) \/ Insert(cl) \/ ReadBack(cl) \/ BreaksOff(cl)

\* upsert_circuit: a row is added or overwritten, never removed. Requests in
\* hand may come to be welcome by it.
UpsertCircuit(c, row) ==
  /\ upserts < Upserts
  /\ circuits[c] # row
  /\ circuits' = [circuits EXCEPT ![c] = row]
  /\ upserts' = upserts + 1
  /\ welcome' = [cl \in Client |->
       welcome[cl] \/ (at[cl] # "idle" /\ Welcomes(circuits', request[cl]))]
  /\ UNCHANGED <<vars, at, request, answer>>

IngestNext ==
  \/ ProcessesNext /\ UNCHANGED api
  \/ \E cl \in Client : Handle(cl)
  \/ \E c \in Circuit, row \in Rows : UpsertCircuit(c, row)

IngestSpec == IngestInit /\ [][IngestNext]_ingest
-----------------------------------------------------------------------------
(* Properties. *)

\* Accepted and not yet leased by anybody.
Fresh == {j \in Job : state[j] = "queued" /\ attempts[j] = 0}

\* The depth is read three calls before the insert, so a full queue still
\* grows; but by no more than the requests that were under way: new work
\* never exceeds the limit by as many as there are requests at a time.
OvershootIsBounded ==
  Cardinality(Fresh) <= MaxQueueDepth - 1 + Cardinality(Client)

\* However requests for the same work race, are cut off and are retried, at
\* most one is told that it created the job, and whoever was told that the
\* work is accepted, as new or as a duplicate, can find the job.
OneCreator ==
  /\ \A cl \in Client : answer[cl] \in Accepted =>
       state[JobOf[request[cl]]] # "absent"
  /\ \A c1, c2 \in Client :
       /\ answer[c1] = "created" /\ answer[c2] = "created"
       /\ JobOf[request[c1]] = JobOf[request[c2]]
       => c1 = c2

\* A job comes into being only for a request that was welcome at some moment
\* while it was handled: a circuit that was closed to it all along, or a
\* schema that was never met, lets nothing through, however the operator's
\* changes fall between the handler's two reads.
NothingUnwelcomeIsTaken ==
  [][\A j \in Job : state[j] = "absent" /\ state'[j] # "absent" =>
       \E cl \in Client : /\ at[cl] = "inserting" /\ welcome[cl]
                          /\ JobOf[request[cl]] = j]_ingest
=============================================================================
