----------------------------- MODULE IngestProofs -----------------------------
(* Theorems about the API, for any number of clients, requests, circuits   *)
(* and jobs, any limit on the queue, and any pool behind it.               *)
EXTENDS Ingest, WorkerPoolProofs, FiniteSetTheorems

-----------------------------------------------------------------------------
(* The API calls the pool's Submit and does nothing else to it. *)

\* What is true of the handlers' own state, and of the history.
HandlersOK ==
  /\ circuits \in [Circuit -> Rows \cup {Unregistered}]
  /\ upserts \in 0..Upserts
  /\ at \in [Client -> {"idle", "looking", "enqueuing", "inserting", "reading"}]
  /\ request \in [Client -> Request \cup {NoRequest}]
  /\ \A cl \in Client :
       request[cl] # NoRequest <=> at[cl] # "idle" \/ answer[cl] \in Accepted
  /\ answer \in [Client -> {"none"} \cup Accepted \cup Refusals]
  /\ welcome \in [Client -> BOOLEAN]
  /\ \A cl \in Client : at[cl] \in {"enqueuing", "inserting"} => welcome[cl]
  /\ \A cl \in Client :
       at[cl] = "looking" /\ Welcomes(circuits, request[cl]) => welcome[cl]

LEMMA Jobs ==
  ASSUME HandlersOK, NEW cl \in Client, at[cl] # "idle" \/ answer[cl] \in Accepted
  PROVE  request[cl] \in Request /\ JobOf[request[cl]] \in Job
BY IngestAssumption DEF HandlersOK

LEMMA Verdicts ==
  ASSUME NEW r
  PROVE  /\ Verdict(r) \in Refusals \cup {"welcome"}
         /\ Verdict(r) = "welcome" => Welcomes(circuits, r)
BY DEF Verdict, Welcomes, IsOpen, Refusals

LEMMA HandlersStep ==
  ASSUME HandlersOK, [IngestNext]_ingest
  PROVE  HandlersOK'
<1> USE IngestAssumption DEF HandlersOK
<1>1. ASSUME NEW cl \in Client, NEW what \in {"none"} \cup Accepted \cup Refusals,
             at[cl] # "idle" \/ what \notin Accepted, IsTold(cl, what)
      PROVE  HandlersOK'
  BY <1>1 DEF IsTold
<1>2. ASSUME NEW cl \in Client, at[cl] # "idle",
             GoesTo(cl, "reading") \/ (GoesTo(cl, "inserting") /\ at[cl] = "enqueuing")
      PROVE  HandlersOK'
  BY <1>2 DEF GoesTo
<1>3. ASSUME NEW cl \in Client, NEW r \in Request, Ask(cl, r) PROVE HandlersOK'
  <2>1. CASE IsTold(cl, "overloaded")
    BY <2>1, <1>1 DEF Accepted, Refusals
  <2>2. CASE ~IsTold(cl, "overloaded")
    <3>1. Welcomes(circuits, r) \in BOOLEAN
      BY DEF Welcomes, Rows
    <3>2. QED
      BY <1>3, <2>2, <3>1 DEF Ask
  <2>3. QED  BY <2>1, <2>2
<1>4. ASSUME NEW cl \in Client, LookUp(cl) PROVE HandlersOK'
  <2>1. CASE Verdict(request[cl]) = "welcome"
    <3>1. welcome[cl]
      BY <1>4, <2>1, Verdicts DEF LookUp
    <3>2. QED
      BY <1>4, <2>1, <3>1 DEF LookUp, GoesTo
  <2>2. CASE Verdict(request[cl]) \in Refusals
    BY <1>1, <1>4, <2>2 DEF LookUp, Accepted, Refusals
  <2>3. QED
    BY <2>1, <2>2, Verdicts
<1>5. ASSUME NEW cl \in Client, LookUpAgain(cl) PROVE HandlersOK'
  BY <1>5, <1>1, <1>2 DEF LookUpAgain, Accepted, Refusals
<1>6. ASSUME NEW cl \in Client, Insert(cl) PROVE HandlersOK'
  BY <1>6, <1>1, <1>2 DEF Insert, Accepted, Refusals
<1>7. ASSUME NEW cl \in Client, ReadBack(cl) \/ BreaksOff(cl) PROVE HandlersOK'
  BY <1>7, <1>1 DEF ReadBack, BreaksOff, Accepted, Refusals
<1>8. ASSUME NEW c \in Circuit, NEW row \in Rows, UpsertCircuit(c, row)
      PROVE  HandlersOK'
  <2>1. circuits' \in [Circuit -> Rows \cup {Unregistered}] /\ upserts' \in 0..Upserts
    BY <1>8 DEF UpsertCircuit
  <2>2. UNCHANGED <<at, request, answer>>
    BY <1>8 DEF UpsertCircuit
  <2>3. welcome' \in [Client -> BOOLEAN]
    BY <1>8 DEF UpsertCircuit
  <2>4. ASSUME NEW cl \in Client
        PROVE  welcome'[cl] = (welcome[cl] \/ (at[cl] # "idle" /\ Welcomes(circuits', request[cl])))
    BY <1>8 DEF UpsertCircuit
  <2>5. ASSUME NEW cl \in Client, at'[cl] = "looking", Welcomes(circuits', request'[cl])
        PROVE  welcome'[cl]
    BY <2>2, <2>4, <2>5
  <2>6. ASSUME NEW cl \in Client, at'[cl] \in {"enqueuing", "inserting"}
        PROVE  welcome'[cl]
    BY <2>2, <2>4, <2>6
  <2>7. QED
    BY <2>1, <2>2, <2>3, <2>5, <2>6
<1>9. CASE UNCHANGED api
  BY <1>9 DEF api, requests
<1>10. QED
  BY <1>3, <1>4, <1>5, <1>6, <1>7, <1>8, <1>9 DEF IngestNext, Handle, ingest

\* What one step of the API is to the pool.
LEMMA ApiStep ==
  ASSUME HandlersOK, [IngestNext]_ingest
  PROVE  \/ ProcessesNext /\ UNCHANGED api
         \/ UNCHANGED vars
         \/ \E cl \in Client : /\ at[cl] = "inserting"
                               /\ Submit(JobOf[request[cl]])
                               /\ Insert(cl) \/ BreaksOff(cl)
BY DEF IngestNext, Handle, Ask, LookUp, LookUpAgain, Insert, ReadBack, BreaksOff,
   UpsertCircuit, ingest

LEMMA IngestPoolStep ==
  ASSUME HandlersOK, [IngestNext]_ingest
  PROVE  [PoolNext]_vars
<1>1. ASSUME NEW cl \in Client, at[cl] = "inserting", Submit(JobOf[request[cl]])
      PROVE  PoolNext
  BY <1>1, Jobs DEF PoolNext
<1>2. QED
  BY <1>1, ApiStep DEF PoolNext

LEMMA HandlersInductive == IngestSpec => []HandlersOK
<1>1. IngestInit => HandlersOK
  BY IngestAssumption DEF IngestInit, HandlersOK, Accepted
<1>2. HandlersOK /\ [IngestNext]_ingest => HandlersOK'
  BY HandlersStep
<1>3. QED
  BY <1>1, <1>2, PTL DEF IngestSpec

\* Clients submit through the handler and in no other way, and the pool behind
\* it is the pool that WorkerPoolProofs is about: what is proved there of
\* every submitter holds of the API's.
THEOREM IngestImplementsPool == IngestSpec => PoolSpec
<1>1. IngestInit => PoolInit
  BY DEF IngestInit
<1>2. HandlersOK /\ [IngestNext]_ingest => [PoolNext]_vars
  BY IngestPoolStep
<1>3. QED
  BY <1>1, <1>2, HandlersInductive, PTL DEF IngestSpec, PoolSpec

\* Handlers, answers and the operator's tables stay of their types, and a
\* request is kept exactly while it is handled or was accepted.
THEOREM IngestTypeCorrect == IngestSpec => []IngestTypeOK
<1>1. HandlersOK /\ PoolTypeOK => IngestTypeOK
  BY DEF HandlersOK, IngestTypeOK
<1>2. QED
  BY <1>1, HandlersInductive, IngestImplementsPool, PoolTypeCorrect, PTL
-----------------------------------------------------------------------------
(* What the service does to the rows it is given. *)

LEMMA ServiceEvents ==
  ASSUME NEW s, NEW e, e # "leased", CanTransition(s, e)
  PROVE  /\ s # "absent"
         /\ Transition(s, e) \notin {"absent", "leased"}
         /\ Transition(s, e) = "proving" => s = "leased"
         /\ Transition(s, e) = "queued" => s \in {"queued", "leased", "proving"}
BY DEF CanTransition, Transition, AfterRetry

\* A row moves by a lease, which counts an attempt, or by an event that
\* counts none.
RowMoves(j) ==
  \/ state'[j] = state[j] /\ attempts'[j] = attempts[j]
  \/ state[j] = "queued" /\ state'[j] = "leased" /\ attempts'[j] = attempts[j] + 1
  \/ /\ attempts'[j] = attempts[j]
     /\ state[j] # "absent"
     /\ state'[j] \notin {"absent", "leased"}
     /\ state'[j] = "proving" => state[j] = "leased"
     /\ state'[j] = "queued" => state[j] \in {"queued", "leased", "proving"}

LEMMA EventMovesRow ==
  ASSUME TypeOK, NEW i \in Job, NEW e, e # "leased", CanTransition(state[i], e),
         MoveTo(i, Transition(state[i], e)), UNCHANGED attempts, NEW j \in Job
  PROVE  RowMoves(j)
BY ServiceEvents DEF TypeOK, MoveTo, RowMoves

LEMMA ServiceMovesRows ==
  ASSUME TypeOK, [ServiceNext]_columns, NEW j \in Job
  PROVE  RowMoves(j)
<1>1. ASSUME NEW i \in Job, NEW e, e # "leased", ApplyEvent(i, e) PROVE RowMoves(j)
  BY <1>1, EventMovesRow DEF ApplyEvent
<1>2. ASSUME NEW i \in Job,
             \/ BeginProving(i) \/ ReleaseLease(i) \/ ConfirmSettled(i) \/ UnwindSettled(i)
      PROVE  RowMoves(j)
  BY <1>1, <1>2 DEF BeginProving, ReleaseLease, ConfirmSettled, UnwindSettled
<1>3. ASSUME NEW i \in Job, NEW kind \in FailureKinds,
             RecordFailure(i, kind) \/ RecordSubmissionFailure(i, kind)
      PROVE  RowMoves(j)
  BY <1>3, EventMovesRow DEF RecordFailure, RecordSubmissionFailure, ClassifyFailure
<1>4. ASSUME NEW i \in Job, NEW a \in Actor, LeaseNext(i, a) PROVE RowMoves(j)
  BY <1>4 DEF LeaseNext, Waiting, MoveTo, Transition, TypeOK, RowMoves
<1>5. ASSUME NEW i \in Job, NEW a \in Actor, RecordProof(i, a) PROVE RowMoves(j)
  BY <1>5, EventMovesRow DEF RecordProof
<1>6. ASSUME NEW i \in Job, NEW a \in Actor, LeaseNextProved(i, a) PROVE RowMoves(j)
  BY <1>6 DEF LeaseNextProved, Waiting, MoveTo, Transition, TypeOK, RowMoves
<1>7. ASSUME UNCHANGED <<state, attempts>> PROVE RowMoves(j)
  BY <1>7 DEF RowMoves
<1>8. ASSUME NEW rows \in SUBSET Job, ReapExpired(rows) PROVE RowMoves(j)
  <2>1. CASE j \in rows
    <3>1. state[j] \in {"leased", "proving", "submitting"}
      BY <1>8, <2>1 DEF ReapExpired, Expired, IsInFlight
    <3>2. /\ ReapEvent(j) # "leased"
          /\ CanTransition(state[j], ReapEvent(j))
      BY <3>1 DEF ReapEvent, ClassifyFailure, CanTransition, Transition, AfterRetry
    <3>3. state'[j] = Transition(state[j], ReapEvent(j)) /\ attempts' = attempts
      BY <1>8, <2>1 DEF ReapExpired
    <3>4. QED
      BY <3>2, <3>3, ServiceEvents DEF RowMoves
  <2>2. CASE j \notin rows
    BY <1>8, <2>2 DEF ReapExpired, RowMoves
  <2>3. QED  BY <2>1, <2>2
<1>9. QED
  BY <1>2, <1>3, <1>4, <1>5, <1>6, <1>7, <1>8 DEF ServiceNext, RenewLease, LeaseRunsOut,
     RetryComesDue, columns

\* A job that is being proved has been leased.
Counted == \A j \in Job : state[j] \in {"leased", "proving"} => attempts[j] # 0

\* So the service finishes or retries what it was given, and starts nothing.
LEMMA ServiceStartsNothing ==
  ASSUME TypeOK, Counted, [ServiceNext]_columns
  PROVE  /\ Counted'
         /\ Fresh' \subseteq Fresh
         /\ \A j \in Job : state'[j] = "absent" <=> state[j] = "absent"
<1>1. \A j \in Job : RowMoves(j) /\ attempts[j] \in Nat
  BY ServiceMovesRows DEF TypeOK
<1>2. QED
  BY <1>1 DEF RowMoves, Counted, Fresh

LEMMA SubmitStarts ==
  ASSUME TypeOK, Counted, NEW j \in Job, Submit(j)
  PROVE  /\ Counted'
         /\ Fresh' \subseteq Fresh \cup {j}
         /\ state'[j] # "absent"
         /\ \A i \in Job : i # j => state'[i] = state[i]
         /\ state[j] # "absent" => state'[j] = state[j]
BY DEF Submit, Enqueue, MoveTo, Counted, Fresh, TypeOK

\* How one step of the API moves the rows.
ApiMovesRows(cl) ==
  /\ at[cl] = "inserting"
  /\ Submit(JobOf[request[cl]])
  /\ Insert(cl) \/ BreaksOff(cl)

LEMMA IngestRows ==
  ASSUME TypeOK, ProcessesOK, Counted, HandlersOK, [IngestNext]_ingest
  PROVE  /\ Counted'
         /\ \/ /\ ~ \E cl \in Client : ApiMovesRows(cl)
               /\ Fresh' \subseteq Fresh
               /\ \A j \in Job : state'[j] = "absent" <=> state[j] = "absent"
               /\ UNCHANGED vars \/ UNCHANGED api
            \/ \E cl \in Client : ApiMovesRows(cl)
<1>1. CASE \E cl \in Client : ApiMovesRows(cl)
  BY <1>1, Jobs, SubmitStarts DEF ApiMovesRows
<1>2. CASE UNCHANGED vars
  BY <1>1, <1>2 DEF vars, columns, Counted, Fresh
<1>3. CASE ProcessesNext /\ UNCHANGED api
  BY <1>1, <1>3, ServiceStep, ServiceStartsNothing
<1>4. QED
  BY <1>1, <1>2, <1>3, ApiStep DEF ApiMovesRows

LEMMA CountedInductive == IngestSpec => [](TypeOK /\ ProcessesOK /\ HandlersOK /\ Counted)
<1>1. IngestInit => Counted
  BY DEF IngestInit, PoolInit, Init, Counted
<1>2. (TypeOK /\ ProcessesOK /\ HandlersOK) /\ Counted /\ [IngestNext]_ingest => Counted'
  BY IngestRows
<1>3. QED
  BY <1>1, <1>2, HandlersInductive, IngestImplementsPool, ProcessesInductive, PTL DEF IngestSpec

-----------------------------------------------------------------------------
(* Only what was welcome is taken. *)

\* Between the handler's reads, the operator may close the circuit or change
\* its schema; what was welcome when it was first read may still be taken,
\* and nothing else.
THEOREM OnlyTheWelcomeIsTaken == IngestSpec => NothingUnwelcomeIsTaken
<1>1. (TypeOK /\ ProcessesOK /\ HandlersOK /\ Counted) /\ [IngestNext]_ingest
        => [\A j \in Job : state[j] = "absent" /\ state'[j] # "absent" =>
              \E cl \in Client : /\ at[cl] = "inserting" /\ welcome[cl]
                                 /\ JobOf[request[cl]] = j]_ingest
  <2> SUFFICES ASSUME TypeOK, ProcessesOK, HandlersOK, Counted, [IngestNext]_ingest,
                      NEW j \in Job, state[j] = "absent", state'[j] # "absent"
               PROVE  \E cl \in Client : /\ at[cl] = "inserting" /\ welcome[cl]
                                         /\ JobOf[request[cl]] = j
    OBVIOUS
  <2>1. PICK cl \in Client : ApiMovesRows(cl)
    BY IngestRows
  <2>2. JobOf[request[cl]] = j
    BY <2>1, Jobs, SubmitStarts DEF ApiMovesRows
  <2>3. welcome[cl]
    BY <2>1 DEF ApiMovesRows, HandlersOK
  <2>4. QED
    BY <2>1, <2>2, <2>3 DEF ApiMovesRows
<1>2. QED
  BY <1>1, CountedInductive, PTL DEF IngestSpec, NothingUnwelcomeIsTaken
-----------------------------------------------------------------------------
(* At most one creator. *)

\* A handler that reads back, and a client that was accepted, have a row.
Found ==
  \A cl \in Client : at[cl] = "reading" \/ answer[cl] \in Accepted =>
    state[JobOf[request[cl]]] # "absent"

\* A client's last answer is that it created the job.
Creates(cl) == answer[cl] = "created"

Unique ==
  \A c1, c2 \in Client :
    Creates(c1) /\ Creates(c2) /\ JobOf[request[c1]] = JobOf[request[c2]] => c1 = c2

\* What a client holds after a step: what it held before, or less, unless the
\* step is its own insert or read.
LEMMA AnswersStep ==
  ASSUME HandlersOK, [IngestNext]_ingest, NEW cl \in Client
  PROVE  \/ /\ at'[cl] = "reading" => at[cl] = "reading"
            /\ answer'[cl] \in Accepted => answer'[cl] = answer[cl]
            /\ at'[cl] = "reading" \/ answer'[cl] \in Accepted => request'[cl] = request[cl]
         \/ /\ ReadBack(cl) /\ at[cl] = "reading" /\ request'[cl] = request[cl]
            /\ answer'[cl] = "duplicate" /\ at'[cl] = "idle"
         \/ /\ at[cl] = "inserting" /\ request'[cl] = request[cl]
            /\ Insert(cl)
            /\ \/ IsNew(JobOf[request[cl]]) /\ answer'[cl] = "created" /\ at'[cl] = "idle"
               \/ ~IsNew(JobOf[request[cl]]) /\ answer'[cl] = answer[cl] /\ at'[cl] = "reading"
<1> USE DEF HandlersOK
<1>1. ASSUME NEW c \in Client, NEW what, IsTold(c, what), what \notin Accepted
      PROVE  /\ at'[cl] = "reading" => at[cl] = "reading"
             /\ answer'[cl] \in Accepted => answer'[cl] = answer[cl]
             /\ at'[cl] = "reading" \/ answer'[cl] \in Accepted => request'[cl] = request[cl]
  BY <1>1 DEF IsTold
<1>2. ASSUME NEW c \in Client, NEW step, GoesTo(c, step), step # "reading" \/ c # cl
      PROVE  /\ at'[cl] = "reading" => at[cl] = "reading"
             /\ answer' = answer /\ request' = request
  BY <1>2 DEF GoesTo
<1>3. ASSUME NEW c \in Client, NEW r \in Request, Ask(c, r) PROVE
             /\ at'[cl] = "reading" => at[cl] = "reading"
             /\ answer'[cl] \in Accepted => answer'[cl] = answer[cl]
             /\ at'[cl] = "reading" \/ answer'[cl] \in Accepted => request'[cl] = request[cl]
  BY <1>1, <1>3 DEF Ask, Accepted
<1>4. ASSUME NEW c \in Client, LookUp(c) \/ LookUpAgain(c) \/ BreaksOff(c) PROVE
             /\ at'[cl] = "reading" => at[cl] = "reading"
             /\ answer'[cl] \in Accepted => answer'[cl] = answer[cl]
             /\ at'[cl] = "reading" \/ answer'[cl] \in Accepted => request'[cl] = request[cl]
  BY <1>1, <1>2, <1>4, Verdicts DEF LookUp, LookUpAgain, BreaksOff, Accepted, Refusals
<1>5. ASSUME NEW c \in Client, c # cl, Insert(c) \/ ReadBack(c)
      PROVE  at'[cl] = at[cl] /\ answer'[cl] = answer[cl] /\ request'[cl] = request[cl]
  BY <1>5 DEF Insert, ReadBack, IsTold, GoesTo
<1>6. CASE Insert(cl)
  BY <1>6 DEF Insert, IsTold, GoesTo, Accepted
<1>7. CASE ReadBack(cl)
  BY <1>7 DEF ReadBack, IsTold, Accepted
<1>8. ASSUME UNCHANGED <<at, request, answer>>
      PROVE  at'[cl] = at[cl] /\ answer'[cl] = answer[cl] /\ request'[cl] = request[cl]
  BY <1>8
<1>9. QED
  BY <1>3, <1>4, <1>5, <1>6, <1>7, <1>8 DEF IngestNext, Handle, UpsertCircuit, api, requests, ingest

LEMMA FoundStep ==
  ASSUME TypeOK, ProcessesOK, Counted, HandlersOK, Found, [IngestNext]_ingest
  PROVE  Found'
<1>1. \A j \in Job : state[j] # "absent" => state'[j] # "absent"
  BY IngestRows, SubmitStarts, Jobs DEF ApiMovesRows
<1> SUFFICES ASSUME NEW cl \in Client, at'[cl] = "reading" \/ answer'[cl] \in Accepted
             PROVE  state'[JobOf[request'[cl]]] # "absent"
  BY DEF Found
<1>2. CASE (at[cl] = "reading" \/ answer[cl] \in Accepted) /\ request'[cl] = request[cl]
  BY <1>1, <1>2, Jobs DEF Found
<1>3. CASE at[cl] = "inserting" /\ request'[cl] = request[cl] /\ Insert(cl)
  BY <1>3, Jobs, SubmitStarts DEF Insert
<1>4. QED
  BY <1>2, <1>3, AnswersStep DEF Accepted

LEMMA UniqueStep ==
  ASSUME HandlersOK, Found, Unique, [IngestNext]_ingest
  PROVE  Unique'
<1> SUFFICES ASSUME NEW c1 \in Client, NEW c2 \in Client, Creates(c1)', Creates(c2)',
                    JobOf[request'[c1]] = JobOf[request'[c2]]
             PROVE  c1 = c2
  BY DEF Unique, Creates
<1>1. ASSUME NEW cl \in Client, Creates(cl)'
      PROVE  /\ request'[cl] = request[cl]
             /\ \/ Creates(cl)
                \/ Insert(cl) /\ state[JobOf[request[cl]]] = "absent"
  BY <1>1, AnswersStep DEF Creates, Accepted, IsNew
<1>2. ASSUME NEW cl \in Client, Creates(cl) PROVE state[JobOf[request[cl]]] # "absent"
  BY <1>2 DEF Creates, Found, Accepted
<1>3. CASE Creates(c1) /\ Creates(c2)
  BY <1>1, <1>3 DEF Unique
<1>4. CASE Insert(c1) /\ Insert(c2)
  <2> SUFFICES ASSUME c1 # c2 PROVE FALSE
    OBVIOUS
  <2>1. at[c1] = "inserting" /\ at'[c1] # "inserting"
    BY <1>4 DEF Insert, IsTold, GoesTo, HandlersOK
  <2>2. at'[c1] = at[c1]
    BY <1>4 DEF Insert, IsTold, GoesTo, HandlersOK
  <2>3. QED  BY <2>1, <2>2
<1>5. QED
  BY <1>1, <1>2, <1>3, <1>4

\* However requests race, are cut off and repeated, one client at most is told
\* that it created a job, and whoever was accepted can find its job.
THEOREM CreatorIsUnique == IngestSpec => []OneCreator
<1> DEFINE Inv == TypeOK /\ ProcessesOK /\ HandlersOK /\ Counted
<1>1. IngestInit => Found /\ Unique
  BY DEF IngestInit, Found, Unique, Creates, Accepted
<1>2. Inv /\ (Found /\ Unique) /\ [IngestNext]_ingest => (Found /\ Unique)'
  BY FoundStep, UniqueStep
<1>3. Found /\ Unique => OneCreator
  BY DEF Found, Unique, Creates, OneCreator
<1>4. QED
  BY <1>1, <1>2, <1>3, CountedInductive, PTL DEF IngestSpec
-----------------------------------------------------------------------------
(* The queue is overrun by no more than what was under way. *)

\* Requests that have seen room in the queue and may still insert.
Underway == {cl \in Client : at[cl] \in {"looking", "enqueuing", "inserting"}}

\* Each of them may have counted on the same place.
RoomIsPromised ==
  Cardinality(Fresh) + Cardinality(Underway) <= MaxQueueDepth - 1 + Cardinality(Client)

LEMMA Sizes ==
  /\ IsFiniteSet(Fresh) /\ Cardinality(Fresh) \in Nat
  /\ IsFiniteSet(Underway) /\ Cardinality(Underway) \in Nat
  /\ Cardinality(Client) \in Nat /\ Cardinality(Client) >= 1
  /\ Cardinality(Underway) <= Cardinality(Client)
<1>1. Fresh \subseteq Job /\ Underway \subseteq Client
  BY DEF Fresh, Underway
<1>2. Cardinality(Client) # 0
  BY IngestAssumption, FS_EmptySet
<1>3. QED
  BY <1>1, <1>2, IngestAssumption, FS_Subset, FS_CardinalityType

\* A client joins those under way only when it asks and finds room.
LEMMA UnderwayStep ==
  ASSUME HandlersOK, [IngestNext]_ingest
  PROVE  \/ Underway' \subseteq Underway
         \/ ~IsFull /\ UNCHANGED vars
<1>1. ASSUME NEW cl \in Client, NEW what, IsTold(cl, what) PROVE Underway' \subseteq Underway
  BY <1>1 DEF IsTold, HandlersOK, Underway
<1>2. ASSUME NEW cl \in Client, NEW step, GoesTo(cl, step),
             cl \in Underway \/ step = "reading"
      PROVE  Underway' \subseteq Underway
  BY <1>2 DEF GoesTo, HandlersOK, Underway
<1>3. ASSUME NEW cl \in Client, NEW r \in Request, Ask(cl, r)
      PROVE  Underway' \subseteq Underway \/ (~IsFull /\ UNCHANGED vars)
  BY <1>1, <1>3 DEF Ask
<1>4. ASSUME NEW cl \in Client,
             LookUp(cl) \/ LookUpAgain(cl) \/ Insert(cl) \/ ReadBack(cl) \/ BreaksOff(cl)
      PROVE  Underway' \subseteq Underway
  BY <1>1, <1>2, <1>4 DEF LookUp, LookUpAgain, Insert, ReadBack, BreaksOff, Underway
<1>5. ASSUME UNCHANGED at PROVE Underway' \subseteq Underway
  BY <1>5 DEF Underway
<1>6. QED
  BY <1>3, <1>4, <1>5 DEF IngestNext, Handle, UpsertCircuit, api, requests, ingest

LEMMA RoomStep ==
  ASSUME TypeOK, ProcessesOK, Counted, HandlersOK, RoomIsPromised, [IngestNext]_ingest
  PROVE  RoomIsPromised'
<1> USE IngestAssumption
<1>1. ASSUME Fresh' \subseteq Fresh, Underway' \subseteq Underway PROVE RoomIsPromised'
  <2>1. /\ Cardinality(Fresh') <= Cardinality(Fresh)
        /\ Cardinality(Underway') <= Cardinality(Underway)
    BY <1>1, Sizes, FS_Subset
  <2>2. Cardinality(Fresh') \in Nat /\ Cardinality(Underway') \in Nat
    BY <1>1, Sizes, FS_Subset, FS_CardinalityType
  <2>3. QED
    BY <2>1, <2>2, Sizes DEF RoomIsPromised
<1>2. ASSUME ~IsFull, UNCHANGED vars PROVE RoomIsPromised'
  <2> DEFINE queued == {j \in Job : state[j] = "queued"}
  <2>1. Fresh' = Fresh
    BY <1>2 DEF vars, columns, Fresh
  <2>2. IsFiniteSet(queued) /\ Cardinality(queued) \in Nat
    BY FS_Subset, FS_CardinalityType
  <2>3. Cardinality(Fresh) <= Cardinality(queued)
    BY <2>2, FS_Subset DEF Fresh
  <2>4. Cardinality(queued) <= MaxQueueDepth - 1
    BY <1>2, <2>2 DEF IsFull, QueueDepth
  <2>5. Cardinality(Underway') \in Nat /\ Cardinality(Underway') <= Cardinality(Client)
    <3>1. Underway' \subseteq Client
      BY DEF Underway
    <3>2. QED
      BY <3>1, FS_Subset, FS_CardinalityType
  <2>6. QED
    BY <2>1, <2>2, <2>3, <2>4, <2>5, Sizes DEF RoomIsPromised
<1>3. ASSUME NEW cl \in Client, ApiMovesRows(cl) PROVE RoomIsPromised'
  <2>1. JobOf[request[cl]] \in Job /\ Fresh' \subseteq Fresh \cup {JobOf[request[cl]]}
    BY <1>3, Jobs, SubmitStarts DEF ApiMovesRows
  <2>2. cl \in Underway /\ Underway' \subseteq Underway \ {cl}
    BY <1>3 DEF ApiMovesRows, Insert, BreaksOff, IsTold, GoesTo, HandlersOK, Underway
  <2>3. Cardinality(Fresh \cup {JobOf[request[cl]]}) <= Cardinality(Fresh) + 1
    <3>1. \/ Cardinality(Fresh \cup {JobOf[request[cl]]}) = Cardinality(Fresh)
          \/ Cardinality(Fresh \cup {JobOf[request[cl]]}) = Cardinality(Fresh) + 1
      BY Sizes, FS_AddElement
    <3> HIDE DEF Fresh
    <3>2. QED
      BY <3>1, Sizes
  <2>4. /\ IsFiniteSet(Fresh \cup {JobOf[request[cl]]})
        /\ Cardinality(Fresh \cup {JobOf[request[cl]]}) \in Nat
    BY Sizes, FS_AddElement, FS_CardinalityType
  <2>5. Cardinality(Fresh') <= Cardinality(Fresh) + 1 /\ Cardinality(Fresh') \in Nat
    BY <2>1, <2>3, <2>4, Sizes, FS_Subset, FS_CardinalityType
  <2>6. /\ IsFiniteSet(Underway \ {cl})
        /\ Cardinality(Underway \ {cl}) = Cardinality(Underway) - 1
    BY <2>2, Sizes, FS_RemoveElement
  <2>7. Cardinality(Underway') <= Cardinality(Underway) - 1 /\ Cardinality(Underway') \in Nat
    BY <2>2, <2>6, FS_Subset, FS_CardinalityType
  <2>8. QED
    BY <2>5, <2>7, Sizes DEF RoomIsPromised
<1>4. CASE Underway' \subseteq Underway
  BY <1>1, <1>3, <1>4, IngestRows
<1>5. QED
  BY <1>2, <1>4, UnderwayStep

\* However many requests see the same room in the queue, new work exceeds the
\* limit by less than the number of requests under way at a time.
THEOREM OvershootBounded == IngestSpec => []OvershootIsBounded
<1>1. IngestInit => RoomIsPromised
  <2> SUFFICES ASSUME IngestInit PROVE RoomIsPromised
    OBVIOUS
  <2>1. Fresh = {} /\ Underway = {}
    BY DEF IngestInit, PoolInit, Init, Fresh, Underway
  <2>2. QED
    BY <2>1, Sizes, FS_EmptySet, IngestAssumption DEF RoomIsPromised
<1>2. (TypeOK /\ ProcessesOK /\ HandlersOK /\ Counted) /\ RoomIsPromised /\ [IngestNext]_ingest
        => RoomIsPromised'
  BY RoomStep
<1>3. RoomIsPromised => OvershootIsBounded
  BY Sizes, IngestAssumption DEF RoomIsPromised, OvershootIsBounded
<1>4. QED
  BY <1>1, <1>2, <1>3, CountedInductive, PTL DEF IngestSpec
=============================================================================
