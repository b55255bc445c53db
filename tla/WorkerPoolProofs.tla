-------------------------- MODULE WorkerPoolProofs --------------------------
(* Theorems about the pool, for any number of jobs, workers and relayers,  *)
(* any budget and any number of disturbances.                              *)
EXTENDS WorkerPool, JobStoreProofs

Occupied(w) == pc[w] \in {"leased", "proving", "draining"}

\* What a process keeps true of itself.
ProcessesOK ==
  /\ pc \in [Worker -> {"polling", "leased", "proving", "draining", "stopped"}]
  /\ held \in [Worker -> [job : Job, attempt : Nat] \cup {NoLease}]
  /\ submitting \in [Relayer -> Job \cup {NoJob}]
  /\ \A w \in Worker : Occupied(w) => held[w].job \in Job

\* The columns of a row that the holder of its lease relies on.
SameRow(j) ==
  /\ state'[j] = state[j] /\ leasedBy'[j] = leasedBy[j]
  /\ leaseExpiry'[j] = leaseExpiry[j] /\ attempts'[j] = attempts[j]

OthersSame(j) == \A k \in Job : k # j => SameRow(k)

\* Every process but one goes on as it was.
OnlyWorker(w) ==
  /\ \A v \in Worker : v # w => pc'[v] = pc[v] /\ held'[v] = held[v]
  /\ submitting' = submitting

OnlyRelayer(r) ==
  /\ \A s \in Relayer : s # r => submitting'[s] = submitting[s]
  /\ UNCHANGED <<pc, held>>

-----------------------------------------------------------------------------
(* The pool calls the store and does nothing else to it. *)

LEMMA ProcessesStep ==
  ASSUME TypeOK, ProcessesOK, [PoolNext]_vars
  PROVE  ProcessesOK'
<1> USE PoolAssumption DEF ProcessesOK, Occupied
<1>1. ASSUME NEW w \in Worker, LetGo(w) PROVE ProcessesOK'
  BY <1>1 DEF LetGo
<1>2. ASSUME NEW w \in Worker, NEW j \in Job, Poll(w, j) PROVE ProcessesOK'
  <2>1. attempts'[j] \in Nat
    BY <1>2 DEF Poll, LeaseNext, TypeOK
  <2>2. QED
    BY <1>2, <2>1 DEF Poll
<1>3. ASSUME NEW w \in Worker, Progress(w) PROVE ProcessesOK'
  <2>1. CASE \E j \in Job : Poll(w, j)
    BY <2>1, <1>2
  <2>2. CASE HandBack(w) \/ StartProving(w) \/ Drain(w) \/ Stop(w)
    BY <2>2 DEF HandBack, StartProving, Drain, Stop
  <2>3. CASE \/ StartRefused(w) \/ Succeed(w) \/ ResultDropped(w) \/ HeartbeatRefused(w)
             \/ GraceOver(w) \/ \E kind \in FailureKinds : Fail(w, kind)
    <3>1. LetGo(w)
      BY <2>3 DEF StartRefused, Succeed, ResultDropped, HeartbeatRefused, GraceOver, Fail
    <3>2. QED  BY <3>1, <1>1
  <2>4. QED  BY <1>3, <2>1, <2>2, <2>3 DEF Progress
<1>4. ASSUME NEW w \in Worker, Crash(w) \/ Restart(w) \/ RequestShutdown(w)
      PROVE  ProcessesOK'
  BY <1>4 DEF Crash, Restart, RequestShutdown
<1>5. ASSUME NEW r \in Relayer, SubmissionProgress(r) PROVE ProcessesOK'
  BY <1>5 DEF SubmissionProgress, TakeProof, Settle, FailSubmission, AbandonSubmission, Release
<1>6. ASSUME UNCHANGED processes PROVE ProcessesOK'
  BY <1>6 DEF processes
<1>7. ASSUME NEW r \in Relayer, CountedInterruption(r) PROVE ProcessesOK'
  BY <1>7 DEF CountedInterruption, Interruption, HandBackSubmission, ReorgSeen
<1>8. QED
  BY <1>3, <1>4, <1>5, <1>6, <1>7 DEF PoolNext, ProcessesNext, Heartbeat, RelayerHeartbeat,
     PollAnswerLost, Submit, TimePasses, Reap, vars

\* What is done to a job's row that is neither a result nor a return of its lease.
Quiet(j) ==
  \/ BeginProving(j) \/ ConfirmSettled(j) \/ UnwindSettled(j)
  \/ LeaseRunsOut(j) \/ RetryComesDue(j)
  \/ \E a \in Actor : LeaseNext(j, a) \/ RenewLease(j, a) \/ LeaseNextProved(j, a)

\* Every step behind the API, as the store sees it, and who makes those that
\* matter.
LEMMA PoolStepIs ==
  ASSUME ProcessesOK, ProcessesNext
  PROVE  \/ \E w \in Worker : \/ Succeed(w) \/ HandBack(w) \/ GraceOver(w)
                              \/ \E k \in FailureKinds : Fail(w, k)
         \/ \E r \in Relayer : \/ HandBackSubmission(r)
                               \/ \E k \in FailureKinds : FailSubmission(r, k)
         \/ \E j \in Job : Quiet(j)
         \/ \E rows \in SUBSET Job : ReapExpired(rows)
         \/ UNCHANGED columns
<1> DEFINE Some == (\E j \in Job : Quiet(j)) \/ UNCHANGED columns
<1> USE PoolAssumption
<1>1. ASSUME NEW w \in Worker, Occupied(w) PROVE held[w].job \in Job
  BY <1>1 DEF ProcessesOK
<1>2. ASSUME NEW w \in Worker, NEW j \in Job, Poll(w, j) \/ PollAnswerLost(w, j) PROVE Some
  BY <1>2 DEF Poll, PollAnswerLost, Quiet
<1>3. ASSUME NEW w \in Worker, StartProving(w) \/ Heartbeat(w) PROVE Some
  BY <1>1, <1>3 DEF StartProving, Heartbeat, Occupied, Quiet
<1>4. ASSUME NEW w \in Worker,
             \/ StartRefused(w) \/ ResultDropped(w) \/ HeartbeatRefused(w)
             \/ Drain(w) \/ Stop(w) \/ Crash(w) \/ Restart(w) \/ RequestShutdown(w)
      PROVE  UNCHANGED columns
  BY <1>4 DEF StartRefused, ResultDropped, HeartbeatRefused, Drain, Stop, Crash, Restart,
              RequestShutdown
<1>5. ASSUME NEW r \in Relayer,
             \/ \E j \in Job : TakeProof(r, j)
             \/ Settle(r) \/ AbandonSubmission(r) \/ RelayerHeartbeat(r)
      PROVE  Some
  <2>1. submitting[r] # NoJob => submitting[r] \in Job
    BY DEF ProcessesOK
  <2>2. QED
    BY <1>5, <2>1 DEF TakeProof, Settle, AbandonSubmission, RelayerHeartbeat, Quiet
<1>6. ASSUME NEW j \in Job, TimePasses(j) PROVE Some
  BY <1>6 DEF TimePasses, Quiet
<1>7. ASSUME Reap PROVE \E rows \in SUBSET Job : ReapExpired(rows)
  <2>1. Expired \subseteq Job
    BY DEF Expired
  <2>2. QED
    BY <1>7, <2>1 DEF Reap
<1>8. ASSUME NEW j \in Job, ReorgSeen(j) PROVE Some
  BY <1>8 DEF ReorgSeen, Quiet
<1>9. QED
  BY <1>2, <1>3, <1>4, <1>5, <1>6, <1>7, <1>8
     DEF ProcessesNext, Progress, SubmissionProgress, CountedInterruption, Interruption

LEMMA ServiceStep ==
  ASSUME ProcessesOK, ProcessesNext
  PROVE  [ServiceNext]_columns
<1> USE PoolAssumption
<1>1. ASSUME NEW w \in Worker,
             \/ Succeed(w) \/ HandBack(w) \/ GraceOver(w)
             \/ \E k \in FailureKinds : Fail(w, k)
      PROVE  [ServiceNext]_columns
  <2>1. held[w].job \in Job
    BY <1>1 DEF Succeed, HandBack, GraceOver, Fail, ProcessesOK, Occupied
  <2>2. QED
    BY <1>1, <2>1 DEF Succeed, HandBack, GraceOver, Fail, ServiceNext
<1>2. ASSUME NEW r \in Relayer,
             HandBackSubmission(r) \/ \E k \in FailureKinds : FailSubmission(r, k)
      PROVE  ServiceNext
  BY <1>2 DEF HandBackSubmission, FailSubmission, ProcessesOK, ServiceNext
<1>3. ASSUME NEW j \in Job, Quiet(j) PROVE ServiceNext
  BY <1>3 DEF Quiet, ServiceNext
<1>4. QED
  BY <1>1, <1>2, <1>3, PoolStepIs DEF ServiceNext

LEMMA StoreStep ==
  ASSUME ProcessesOK, [PoolNext]_vars
  PROVE  [Next]_columns
BY ServiceStep DEF PoolNext, Submit, Next, vars

LEMMA ProcessesInductive == PoolSpec => [](TypeOK /\ ProcessesOK)
<1>1. PoolInit => TypeOK /\ ProcessesOK
  BY StoreAssumption DEF PoolInit, Init, TypeOK, ProcessesOK, Occupied
<1>2. TypeOK /\ ProcessesOK /\ [PoolNext]_vars => (TypeOK /\ ProcessesOK)'
  BY ProcessesStep, StoreStep, TypeStep
<1>3. QED
  BY <1>1, <1>2, PTL DEF PoolSpec

\* Every process is somewhere in its loop, holds a job or nothing, and the
\* disturbances stay within their bound.
THEOREM PoolTypeCorrect == PoolSpec => []PoolTypeOK
<1> DEFINE Signals == shutdown \in [Worker -> BOOLEAN] /\ disturbances \in 0..Disturbances
<1>1. PoolInit => Signals
  BY PoolAssumption DEF PoolInit
<1>2. Signals /\ [PoolNext]_vars => Signals'
  <2> SUFFICES ASSUME Signals, [PoolNext]_vars PROVE Signals'
    OBVIOUS
  <2>1. ASSUME UNCHANGED <<shutdown, disturbances>> PROVE Signals'
    BY <2>1
  <2>2. ASSUME NEW w \in Worker, Crash(w) \/ Restart(w) \/ RequestShutdown(w)
        PROVE  Signals'
    <3>1. shutdown' \in [Worker -> BOOLEAN]
      BY <2>2 DEF Crash, Restart, RequestShutdown
    <3>2. disturbances' \in 0..Disturbances
      BY <2>2, PoolAssumption DEF Crash, Restart, RequestShutdown
    <3>3. QED  BY <3>1, <3>2
  <2>3. ASSUME NEW w \in Worker, Progress(w) PROVE UNCHANGED <<shutdown, disturbances>>
    BY <2>3 DEF Progress, Poll, HandBack, StartProving, StartRefused, Succeed, ResultDropped,
       Fail, HeartbeatRefused, Drain, GraceOver, Stop, LetGo
  <2>4. ASSUME NEW r \in Relayer, SubmissionProgress(r)
        PROVE  UNCHANGED <<shutdown, disturbances>>
    BY <2>4 DEF SubmissionProgress, TakeProof, Settle, FailSubmission, AbandonSubmission, Release
  <2>5. ASSUME NEW r \in Relayer, CountedInterruption(r) PROVE Signals'
    <3>1. UNCHANGED shutdown
      BY <2>5 DEF CountedInterruption, Interruption, HandBackSubmission, ReorgSeen
    <3>2. disturbances' \in 0..Disturbances
      BY <2>5, PoolAssumption DEF CountedInterruption
    <3>3. QED  BY <3>1, <3>2
  <2>6. QED
    BY <2>1, <2>2, <2>3, <2>4, <2>5 DEF PoolNext, ProcessesNext, Heartbeat, RelayerHeartbeat,
       PollAnswerLost, Submit, TimePasses, Reap, processes, vars
<1>3. TypeOK /\ ProcessesOK /\ Signals => PoolTypeOK
  BY DEF ProcessesOK, PoolTypeOK
<1>4. QED
  BY <1>1, <1>2, <1>3, ProcessesInductive, PTL DEF PoolSpec

\* Whatever workers and relayers do, crash and stall, the store they share
\* makes only the steps of its own specification, so what JobStoreProofs
\* proves of every caller holds of them.
THEOREM PoolImplementsStore == PoolSpec => Spec
<1>1. PoolInit => Init
  BY DEF PoolInit
<1>2. ProcessesOK /\ [PoolNext]_vars => [Next]_columns
  BY StoreStep
<1>3. QED
  BY <1>1, <1>2, ProcessesInductive, PTL DEF PoolSpec, Spec

\* So the contract with clients is kept by the processes as they are.
THEOREM PoolImplementsContract == PoolSpec => ImplementsContract
BY PoolImplementsStore, StoreImplementsContract
-----------------------------------------------------------------------------
(* While heartbeats keep up, leases are held by those who work under them. *)

\* A worker between its lease and its result holds the job's lease for the
\* attempt it was granted, and the lease lasts: the stage of the job is the
\* one the worker is in.
WorkerHolds(w) ==
  Occupied(w) =>
    /\ leasedBy[held[w].job] = w
    /\ leaseExpiry[held[w].job] = "future"
    /\ attempts[held[w].job] = held[w].attempt
    /\ state[held[w].job] = IF pc[w] = "leased" THEN "leased" ELSE "proving"

RelayerHolds(r) ==
  submitting[r] # NoJob =>
    /\ leasedBy[submitting[r]] = r
    /\ leaseExpiry[submitting[r]] = "future"
    /\ state[submitting[r]] = "submitting"

LeasesHeld ==
  /\ \A w \in Worker : WorkerHolds(w)
  /\ \A r \in Relayer : RelayerHolds(r)

\* Nobody works on the job.
Idle(j) ==
  /\ \A w \in Worker : Occupied(w) => held[w].job # j
  /\ \A r \in Relayer : submitting[r] # j

LEMMA IdleUnlessInFlight ==
  ASSUME LeasesHeld, ProcessesOK, NEW j \in Job, ~IsInFlight(state[j])
  PROVE  Idle(j)
BY PoolAssumption DEF LeasesHeld, WorkerHolds, RelayerHolds, Idle, IsInFlight, Occupied, ProcessesOK

\* A worker that holds a row's lease, or takes a row that nobody works on,
\* may change that row and itself: everybody else's lease stands.
LEMMA OneWorkerMoves ==
  ASSUME LeasesHeld, ProcessesOK, NEW w \in Worker, NEW j \in Job,
         OthersSame(j), OnlyWorker(w), WorkerHolds(w)',
         leasedBy[j] = w \/ Idle(j)
  PROVE  LeasesHeld'
<1>1. ASSUME NEW v \in Worker, v # w PROVE WorkerHolds(v)'
  <2>1. Occupied(v)' => Occupied(v) /\ held'[v] = held[v] /\ pc'[v] = pc[v]
    BY <1>1 DEF OnlyWorker, Occupied
  <2>2. Occupied(v) => held[v].job \in Job /\ held[v].job # j
    BY <1>1 DEF LeasesHeld, WorkerHolds, ProcessesOK, Idle
  <2>3. QED
    BY <1>1, <2>1, <2>2 DEF LeasesHeld, WorkerHolds, OthersSame, SameRow
<1>2. ASSUME NEW r \in Relayer PROVE RelayerHolds(r)'
  <2>1. submitting[r] # NoJob => submitting[r] \in Job /\ submitting[r] # j
    BY PoolAssumption DEF LeasesHeld, RelayerHolds, ProcessesOK, Idle
  <2>2. QED
    BY <2>1 DEF LeasesHeld, RelayerHolds, OthersSame, SameRow, OnlyWorker
<1>3. QED
  BY <1>1, <1>2 DEF LeasesHeld

LEMMA OneRelayerMoves ==
  ASSUME LeasesHeld, ProcessesOK, NEW r \in Relayer, NEW j \in Job,
         OthersSame(j), OnlyRelayer(r), RelayerHolds(r)',
         leasedBy[j] = r \/ Idle(j)
  PROVE  LeasesHeld'
<1>1. ASSUME NEW s \in Relayer, s # r PROVE RelayerHolds(s)'
  <2>1. submitting[s] # NoJob => submitting[s] \in Job /\ submitting[s] # j
    BY <1>1, PoolAssumption DEF LeasesHeld, RelayerHolds, ProcessesOK, Idle
  <2>2. QED
    BY <1>1, <2>1 DEF LeasesHeld, RelayerHolds, OthersSame, SameRow, OnlyRelayer
<1>2. ASSUME NEW w \in Worker PROVE WorkerHolds(w)'
  <2>1. Occupied(w) => held[w].job \in Job /\ held[w].job # j
    BY PoolAssumption DEF LeasesHeld, WorkerHolds, ProcessesOK, Idle
  <2>2. QED
    BY <2>1 DEF LeasesHeld, WorkerHolds, Occupied, OthersSame, SameRow, OnlyRelayer
<1>3. QED
  BY <1>1, <1>2 DEF LeasesHeld

\* A change to rows nobody works on disturbs nobody.
LEMMA IdleRowsMove ==
  ASSUME LeasesHeld, ProcessesOK, UNCHANGED <<pc, held, submitting>>,
         \A j \in Job : SameRow(j) \/ Idle(j)
  PROVE  LeasesHeld'
<1>1. ASSUME NEW w \in Worker PROVE WorkerHolds(w)'
  <2>1. Occupied(w) => held[w].job \in Job /\ SameRow(held[w].job)
    BY DEF ProcessesOK, Idle
  <2>2. QED
    BY <2>1 DEF LeasesHeld, WorkerHolds, Occupied, SameRow
<1>2. ASSUME NEW r \in Relayer PROVE RelayerHolds(r)'
  <2>1. submitting[r] # NoJob => submitting[r] \in Job /\ SameRow(submitting[r])
    BY DEF ProcessesOK, Idle
  <2>2. QED
    BY <2>1 DEF LeasesHeld, RelayerHolds, SameRow
<1>3. QED
  BY <1>1, <1>2 DEF LeasesHeld

\* Each operation of the store changes one row.
LEMMA ApplyEventRow ==
  ASSUME TypeOK, NEW j \in Job, NEW e, ApplyEvent(j, e)
  PROVE  OthersSame(j) /\ attempts' = attempts
BY DEF TypeOK, ApplyEvent, MoveTo, ClearLease, OthersSame, SameRow

LEMMA LeaseRow ==
  ASSUME TypeOK, NEW j \in Job, NEW a \in Actor, LeaseNext(j, a)
  PROVE  /\ OthersSame(j) /\ ~IsInFlight(state[j])
         /\ leasedBy'[j] = a /\ leaseExpiry'[j] = "future" /\ state'[j] = "leased"
BY DEF TypeOK, LeaseNext, Waiting, MoveTo, GrantLease, OthersSame, SameRow, IsInFlight,
       Transition, AfterRetry

LEMMA LeaseProvedRow ==
  ASSUME TypeOK, NEW j \in Job, NEW a \in Actor, LeaseNextProved(j, a)
  PROVE  /\ OthersSame(j) /\ ~IsInFlight(state[j])
         /\ leasedBy'[j] = a /\ leaseExpiry'[j] = "future" /\ state'[j] = "submitting"
BY DEF TypeOK, LeaseNextProved, Waiting, MoveTo, GrantLease, OthersSame, SameRow, IsInFlight,
       Transition, AfterRetry

LEMMA RenewRow ==
  ASSUME TypeOK, NEW j \in Job, NEW a \in Actor, RenewLease(j, a)
  PROVE  /\ OthersSame(j) /\ leasedBy[j] = a
         /\ leaseExpiry'[j] = "future" /\ UNCHANGED <<state, leasedBy, attempts>>
BY DEF TypeOK, RenewLease, Holds, OthersSame, SameRow

LEMMA ResultRow ==
  ASSUME TypeOK, NEW j \in Job,
         \/ \E a \in Actor : RecordProof(j, a)
         \/ \E k \in FailureKinds : RecordFailure(j, k) \/ RecordSubmissionFailure(j, k)
  PROVE  OthersSame(j)
BY DEF TypeOK, RecordProof, RecordFailure, RecordSubmissionFailure, MoveTo, ClearLease,
       OthersSame, SameRow

LEMMA LeasesStep ==
  ASSUME TypeOK, ProcessesOK, LeasesHeld, HeartbeatsKeepUp, [PoolNext]_vars
  PROVE  LeasesHeld'
<1> USE PoolAssumption
<1> DEFINE J(w) == held[w].job
<1>a. ASSUME UNCHANGED columns PROVE \A j \in Job : SameRow(j) /\ OthersSame(j)
  BY <1>a DEF columns, SameRow, OthersSame
<1>b. ASSUME NEW w \in Worker, Occupied(w)
      PROVE  J(w) \in Job /\ leasedBy[J(w)] = w
  BY <1>b DEF ProcessesOK, LeasesHeld, WorkerHolds
\* A worker that lets its job go, having changed its row at most.
<1>c. ASSUME NEW w \in Worker, Occupied(w), OthersSame(J(w)), OnlyWorker(w), ~Occupied(w)'
      PROVE  LeasesHeld'
  BY <1>b, <1>c, OneWorkerMoves DEF WorkerHolds
<1>1. ASSUME NEW w \in Worker, NEW j \in Job, Poll(w, j) PROVE LeasesHeld'
  <2>1. OthersSame(j) /\ Idle(j) /\ leasedBy'[j] = w /\ leaseExpiry'[j] = "future"
        /\ state'[j] = "leased"
    BY <1>1, LeaseRow, IdleUnlessInFlight DEF Poll
  <2>2. OnlyWorker(w) /\ WorkerHolds(w)'
    BY <1>1, <2>1 DEF Poll, OnlyWorker, WorkerHolds, ProcessesOK
  <2>3. QED
    BY <2>1, <2>2, OneWorkerMoves
<1>2. ASSUME NEW w \in Worker, HandBack(w) \/ GraceOver(w) PROVE LeasesHeld'
  <2>1. Occupied(w) /\ OnlyWorker(w) /\ ~Occupied(w)'
    BY <1>2 DEF HandBack, GraceOver, LetGo, Occupied, OnlyWorker, ProcessesOK
  <2>2. OthersSame(J(w))
    BY <1>2, <1>a, <1>b, <2>1, ApplyEventRow DEF HandBack, GraceOver, ReleaseLease
  <2>3. QED
    BY <1>c, <2>1, <2>2
<1>3. ASSUME NEW w \in Worker, Succeed(w) \/ \E kind \in FailureKinds : Fail(w, kind)
      PROVE  LeasesHeld'
  <2>1. Occupied(w) /\ OnlyWorker(w) /\ ~Occupied(w)'
    BY <1>3 DEF Succeed, Fail, LetGo, Occupied, OnlyWorker, ProcessesOK
  <2>2. OthersSame(J(w))
    BY <1>3, <1>b, <2>1, ResultRow DEF Succeed, Fail
  <2>3. QED
    BY <1>c, <2>1, <2>2
<1>4. ASSUME NEW w \in Worker, StartRefused(w) \/ ResultDropped(w) \/ HeartbeatRefused(w)
      PROVE  LeasesHeld'
  <2>1. Occupied(w) /\ OnlyWorker(w) /\ ~Occupied(w)'
    BY <1>4 DEF StartRefused, ResultDropped, HeartbeatRefused, LetGo, Occupied,
                OnlyWorker, ProcessesOK
  <2>2. OthersSame(J(w))
    BY <1>4, <1>a, <1>b, <2>1 DEF StartRefused, ResultDropped, HeartbeatRefused
  <2>3. QED
    BY <1>c, <2>1, <2>2
<1>5. ASSUME NEW w \in Worker, StartProving(w) PROVE LeasesHeld'
  <2>1. Occupied(w) /\ OnlyWorker(w) /\ Occupied(w)' /\ pc'[w] = "proving" /\ held' = held
    BY <1>5 DEF StartProving, Occupied, OnlyWorker, ProcessesOK
  <2>2. OthersSame(J(w)) /\ attempts' = attempts
    BY <1>5, <1>b, <2>1, ApplyEventRow DEF StartProving, BeginProving
  <2>3. /\ state[J(w)] = "leased" /\ leaseExpiry[J(w)] = "future"
        /\ attempts[J(w)] = held[w].attempt
    BY <1>5, <2>1 DEF LeasesHeld, WorkerHolds, StartProving
  <2>4. /\ state'[J(w)] = "proving"
        /\ UNCHANGED <<leasedBy, leaseExpiry>>
    <3>1. Transition("leased", "proving_started") = "proving"
      BY DEF Transition
    <3>2. QED
      BY <1>5, <1>b, <2>1, <2>3, <3>1 DEF StartProving, BeginProving, ApplyEvent, MoveTo,
         IsInFlight, TypeOK
  <2>5. WorkerHolds(w)'
    BY <1>b, <2>1, <2>2, <2>3, <2>4 DEF WorkerHolds
  <2>6. QED
    BY <1>b, <2>1, <2>2, <2>5, OneWorkerMoves
<1>6. ASSUME NEW w \in Worker, Heartbeat(w) PROVE LeasesHeld'
  <2>1. Occupied(w) /\ OnlyWorker(w) /\ UNCHANGED <<pc, held>>
    BY <1>6 DEF Heartbeat, Occupied, OnlyWorker, processes
  <2>2. /\ OthersSame(J(w)) /\ leaseExpiry'[J(w)] = "future"
        /\ UNCHANGED <<state, leasedBy, attempts>>
    BY <1>6, <1>b, <2>1, RenewRow DEF Heartbeat
  <2>3. WorkerHolds(w)'
    BY <2>1, <2>2 DEF LeasesHeld, WorkerHolds, Occupied
  <2>4. QED
    BY <1>b, <2>1, <2>2, <2>3, OneWorkerMoves
<1>7. ASSUME NEW w \in Worker, Drain(w) \/ Stop(w) \/ Crash(w) \/ Restart(w) \/ RequestShutdown(w)
      PROVE  LeasesHeld'
  <2>1. UNCHANGED columns /\ OnlyWorker(w)
    BY <1>7 DEF Drain, Stop, Crash, Restart, RequestShutdown, OnlyWorker, ProcessesOK
  <2>2. Occupied(w)' => /\ Occupied(w) /\ held' = held
                        /\ pc[w] = "leased" <=> pc'[w] = "leased"
    BY <1>7 DEF Drain, Stop, Crash, Restart, RequestShutdown, Occupied, ProcessesOK
  <2>3. ASSUME NEW v \in Worker PROVE WorkerHolds(v)'
    BY <2>1, <2>2 DEF LeasesHeld, WorkerHolds, Occupied, OnlyWorker, columns
  <2>4. ASSUME NEW r \in Relayer PROVE RelayerHolds(r)'
    BY <2>1 DEF LeasesHeld, RelayerHolds, OnlyWorker, columns
  <2>5. QED
    BY <2>3, <2>4 DEF LeasesHeld
<1>8. ASSUME NEW w \in Worker, NEW j \in Job, PollAnswerLost(w, j) PROVE LeasesHeld'
  <2>1. OthersSame(j) /\ Idle(j)
    BY <1>8, LeaseRow, IdleUnlessInFlight DEF PollAnswerLost
  <2>2. QED
    BY <1>8, <2>1, IdleRowsMove DEF PollAnswerLost, processes, OthersSame
<1>9. ASSUME NEW r \in Relayer, NEW j \in Job, TakeProof(r, j) PROVE LeasesHeld'
  <2>1. OthersSame(j) /\ Idle(j) /\ leasedBy'[j] = r /\ leaseExpiry'[j] = "future"
        /\ state'[j] = "submitting"
    BY <1>9, LeaseProvedRow, IdleUnlessInFlight DEF TakeProof
  <2>2. OnlyRelayer(r) /\ RelayerHolds(r)'
    BY <1>9, <2>1 DEF TakeProof, OnlyRelayer, RelayerHolds, ProcessesOK
  <2>3. QED
    BY <2>1, <2>2, OneRelayerMoves
<1>10. ASSUME NEW r \in Relayer, submitting[r] # NoJob, OthersSame(submitting[r]),
              submitting' = [submitting EXCEPT ![r] = NoJob], UNCHANGED <<pc, held>>
       PROVE  LeasesHeld'
  <2>1. submitting[r] \in Job /\ leasedBy[submitting[r]] = r
    BY <1>10 DEF ProcessesOK, LeasesHeld, RelayerHolds
  <2>2. OnlyRelayer(r) /\ RelayerHolds(r)'
    BY <1>10 DEF OnlyRelayer, RelayerHolds, ProcessesOK
  <2>3. QED
    BY <1>10, <2>1, <2>2, OneRelayerMoves
<1>11. ASSUME NEW r \in Relayer,
              \/ Settle(r) \/ AbandonSubmission(r) \/ HandBackSubmission(r)
              \/ \E kind \in FailureKinds : FailSubmission(r, kind)
       PROVE  LeasesHeld'
  <2>1. /\ submitting[r] # NoJob /\ submitting[r] \in Job
        /\ submitting' = [submitting EXCEPT ![r] = NoJob] /\ UNCHANGED <<pc, held>>
    BY <1>11 DEF Settle, AbandonSubmission, HandBackSubmission, FailSubmission, Release, ProcessesOK
  <2>2. OthersSame(submitting[r])
    BY <1>11, <1>a, <2>1, ApplyEventRow, ResultRow
       DEF Settle, ConfirmSettled, AbandonSubmission, HandBackSubmission, ReleaseLease, FailSubmission
  <2>3. QED
    BY <1>10, <2>1, <2>2
<1>12. ASSUME NEW r \in Relayer, RelayerHeartbeat(r) PROVE LeasesHeld'
  <2>1. submitting[r] \in Job /\ OnlyRelayer(r) /\ UNCHANGED submitting
    BY <1>12 DEF RelayerHeartbeat, ProcessesOK, processes, OnlyRelayer
  <2>2. /\ OthersSame(submitting[r]) /\ leasedBy[submitting[r]] = r
        /\ leaseExpiry'[submitting[r]] = "future"
        /\ UNCHANGED <<state, leasedBy, attempts>>
    BY <1>12, <2>1, RenewRow DEF RelayerHeartbeat
  <2>3. RelayerHolds(r)'
    BY <2>1, <2>2 DEF LeasesHeld, RelayerHolds
  <2>4. QED
    BY <2>1, <2>2, <2>3, OneRelayerMoves
<1>13. ASSUME NEW j \in Job, Submit(j) PROVE LeasesHeld'
  <2>1. OthersSame(j) /\ (SameRow(j) \/ Idle(j))
    BY <1>13, IdleUnlessInFlight DEF Submit, Enqueue, MoveTo, TypeOK, OthersSame, SameRow,
       IsInFlight
  <2>2. QED
    BY <1>13, <2>1, IdleRowsMove DEF Submit, processes, OthersSame
<1>14. ASSUME NEW j \in Job, TimePasses(j) PROVE LeasesHeld'
  <2>1. OthersSame(j)
    BY <1>14 DEF TimePasses, LeaseRunsOut, RetryComesDue, TypeOK, OthersSame, SameRow
  <2>2. SameRow(j) \/ Idle(j)
    <3>1. CASE RetryComesDue(j)
      BY <3>1 DEF RetryComesDue, SameRow
    <3>2. CASE \A a \in Actor : Busy(a, j) => leasedBy[j] # a
      BY <3>2 DEF Busy, Working, Idle, Occupied, LeasesHeld, WorkerHolds, RelayerHolds
    <3>3. QED  BY <1>14, <3>1, <3>2 DEF TimePasses
  <2>3. QED
    BY <1>14, <2>1, <2>2, IdleRowsMove DEF TimePasses, processes, OthersSame
<1>15. ASSUME Reap PROVE LeasesHeld'
  <2>1. PICK rows \in SUBSET Expired : ReapExpired(rows)
    BY <1>15 DEF Reap
  <2>2. \A j \in Job : j \notin rows => SameRow(j)
    BY <2>1 DEF ReapExpired, SameRow
  <2>3. \A j \in rows : Idle(j)
    BY <2>1 DEF Expired, Idle, LeasesHeld, WorkerHolds, RelayerHolds
  <2>4. QED
    BY <1>15, <2>2, <2>3, IdleRowsMove DEF Reap, processes
<1>16. ASSUME NEW j \in Job, ReorgSeen(j) PROVE LeasesHeld'
  <2>1. OthersSame(j)
    BY <1>16, ApplyEventRow DEF ReorgSeen, UnwindSettled
  <2>2. Idle(j)
    <3>1. state[j] = "settled"
      BY <1>16 DEF ReorgSeen, UnwindSettled, ApplyEvent, CanTransition, Transition, AfterRetry
    <3>2. QED
      BY <3>1, IdleUnlessInFlight DEF IsInFlight
  <2>3. QED
    BY <1>16, <2>1, <2>2, IdleRowsMove DEF ReorgSeen, OthersSame
<1>17. CASE UNCHANGED vars
  BY <1>17, <1>a, IdleRowsMove DEF vars, processes
<1>18. QED
  BY <1>1, <1>2, <1>3, <1>4, <1>5, <1>6, <1>7, <1>8, <1>9, <1>11, <1>12, <1>13,
     <1>14, <1>15, <1>16, <1>17
     DEF PoolNext, ProcessesNext, Progress, SubmissionProgress, CountedInterruption, Interruption

\* If a running holder always renews in time, no worker ever proves a job
\* that is somebody else's, however many workers, crashes, shutdowns and lost
\* answers there are: the lease is exclusive, and a result can only be of the
\* attempt it is recorded against.
THEOREM LeasesAreExclusive ==
  HeartbeatsKeepUp => (PoolSpec => []WorkersHoldTheirLease)
<1> SUFFICES ASSUME HeartbeatsKeepUp PROVE PoolSpec => []WorkersHoldTheirLease
  OBVIOUS
<1>1. PoolInit => LeasesHeld
  BY DEF PoolInit, LeasesHeld, WorkerHolds, RelayerHolds, Occupied
<1>2. TypeOK /\ ProcessesOK /\ LeasesHeld /\ [PoolNext]_vars => LeasesHeld'
  BY LeasesStep
<1>3. LeasesHeld => WorkersHoldTheirLease
  BY DEF LeasesHeld, WorkerHolds, WorkersHoldTheirLease, Working, Occupied
<1>4. QED
  BY <1>1, <1>2, <1>3, ProcessesInductive, PTL DEF PoolSpec
-----------------------------------------------------------------------------
(* So a result is of the attempt it is recorded against.                   *)

PastProving == {"proved", "submitting", "settled"}

RowOf(j, n, w) == \E q \in jobAttempts : q.job = j /\ q.number = n /\ q.worker = w

\* The attempt a worker works on is on record as that worker's.
AttemptsOnRecord ==
  \A w \in Worker : Occupied(w) => RowOf(held[w].job, held[w].attempt, w)

\* What the leases and the records together keep, while heartbeats keep up.
PromptInv ==
  /\ TypeOK /\ ProcessesOK /\ RowRules /\ AttemptsMatchRows
  /\ LeasesHeld /\ AttemptsOnRecord /\ ProofComesFromTheLastAttempt

\* A row of the table keeps its key and its worker, whatever becomes of it.
LEMMA RowsAreKept ==
  ASSUME TypeOK, [Next]_columns, NEW j, NEW n, NEW w, RowOf(j, n, w)
  PROVE  RowOf(j, n, w)'
<1>1. PICK q \in jobAttempts : q.job = j /\ q.number = n /\ q.worker = w
  BY DEF RowOf
<1>2. q \in AttemptRows
  BY DEF TypeOK
<1>3. ASSUME NEW o, o \in Outcomes, NEW i \in Job, FinishAttempt(i, o) PROVE RowOf(j, n, w)'
  <2> DEFINE p == IF q.job = i /\ q.number = attempts[i] THEN [q EXCEPT !.outcome = o] ELSE q
  <2>1. p \in jobAttempts' /\ p.job = j /\ p.number = n /\ p.worker = w
    BY <1>1, <1>2, <1>3 DEF FinishAttempt, AttemptRows
  <2>2. QED
    BY <2>1 DEF RowOf
<1>4. ASSUME NEW rows \in SUBSET Job, ReapExpired(rows) PROVE RowOf(j, n, w)'
  <2> DEFINE p == IF q.job \in rows /\ q.outcome = "open"
                    THEN [q EXCEPT !.outcome = "abandoned"] ELSE q
  <2>1. p \in jobAttempts' /\ p.job = j /\ p.number = n /\ p.worker = w
    BY <1>1, <1>2, <1>4 DEF ReapExpired, AttemptRows
  <2>2. QED
    BY <2>1 DEF RowOf
<1>5. ASSUME jobAttempts \subseteq jobAttempts' PROVE RowOf(j, n, w)'
  BY <1>1, <1>5 DEF RowOf
<1>6. ASSUME NEW i \in Job, NEW a \in Actor, RecordProof(i, a) PROVE RowOf(j, n, w)'
  BY <1>3, <1>6 DEF RecordProof, Outcomes
<1>7. ASSUME NEW i \in Job, NEW k \in FailureKinds, RecordFailure(i, k) PROVE RowOf(j, n, w)'
  BY <1>3, <1>7 DEF RecordFailure, Outcomes
<1>8. ASSUME NEW i \in Job,
             \/ Enqueue(i) \/ BeginProving(i) \/ ReleaseLease(i)
             \/ ConfirmSettled(i) \/ UnwindSettled(i)
             \/ LeaseRunsOut(i) \/ RetryComesDue(i)
             \/ \E k \in FailureKinds : RecordSubmissionFailure(i, k)
             \/ \E a \in Actor : LeaseNext(i, a) \/ RenewLease(i, a) \/ LeaseNextProved(i, a)
      PROVE  jobAttempts \subseteq jobAttempts'
  BY <1>8 DEF Enqueue, BeginProving, ReleaseLease, ConfirmSettled, UnwindSettled,
              ApplyEvent, LeaseRunsOut, RetryComesDue, RecordSubmissionFailure,
              LeaseNext, RenewLease, LeaseNextProved
<1>9. CASE UNCHANGED columns
  BY <1>5, <1>9 DEF columns
<1>10. QED
  BY <1>4, <1>5, <1>6, <1>7, <1>8, <1>9 DEF Next, ServiceNext

\* A lease opens a row for the attempt it counts.
LEMMA LeaseOpensRow ==
  ASSUME TypeOK, AttemptsMatchRows, NEW j \in Job, NEW w \in Actor, LeaseNext(j, w)
  PROVE  RowOf(j, attempts[j], w)'
<1>1. attempts[j] \in Nat /\ attempts'[j] = attempts[j] + 1
  BY DEF TypeOK, LeaseNext
<1>2. ~ \E r \in jobAttempts : r.job = j /\ r.number = attempts[j] + 1
  BY <1>1 DEF AttemptsMatchRows, TypeOK, AttemptRows
<1>3. [job |-> j, number |-> attempts[j] + 1, worker |-> w, outcome |-> "open"] \in jobAttempts'
  BY <1>2 DEF LeaseNext
<1>4. QED
  BY <1>1, <1>3 DEF RowOf

\* A worker is occupied with what it was occupied with, or has just polled.
LEMMA OccupiedSince ==
  ASSUME ProcessesOK, [PoolNext]_vars, NEW w \in Worker, Occupied(w)'
  PROVE  \/ Occupied(w) /\ held'[w] = held[w]
         \/ \E j \in Job : LeaseNext(j, w) /\ held'[w] = [job |-> j, attempt |-> attempts'[j]]
<1> DEFINE Goal == \/ Occupied(w) /\ held'[w] = held[w]
                   \/ \E j \in Job : /\ LeaseNext(j, w)
                                     /\ held'[w] = [job |-> j, attempt |-> attempts'[j]]
<1>1. ASSUME UNCHANGED <<pc, held>> PROVE Goal
  BY <1>1 DEF Occupied
<1>2. ASSUME NEW v \in Worker, NEW j \in Job, Poll(v, j) PROVE Goal
  BY <1>2 DEF Poll, Occupied, ProcessesOK
<1>3. ASSUME NEW v \in Worker,
             \/ HandBack(v) \/ StartProving(v) \/ StartRefused(v) \/ Succeed(v)
             \/ ResultDropped(v) \/ \E kind \in FailureKinds : Fail(v, kind)
             \/ HeartbeatRefused(v) \/ Drain(v) \/ GraceOver(v) \/ Stop(v)
             \/ Crash(v) \/ Restart(v)
      PROVE  Goal
  BY <1>3 DEF HandBack, StartProving, StartRefused, Succeed, ResultDropped, Fail,
     HeartbeatRefused, Drain, GraceOver, Stop, Crash, Restart, LetGo, Occupied, ProcessesOK
<1>4. QED
  BY <1>1, <1>2, <1>3 DEF PoolNext, ProcessesNext, Progress, SubmissionProgress, Heartbeat,
     RequestShutdown, PollAnswerLost, TakeProof, Settle, FailSubmission, AbandonSubmission,
     CountedInterruption, Interruption, HandBackSubmission, ReorgSeen,
     Release, RelayerHeartbeat, Submit, TimePasses, Reap, processes, vars

LEMMA OnRecordStep ==
  ASSUME PromptInv, [PoolNext]_vars
  PROVE  AttemptsOnRecord'
<1> SUFFICES ASSUME NEW w \in Worker, Occupied(w)'
             PROVE  RowOf(held[w].job, held[w].attempt, w)'
  BY DEF AttemptsOnRecord
<1>1. CASE Occupied(w) /\ held'[w] = held[w]
  <2>1. RowOf(held[w].job, held[w].attempt, w)
    BY <1>1 DEF PromptInv, AttemptsOnRecord
  <2>2. RowOf(held[w].job, held[w].attempt, w) => (\E q \in jobAttempts' :
          q.job = held[w].job /\ q.number = held[w].attempt /\ q.worker = w)
    BY RowsAreKept, StoreStep DEF PromptInv, RowOf
  <2>3. QED
    BY <1>1, <2>1, <2>2 DEF RowOf
<1>2. ASSUME NEW j \in Job, LeaseNext(j, w), held'[w] = [job |-> j, attempt |-> attempts'[j]]
      PROVE  RowOf(held[w].job, held[w].attempt, w)'
  BY <1>2, LeaseOpensRow, PoolAssumption DEF PromptInv, RowOf
<1>3. QED
  BY <1>1, <1>2, OccupiedSince DEF PromptInv

\* What a step that records no result of a prover leaves: no row is closed
\* as succeeded or failed, none that succeeded is touched, and no job gets
\* past proving.
LEMMA UnrecordedStep ==
  ASSUME TypeOK,
         \/ \E i \in Job : Quiet(i) \/ Enqueue(i) \/ ReleaseLease(i)
         \/ \E i \in Job, k \in FailureKinds : RecordSubmissionFailure(i, k)
         \/ \E rows \in SUBSET Job : ReapExpired(rows)
         \/ UNCHANGED columns
  PROVE  /\ \A r \in jobAttempts' \ jobAttempts : r.outcome \in {"open", "abandoned"}
         /\ \A r \in jobAttempts : r.outcome = "succeeded" => r \in jobAttempts'
         /\ \A j \in Job : state'[j] \in PastProving =>
              state[j] \in PastProving /\ attempts'[j] = attempts[j]
         /\ proof' = proof
<1> DEFINE Goal ==
         /\ \A r \in jobAttempts' \ jobAttempts : r.outcome \in {"open", "abandoned"}
         /\ \A r \in jobAttempts : r.outcome = "succeeded" => r \in jobAttempts'
         /\ \A j \in Job : state'[j] \in PastProving =>
              state[j] \in PastProving /\ attempts'[j] = attempts[j]
         /\ proof' = proof
<1>1. ASSUME NEW i \in Job, NEW e, ApplyEvent(i, e), e # "proof_succeeded" PROVE Goal
  <2>1. Transition(state[i], e) \in PastProving => state[i] \in PastProving
    BY <1>1 DEF Transition, AfterRetry, PastProving
  <2>2. QED
    BY <1>1, <2>1 DEF ApplyEvent, MoveTo, TypeOK
<1>2. ASSUME NEW i \in Job,
             BeginProving(i) \/ ConfirmSettled(i) \/ UnwindSettled(i) \/ ReleaseLease(i)
      PROVE  Goal
  BY <1>1, <1>2 DEF BeginProving, ConfirmSettled, UnwindSettled, ReleaseLease
<1>3. ASSUME NEW i \in Job,
             \/ Enqueue(i) \/ LeaseRunsOut(i) \/ RetryComesDue(i)
             \/ \E a \in Actor : RenewLease(i, a)
      PROVE  Goal
  BY <1>3 DEF Enqueue, LeaseRunsOut, RetryComesDue, RenewLease, MoveTo, TypeOK, PastProving
<1>4. ASSUME NEW i \in Job, NEW a \in Actor, LeaseNext(i, a) PROVE Goal
  <2>1. Transition("queued", "leased") = "leased"
    BY DEF Transition
  <2>2. QED
    BY <1>4, <2>1 DEF LeaseNext, Waiting, MoveTo, TypeOK, PastProving
<1>5. ASSUME NEW i \in Job, NEW a \in Actor, LeaseNextProved(i, a) PROVE Goal
  BY <1>5 DEF LeaseNextProved, Waiting, MoveTo, TypeOK, PastProving
<1>6. ASSUME NEW i \in Job, NEW k \in FailureKinds, RecordSubmissionFailure(i, k) PROVE Goal
  <2> DEFINE e == ClassifyFailure(k, submissionAttempts[i], MaxAttempts)
  <2>1. Transition(state[i], e) \in PastProving => state[i] \in PastProving
    BY DEF ClassifyFailure, Transition, AfterRetry, PastProving
  <2> HIDE DEF e
  <2>2. QED
    BY <1>6, <2>1 DEF RecordSubmissionFailure, MoveTo, TypeOK, e
<1>7. ASSUME NEW rows \in SUBSET Job, ReapExpired(rows) PROVE Goal
  <2>1. \A j \in rows : state'[j] \in PastProving => state[j] \in PastProving
    BY <1>7 DEF ReapExpired, Expired, IsInFlight, ReapEvent, ClassifyFailure, Transition,
                AfterRetry, PastProving
  <2>2. \A j \in Job \ rows : state'[j] = state[j]
    BY <1>7 DEF ReapExpired
  <2>3. QED
    BY <1>7, <2>1, <2>2 DEF ReapExpired, TypeOK, AttemptRows
<1>8. CASE UNCHANGED columns
  BY <1>8 DEF columns
<1>9. QED
  BY <1>2, <1>3, <1>4, <1>5, <1>6, <1>7, <1>8 DEF Quiet

\* A step of the pool either records no result, or is a worker's that closes
\* the row of its own attempt, at a job that is being proved.
LEMMA ResultIsOwn ==
  ASSUME PromptInv, NEW w \in Worker, Succeed(w) \/ \E k \in FailureKinds : Fail(w, k)
  PROVE  /\ held[w].job \in Job /\ state[held[w].job] = "proving"
         /\ held[w] = [job |-> held[w].job, attempt |-> attempts[held[w].job]]
         /\ held'[w] = NoLease
         /\ \E q \in jobAttempts : /\ q.job = held[w].job /\ q.number = attempts[held[w].job]
                                   /\ q.worker = w
         /\ \A q \in jobAttempts :
              q.job = held[w].job /\ q.number = attempts[held[w].job] => q.worker = w
<1>1. Occupied(w) /\ pc[w] # "leased" /\ LetGo(w)
  BY DEF Succeed, Fail, Occupied
<1>2. /\ held[w].job \in Job /\ state[held[w].job] = "proving"
      /\ attempts[held[w].job] = held[w].attempt
  BY <1>1 DEF PromptInv, ProcessesOK, LeasesHeld, WorkerHolds
<1>3. held[w] \in [job : Job, attempt : Nat]
  BY <1>2, PoolAssumption DEF PromptInv, ProcessesOK, NoLease
<1>4. PICK q \in jobAttempts : q.job = held[w].job /\ q.number = held[w].attempt /\ q.worker = w
  BY <1>1 DEF PromptInv, AttemptsOnRecord, RowOf
<1>5. \A p \in jobAttempts : p.job = q.job /\ p.number = q.number => p = q
  BY <1>4 DEF PromptInv, AttemptsMatchRows
<1>6. held'[w] = NoLease
  BY <1>1 DEF LetGo, PromptInv, ProcessesOK
<1>7. QED
  BY <1>2, <1>3, <1>4, <1>5, <1>6

\* The row a result closes, and the rows it leaves.
LEMMA ResultWrites ==
  ASSUME TypeOK, NEW j \in Job, NEW o \in {"succeeded", "failed"}, FinishAttempt(j, o)
  PROVE  /\ \A r \in jobAttempts' \ jobAttempts : \E q \in jobAttempts :
              /\ q.job = j /\ q.number = attempts[j]
              /\ r.job = j /\ r.number = attempts[j] /\ r.worker = q.worker
         /\ \A r \in jobAttempts : r.job # j => r \in jobAttempts'
         /\ \A q \in jobAttempts : q.job = j /\ q.number = attempts[j] =>
              [q EXCEPT !.outcome = o] \in jobAttempts'
BY DEF FinishAttempt, TypeOK, AttemptRows

LEMMA PoolRecords ==
  ASSUME PromptInv, [PoolNext]_vars
  PROVE  \/ \E w \in Worker : Succeed(w) \/ \E k \in FailureKinds : Fail(w, k)
         \/ /\ \A r \in jobAttempts' \ jobAttempts : r.outcome \in {"open", "abandoned"}
            /\ \A r \in jobAttempts : r.outcome = "succeeded" => r \in jobAttempts'
            /\ \A j \in Job : state'[j] \in PastProving =>
                 state[j] \in PastProving /\ attempts'[j] = attempts[j]
            /\ proof' = proof
<1>1. ASSUME NEW w \in Worker, HandBack(w) \/ GraceOver(w)
      PROVE  UNCHANGED columns \/ \E j \in Job : ReleaseLease(j)
  <2>1. held[w].job \in Job
    BY <1>1 DEF HandBack, GraceOver, PromptInv, ProcessesOK, Occupied
  <2>2. QED
    BY <1>1, <2>1 DEF HandBack, GraceOver
<1>2. ASSUME NEW r \in Relayer,
             HandBackSubmission(r) \/ \E k \in FailureKinds : FailSubmission(r, k)
      PROVE  \E j \in Job : ReleaseLease(j) \/ \E k \in FailureKinds : RecordSubmissionFailure(j, k)
  BY <1>2 DEF HandBackSubmission, FailSubmission, PromptInv, ProcessesOK
<1>3. CASE ProcessesNext
  BY <1>1, <1>2, <1>3, PoolStepIs, UnrecordedStep DEF PromptInv
<1>4. CASE UNCHANGED vars \/ \E j \in Job : Submit(j)
  BY <1>4, UnrecordedStep DEF vars, Submit, PromptInv
<1>5. QED
  BY <1>3, <1>4 DEF PoolNext

LEMMA LastAttemptStep ==
  ASSUME PromptInv, [PoolNext]_vars
  PROVE  ProofComesFromTheLastAttempt'
<1> SUFFICES ASSUME NEW j \in Job, state'[j] \in PastProving
             PROVE  \E row \in jobAttempts' : /\ row.job = j /\ row.number = attempts'[j]
                                              /\ row.worker = proof'[j]
                                              /\ row.outcome = "succeeded"
  BY DEF ProofComesFromTheLastAttempt, PastProving
<1> DEFINE Past == state[j] \in PastProving
<1>1. Past => /\ proof'[j] = proof[j]
              /\ \E row \in jobAttempts : /\ row.job = j /\ row.number = attempts[j]
                                          /\ row.worker = proof[j]
                                          /\ row.outcome = "succeeded"
  BY StoredProofStays, StoreStep
     DEF PromptInv, RowRules, ProofMatchesState, ProofComesFromTheLastAttempt, PastProving
<1>2. CASE /\ \A r \in jobAttempts : r.outcome = "succeeded" => r \in jobAttempts'
           /\ Past /\ attempts'[j] = attempts[j]
  BY <1>1, <1>2
<1>3. ASSUME NEW w \in Worker, NEW k \in FailureKinds, Fail(w, k)
      PROVE  Past /\ j # held[w].job /\ attempts' = attempts /\ FinishAttempt(held[w].job, "failed")
  <2>1. /\ held[w].job \in Job /\ state[held[w].job] = "proving"
        /\ RecordFailure(held[w].job, k)
    BY <1>3, ResultIsOwn DEF Fail
  <2>2. state'[held[w].job] \notin PastProving
    BY <2>1 DEF RecordFailure, MoveTo, ClassifyFailure, Transition, AfterRetry, PromptInv, TypeOK,
                PastProving
  <2>3. QED
    BY <2>1, <2>2 DEF RecordFailure, MoveTo, PromptInv, TypeOK
<1>4. ASSUME NEW w \in Worker, NEW k \in FailureKinds, Fail(w, k)
      PROVE  \A r \in jobAttempts : r.job = j => r \in jobAttempts'
  <2>1. FinishAttempt(held[w].job, "failed") /\ j # held[w].job /\ held[w].job \in Job
    BY <1>3, <1>4, ResultIsOwn
  <2>2. \A r \in jobAttempts : r.job # held[w].job => r \in jobAttempts'
    BY <2>1, ResultWrites DEF PromptInv
  <2>3. QED
    BY <2>1, <2>2
<1>5. ASSUME NEW w \in Worker, Succeed(w)
      PROVE  /\ RecordProof(held[w].job, w) /\ held[w].job \in Job
             /\ attempts' = attempts /\ FinishAttempt(held[w].job, "succeeded")
             /\ j # held[w].job => Past
  <2>1. RecordProof(held[w].job, w) /\ held[w].job \in Job
    BY <1>5, ResultIsOwn DEF Succeed
  <2>2. j # held[w].job => state'[j] = state[j]
    BY <2>1 DEF RecordProof, MoveTo, PromptInv, TypeOK
  <2>3. QED
    BY <2>1, <2>2 DEF RecordProof
<1>6. ASSUME NEW w \in Worker, Succeed(w), j # held[w].job
      PROVE  \A r \in jobAttempts : r.job = j => r \in jobAttempts'
  BY <1>5, <1>6, ResultWrites DEF PromptInv
<1>7. ASSUME NEW w \in Worker, Succeed(w), j = held[w].job
      PROVE  \E row \in jobAttempts' : /\ row.job = j /\ row.number = attempts'[j]
                                       /\ row.worker = proof'[j]
                                       /\ row.outcome = "succeeded"
  <2>1. PICK q \in jobAttempts : q.job = j /\ q.number = attempts[j] /\ q.worker = w
    BY <1>7, ResultIsOwn
  <2>2. [q EXCEPT !.outcome = "succeeded"] \in jobAttempts'
    BY <1>5, <1>7, <2>1, ResultWrites DEF PromptInv
  <2>3. proof'[j] = w /\ attempts'[j] = attempts[j]
    BY <1>5, <1>7 DEF RecordProof, PromptInv, TypeOK
  <2>4. q \in AttemptRows
    BY DEF PromptInv, TypeOK
  <2>5. QED
    BY <2>1, <2>2, <2>3, <2>4 DEF AttemptRows
<1>8. QED
  BY <1>1, <1>2, <1>3, <1>4, <1>5, <1>6, <1>7, PoolRecords

LEMMA PromptInductive ==
  ASSUME HeartbeatsKeepUp PROVE PoolSpec => []PromptInv
<1>1. PoolInit => LeasesHeld /\ AttemptsOnRecord /\ ProofComesFromTheLastAttempt
  BY DEF PoolInit, Init, LeasesHeld, WorkerHolds, RelayerHolds, AttemptsOnRecord, Occupied,
         ProofComesFromTheLastAttempt
<1>2. PromptInv /\ [PoolNext]_vars
        => (LeasesHeld /\ AttemptsOnRecord /\ ProofComesFromTheLastAttempt)'
  BY LeasesStep, OnRecordStep, LastAttemptStep DEF PromptInv
<1>3. PoolSpec => [](TypeOK /\ ProcessesOK /\ RowRules /\ AttemptsMatchRows)
  BY PoolImplementsStore, ProcessesInductive, RulesInductive, AttemptsAreAccounted, PTL
<1>4. QED
  BY <1>1, <1>2, <1>3, PTL DEF PoolSpec, PromptInv

\* The history agrees with the result: a job past proving has the proof of the
\* worker whose attempt was the last and is recorded as succeeded. It rests on
\* heartbeats that keep up: record_proof asks nobody who holds the lease.
THEOREM ProofsComeFromLastAttempts ==
  HeartbeatsKeepUp => (PoolSpec => []ProofComesFromTheLastAttempt)
<1> SUFFICES ASSUME HeartbeatsKeepUp PROVE PoolSpec => []ProofComesFromTheLastAttempt
  OBVIOUS
<1>1. PromptInv => ProofComesFromTheLastAttempt
  BY DEF PromptInv
<1>2. QED
  BY <1>1, PromptInductive, PTL

\* A row that is closed with a result is that of the attempt which the worker
\* that lets go at that moment was granted.
THEOREM ResultsAreOfOwnAttempts ==
  HeartbeatsKeepUp => (PoolSpec => ResultsCountForTheirOwnAttempt)
<1> SUFFICES ASSUME HeartbeatsKeepUp PROVE PoolSpec => ResultsCountForTheirOwnAttempt
  OBVIOUS
<1> DEFINE Own == \A row \in jobAttempts' \ jobAttempts :
                    row.outcome \in {"succeeded", "failed"} =>
                      \E w \in Worker : /\ held[w] = [job |-> row.job, attempt |-> row.number]
                                        /\ held'[w] = NoLease
                                        /\ row.worker = w
<1>1. ASSUME PromptInv, [PoolNext]_vars PROVE Own
  <2>1. ASSUME NEW w \in Worker, Succeed(w) \/ \E k \in FailureKinds : Fail(w, k) PROVE Own
    <3>1. PICK o \in {"succeeded", "failed"} : FinishAttempt(held[w].job, o)
      BY <2>1 DEF Succeed, Fail, RecordProof, RecordFailure
    <3>2. held[w].job \in Job /\ TypeOK
      BY <1>1, <2>1, ResultIsOwn DEF PromptInv
    <3>3. \A row \in jobAttempts' \ jobAttempts :
            row.job = held[w].job /\ row.number = attempts[held[w].job] /\ row.worker = w
      <4>1. \A q \in jobAttempts :
              q.job = held[w].job /\ q.number = attempts[held[w].job] => q.worker = w
        BY <1>1, <2>1, ResultIsOwn
      <4>2. \A r \in jobAttempts' \ jobAttempts : \E q \in jobAttempts :
              /\ q.job = held[w].job /\ q.number = attempts[held[w].job]
              /\ r.job = held[w].job /\ r.number = attempts[held[w].job]
              /\ r.worker = q.worker
        BY <3>1, <3>2, ResultWrites
      <4>3. QED
        BY <4>1, <4>2
    <3>4. /\ held[w] = [job |-> held[w].job, attempt |-> attempts[held[w].job]]
          /\ held'[w] = NoLease
      BY <1>1, <2>1, ResultIsOwn
    <3>5. QED
      BY <3>3, <3>4
  <2>2. QED
    BY <1>1, <2>1, PoolRecords
<1>2. PromptInv /\ [PoolNext]_vars => [Own]_vars
  BY <1>1
<1>3. QED
  BY <1>2, PromptInductive, PTL DEF PoolSpec, ResultsCountForTheirOwnAttempt

\* A job that has its proof is failed by its submission only.
THEOREM SubmissionAloneFailsProvedJobs ==
  HeartbeatsKeepUp => (PoolSpec => OnlySubmissionFailsAProvedJob)
<1> SUFFICES ASSUME HeartbeatsKeepUp PROVE PoolSpec => OnlySubmissionFailsAProvedJob
  OBVIOUS
<1> DEFINE Fails(j) == state[j] \in {"proved", "submitting"} /\ state'[j] = "failed"
           Due(j) == \/ submissionAttempts[j] >= MaxAttempts
                     \/ \E r \in Relayer : submitting[r] = j /\ submitting'[r] = NoJob
<1>1. ASSUME PromptInv, [PoolNext]_vars, NEW j \in Job, Fails(j) PROVE Due(j)
  <2> USE DEF PromptInv, TypeOK
  <2>1. ASSUME NEW w \in Worker, Succeed(w) \/ \E k \in FailureKinds : Fail(w, k) PROVE FALSE
    BY <1>1, <2>1, ResultIsOwn DEF Succeed, Fail, RecordProof, RecordFailure, MoveTo
  <2>2. ASSUME NEW i \in Job, NEW e, ApplyEvent(i, e),
               e \notin {"attempts_exhausted", "permanently_failed"}
        PROVE  FALSE
    <3>1. Transition(state[i], e) # "failed"
      BY <2>2 DEF Transition, AfterRetry
    <3>2. QED
      BY <1>1, <2>2, <3>1 DEF ApplyEvent, MoveTo
  <2>3. /\ ~ \E w \in Worker : HandBack(w) \/ GraceOver(w)
        /\ ~ \E r \in Relayer : HandBackSubmission(r)
    <3>1. \A w \in Worker : HandBack(w) \/ GraceOver(w) => held[w].job \in Job
      BY <1>1 DEF HandBack, GraceOver, ProcessesOK, Occupied
    <3>2. \A r \in Relayer : HandBackSubmission(r) => submitting[r] \in Job
      BY <1>1 DEF HandBackSubmission, ProcessesOK
    <3>3. QED
      BY <1>1, <2>2, <3>1, <3>2
         DEF HandBack, GraceOver, HandBackSubmission, ReleaseLease, columns
  <2>4. ASSUME NEW i \in Job, Quiet(i) PROVE FALSE
    <3>1. ~(BeginProving(i) \/ ConfirmSettled(i) \/ UnwindSettled(i))
      BY <2>2 DEF BeginProving, ConfirmSettled, UnwindSettled
    <3>2. QED
      BY <1>1, <2>4, <3>1 DEF Quiet, LeaseRunsOut, RetryComesDue, LeaseNext, RenewLease,
         LeaseNextProved, Waiting, MoveTo, Transition
  <2>5. ASSUME NEW r \in Relayer, NEW k \in FailureKinds, FailSubmission(r, k) PROVE Due(j)
    <3>1. submitting[r] \in Job /\ submitting'[r] = NoJob
      BY <1>1, <2>5 DEF FailSubmission, Release, ProcessesOK
    <3>2. submitting[r] = j
      BY <1>1, <2>5, <3>1 DEF FailSubmission, RecordSubmissionFailure, MoveTo
    <3>3. QED
      BY <3>1, <3>2
  <2>6. ASSUME NEW rows \in SUBSET Job, ReapExpired(rows) PROVE Due(j)
    <3>1. j \in rows /\ state[j] = "submitting" /\ Transition("submitting", ReapEvent(j)) = "failed"
      BY <1>1, <2>6 DEF ReapExpired, Expired, IsInFlight
    <3>2. ClassifyFailure("transient", submissionAttempts[j], MaxAttempts) # "retry_scheduled"
      BY <3>1 DEF ReapEvent, Transition, AfterRetry
    <3>3. QED
      BY <3>2 DEF ClassifyFailure
  <2>7. CASE UNCHANGED columns \/ \E i \in Job : Submit(i)
    BY <1>1, <2>7 DEF columns, Submit, Enqueue, MoveTo
  <2>8. QED
    BY <1>1, <2>1, <2>3, <2>4, <2>5, <2>6, <2>7, PoolStepIs DEF PoolNext, vars
<1>2. PromptInv /\ [PoolNext]_vars => [\A j \in Job : Fails(j) => Due(j)]_vars
  BY <1>1
<1>3. QED
  BY <1>2, PromptInductive, PTL DEF PoolSpec, OnlySubmissionFailsAProvedJob
-----------------------------------------------------------------------------
(* Without that assumption: workers stall, leases lapse under them, and    *)
(* results arrive late. What remains is the store's own guarantee.         *)

SuccessHasProof ==
  \A r \in jobAttempts : r.outcome = "succeeded" => proof[r.job] # NoOne

\* Only record_proof makes a row succeed, and it does so for the row that
\* carries the job's counter.
LEMMA SucceedsByRecordProof ==
  ASSUME TypeOK, [Next]_columns, NEW r \in jobAttempts', r.outcome = "succeeded",
         r \notin jobAttempts
  PROVE  \E j \in Job, a \in Actor :
           RecordProof(j, a) /\ r.job = j /\ r.number = attempts[j]
<1>1. ASSUME NEW j \in Job, NEW k \in FailureKinds, RecordFailure(j, k) PROVE FALSE
  <2>1. FinishAttempt(j, "failed")
    BY <1>1 DEF RecordFailure
  <2>2. QED
    BY <2>1 DEF FinishAttempt, TypeOK, AttemptRows
<1>2. ASSUME NEW j \in Job, NEW a \in Actor, RecordProof(j, a)
      PROVE  r.job = j /\ r.number = attempts[j]
  <2>1. FinishAttempt(j, "succeeded")
    BY <1>2 DEF RecordProof
  <2>2. QED
    BY <2>1 DEF FinishAttempt, TypeOK, AttemptRows
<1>3. ASSUME NEW j \in Job, NEW a \in Actor, LeaseNext(j, a) PROVE FALSE
  BY <1>3 DEF LeaseNext
<1>4. ASSUME NEW rows \in SUBSET Job, ReapExpired(rows) PROVE FALSE
  BY <1>4 DEF ReapExpired, TypeOK, AttemptRows
<1>5. ASSUME NEW j \in Job,
             \/ Enqueue(j) \/ BeginProving(j) \/ ReleaseLease(j)
             \/ ConfirmSettled(j) \/ UnwindSettled(j)
             \/ LeaseRunsOut(j) \/ RetryComesDue(j)
             \/ \E k \in FailureKinds : RecordSubmissionFailure(j, k)
             \/ \E a \in Actor : RenewLease(j, a) \/ LeaseNextProved(j, a)
      PROVE  FALSE
  BY <1>5 DEF Enqueue, BeginProving, ReleaseLease, ConfirmSettled, UnwindSettled,
              ApplyEvent, LeaseRunsOut, RetryComesDue, RecordSubmissionFailure,
              RenewLease, LeaseNextProved
<1>6. CASE UNCHANGED columns
  BY <1>6 DEF columns
<1>7. QED
  BY <1>1, <1>2, <1>3, <1>4, <1>5, <1>6 DEF Next, ServiceNext

LEMMA SuccessStep ==
  ASSUME TypeOK, TypeOK', RowRules, AttemptsMatchRows', SuccessHasProof, OneSuccessPerJob,
         [Next]_columns
  PROVE  SuccessHasProof' /\ OneSuccessPerJob'
<1>1. ASSUME NEW j \in Job, NEW a \in Actor, RecordProof(j, a)
      PROVE  proof[j] = NoOne /\ proof'[j] # NoOne
  <2>1. state[j] = "proving"
    BY <1>1 DEF RecordProof, CanTransition, Transition, AfterRetry
  <2>2. QED
    BY <1>1, <2>1, StoreAssumption DEF RecordProof, RowRules, ProofMatchesState, TypeOK
<1>2. ASSUME NEW r \in jobAttempts', r.outcome = "succeeded"
      PROVE  proof'[r.job] # NoOne
  <2>1. r.job \in Job
    BY DEF TypeOK, AttemptRows
  <2>2. CASE r \in jobAttempts
    BY <1>2, <2>1, <2>2, StoredProofStays DEF SuccessHasProof
  <2>3. CASE r \notin jobAttempts
    BY <1>1, <1>2, <2>3, SucceedsByRecordProof
  <2>4. QED  BY <2>2, <2>3
\* A new success is of a job that had none: it had no proof.
<1>3. ASSUME NEW r1 \in jobAttempts', NEW r2 \in jobAttempts',
             r1.outcome = "succeeded", r2.outcome = "succeeded", r1.job = r2.job,
             r1 \notin jobAttempts
      PROVE  r1 = r2
  <2>1. PICK j \in Job, a \in Actor :
           RecordProof(j, a) /\ r1.job = j /\ r1.number = attempts[j]
    BY <1>3, SucceedsByRecordProof
  <2>2. r2 \notin jobAttempts
    BY <1>1, <1>3, <2>1 DEF SuccessHasProof
  <2>3. r2.number = attempts[j]
    BY <1>3, <2>1, <2>2, SucceedsByRecordProof
  <2>4. \A q1, q2 \in jobAttempts' :
           q1.job = q2.job /\ q1.number = q2.number => q1 = q2
    BY Zenon DEF AttemptsMatchRows
  <2>5. QED
    BY <1>3, <2>1, <2>3, <2>4
<1>4. OneSuccessPerJob'
  BY <1>3 DEF OneSuccessPerJob
<1>5. QED
  BY <1>2, <1>4 DEF SuccessHasProof

\* However late results arrive, and from however many workers that no longer
\* hold the lease, a job is recorded as proved by at most one attempt.
THEOREM AtMostOneSuccess == PoolSpec => []OneSuccessPerJob
<1>1. Init => SuccessHasProof /\ OneSuccessPerJob
  BY DEF Init, SuccessHasProof, OneSuccessPerJob
<1>2. /\ TypeOK /\ RowRules /\ TypeOK' /\ AttemptsMatchRows'
      /\ SuccessHasProof /\ OneSuccessPerJob /\ [Next]_columns
      => (SuccessHasProof /\ OneSuccessPerJob)'
  BY SuccessStep
<1>3. Spec => []OneSuccessPerJob
  BY <1>1, <1>2, RulesInductive, AttemptsAreAccounted, PTL DEF Spec
<1>4. QED
  BY <1>3, PoolImplementsStore, PTL

\* What a process knows though it may no longer hold anything: a worker in its
\* grace period was told to stop, the job a relayer works on has a proof. And
\* no attempt was made at what was never submitted.
KnownAnyway ==
  /\ \A w \in Worker : pc[w] = "draining" => shutdown[w]
  /\ \A r \in Relayer : submitting[r] # NoJob => proof[submitting[r]] # NoOne
  /\ \A j \in Job : state[j] = "absent" => attempts[j] = 0

LEMMA GraceStep ==
  ASSUME PoolTypeOK, KnownAnyway, [PoolNext]_vars, NEW w \in Worker, pc'[w] = "draining"
  PROVE  shutdown'[w]
<1> USE DEF PoolTypeOK, KnownAnyway
<1>1. CASE UNCHANGED <<pc, shutdown>>
  BY <1>1
<1>2. ASSUME NEW v \in Worker, Progress(v) PROVE shutdown'[w]
  BY <1>2 DEF Progress, Poll, HandBack, StartProving, StartRefused, Succeed, ResultDropped,
     Fail, HeartbeatRefused, Drain, GraceOver, Stop, LetGo
<1>3. ASSUME NEW v \in Worker, Crash(v) \/ Restart(v) \/ RequestShutdown(v)
      PROVE  shutdown'[w]
  BY <1>3 DEF Crash, Restart, RequestShutdown
<1>4. QED
  BY <1>1, <1>2, <1>3 DEF PoolNext, ProcessesNext, SubmissionProgress, Heartbeat,
     PollAnswerLost, TakeProof, Settle, FailSubmission, AbandonSubmission,
     CountedInterruption, Interruption, HandBackSubmission, ReorgSeen,
     Release, RelayerHeartbeat, Submit, TimePasses, Reap, processes, vars

LEMMA TakenHasProofStep ==
  ASSUME TypeOK, RowRules, PoolTypeOK, KnownAnyway, [Next]_columns, [PoolNext]_vars,
         NEW r \in Relayer, submitting'[r] # NoJob
  PROVE  proof'[submitting'[r]] # NoOne
<1>1. CASE submitting'[r] = submitting[r]
  BY <1>1, StoredProofStays DEF PoolTypeOK, KnownAnyway
<1>2. ASSUME NEW s \in Relayer, NEW j \in Job, TakeProof(s, j), submitting'[r] # submitting[r]
      PROVE  proof'[submitting'[r]] # NoOne
  <2>1. submitting'[r] = j /\ state[j] = "proved" /\ proof' = proof
    BY <1>2 DEF TakeProof, LeaseNextProved, Waiting, PoolTypeOK
  <2>2. QED
    BY <2>1 DEF RowRules, ProofMatchesState
<1>3. ASSUME NEW s \in Relayer, submitting' = [submitting EXCEPT ![s] = NoJob]
      PROVE  submitting'[r] = submitting[r]
  BY <1>3 DEF PoolTypeOK
<1>4. ASSUME UNCHANGED submitting PROVE submitting'[r] = submitting[r]
  BY <1>4
<1>5. ASSUME NEW v \in Worker, Progress(v) PROVE UNCHANGED submitting
  BY <1>5 DEF Progress, Poll, HandBack, StartProving, StartRefused, Succeed, ResultDropped,
     Fail, HeartbeatRefused, Drain, GraceOver, Stop, LetGo
<1>6. QED
  BY <1>1, <1>2, <1>3, <1>4, <1>5 DEF PoolNext, ProcessesNext, SubmissionProgress, Heartbeat,
     PollAnswerLost, Settle, FailSubmission, AbandonSubmission, Release, CountedInterruption,
     Interruption, HandBackSubmission, ReorgSeen, Crash, Restart, RequestShutdown,
     RelayerHeartbeat, Submit, TimePasses, Reap, processes, vars

LEMMA AbsentStep ==
  ASSUME TypeOK, KnownAnyway, [Next]_columns, NEW j \in Job, state'[j] = "absent"
  PROVE  attempts'[j] = 0
<1> USE DEF KnownAnyway, TypeOK
<1>1. ASSUME NEW s \in States, NEW i \in Job, MoveTo(i, s) PROVE i # j
  BY <1>1 DEF MoveTo, States
<1>2. ASSUME state'[j] = state[j], attempts'[j] = attempts[j] PROVE attempts'[j] = 0
  BY <1>2
<1>3. ASSUME NEW i \in Job, NEW e, CanTransition(state[i], e), MoveTo(i, Transition(state[i], e)),
             attempts' = attempts
      PROVE  attempts'[j] = 0
  BY <1>1, <1>2, <1>3, TransitionInStates DEF MoveTo
<1>4. ASSUME NEW i \in Job,
             \/ BeginProving(i) \/ ReleaseLease(i) \/ ConfirmSettled(i) \/ UnwindSettled(i)
             \/ \E k \in FailureKinds : RecordFailure(i, k) \/ RecordSubmissionFailure(i, k)
             \/ \E a \in Actor : RecordProof(i, a)
      PROVE  attempts'[j] = 0
  BY <1>3, <1>4 DEF BeginProving, ReleaseLease, ConfirmSettled, UnwindSettled, ApplyEvent,
                    RecordFailure, RecordSubmissionFailure, RecordProof
<1>5. ASSUME NEW i \in Job, NEW a \in Actor, LeaseNext(i, a) PROVE attempts'[j] = 0
  <2>1. Transition("queued", "leased") \in States
    BY DEF Transition, States
  <2>2. i # j
    BY <1>1, <1>5, <2>1 DEF LeaseNext
  <2>3. QED
    BY <1>2, <1>5, <2>2 DEF LeaseNext, MoveTo
<1>6. ASSUME NEW i \in Job, NEW a \in Actor, LeaseNextProved(i, a) PROVE attempts'[j] = 0
  <2>1. CanTransition(state[i], "submission_started")
    BY <1>6 DEF LeaseNextProved, Waiting, CanTransition, Transition
  <2>2. QED
    BY <1>3, <1>6, <2>1 DEF LeaseNextProved, Waiting
<1>7. ASSUME NEW i \in Job,
             \/ Enqueue(i) \/ LeaseRunsOut(i) \/ RetryComesDue(i)
             \/ \E a \in Actor : RenewLease(i, a)
      PROVE  attempts'[j] = 0
  BY <1>2, <1>7 DEF Enqueue, MoveTo, LeaseRunsOut, RetryComesDue, RenewLease
<1>8. ASSUME NEW rows \in SUBSET Job, ReapExpired(rows) PROVE attempts'[j] = 0
  <2>1. \A i \in rows : state'[i] # "absent"
    BY <1>8 DEF ReapExpired, Expired, IsInFlight, ReapEvent, ClassifyFailure, Transition, AfterRetry
  <2>2. QED
    BY <1>2, <1>8, <2>1 DEF ReapExpired
<1>9. CASE UNCHANGED columns
  BY <1>9 DEF columns
<1>10. QED
  BY <1>4, <1>5, <1>6, <1>7, <1>8, <1>9 DEF Next, ServiceNext

LEMMA KnownInductive == PoolSpec => []KnownAnyway
<1>1. PoolInit => KnownAnyway
  BY DEF PoolInit, Init, KnownAnyway
<1>2. PoolTypeOK /\ ProcessesOK /\ RowRules /\ KnownAnyway /\ [PoolNext]_vars => KnownAnyway'
  <2> SUFFICES ASSUME PoolTypeOK, ProcessesOK, RowRules, KnownAnyway, [PoolNext]_vars
               PROVE  KnownAnyway'
    OBVIOUS
  <2>1. TypeOK /\ [Next]_columns
    BY StoreStep DEF PoolTypeOK
  <2>2. QED
    BY <2>1, GraceStep, TakenHasProofStep, AbsentStep DEF KnownAnyway
<1>3. PoolSpec => []RowRules
  BY PoolImplementsStore, RulesInductive, PTL
<1>4. QED
  BY <1>1, <1>2, <1>3, PoolTypeCorrect, ProcessesInductive, PTL DEF PoolSpec

\* A job whose proving budget is spent goes back to the queue only when a
\* worker that was told to shut down hands it back: the reaper, a recorded
\* failure and a stale submission all find the budget spent, or the job past
\* the queue. The budget is overrun by shutdowns and by nothing else.
THEOREM OnlyHandBackOverrunsBudget == PoolSpec => SpentJobsComeBackOnlyByHandBack
<1> DEFINE Returns(j) == /\ attempts[j] >= MaxAttempts
                         /\ state[j] # "queued" /\ state'[j] = "queued"
           HandsBack(j) == \E w \in Worker : held[w].job = j /\ shutdown[w] /\ held'[w] = NoLease
<1>1. ASSUME PoolTypeOK, ProcessesOK, RowRules, KnownAnyway, [PoolNext]_vars,
             NEW j \in Job, Returns(j)
      PROVE  HandsBack(j)
  <2> USE <1>1, StoreAssumption DEF PoolTypeOK, TypeOK
  <2>1. state[j] # "absent" /\ attempts[j] >= MaxAttempts
    BY DEF KnownAnyway
  <2>2. ASSUME NEW w \in Worker, HandBack(w) \/ GraceOver(w) PROVE HandsBack(j)
    <3>1. shutdown[w] /\ held[w].job \in Job /\ held'[w] = NoLease
      BY <2>2 DEF HandBack, GraceOver, LetGo, KnownAnyway, ProcessesOK, Occupied
    <3>2. held[w].job = j
      BY <2>2, <3>1 DEF HandBack, GraceOver, ReleaseLease, ApplyEvent, MoveTo, columns
    <3>3. QED
      BY <3>1, <3>2
  <2>3. ASSUME NEW w \in Worker, NEW k \in FailureKinds, Fail(w, k) PROVE FALSE
    <3>1. RecordFailure(held[w].job, k) /\ held[w].job \in Job
      BY <2>3 DEF Fail, ProcessesOK, Occupied
    <3>2. held[w].job = j
      BY <3>1 DEF RecordFailure, MoveTo
    <3>3. ClassifyFailure(k, attempts[j], MaxAttempts) # "retry_scheduled"
      BY <2>1 DEF ClassifyFailure, FailureKinds
    <3>4. Transition(state[j], ClassifyFailure(k, attempts[j], MaxAttempts)) # "queued"
      BY <3>3 DEF ClassifyFailure, Transition
    <3>5. QED
      BY <3>1, <3>2, <3>4 DEF RecordFailure, MoveTo
  <2>4. ASSUME NEW r \in Relayer, NEW k \in FailureKinds, FailSubmission(r, k) PROVE FALSE
    <3>1. RecordSubmissionFailure(submitting[r], k) /\ submitting[r] \in Job
      BY <2>4 DEF FailSubmission, ProcessesOK
    <3>2. submitting[r] = j
      BY <3>1 DEF RecordSubmissionFailure, MoveTo
    <3>3. state[j] \notin {"queued", "leased", "proving"}
      BY <2>4, <3>2 DEF FailSubmission, KnownAnyway, RowRules, ProofMatchesState
    <3>4. \A e : Transition(state[j], e) # "queued"
      BY <3>3 DEF Transition, AfterRetry
    <3>5. QED
      BY <3>1, <3>2, <3>4 DEF RecordSubmissionFailure, MoveTo
  <2>a. ASSUME NEW r \in Relayer, HandBackSubmission(r) PROVE FALSE
    <3>1. ReleaseLease(submitting[r]) /\ submitting[r] \in Job
      BY <2>a DEF HandBackSubmission, ProcessesOK
    <3>2. submitting[r] = j
      BY <3>1 DEF ReleaseLease, ApplyEvent, MoveTo
    <3>3. state[j] \notin {"queued", "leased", "proving"}
      BY <2>a, <3>2 DEF HandBackSubmission, KnownAnyway, RowRules, ProofMatchesState
    <3>4. \A e : Transition(state[j], e) # "queued"
      BY <3>3 DEF Transition, AfterRetry
    <3>5. QED
      BY <3>1, <3>2, <3>4 DEF ReleaseLease, ApplyEvent, MoveTo
  <2>5. ASSUME NEW w \in Worker, Succeed(w) PROVE FALSE
    <3>1. RecordProof(held[w].job, w) /\ held[w].job \in Job
      BY <2>5 DEF Succeed, ProcessesOK, Occupied
    <3>2. \A s : Transition(s, "proof_succeeded") # "queued"
      BY DEF Transition
    <3>3. QED
      BY <3>1, <3>2 DEF RecordProof, MoveTo
  <2>6. ASSUME NEW i \in Job, Quiet(i) PROVE FALSE
    <3>1. \A s, e : e \in {"leased", "proving_started", "settlement_confirmed",
                           "submission_started", "reorged"} => Transition(s, e) # "queued"
      BY DEF Transition
    <3>2. QED
      BY <2>6, <3>1 DEF Quiet, BeginProving, ConfirmSettled, UnwindSettled, ApplyEvent, LeaseRunsOut,
         RetryComesDue, LeaseNext, RenewLease, LeaseNextProved, MoveTo
  <2>7. ASSUME NEW rows \in SUBSET Job, ReapExpired(rows) PROVE FALSE
    <3>1. j \in rows /\ Transition(state[j], ReapEvent(j)) = "queued" /\ IsInFlight(state[j])
      BY <2>7 DEF ReapExpired, Expired
    <3>2. state[j] # "submitting"
      BY <3>1 DEF Transition, AfterRetry
    <3>3. ReapEvent(j) = "attempts_exhausted"
      BY <2>1, <3>2 DEF ReapEvent, ClassifyFailure
    <3>4. QED
      BY <3>1, <3>3 DEF Transition
  <2>8. CASE UNCHANGED columns \/ \E i \in Job : Submit(i)
    BY <2>1, <2>8 DEF columns, Submit, Enqueue, MoveTo
  <2>9. QED
    BY <2>2, <2>3, <2>4, <2>a, <2>5, <2>6, <2>7, <2>8, PoolStepIs DEF PoolNext, vars
<1>2. PoolTypeOK /\ ProcessesOK /\ RowRules /\ KnownAnyway /\ [PoolNext]_vars
        => [\A j \in Job : Returns(j) => HandsBack(j)]_vars
  BY <1>1
<1>3. PoolSpec => []RowRules
  BY PoolImplementsStore, RulesInductive, PTL
<1>4. QED
  BY <1>2, <1>3, KnownInductive, PoolTypeCorrect, ProcessesInductive, PTL
     DEF PoolSpec, SpentJobsComeBackOnlyByHandBack
=============================================================================
