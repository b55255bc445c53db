----------------------------- MODULE WorkerPool -----------------------------
(***************************************************************************)
(* The processes that call the store: workers that lease a job, prove it   *)
(* and record the result, the reaper each of them runs, and relayers that  *)
(* take what is proved. A worker is one run of the lease loop; its         *)
(* heartbeat is a separate task that races the proof.                      *)
(*                                                                         *)
(* A store call commits in one step and its answer is used in a later one, *)
(* so a caller acts on what it last read: between taking a lease and       *)
(* recording the result, the lease may run out, be reaped, and be granted  *)
(* to somebody else.                                                       *)
(*                                                                         *)
(* The relayer is kept to what it does to the job row; what it does on     *)
(* chain is left open.                                                     *)
(***************************************************************************)
EXTENDS JobStore

CONSTANTS
  Worker, Relayer,   \* the processes, by their ids
  NoJob,             \* a process that holds nothing
  Disturbances,      \* bound on crashes, shutdown requests and reorgs together
  HeartbeatsKeepUp   \* whether a running holder always renews in time

ASSUME PoolAssumption ==
  /\ Worker \cup Relayer = Actor
  /\ Worker \cap Relayer = {}
  /\ NoJob \notin Job
  /\ Disturbances \in Nat
  /\ HeartbeatsKeepUp \in BOOLEAN

VARIABLES
  pc,          \* where each worker is in run and attempt
  held,        \* the job each worker works on, and the attempt it leased
  shutdown,    \* the shutdown signal each worker sees
  submitting,  \* the job each relayer works on
  disturbances \* crashes, shutdown requests and reorgs so far

processes == <<pc, held, shutdown, submitting, disturbances>>
vars == <<columns, processes>>

NoLease == [job |-> NoJob, attempt |-> 0]

PoolTypeOK ==
  /\ TypeOK
  /\ pc \in [Worker -> {"polling", "leased", "proving", "draining", "stopped"}]
  /\ held \in [Worker -> [job : Job, attempt : Nat] \cup {NoLease}]
  /\ shutdown \in [Worker -> BOOLEAN]
  /\ submitting \in [Relayer -> Job \cup {NoJob}]
  /\ disturbances \in 0..Disturbances

PoolInit ==
  /\ Init
  /\ pc = [w \in Worker |-> "polling"]
  /\ held = [w \in Worker |-> NoLease]
  /\ shutdown = [w \in Worker |-> FALSE]
  /\ submitting = [r \in Relayer |-> NoJob]
  /\ disturbances = 0

\* Process a is working on job j, whatever the store says of it.
Working(w, j) == pc[w] \in {"leased", "proving", "draining"} /\ held[w].job = j
Busy(a, j) == IF a \in Worker THEN Working(a, j) ELSE submitting[a] = j
-----------------------------------------------------------------------------
(* One worker. *)

\* The attempt is over: back to the loop, holding nothing.
LetGo(w) ==
  /\ pc' = [pc EXCEPT ![w] = "polling"]
  /\ held' = [held EXCEPT ![w] = NoLease]
  /\ UNCHANGED <<shutdown, submitting, disturbances>>

\* run, the lease_next call. The loop stops before it once shutdown is seen.
Poll(w, j) ==
  /\ pc[w] = "polling" /\ ~shutdown[w]
  /\ LeaseNext(j, w)
  /\ pc' = [pc EXCEPT ![w] = "leased"]
  /\ held' = [held EXCEPT ![w] = [job |-> j, attempt |-> attempts'[j]]]
  /\ UNCHANGED <<shutdown, submitting, disturbances>>

\* The lease commits but its answer never arrives: the worker sees an error
\* and polls again, and a job is leased that nobody works on.
PollAnswerLost(w, j) ==
  /\ pc[w] = "polling" /\ ~shutdown[w]
  /\ LeaseNext(j, w)
  /\ UNCHANGED processes

\* run, after the lease: shutdown arrived meanwhile, hand the job back.
\* The release itself may fail, and then the lease is left to run out.
HandBack(w) ==
  /\ pc[w] = "leased" /\ shutdown[w]
  /\ ReleaseLease(held[w].job) \/ UNCHANGED columns
  /\ pc' = [pc EXCEPT ![w] = "stopped"]
  /\ held' = [held EXCEPT ![w] = NoLease]
  /\ UNCHANGED <<shutdown, submitting, disturbances>>

\* attempt: mark the job as proving and start the prover and the heartbeat.
StartProving(w) ==
  /\ pc[w] = "leased" /\ ~shutdown[w]
  /\ BeginProving(held[w].job)
  /\ pc' = [pc EXCEPT ![w] = "proving"]
  /\ UNCHANGED <<held, shutdown, submitting, disturbances>>

\* attempt: begin_proving was refused or failed; nothing is recorded.
StartRefused(w) ==
  /\ pc[w] = "leased" /\ ~shutdown[w]
  /\ LetGo(w)
  /\ UNCHANGED columns

\* heartbeat: a renewal that is granted. One that errors changes nothing.
Heartbeat(w) ==
  /\ pc[w] \in {"proving", "draining"}
  /\ RenewLease(held[w].job, w)
  /\ UNCHANGED processes

\* heartbeat: a renewal that is refused ends the attempt, and nothing is
\* recorded. Once the worker waits out the shutdown grace it no longer
\* listens to the heartbeat.
HeartbeatRefused(w) ==
  /\ pc[w] = "proving"
  /\ ~Holds(w, held[w].job)
  /\ LetGo(w)
  /\ UNCHANGED columns

\* record, for a proof that was produced.
Succeed(w) ==
  /\ pc[w] \in {"proving", "draining"}
  /\ RecordProof(held[w].job, w)
  /\ LetGo(w)

\* record, for a proof that failed, transiently or for good.
Fail(w, kind) ==
  /\ pc[w] \in {"proving", "draining"}
  /\ RecordFailure(held[w].job, kind)
  /\ LetGo(w)

\* record, when the store refuses or cannot be reached: logged and dropped.
ResultDropped(w) ==
  /\ pc[w] \in {"proving", "draining"}
  /\ LetGo(w)
  /\ UNCHANGED columns

\* attempt: shutdown is seen while proving, and the grace period begins.
Drain(w) ==
  /\ pc[w] = "proving" /\ shutdown[w]
  /\ pc' = [pc EXCEPT ![w] = "draining"]
  /\ UNCHANGED <<columns, held, shutdown, submitting, disturbances>>

\* attempt: the grace period is over and the lease is released, if the store
\* lets it be.
GraceOver(w) ==
  /\ pc[w] = "draining"
  /\ ReleaseLease(held[w].job) \/ UNCHANGED columns
  /\ LetGo(w)

\* run: the loop sees the shutdown signal and ends.
Stop(w) ==
  /\ pc[w] = "polling" /\ shutdown[w]
  /\ pc' = [pc EXCEPT ![w] = "stopped"]
  /\ UNCHANGED <<columns, held, shutdown, submitting, disturbances>>

\* The process dies, with whatever it was doing.
Crash(w) ==
  /\ pc[w] # "stopped"
  /\ disturbances < Disturbances
  /\ pc' = [pc EXCEPT ![w] = "stopped"]
  /\ held' = [held EXCEPT ![w] = NoLease]
  /\ disturbances' = disturbances + 1
  /\ UNCHANGED <<columns, shutdown, submitting>>

\* A new process under the same configured id.
Restart(w) ==
  /\ pc[w] = "stopped"
  /\ pc' = [pc EXCEPT ![w] = "polling"]
  /\ shutdown' = [shutdown EXCEPT ![w] = FALSE]
  /\ UNCHANGED <<columns, held, submitting, disturbances>>

\* ShutdownHandle::trigger
RequestShutdown(w) ==
  /\ pc[w] # "stopped" /\ ~shutdown[w]
  /\ disturbances < Disturbances
  /\ shutdown' = [shutdown EXCEPT ![w] = TRUE]
  /\ disturbances' = disturbances + 1
  /\ UNCHANGED <<columns, pc, held, submitting>>

\* What the loop itself does next, as opposed to what happens to it.
Progress(w) ==
  \/ \E j \in Job : Poll(w, j)
  \/ HandBack(w) \/ StartProving(w) \/ StartRefused(w)
  \/ Succeed(w) \/ ResultDropped(w) \/ \E kind \in FailureKinds : Fail(w, kind)
  \/ HeartbeatRefused(w) \/ Drain(w) \/ GraceOver(w) \/ Stop(w)
-----------------------------------------------------------------------------
(* Relayers, as far as the job row shows. *)

Release(r) ==
  /\ submitting' = [submitting EXCEPT ![r] = NoJob]
  /\ UNCHANGED <<pc, held, shutdown, disturbances>>

TakeProof(r, j) ==
  /\ submitting[r] = NoJob
  /\ LeaseNextProved(j, r)
  /\ submitting' = [submitting EXCEPT ![r] = j]
  /\ UNCHANGED <<pc, held, shutdown, disturbances>>

RelayerHeartbeat(r) ==
  /\ submitting[r] # NoJob
  /\ RenewLease(submitting[r], r)
  /\ UNCHANGED processes

Settle(r) ==
  /\ submitting[r] # NoJob
  /\ ConfirmSettled(submitting[r])
  /\ Release(r)

FailSubmission(r, kind) ==
  /\ submitting[r] # NoJob
  /\ RecordSubmissionFailure(submitting[r], kind)
  /\ Release(r)

\* Heartbeat refused, a result the store would not take, or a crash: the
\* relayer forgets the job and the row is left as it is.
AbandonSubmission(r) ==
  /\ submitting[r] # NoJob
  /\ Release(r)
  /\ UNCHANGED columns

\* Shutdown outlasts the grace, and the lease is released. If the store does
\* not let it be, the job is abandoned.
HandBackSubmission(r) ==
  /\ submitting[r] # NoJob
  /\ ReleaseLease(submitting[r])
  /\ submitting' = [submitting EXCEPT ![r] = NoJob]
  /\ UNCHANGED <<pc, held, shutdown>>

\* reorg_watch, in any relayer: a settlement is gone. It need not be that of
\* the job the relayer works on.
ReorgSeen(j) ==
  /\ UnwindSettled(j)
  /\ UNCHANGED <<pc, held, shutdown, submitting>>

\* Neither has a bound of its own: both are counted as disturbances.
Interruption(r) == HandBackSubmission(r) \/ \E j \in Job : ReorgSeen(j)

CountedInterruption(r) ==
  /\ Interruption(r)
  /\ disturbances < Disturbances
  /\ disturbances' = disturbances + 1

SubmissionProgress(r) ==
  \/ \E j \in Job : TakeProof(r, j)
  \/ Settle(r) \/ AbandonSubmission(r)
  \/ \E kind \in FailureKinds : FailSubmission(r, kind)
-----------------------------------------------------------------------------
(* Clients, the reaper and time. *)

Submit(j) == Enqueue(j) /\ UNCHANGED processes

\* reap_loop, in any worker or relayer that runs.
Reap ==
  /\ Relayer # {} \/ \E w \in Worker : pc[w] # "stopped"
  /\ \E rows \in SUBSET Expired : ReapExpired(rows)
  /\ UNCHANGED processes

\* The interval between renewals is a sixth of the lease: a lease runs out
\* under a running holder only if the holder stalls, or the database refuses
\* its renewals, for that long. HeartbeatsKeepUp says neither happens.
TimePasses(j) ==
  /\ \/ /\ LeaseRunsOut(j)
        /\ HeartbeatsKeepUp => \A a \in Actor : Busy(a, j) => leasedBy[j] # a
     \/ RetryComesDue(j)
  /\ UNCHANGED processes

\* All that the relayers, their reapers and time do to the jobs table.
RelayersNext ==
  \/ \E r \in Relayer : SubmissionProgress(r) \/ RelayerHeartbeat(r) \/ Interruption(r)
  \/ \E j \in Job : TimePasses(j)
  \/ Reap

\* What goes on behind the API.
ProcessesNext ==
  \/ \E w \in Worker :
       \/ Progress(w) \/ Heartbeat(w)
       \/ Crash(w) \/ Restart(w) \/ RequestShutdown(w)
       \/ \E j \in Job : PollAnswerLost(w, j)
  \/ \E r \in Relayer :
       SubmissionProgress(r) \/ RelayerHeartbeat(r) \/ CountedInterruption(r)
  \/ \E j \in Job : TimePasses(j)
  \/ Reap

PoolNext == ProcessesNext \/ \E j \in Job : Submit(j)

PoolSpec == PoolInit /\ [][PoolNext]_vars

\* A running process goes on with its loop, the prover being bounded by its
\* wall clock; a stopped one is started again; clocks advance; the reaper
\* ticks and takes every row it can lock.
ReapAll == Reap /\ \A j \in Expired : leaseExpiry'[j] = "none"

PoolFairness ==
  /\ \A w \in Worker : WF_vars(Progress(w)) /\ WF_vars(Restart(w))
  /\ \A r \in Relayer : WF_vars(SubmissionProgress(r))
  /\ \A j \in Job : WF_vars(TimePasses(j))
  /\ WF_vars(ReapAll)

FairPoolSpec == PoolSpec /\ PoolFairness
-----------------------------------------------------------------------------
(* Properties. *)

\* While heartbeats keep up, whoever works on a job holds its lease for the
\* attempt it works on: no result is ever produced for somebody else's
\* attempt, and no job is proved by two workers at once.
WorkersHoldTheirLease ==
  \A w \in Worker, j \in Job :
    Working(w, j) => leasedBy[j] = w /\ attempts[j] = held[w].attempt

\* A result is written against the attempt its worker leased: the row that
\* is closed as succeeded or failed is the row of a worker that stops
\* working on that very attempt.
ResultsCountForTheirOwnAttempt ==
  [][\A row \in jobAttempts' \ jobAttempts :
       row.outcome \in {"succeeded", "failed"} =>
         \E w \in Worker : /\ held[w] = [job |-> row.job, attempt |-> row.number]
                           /\ held'[w] = NoLease
                           /\ row.worker = w]_vars

\* The history agrees with the result: the proof stored for a job is that of
\* the worker whose attempt is the job's last and is recorded as succeeded.
ProofComesFromTheLastAttempt ==
  \A j \in Job : state[j] \in {"proved", "submitting", "settled"} =>
    \E row \in jobAttempts : /\ row.job = j /\ row.number = attempts[j]
                             /\ row.worker = proof[j]
                             /\ row.outcome = "succeeded"

\* Once a proof is stored, only submission can fail the job: either the
\* relayer that holds it gives it up, or the submission budget is spent. No
\* late result of a worker discards a proof.
OnlySubmissionFailsAProvedJob ==
  [][\A j \in Job :
       state[j] \in {"proved", "submitting"} /\ state'[j] = "failed" =>
         \/ submissionAttempts[j] >= MaxAttempts
         \/ \E r \in Relayer : submitting[r] = j /\ submitting'[r] = NoJob]_vars

\* However late results arrive, a job succeeds in at most one attempt.
OneSuccessPerJob ==
  \A r1, r2 \in {r \in jobAttempts : r.outcome = "succeeded"} :
    r1.job = r2.job => r1 = r2

\* The budget is overrun only by handing back: a job that has had its attempts
\* returns to the queue only from a worker that was told to shut down, never
\* after a crash, a stall or a failure.
SpentJobsComeBackOnlyByHandBack ==
  [][\A j \in Job :
       /\ attempts[j] >= MaxAttempts
       /\ state[j] # "queued" /\ state'[j] = "queued"
       => \E w \in Worker : held[w].job = j /\ shutdown[w] /\ held'[w] = NoLease]_vars

\* Every accepted job is settled or failed in the end, whatever crashes,
\* stalls, lost answers and shutdowns happen on the way.
EveryJobIsDecided ==
  \A j \in Job : state[j] = "queued" ~> state[j] \in {"settled", "failed"}
=============================================================================
