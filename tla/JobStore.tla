------------------------------ MODULE JobStore ------------------------------
(***************************************************************************)
(* The Postgres store of dray-store, as the jobs and job_attempts tables   *)
(* and the operations on them. Every operation of the code is one          *)
(* transaction that locks the row it changes, so each is one action here.  *)
(*                                                                         *)
(* The operations are specified for ANY caller: which process calls which  *)
(* operation, in what order and on which job is left open. WorkerPool      *)
(* adds the processes that call them.                                      *)
(*                                                                         *)
(* A job stands for its content hash, which is what the table is unique    *)
(* on. Each column is a variable indexed by job. Timestamps are abstracted *)
(* to what the queries compare them with: a lease expires in the future or *)
(* the past, a retry is due later or already.                              *)
(***************************************************************************)
EXTENDS JobLifecycle

CONSTANTS Job,          \* content hashes of the work that may be submitted
          Actor,        \* ids of the workers and relayers
          NoOne,        \* a NULL leased_by, or a NULL proof
          MaxAttempts   \* max_attempts of every job

ASSUME StoreAssumption ==
  /\ NoOne \notin Actor
  /\ MaxAttempts \in Nat \ {0}

VARIABLES
  state,              \* "absent" before the row exists
  leasedBy,           \* leased_by
  leaseExpiry,        \* lease_expires_at: NULL, in the future, in the past
  attempts,           \* proving attempts, counted when the lease is taken
  submissionAttempts, \* submission attempts, counted likewise
  proof,              \* the stored proof, named by the worker that stored it
  retryAfter,         \* retry_after: NULL, still ahead, already due
  jobAttempts         \* the job_attempts table, a set of rows

columns == <<state, leasedBy, leaseExpiry, attempts, submissionAttempts,
             proof, retryAfter, jobAttempts>>

Outcomes == {"open", "succeeded", "failed", "abandoned"}

AttemptRows == [job : Job, number : Nat, worker : Actor, outcome : Outcomes]

TypeOK ==
  /\ state \in [Job -> States \cup {"absent"}]
  /\ leasedBy \in [Job -> Actor \cup {NoOne}]
  /\ leaseExpiry \in [Job -> {"none", "future", "past"}]
  /\ attempts \in [Job -> Nat]
  /\ submissionAttempts \in [Job -> Nat]
  /\ proof \in [Job -> Actor \cup {NoOne}]
  /\ retryAfter \in [Job -> {"none", "later", "due"}]
  /\ jobAttempts \subseteq AttemptRows

Init ==
  /\ state = [j \in Job |-> "absent"]
  /\ leasedBy = [j \in Job |-> NoOne]
  /\ leaseExpiry = [j \in Job |-> "none"]
  /\ attempts = [j \in Job |-> 0]
  /\ submissionAttempts = [j \in Job |-> 0]
  /\ proof = [j \in Job |-> NoOne]
  /\ retryAfter = [j \in Job |-> "none"]
  /\ jobAttempts = {}
-----------------------------------------------------------------------------
(* Pieces the transactions share. *)

MoveTo(j, s) == state' = [state EXCEPT ![j] = s]

GrantLease(j, a) ==
  /\ leasedBy' = [leasedBy EXCEPT ![j] = a]
  /\ leaseExpiry' = [leaseExpiry EXCEPT ![j] = "future"]

\* Slip: the holder is cleared and the expiry is not.
ClearHolderOnly(j) ==
  leasedBy' = [leasedBy EXCEPT ![j] = NoOne] /\ UNCHANGED leaseExpiry

ClearLease(j) ==
  /\ leasedBy' = [leasedBy EXCEPT ![j] = NoOne]
  /\ leaseExpiry' = [leaseExpiry EXCEPT ![j] = "none"]

\* A row its queue may hand out: waiting in s, with no retry still ahead.
Waiting(j, s) == state[j] = s /\ retryAfter[j] # "later"

\* What renew_lease asks: a is the holder and the state is renewable.
Holds(a, j) == leasedBy[j] = a /\ IsInFlight(state[j])

\* Slip: the row is looked up by the counter as it was before the lease.
FinishPreviousAttempt(j, outcome) ==
  jobAttempts' = {IF r.job = j /\ r.number = attempts[j] - 1
                    THEN [r EXCEPT !.outcome = outcome] ELSE r : r \in jobAttempts}

\* UPDATE job_attempts ... WHERE job_id = j AND attempt_number = attempts.
FinishAttempt(j, outcome) ==
  jobAttempts' = {IF r.job = j /\ r.number = attempts[j]
                    THEN [r EXCEPT !.outcome = outcome] ELSE r : r \in jobAttempts}

\* apply_event: a lease survives only into an in-flight state; the retry
\* time is not touched.
ApplyEvent(j, e) ==
  /\ CanTransition(state[j], e)
  /\ MoveTo(j, Transition(state[j], e))
  /\ IF IsInFlight(Transition(state[j], e))
       THEN UNCHANGED <<leasedBy, leaseExpiry>>
       ELSE ClearLease(j)
  /\ UNCHANGED <<attempts, submissionAttempts, proof, retryAfter, jobAttempts>>
-----------------------------------------------------------------------------
(* The proving queue. *)

\* enqueue: the insert does nothing when the hash is already present.
Enqueue(j) ==
  /\ MoveTo(j, IF state[j] = "absent" THEN "queued" ELSE state[j])
  /\ UNCHANGED <<leasedBy, leaseExpiry, attempts, submissionAttempts,
                 proof, retryAfter, jobAttempts>>

\* Slip: the attempt is left to be counted when it ends.
LeaseUncounted(j, w) ==
  /\ Waiting(j, "queued")
  /\ MoveTo(j, Transition("queued", "leased"))
  /\ GrantLease(j, w)
  /\ retryAfter' = [retryAfter EXCEPT ![j] = "none"]
  /\ jobAttempts' = jobAttempts \cup {[job |-> j, number |-> attempts[j] + 1,
                                      worker |-> w, outcome |-> "open"]}
  /\ UNCHANGED <<attempts, submissionAttempts, proof>>

\* lease_next. The query takes the oldest waiting row no other transaction
\* has locked, so under contention any waiting row can be the one returned.
\* The attempt is counted, and its row opened, when the lease is taken.
LeaseNext(j, w) ==
  /\ Waiting(j, "queued")
  /\ MoveTo(j, Transition("queued", "leased"))
  /\ GrantLease(j, w)
  /\ attempts' = [attempts EXCEPT ![j] = @ + 1]
  /\ retryAfter' = [retryAfter EXCEPT ![j] = "none"]
  /\ LET clash == \E r \in jobAttempts : r.job = j /\ r.number = attempts[j] + 1
         row == [job |-> j, number |-> attempts[j] + 1,
                 worker |-> w, outcome |-> "open"]
     IN jobAttempts' = IF clash THEN jobAttempts ELSE jobAttempts \cup {row}
  /\ UNCHANGED <<submissionAttempts, proof>>

\* renew_lease, when it answers true. An expired lease that nobody has
\* reaped yet is renewed too.
RenewLease(j, a) ==
  /\ Holds(a, j)
  /\ leaseExpiry' = [leaseExpiry EXCEPT ![j] = "future"]
  /\ UNCHANGED <<state, leasedBy, attempts, submissionAttempts, proof,
                 retryAfter, jobAttempts>>

\* begin_proving: nothing checks that the caller is the holder.
BeginProving(j) == ApplyEvent(j, "proving_started")

\* Slip: an UPDATE by id, with no transition to refuse it.
RecordProofUnchecked(j, w) ==
  /\ state[j] # "absent"
  /\ MoveTo(j, "proved")
  /\ proof' = [proof EXCEPT ![j] = w]
  /\ ClearLease(j)
  /\ FinishAttempt(j, "succeeded")
  /\ UNCHANGED <<attempts, submissionAttempts, retryAfter>>

\* record_proof: nothing checks that the caller is the holder.
RecordProof(j, w) ==
  /\ CanTransition(state[j], "proof_succeeded")
  /\ MoveTo(j, Transition(state[j], "proof_succeeded"))
  /\ proof' = [proof EXCEPT ![j] = w]
  /\ ClearLease(j)
  /\ FinishAttempt(j, "succeeded")
  /\ UNCHANGED <<attempts, submissionAttempts, retryAfter>>

\* Slip: the delay is written whatever the job's next state is.
RetryForFailure(next, kind) == IF kind = "transient" THEN "later" ELSE "none"

\* The delay of a transient failure, kept only if the job is queued again.
RetryAfterFailure(next, kind) ==
  IF next = "queued" /\ kind = "transient" THEN "later" ELSE "none"

\* record_failure: nothing checks that the caller is the holder, and the
\* state need not be one of proving.
RecordFailure(j, kind) ==
  LET event == ClassifyFailure(kind, attempts[j], MaxAttempts)
      next  == Transition(state[j], event)
  IN /\ CanTransition(state[j], event)
     /\ MoveTo(j, next)
     /\ ClearLease(j)
     /\ retryAfter' = [retryAfter EXCEPT ![j] = RetryAfterFailure(next, kind)]
     /\ FinishAttempt(j, "failed")
     /\ UNCHANGED <<attempts, submissionAttempts, proof>>

\* release_lease: back to the queue the job came from. Nothing checks the
\* holder, and nothing checks the attempt budget.
ReleaseLease(j) ==
  ApplyEvent(j, IF state[j] = "submitting" THEN "retry_scheduled"
                                           ELSE "lease_expired")
-----------------------------------------------------------------------------
(* The submission queue. *)

\* lease_next_proved
LeaseNextProved(j, r) ==
  /\ Waiting(j, "proved")
  /\ MoveTo(j, Transition("proved", "submission_started"))
  /\ GrantLease(j, r)
  /\ submissionAttempts' = [submissionAttempts EXCEPT ![j] = @ + 1]
  /\ retryAfter' = [retryAfter EXCEPT ![j] = "none"]
  /\ UNCHANGED <<attempts, proof, jobAttempts>>

\* record_submission_failure: charged to the submission budget.
RecordSubmissionFailure(j, kind) ==
  LET event == ClassifyFailure(kind, submissionAttempts[j], MaxAttempts)
      next  == Transition(state[j], event)
  IN /\ CanTransition(state[j], event)
     /\ MoveTo(j, next)
     /\ ClearLease(j)
     /\ retryAfter' = [retryAfter EXCEPT
          ![j] = IF next = "proved" /\ kind = "transient" THEN "later" ELSE "none"]
     /\ UNCHANGED <<attempts, submissionAttempts, proof, jobAttempts>>

\* The job row's part of confirm_settlement, and all of
\* mark_settled_elsewhere.
ConfirmSettled(j) == ApplyEvent(j, "settlement_confirmed")

\* The job row's part of record_reorg.
UnwindSettled(j) == ApplyEvent(j, "reorged")
-----------------------------------------------------------------------------
(* Recovery and time. *)

\* Slips: leases are reaped while they last, or only the prover's are.
InFlightRows == {j \in Job : IsInFlight(state[j])}
ExpiredProvers == {j \in Job : state[j] \in {"leased", "proving"} /\ leaseExpiry[j] = "past"}

Expired == {j \in Job : IsInFlight(state[j]) /\ leaseExpiry[j] = "past"}

\* Slips: submitting has no lease_expired; the budget is not consulted; the
\* proving budget is charged for a submission.
ReapAsExpired(j) ==
  IF ClassifyFailure("transient", attempts[j], MaxAttempts) = "retry_scheduled"
    THEN "lease_expired" ELSE "attempts_exhausted"
ReapForEver(j) ==
  IF state[j] = "submitting" THEN "retry_scheduled" ELSE "lease_expired"
ReapOnProvingBudget(j) ==
  LET event == ClassifyFailure("transient", attempts[j], MaxAttempts)
  IN IF event = "retry_scheduled" /\ state[j] # "submitting"
       THEN "lease_expired" ELSE event

\* The event the reaper chooses: a lease that ran out is a transient failure
\* of the budget the dead process was spending.
ReapEvent(j) ==
  LET spent == IF state[j] = "submitting" THEN submissionAttempts[j]
                                          ELSE attempts[j]
      event == ClassifyFailure("transient", spent, MaxAttempts)
  IN IF event = "retry_scheduled" /\ state[j] # "submitting"
       THEN "lease_expired" ELSE event

\* reap_expired_leases: one transaction over every expired row it could lock.
ReapExpired(rows) ==
  /\ rows # {}
  /\ rows \subseteq Expired
  /\ state' = [j \in Job |-> IF j \in rows THEN Transition(state[j], ReapEvent(j))
                                           ELSE state[j]]
  /\ leasedBy' = [j \in Job |-> IF j \in rows THEN NoOne ELSE leasedBy[j]]
  /\ leaseExpiry' = [j \in Job |-> IF j \in rows THEN "none" ELSE leaseExpiry[j]]
  /\ jobAttempts' = {IF r.job \in rows /\ r.outcome = "open"
                       THEN [r EXCEPT !.outcome = "abandoned"] ELSE r : r \in jobAttempts}
  /\ UNCHANGED <<attempts, submissionAttempts, proof, retryAfter>>

\* The database clock passes lease_expires_at.
LeaseRunsOut(j) ==
  /\ leaseExpiry[j] = "future"
  /\ leaseExpiry' = [leaseExpiry EXCEPT ![j] = "past"]
  /\ UNCHANGED <<state, leasedBy, attempts, submissionAttempts, proof,
                 retryAfter, jobAttempts>>

\* The database clock passes retry_after.
RetryComesDue(j) ==
  /\ retryAfter[j] = "later"
  /\ retryAfter' = [retryAfter EXCEPT ![j] = "due"]
  /\ UNCHANGED <<state, leasedBy, leaseExpiry, attempts, submissionAttempts,
                 proof, jobAttempts>>

\* What is done with the work that was accepted.
ServiceNext ==
  \/ \E j \in Job :
       \/ BeginProving(j)
       \/ ReleaseLease(j)
       \/ ConfirmSettled(j)
       \/ UnwindSettled(j)
       \/ LeaseRunsOut(j)
       \/ RetryComesDue(j)
       \/ \E kind \in FailureKinds :
            RecordFailure(j, kind) \/ RecordSubmissionFailure(j, kind)
       \/ \E a \in Actor : \/ LeaseNext(j, a)
                           \/ RenewLease(j, a)
                           \/ RecordProof(j, a)
                           \/ LeaseNextProved(j, a)
  \/ \E rows \in SUBSET Job : ReapExpired(rows)

Next == ServiceNext \/ \E j \in Job : Enqueue(j)

Spec == Init /\ [][Next]_columns
-----------------------------------------------------------------------------
(* What the tables promise whoever calls, in whatever order. *)

\* The contract with whoever submits work. Who holds a job, and which of its
\* attempts this is, are the system's own business.
ClientStatus(s) ==
  CASE s = "absent" -> "unknown"
    [] s \in {"queued", "leased", "proving"} -> "accepted"
    [] s \in {"proved", "submitting"} -> "proved"
    [] s = "settled" -> "settled"
    [] s \in {"failed", "rejected"} -> "failed"

Contract == INSTANCE JobContract
              WITH status <- [j \in Job |-> ClientStatus(state[j])],
                   Prover <- Actor, NoProof <- NoOne

\* Whatever is called, and however late, a client sees the life of a job that
\* JobContract describes: proved at most once, never back from proved to
\* accepted, never back from failed at all, and unsettled only into a job that
\* still has its proof.
ImplementsContract == Contract!ContractSpec

\* The same of steps alone, for a system that starts in the middle.
KeepsContract == [][Contract!ContractNext]_columns

\* A job has a holder exactly while it is in flight, and a lease is whole:
\* never a holder without an expiry, which no reaper would ever return, nor
\* an expiry without a holder (jobs_lease_is_all_or_nothing).
LeaseIsWhole ==
  \A j \in Job : /\ leasedBy[j] # NoOne <=> IsInFlight(state[j])
                 /\ leasedBy[j] = NoOne <=> leaseExpiry[j] = "none"

\* A job that the relayer may see has a proof to submit
\* (jobs_proved_states_have_a_proof), and no job that could still be proved
\* again has one.
ProofMatchesState ==
  \A j \in Job :
    /\ state[j] \in {"proved", "submitting", "settled"} => proof[j] # NoOne
    /\ state[j] \in {"absent", "queued", "leased", "proving", "rejected"}
         => proof[j] = NoOne

\* A scheduled retry is on a row some queue will read: on any other row it
\* would hide the job for good (jobs_retry_after_only_when_waiting).
RetryIsOnAQueue ==
  \A j \in Job : retryAfter[j] # "none" => state[j] \in {"queued", "proved"}

\* The attempt counter and the attempt rows agree: one row per attempt made,
\* none beyond the counter, so ON CONFLICT DO NOTHING never drops an attempt.
AttemptsMatchRows ==
  /\ \A r \in jobAttempts : r.number >= 1 /\ r.number <= attempts[r.job]
  /\ \A r1, r2 \in jobAttempts :
       r1.job = r2.job /\ r1.number = r2.number => r1 = r2
  /\ \A j \in Job : \A n \in 1..attempts[j] :
       \E r \in jobAttempts : r.job = j /\ r.number = n

\* A proof, once stored, is never replaced or erased: no sequence of calls,
\* a stale worker's included, leads a proved job back to where it could be
\* proved a second time.
ProofIsFinal ==
  [][\A j \in Job : proof[j] # NoOne => proof'[j] = proof[j]]_columns
=============================================================================
