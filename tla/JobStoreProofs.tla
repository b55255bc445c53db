--------------------------- MODULE JobStoreProofs ---------------------------
(* Theorems about the store, for every set of jobs and actors, every       *)
(* attempt budget, and every sequence of calls.                            *)
EXTENDS JobStore, TLAPS

\* The table is a function into States where it is defined at all.
LEMMA TransitionInStates ==
  ASSUME NEW s, NEW e, CanTransition(s, e)
  PROVE  Transition(s, e) \in States
BY DEF CanTransition, Transition, AfterRetry, States

\* Types ---------------------------------------------------------------------

LEMMA FinishAttemptType ==
  ASSUME TypeOK, NEW j \in Job, NEW o \in Outcomes, FinishAttempt(j, o)
  PROVE  jobAttempts' \subseteq AttemptRows
BY DEF TypeOK, FinishAttempt, AttemptRows

LEMMA ApplyEventType ==
  ASSUME TypeOK, NEW j \in Job, NEW e, ApplyEvent(j, e)
  PROVE  TypeOK'
BY TransitionInStates DEF TypeOK, ApplyEvent, MoveTo, ClearLease

LEMMA TypeStep == ASSUME TypeOK, [Next]_columns PROVE TypeOK'
<1> USE StoreAssumption
<1>1. ASSUME NEW j \in Job, Enqueue(j) PROVE TypeOK'
  BY <1>1 DEF TypeOK, Enqueue, MoveTo, States
<1>2. ASSUME NEW j \in Job, BeginProving(j) PROVE TypeOK'
  BY <1>2, ApplyEventType DEF BeginProving
<1>3. ASSUME NEW j \in Job, ReleaseLease(j) PROVE TypeOK'
  BY <1>3, ApplyEventType DEF ReleaseLease
<1>4. ASSUME NEW j \in Job, ConfirmSettled(j) PROVE TypeOK'
  BY <1>4, ApplyEventType DEF ConfirmSettled
<1>5. ASSUME NEW j \in Job, UnwindSettled(j) PROVE TypeOK'
  BY <1>5, ApplyEventType DEF UnwindSettled
<1>6. ASSUME NEW j \in Job, LeaseRunsOut(j) PROVE TypeOK'
  BY <1>6 DEF TypeOK, LeaseRunsOut
<1>7. ASSUME NEW j \in Job, RetryComesDue(j) PROVE TypeOK'
  BY <1>7 DEF TypeOK, RetryComesDue
<1>8. ASSUME NEW j \in Job, NEW k \in FailureKinds, RecordFailure(j, k)
      PROVE  TypeOK'
  <2>1. jobAttempts' \subseteq AttemptRows
    BY <1>8, FinishAttemptType DEF RecordFailure, Outcomes
  <2>2. QED
    BY <1>8, <2>1, TransitionInStates DEF TypeOK, RecordFailure, RetryAfterFailure, MoveTo, ClearLease
<1>9. ASSUME NEW j \in Job, NEW k \in FailureKinds, RecordSubmissionFailure(j, k)
      PROVE  TypeOK'
  BY <1>9, TransitionInStates DEF TypeOK, RecordSubmissionFailure, MoveTo, ClearLease
<1>10. ASSUME NEW j \in Job, NEW a \in Actor, LeaseNext(j, a) PROVE TypeOK'
  <2>1. jobAttempts' \subseteq AttemptRows
    BY <1>10 DEF TypeOK, LeaseNext, AttemptRows, Outcomes
  <2>2. QED
    BY <1>10, <2>1 DEF TypeOK, LeaseNext, MoveTo, GrantLease, Transition, AfterRetry, States
<1>11. ASSUME NEW j \in Job, NEW a \in Actor, RenewLease(j, a) PROVE TypeOK'
  BY <1>11 DEF TypeOK, RenewLease
<1>12. ASSUME NEW j \in Job, NEW a \in Actor, RecordProof(j, a) PROVE TypeOK'
  <2>1. jobAttempts' \subseteq AttemptRows
    BY <1>12, FinishAttemptType DEF RecordProof, Outcomes
  <2>2. QED
    BY <1>12, <2>1, TransitionInStates DEF TypeOK, RecordProof, MoveTo, ClearLease
<1>13. ASSUME NEW j \in Job, NEW a \in Actor, LeaseNextProved(j, a) PROVE TypeOK'
  BY <1>13 DEF TypeOK, LeaseNextProved, MoveTo, GrantLease, Transition, AfterRetry, States
<1>14. ASSUME NEW rows \in SUBSET Job, ReapExpired(rows) PROVE TypeOK'
  <2>1. jobAttempts' \subseteq AttemptRows
    BY <1>14 DEF TypeOK, ReapExpired, AttemptRows, Outcomes
  <2>2. \A j \in rows : Transition(state[j], ReapEvent(j)) \in States
    BY <1>14 DEF ReapExpired, Expired, IsInFlight, ReapEvent, ClassifyFailure,
                 Transition, AfterRetry, States
  <2>3. QED
    BY <1>14, <2>1, <2>2 DEF TypeOK, ReapExpired
<1>15. CASE UNCHANGED columns
  BY <1>15 DEF TypeOK, columns
<1>16. QED
  BY <1>1, <1>2, <1>3, <1>4, <1>5, <1>6, <1>7, <1>8, <1>9, <1>10, <1>11,
     <1>12, <1>13, <1>14, <1>15 DEF Next, ServiceNext

\* Every column keeps its type.
THEOREM StoreTypeCorrect == Spec => []TypeOK
<1>1. Init => TypeOK
  BY StoreAssumption DEF Init, TypeOK
<1>2. TypeOK /\ [Next]_columns => TypeOK'
  BY TypeStep
<1>3. QED
  BY <1>1, <1>2, PTL DEF Spec

\* The schema's own promises -------------------------------------------------

RowRules == LeaseIsWhole /\ ProofMatchesState /\ RetryIsOnAQueue

\* The events the store applies with apply_event, and where each leads.
LEMMA AppliedEvents ==
  ASSUME NEW s, NEW e,
         e \in {"proving_started", "settlement_confirmed", "reorged",
                "lease_expired"} \/ (e = "retry_scheduled" /\ s = "submitting"),
         CanTransition(s, e)
  PROVE  \/ s = "leased" /\ Transition(s, e) = "proving"
         \/ s = "submitting" /\ Transition(s, e) \in {"settled", "proved"}
         \/ s = "settled" /\ Transition(s, e) = "proved"
         \/ s \in {"leased", "proving"} /\ Transition(s, e) = "queued"
BY DEF CanTransition, Transition, AfterRetry

\* An event applied with apply_event keeps the schema, the retry column
\* included: apply_event leaves retry_after alone, so it is sound only from
\* states where no retry can be pending.
LEMMA ApplyEventRules ==
  ASSUME TypeOK, RowRules, NEW j \in Job, NEW e, ApplyEvent(j, e),
         e \in {"proving_started", "settlement_confirmed", "reorged",
                "lease_expired"} \/ (e = "retry_scheduled" /\ state[j] = "submitting")
  PROVE  RowRules'
<1>1. \/ state[j] = "leased" /\ Transition(state[j], e) = "proving"
      \/ state[j] = "submitting" /\ Transition(state[j], e) \in {"settled", "proved"}
      \/ state[j] = "settled" /\ Transition(state[j], e) = "proved"
      \/ state[j] \in {"leased", "proving"} /\ Transition(state[j], e) = "queued"
  BY AppliedEvents DEF ApplyEvent
<1>2. LeaseIsWhole'
  BY <1>1 DEF RowRules, LeaseIsWhole, ApplyEvent, MoveTo, ClearLease, IsInFlight, TypeOK
<1>3. ProofMatchesState'
  BY <1>1 DEF RowRules, ProofMatchesState, ApplyEvent, MoveTo, TypeOK
<1>4. RetryIsOnAQueue'
  BY <1>1 DEF RowRules, RetryIsOnAQueue, ApplyEvent, MoveTo, TypeOK
<1>5. QED
  BY <1>2, <1>3, <1>4 DEF RowRules

LEMMA RulesStep == ASSUME TypeOK, RowRules, [Next]_columns PROVE RowRules'
<1> USE StoreAssumption
<1>1. ASSUME NEW j \in Job, Enqueue(j) PROVE RowRules'
  BY <1>1 DEF TypeOK, RowRules, LeaseIsWhole, ProofMatchesState, RetryIsOnAQueue,
              Enqueue, MoveTo, IsInFlight
<1>2. ASSUME NEW j \in Job, BeginProving(j) PROVE RowRules'
  BY <1>2, ApplyEventRules DEF BeginProving
<1>3. ASSUME NEW j \in Job, ReleaseLease(j) PROVE RowRules'
  <2>1. CASE state[j] = "submitting"
    BY <1>3, <2>1, ApplyEventRules DEF ReleaseLease
  <2>2. CASE state[j] # "submitting"
    BY <1>3, <2>2, ApplyEventRules DEF ReleaseLease
  <2>3. QED  BY <2>1, <2>2
<1>4. ASSUME NEW j \in Job, ConfirmSettled(j) PROVE RowRules'
  BY <1>4, ApplyEventRules DEF ConfirmSettled
<1>5. ASSUME NEW j \in Job, UnwindSettled(j) PROVE RowRules'
  BY <1>5, ApplyEventRules DEF UnwindSettled
<1>6. ASSUME NEW j \in Job, LeaseRunsOut(j) PROVE RowRules'
  BY <1>6 DEF TypeOK, RowRules, LeaseIsWhole, ProofMatchesState, RetryIsOnAQueue,
              LeaseRunsOut
<1>7. ASSUME NEW j \in Job, RetryComesDue(j) PROVE RowRules'
  BY <1>7 DEF TypeOK, RowRules, LeaseIsWhole, ProofMatchesState, RetryIsOnAQueue,
              RetryComesDue
<1>8. ASSUME NEW j \in Job, NEW k \in FailureKinds, RecordFailure(j, k)
      PROVE  RowRules'
  <2> DEFINE e == ClassifyFailure(k, attempts[j], MaxAttempts)
  <2>1. \/ state[j] \in {"queued", "leased", "proving"} /\ Transition(state[j], e) = "queued"
        \/ state[j] \in {"proved", "submitting"} /\ Transition(state[j], e) = "proved"
        \/ Transition(state[j], e) = "failed"
    BY <1>8 DEF RecordFailure, CanTransition, ClassifyFailure, Transition, AfterRetry
  <2>2. LeaseIsWhole'
    BY <1>8, <2>1 DEF TypeOK, RowRules, LeaseIsWhole, RecordFailure, MoveTo, ClearLease, IsInFlight
  <2>3. ProofMatchesState'
    BY <1>8, <2>1 DEF TypeOK, RowRules, ProofMatchesState, RecordFailure, MoveTo
  <2>4. RetryIsOnAQueue'
    BY <1>8, <2>1 DEF TypeOK, RowRules, RetryIsOnAQueue, RecordFailure, RetryAfterFailure, MoveTo
  <2>5. QED  BY <2>2, <2>3, <2>4 DEF RowRules
<1>9. ASSUME NEW j \in Job, NEW k \in FailureKinds, RecordSubmissionFailure(j, k)
      PROVE  RowRules'
  <2> DEFINE e == ClassifyFailure(k, submissionAttempts[j], MaxAttempts)
  <2>1. \/ state[j] \in {"queued", "leased", "proving"} /\ Transition(state[j], e) = "queued"
        \/ state[j] \in {"proved", "submitting"} /\ Transition(state[j], e) = "proved"
        \/ Transition(state[j], e) = "failed"
    BY <1>9 DEF RecordSubmissionFailure, CanTransition, ClassifyFailure, Transition, AfterRetry
  <2>2. LeaseIsWhole'
    BY <1>9, <2>1 DEF TypeOK, RowRules, LeaseIsWhole, RecordSubmissionFailure, MoveTo, ClearLease, IsInFlight
  <2>3. ProofMatchesState'
    BY <1>9, <2>1 DEF TypeOK, RowRules, ProofMatchesState, RecordSubmissionFailure, MoveTo
  <2>4. RetryIsOnAQueue'
    BY <1>9, <2>1 DEF TypeOK, RowRules, RetryIsOnAQueue, RecordSubmissionFailure, MoveTo
  <2>5. QED  BY <2>2, <2>3, <2>4 DEF RowRules
<1>10. ASSUME NEW j \in Job, NEW a \in Actor, LeaseNext(j, a) PROVE RowRules'
  <2>1. state[j] = "queued" /\ Transition("queued", "leased") = "leased"
    BY <1>10 DEF LeaseNext, Waiting, Transition, AfterRetry
  <2>2. QED
    BY <1>10, <2>1 DEF TypeOK, RowRules, LeaseIsWhole, ProofMatchesState, RetryIsOnAQueue,
                       LeaseNext, MoveTo, GrantLease, IsInFlight
<1>11. ASSUME NEW j \in Job, NEW a \in Actor, RenewLease(j, a) PROVE RowRules'
  BY <1>11 DEF TypeOK, RowRules, LeaseIsWhole, ProofMatchesState, RetryIsOnAQueue,
               RenewLease, Holds
<1>12. ASSUME NEW j \in Job, NEW a \in Actor, RecordProof(j, a) PROVE RowRules'
  <2>1. state[j] = "proving" /\ Transition(state[j], "proof_succeeded") = "proved"
    BY <1>12 DEF RecordProof, CanTransition, Transition, AfterRetry
  <2>2. QED
    BY <1>12, <2>1 DEF TypeOK, RowRules, LeaseIsWhole, ProofMatchesState, RetryIsOnAQueue,
                       RecordProof, MoveTo, ClearLease, IsInFlight
<1>13. ASSUME NEW j \in Job, NEW a \in Actor, LeaseNextProved(j, a) PROVE RowRules'
  <2>1. state[j] = "proved" /\ Transition("proved", "submission_started") = "submitting"
    BY <1>13 DEF LeaseNextProved, Waiting, Transition, AfterRetry
  <2>2. QED
    BY <1>13, <2>1 DEF TypeOK, RowRules, LeaseIsWhole, ProofMatchesState, RetryIsOnAQueue,
                       LeaseNextProved, MoveTo, GrantLease, IsInFlight
<1>14. ASSUME NEW rows \in SUBSET Job, ReapExpired(rows) PROVE RowRules'
  <2>1. \A j \in rows :
          \/ state[j] \in {"leased", "proving"} /\ state'[j] \in {"queued", "failed"}
          \/ state[j] = "submitting" /\ state'[j] \in {"proved", "failed"}
    BY <1>14 DEF ReapExpired, Expired, IsInFlight, ReapEvent, ClassifyFailure, Transition, AfterRetry
  <2>2. \A j \in Job \ rows : state'[j] = state[j]
    BY <1>14 DEF ReapExpired
  <2>3. LeaseIsWhole'
    BY <1>14, <2>1, <2>2 DEF TypeOK, RowRules, LeaseIsWhole, ReapExpired, IsInFlight
  <2>4. ProofMatchesState'
    BY <1>14, <2>1, <2>2 DEF TypeOK, RowRules, ProofMatchesState, ReapExpired
  <2>5. RetryIsOnAQueue'
    BY <1>14, <2>1, <2>2 DEF TypeOK, RowRules, RetryIsOnAQueue, ReapExpired
  <2>6. QED  BY <2>3, <2>4, <2>5 DEF RowRules
<1>15. CASE UNCHANGED columns
  BY <1>15 DEF RowRules, LeaseIsWhole, ProofMatchesState, RetryIsOnAQueue, columns
<1>16. QED
  BY <1>1, <1>2, <1>3, <1>4, <1>5, <1>6, <1>7, <1>8, <1>9, <1>10, <1>11,
     <1>12, <1>13, <1>14, <1>15 DEF Next, ServiceNext

LEMMA RulesInductive == Spec => [](TypeOK /\ RowRules)
<1>1. Init => TypeOK /\ RowRules
  BY StoreAssumption DEF Init, TypeOK, RowRules, LeaseIsWhole, ProofMatchesState,
                         RetryIsOnAQueue, IsInFlight
<1>2. (TypeOK /\ RowRules) /\ [Next]_columns => (TypeOK /\ RowRules)'
  BY TypeStep, RulesStep
<1>3. QED
  BY <1>1, <1>2, PTL DEF Spec

\* A job has a holder, and an expiry, exactly while it is in flight.
THEOREM LeasesAreWhole == Spec => []LeaseIsWhole
<1>1. TypeOK /\ RowRules => LeaseIsWhole
  BY DEF RowRules
<1>2. QED
  BY <1>1, RulesInductive, PTL

\* Whatever is past proving has a proof, whatever is before it has none.
THEOREM ProofsMatchStates == Spec => []ProofMatchesState
<1>1. TypeOK /\ RowRules => ProofMatchesState
  BY DEF RowRules
<1>2. QED
  BY <1>1, RulesInductive, PTL

\* No retry is ever scheduled where no queue reads it.
THEOREM RetriesAreOnQueues == Spec => []RetryIsOnAQueue
<1>1. TypeOK /\ RowRules => RetryIsOnAQueue
  BY DEF RowRules
<1>2. QED
  BY <1>1, RulesInductive, PTL

\* Attempt accounting --------------------------------------------------------

\* An update of the table's rows by a function that keeps each row's key
\* keeps the accounting.
LEMMA KeyedUpdateKeepsAccounting ==
  ASSUME AttemptsMatchRows, attempts' = attempts,
         NEW f, jobAttempts' = {f[r] : r \in jobAttempts},
         \A r \in jobAttempts : f[r].job = r.job /\ f[r].number = r.number
  PROVE  AttemptsMatchRows'
<1>1. \A r \in jobAttempts' : \E q \in jobAttempts :
         r = f[q] /\ r.job = q.job /\ r.number = q.number
  OBVIOUS
<1>2. \A q \in jobAttempts : \E r \in jobAttempts' :
         r.job = q.job /\ r.number = q.number
  OBVIOUS
<1>3. \A r1, r2 \in jobAttempts' :
         r1.job = r2.job /\ r1.number = r2.number => r1 = r2
  BY <1>1 DEF AttemptsMatchRows
<1>4. \A r \in jobAttempts' : r.number >= 1 /\ r.number <= attempts'[r.job]
  BY <1>1 DEF AttemptsMatchRows
<1>5. \A j \in Job : \A n \in 1..attempts'[j] :
         \E r \in jobAttempts' : r.job = j /\ r.number = n
  BY <1>2 DEF AttemptsMatchRows
<1>6. QED
  BY <1>3, <1>4, <1>5 DEF AttemptsMatchRows

LEMMA FinishKeepsAccounting ==
  ASSUME TypeOK, AttemptsMatchRows, attempts' = attempts,
         NEW j \in Job, NEW o \in Outcomes, FinishAttempt(j, o)
  PROVE  AttemptsMatchRows'
<1> DEFINE f == [r \in jobAttempts |->
                   IF r.job = j /\ r.number = attempts[j]
                     THEN [r EXCEPT !.outcome = o] ELSE r]
<1>1. jobAttempts' = {f[r] : r \in jobAttempts}
  BY DEF FinishAttempt
<1>2. \A r \in jobAttempts : f[r].job = r.job /\ f[r].number = r.number
  BY DEF TypeOK, AttemptRows
<1> HIDE DEF f
<1>3. QED
  BY <1>1, <1>2, KeyedUpdateKeepsAccounting

LEMMA ReapKeepsAccounting ==
  ASSUME TypeOK, AttemptsMatchRows, NEW rows \in SUBSET Job, ReapExpired(rows)
  PROVE  AttemptsMatchRows'
<1> DEFINE f == [r \in jobAttempts |->
                   IF r.job \in rows /\ r.outcome = "open"
                     THEN [r EXCEPT !.outcome = "abandoned"] ELSE r]
<1>1. jobAttempts' = {f[r] : r \in jobAttempts} /\ attempts' = attempts
  BY DEF ReapExpired
<1>2. \A r \in jobAttempts : f[r].job = r.job /\ f[r].number = r.number
  BY DEF TypeOK, AttemptRows
<1> HIDE DEF f
<1>3. QED
  BY <1>1, <1>2, KeyedUpdateKeepsAccounting

LEMMA LeaseKeepsAccounting ==
  ASSUME TypeOK, AttemptsMatchRows, NEW j \in Job, NEW a \in Actor, LeaseNext(j, a)
  PROVE  AttemptsMatchRows'
<1> DEFINE row == [job |-> j, number |-> attempts[j] + 1,
                   worker |-> a, outcome |-> "open"]
<1>1. attempts[j] \in Nat /\ \A r \in jobAttempts : r.job \in Job /\ attempts[r.job] \in Nat
  BY DEF TypeOK, AttemptRows
<1>2. attempts'[j] = attempts[j] + 1 /\ \A i \in Job : i # j => attempts'[i] = attempts[i]
  BY DEF TypeOK, LeaseNext
<1>3. ~ \E r \in jobAttempts : r.job = j /\ r.number = attempts[j] + 1
  BY <1>1 DEF AttemptsMatchRows, TypeOK, AttemptRows
<1>4. jobAttempts' = jobAttempts \cup {row}
  BY <1>3 DEF LeaseNext
<1>5. \A r \in jobAttempts' : r.number >= 1 /\ r.number <= attempts'[r.job]
  <2>1. \A r \in jobAttempts : r.number >= 1 /\ r.number <= attempts'[r.job]
    BY <1>1, <1>2 DEF AttemptsMatchRows, TypeOK, AttemptRows
  <2>2. row.number >= 1 /\ row.number <= attempts'[row.job]
    BY <1>1, <1>2
  <2>3. QED  BY <1>4, <2>1, <2>2
<1>6. \A r1, r2 \in jobAttempts' :
         r1.job = r2.job /\ r1.number = r2.number => r1 = r2
  BY <1>3, <1>4 DEF AttemptsMatchRows
<1>7. \A i \in Job : \A n \in 1..attempts'[i] :
         \E r \in jobAttempts' : r.job = i /\ r.number = n
  <2> SUFFICES ASSUME NEW i \in Job, NEW n \in 1..attempts'[i]
               PROVE  \E r \in jobAttempts' : r.job = i /\ r.number = n
    OBVIOUS
  <2>1. CASE i = j /\ n = attempts[j] + 1
    <3>1. row \in jobAttempts'
      BY <1>4
    <3>2. row.job = i /\ row.number = n
      BY <2>1
    <3>3. QED
      BY <3>1, <3>2
  <2>2. CASE ~(i = j /\ n = attempts[j] + 1)
    <3>1. n \in 1..attempts[i]
      BY <1>1, <1>2, <2>2
    <3>2. QED
      BY <1>4, <3>1 DEF AttemptsMatchRows
  <2>3. QED  BY <2>1, <2>2
<1>8. QED
  BY <1>5, <1>6, <1>7 DEF AttemptsMatchRows

LEMMA AccountingStep ==
  ASSUME TypeOK, AttemptsMatchRows, [Next]_columns
  PROVE  AttemptsMatchRows'
<1>1. ASSUME NEW j \in Job, NEW k \in FailureKinds, RecordFailure(j, k)
      PROVE  AttemptsMatchRows'
  BY <1>1, FinishKeepsAccounting DEF RecordFailure, Outcomes
<1>2. ASSUME NEW j \in Job, NEW a \in Actor, RecordProof(j, a)
      PROVE  AttemptsMatchRows'
  BY <1>2, FinishKeepsAccounting DEF RecordProof, Outcomes
<1>3. ASSUME UNCHANGED <<attempts, jobAttempts>> PROVE AttemptsMatchRows'
  BY <1>3 DEF AttemptsMatchRows
<1>4. ASSUME NEW j \in Job,
             \/ Enqueue(j) \/ BeginProving(j) \/ ReleaseLease(j)
             \/ ConfirmSettled(j) \/ UnwindSettled(j)
             \/ LeaseRunsOut(j) \/ RetryComesDue(j)
             \/ \E k \in FailureKinds : RecordSubmissionFailure(j, k)
             \/ \E a \in Actor : RenewLease(j, a) \/ LeaseNextProved(j, a)
      PROVE  UNCHANGED <<attempts, jobAttempts>>
  BY <1>4 DEF Enqueue, BeginProving, ReleaseLease, ConfirmSettled, UnwindSettled,
              ApplyEvent, LeaseRunsOut, RetryComesDue, RecordSubmissionFailure,
              RenewLease, LeaseNextProved
<1>5. CASE UNCHANGED columns
  BY <1>3, <1>5 DEF columns
<1>6. QED
  BY <1>1, <1>2, <1>3, <1>4, <1>5, LeaseKeepsAccounting, ReapKeepsAccounting DEF Next, ServiceNext

\* One row per attempt made, and none beyond the counter: the insert of
\* lease_next never meets the row it would be dropped for.
THEOREM AttemptsAreAccounted == Spec => []AttemptsMatchRows
<1>1. Init => AttemptsMatchRows
  BY DEF Init, AttemptsMatchRows
<1>2. TypeOK /\ AttemptsMatchRows /\ [Next]_columns => AttemptsMatchRows'
  BY AccountingStep
<1>3. QED
  BY <1>1, <1>2, StoreTypeCorrect, PTL DEF Spec

\* What a step may never do --------------------------------------------------

LEMMA StoredProofStays ==
  ASSUME TypeOK, RowRules, [Next]_columns, NEW j \in Job, proof[j] # NoOne
  PROVE  proof'[j] = proof[j]
<1>1. ASSUME NEW i \in Job, NEW a \in Actor, RecordProof(i, a)
      PROVE  proof'[j] = proof[j]
  <2>1. state[i] = "proving"
    BY <1>1 DEF RecordProof, CanTransition, Transition, AfterRetry
  <2>2. i # j
    BY <2>1 DEF RowRules, ProofMatchesState
  <2>3. QED
    BY <1>1, <2>2 DEF RecordProof, TypeOK
<1>2. ASSUME NEW i \in Job,
             \/ Enqueue(i) \/ BeginProving(i) \/ ReleaseLease(i)
             \/ ConfirmSettled(i) \/ UnwindSettled(i)
             \/ LeaseRunsOut(i) \/ RetryComesDue(i)
             \/ \E k \in FailureKinds :
                  RecordFailure(i, k) \/ RecordSubmissionFailure(i, k)
             \/ \E a \in Actor :
                  LeaseNext(i, a) \/ RenewLease(i, a) \/ LeaseNextProved(i, a)
      PROVE  proof' = proof
  BY <1>2 DEF Enqueue, BeginProving, ReleaseLease, ConfirmSettled, UnwindSettled,
              ApplyEvent, LeaseRunsOut, RetryComesDue, RecordFailure,
              RecordSubmissionFailure, LeaseNext, RenewLease, LeaseNextProved
<1>3. ASSUME NEW rows \in SUBSET Job, ReapExpired(rows) PROVE proof' = proof
  BY <1>3 DEF ReapExpired
<1>4. CASE UNCHANGED columns
  BY <1>4 DEF columns
<1>5. QED
  BY <1>1, <1>2, <1>3, <1>4 DEF Next, ServiceNext

\* A stored proof is never replaced or erased. It rests on
\* ProofMatchesState: the one write of the column is legal only in proving,
\* where there is no proof yet.
THEOREM ProofsAreFinal == Spec => ProofIsFinal
<1>1. TypeOK /\ RowRules /\ [Next]_columns
        => [\A j \in Job : proof[j] # NoOne => proof'[j] = proof[j]]_columns
  BY StoredProofStays
<1>2. QED
  BY <1>1, RulesInductive, PTL DEF Spec, ProofIsFinal

\* The contract with whoever submits work --------------------------------------

\* What a client sees change when one row changes its state and keeps its proof.
LEMMA OneRowMoves ==
  ASSUME TypeOK, NEW j \in Job, NEW s, MoveTo(j, s), UNCHANGED proof,
         LET from == ClientStatus(state[j])
             to   == ClientStatus(s)
         IN \/ from = to
            \/ from = "unknown" /\ to = "accepted"
            \/ from = "proved" /\ to = "settled"
            \/ from = "settled" /\ to = "proved"
            \/ from \in {"accepted", "proved"} /\ to = "failed"
  PROVE  [Contract!ContractNext]_(Contract!contract)
<1> DEFINE seen == [i \in Job |-> ClientStatus(state[i])]
           sees == [i \in Job |-> ClientStatus(state'[i])]
<1>1. state' = [state EXCEPT ![j] = s] /\ state \in [Job -> States \cup {"absent"}]
  BY DEF MoveTo, TypeOK
<1>2. sees = [seen EXCEPT ![j] = ClientStatus(s)]
  BY <1>1
<1>3. seen[j] = ClientStatus(state[j])
  OBVIOUS
<1>4. CASE ClientStatus(state[j]) = ClientStatus(s)
  BY <1>2, <1>3, <1>4 DEF Contract!contract
<1>5. CASE ClientStatus(state[j]) = "unknown" /\ ClientStatus(s) = "accepted"
  BY <1>2, <1>3, <1>5 DEF Contract!ContractNext, Contract!Accept, Contract!Moves
<1>6. CASE ClientStatus(state[j]) = "proved" /\ ClientStatus(s) = "settled"
  BY <1>2, <1>3, <1>6 DEF Contract!ContractNext, Contract!Settle, Contract!Moves
<1>7. CASE ClientStatus(state[j]) = "settled" /\ ClientStatus(s) = "proved"
  BY <1>2, <1>3, <1>7 DEF Contract!ContractNext, Contract!Unsettle, Contract!Moves
<1>8. CASE ClientStatus(state[j]) \in {"accepted", "proved"} /\ ClientStatus(s) = "failed"
  <2>1. sees = [i \in Job |-> IF i \in {j} THEN "failed" ELSE seen[i]]
    BY <1>2, <1>8
  <2>2. Contract!GiveUp({j})
    BY <2>1, <1>3, <1>8 DEF Contract!GiveUp
  <2>3. QED
    BY <2>2 DEF Contract!ContractNext
<1>9. QED
  BY <1>4, <1>5, <1>6, <1>7, <1>8

LEMMA SameToClients ==
  ASSUME state' = state, proof' = proof
  PROVE  [Contract!ContractNext]_(Contract!contract)
BY DEF Contract!contract

LEMMA StatusValues ==
  /\ ClientStatus("absent") = "unknown"
  /\ ClientStatus("queued") = "accepted"
  /\ ClientStatus("leased") = "accepted"
  /\ ClientStatus("proving") = "accepted"
  /\ ClientStatus("proved") = "proved"
  /\ ClientStatus("submitting") = "proved"
  /\ ClientStatus("settled") = "settled"
  /\ ClientStatus("failed") = "failed"
  /\ ClientStatus("rejected") = "failed"
BY DEF ClientStatus

\* The events the store applies, as a client sees them.
LEMMA EventsToClients ==
  ASSUME NEW s \in States, NEW e \in Events, CanTransition(s, e)
  PROVE  LET from == ClientStatus(s)
             to   == ClientStatus(Transition(s, e))
         IN \/ from = to
            \/ s = "proving" /\ e = "proof_succeeded"
            \/ from = "proved" /\ to = "settled"
            \/ from = "settled" /\ to = "proved"
            \/ from \in {"accepted", "proved"} /\ to = "failed"
<1>1. \/ s \in {"leased", "proving", "queued"}
           /\ Transition(s, e) \in {"queued", "leased", "proving", "failed", "rejected"}
      \/ s = "proving" /\ e = "proof_succeeded"
      \/ s \in {"proved", "submitting"}
           /\ Transition(s, e) \in {"proved", "submitting", "settled", "failed"}
      \/ s = "settled" /\ Transition(s, e) = "proved"
  BY DEF CanTransition, Transition, AfterRetry, States, Events
<1>2. QED
  BY <1>1, StatusValues

LEMMA AbsentRefusesEvents ==
  ASSUME NEW e PROVE ~CanTransition("absent", e)
BY DEF CanTransition, Transition, AfterRetry

LEMMA AppliedToClients ==
  ASSUME TypeOK, NEW j \in Job, NEW e \in Events \ {"proof_succeeded"},
         CanTransition(state[j], e), MoveTo(j, Transition(state[j], e)),
         UNCHANGED proof
  PROVE  [Contract!ContractNext]_(Contract!contract)
<1>1. state[j] \in States
  BY AbsentRefusesEvents DEF TypeOK
<1>2. QED
  BY <1>1, EventsToClients, OneRowMoves

LEMMA ClassifiedEvent ==
  ASSUME NEW k \in FailureKinds, NEW m, NEW n
  PROVE  ClassifyFailure(k, m, n) \in Events \ {"proof_succeeded"}
BY DEF FailureKinds, ClassifyFailure, Events

LEMMA ContractStep ==
  ASSUME TypeOK, [Next]_columns
  PROVE  [Contract!ContractNext]_(Contract!contract)
<1> DEFINE Goal == [Contract!ContractNext]_(Contract!contract)
<1>1. ASSUME NEW j \in Job, Enqueue(j) PROVE Goal
  BY <1>1, OneRowMoves DEF Enqueue, ClientStatus
<1>2. ASSUME NEW j \in Job, NEW e \in Events \ {"proof_succeeded"}, ApplyEvent(j, e)
      PROVE  Goal
  BY <1>2, AppliedToClients DEF ApplyEvent
<1>3. ASSUME NEW j \in Job,
             \/ BeginProving(j) \/ ReleaseLease(j)
             \/ ConfirmSettled(j) \/ UnwindSettled(j)
      PROVE  Goal
  BY <1>2, <1>3 DEF BeginProving, ReleaseLease, ConfirmSettled, UnwindSettled, Events
<1>4. ASSUME NEW j \in Job, NEW k \in FailureKinds, RecordFailure(j, k) PROVE Goal
  BY <1>4, ClassifiedEvent, AppliedToClients DEF RecordFailure
<1>5. ASSUME NEW j \in Job, NEW k \in FailureKinds, RecordSubmissionFailure(j, k)
      PROVE  Goal
  BY <1>5, ClassifiedEvent, AppliedToClients DEF RecordSubmissionFailure
<1>6. ASSUME NEW j \in Job, NEW a \in Actor, LeaseNext(j, a) PROVE Goal
  BY <1>6, OneRowMoves DEF LeaseNext, Waiting, Transition, ClientStatus
<1>7. ASSUME NEW j \in Job, NEW a \in Actor, LeaseNextProved(j, a) PROVE Goal
  BY <1>7, OneRowMoves DEF LeaseNextProved, Waiting, Transition, ClientStatus
<1>8. ASSUME NEW j \in Job, NEW a \in Actor, RecordProof(j, a) PROVE Goal
  <2>1. state[j] = "proving" /\ Transition(state[j], "proof_succeeded") = "proved"
    BY <1>8 DEF RecordProof, CanTransition, Transition, AfterRetry
  <2>2. state' = [state EXCEPT ![j] = "proved"] /\ proof' = [proof EXCEPT ![j] = a]
    BY <1>8, <2>1 DEF RecordProof, MoveTo
  <2>3. /\ [i \in Job |-> ClientStatus(state'[i])] =
             [[i \in Job |-> ClientStatus(state[i])] EXCEPT ![j] = "proved"]
        /\ [i \in Job |-> ClientStatus(state[i])][j] = "accepted"
    BY <2>1, <2>2, StatusValues DEF TypeOK
  <2>4. Contract!Prove(j, a)
    BY <2>2, <2>3 DEF Contract!Prove, Contract!Moves
  <2>5. QED
    BY <2>4 DEF Contract!ContractNext
<1>9. ASSUME NEW rows \in SUBSET Job, ReapExpired(rows) PROVE Goal
  <2> DEFINE lost == {j \in rows : Transition(state[j], ReapEvent(j)) = "failed"}
  <2>1. \A j \in rows : /\ ClientStatus(state[j]) \in {"accepted", "proved"}
                        /\ \/ Transition(state[j], ReapEvent(j)) = "failed"
                           \/ ClientStatus(Transition(state[j], ReapEvent(j)))
                                = ClientStatus(state[j])
    BY <1>9 DEF ReapExpired, Expired, IsInFlight, ReapEvent, ClassifyFailure,
                Transition, AfterRetry, ClientStatus
  <2>2. \A j \in Job : ClientStatus(state'[j]) =
          IF j \in lost THEN "failed" ELSE ClientStatus(state[j])
    <3>1. \A j \in Job : state'[j] = IF j \in rows THEN Transition(state[j], ReapEvent(j))
                                                   ELSE state[j]
      BY <1>9 DEF ReapExpired
    <3>2. QED
      BY <2>1, <3>1, StatusValues
  <2>3. Contract!GiveUp(lost)
    BY <1>9, <2>1, <2>2 DEF Contract!GiveUp, ReapExpired
  <2>4. QED
    BY <2>3 DEF Contract!ContractNext
<1>10. ASSUME NEW j \in Job,
              \/ LeaseRunsOut(j) \/ RetryComesDue(j)
              \/ \E a \in Actor : RenewLease(j, a)
       PROVE  Goal
  BY <1>10, SameToClients DEF LeaseRunsOut, RetryComesDue, RenewLease
<1>11. CASE UNCHANGED columns
  BY <1>11, SameToClients DEF columns
<1>12. QED
  BY <1>1, <1>3, <1>4, <1>5, <1>6, <1>7, <1>8, <1>9, <1>10, <1>11 DEF Next, ServiceNext

\* Every behaviour of the store, whoever calls and however late, is one that
\* JobContract allows.
THEOREM StoreImplementsContract == Spec => ImplementsContract
<1>1. Init => Contract!ContractInit
  BY DEF Init, Contract!ContractInit, ClientStatus
<1>2. TypeOK /\ [Next]_columns => [Contract!ContractNext]_(Contract!contract)
  BY ContractStep
<1>3. QED
  BY <1>1, <1>2, StoreTypeCorrect, PTL DEF Spec, ImplementsContract, Contract!ContractSpec
=============================================================================
