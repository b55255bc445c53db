---------------------------- MODULE JobLifecycle ----------------------------
(***************************************************************************)
(* The job state machine of dray-core: a pure table over states and        *)
(* events, and the retry policy that chooses the event for a failure.      *)
(* Nothing here has variables; the store applies the table inside its      *)
(* transactions.                                                           *)
(***************************************************************************)
EXTENDS Naturals

\* JobState: where a job is in its life.
States == {"queued", "leased", "proving", "proved",
           "submitting", "settled", "failed", "rejected"}

\* JobEvent: something that happened to a job.
Events == {"leased", "proving_started", "proof_succeeded",
           "submission_started", "settlement_confirmed", "lease_expired",
           "retry_scheduled", "attempts_exhausted", "permanently_failed",
           "validation_rejected", "reorged"}

\* FailureKind: whether trying again could help.
FailureKinds == {"transient", "permanent"}

\* is_terminal. Settled is not terminal: a reorg may undo it.
IsTerminal(s) == s \in {"failed", "rejected"}

\* is_in_flight: a worker or a relayer is expected to hold the job.
IsInFlight(s) == s \in {"leased", "proving", "submitting"}

\* Slip: a retry after a proof exists throws the proof away.
AfterRetryDroppingProof(s) == IF s \in {"settled", "failed", "rejected"}
                                THEN "illegal" ELSE "queued"

\* The retry_scheduled arms of transition: before a proof exists the proof is
\* redone, after that only the submission is.
AfterRetry(s) ==
  CASE s \in {"queued", "leased", "proving"} -> "queued"
    [] s \in {"proved", "submitting"} -> "proved"
    [] OTHER -> "illegal"

\* transition: the next state, or "illegal" where the code returns
\* IllegalTransition.
Transition(s, e) ==
  CASE s = "queued"     /\ e = "leased"               -> "leased"
    [] s = "leased"     /\ e = "proving_started"      -> "proving"
    [] s = "proving"    /\ e = "proof_succeeded"      -> "proved"
    [] s = "proved"     /\ e = "submission_started"   -> "submitting"
    [] s = "submitting" /\ e = "settlement_confirmed" -> "settled"
    [] s \in {"leased", "proving"} /\ e = "lease_expired" -> "queued"
    [] e = "retry_scheduled" -> AfterRetry(s)
    [] /\ s \in {"queued", "leased", "proving", "proved", "submitting"}
       /\ e \in {"attempts_exhausted", "permanently_failed"} -> "failed"
    [] s = "queued"  /\ e = "validation_rejected" -> "rejected"
    [] s = "settled" /\ e = "reorged"             -> "proved"
    [] OTHER -> "illegal"

\* can_transition
CanTransition(s, e) == Transition(s, e) # "illegal"

\* classify_failure: the event for a failed attempt, where made counts the
\* attempts already made, the failed one included.
ClassifyFailure(kind, made, max) ==
  CASE kind = "permanent" -> "permanently_failed"
    [] kind = "transient" /\ made >= max -> "attempts_exhausted"
    [] OTHER -> "retry_scheduled"
=============================================================================
