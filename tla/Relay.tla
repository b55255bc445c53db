------------------------------- MODULE Relay --------------------------------
(***************************************************************************)
(* The relayers: each takes proved jobs one at a time, broadcasts the      *)
(* settlement, follows it to depth, records the end, and watches what has  *)
(* settled for a reorg. The store is JobStore with the settlements table,  *)
(* the chain is Chain; every relayer signs with an account of its own.     *)
(*                                                                         *)
(* Each call to the store or the node is a step of its own where the code  *)
(* goes on to use its answer, so the chain, another relayer or the lease   *)
(* may move between the two. Delays (polling, the stuck timer) are left    *)
(* out: whatever a relayer does after waiting, it may do at once.          *)
(*                                                                         *)
(* Jobs start proved: how they become so is WorkerPool's.                  *)
(***************************************************************************)
EXTENDS JobStore, Chain

CONSTANTS
  Relayer,      \* ids of the relayers, and their accounts
  Nothing,      \* no job, no transaction, no nonce, no note
  Disturbances, \* bound on crashes, shutdowns, stalls and failed store calls
  TableKept     \* whether nothing of that leaves the table behind the relayers

ASSUME RelayAssumption ==
  /\ Relayer = Account /\ Relayer \subseteq Actor /\ Relayer # Actor
  /\ Job = Call /\ Nothing \notin Job
  /\ Disturbances \in Nat /\ TableKept \in BOOLEAN

VARIABLES
  settlements, \* the settlements table, in order of created_at
  pc,          \* where each relayer is in settle and track
  work,        \* the attempt each relayer is making
  nonce,       \* what each relayer's NonceManager holds
  noticed,     \* the settlement each reorg watcher found gone
  disturbances \* disturbances so far

relayers == <<pc, work, nonce, noticed, disturbances>>
vars == <<columns, chain, settlements, relayers>>

\* tx is the transaction being followed, sent the one just broadcast and not
\* yet written down, replaceable whether its nonce and price are known.
Attempt == [job : Job \cup {Nothing}, tx : Tx \cup {Nothing},
            sent : Tx \cup {Nothing}, replaceable : BOOLEAN]

NoAttempt == [job |-> Nothing, tx |-> Nothing, sent |-> Nothing,
              replaceable |-> FALSE]

Row == [job : Job, tx : Tx, confirmed : BOOLEAN, reorged : BOOLEAN]

RelayTypeOK ==
  /\ TypeOK
  /\ ChainTypeOK
  /\ settlements \in Seq(Row)
  /\ pc \in [Relayer -> {"idle", "taken", "checking", "sending", "sent",
                         "tracking", "gap", "resent", "reverted", "deep",
                         "elsewhere"}]
  /\ work \in [Relayer -> Attempt]
  /\ nonce \in [Relayer -> Nat \cup {Nothing}]
  /\ noticed \in [Relayer -> [job : Job, tx : Tx] \cup {Nothing}]
  /\ disturbances \in 0..Disturbances

\* Every job has been proved, in its first attempt.
RelayInit ==
  /\ ChainInit
  /\ state = [j \in Job |-> "proved"]
  /\ leasedBy = [j \in Job |-> NoOne]
  /\ leaseExpiry = [j \in Job |-> "none"]
  /\ attempts = [j \in Job |-> 1]
  /\ submissionAttempts = [j \in Job |-> 0]
  /\ \E w \in Actor \ Relayer :
       /\ proof = [j \in Job |-> w]
       /\ jobAttempts = [job : Job, number : {1}, worker : {w},
                         outcome : {"succeeded"}]
  /\ retryAfter = [j \in Job |-> "none"]
  /\ settlements = <<>>
  /\ pc = [r \in Relayer |-> "idle"]
  /\ work = [r \in Relayer |-> NoAttempt]
  /\ nonce = [r \in Relayer |-> Nothing]
  /\ noticed = [r \in Relayer |-> Nothing]
  /\ disturbances = 0
-----------------------------------------------------------------------------
(* The settlements table. *)

Rows == DOMAIN settlements
Live(i) == ~settlements[i].reorged
RowsOf(j) == {i \in Rows : settlements[i].job = j}

\* latest_settlement
Latest(j) == CHOOSE i \in RowsOf(j) : \A k \in RowsOf(j) : k <= i

\* Slip: only what has been confirmed.
ResumesConfirmed(j) == RowsOf(j) # {} /\ settlements[Latest(j)].confirmed

\* settle: whether there is a settlement to resume.
Resumes(j) == RowsOf(j) # {} /\ Live(Latest(j))

\* Slips: the broadcast is not written down; any insert goes through.
ForgetSubmission(j, t) == UNCHANGED settlements
InsertAlways(j, t) ==
  settlements' = Append(settlements,
    [job |-> j, tx |-> t, confirmed |-> FALSE, reorged |-> FALSE])

\* record_submission: the unique index refuses a second live row for one
\* nullifier, and the caller only logs it.
RecordSubmission(j, t) ==
  LET refused == \E i \in Rows :
        Live(i) /\ NullifierOf[settlements[i].job] = NullifierOf[j]
  IN settlements' = IF refused THEN settlements
       ELSE Append(settlements, [job |-> j, tx |-> t, confirmed |-> FALSE,
                                 reorged |-> FALSE])

\* Slip: the row keeps its first transaction.
KeepSubmissionTx(j, from, to) == UNCHANGED settlements

\* replace_submission_tx
ReplaceSubmissionTx(j, from, to) ==
  settlements' = [i \in Rows |->
    IF settlements[i].job = j /\ settlements[i].tx = from /\ Live(i)
      THEN [settlements[i] EXCEPT !.tx = to] ELSE settlements[i]]

\* confirm_settlement: both tables in one transaction.
ConfirmSettlement(j, t) ==
  /\ ConfirmSettled(j)
  /\ settlements' = [i \in Rows |->
       IF settlements[i].job = j /\ settlements[i].tx = t /\ Live(i)
         THEN [settlements[i] EXCEPT !.confirmed = TRUE] ELSE settlements[i]]

\* record_reorg: every row of the job with that hash is stamped.
RecordReorg(j, t) ==
  /\ UnwindSettled(j)
  /\ settlements' = [i \in Rows |->
       IF settlements[i].job = j /\ settlements[i].tx = t
         THEN [settlements[i] EXCEPT !.reorged = TRUE, !.confirmed = FALSE]
         ELSE settlements[i]]
-----------------------------------------------------------------------------
(* One relayer. *)

JobOf(r) == work[r].job
At(r, place) == pc[r] = place
GoTo(r, place) == pc' = [pc EXCEPT ![r] = place]

\* The attempt is over and nothing more is written.
Rest(r) ==
  /\ GoTo(r, "idle")
  /\ work' = [work EXCEPT ![r] = NoAttempt]

Disturb ==
  /\ disturbances < Disturbances
  /\ disturbances' = disturbances + 1

\* run: lease_next_proved.
Take(r, j) ==
  /\ At(r, "idle")
  /\ LeaseNextProved(j, r)
  /\ GoTo(r, "taken")
  /\ work' = [work EXCEPT ![r].job = j]
  /\ UNCHANGED <<chain, settlements, nonce, noticed, disturbances>>

\* settle: a live settlement on record is resumed, whoever broadcast it; its
\* nonce and price come from the node, if it answers and still knows it.
Resume(r) ==
  /\ At(r, "taken")
  /\ Resumes(JobOf(r))
  /\ LET t == settlements[Latest(JobOf(r))].tx
     IN \/ /\ work' = [work EXCEPT ![r].tx = t, ![r].replaceable = KnownToNode(t)]
           /\ UNCHANGED disturbances
        \/ work' = [work EXCEPT ![r].tx = t] /\ Disturb
  /\ GoTo(r, "tracking")
  /\ UNCHANGED <<columns, chain, settlements, nonce, noticed>>

\* TableKept takes three things for granted that may fail: that no lease runs
\* out under a relayer at work, that one which asks what is on record is told,
\* and that what it sends and follows is written down. All else fails still:
\* calls to the node and their answers, the writes that end an attempt, the
\* relayers themselves.

\* settle: nothing to resume. If the store cannot say, the code goes on as if
\* there were nothing.
StartFresh(r) ==
  /\ At(r, "taken")
  /\ \/ ~Resumes(JobOf(r)) /\ UNCHANGED disturbances
     \/ Resumes(JobOf(r)) /\ ~TableKept /\ Disturb
  /\ GoTo(r, "checking")
  /\ UNCHANGED <<columns, chain, settlements, work, nonce, noticed>>

\* Slip: the failure is recorded, and the attempt begins again.
FailAndGoOn(r, kind) ==
  /\ RecordSubmissionFailure(JobOf(r), kind)
  /\ GoTo(r, "taken")
  /\ UNCHANGED <<settlements, work>>

\* record_failure ends the attempt; if the store refuses, the relayer walks
\* away just the same.
FailAttempt(r, kind) ==
  /\ \/ RecordSubmissionFailure(JobOf(r), kind)
     \/ ~CanTransition(state[JobOf(r)], "retry_scheduled") /\ UNCHANGED columns
  /\ Rest(r)
  /\ UNCHANGED settlements

\* Slip: whatever goes wrong is the last word on the proof.
GiveUp(r) == FailAttempt(r, "permanent")

\* classify: an error not known to be about the proof is transient.
TryLater(r) == FailAttempt(r, "transient")

\* settle: nullifier_used, then the estimate, which runs the contract's settle.
\* Only what it says of the proof is taken for permanent.
Check(r) ==
  /\ At(r, "checking")
  /\ \/ /\ NullifierUsed(JobOf(r))
        /\ GoTo(r, "elsewhere")
        /\ UNCHANGED <<columns, settlements, work>>
     \/ /\ ~NullifierUsed(JobOf(r)) /\ Admits(r) /\ JobOf(r) \in Sound
        /\ GoTo(r, "sending")
        /\ UNCHANGED <<columns, settlements, work>>
     \/ /\ ~NullifierUsed(JobOf(r)) /\ ~Admits(r)
        /\ TryLater(r)
     \/ /\ ~NullifierUsed(JobOf(r)) /\ Admits(r) /\ JobOf(r) \notin Sound
        /\ FailAttempt(r, "permanent")
  /\ UNCHANGED <<chain, nonce, noticed, disturbances>>

\* broadcast: the nonce is the cached one, or else the node's pending count.
NonceFor(r) == IF nonce[r] # Nothing THEN nonce[r] ELSE PendingNonce(r)
FirstOffer(r) ==
  [from |-> r, nonce |-> NonceFor(r), call |-> JobOf(r), price |-> 1]

\* A call to the node that fails before anything is sent. In broadcast the
\* nonce may have been read by then, and stays cached.
NodeFails(r) ==
  /\ pc[r] \in {"checking", "sending", "reverted"}
  /\ Disturb
  /\ \/ UNCHANGED nonce
     \/ At(r, "sending") /\ nonce' = [nonce EXCEPT ![r] = NonceFor(r)]
  /\ TryLater(r)
  /\ UNCHANGED <<chain, noticed>>

\* broadcast, up to the node's acceptance.
Broadcast(r) ==
  /\ At(r, "sending")
  /\ Accepts(FirstOffer(r))
  /\ Send(FirstOffer(r))
  /\ nonce' = [nonce EXCEPT ![r] = NonceFor(r)]
  /\ work' = [work EXCEPT ![r].sent = FirstOffer(r)]
  /\ GoTo(r, "sent")
  /\ UNCHANGED <<columns, settlements, noticed, disturbances>>

\* broadcast, refused: every refusal modelled is a nonce disagreement, so the
\* cached nonce is discarded.
BroadcastRefused(r) ==
  /\ At(r, "sending")
  /\ ~Accepts(FirstOffer(r))
  /\ nonce' = [nonce EXCEPT ![r] = Nothing]
  /\ TryLater(r)
  /\ UNCHANGED <<chain, noticed, disturbances>>

\* The node took the transaction, its answer was lost, and the relayer
\* records a failure.
BroadcastAnswerLost(r) ==
  /\ At(r, "sending")
  /\ Disturb
  /\ Accepts(FirstOffer(r))
  /\ Send(FirstOffer(r))
  /\ nonce' = [nonce EXCEPT ![r] = NonceFor(r)]
  /\ TryLater(r)
  /\ UNCHANGED noticed

\* NonceGuard::consumed
Consumed(r) ==
  nonce' = [nonce EXCEPT ![r] = IF @ = Nothing THEN Nothing ELSE @ + 1]

\* settle, after the broadcast: the nonce is consumed and the settlement is
\* written down before it is followed. A write that fails is only logged.
NoteBroadcast(r) ==
  /\ At(r, "sent")
  /\ Consumed(r)
  /\ \/ RecordSubmission(JobOf(r), work[r].sent) /\ UNCHANGED disturbances
     \/ ~TableKept /\ Disturb /\ UNCHANGED settlements
  /\ work' = [work EXCEPT ![r].tx = work[r].sent, ![r].sent = Nothing,
                          ![r].replaceable = TRUE]
  /\ GoTo(r, "tracking")
  /\ UNCHANGED <<columns, chain, noticed>>

\* track: the transaction is mined. One that reverted is looked into, one
\* deep enough and on the canonical chain is recorded.
SeeMined(r) ==
  /\ At(r, "tracking")
  /\ \/ Reverted(work[r].tx) /\ GoTo(r, "reverted")
     \/ BuriedDeep(work[r].tx) /\ GoTo(r, "deep")
  /\ UNCHANGED <<columns, chain, settlements, work, nonce, noticed, disturbances>>

\* track: the receipt still names a block that is no longer canonical.
SeeOrphaned(r) ==
  /\ At(r, "tracking")
  /\ Orphaned(work[r].tx)
  /\ FailAttempt(r, "transient")
  /\ UNCHANGED <<chain, nonce, noticed, disturbances>>

\* track, not mined: the code waits for a while before it acts.
Stuck(r) == /\ At(r, "tracking") /\ work[r].replaceable
            /\ \A ok \in BOOLEAN : ~Receipt(work[r].tx, ok)

\* Slip: nobody asks whether the nonce can be reached.
NeverBehindGap(r) == FALSE

\* The nonce is ahead of what the account's pending transactions reach.
BehindGap(r) == PendingNonce(r) < work[r].tx.nonce

\* Slip: whatever is stuck is given a new nonce.
LeaveNonce(r) ==
  /\ Stuck(r)
  /\ nonce' = [nonce EXCEPT ![r] = Nothing]
  /\ GoTo(r, "gap")
  /\ UNCHANGED <<columns, chain, settlements, work, noticed, disturbances>>

\* track, stuck behind a gap: the cached nonce is discarded.
SeeGap(r) ==
  /\ Stuck(r)
  /\ BehindGap(r)
  /\ nonce' = [nonce EXCEPT ![r] = Nothing]
  /\ GoTo(r, "gap")
  /\ UNCHANGED <<columns, chain, settlements, work, noticed, disturbances>>

\* The same call at the same price, under a nonce read again.
Crossing(r) == [work[r].tx EXCEPT !.from = r, !.nonce = NonceFor(r)]

\* The resend of track, through broadcast.
CrossGap(r) ==
  /\ At(r, "gap")
  /\ Accepts(Crossing(r))
  /\ Send(Crossing(r))
  /\ nonce' = [nonce EXCEPT ![r] = NonceFor(r)]
  /\ work' = [work EXCEPT ![r].sent = Crossing(r)]
  /\ GoTo(r, "resent")
  /\ UNCHANGED <<columns, settlements, noticed, disturbances>>

\* The resend fails, or its answer is lost: the relayer goes on following the
\* original. The nonce stays cached if it was read, and only then is the
\* transaction with the node, perhaps.
CrossGapFails(r) ==
  /\ At(r, "gap")
  /\ Disturb
  /\ \/ UNCHANGED <<chain, nonce>>
     \/ /\ nonce' = [nonce EXCEPT ![r] = NonceFor(r)]
        /\ \/ UNCHANGED chain
           \/ Accepts(Crossing(r)) /\ Send(Crossing(r))
  /\ GoTo(r, "tracking")
  /\ UNCHANGED <<columns, settlements, work, noticed>>

\* The same nonce and call at a higher price, from this relayer's account.
Raised(r) == [work[r].tx EXCEPT !.from = r, !.price = @ + 1]

\* Slip: there is always a higher price.
AnyPrice(r) == TRUE

UnderCeiling(r) == work[r].tx.price < MaxPrice

\* track, stuck: replace it at a higher price. A replacement the node refuses
\* changes nothing, and at the ceiling none is offered. When the nonce cannot
\* be read the code bumps all the same.
Bump(r) ==
  /\ Stuck(r)
  /\ UnderCeiling(r)
  /\ Accepts(Raised(r))
  /\ Send(Raised(r))
  /\ IF BehindGap(r) THEN Disturb ELSE UNCHANGED disturbances
  /\ work' = [work EXCEPT ![r].sent = Raised(r)]
  /\ GoTo(r, "resent")
  /\ UNCHANGED <<columns, settlements, nonce, noticed>>

\* The node took the replacement, its answer was lost, and the relayer goes on
\* following the original.
BumpAnswerLost(r) ==
  /\ Stuck(r)
  /\ ~BehindGap(r)
  /\ UnderCeiling(r)
  /\ Accepts(Raised(r))
  /\ Send(Raised(r))
  /\ Disturb
  /\ UNCHANGED <<columns, settlements, pc, work, nonce, noticed>>

\* track, after a resend: the row is pointed at the new transaction. Only a
\* new nonce is consumed. A write that fails is only logged.
NoteResend(r) ==
  /\ At(r, "resent")
  /\ IF work[r].sent.nonce # work[r].tx.nonce THEN Consumed(r) ELSE UNCHANGED nonce
  /\ \/ /\ ReplaceSubmissionTx(JobOf(r), work[r].tx, work[r].sent)
        /\ UNCHANGED disturbances
     \/ ~TableKept /\ Disturb /\ UNCHANGED settlements
  /\ work' = [work EXCEPT ![r].tx = work[r].sent, ![r].sent = Nothing]
  /\ GoTo(r, "tracking")
  /\ UNCHANGED <<columns, chain, noticed>>

\* Slip: a revert is taken for a rejected proof.
ExplainByReceipt(r) == FailAttempt(r, "permanent")

\* explain_revert: what the nullifier says of a reverted transaction.
ExplainRevert(r) ==
  \/ /\ NullifierUsed(JobOf(r))
     /\ GoTo(r, "elsewhere")
     /\ UNCHANGED <<columns, settlements, work>>
  \/ /\ ~NullifierUsed(JobOf(r))
     /\ FailAttempt(r, "permanent")

LookIntoRevert(r) ==
  /\ At(r, "reverted")
  /\ ExplainRevert(r)
  /\ UNCHANGED <<chain, nonce, noticed, disturbances>>

\* confirm, the write: settled, or the store refuses and the relayer walks
\* away.
Confirm(r) ==
  /\ At(r, "deep")
  /\ \/ ConfirmSettlement(JobOf(r), work[r].tx)
     \/ /\ ~CanTransition(state[JobOf(r)], "settlement_confirmed")
        /\ UNCHANGED <<columns, settlements>>
  /\ Rest(r)
  /\ UNCHANGED <<chain, nonce, noticed, disturbances>>

\* mark_settled_elsewhere: settled, with no row to show for it.
MarkSettledElsewhere(r) ==
  /\ At(r, "elsewhere")
  /\ \/ ConfirmSettled(JobOf(r))
     \/ /\ ~CanTransition(state[JobOf(r)], "settlement_confirmed")
        /\ UNCHANGED columns
  /\ Rest(r)
  /\ UNCHANGED <<chain, settlements, nonce, noticed, disturbances>>

\* The write that ends the attempt fails: logged, and the job is left to its
\* lease.
WriteFails(r) ==
  /\ pc[r] \in {"checking", "sending", "reverted", "deep", "elsewhere"}
  /\ Disturb
  /\ Rest(r)
  /\ UNCHANGED <<columns, chain, settlements, nonce, noticed>>

\* heartbeat
Renew(r) ==
  /\ ~At(r, "idle")
  /\ RenewLease(JobOf(r), r)
  /\ UNCHANGED <<chain, settlements, relayers>>

\* attempt: a renewal is refused, and the attempt is dropped wherever it is.
LeaseLost(r) ==
  /\ ~At(r, "idle")
  /\ ~Holds(r, JobOf(r))
  /\ Rest(r)
  /\ UNCHANGED <<columns, chain, settlements, nonce, noticed, disturbances>>

\* The process ends and a new one takes its place: a crash, or a shutdown
\* that outlasts its grace and releases the lease if the store lets it.
Restart(r) ==
  /\ Disturb
  /\ \/ UNCHANGED columns
     \/ ~At(r, "idle") /\ ReleaseLease(JobOf(r))
  /\ Rest(r)
  /\ nonce' = [nonce EXCEPT ![r] = Nothing]
  /\ noticed' = [noticed EXCEPT ![r] = Nothing]
  /\ UNCHANGED <<chain, settlements>>

\* What the relayer's loop does next, its calls to the store and the node
\* answered.
Progress(r) ==
  \/ \E j \in Job : Take(r, j)
  \/ Resume(r) \/ StartFresh(r) \/ Check(r)
  \/ Broadcast(r) \/ BroadcastRefused(r) \/ NoteBroadcast(r)
  \/ SeeMined(r) \/ SeeOrphaned(r) \/ SeeGap(r) \/ CrossGap(r) \/ Bump(r) \/ NoteResend(r)
  \/ LookIntoRevert(r) \/ Confirm(r) \/ MarkSettledElsewhere(r)
  \/ LeaseLost(r)
-----------------------------------------------------------------------------
(* The reorg watcher of each relayer: what it finds gone, it unwinds in a   *)
(* later step, without looking again.                                       *)

Notice(r) ==
  /\ noticed[r] = Nothing
  /\ \E i \in Rows :
       /\ Live(i) /\ state[settlements[i].job] = "settled"
       /\ ~NullifierUsed(settlements[i].job)
       /\ noticed' = [noticed EXCEPT ![r] =
                        [job |-> settlements[i].job, tx |-> settlements[i].tx]]
  /\ UNCHANGED <<columns, chain, settlements, pc, work, nonce, disturbances>>

Unwind(r) ==
  /\ noticed[r] # Nothing
  /\ \/ RecordReorg(noticed[r].job, noticed[r].tx)
     \/ /\ ~CanTransition(state[noticed[r].job], "reorged")
        /\ UNCHANGED <<columns, settlements>>
  /\ noticed' = [noticed EXCEPT ![r] = Nothing]
  /\ UNCHANGED <<chain, pc, work, nonce, disturbances>>

Watch(r) == Notice(r) \/ Unwind(r)
-----------------------------------------------------------------------------
(* The reaper, time, and the whole. *)

Reap ==
  /\ \E rows \in SUBSET Expired : ReapExpired(rows)
  /\ UNCHANGED <<chain, settlements, relayers>>

\* A lease runs out under a relayer that runs only if it stalls.
Holding(r, j) == JobOf(r) = j /\ leasedBy[j] = r

TimePasses(j) ==
  /\ \/ /\ LeaseRunsOut(j)
        /\ IF \E r \in Relayer : Holding(r, j) THEN ~TableKept /\ Disturb
                                              ELSE UNCHANGED disturbances
     \/ RetryComesDue(j) /\ UNCHANGED disturbances
  /\ UNCHANGED <<chain, settlements, pc, work, nonce, noticed>>

RelayNext ==
  \/ \E r \in Relayer : \/ Progress(r) \/ Watch(r) \/ Renew(r) \/ Restart(r)
                        \/ NodeFails(r) \/ BroadcastAnswerLost(r)
                        \/ BumpAnswerLost(r) \/ CrossGapFails(r) \/ WriteFails(r)
  \/ \E j \in Job : TimePasses(j)
  \/ Reap
  \/ (Network \/ Administration) /\ UNCHANGED <<columns, settlements, relayers>>

RelaySpec == RelayInit /\ [][RelayNext]_vars

\* A relayer goes on with its loop and its watcher with its rounds; clocks
\* advance and the reaper ticks; the chain makes blocks, and in the end mines
\* what is pending and next in its account's order.
ReapAll == Reap /\ \A j \in Expired : leaseExpiry'[j] = "none"
MakesBlocks == NewBlock \/ \E t \in pool : Mine(t)

RelayFairness ==
  /\ \A r \in Relayer : WF_vars(Progress(r)) /\ WF_vars(Watch(r))
  /\ \A j \in Job : WF_vars(TimePasses(j))
  /\ WF_vars(ReapAll)
  /\ WF_vars(MakesBlocks /\ UNCHANGED <<columns, settlements, relayers>>)

FairRelaySpec == RelaySpec /\ RelayFairness
-----------------------------------------------------------------------------
(* Properties. *)

\* The pool as seen from here: workers that have stopped, and relayers of which
\* only the job is known. No bound of the pool's applies.
Pool == INSTANCE WorkerPool
          WITH Worker <- Actor \ Relayer, NoJob <- Nothing, HeartbeatsKeepUp <- FALSE,
               pc <- [w \in Actor \ Relayer |-> "stopped"],
               held <- [w \in Actor \ Relayer |-> [job |-> Nothing, attempt |-> 0]],
               shutdown <- [w \in Actor \ Relayer |-> FALSE],
               submitting <- [r \in Relayer |-> work[r].job],
               disturbances <- 0

\* What the pool takes a relayer to be, this relayer is: in every step of any
\* relayer, its watcher and its reaper, the jobs table and the job in hand
\* change as one of WorkerPool's relayers changes them, or not at all.
RelaysAsThePoolAssumes == [][Pool!RelayersNext]_<<columns, Pool!processes>>

\* latest_settlement is enough to resume from: a job's live settlement is its
\* latest, and no other settlement of its nullifier is live.
LiveSettlementIsLatest ==
  \A i \in Rows : Live(i) =>
    /\ i = Latest(settlements[i].job)
    /\ \A k \in Rows \ {i} :
         NullifierOf[settlements[k].job] = NullifierOf[settlements[i].job] => ~Live(k)

\* Replacements included, the transaction a relayer follows is the one its
\* job's live row names, so a successor resumes the right one and the
\* confirmation reaches the row.
RowNamesTrackedTransaction ==
  \A r \in Relayer : pc[r] \in {"tracking", "deep"} =>
    /\ Resumes(JobOf(r))
    /\ settlements[Latest(JobOf(r))].tx = work[r].tx

\* A job that says it is settled is settled on chain, or has a live row, and
\* so a watcher that will find out that it no longer is.
SettledIsConsumedOrWatched ==
  \A j \in Job : state[j] = "settled" =>
    NullifierUsed(j) \/ \E i \in RowsOf(j) : Live(i)

\* No job is given up while its nullifier is spent: a duplicate that the
\* contract refuses is a settlement, not a failure.
FailedIsNotSettled ==
  \A j \in Job : state[j] = "failed" => ~NullifierUsed(j)

\* A proof the verifier accepts costs its job nothing but the submission
\* budget: no duplicate, race, crash, lost answer or replaced transaction fails
\* the job any sooner. Two things do, since a revert that left the nullifier
\* alone is put down to the proof: the owner's changes to the contract, and a
\* reorg that takes back the settlement the revert was about.
FailureIsDeserved ==
  \A j \in Job : state[j] = "failed" /\ j \in Sound =>
    submissionAttempts[j] >= MaxAttempts \/ changes > 0 \/ reorgs > 0

\* While the transaction on record is pending and can be mined, nothing else
\* is sent for its job but a replacement: the same account and the same
\* nonce. No second nonce is spent racing the first.
SendsOnlyReplacements ==
  \A t \in pool' \ pool : reorgs' = reorgs =>
    \A i \in RowsOf(t.call) :
      LET u == settlements[i].tx
      IN Live(i) /\ u \in pool /\ u.nonce < PendingNonce(u.from) => SameSlot(t, u)

\* Nothing the relayers, the node or a reorg do sends a second transaction
\* beside the pending one, in any step.
OneNoncePerSettlement == [][SendsOnlyReplacements]_vars

\* A relayer gives its transaction another nonce only if it has to: the gap it
\* found is there until it acts, whatever the chain does in between. So what it
\* leaves behind cannot be mined beside what it sends.
GapStaysOpen == \A r \in Relayer : At(r, "gap") => BehindGap(r)

\* What is proved is decided: settled, on chain and for good, or failed.
EveryProofIsDecided ==
  \A j \in Job : <>[](\/ state[j] = "settled" /\ NullifierUsed(j)
                      \/ state[j] = "failed")
=============================================================================
