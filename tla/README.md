# A verification model of Dray

Dray takes requests for zero-knowledge proofs over HTTP, keeps them in
Postgres, has a pool of workers prove them and relayers settle the proofs on a
chain. This directory holds TLA+ models of the parts that decide what happens
to a job, the TLC configurations that check them on small instances, and proofs
of what holds for every instance.

    tlc -workers 4 -config WorkerPoolPrompt.cfg WorkerPoolMC.tla
    tlapm JobStoreProofs.tla

## The system

| Component | State it keeps | Operations | What makes it correct |
| --- | --- | --- | --- |
| Job state machine (`dray-core/src/job.rs`) | none, a pure table | `transition`, `classify_failure` | a stored proof is never thrown away; every event the store applies is legal |
| Store, jobs and attempts (`dray-store/src/lib.rs`, `migrations/`) | `jobs`, `job_attempts` | `enqueue`, `lease_next`, `renew_lease`, `begin_proving`, `record_proof`, `record_failure`, `release_lease`, `reap_expired_leases`, `lease_next_proved`, `record_submission_failure` | leases are whole, attempts are accounted for, no row is hidden from its queue |
| Store, settlements | `settlements`, one live row per nullifier | `record_submission`, `replace_submission_tx`, `confirm_settlement`, `record_reorg`, `mark_settled_elsewhere`, `latest_settlement` | a successor finds the broadcast to resume, a watcher finds what to watch |
| Worker (`dray-worker/src/worker.rs`) | loop position, held job, shutdown signal | lease, prove, record; heartbeat, reaper, shutdown with grace | a result is written against the attempt that produced it; every job is decided |
| Relayer (`dray-relayer/src/relayer.rs`) | attempt, cached nonce, reorg watcher | settle, broadcast, track, bump, cross a nonce gap, confirm, explain a revert, unwind | a job is failed only if it did not settle, settled only if it did or is watched; no second nonce races the first |
| Nonce manager (`nonce.rs`) | next nonce, or unknown | begin, synchronise, consumed, invalidate | no gap is left behind, none is waited on for ever |
| Gas policy (`gas.rs`) | none, arithmetic | `initial`, `bump` | offers can be paid, bumps are ones the node takes, a stuck bid rises until a ceiling |
| Settlement contract (`DraySettlement.sol`) | used nullifiers, verifiers, relayers | `settle`; `registerCircuit`, `deregisterCircuit`, `setRelayer` | a nullifier is spent once |
| Chain client (`chain.rs`) | none | nonce, receipt, terms, nullifier, submit | reports what the node says |
| HTTP API (`dray-api`), circuits table | requests under way; `circuits` | `submit`, `enqueue`, `upsert_circuit`, `queue_depth` | the queue is overrun by little; one request creates a job and every other finds it; nothing is taken that was never welcome |
| Validation and hashing (`validate.rs`, `canonical.rs`) | none, pure | `validate_submission`, `canonicalise`, `job_hash` | two requests are one job exactly when they are the same work |
| Bounded subprocess, prover (`bounded.rs`, `prover.rs`) | one child process | run under limits, classify its end | no child outlives its limits; transient and permanent are told apart |
| Backoff (`backoff.rs`), lease mirror (`leases.rs`), metrics, configuration, CLI | | | |

The parts meet in the `jobs` row. The API inserts it, workers and relayers take
a lease on it, renew the lease from a heartbeat task and write the end of their
attempt; a reaper in every process returns rows whose lease ran out. Every store
call is one transaction that locks its row. Nothing is held across calls: a
caller acts on what a previous call told it. That is where the difficulty lies:

- a worker or relayer can stall past its lease and act on a job that is by then
  somebody else's, since the store asks for the job's state and not its holder;
- a request is handled in four calls to the database, with other requests, the
  operator and the workers in between, and may be repeated by a client that
  never heard the answer;
- a process can die, or its answer be lost, between any two calls, in
  particular between a broadcast and the row that records it;
- the chain moves on its own: replaced transactions are mined after all, reorgs
  un-mine settlements and nonces, receipts go on naming orphaned blocks;
- two jobs, or two relayers, can spend the same nullifier;
- attempts on one host share a scratch root and an artefact directory, their
  tools write under fixed names, and a killed tool is not waited for.

`PROJECT.json` lists these hazards with the lines where they bite and the
properties that would notice, or why none does.

## Modules

    JobLifecycle <- JobStore <- WorkerPool <- WorkerPoolMC
                                WorkerPool <- Ingest (with Requests) <- IngestMC
                    JobStore <- Relay (with Chain) <- RelayMC
    JobContract, implemented by JobStore, WorkerPool, Ingest and Relay
                    Proving  <- ProvingMC
                    Bidding  <- BiddingMC

                    JobStoreProofs <- WorkerPoolProofs <- IngestProofs
                    JobStoreProofs (with ChainProofs) <- RelayProofs <- RelayNonceProofs
                    Proving  <- ProvingProofs
                    Bidding  <- BiddingProofs

**JobLifecycle** is `job.rs`: `Transition`, the predicates on states and
`ClassifyFailure`, as operators.

**JobStore** has one variable for each column that decisions depend on, indexed
by job, and one action for each operation of the store. `Spec` lets any caller
call any operation at any time. A job stands for its content hash. Timestamps
are kept as what the queries compare them with: a lease expires in the future
or the past, a retry is due later or already. `proof[j]` names the worker whose
proof was stored.

**JobContract** is the abstract specification: what a client may rely on, with
queues, leases, attempts and transactions left out. A piece of work is accepted,
proved, settled, unsettled by a reorg with its proof kept, or given up for good.
`JobStore!ImplementsContract` maps it onto the columns (`ClientStatus` of the
state, and the stored proof); `KeepsContract` says the same of the steps alone,
for Relay, whose jobs start proved, and is proved of it.

**WorkerPool** adds the processes. `pc[w]` is where a worker is in `run` and
`attempt`, `held[w]` the job *and attempt number* it leased, `shutdown[w]` what
it sees of the signal. Each store call and each reaction to its answer is an
action: `Poll`, `StartProving`, `Heartbeat`, `HeartbeatRefused`, `Succeed`,
`Fail`, `Drain`, `GraceOver`, `HandBack`, `Stop`. `PollAnswerLost`,
`StartRefused`, `ResultDropped` are the error paths, `Crash` and `Restart` what
happens to a process. The relayer is reduced to what it does to the jobs table:
it takes a job, renews, settles, fails or walks away from it, hands it back at
shutdown (`HandBackSubmission`), and sees a settlement gone (`ReorgSeen`).
`Relay!RelaysAsThePoolAssumes` says that the relayers of Relay do no more.

**Ingest** puts the API in front of WorkerPool: `submit` and the `enqueue` it
calls, cut where the database is asked. `at[cl]` is the call a client's request
has come to: `Ask` is the queue's depth, `LookUp` the circuit and the checks
against it, `LookUpAgain` the circuit once more inside `enqueue`, `Insert` the
`INSERT ... ON CONFLICT`, `ReadBack` the row that was there. `BreaksOff` is a
call that fails or a client that goes away, with the insert committed or not;
a client may ask again at any time. `UpsertCircuit` is the operator. `welcome[cl]`
is a history: whether the request was acceptable at some moment since it was
made. Which job a request hashes to and which schemas let it through are
constants, so that the proofs hold of any; the instance computes them with

**Requests**, the pure part: how JSON is read (`Parsed`; the last of a key's
values stands), which texts `validate_submission` lets through, `Canonical` and
`JobHash`, and the `Prover.toml` that `prover.rs` writes (`TomlLines`) and nargo
reads (`ReadToml`). A text is a tree whose strings are single tokens. A key is
written to `Prover.toml` without quotes, so that what a reader makes of it is
another matter: `KeyPath` gives the names between its dots, or none where TOML
has no such key, and `Put` follows them.

**Proving** is what happens inside one attempt, `prover.rs` over `bounded.rs`, on
a host where several calls run at once. `pc[c]` is the tool a call waits for
(what `prove` does between two awaits is one step), `child[c]` whether that tool
runs, is blocked on a full pipe, is killed and not yet dead, or is gone,
`exit[c]` how it ended by itself. `dirs` are the scratch directories that exist,
`files` what is in them and *whose inputs it was made from*. A call is named by
its job and attempt number, as its scratch label is. `answer[c]` is the verdict
that WorkerPool receives: a proof, a transient or permanent failure, or none
because the call was dropped or its worker died. `Prepare` is a worker that
starts and rewrites the artefact directory that the others read. The tools are
external: nargo writes a witness where its inputs are, bb a proof of the witness
it finds, and either may hang, flood stderr, be killed, or fail in words that
`mentions_allocation_failure` knows or does not.

**Chain** is the relayer's view of the node. `ledger` lists mined transactions
with their depth, `pool` what may still be mined, `stale` the receipts the node
still reports for orphaned blocks. `SettleOk` is the contract's `settle`, and
`Administration` its owner, who registers the circuit or takes it away
(`registered`) and admits or dismisses relayers (`authorised`). The
node is external and modelled from what `chain.rs` and `relayer.rs` rely on: it
takes a replacement only at a higher price, reports the pending count of an
account, and knows of the transactions with one nonce the best priced.

**Relay** is `relayer.rs` over JobStore, Chain and the settlements table. `pc[r]`
is where a relayer is in `settle` and `track`, `work[r]` the attempt
(`tx` is followed, `sent` is broadcast and not yet written down, `replaceable`
is whether its terms are known), `nonce[r]` the nonce manager's cache,
`noticed[r]` what the reorg watcher has read and not yet acted on. A heartbeat
that is refused drops the attempt wherever it is (`LeaseLost`), as the `select!`
does. Behind a gap in its nonces a relayer discards its cache (`SeeGap`) and sends
the same call under a nonce read again (`CrossGap`), or fails to
(`CrossGapFails`: the count not read, the transaction not sent, or sent and its
answer lost) and follows the original on. Price is counted in accepted bumps.
`Pool` maps all this onto WorkerPool: the job in hand and the columns stay, and
there are no workers at work.

The constant `TableKept` is to relayers what `HeartbeatsKeepUp` is to workers.
Where it holds the settlements table follows the relayers: no lease runs out
under a relayer at work, a relayer that asks what is on record is told, and the
writes after a broadcast and a resend succeed. Everything else may fail as ever.
Where it does not hold, these fail too.

**Bidding** is `gas.rs` with its saturating integer arithmetic against a moving
base fee and the node's replacement rule; it says which bumps Relay's prices
stand for.

Definitions under a comment that begins with *Slip* are wrong versions of a
definition of the code. Nothing uses them but the entries of `mutants` in
`PROJECT.json`, which show that each checked property notices a mistake.

## Runs

| Run | Instance | States | Shows |
| --- | --- | --- | --- |
| `WorkerPoolPrompt` | 2 jobs, 2 workers, 1 relayer, 1 disturbance, heartbeats in time | 220 k | Whoever works on a job holds its lease for that attempt; results count for their own attempt; no late result discards a proof |
| `WorkerPoolStalls` | 1 job, 2 workers, 1 relayer, 2 disturbances, stalls allowed, fair | 34 k | The table invariants; a client sees the life of JobContract; at most one success per job; the budget is overrun only by handing back; every job is decided |
| `Ingest` | 2 clients, 4 requests for 3 jobs, 2 circuits, 3 schemas, a limit of 1, 1 worker, 1 change by the operator | 407 k | The limit is overshot by the requests under way at most; one creator, and whoever is told of a job finds it; work is taken only if it was welcome; the same job exactly if the same work; the prover reads what was accepted, where the fields are those a closed schema names |
| `Proving` | two calls, of one job or of two, 1 crash, 1 preparation, any inputs, fair | 447 k | Each call returns the proof of its own witness or a verdict its inputs deserve; scratch is private and cleaned up; nothing waits or runs for ever |
| `RelayPair` | 2 relayers, 2 jobs with one nullifier, 1 disturbance, late inclusion | 201 k | One live and latest settlement per nullifier; a nullifier is spent once; no settled job is failed, and no sound one before its budget is spent |
| `RelayReorg` | 1 relayer, 2 jobs, a reorg of any depth, an eviction and a disturbance in one behaviour, `TableKept` | 2.7 M | Rows name the transaction being followed; a gap in the nonces is open until it is acted on; no second nonce races a pending one; the jobs table is changed as WorkerPool's relayers change it |
| `RelayLive` | 1 relayer, 3 jobs, one with an invalid proof, a reorg, 1 change by the owner, fair | 631 k | Every proof is decided for good; what is settled is consumed or watched |
| `Bidding` | fees 0 to the largest integer, all moves of the market, fair | 1.3 k | Offers are payable, a stuck bid rises until a ceiling |

Bounds. Two jobs and two actors are enough for every race the properties speak
of: a race is over one row, one nullifier or one nonce, between two actors, and
the second job is there for the effects through a shared nullifier or a shared
account. Two attempts is the least budget that has a first, a retry and a last;
`RelayPair` takes three so that a retry is left after a disturbance. One relayer
is enough for `RelayReorg`, whose gap and whose second nonce are in one account;
it takes one confirmation, to have room for a reorg, an eviction and a
disturbance together. Elsewhere two confirmations tell a mined transaction from a buried one. One change by the
contract's owner is enough to fall between the estimate and the block, where it
makes a sound settlement revert; a reorg does not take such a change back.
Disturbances, reorgs, evictions and changes are counted against constants and guard their actions, so the
models are finite without state constraints. In `Proving`, three calls are
possible, two attempts at one job and one at another, and any two of them are
made: interference is between two calls, through a directory named for a job or
through a package shared by a circuit. Its next-state relation lists every way
a tool can end; inputs are chosen in the initial state. In `Ingest`, two
clients are the race, the limit of one is the least that both can find room
under, and one change by the operator is enough to fall between any two reads of
the circuit; the four requests differ in ways that must matter (a string and a
number, two circuits) and must not (the order of keys, a key given twice), the
seeded schema is taken with two siblings for twenty, and depth two reaches the
limit on nesting. The second circuit has no schema until the operator gives it
one: the struct and the field its first request has, in which the struct's name
sorts before the field's, or any object. Budget and disturbances are at their least there, since the
pool has runs of its own and IngestProofs shows that Ingest adds nothing to its
steps. In `Bidding` the constants
keep the proportions of the default policy (5 gwei, 1 gwei, 25 %, 200 %) at a
fiftieth of a unit, and 9999 stands for `u128::MAX`, so that saturation is
reached. The relay, proving and bidding configurations turn the deadlock check off:
when everything is settled and nothing is left to happen, the system stops.

Symmetry reduction is used only in runs that check safety, over jobs and workers
or, in `Ingest`, over clients, which the instance treats alike.

### Fairness

`FairPoolSpec`: a worker goes on with its loop (the prover is bounded by its
wall clock and every store call returns or errs), a stopped worker is started
again, clocks advance, the reaper ticks on a timer and eventually takes every
expired row. Heartbeats, crashes and shutdowns get no fairness. Only *some*
continuation of the loop is required, never a success.

`Proving!Fairness`: the wall clock of a call that waits for a tool fires, and a
signal that was sent arrives. Nothing is asked of the tools, which may hang.

`FairRelaySpec`: the same for the relayer's loop, its watcher and reaper; the
chain makes blocks and mines what is pending and next in its account's order.
That last assumption is about the market and is what the gas ceiling in `gas.rs`
comes down to: a transaction at the ceiling is mined when fees fall.

`Bidding!FairSpec`: `track` polls until its transaction is mined.

### Disagreements between the code and what is said of it

Four runs check a sentence of a comment or a test that the code does not keep;
`findings` in `PROJECT.json` quotes each one.

- `WorkerPoolStale`: `record_proof`, `record_failure` and `begin_proving` do not
  ask for the holder. A worker that stalled past its lease writes its result
  against the attempt of the next holder. `WorkerPoolStalls` shows what remains
  true then: still at most one success.
- `RelayOvertaken`: after a replacement is accepted, the original may be mined.
  `track` follows the replacement only and waits for ever.
- `RelayUnwatched`: when writing the settlement row fails, the job is settled
  with no live row and a reorg goes unseen.
- `RelayTakeover`: a relayer resumes a transaction another account signed, and
  bumps it from its own account: a second nonce.

Smaller ones, met while modelling and without a run of their own:

- Once the tip is at its own cap (`gas.rs:133`), `bump` goes on offering the same
  tip, which a node refuses; the bid stays under a fee ceiling it could rise to.
  `BidsRiseToACeiling` allows for it by naming both ceilings.
- The comment at `worker.rs:346-350` says that deleting the mirror's entry after a
  lost lease is harmless because the new holder has overwritten it; the entry
  deleted is then the new holder's. A heartbeat's write may likewise follow the
  delete. `leases.rs:50-57` says *Free* alone justifies taking a job; a job is
  Free in the mirror while held before it is recorded, after such a delete and
  after a restart of Redis. Nothing outside tests asks the mirror.
- `canonical.rs:13` and `validate.rs:253` speak of duplicate keys being rejected.
  serde_json has resolved them, the last one standing, before either sees the
  value, so `DuplicateKey` cannot arise. The comment at `canonical.rs:103` says
  that its map keeps the order of insertion; without `preserve_order`, which
  `Cargo.lock` does not have, it is sorted. `SameJobIffSameWork` is about what the
  code does: one of its requests gives a key twice and is accepted, and is the
  same job as the request that gives it once.
- `render_prover_toml` says that it writes what Noir takes "and refuses everything
  else", since what it lets through nargo would reject (`prover.rs:388-392`). It
  refuses values and never keys, which it writes without quotes (`prover.rs:411`,
  `414`, `418`). The seeded schemas name their fields, so no other key gets this
  far; of a schema that takes any object a key with a dot is read as a table's
  member, and one with a space or a line break not as itself either.
  `ProverReadsWhatWasAccepted` therefore speaks of requests with the fields a
  closed schema names, which are a circuit's parameters
  (`seed-circuits.sql:6-11`); `DottedKeyIsReadAsATable`, an assumption of
  IngestMC that TLC evaluates, shows the other case.
- `explain_revert` says of a mined revert whose nullifier is unspent that "the
  verifier rejected the proof" (`relayer.rs:817`) and fails the job for good.
  Two other causes exist: the owner deregistered the circuit or dismissed the
  relayer after the estimate, which the same failure met in the estimate counts
  as transient; or the transaction collided with another relayer's, and a reorg
  took that one back before the nullifier was asked for. `FailureIsDeserved`
  excepts exactly these; without either exception TLC finds it violated.
- The schemas admit several spellings of one field element (hexadecimal,
  decimal, leading zeros), which hash apart: the same statement is proved twice
  and caught by the nullifier on the chain. The property speaks of the value as
  parsed.
- The repository's README says that submitting a duplicate returns the existing job; when the
  queue is full, or the circuit has been closed since, it is refused first.
- A circuit closed between the handler's read and `enqueue`'s is reported as an
  internal error and not as a conflict.
- A schema that asks for an object and no more lets inputs through that the
  prover cannot write down (null, objects two deep); such a job fails for good
  when it is proved. `ProverReadsWhatWasAccepted` leaves it out as well.

## Proofs

`JobStoreProofs` proves, for every set of jobs and callers and every budget:

| Theorem | States |
| --- | --- |
| `StoreTypeCorrect` | `Spec => []TypeOK` |
| `LeasesAreWhole` | `Spec => []LeaseIsWhole` |
| `ProofsMatchStates` | `Spec => []ProofMatchesState` |
| `RetriesAreOnQueues` | `Spec => []RetryIsOnAQueue` |
| `AttemptsAreAccounted` | `Spec => []AttemptsMatchRows` |
| `ProofsAreFinal` | `Spec => ProofIsFinal` |
| `StoreImplementsContract` | `Spec => ImplementsContract` |

They assume `StoreAssumption` only. The inductive invariant is the conjunction
of the type invariant and the named parts. Type correctness is not inductive by
itself: that the reaper never meets an illegal event needs the state of the row,
and that `record_failure` leaves `retry_after` on a queue needs the transition
table. `AttemptsMatchRows` carries that rows are numbered from one to the
counter: without it one could not exclude that `ON CONFLICT DO NOTHING` drops a
row. `ProofsAreFinal` follows from `ProofMatchesState`: a row with a proof is in
no state from which `proof_succeeded` is legal. Lemmas about the table
(`Transition`, `ClassifyFailure`) come first, then one step per action.
`StoreImplementsContract` uses the same invariant: each event is shown to be a
step of the contract from the states it is legal in, and `ProofMatchesState` says
that a job being proved has no proof for the new one to replace.

`WorkerPoolProofs` proves, for every number of workers, relayers, jobs and
disturbances:

| Theorem | States |
| --- | --- |
| `PoolImplementsStore` | `PoolSpec => Spec`: the theorems above hold of the pool |
| `LeasesAreExclusive` | `HeartbeatsKeepUp => (PoolSpec => []WorkersHoldTheirLease)` |
| `AtMostOneSuccess` | `PoolSpec => []OneSuccessPerJob`, with stalls |
| `PoolTypeCorrect` | `PoolSpec => []PoolTypeOK` |
| `PoolImplementsContract` | `PoolSpec => ImplementsContract` |
| `ProofsComeFromLastAttempts` | `HeartbeatsKeepUp => (PoolSpec => []ProofComesFromTheLastAttempt)` |
| `ResultsAreOfOwnAttempts` | `HeartbeatsKeepUp => (PoolSpec => ResultsCountForTheirOwnAttempt)` |
| `SubmissionAloneFailsProvedJobs` | `HeartbeatsKeepUp => (PoolSpec => OnlySubmissionFailsAProvedJob)` |
| `OnlyHandBackOverrunsBudget` | `PoolSpec => SpentJobsComeBackOnlyByHandBack`, with stalls |

`WorkersHoldTheirLease` is not inductive: a worker that holds its lease could
have it reaped, or a relayer could settle its job. The invariant `LeasesHeld`
adds that the lease lasts, that the job is in the stage its holder is in, and
the same of relayers; the proof then says once that a process may change the row
whose lease it holds, or a row that nobody works on, without disturbing anyone
(`OneWorkerMoves`, `OneRelayerMoves`, `IdleRowsMove`), and each action is shown
to be one of these. The assumption is used in one place, `TimePasses`.
`AtMostOneSuccess` does without it: a success is recorded only from proving,
where `ProofMatchesState` says there is no proof, while an earlier success would
have left one; and within the row's number `AttemptsMatchRows` leaves one row.

The last four are about whose result is written where. `PromptInv` adds to
`LeasesHeld` that the attempt a worker was granted is on record as its own
(`AttemptsOnRecord`): with the lease held no later attempt can have been granted,
so that record is the last, and `record_proof` and `record_failure`, which write
to the row's current attempt, write to it. A proved job then has no worker on it
whose failure could arrive. The budget needs no assumption about heartbeats:
among the operations that put a job back on the proving queue, only
`release_lease` does not ask how many attempts there were (`KnownAnyway` says
that a job with a spent budget has been leased, so that `enqueue` is not one of
them).

`IngestProofs` proves, for any number of clients, requests, circuits and changes,
any limit on the queue, and any pool behind it:

| Theorem | States |
| --- | --- |
| `IngestImplementsPool` | `IngestSpec => PoolSpec`: all of the above holds with the API in front |
| `IngestTypeCorrect` | `IngestSpec => []IngestTypeOK` |
| `OnlyTheWelcomeIsTaken` | `IngestSpec => NothingUnwelcomeIsTaken` |
| `CreatorIsUnique` | `IngestSpec => []OneCreator` |
| `OvershootBounded` | `IngestSpec => []OvershootIsBounded` |

`HandlersOK` adds to the types what a handler knows at each of its calls: from
the first check on its request was welcome once. `Counted` says that a job being
proved has been leased, so that the service starts no job and none becomes fresh
again; with it every step either leaves the set of known jobs alone or is one
client's insert (`IngestRows`). `CreatorIsUnique` then needs `Found` (who reads
back or was accepted has a row) and that a row, once there, is no longer new.
The overshoot itself is not inductive. `RoomIsPromised` counts the fresh jobs
*and* the requests that have seen room and not yet inserted: a client joins
these only while the queue has room, and an insert turns one of them into a job.
The depth the code reads counts jobs that wait for a retry too, which only makes
room scarcer; the bound is on new work, since retries come back into a full
queue as they please.

`BiddingProofs` proves `OffersArePayable` and `GivesUpRightly` for every policy
that bumps by a tenth or more. The key lemma is that saturation and flooring
leave a raise at least the node's tenth, so an offer below the ceiling is
refused only when the ceiling itself is too near.

`ProvingProofs` proves, for any number of calls on a host, any inputs, any
crashes and any end of any tool, with `ProvingAssumption` only:

| Theorem | States |
| --- | --- |
| `ProvingTypes` | `Spec => []ProvingTypeOK` |
| `ProofsAreOwn` | `Spec => []ProofIsOfItsOwnWitness` |
| `ScratchStaysPrivate` | `Spec => []ScratchIsPrivate` |
| `PermanentFailuresAreDeserved` | `Spec => []PermanentIsDeserved` |
| `LeftoversAreOfKills` | `Spec => []LeftoversComeFromAKill` |

The invariant is `FilesAreOwn`, that every file is made from the inputs of the
call whose directory it is in, and `CallOK` of each call by itself: what is in its
directory at each stage, what an exit says of the inputs, what a verdict says of
both. The proof is in two halves. An action of one call leaves the pc, the child
and the files of every other call alone (`Untouched`), and `CallOK` reads nothing
else; and each action keeps `CallOK` of its own call. That a scratch directory is
named by job *and attempt* is what makes the first half true.

`ChainProofs` has the lemmas about the node that the relay needs: an account's
pending count is a nonce it has nothing pending under (`PendingNonceIsFree`); a
block moves its next nonce by what it mined (`NextNonceKept`, `NextNonceMined`);
a reorg, an eviction and a change by the owner keep the types; a used nullifier
stays used until a reorg (`SpentStaysSpent`) and no step spends it twice
(`SpentOnceStep`).

`RelayProofs` proves, for any number of relayers, jobs, confirmations, reorgs,
evictions, disturbances and changes by the owner:

| Theorem | States |
| --- | --- |
| `RelayTypeCorrect` | `RelaySpec => []RelayTypeOK` |
| `RelayKeepsContract` | `RelaySpec => KeepsContract` |
| `NullifiersAreSpentOnce` | `RelaySpec => []NullifierSpentOnce` |
| `LiveSettlementsAreLatest` | `RelaySpec => []LiveSettlementIsLatest` |
| `FailuresAreDeserved` | `RelaySpec => []FailureIsDeserved` |
| `SettledIsSettledUntilReorged` | `RelaySpec => [](reorgs = 0 => SettledIsConsumedOrWatched)` |
| `RowsNameWhatIsFollowed` | own nullifiers: `RelaySpec => [](disturbances = 0 => RowNamesTrackedTransaction)` |
| `SettledIsWatchedOnceReorged` | own nullifiers: `RelaySpec => [](disturbances = 0 /\ reorgs <= 1 => SettledIsConsumedOrWatched)` |
| `RecordedRowsNameWhatIsFollowed` | own nullifiers, `TableKept`: `RelaySpec => []RowNamesTrackedTransaction` |
| `KeptSettlementsAreWatched` | own nullifiers, `TableKept`: `RelaySpec /\ [][BroadcastsKept]_vars => [](reorgs <= 1 => SettledIsConsumedOrWatched)` |
| `RelaysMakePoolSteps` | `RelaySpec => RelaysAsThePoolAssumes` |

and `RelayNonceProofs`, where jobs have nullifiers of their own
(`NullifiersAreOwn`, the constant `NullifierOf` is injective):

| Theorem | States |
| --- | --- |
| `FailedJobsStayUnsettled` | `RelaySpec => [](disturbances = 0 /\ reorgs = 0 => FailedIsNotSettled)` |
| `OneNonceUntilDisturbed` | `RelaySpec => [][disturbances' = 0 /\ reorgs' = 0 => SendsOnlyReplacements]_vars` |
| `UndisturbedSpendOneNonce` | `RelaySpec /\ [](disturbances = 0 /\ reorgs = 0) => OneNoncePerSettlement` |
| `GapsStayOpen` | `RelaySpec => []GapStaysOpen`, nullifiers shared or not |
| `RecordedAccountsSpendOneNonce` | `TableKept`: `RelaySpec => [][SendsOnlyOwnReplacements]_vars` |
| `OneRelayerSpendsOneNonce` | one relayer, `TableKept`: `RelaySpec => OneNoncePerSettlement` |

`RelayInv` is the types with what makes them inductive: the row rules of
JobStore, and what a relayer must have at hand at each place of its code. Relay
makes only steps of JobStore's columns that the store's own invariant permits,
so the contract follows as it did for the store. `DeservedInv` says, while
neither the owner nor a reorg has intervened, that a revert of a sound proof
leaves its nullifier spent, so that `explain_revert` answers *settled elsewhere*
and not *failed*. `ConsumedInv` says that a job is recorded as settled, or is
about to be, only where its nullifier was seen spent. `RelaysMakePoolSteps`
needs, besides, that a row in submission is held by a relayer and that its holder
is who works on it or nobody (`RelayersHoldTheLeases`): each action is then
matched with the pool's action of the same call, and the steps of the chain and
of what a relayer knows are stutters of the pool.

The rest is about what is on record, and holds less widely. `OnRecordInv`:
whoever is at work on a job holds its lease (`HoldsOn`), so no other relayer
writes to its rows, and the latest row names what it follows (`RowAtHand`).
`WatchedInv`: whatever was sent is on a live row or is just being written to one,
so what a first reorg takes back has a row that the watcher reads. `SteadyInv`:
all that an account has pending is for one nonce and one job (`SlotOK`), namely
the one its owner is tracking; no proved job has a live row, and a failed job has
nothing pending. `QuietInv` joins the three under the hypotheses each needs.

Which disturbances matter is known for two of the three. `OnRecordInv` is kept
wherever `TableKept` is, whatever dies, fails or is lost besides: so a crash
anywhere, a failed estimate or a lost answer to a broadcast never makes a row
name the wrong transaction. `WatchedInv` needs, in addition, `BroadcastsKept`:
what the node has taken is written down next, so that no broadcast's answer is
lost and no process ends between a broadcast and its row.

The order of nonces needs none of it. `MinedInOrder` says that an account's
nonces are mined in their order, each once; a reorg therefore returns to the pool
only nonces below all that were mined, and the count that a node reports as
pending for an account never rises but by what that account sends
(`PendingNonceNeverRises`). `GapsStayOpen` follows: between reading the count and
resending, an account sends nothing, so the original cannot come within reach and
race its copy. With `OnRecordInv` this gives `RecordedAccountsSpendOneNonce`, in
every step but a reorg itself: a broadcast is made only for a job with no live
row, a bump keeps its nonce, and a resend is behind a gap. What
`SendsOnlyOwnReplacements` leaves out of `SendsOnlyReplacements` are pairs of
accounts, so with one relayer the two are the same.

The hypotheses are needed, and hold of real runs. Without `TableKept` an
unwritten resend leaves the row at a transaction nobody follows, and a relayer
that cannot read the row broadcasts beside what is pending. With two relayers
`OneNoncePerSettlement` fails even where the table is kept (`RelayTakeover`: no
lease runs out and nothing goes unwritten there). As to the
theorems that speak of no disturbance: a node that is slow, evicts and mines
late, an owner who changes the contract, unsound proofs and failed estimates are
all inside them, so several relayers still retry, bump, replace and give up. A *disturbance* is what `Disturb` counts: a call to the
store or the node that errs or whose answer is lost, a lease that runs out under
its holder, a process that ends. One failed write leaves a settlement without its row
(`RelayUnwatched`). Under lost answers the submission budget can be spent while
a transaction is pending. With a nullifier in common, the row of one job is
refused for the sake of the other's, and a job that failed is settled, as far as
the chain can tell, by its twin. After a second reorg a job that was unwound,
mined again and recorded as settled elsewhere has no live row to be watched by.
And after a reorg a relayer may resume what another account signed, as in
`RelayTakeover`.

Only model-checked:

- `FailedIsNotSettled` with one disturbance and a shared nullifier (`RelayPair`).
  Beyond the hypotheses of their theorems `SettledIsConsumedOrWatched`,
  `RowNamesTrackedTransaction` and `OneNoncePerSettlement` are neither proved nor
  checked, and do not hold;
- `SameJobIffSameWork` and `ProverReadsWhatWasAccepted`, which are about the
  recursive operators of Requests: the prover has no induction over data;
- all liveness, which the prover does not reach.

## What is abstracted

- Delays. Whatever a process does after waiting it may do at once: poll
  intervals, the stuck timer, the retry delay's length. `HeartbeatsKeepUp` is
  the assumption that the lease (180 s) outlasts the heartbeat (30 s).
- One relayer makes one attempt at a time, as its loop does, so the nonce lock
  has a single user. The read of the pending count and the send under it are
  one step in `Broadcast`; a reorg between them leaves what a reorg just after
  them leaves.
- A reorg's new branch is at least as long as the one it replaces, and the watch
  window outlasts it. A transaction that is lost *and* of which the node
  remembers nothing counts as an eviction.
- In Ingest what the handler computes between two calls is one step, and the
  length limits and the pattern of a field element are sets of tokens. Escaping
  and SHA-256 are taken to be injective, and the stored JSON to be read back as
  it was parsed. No key in use has a line break in it, which without quotes would
  make more than one line of `Prover.toml`.
- In Proving the memory sampler and the text of `Prover.toml` are left out, and
  a scratch directory is removed unless a child that is just being killed is
  still writing into it; other I/O errors of the removal, which the code logs,
  are not modelled.
- A lost answer is modelled for `lease_next` and for every broadcast: the first,
  a bump, and the resend across a nonce gap. Of the store's other calls it is the
  call that fails.
- With a reorg, or two disturbances, a submission budget can be spent on
  failures recorded while a transaction is pending, and the job is failed
  although the transaction is mined later; the code accepts this. So
  `FailedIsNotSettled` is checked with one disturbance and no reorg. Likewise
  `mark_settled_elsewhere` leaves a job without a live row, so after a second
  reorg a settled job may be unwatched.
- A transaction dropped by the node at the ceiling, or resumed without its
  terms, is waited for without end, like the one in `RelayOvertaken`; `RelayLive`
  allows no evictions.

Not modelled: the circuits and the generated verifiers (whether a proof verifies
is the constant `Sound`), `transferOwnership` (who may administer the contract,
not what it does), the lease mirror (a
copy that nothing but tests reads, so no behaviour of the program depends on
it), the backoff schedule (a pure function; the models only need that a delay
ends), the audit log, the statistics, metrics, configuration and the CLI. Of
JSON Schema only what the seeded schemas use is modelled.

The audit log is ordered by when a transaction began (`occurred_at`), and one
that began earlier may have waited for the row's lock: the history that
`transitions` returns need not chain; this is listed as a hazard without a
property. The age of the oldest lease, a metric, is measured from `updated_at`,
which every heartbeat resets.

Two things that Proving shows in the code have no run of their own. The comment
in `bounded.rs` (299-301) says the process is gone before the wall-clock error is
returned; the child is killed when its handle is dropped and not waited for, so
`LeftoversComeFromAKill` has to allow a directory that its dying child refilled.
And `prepare` rewrites the shared artefacts in place, so `PermanentIsDeserved` has
to except calls that read them meanwhile.

## Plan

Every component whose control decides what happens to a job is modelled, and each
safety property is proved as far as the section on proofs says. What would add
most from here:

1. `FailedIsNotSettled` under weaker hypotheses: which disturbances are harmless
   to it (a crash before the broadcast is, a lost answer after it is not), and
   nullifiers in common where no proof is unsound;
2. `SettledIsConsumedOrWatched` through several reorgs, which would first need
   `mark_settled_elsewhere` to leave a row;
3. the text of failures: which words of a node or a tool `classify` and
   `mentions_allocation_failure` recognise.
