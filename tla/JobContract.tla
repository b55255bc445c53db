---------------------------- MODULE JobContract -----------------------------
(***************************************************************************)
(* What the system promises whoever submits work, with the queues, leases, *)
(* attempts and transactions left out: a job is accepted once, is proved   *)
(* at most once, is settled, perhaps unsettled by a reorg and settled      *)
(* again with the same proof, or is given up for good.                     *)
(*                                                                         *)
(* JobStore implements this contract for any callers, WorkerPool and Relay *)
(* with the callers the system has.                                        *)
(***************************************************************************)
CONSTANTS Job,     \* pieces of work, whoever asks for them
          Prover,  \* whoever may prove one
          NoProof  \* no proof yet

VARIABLES status,  \* how far each piece of work is
          proof    \* the proof of it, named by its prover

contract == <<status, proof>>

Statuses == {"unknown", "accepted", "proved", "settled", "failed"}

ContractInit ==
  /\ status = [j \in Job |-> "unknown"]
  /\ proof = [j \in Job |-> NoProof]

\* One piece of work moves on and nothing else does.
Moves(j, from, to) ==
  /\ status[j] = from
  /\ status' = [status EXCEPT ![j] = to]

Accept(j) == Moves(j, "unknown", "accepted") /\ UNCHANGED proof

Prove(j, w) ==
  /\ Moves(j, "accepted", "proved")
  /\ proof' = [proof EXCEPT ![j] = w]

Settle(j) == Moves(j, "proved", "settled") /\ UNCHANGED proof

\* A reorg takes the settlement back and leaves the proof.
Unsettle(j) == Moves(j, "settled", "proved") /\ UNCHANGED proof

\* Several may be given up at once, and none of them is ever taken up again.
GiveUp(jobs) ==
  /\ \A j \in jobs : status[j] \in {"accepted", "proved"}
  /\ status' = [j \in Job |-> IF j \in jobs THEN "failed" ELSE status[j]]
  /\ UNCHANGED proof

ContractNext ==
  \/ \E j \in Job : \/ Accept(j) \/ Settle(j) \/ Unsettle(j)
                    \/ \E w \in Prover : Prove(j, w)
  \/ \E jobs \in SUBSET Job : GiveUp(jobs)

ContractSpec == ContractInit /\ [][ContractNext]_contract
=============================================================================
