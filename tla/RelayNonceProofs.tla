-------------------------- MODULE RelayNonceProofs --------------------------
(* The relayers' nonces, and what follows from them: while nothing is       *)
(* disturbed and no reorg has happened, a job is sent under one nonce only, *)
(* and one that has failed is never settled by something left behind.       *)
EXTENDS RelayProofs

\* What an account has pending.
Own(r) == {t \in pool : t.from = r}

\* Nothing is pending, and what the nonce manager holds is next.
Clear(r) == Own(r) = {} /\ nonce[r] \in {Nothing, NextNonce(r)}

\* All that is pending is for the slot and the job of t, or t's slot is mined.
Awaits(r, t) ==
  /\ t.from = r
  /\ \/ /\ NextNonce(r) = t.nonce
        /\ \A u \in Own(r) : u.nonce = t.nonce /\ u.call = JobOf(r)
     \/ NextNonce(r) = t.nonce + 1 /\ Own(r) = {}

SlotOK(r) ==
  /\ pc[r] \in {"idle", "taken", "checking", "sending", "elsewhere"} => Clear(r)
  /\ pc[r] = "sent" => /\ Awaits(r, work[r].sent)
                       /\ nonce[r] \in {Nothing, work[r].sent.nonce}
  /\ pc[r] \in {"tracking", "resent"} => /\ Awaits(r, work[r].tx)
                                         /\ nonce[r] \in {Nothing, work[r].tx.nonce + 1}
  /\ pc[r] = "resent" => SameSlot(work[r].sent, work[r].tx)
  /\ pc[r] \in {"reverted", "deep"} => Clear(r)
  /\ pc[r] # "gap"

SteadyInv ==
  /\ stale = {} /\ MinedBelow
  /\ \A r \in Relayer : SlotOK(r)
  /\ \A r \in Relayer : pc[r] = "taken" => ~LiveRow(JobOf(r))
  /\ \A j \in Job : state[j] = "submitting" =>
       \E r \in Relayer : ~At(r, "idle") /\ JobOf(r) = j
  /\ \A j \in Job : state[j] = "proved" => ~LiveRow(j)
  /\ \A j \in Job : state[j] = "failed" =>
       ~NullifierUsed(j) /\ \A t \in pool : t.call # j

NullifiersAreOwn == \A j, k \in Job : NullifierOf[j] = NullifierOf[k] => j = k

\* All that is known where nothing is disturbed and no reorg has happened.
StillInv == RelayInv /\ OnRecordInv /\ WatchedInv /\ SteadyInv
-----------------------------------------------------------------------------
(* What a step does to the chain and the nonces.                            *)

LEMMA WhoMovesTheChain ==
  ASSUME [RelayNext]_vars, ~Disturb
  PROVE  \/ (Network \/ Administration) /\ UNCHANGED <<columns, settlements, relayers>>
         \/ UNCHANGED chain
         \/ \E r \in Relayer : Broadcast(r) \/ Bump(r) \/ CrossGap(r)
<1>1. ASSUME NEW r \in Relayer,
             \/ \E j \in Job : Take(r, j)
             \/ Resume(r) \/ StartFresh(r) \/ Check(r) \/ BroadcastRefused(r)
             \/ NoteBroadcast(r) \/ SeeMined(r) \/ SeeOrphaned(r) \/ SeeGap(r)
             \/ NoteResend(r) \/ LookIntoRevert(r) \/ Confirm(r)
             \/ MarkSettledElsewhere(r) \/ LeaseLost(r) \/ Notice(r) \/ Unwind(r)
             \/ Renew(r) \/ Restart(r) \/ NodeFails(r) \/ WriteFails(r)
      PROVE  UNCHANGED chain
  BY <1>1 DEF Take, Resume, StartFresh, Check, BroadcastRefused, NoteBroadcast, SeeMined,
     SeeOrphaned, SeeGap, NoteResend, LookIntoRevert, Confirm, MarkSettledElsewhere,
     LeaseLost, Notice, Unwind, Renew, Restart, NodeFails, WriteFails
<1>2. ASSUME (\E j \in Job : TimePasses(j)) \/ Reap \/ UNCHANGED vars PROVE UNCHANGED chain
  BY <1>2 DEF TimePasses, Reap, vars
<1>3. ASSUME NEW r \in Relayer,
             BroadcastAnswerLost(r) \/ BumpAnswerLost(r) \/ CrossGapFails(r)
      PROVE  FALSE
  BY <1>3 DEF BroadcastAnswerLost, BumpAnswerLost, CrossGapFails
<1>4. QED
  BY <1>1, <1>2, <1>3 DEF RelayNext, Progress, Watch

LEMMA NonceStays ==
  ASSUME RelayersOK, [RelayNext]_vars, NEW q \in Relayer, ~Acts(q)
  PROVE  nonce'[q] = nonce[q]
<1> USE DEF RelayersOK
<1>1. ASSUME NEW r \in Relayer, r # q, NEW n, nonce' = [nonce EXCEPT ![r] = n]
      PROVE  nonce'[q] = nonce[q]
  BY <1>1
<1>2. UNCHANGED nonce => nonce'[q] = nonce[q]
  OBVIOUS
<1>3. ASSUME NEW r \in Relayer, Acts(r) PROVE nonce'[q] = nonce[q]
  <2>1. r # q
    BY <1>3
  <2>2. CASE \/ \E j \in Job : Take(r, j)
             \/ Resume(r) \/ StartFresh(r) \/ Check(r) \/ SeeMined(r) \/ SeeOrphaned(r)
             \/ Bump(r) \/ LookIntoRevert(r) \/ Confirm(r) \/ MarkSettledElsewhere(r)
             \/ LeaseLost(r) \/ WriteFails(r)
    BY <1>2, <2>2 DEF Take, Resume, StartFresh, Check, SeeMined, SeeOrphaned, Bump,
       LookIntoRevert, Confirm, MarkSettledElsewhere, LeaseLost, WriteFails
  <2>3. CASE \/ Broadcast(r) \/ BroadcastRefused(r) \/ SeeGap(r) \/ CrossGap(r)
             \/ Restart(r) \/ NodeFails(r) \/ BroadcastAnswerLost(r) \/ CrossGapFails(r)
    BY <1>1, <1>2, <2>1, <2>3 DEF Broadcast, BroadcastRefused, SeeGap, CrossGap, Restart,
       NodeFails, BroadcastAnswerLost, CrossGapFails
  <2>4. CASE NoteBroadcast(r) \/ NoteResend(r)
    BY <1>1, <1>2, <2>1, <2>4 DEF NoteBroadcast, NoteResend, Consumed
  <2>5. QED
    BY <1>3, <2>2, <2>3, <2>4 DEF Acts, Progress
<1>4. ASSUME NEW r \in Relayer, Watch(r) \/ Renew(r) \/ BumpAnswerLost(r)
      PROVE  UNCHANGED nonce
  BY <1>4 DEF Watch, Notice, Unwind, Renew, BumpAnswerLost, relayers
<1>5. ASSUME \/ Reap \/ UNCHANGED vars \/ \E j \in Job : TimePasses(j)
             \/ (Network \/ Administration) /\ UNCHANGED <<columns, settlements, relayers>>
      PROVE  UNCHANGED nonce
  BY <1>5 DEF Reap, vars, relayers, TimePasses
<1>6. QED
  BY <1>2, <1>3, <1>4, <1>5 DEF RelayNext, Acts

\* What the chain may do to an account that is not sending: forget some of what
\* is pending, or mine one and drop what else wanted its nonce.
AccountMoves(r) ==
  \/ NextNonce(r)' = NextNonce(r) /\ Own(r)' \subseteq Own(r)
  \/ /\ NextNonce(r)' = NextNonce(r) + 1
     /\ \E t \in Own(r) : /\ t.nonce = NextNonce(r)
                          /\ Own(r)' = {u \in Own(r) : u.nonce # t.nonce}

LEMMA ChainMovesAccounts ==
  ASSUME ChainInv, Network \/ Administration \/ UNCHANGED chain, ~Reorg, NEW q
  PROVE  AccountMoves(q)
<1>1. ASSUME Blocks' = Blocks, \A b \in Blocks : ledger'[b].tx = ledger[b].tx, pool' \subseteq pool
      PROVE  AccountMoves(q)
  <2>1. NextNonce(q)' = NextNonce(q)
    BY <1>1, NextNonceKept
  <2>2. QED
    BY <1>1, <2>1 DEF AccountMoves, Own
<1>2. CASE UNCHANGED <<ledger, pool>>
  BY <1>1, <1>2 DEF Blocks
<1>3. CASE NewBlock
  <2>1. Blocks' = Blocks /\ \A b \in Blocks : ledger'[b].tx = ledger[b].tx
    BY <1>3, NewBlockLedger, BlocksAre, LenProperties DEF ChainInv, Blocks, Keeps
  <2>2. QED
    BY <1>1, <1>3, <2>1 DEF NewBlock
<1>4. ASSUME NEW t \in pool, Evict(t) PROVE AccountMoves(q)
  BY <1>1, <1>4 DEF Evict, Blocks
<1>5. ASSUME NEW t \in pool, Mine(t) PROVE AccountMoves(q)
  <2>1. NextNonce(q)' = IF t.from = q THEN NextNonce(q) + 1 ELSE NextNonce(q)
    BY <1>5, NextNonceMined DEF ChainInv
  <2>2. pool' = {u \in pool : ~SameSlot(t, u)} /\ t.nonce = NextNonce(t.from)
    BY <1>5 DEF Mine
  <2>3. CASE t.from = q
    <3>1. t \in Own(q) /\ t.nonce = NextNonce(q) /\ Own(q)' = {u \in Own(q) : u.nonce # t.nonce}
      BY <2>2, <2>3 DEF Own, SameSlot
    <3>2. QED
      BY <2>1, <2>3, <3>1 DEF AccountMoves
  <2>4. CASE t.from # q
    BY <2>1, <2>2, <2>4 DEF AccountMoves, Own
  <2>5. QED
    BY <2>3, <2>4
<1>6. QED
  BY <1>2, <1>3, <1>4, <1>5
     DEF Network, Administration, RegisterCircuit, SetRelayer, chain

\* Nobody sends from another's account.
LEMMA SendMovesItsOwn ==
  ASSUME NEW t, Send(t), NEW q, t.from # q
  PROVE  AccountMoves(q)
<1>1. Blocks' = Blocks /\ \A b \in Blocks : ledger'[b].tx = ledger[b].tx
  BY DEF Send, Blocks
<1>2. NextNonce(q)' = NextNonce(q)
  BY <1>1, NextNonceKept
<1>3. Own(q)' = Own(q)
  BY DEF Send, Own, SameSlot
<1>4. QED
  BY <1>2, <1>3 DEF AccountMoves

LEMMA OthersMoveNoAccount ==
  ASSUME RelayInv, [RelayNext]_vars, ~Disturb, ~Reorg, NEW q \in Relayer, ~Acts(q)
  PROVE  AccountMoves(q)
<1>1. ASSUME NEW r \in Relayer, Broadcast(r) \/ Bump(r) \/ CrossGap(r) PROVE AccountMoves(q)
  <2>1. r # q
    BY <1>1 DEF Acts, Progress
  <2>2. CASE Broadcast(r)
    BY <2>1, <2>2, SendMovesItsOwn DEF Broadcast, FirstOffer
  <2>3. CASE Bump(r)
    <3>1. Raised(r).from = r /\ Send(Raised(r))
      BY <2>3, RaisedIsTx DEF Bump, Stuck, At, Raised, RelayInv, RelayersOK, AttemptOK,
         Following, Tx
    <3>2. QED
      BY <2>1, <3>1, SendMovesItsOwn
  <2>4. CASE CrossGap(r)
    <3>1. Crossing(r).from = r /\ Send(Crossing(r))
      BY <2>4, CrossingIsTx DEF CrossGap, RelayInv
    <3>2. QED
      BY <2>1, <3>1, SendMovesItsOwn
  <2>5. QED
    BY <1>1, <2>2, <2>3, <2>4
<1>2. QED
  BY <1>1, WhoMovesTheChain, ChainMovesAccounts DEF RelayInv
-----------------------------------------------------------------------------
(* Slots.                                                                   *)

LEMMA SlotStays ==
  ASSUME RelayInv, [RelayNext]_vars, ~Disturb, ~Reorg, NEW q \in Relayer, ~Acts(q), SlotOK(q)
  PROVE  SlotOK(q)'
<1>1. /\ pc'[q] = pc[q] /\ work'[q] = work[q] /\ nonce'[q] = nonce[q]
      /\ JobOf(q)' = JobOf(q)
  BY OthersStay, NonceStays DEF RelayInv, JobOf
<1>2. AccountMoves(q)
  BY OthersMoveNoAccount
<1>3. Clear(q) => Clear(q)'
  BY <1>1, <1>2 DEF AccountMoves, Clear
<1>4. ASSUME NEW t, Awaits(q, t) PROVE Awaits(q, t)'
  BY <1>1, <1>2, <1>4 DEF AccountMoves, Awaits
<1>5. PICK t : t = work[q].tx /\ t = work'[q].tx
  BY <1>1
<1>6. PICK u : u = work[q].sent /\ u = work'[q].sent
  BY <1>1
<1>7. (Awaits(q, work[q].tx) => Awaits(q, work[q].tx)') /\ SameSlot(u, t)' = SameSlot(u, t)
  BY <1>4, <1>5 DEF SameSlot, Awaits
<1>8. Awaits(q, work[q].sent) => Awaits(q, work[q].sent)'
  BY <1>4, <1>6 DEF Awaits
<1>9. SameSlot(work[q].sent, work[q].tx) => SameSlot(work[q].sent, work[q].tx)'
  BY <1>1 DEF SameSlot
<1>10. QED
  BY <1>1, <1>3, <1>7, <1>8, <1>9 DEF SlotOK

\* A relayer's account while neither it nor the chain moves.
LEMMA AccountStays ==
  ASSUME UNCHANGED chain, NEW q
  PROVE  NextNonce(q)' = NextNonce(q) /\ Own(q)' = Own(q)
BY DEF chain, NextNonce, Blocks, Own

\* The steps of a relayer at work, when nothing is disturbed.
LEMMA QuietActs ==
  ASSUME RelayInv, OnRecordInv, SteadyInv, ~Disturb, NEW q \in Relayer, Acts(q)
  PROVE  \/ \E j \in Job : Take(q, j)
         \/ StartFresh(q) \/ Check(q) \/ Broadcast(q) \/ BroadcastRefused(q)
         \/ NoteBroadcast(q) \/ SeeMined(q) \/ Bump(q) \/ NoteResend(q)
         \/ LookIntoRevert(q) \/ Confirm(q) \/ MarkSettledElsewhere(q)
<1>1. ~(\/ Restart(q) \/ NodeFails(q) \/ BroadcastAnswerLost(q) \/ CrossGapFails(q)
        \/ WriteFails(q))
  BY DEF Restart, NodeFails, BroadcastAnswerLost, CrossGapFails, WriteFails
<1>2. ~LeaseLost(q)
  <2> SUFFICES ASSUME ~At(q, "idle") PROVE Holds(q, JobOf(q))
    BY DEF LeaseLost
  <2>1. JobOf(q) \in Job /\ leasedBy[JobOf(q)] = q
    BY AttemptHasJob DEF RelayInv, OnRecordInv, HoldsOn
  <2>2. state[JobOf(q)] = "submitting"
    BY <2>1, HeldIsSubmitting DEF OnRecordInv
  <2>3. QED
    BY <2>1, <2>2 DEF Holds, IsInFlight
<1>3. ~Resume(q)
  <2> SUFFICES ASSUME Resume(q) PROVE FALSE
    OBVIOUS
  <2>1. Resumes(JobOf(q)) /\ ~LiveRow(JobOf(q))
    BY DEF Resume, At, SteadyInv
  <2>2. QED
    BY <2>1, LatestIsLast DEF Resumes, LiveRow, RelayInv
<1>4. ~SeeOrphaned(q)
  BY DEF SeeOrphaned, Orphaned, SteadyInv
<1>5. ~CrossGap(q)
  BY DEF CrossGap, At, SteadyInv, SlotOK
<1>6. ~SeeGap(q)
  <2> SUFFICES ASSUME SeeGap(q) PROVE FALSE
    OBVIOUS
  <2>1. Awaits(q, work[q].tx) /\ work[q].tx \in Tx
    BY DEF SeeGap, Stuck, At, SteadyInv, SlotOK, RelayInv, RelayersOK, AttemptOK, Following
  <2>2. PendingNonce(q) \in Nat /\ PendingNonce(q) >= NextNonce(q) /\ NextNonce(q) \in Nat
    BY PendingNonceIsFree, NextNonceType DEF RelayInv, ChainInv
  <2>3. work[q].tx.nonce \in Nat /\ NextNonce(q) >= work[q].tx.nonce
    BY <2>1, <2>2 DEF Awaits, Tx
  <2>4. PendingNonce(q) < work[q].tx.nonce
    BY DEF SeeGap, BehindGap
  <2>5. QED
    BY <2>2, <2>3, <2>4
<1>7. QED
  BY <1>1, <1>2, <1>3, <1>4, <1>5, <1>6 DEF Acts, Progress

\* With nothing pending, the nonce to use is the next one.
LEMMA NonceForIsNext ==
  ASSUME RelayInv, NEW q \in Relayer, Clear(q)
  PROVE  NonceFor(q) = NextNonce(q)
<1>1. CASE nonce[q] # Nothing
  BY <1>1 DEF NonceFor, Clear
<1>2. CASE nonce[q] = Nothing
  <2>1. /\ PendingNonce(q) \in Nat /\ PendingNonce(q) >= NextNonce(q) /\ NextNonce(q) \in Nat
        /\ \A n \in Nat : NextNonce(q) <= n /\ n < PendingNonce(q) =>
             \E t \in pool : t.from = q /\ t.nonce = n
    BY PendingNonceIsFree, NextNonceType DEF RelayInv, ChainInv
  <2>2. ~(NextNonce(q) < PendingNonce(q))
    BY <2>1 DEF Clear, Own
  <2>3. QED
    BY <1>2, <2>1, <2>2 DEF NonceFor
<1>3. QED
  BY <1>1, <1>2

\* What a relayer sees mined has ended its slot.
LEMMA SeenMinedIsClear ==
  ASSUME RelayInv, SteadyInv, NEW q \in Relayer, SeeMined(q)
  PROVE  Clear(q)
<1>1. Awaits(q, work[q].tx) /\ nonce[q] \in {Nothing, work[q].tx.nonce + 1}
  BY DEF SeeMined, At, SteadyInv, SlotOK
<1>2. PICK b \in Blocks : ledger[b].tx = work[q].tx
  BY DEF SeeMined, Reverted, Receipt, BuriedDeep, SteadyInv
<1>3. work[q].tx.nonce \in Nat /\ NextNonce(q) \in Nat
  BY <1>2, BlocksAre, NextNonceType DEF RelayInv, ChainInv, Entry, Tx
<1>4. work[q].tx.nonce < NextNonce(q)
  BY <1>1, <1>2 DEF SteadyInv, MinedBelow, Awaits
<1>5. QED
  BY <1>1, <1>3, <1>4 DEF Awaits, Clear

LEMMA BroadcastSlot ==
  ASSUME RelayInv, SteadyInv, NEW q \in Relayer, Broadcast(q)
  PROVE  SlotOK(q)'
<1>1. PICK t : t = FirstOffer(q)
  OBVIOUS
<1>2. Clear(q)
  BY DEF Broadcast, At, SteadyInv, SlotOK
<1>3. t.from = q /\ t.nonce = NextNonce(q) /\ t.call = JobOf(q) /\ NonceFor(q) = t.nonce
  BY <1>1, <1>2, NonceForIsNext DEF FirstOffer
<1>4. Send(t) /\ nonce'[q] = t.nonce /\ pc'[q] = "sent" /\ work'[q].sent = t /\ JobOf(q)' = JobOf(q)
  BY <1>1, <1>3 DEF Broadcast, GoTo, JobOf, RelayInv, RelayersOK, Attempt
<1>5. NextNonce(q)' = NextNonce(q) /\ Own(q)' \subseteq {t}
  <2>1. Blocks' = Blocks /\ \A b \in Blocks : ledger'[b].tx = ledger[b].tx
    BY <1>4 DEF Send, Blocks
  <2>2. Own(q)' \subseteq {t}
    BY <1>2, <1>4 DEF Send, Own, Clear
  <2>3. QED
    BY <2>1, <2>2, NextNonceKept
<1>6. Awaits(q, t)'
  BY <1>3, <1>4, <1>5 DEF Awaits
<1>7. Awaits(q, work[q].sent)'
  BY <1>4, <1>6 DEF Awaits
<1>8. QED
  BY <1>4, <1>7 DEF SlotOK

LEMMA NotedSlot ==
  ASSUME RelayInv, SteadyInv, NEW q \in Relayer, NoteBroadcast(q)
  PROVE  SlotOK(q)'
<1>1. PICK t : t = work[q].sent
  OBVIOUS
<1>2. Awaits(q, t) /\ nonce[q] \in {Nothing, t.nonce}
  BY <1>1 DEF NoteBroadcast, At, SteadyInv, SlotOK
<1>3. /\ pc'[q] = "tracking" /\ work'[q].tx = t /\ JobOf(q)' = JobOf(q)
      /\ UNCHANGED chain
  BY <1>1 DEF NoteBroadcast, GoTo, JobOf, RelayInv, RelayersOK, Attempt
<1>4. nonce'[q] \in {Nothing, t.nonce + 1}
  BY <1>2 DEF NoteBroadcast, Consumed, RelayInv, RelayersOK
<1>5. Awaits(q, t)'
  BY <1>2, <1>3, AccountStays DEF Awaits
<1>6. Awaits(q, work[q].tx)'
  BY <1>3, <1>5 DEF Awaits
<1>7. QED
  BY <1>3, <1>4, <1>6 DEF SlotOK

LEMMA BumpSlot ==
  ASSUME RelayInv, SteadyInv, NEW q \in Relayer, Bump(q)
  PROVE  SlotOK(q)'
<1>1. PICK t : t = work[q].tx
  OBVIOUS
<1>2. Awaits(q, t) /\ nonce[q] \in {Nothing, t.nonce + 1} /\ pc[q] = "tracking"
  BY <1>1 DEF Bump, Stuck, At, SteadyInv, SlotOK
<1>3. t \in Tx /\ t.call = JobOf(q)
  BY <1>1, <1>2 DEF RelayInv, RelayersOK, AttemptOK, Following
<1>4. PICK u : u = Raised(q)
  OBVIOUS
<1>5. u.from = q /\ u.nonce = t.nonce /\ u.call = JobOf(q)
  BY <1>1, <1>3, <1>4 DEF Raised, Tx
<1>6. /\ pc'[q] = "resent" /\ work'[q].tx = t /\ work'[q].sent = u
      /\ JobOf(q)' = JobOf(q) /\ nonce'[q] = nonce[q] /\ Send(u) /\ Accepts(u)
  BY <1>1, <1>4 DEF Bump, GoTo, JobOf, RelayInv, RelayersOK, Attempt
<1>7. NextNonce(q) = t.nonce
  <2>1. NextNonce(q) \in Nat /\ t.nonce \in Nat
    BY <1>3, NextNonceType DEF RelayInv, ChainInv, Tx
  <2>2. u.nonce >= NextNonce(q)
    BY <1>5, <1>6 DEF Accepts
  <2>3. QED
    BY <1>2, <1>5, <2>1, <2>2 DEF Awaits
<1>8. \A v \in Own(q) : v.nonce = t.nonce /\ v.call = JobOf(q)
  BY <1>2 DEF Awaits
<1>9. NextNonce(q)' = NextNonce(q) /\ Own(q)' \subseteq Own(q) \cup {u}
  <2>1. Blocks' = Blocks /\ \A b \in Blocks : ledger'[b].tx = ledger[b].tx
    BY <1>6 DEF Send, Blocks
  <2>2. Own(q)' \subseteq Own(q) \cup {u}
    BY <1>6 DEF Send, Own
  <2>3. QED
    BY <2>1, <2>2, NextNonceKept
<1>10. Awaits(q, t)'
  BY <1>2, <1>5, <1>6, <1>7, <1>8, <1>9 DEF Awaits
<1>11. Awaits(q, work[q].tx)' /\ SameSlot(work[q].sent, work[q].tx)'
  BY <1>2, <1>5, <1>6, <1>10 DEF Awaits, SameSlot
<1>12. QED
  BY <1>2, <1>6, <1>11 DEF SlotOK

LEMMA ResentSlot ==
  ASSUME RelayInv, SteadyInv, NEW q \in Relayer, NoteResend(q)
  PROVE  SlotOK(q)'
<1>1. PICK t, u : t = work[q].tx /\ u = work[q].sent
  OBVIOUS
<1>2. Awaits(q, t) /\ nonce[q] \in {Nothing, t.nonce + 1} /\ u.from = t.from /\ u.nonce = t.nonce
  BY <1>1 DEF NoteResend, At, SteadyInv, SlotOK, SameSlot
<1>3. /\ pc'[q] = "tracking" /\ work'[q].tx = u /\ JobOf(q)' = JobOf(q)
      /\ UNCHANGED chain /\ nonce'[q] = nonce[q]
  BY <1>1, <1>2 DEF NoteResend, GoTo, JobOf, RelayInv, RelayersOK, Attempt
<1>4. Awaits(q, u)'
  BY <1>2, <1>3, AccountStays DEF Awaits
<1>5. Awaits(q, work[q].tx)'
  BY <1>3, <1>4 DEF Awaits
<1>6. QED
  BY <1>2, <1>3, <1>5 DEF SlotOK

LEMMA OwnSlotStep ==
  ASSUME RelayInv, OnRecordInv, SteadyInv, ~Disturb, NEW q \in Relayer, Acts(q)
  PROVE  SlotOK(q)'
<1>1. ASSUME UNCHANGED chain, nonce'[q] \in {Nothing, nonce[q]}, Clear(q),
             pc'[q] \in {"idle", "taken", "checking", "sending", "elsewhere", "reverted", "deep"}
      PROVE  SlotOK(q)'
  <2>1. Clear(q)'
    BY <1>1, AccountStays DEF Clear
  <2>2. QED
    BY <1>1, <2>1 DEF SlotOK
<1>2. /\ pc \in [Relayer -> Places] /\ nonce \in [Relayer -> Nat \cup {Nothing}]
      /\ SlotOK(q)
  BY DEF RelayInv, RelayersOK, SteadyInv
<1>3. ASSUME Rest(q) PROVE pc'[q] = "idle"
  BY <1>2, <1>3 DEF Rest, GoTo
<1>4. ASSUME NEW p, GoTo(q, p) PROVE pc'[q] = p
  BY <1>2, <1>4 DEF GoTo
<1>5. ASSUME NEW j \in Job, Take(q, j) PROVE SlotOK(q)'
  BY <1>1, <1>2, <1>4, <1>5 DEF Take, At, SlotOK
<1>6. CASE StartFresh(q)
  BY <1>1, <1>2, <1>4, <1>6 DEF StartFresh, At, SlotOK
<1>7. CASE Check(q)
  <2>1. pc'[q] \in {"idle", "sending", "elsewhere"}
    BY <1>3, <1>4, <1>7, FailAttemptRests DEF Check, TryLater
  <2>2. QED
    BY <1>1, <1>2, <1>7, <2>1 DEF Check, At, SlotOK
<1>8. CASE BroadcastRefused(q)
  BY <1>1, <1>2, <1>3, <1>8, FailAttemptRests DEF BroadcastRefused, TryLater, At, SlotOK
<1>9. CASE SeeMined(q)
  <2>1. pc'[q] \in {"reverted", "deep"}
    BY <1>4, <1>9 DEF SeeMined
  <2>2. QED
    BY <1>1, <1>9, <2>1, SeenMinedIsClear DEF SeeMined
<1>10. CASE LookIntoRevert(q)
  <2>1. pc'[q] \in {"idle", "elsewhere"}
    BY <1>3, <1>4, <1>10, FailAttemptRests DEF LookIntoRevert, ExplainRevert
  <2>2. QED
    BY <1>1, <1>2, <1>10, <2>1 DEF LookIntoRevert, At, SlotOK
<1>11. CASE Confirm(q) \/ MarkSettledElsewhere(q)
  BY <1>1, <1>2, <1>3, <1>11 DEF Confirm, MarkSettledElsewhere, At, SlotOK
<1>12. QED
  BY <1>5, <1>6, <1>7, <1>8, <1>9, <1>10, <1>11, QuietActs, BroadcastSlot, NotedSlot,
     BumpSlot, ResentSlot
-----------------------------------------------------------------------------
(* Jobs.                                                                    *)

\* A lease that somebody works under does not run out, so there is nothing to
\* reap, and before a reorg there is nothing to unwind.
LEMMA NothingToReap ==
  ASSUME StillInv, Reap
  PROVE  FALSE
<1>1. PICK rows \in SUBSET Expired : ReapExpired(rows)
  BY DEF Reap
<1>2. PICK j \in rows : TRUE
  BY <1>1 DEF ReapExpired
<1>3. j \in Job /\ IsInFlight(state[j]) /\ leaseExpiry[j] = "past"
  BY <1>2 DEF Expired
<1>4. state[j] = "submitting"
  BY <1>3 DEF StillInv, OnRecordInv, OnRelayersSide, IsInFlight
<1>5. PICK r \in Relayer : ~At(r, "idle") /\ JobOf(r) = j
  BY <1>3, <1>4 DEF StillInv, SteadyInv
<1>6. QED
  BY <1>3, <1>5 DEF StillInv, OnRecordInv, HoldsOn

LEMMA WhoMovesJobs ==
  ASSUME StillInv, reorgs = 0, [RelayNext]_vars, ~Disturb
  PROVE  \/ UNCHANGED state
         \/ \E r \in Relayer, j \in Job : Take(r, j)
         \/ \E r \in Relayer, kind \in FailureKinds :
              pc[r] \in {"checking", "sending"} /\ FailAttempt(r, kind) /\ UNCHANGED chain
         \/ \E r \in Relayer :
              /\ pc[r] = "reverted" /\ ~NullifierUsed(JobOf(r))
              /\ FailAttempt(r, "permanent") /\ UNCHANGED chain
         \/ \E r \in Relayer :
              pc[r] \in {"deep", "elsewhere"} /\ ConfirmSettled(JobOf(r)) /\ Rest(r)
<1> DEFINE Goal ==
      \/ UNCHANGED state
      \/ \E r \in Relayer, j \in Job : Take(r, j)
      \/ \E r \in Relayer, kind \in FailureKinds :
           pc[r] \in {"checking", "sending"} /\ FailAttempt(r, kind) /\ UNCHANGED chain
      \/ \E r \in Relayer :
           /\ pc[r] = "reverted" /\ ~NullifierUsed(JobOf(r))
           /\ FailAttempt(r, "permanent") /\ UNCHANGED chain
      \/ \E r \in Relayer :
           pc[r] \in {"deep", "elsewhere"} /\ ConfirmSettled(JobOf(r)) /\ Rest(r)
<1>1. UNCHANGED columns => Goal
  BY DEF columns
<1>2. "transient" \in FailureKinds /\ "permanent" \in FailureKinds
  BY DEF FailureKinds
<1>3. ASSUME NEW r \in Relayer, Check(r) \/ BroadcastRefused(r) PROVE Goal
  BY <1>1, <1>2, <1>3 DEF Check, BroadcastRefused, TryLater, At
<1>4. ASSUME NEW r \in Relayer, LookIntoRevert(r) PROVE Goal
  BY <1>1, <1>4 DEF LookIntoRevert, ExplainRevert, At
<1>5. ASSUME NEW r \in Relayer, Confirm(r) \/ MarkSettledElsewhere(r) PROVE Goal
  BY <1>1, <1>5 DEF Confirm, MarkSettledElsewhere, ConfirmSettlement, At
<1>6. ASSUME NEW r \in Relayer,
             \/ StartFresh(r) \/ Broadcast(r) \/ NoteBroadcast(r) \/ SeeMined(r)
             \/ Bump(r) \/ NoteResend(r)
      PROVE  Goal
  BY <1>1, <1>6 DEF StartFresh, Broadcast, NoteBroadcast, SeeMined, Bump, NoteResend
<1>7. ASSUME NEW r \in Relayer, Acts(r) PROVE Goal
  BY <1>3, <1>4, <1>5, <1>6, <1>7, QuietActs DEF StillInv
<1>8. ASSUME NEW r \in Relayer, Watch(r) PROVE Goal
  BY <1>1, <1>8 DEF Watch, Notice, Unwind, StillInv, WatchedInv
<1>9. ASSUME NEW r \in Relayer, Renew(r) \/ BumpAnswerLost(r) PROVE UNCHANGED state
  BY <1>9 DEF Renew, RenewLease, BumpAnswerLost
<1>10. ASSUME NEW j \in Job, TimePasses(j) PROVE UNCHANGED state
  BY <1>10 DEF TimePasses, LeaseRunsOut, RetryComesDue
<1>11. ASSUME \/ UNCHANGED vars
              \/ (Network \/ Administration) /\ UNCHANGED <<columns, settlements, relayers>>
       PROVE  Goal
  BY <1>1, <1>11 DEF vars
<1>12. QED
  BY <1>7, <1>8, <1>9, <1>10, <1>11, NothingToReap DEF RelayNext, Acts

\* How one job may move: it is taken, or its own relayer decides the attempt.
JobMoves(j) ==
  \/ state'[j] = state[j]
  \/ state[j] = "proved" /\ state'[j] = "submitting" /\ \E r \in Relayer : Take(r, j)
  \/ \E r \in Relayer :
       /\ ~At(r, "idle") /\ JobOf(r) = j /\ state[j] = "submitting"
       /\ \/ /\ pc[r] \in {"checking", "sending"} /\ state'[j] \in {"proved", "failed"}
             /\ UNCHANGED <<chain, settlements>>
          \/ /\ pc[r] = "reverted" /\ ~NullifierUsed(j) /\ state'[j] = "failed"
             /\ UNCHANGED chain
          \/ pc[r] \in {"deep", "elsewhere"} /\ state'[j] = "settled"

\* A failure is recorded for a job that is being submitted.
LEMMA FailAttemptMoves ==
  ASSUME RelayInv, OnRecordInv, NEW r \in Relayer, NEW kind \in FailureKinds,
         ~At(r, "idle"), FailAttempt(r, kind)
  PROVE  \E s \in {"proved", "failed"} :
           /\ state' = [state EXCEPT ![JobOf(r)] = s]
           /\ kind = "permanent" => s = "failed"
<1> DEFINE j == JobOf(r)
           event == ClassifyFailure(kind, submissionAttempts[j], MaxAttempts)
<1>1. state[j] = "submitting" /\ j \in Job
  <2>1. j \in Job /\ leasedBy[j] = r
    BY AttemptHasJob DEF RelayInv, OnRecordInv, HoldsOn
  <2>2. QED
    BY <2>1, HeldIsSubmitting DEF OnRecordInv
<1>2. RecordSubmissionFailure(j, kind)
  BY <1>1 DEF FailAttempt, CanTransition, Transition, AfterRetry
<1>3. state' = [state EXCEPT ![j] = Transition("submitting", event)]
  BY <1>1, <1>2 DEF RecordSubmissionFailure, MoveTo
<1>4. /\ Transition("submitting", event) \in {"proved", "failed"}
      /\ kind = "permanent" => Transition("submitting", event) = "failed"
  BY DEF ClassifyFailure, Transition, AfterRetry, FailureKinds
<1>5. QED
  BY <1>3, <1>4

LEMMA HowJobsMove ==
  ASSUME StillInv, reorgs = 0, [RelayNext]_vars, ~Disturb, NEW j \in Job
  PROVE  JobMoves(j)
<1>1. TypeOK /\ RelayInv /\ OnRecordInv /\ OnRelayersSide
  BY DEF StillInv, RelayInv, OnRecordInv
<1>2. ASSUME NEW i \in Job, NEW s, state' = [state EXCEPT ![i] = s], i # j
      PROVE  state'[j] = state[j]
  BY <1>1, <1>2 DEF TypeOK
<1>3. ASSUME NEW s, state' = [state EXCEPT ![j] = s] PROVE state'[j] = s
  BY <1>1, <1>3 DEF TypeOK
<1>4. ASSUME NEW r \in Relayer, ~At(r, "idle")
      PROVE  JobOf(r) \in Job /\ state[JobOf(r)] = "submitting"
  <2>1. JobOf(r) \in Job /\ leasedBy[JobOf(r)] = r
    BY <1>1, <1>4, AttemptHasJob DEF RelayInv, OnRecordInv, HoldsOn
  <2>2. QED
    BY <1>1, <2>1, HeldIsSubmitting
<1>5. ASSUME NEW r \in Relayer, NEW i \in Job, Take(r, i) PROVE JobMoves(j)
  <2>1. state' = [state EXCEPT ![i] = "submitting"] /\ state[i] = "proved"
    BY <1>5 DEF Take, LeaseNextProved, MoveTo, Transition, Waiting
  <2>2. CASE i = j
    BY <1>3, <1>5, <2>1, <2>2 DEF JobMoves
  <2>3. CASE i # j
    BY <1>2, <2>1, <2>3 DEF JobMoves
  <2>4. QED
    BY <2>2, <2>3
<1>6. ASSUME NEW r \in Relayer, NEW kind \in FailureKinds, UNCHANGED chain,
             FailAttempt(r, kind),
             \/ pc[r] \in {"checking", "sending"}
             \/ pc[r] = "reverted" /\ ~NullifierUsed(JobOf(r)) /\ kind = "permanent"
      PROVE  JobMoves(j)
  <2>1. ~At(r, "idle")
    BY <1>6 DEF At
  <2>2. PICK s \in {"proved", "failed"} : /\ state' = [state EXCEPT ![JobOf(r)] = s]
                                          /\ kind = "permanent" => s = "failed"
    BY <1>1, <1>6, <2>1, FailAttemptMoves
  <2>3. UNCHANGED settlements
    BY <1>6 DEF FailAttempt
  <2>4. CASE JobOf(r) = j
    <3>1. state'[j] = s /\ state[j] = "submitting"
      BY <1>3, <1>4, <2>1, <2>2, <2>4
    <3>2. QED
      BY <1>6, <2>1, <2>2, <2>3, <2>4, <3>1 DEF JobMoves
  <2>5. CASE JobOf(r) # j
    BY <1>2, <1>4, <2>1, <2>2, <2>5 DEF JobMoves
  <2>6. QED
    BY <2>4, <2>5
<1>7. ASSUME NEW r \in Relayer, pc[r] \in {"deep", "elsewhere"}, ConfirmSettled(JobOf(r))
      PROVE  JobMoves(j)
  <2>1. ~At(r, "idle")
    BY <1>7 DEF At
  <2>2. state' = [state EXCEPT ![JobOf(r)] = "settled"]
    BY <1>4, <1>7, <2>1 DEF ConfirmSettled, ApplyEvent, MoveTo, Transition
  <2>3. CASE JobOf(r) = j
    <3>1. state'[j] = "settled" /\ state[j] = "submitting"
      BY <1>3, <1>4, <2>1, <2>2, <2>3
    <3>2. QED
      BY <1>7, <2>1, <2>3, <3>1 DEF JobMoves
  <2>4. CASE JobOf(r) # j
    BY <1>2, <1>4, <2>1, <2>2, <2>4 DEF JobMoves
  <2>5. QED
    BY <2>3, <2>4
<1>8. UNCHANGED state => JobMoves(j)
  BY DEF JobMoves
<1>9. "permanent" \in FailureKinds
  BY DEF FailureKinds
<1>10. QED
  BY <1>5, <1>6, <1>7, <1>8, <1>9, WhoMovesJobs

-----------------------------------------------------------------------------
(* The invariant step by step.                                              *)

\* How the ledger may move without a reorg.
LEMMA LedgerMoves ==
  ASSUME RelayInv, [RelayNext]_vars, ~Reorg
  PROVE  \/ /\ Blocks' = Blocks /\ UNCHANGED stale
            /\ \A b \in Blocks : ledger'[b].tx = ledger[b].tx /\ ledger'[b].ok = ledger[b].ok
         \/ \E t \in pool : Mine(t)
<1>1. CASE NewBlock
  <2>1. Blocks' = Blocks
    BY <1>1, NewBlockLedger, BlocksAre, LenProperties DEF RelayInv, ChainInv, Blocks
  <2>2. \A b \in Blocks : ledger'[b].tx = ledger[b].tx /\ ledger'[b].ok = ledger[b].ok
    BY <1>1, NewBlockLedger, BlocksAre DEF RelayInv, ChainInv, Keeps
  <2>3. QED
    BY <1>1, <2>1, <2>2 DEF NewBlock
<1>2. CASE UNCHANGED <<ledger, stale>>
  BY <1>2 DEF Blocks
<1>3. QED
  BY <1>1, <1>2, RelayChainStep
     DEF RelayInv, Network, Evict, Administration, RegisterCircuit, SetRelayer, chain,
         Sends, Send

LEMMA SteadyChainStep ==
  ASSUME RelayInv, SteadyInv, [RelayNext]_vars, ~Reorg
  PROVE  stale' = {} /\ MinedBelow'
<1>1. CASE /\ Blocks' = Blocks /\ UNCHANGED stale
           /\ \A b \in Blocks : ledger'[b].tx = ledger[b].tx
  BY <1>1, MinedBelowKept DEF SteadyInv
<1>2. ASSUME NEW t \in pool, Mine(t) PROVE stale' = {} /\ MinedBelow'
  <2>1. MinedBelow'
    BY <1>2, MinedBelowMined DEF SteadyInv, RelayInv, ChainInv
  <2>2. stale' = {}
    BY <1>2 DEF Mine, SteadyInv
  <2>3. QED
    BY <2>1, <2>2
<1>3. QED
  BY <1>1, <1>2, LedgerMoves

LEMMA SlotStep ==
  ASSUME RelayInv, OnRecordInv, SteadyInv, [RelayNext]_vars, ~Disturb, ~Reorg,
         NEW q \in Relayer
  PROVE  SlotOK(q)'
BY SlotStays, OwnSlotStep DEF SteadyInv

\* Nothing but a broadcast written down gives a job a live row.
LEMMA RowsComeOfBroadcasts ==
  ASSUME RelayInv, [RelayNext]_vars, NEW j \in Job, LiveRow(j)'
  PROVE  LiveRow(j) \/ \E r \in Relayer : NoteBroadcast(r) /\ JobOf(r) = j
<1> DEFINE Goal == LiveRow(j) \/ \E r \in Relayer : NoteBroadcast(r) /\ JobOf(r) = j
<1>1. PICK i \in Rows' : settlements'[i].job = j /\ ~settlements'[i].reorged
  BY DEF LiveRow, RowsOf, Live
<1>2. TableOK
  BY DEF RelayInv
<1>3. ASSUME i \in Rows, settlements[i].job = j, ~settlements[i].reorged PROVE Goal
  BY <1>3 DEF LiveRow, RowsOf, Live
<1>4. UNCHANGED settlements => Goal
  BY <1>1, <1>3 DEF Rows
<1>5. ASSUME NEW r \in Relayer, NoteBroadcast(r), RecordSubmission(JobOf(r), work[r].sent)
      PROVE  Goal
  <2> DEFINE t == work[r].sent
  <2>1. JobOf(r) \in Job /\ t \in Tx /\ t.call = JobOf(r)
    BY <1>5, SentIsOwn DEF RelayInv
  <2>2. RecordSubmission(JobOf(r), t)
    BY <1>5
  <2> HIDE DEF t
  <2>3. \/ UNCHANGED settlements
        \/ /\ Rows' = 1..(Len(settlements) + 1)
           /\ \A k \in Rows : settlements'[k] = settlements[k]
           /\ settlements'[Len(settlements) + 1] =
                [job |-> JobOf(r), tx |-> t, confirmed |-> FALSE, reorged |-> FALSE]
    BY <1>2, <2>1, <2>2, RecordSubmissionTable
  <2>4. Rows = 1..Len(settlements) /\ Len(settlements) \in Nat
    BY <1>2, RowsAre
  <2>5. CASE /\ Rows' = 1..(Len(settlements) + 1)
             /\ \A k \in Rows : settlements'[k] = settlements[k]
             /\ settlements'[Len(settlements) + 1] =
                  [job |-> JobOf(r), tx |-> t, confirmed |-> FALSE, reorged |-> FALSE]
    <3>1. i = Len(settlements) + 1 => settlements'[i].job = JobOf(r)
      BY <2>5
    <3>2. i \in Rows \/ i = Len(settlements) + 1
      BY <1>1, <2>4, <2>5
    <3>3. QED
      BY <1>1, <1>3, <1>5, <2>5, <3>1, <3>2
  <2>6. QED
    BY <1>4, <2>3, <2>5
<1>6. ASSUME NEW r \in Relayer, NoteResend(r),
             ReplaceSubmissionTx(JobOf(r), work[r].tx, work[r].sent)
      PROVE  Goal
  <2>1. JobOf(r) \in Job /\ work[r].sent \in Tx /\ work[r].sent.call = JobOf(r)
    BY <1>6, SentIsOwn DEF RelayInv
  <2>2. Rows' = Rows /\ settlements'[i].job = settlements[i].job
        /\ settlements'[i].reorged = settlements[i].reorged
    BY <1>1, <1>2, <1>6, <2>1, ReplaceTable
  <2>3. QED
    BY <1>1, <1>3, <2>2
<1>7. ASSUME NEW r \in Relayer, ConfirmSettlement(JobOf(r), work[r].tx) PROVE Goal
  BY <1>1, <1>2, <1>3, <1>7, ConfirmTable
<1>8. ASSUME NEW r \in Relayer, RecordReorg(noticed[r].job, noticed[r].tx) PROVE Goal
  BY <1>1, <1>2, <1>3, <1>8, ReorgTable
<1>9. QED
  BY <1>4, <1>5, <1>6, <1>7, <1>8, TableWrites

\* Two relayers are never at work on one job.
LEMMA OneAtWork ==
  ASSUME OnRecordInv, NEW q \in Relayer, NEW r \in Relayer,
         ~At(q, "idle"), ~At(r, "idle"), JobOf(q) = JobOf(r)
  PROVE  q = r
BY DEF OnRecordInv, HoldsOn

\* Whoever is at work on a job has it submitting.
LEMMA AtWorkIsSubmitting ==
  ASSUME RelayInv, OnRecordInv, NEW r \in Relayer, ~At(r, "idle")
  PROVE  JobOf(r) \in Job /\ state[JobOf(r)] = "submitting"
<1>1. JobOf(r) \in Job /\ leasedBy[JobOf(r)] = r
  BY AttemptHasJob DEF RelayInv, OnRecordInv, HoldsOn
<1>2. QED
  BY <1>1, HeldIsSubmitting DEF OnRecordInv

LEMMA TakenStep ==
  ASSUME RelayInv, OnRecordInv, SteadyInv, [RelayNext]_vars, ~Disturb,
         NEW q \in Relayer, pc'[q] = "taken"
  PROVE  ~LiveRow(JobOf(q))'
<1>1. RelayersOK /\ TypeOK
  BY DEF RelayInv
<1>2. CASE ~Acts(q)
  <2>1. PICK j : j = JobOf(q)
    OBVIOUS
  <2>2. pc[q] = "taken" /\ JobOf(q)' = j /\ ~At(q, "idle")
    BY <1>1, <1>2, <2>1, OthersStay DEF JobOf, At
  <2>3. j \in Job /\ ~LiveRow(j)
    BY <1>1, <2>1, <2>2, AttemptHasJob DEF SteadyInv
  <2>4. ASSUME NEW r \in Relayer, NoteBroadcast(r), JobOf(r) = j PROVE FALSE
    BY <2>1, <2>2, <2>4, OneAtWork DEF NoteBroadcast, At
  <2>5. ~LiveRow(j)'
    BY <2>3, <2>4, RowsComeOfBroadcasts
  <2>6. QED
    BY <2>2, <2>5 DEF LiveRow, RowsOf
<1>3. CASE Acts(q)
  <2>1. ASSUME NEW p, GoTo(q, p) PROVE p = "taken"
    BY <1>1, <2>1 DEF GoTo, RelayersOK
  <2>2. PICK j \in Job : Take(q, j)
    <3>1. ~Check(q) \/ ~UNCHANGED <<columns, work, settlements>>
      <4>1. \A kind : ~FailAttempt(q, kind)
        BY <2>1, FailAttemptRests DEF Rest
      <4>2. QED
        BY <2>1, <4>1 DEF Check, TryLater
    <3>2. QED
      BY <1>1, <1>3, <2>1, <3>1, OwnActs
         DEF Resume, StartFresh, Broadcast, NoteBroadcast, SeeMined, SeeGap, CrossGap,
             CrossGapFails, Bump, NoteResend
  <2>3. JobOf(q)' = j /\ UNCHANGED settlements /\ state[j] = "proved"
    BY <1>1, <2>2 DEF Take, LeaseNextProved, Waiting, JobOf, RelayersOK, Attempt
  <2>4. ~LiveRow(j)
    BY <2>3 DEF SteadyInv
  <2>5. ~LiveRow(j)'
    BY <2>3, <2>4 DEF LiveRow, RowsOf, Rows, Live
  <2>6. QED
    BY <2>3, <2>5 DEF LiveRow, RowsOf
<1>4. QED
  BY <1>2, <1>3

\* An attempt that goes on is still about its job.
LEMMA GoesOnWithItsJob ==
  ASSUME ~Disturb, RelayInv, NEW q \in Relayer, Acts(q), ~At(q, "idle"), pc'[q] # "idle"
  PROVE  JobOf(q)' = JobOf(q)
<1>1. work \in [Relayer -> Attempt] /\ work[q] \in Attempt
  BY DEF RelayInv, RelayersOK
<1>2. \/ Check(q) /\ UNCHANGED <<columns, work, settlements>>
      \/ Resume(q) \/ StartFresh(q)
      \/ Broadcast(q) \/ NoteBroadcast(q) \/ SeeMined(q) \/ SeeGap(q) \/ CrossGap(q)
      \/ Bump(q) \/ NoteResend(q)
      \/ LookIntoRevert(q) /\ GoTo(q, "elsewhere") /\ UNCHANGED <<columns, work>>
  BY OwnActs DEF RelayInv, Take, CrossGapFails
<1>3. UNCHANGED work => JobOf(q)' = JobOf(q)
  BY DEF JobOf
<1>4. CASE Resume(q)
  BY <1>1, <1>4 DEF Resume, JobOf, Attempt
<1>5. CASE StartFresh(q) \/ SeeMined(q) \/ SeeGap(q)
  BY <1>3, <1>5 DEF StartFresh, SeeMined, SeeGap
<1>6. CASE Broadcast(q) \/ CrossGap(q) \/ Bump(q)
  BY <1>1, <1>6 DEF Broadcast, CrossGap, Bump, JobOf, Attempt
<1>7. CASE NoteBroadcast(q) \/ NoteResend(q)
  BY <1>1, <1>7 DEF NoteBroadcast, NoteResend, JobOf, Attempt
<1>8. QED
  BY <1>2, <1>3, <1>4, <1>5, <1>6, <1>7

\* When nothing is disturbed, an attempt ends with its job decided, or on its
\* queue again.
LEMMA AttemptsEndDecided ==
  ASSUME ~Disturb, RelayInv, OnRecordInv, SteadyInv,
         NEW q \in Relayer, Acts(q), ~At(q, "idle"), pc'[q] = "idle"
  PROVE  state'[JobOf(q)] # "submitting"
<1>1. RelayersOK /\ TypeOK
  BY DEF RelayInv
<1>2. JobOf(q) \in Job /\ state[JobOf(q)] = "submitting"
  BY AtWorkIsSubmitting
<1>3. ASSUME NEW p, p # "idle", GoTo(q, p) PROVE FALSE
  BY <1>1, <1>3 DEF GoTo, RelayersOK
<1>4. "transient" \in FailureKinds /\ "permanent" \in FailureKinds
  BY DEF FailureKinds
<1>5. ASSUME NEW kind \in FailureKinds, FailAttempt(q, kind)
      PROVE  state'[JobOf(q)] # "submitting"
  <2>1. PICK s \in {"proved", "failed"} : state' = [state EXCEPT ![JobOf(q)] = s]
    BY <1>5, FailAttemptMoves
  <2>2. QED
    BY <1>1, <1>2, <2>1 DEF TypeOK
<1>6. CASE Check(q) \/ BroadcastRefused(q) \/ LookIntoRevert(q)
  BY <1>3, <1>4, <1>5, <1>6
     DEF Check, BroadcastRefused, LookIntoRevert, ExplainRevert, TryLater
<1>7. CASE Confirm(q) \/ MarkSettledElsewhere(q)
  <2>1. CanTransition(state[JobOf(q)], "settlement_confirmed")
    BY <1>2 DEF CanTransition, Transition
  <2>2. ConfirmSettled(JobOf(q))
    BY <1>7, <2>1 DEF Confirm, MarkSettledElsewhere, ConfirmSettlement
  <2>3. state' = [state EXCEPT ![JobOf(q)] = "settled"]
    BY <1>2, <2>2 DEF ConfirmSettled, ApplyEvent, MoveTo, Transition
  <2>4. QED
    BY <1>1, <1>2, <2>3 DEF TypeOK
<1>8. QED
  BY <1>3, <1>6, <1>7, QuietActs
     DEF Take, StartFresh, Broadcast, NoteBroadcast, SeeMined, Bump, NoteResend, At

\* A job in submission stays with somebody at work on it.
LEMMA SubmittingStep ==
  ASSUME StillInv, reorgs = 0, [RelayNext]_vars, ~Disturb,
         NEW j \in Job, state'[j] = "submitting"
  PROVE  \E r \in Relayer : pc'[r] # "idle" /\ JobOf(r)' = j
<1>1. RelayInv /\ OnRecordInv /\ SteadyInv /\ RelayersOK
  BY DEF StillInv, RelayInv
<1>2. ASSUME NEW r \in Relayer, Take(r, j) PROVE pc'[r] # "idle" /\ JobOf(r)' = j
  BY <1>1, <1>2 DEF Take, GoTo, JobOf, RelayersOK, Attempt
<1>3. CASE state[j] = "submitting"
  <2>1. PICK r \in Relayer : ~At(r, "idle") /\ JobOf(r) = j
    BY <1>1, <1>3 DEF SteadyInv
  <2>2. CASE ~Acts(r)
    BY <1>1, <2>1, <2>2, OthersStay DEF At, JobOf
  <2>3. CASE Acts(r)
    <3>1. pc'[r] # "idle"
      BY <1>1, <2>1, <2>3, AttemptsEndDecided
    <3>2. QED
      BY <1>1, <2>1, <2>3, <3>1, GoesOnWithItsJob
  <2>4. QED
    BY <2>2, <2>3
<1>4. QED
  BY <1>2, <1>3, HowJobsMove DEF JobMoves

\* A relayer that has not broadcast finds nothing of its job's, pending, mined
\* or on record.
LEMMA NothingSaid ==
  ASSUME StillInv, reorgs = 0, NullifiersAreOwn,
         NEW r \in Relayer, pc[r] \in {"checking", "sending"}, NEW j, j = JobOf(r)
  PROVE  ~LiveRow(j) /\ ~NullifierUsed(j) /\ \A t \in pool : t.call # j
<1>1. RelayInv /\ OnRecordInv /\ WatchedInv /\ RelayersOK
  BY DEF StillInv, RelayInv
<1>2. j \in Job /\ ~At(r, "idle")
  BY <1>1, AttemptHasJob DEF At
<1>3. ~LiveRow(j)
  BY <1>1 DEF OnRecordInv, RowAtHand, LiveRow
<1>4. ~Spoken(j)
  <2>1. ASSUME NEW q \in Relayer, pc[q] = "sent", JobOf(q) = j PROVE FALSE
    BY <1>1, <1>2, <2>1, OneAtWork DEF At
  <2>2. QED
    BY <1>3, <2>1 DEF Spoken
<1>5. ~NullifierUsed(j)
  BY <1>1, <1>2, <1>4, SpentIsSpoken DEF NullifiersAreOwn
<1>6. \A t \in pool : t.call # j
  BY <1>1, <1>4 DEF WatchedInv, RelayInv, ChainInv, ChainTypeOK
<1>7. QED
  BY <1>3, <1>5, <1>6

\* A job on the submission queue has no settlement on record.
LEMMA ProvedStep ==
  ASSUME StillInv, reorgs = 0, NullifiersAreOwn, [RelayNext]_vars, ~Disturb,
         NEW j \in Job, state'[j] = "proved"
  PROVE  ~LiveRow(j)'
<1>1. RelayInv /\ OnRecordInv /\ SteadyInv
  BY DEF StillInv
<1>2. CASE state[j] = "proved"
  <2>1. ASSUME NEW r \in Relayer, NoteBroadcast(r), JobOf(r) = j PROVE FALSE
    BY <1>1, <1>2, <2>1, AtWorkIsSubmitting DEF NoteBroadcast, At
  <2>2. ~LiveRow(j)
    BY <1>1, <1>2 DEF SteadyInv
  <2>3. QED
    BY <1>1, <2>1, <2>2, RowsComeOfBroadcasts
<1>3. ASSUME NEW r \in Relayer, pc[r] \in {"checking", "sending"}, JobOf(r) = j,
             UNCHANGED settlements
      PROVE  ~LiveRow(j)'
  <2>1. ~LiveRow(j)
    BY <1>3, NothingSaid
  <2>2. QED
    BY <1>3, <2>1 DEF LiveRow, RowsOf, Rows, Live
<1>4. QED
  BY <1>2, <1>3, HowJobsMove DEF JobMoves

\* What is newly pending has been sent by a relayer at work on its job.
LEMMA PoolGrowsByWork ==
  ASSUME RelayInv, [RelayNext]_vars, ~Disturb, ~Reorg, NEW t \in pool'
  PROVE  t \in pool \/ \E r \in Relayer : ~At(r, "idle") /\ t.call = JobOf(r)
<1> DEFINE Goal == t \in pool \/ \E r \in Relayer : ~At(r, "idle") /\ t.call = JobOf(r)
<1>1. ASSUME NEW u, Send(u), u # t PROVE Goal
  BY <1>1 DEF Send
<1>2. RelayersOK /\ ChainInv
  BY DEF RelayInv
<1>3. ASSUME NEW r \in Relayer, Broadcast(r) PROVE Goal
  BY <1>1, <1>3 DEF Broadcast, FirstOffer, At
<1>4. ASSUME NEW r \in Relayer, Bump(r) PROVE Goal
  <2>1. Raised(r).call = JobOf(r) /\ Send(Raised(r)) /\ ~At(r, "idle")
    BY <1>2, <1>4, RaisedIsTx DEF Bump, Stuck, At
  <2>2. QED
    BY <1>1, <2>1
<1>5. ASSUME NEW r \in Relayer, CrossGap(r) PROVE Goal
  <2>1. Crossing(r).call = JobOf(r) /\ Send(Crossing(r)) /\ ~At(r, "idle")
    BY <1>2, <1>5, CrossingIsTx DEF CrossGap, At
  <2>2. QED
    BY <1>1, <2>1
<1>6. ASSUME Network \/ Administration \/ UNCHANGED chain PROVE t \in pool
  BY <1>6 DEF Network, NewBlock, Mine, Evict, Administration, RegisterCircuit, SetRelayer,
     chain
<1>7. QED
  BY <1>3, <1>4, <1>5, <1>6, WhoMovesTheChain

\* What is pending for a job is followed by the relayer at work on it.
LEMMA PendingIsFollowed ==
  ASSUME RelayInv, SteadyInv, NEW t \in pool
  PROVE  \E r \in Relayer : /\ pc[r] \in {"sent", "tracking", "resent"}
                            /\ t.call = JobOf(r) /\ t.from = r
<1>1. t \in Tx /\ t.from \in Relayer
  BY RelayAssumption DEF RelayInv, ChainInv, ChainTypeOK, Tx
<1>2. PICK r \in Relayer : r = t.from
  BY <1>1
<1>3. t \in Own(r) /\ SlotOK(r) /\ pc[r] \in Places
  BY <1>2 DEF Own, SteadyInv, RelayInv, RelayersOK
<1>4. pc[r] \in {"sent", "tracking", "resent"}
  BY <1>3 DEF SlotOK, Clear, Places
<1>5. \A u : Awaits(r, u) => t.call = JobOf(r)
  BY <1>3 DEF Awaits
<1>6. t.call = JobOf(r)
  BY <1>3, <1>4, <1>5 DEF SlotOK
<1>7. QED
  BY <1>2, <1>4, <1>6

\* Nothing is left that could settle a failed job.
LEMMA FailedStep ==
  ASSUME StillInv, reorgs = 0, NullifiersAreOwn, [RelayNext]_vars, ~Disturb, ~Reorg,
         NEW j \in Job, state'[j] = "failed"
  PROVE  ~NullifierUsed(j)' /\ \A t \in pool' : t.call # j
<1> DEFINE Dead == ~NullifierUsed(j) /\ \A t \in pool : t.call # j
<1>1. RelayInv /\ OnRecordInv /\ SteadyInv
  BY DEF StillInv
<1>2. Dead /\ UNCHANGED chain => ~NullifierUsed(j)' /\ \A t \in pool' : t.call # j
  BY DEF chain, NullifierUsed, Blocks
<1>3. CASE state[j] = "failed"
  <2>1. Dead
    BY <1>1, <1>3 DEF SteadyInv
  <2>2. \A t \in pool' : t.call # j
    BY <1>1, <1>3, <2>1, PoolGrowsByWork, AtWorkIsSubmitting
  <2>3. ~NullifierUsed(j)'
    <3>1. CASE /\ Blocks' = Blocks
               /\ \A b \in Blocks : ledger'[b].tx = ledger[b].tx /\ ledger'[b].ok = ledger[b].ok
      BY <2>1, <3>1 DEF NullifierUsed
    <3>2. ASSUME NEW t \in pool, Mine(t) PROVE ~NullifierUsed(j)'
      <4> DEFINE n == Len(ledger)
      <4>1. Blocks' = 1..(n + 1) /\ n \in Nat /\ Blocks = 1..n
        BY <1>1, <3>2, MineLedger, LenProperties, BlocksAre DEF Blocks, RelayInv, ChainInv
      <4>2. Keeps(n) /\ ledger'[n + 1] = [tx |-> t, ok |-> SettleOk(t), depth |-> 1] /\ t \in Tx
        BY <1>1, <3>2, MineLedger DEF RelayInv, ChainInv
      <4>3. ledger'[n + 1].tx = t
        BY <4>2
      <4> HIDE DEF n
      <4>4. NullifierOf[t.call] # NullifierOf[j]
        BY <2>1, <4>2, RelayAssumption DEF NullifiersAreOwn, Tx
      <4>5. QED
        BY <2>1, <4>1, <4>2, <4>3, <4>4 DEF NullifierUsed, Keeps
    <3>3. QED
      BY <1>1, <3>1, <3>2, LedgerMoves
  <2>4. QED
    BY <2>2, <2>3
<1>4. ASSUME NEW r \in Relayer, pc[r] \in {"checking", "sending"}, JobOf(r) = j,
             UNCHANGED chain
      PROVE  ~NullifierUsed(j)' /\ \A t \in pool' : t.call # j
  BY <1>2, <1>4, NothingSaid
<1>5. ASSUME NEW r \in Relayer, pc[r] = "reverted", JobOf(r) = j, ~NullifierUsed(j),
             UNCHANGED chain
      PROVE  ~NullifierUsed(j)' /\ \A t \in pool' : t.call # j
  <2>1. ASSUME NEW t \in pool, t.call = j PROVE FALSE
    <3>1. PICK q \in Relayer : pc[q] \in {"sent", "tracking", "resent"} /\ j = JobOf(q)
      BY <1>1, <2>1, PendingIsFollowed
    <3>2. q = r
      BY <1>1, <1>5, <3>1, OneAtWork DEF At
    <3>3. QED
      BY <1>5, <3>1, <3>2
  <2>2. QED
    BY <1>2, <1>5, <2>1
<1>6. QED
  BY <1>3, <1>4, <1>5, HowJobsMove DEF JobMoves

LEMMA SteadyInit == RelayInit => SteadyInv
<1> SUFFICES ASSUME RelayInit PROVE SteadyInv
  OBVIOUS
<1>1. /\ \A j \in Job : state[j] = "proved"
      /\ \A r \in Relayer : pc[r] = "idle" /\ nonce[r] = Nothing
      /\ pool = {} /\ stale = {}
  BY DEF RelayInit, ChainInit
<1>2. MinedBelow
  BY NoBlocks DEF MinedBelow
<1>3. \A r \in Relayer : SlotOK(r)
  BY <1>1 DEF SlotOK, Clear, Own
<1>4. \A j \in Job : ~LiveRow(j)
  BY NoRows DEF LiveRow, RowsOf
<1>5. QED
  BY <1>1, <1>2, <1>3, <1>4 DEF SteadyInv

LEMMA SteadyStep ==
  ASSUME StillInv, reorgs = 0, NullifiersAreOwn, [RelayNext]_vars, ~Disturb, ~Reorg
  PROVE  SteadyInv'
<1>1. RelayInv /\ OnRecordInv /\ SteadyInv
  BY DEF StillInv
<1>2. stale' = {} /\ MinedBelow'
  BY <1>1, SteadyChainStep
<1>3. \A r \in Relayer : SlotOK(r)'
  BY <1>1, SlotStep
<1>4. \A r \in Relayer : pc'[r] = "taken" => ~LiveRow(JobOf(r))'
  BY <1>1, TakenStep
<1>5. \A j \in Job : state'[j] = "submitting" =>
        \E r \in Relayer : pc'[r] # "idle" /\ JobOf(r)' = j
  BY SubmittingStep
<1>6. \A j \in Job : state'[j] = "proved" => ~LiveRow(j)'
  BY ProvedStep
<1>7. \A j \in Job : state'[j] = "failed" =>
        ~NullifierUsed(j)' /\ \A t \in pool' : t.call # j
  BY FailedStep
<1>8. QED
  BY <1>2, <1>3, <1>4, <1>5, <1>6, <1>7 DEF SteadyInv, At

\* What holds of every state, and what holds besides for as long as nothing is
\* disturbed and no reorg has happened.
QuietInv ==
  /\ disturbances = 0 => OnRecordInv
  /\ ConsumedInv /\ OnRelayersSide
  /\ disturbances = 0 /\ reorgs = 0 => WatchedInv /\ SteadyInv

LEMMA QuietInductive ==
  ASSUME NullifiersAreOwn
  PROVE  RelaySpec => []QuietInv
<1>1. RelayInit => QuietInv
  BY OnRecordInit, NothingToWatch, SteadyInit DEF QuietInv
<1>2. RelayInv /\ QuietInv /\ [RelayNext]_vars => QuietInv'
  <2> SUFFICES ASSUME RelayInv, QuietInv, [RelayNext]_vars PROVE QuietInv'
    OBVIOUS
  <2>1. disturbances' = 0 => disturbances = 0 /\ ~Disturb
    BY NoDisturbance DEF RelayInv
  <2>2. disturbances' = 0 => OnRecordInv'
    BY <2>1, TableIsKept, OnRecordStep DEF QuietInv, NullifiersAreOwn, RelayInv
  <2>3. ConsumedInv' /\ OnRelayersSide'
    BY ConsumedStep, RelayCallsStore, WaysToFail DEF OnRelayersSide, RelayInv, QuietInv
  <2>4. ASSUME disturbances' = 0, reorgs' = 0 PROVE WatchedInv' /\ SteadyInv'
    <3>1. reorgs = 0 /\ ~Reorg
      BY <2>4, SpentInNoReorg DEF RelayInv, Reorg
    <3>2. /\ ~Disturb /\ StillInv /\ ConsumedInv /\ disturbances = 0
      BY <2>1, <2>4, <3>1 DEF QuietInv, StillInv
    <3>3. WatchedInv'
      BY <2>4, <3>2, TableIsKept, UndisturbedKeepsBroadcasts, WatchedStep
         DEF StillInv, NullifiersAreOwn, RelayInv
    <3>4. SteadyInv'
      BY <3>1, <3>2, SteadyStep
    <3>5. QED
      BY <3>3, <3>4
  <2>5. QED
    BY <2>2, <2>3, <2>4 DEF QuietInv
<1>3. QED
  BY <1>1, <1>2, RelayInductive, PTL DEF RelaySpec

\* A job that has failed stays unsettled on chain, for any number of relayers,
\* evictions, replacements and owner's changes, until a call fails, a process
\* dies, a lease runs out under a relayer or the chain takes back a block. What
\* it takes is that nothing of the job's is pending when it fails: a relayer
\* that gives up before its broadcast has found nothing on record, and one
\* whose transaction reverted has nothing else in its account.
THEOREM FailedJobsStayUnsettled ==
  ASSUME NullifiersAreOwn
  PROVE  RelaySpec => [](disturbances = 0 /\ reorgs = 0 => FailedIsNotSettled)
<1>1. QuietInv => (disturbances = 0 /\ reorgs = 0 => FailedIsNotSettled)
  BY DEF QuietInv, SteadyInv, FailedIsNotSettled
<1>2. QED
  BY <1>1, QuietInductive, PTL
-----------------------------------------------------------------------------
(* One nonce for each settlement.                                           *)

\* What is sent, is sent for a job with no settlement on record or in the slot
\* of the one that is.
LEMMA SendsInOneSlot ==
  ASSUME StillInv, [RelayNext]_vars, ~Disturb, ~Reorg,
         NEW t \in pool' \ pool, NEW i \in RowsOf(t.call), Live(i)
  PROVE  SameSlot(t, settlements[i].tx)
<1>1. RelayInv /\ OnRecordInv /\ SteadyInv /\ RelayersOK
  BY DEF StillInv, RelayInv
<1>2. ASSUME NEW u, Send(u) PROVE t = u
  BY <1>2 DEF Send
<1>3. ASSUME NEW r \in Relayer, Broadcast(r) PROVE FALSE
  <2>1. t.call = JobOf(r) /\ pc[r] = "sending"
    BY <1>2, <1>3 DEF Broadcast, FirstOffer, At
  <2>2. \A k \in RowsOf(JobOf(r)) : ~Live(k)
    BY <1>1, <2>1 DEF OnRecordInv, RowAtHand
  <2>3. QED
    BY <2>1, <2>2
<1>4. ASSUME NEW r \in Relayer, CrossGap(r) PROVE FALSE
  BY <1>1, <1>4 DEF CrossGap, At, SteadyInv, SlotOK
<1>5. ASSUME NEW r \in Relayer, Bump(r) PROVE SameSlot(t, settlements[i].tx)
  <2>1. pc[r] = "tracking" /\ t = Raised(r) /\ t.call = JobOf(r)
    BY <1>1, <1>2, <1>5, RaisedIsTx DEF Bump, Stuck, At
  <2>2. work[r].tx \in Tx /\ work[r].tx.from = r
    BY <1>1, <2>1 DEF RelayersOK, AttemptOK, Following, SteadyInv, SlotOK, Awaits
  <2>3. SameSlot(t, work[r].tx)
    BY <2>1, <2>2 DEF Raised, SameSlot, Tx
  <2>4. i = Latest(JobOf(r))
    BY <1>1, <2>1 DEF OnRecordInv, LiveSettlementIsLatest, RowsOf
  <2>5. settlements[i].tx = work[r].tx
    BY <1>1, <2>1, <2>4 DEF OnRecordInv, RowAtHand, Following
  <2>6. QED
    BY <2>3, <2>5
<1>6. ASSUME Network \/ Administration \/ UNCHANGED chain PROVE FALSE
  BY <1>6 DEF Network, NewBlock, Mine, Evict, Administration, RegisterCircuit, SetRelayer,
     chain
<1>7. QED
  BY <1>3, <1>4, <1>5, <1>6, WhoMovesTheChain

\* Whatever is sent for a job with a live settlement is a replacement of it, for
\* any number of relayers, evictions and owner's changes, in every step up to the
\* first disturbance or reorg: no second nonce races the first, and no relayer
\* finds itself behind a gap in its own nonces.
THEOREM OneNonceUntilDisturbed ==
  ASSUME NullifiersAreOwn
  PROVE  RelaySpec => [][disturbances' = 0 /\ reorgs' = 0 => SendsOnlyReplacements]_vars
<1>1. RelayInv /\ QuietInv /\ [RelayNext]_vars
        => [disturbances' = 0 /\ reorgs' = 0 => SendsOnlyReplacements]_vars
  <2> SUFFICES ASSUME RelayInv, QuietInv, [RelayNext]_vars,
                      disturbances' = 0, reorgs' = 0
               PROVE  SendsOnlyReplacements
    OBVIOUS
  <2>1. disturbances = 0 /\ ~Disturb
    BY NoDisturbance DEF RelayInv
  <2>2. reorgs = 0 /\ ~Reorg
    BY SpentInNoReorg DEF RelayInv, Reorg
  <2>3. StillInv
    BY <2>1, <2>2 DEF QuietInv, StillInv
  <2>4. QED
    BY <2>1, <2>2, <2>3, SendsInOneSlot DEF SendsOnlyReplacements
<1>2. QED
  BY <1>1, RelayInductive, QuietInductive, PTL DEF RelaySpec

\* So a run that is never disturbed and sees no reorg spends one nonce on every
\* settlement, replacements included, as long as that nonce can be mined.
THEOREM UndisturbedSpendOneNonce ==
  ASSUME NullifiersAreOwn
  PROVE  RelaySpec /\ [](disturbances = 0 /\ reorgs = 0) => OneNoncePerSettlement
<1> DEFINE Quiet == disturbances = 0 /\ reorgs = 0
           Careful == disturbances' = 0 /\ reorgs' = 0 => SendsOnlyReplacements
<1>1. RelaySpec => [][Careful]_vars
  BY OneNonceUntilDisturbed
<1>2. Quiet' /\ [Careful]_vars => [SendsOnlyReplacements]_vars
  OBVIOUS
<1> HIDE DEF Quiet, Careful
<1>3. RelaySpec /\ []Quiet => [][SendsOnlyReplacements]_vars
  BY <1>1, <1>2, PTL
<1>4. QED
  BY <1>3 DEF Quiet, OneNoncePerSettlement
-----------------------------------------------------------------------------
(* One nonce for each settlement, while the table is kept.                  *)

LEMMA GapStaysOpenStep ==
  ASSUME ChainInv, RelayersOK, MinedInOrder, GapStaysOpen, [RelayNext]_vars
  PROVE  GapStaysOpen'
<1> SUFFICES ASSUME NEW q \in Relayer, pc'[q] = "gap"
             PROVE  PendingNonce(q)' < work'[q].tx.nonce
  BY DEF GapStaysOpen, At, BehindGap
<1>1. ChainInv'
  BY ChainStep
<1>2. PendingNonce(q) \in Nat
  BY PendingNonceIsFree
<1>3. PendingNonce(q)' \in Nat
  BY <1>1, PendingNonceTypeNext
<1>4. CASE Acts(q)
  <2>1. SeeGap(q)
    <3>1. ~\E place \in Places \ {"gap"} : GoTo(q, place)
      BY DEF GoTo, RelayersOK
    <3>2. ASSUME Check(q) \/ LookIntoRevert(q) PROVE FALSE
      <4>1. \A kind : ~FailAttempt(q, kind)
        BY <3>1, FailAttemptRests DEF Rest, Places
      <4>2. QED
        BY <3>1, <3>2, <4>1 DEF Check, LookIntoRevert, ExplainRevert, TryLater, Places
    <3>3. ASSUME \/ \E j \in Job : Take(q, j)
                 \/ Resume(q) \/ StartFresh(q) \/ Broadcast(q) \/ NoteBroadcast(q)
                 \/ SeeMined(q) \/ CrossGap(q) \/ CrossGapFails(q) \/ Bump(q)
                 \/ NoteResend(q)
          PROVE  FALSE
      BY <3>1, <3>3 DEF Take, Resume, StartFresh, Broadcast, NoteBroadcast, SeeMined,
         CrossGap, CrossGapFails, Bump, NoteResend, Places
    <3>4. QED
      BY <1>4, <3>2, <3>3, OwnActs
  <2>2. UNCHANGED chain /\ work' = work /\ BehindGap(q)
    BY <2>1 DEF SeeGap
  <2>3. PendingNonce(q)' <= PendingNonce(q)
    BY <1>1, <2>2, PendingNonceNeverRises
  <2>4. work[q].tx.nonce \in Nat
    BY <2>1 DEF SeeGap, Stuck, RelayersOK, AttemptOK, At, Following, Tx
  <2>5. QED
    BY <1>2, <1>3, <2>2, <2>3, <2>4 DEF BehindGap
<1>5. CASE ~Acts(q)
  <2>1. pc[q] = "gap" /\ work'[q] = work[q]
    BY <1>5, OthersStay
  <2>2. PendingNonce(q) < work[q].tx.nonce /\ work[q].tx.nonce \in Nat
    BY <2>1 DEF GapStaysOpen, At, BehindGap, RelayersOK, AttemptOK, Following, Tx
  <2>3. ASSUME NEW r \in Relayer, NEW t \in Tx, SendsItsOwn(r, t) PROVE Send(t) /\ t.from # q
    <3>1. Send(t) /\ t.from = r /\ (r = q => CrossGap(q) \/ CrossGapFails(q))
      BY <2>1, <2>3 DEF SendsItsOwn, At
    <3>2. ~CrossGap(q) /\ ~CrossGapFails(q)
      BY <1>5 DEF Acts, Progress
    <3>3. QED
      BY <3>1, <3>2
  <2>4. PendingNonce(q)' <= PendingNonce(q)
    BY <1>1, <2>3, OnlyRelayersSend, PendingNonceNeverRises
  <2>5. QED
    BY <1>2, <1>3, <2>1, <2>2, <2>4
<1>6. QED
  BY <1>4, <1>5

\* What is known of the order of nonces, whatever fails.
NoncesInOrder == MinedInOrder /\ GapStaysOpen

LEMMA NoncesInOrderInit == RelayInit => NoncesInOrder
<1> SUFFICES ASSUME RelayInit PROVE NoncesInOrder
  OBVIOUS
<1>1. MinedInOrder
  BY NoBlocks DEF MinedInOrder
<1>2. GapStaysOpen
  BY DEF RelayInit, GapStaysOpen, At
<1>3. QED
  BY <1>1, <1>2 DEF NoncesInOrder

LEMMA NoncesInOrderStep ==
  ASSUME RelayInv, NoncesInOrder, [RelayNext]_vars
  PROVE  NoncesInOrder'
<1>1. Network \/ UNCHANGED ledger
  BY OnlyRelayersSend DEF RelayInv, SendsItsOwn, Send, Administration, RegisterCircuit,
     SetRelayer, chain
<1>2. MinedInOrder'
  BY <1>1, OrderStep DEF RelayInv, NoncesInOrder
<1>3. GapStaysOpen'
  BY GapStaysOpenStep DEF RelayInv, NoncesInOrder
<1>4. QED
  BY <1>2, <1>3 DEF NoncesInOrder

LEMMA NoncesInOrderHolds == RelaySpec => []NoncesInOrder
BY NoncesInOrderInit, NoncesInOrderStep, RelayInductive, PTL DEF RelaySpec

\* A relayer that has found its transaction behind a gap in its nonces acts on
\* what is still so, whatever happens between reading the account's count and
\* the resend: any blocks, reorgs, evictions, crashes, lost answers and sends
\* of other relayers. A reorg returns to the pool only nonces below all that
\* was mined, an eviction only opens gaps, and no one else sends from this
\* account.
THEOREM GapsStayOpen == RelaySpec => []GapStaysOpen
BY NoncesInOrderHolds, PTL DEF NoncesInOrder

\* SendsOnlyReplacements, between transactions of one account.
SendsOnlyOwnReplacements ==
  \A t \in pool' \ pool : reorgs' = reorgs =>
    \A i \in RowsOf(t.call) :
      LET u == settlements[i].tx
      IN /\ Live(i) /\ u \in pool /\ u.from = t.from
         /\ u.nonce < PendingNonce(u.from)
         => SameSlot(t, u)

LEMMA SendsOwnReplacements ==
  ASSUME RelayInv, OnRecordInv, NoncesInOrder, [RelayNext]_vars
  PROVE  SendsOnlyOwnReplacements
<1> SUFFICES ASSUME NEW t \in pool' \ pool, reorgs' = reorgs, NEW i \in RowsOf(t.call),
                    Live(i), settlements[i].tx \in pool, settlements[i].tx.from = t.from,
                    settlements[i].tx.nonce < PendingNonce(t.from)
             PROVE  SameSlot(t, settlements[i].tx)
  BY DEF SendsOnlyOwnReplacements
<1>1. RelayersOK /\ ChainInv
  BY DEF RelayInv
<1>2. ~Network /\ ~Administration /\ ~UNCHANGED chain
  <2>1. reorgs \in Nat
    BY <1>1, ChainAssumption DEF ChainInv, ChainTypeOK
  <2>2. ~Reorg
    BY <2>1 DEF Reorg
  <2>3. QED
    BY <2>2 DEF Network, NewBlock, Mine, Evict, Administration, RegisterCircuit, SetRelayer,
       chain
<1>3. PICK r \in Relayer : SendsItsOwn(r, t)
  <2>1. PICK r \in Relayer, u \in Tx : SendsItsOwn(r, u)
    BY <1>1, <1>2, OnlyRelayersSend
  <2>2. t = u
    BY <2>1 DEF SendsItsOwn, Send
  <2>3. QED
    BY <2>1, <2>2
<1>4. t.from = r /\ i \in RowsOf(JobOf(r))
  BY <1>3 DEF SendsItsOwn
<1>5. ~At(r, "sending")
  BY <1>1, <1>4 DEF OnRecordInv, RowAtHand, At
<1>6. pc[r] \in {"tracking", "gap"}
  BY <1>3, <1>5 DEF SendsItsOwn, At
<1>7. i = Latest(JobOf(r))
  BY <1>1, <1>4 DEF OnRecordInv, LiveSettlementIsLatest, RowsOf
<1>8. settlements[i].tx = work[r].tx
  BY <1>1, <1>6, <1>7 DEF OnRecordInv, RowAtHand, Following
<1>9. ~At(r, "gap")
  <2>1. SUFFICES ASSUME At(r, "gap") PROVE FALSE
    OBVIOUS
  <2>2. PendingNonce(r) < work[r].tx.nonce /\ PendingNonce(r) \in Nat
    BY <1>1, <2>1, PendingNonceIsFree DEF NoncesInOrder, GapStaysOpen, BehindGap
  <2>3. work[r].tx.nonce \in Nat
    BY <1>1, <2>1 DEF RelayersOK, AttemptOK, At, Following, Tx
  <2>4. QED
    BY <1>4, <1>8, <2>2, <2>3
<1>10. t.nonce = work[r].tx.nonce
  BY <1>3, <1>5, <1>9 DEF SendsItsOwn
<1>11. QED
  BY <1>8, <1>10 DEF SameSlot

\* While the table is kept, no account ever sends a job's call under a second
\* nonce beside one of its own that can still be mined: for any number of
\* relayers, crashes, failed calls, lost answers, reorgs, evictions and owner's
\* changes, and in every step but a reorg, which may bring back to the pool what
\* an account had sent before. A relayer resends under a new nonce only behind a
\* gap, and a gap does not close behind its back: what a reorg returns has a
\* nonce below all that was mined since.
THEOREM RecordedAccountsSpendOneNonce ==
  ASSUME TableKept, NullifiersAreOwn
  PROVE  RelaySpec => [][SendsOnlyOwnReplacements]_vars
<1>1. RelayInv /\ OnRecordInv /\ [RelayNext]_vars => OnRecordInv'
  BY TableIsKept, OnRecordStep DEF NullifiersAreOwn, RelayInv
<1>2. RelayInv /\ OnRecordInv /\ NoncesInOrder /\ [RelayNext]_vars
        => [SendsOnlyOwnReplacements]_vars
  BY SendsOwnReplacements
<1>3. QED
  BY <1>1, <1>2, OnRecordInit, NoncesInOrderHolds, RelayInductive, PTL
     DEF RelaySpec

\* With one relayer there is only one account to send from, so every settlement
\* is sent under one nonce at a time. With more, the relayer that takes over a
\* job may replace another's transaction from an account of its own, whatever is
\* kept.
THEOREM OneRelayerSpendsOneNonce ==
  ASSUME TableKept, NullifiersAreOwn, \A r, s \in Relayer : r = s
  PROVE  RelaySpec => OneNoncePerSettlement
<1>1. RelayInv /\ SendsOnlyOwnReplacements /\ [RelayNext]_vars => SendsOnlyReplacements
  <2> SUFFICES ASSUME RelayInv, SendsOnlyOwnReplacements, [RelayNext]_vars,
                      NEW t \in pool' \ pool, reorgs' = reorgs, NEW i \in RowsOf(t.call),
                      Live(i), settlements[i].tx \in pool,
                      settlements[i].tx.nonce < PendingNonce(settlements[i].tx.from)
               PROVE  SameSlot(t, settlements[i].tx)
    BY DEF SendsOnlyReplacements
  <2>1. pool \subseteq Tx /\ pool' \subseteq Tx
    BY ChainStep DEF RelayInv, ChainInv, ChainTypeOK
  <2>2. settlements[i].tx.from = t.from
    BY <2>1, RelayAssumption DEF Tx
  <2>3. QED
    BY <2>2 DEF SendsOnlyOwnReplacements
<1>2. RelayInv /\ [SendsOnlyOwnReplacements]_vars /\ [RelayNext]_vars
        => [SendsOnlyReplacements]_vars
  BY <1>1
<1>3. RelaySpec => [][SendsOnlyReplacements]_vars
  BY <1>2, RelayInductive, RecordedAccountsSpendOneNonce, PTL DEF RelaySpec
<1>4. QED
  BY <1>3 DEF OneNoncePerSettlement
=============================================================================
