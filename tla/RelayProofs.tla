----------------------------- MODULE RelayProofs -----------------------------
(* Theorems about the relayers, for any number of relayers, jobs, accounts, *)
(* disturbances, reorgs, evictions and owner's changes.                     *)
EXTENDS Relay, JobStoreProofs, ChainProofs

Places == {"idle", "taken", "checking", "sending", "sent", "tracking", "gap",
           "resent", "reverted", "deep", "elsewhere"}

\* The places where a relayer follows a transaction.
Following == {"tracking", "gap", "resent", "reverted", "deep"}

\* What a relayer holds fits where it is, and is about its job.
AttemptOK(r) ==
  /\ At(r, "idle") => work[r] = NoAttempt
  /\ ~At(r, "idle") => JobOf(r) \in Job
  /\ pc[r] \in Following => work[r].tx \in Tx /\ work[r].tx.call = JobOf(r)
  /\ pc[r] \in {"sent", "resent"} => work[r].sent \in Tx /\ work[r].sent.call = JobOf(r)

\* The settlements table names transactions of its rows' own jobs.
TableOK ==
  /\ settlements \in Seq(Row)
  /\ \A i \in Rows : settlements[i].tx.call = settlements[i].job

RelayersOK ==
  /\ pc \in [Relayer -> Places]
  /\ work \in [Relayer -> Attempt]
  /\ nonce \in [Relayer -> Nat \cup {Nothing}]
  /\ noticed \in [Relayer -> [job : Job, tx : Tx] \cup {Nothing}]
  /\ disturbances \in 0..Disturbances
  /\ \A r \in Relayer : AttemptOK(r)

RelayInv == TypeOK /\ RowRules /\ ChainInv /\ TableOK /\ RelayersOK
-----------------------------------------------------------------------------
(* The settlements table.                                                   *)

LEMMA RowsAre ==
  ASSUME TableOK
  PROVE  /\ Len(settlements) \in Nat /\ Rows = 1..Len(settlements)
         /\ \A i \in Rows : settlements[i] \in Row
<1>1. Len(settlements) \in Nat /\ Rows = 1..Len(settlements)
  BY LenProperties DEF TableOK, Rows
<1>2. QED
  BY <1>1, ElementOfSeq DEF TableOK

\* A job with settlements has a latest one.
LEMMA LatestIsLast ==
  ASSUME TableOK, NEW j, RowsOf(j) # {}
  PROVE  Latest(j) \in RowsOf(j) /\ \A k \in RowsOf(j) : k <= Latest(j)
<1> DEFINE n == Len(settlements)
           S == {m \in 1..n : n + 1 - m \in RowsOf(j)}
<1>1. n \in Nat /\ RowsOf(j) \subseteq 1..n
  BY RowsAre DEF RowsOf
<1>2. PICK i \in RowsOf(j) : TRUE
  OBVIOUS
<1>3. n + 1 - i \in (1..n) \cap S
  BY <1>1, <1>2
<1>4. PICK k \in (1..n) \cap S : \A l \in 1..n : l < k => l \notin S
  <2> HIDE DEF S
  <2>1. (1..n) \cap S # {}
    BY <1>3
  <2>2. QED
    BY <1>1, <2>1, LeastBetween
<1>5. n + 1 - k \in RowsOf(j)
  BY <1>4
<1>6. \A l \in RowsOf(j) : l <= n + 1 - k
  <2> SUFFICES ASSUME NEW l \in RowsOf(j), ~(l <= n + 1 - k) PROVE FALSE
    OBVIOUS
  <2>1. n + 1 - l \in 1..n /\ n + 1 - l < k /\ n + 1 - (n + 1 - l) = l
    BY <1>1, <1>4
  <2>2. QED
    BY <1>4, <2>1
<1>7. \E m \in RowsOf(j) : \A l \in RowsOf(j) : l <= m
  BY <1>5, <1>6
<1>8. QED
  BY <1>7 DEF Latest

\* An update of rows one by one.
LEMMA RowwiseUpdate ==
  ASSUME TableOK, NEW f \in [Rows -> Row], settlements' = f,
         \A i \in Rows : f[i].job = settlements[i].job /\ f[i].tx.call = f[i].job
  PROVE  TableOK' /\ Rows' = Rows
<1>1. settlements' \in Seq(Row)
  BY RowsAre, SeqDef
<1>2. Rows' = Rows
  BY DEF Rows
<1>3. QED
  BY <1>1, <1>2 DEF TableOK

LEMMA RecordSubmissionTable ==
  ASSUME TableOK, NEW j \in Job, NEW t \in Tx, t.call = j, RecordSubmission(j, t)
  PROVE  /\ TableOK'
         /\ \/ /\ UNCHANGED settlements
               /\ \E i \in Rows : Live(i) /\ NullifierOf[settlements[i].job] = NullifierOf[j]
            \/ /\ Rows' = 1..(Len(settlements) + 1)
               /\ \A i \in Rows : settlements'[i] = settlements[i]
               /\ settlements'[Len(settlements) + 1] =
                    [job |-> j, tx |-> t, confirmed |-> FALSE, reorged |-> FALSE]
               /\ \A i \in Rows : Live(i) =>
                    NullifierOf[settlements[i].job] # NullifierOf[j]
<1> DEFINE row == [job |-> j, tx |-> t, confirmed |-> FALSE, reorged |-> FALSE]
           refused == \E i \in Rows :
             Live(i) /\ NullifierOf[settlements[i].job] = NullifierOf[j]
<1>1. row \in Row
  BY DEF Row
<1>2. CASE refused
  BY <1>2 DEF RecordSubmission, TableOK, Rows
<1>3. CASE ~refused
  <2>1. settlements' = Append(settlements, row)
    BY <1>3 DEF RecordSubmission
  <2> HIDE DEF row
  <2>2. /\ settlements' \in Seq(Row) /\ Len(settlements') = Len(settlements) + 1
        /\ settlements'[Len(settlements) + 1] = row
        /\ \A i \in 1..Len(settlements) : settlements'[i] = settlements[i]
    BY <1>1, <2>1, AppendProperties DEF TableOK
  <2>3. Rows' = 1..(Len(settlements) + 1)
    BY <2>2, LenProperties DEF Rows
  <2>4. row.job = j /\ row.tx.call = j
    BY DEF row
  <2>5. TableOK'
    <3>1. \A i \in Rows' : i \in Rows \/ i = Len(settlements) + 1
      BY <2>3, RowsAre
    <3>2. QED
      BY <2>2, <2>4, <3>1, RowsAre DEF TableOK
  <2>6. QED
    BY <1>3, <2>2, <2>3, <2>5, RowsAre DEF row
<1>4. QED
  BY <1>2, <1>3

LEMMA ReplaceTable ==
  ASSUME TableOK, NEW j \in Job, NEW t, NEW u \in Tx, u.call = j,
         ReplaceSubmissionTx(j, t, u)
  PROVE  /\ TableOK' /\ Rows' = Rows
         /\ \A i \in Rows :
              /\ settlements'[i].job = settlements[i].job
              /\ settlements'[i].reorged = settlements[i].reorged
              /\ settlements'[i].tx =
                   IF settlements[i].job = j /\ settlements[i].tx = t /\ Live(i)
                     THEN u ELSE settlements[i].tx
              /\ settlements[i].job # j => settlements'[i] = settlements[i]
<1>1. \A i \in Rows : settlements[i] \in Row
  BY RowsAre
<1> DEFINE f == [i \in Rows |->
    IF settlements[i].job = j /\ settlements[i].tx = t /\ Live(i)
      THEN [settlements[i] EXCEPT !.tx = u] ELSE settlements[i]]
<1>2. settlements' = f
  BY DEF ReplaceSubmissionTx
<1>3. \A i \in Rows :
        /\ f[i].job = settlements[i].job /\ f[i].reorged = settlements[i].reorged
        /\ f[i].tx = IF settlements[i].job = j /\ settlements[i].tx = t /\ Live(i)
                       THEN u ELSE settlements[i].tx
        /\ settlements[i].job # j => f[i] = settlements[i]
  BY <1>1 DEF Row
<1>4. f \in [Rows -> Row]
  BY <1>1 DEF Row
<1>5. \A i \in Rows : f[i].tx.call = f[i].job
  BY <1>3 DEF TableOK
<1> HIDE DEF f
<1>6. QED
  BY <1>2, <1>3, <1>4, <1>5, RowwiseUpdate

LEMMA ConfirmTable ==
  ASSUME TableOK, NEW j, NEW t, ConfirmSettlement(j, t)
  PROVE  /\ TableOK' /\ Rows' = Rows
         /\ \A i \in Rows :
              /\ settlements'[i].job = settlements[i].job
              /\ settlements'[i].reorged = settlements[i].reorged
              /\ settlements'[i].tx = settlements[i].tx
              /\ settlements[i].job # j => settlements'[i] = settlements[i]
<1>1. \A i \in Rows : settlements[i] \in Row
  BY RowsAre
<1> DEFINE f == [i \in Rows |->
    IF settlements[i].job = j /\ settlements[i].tx = t /\ Live(i)
      THEN [settlements[i] EXCEPT !.confirmed = TRUE] ELSE settlements[i]]
<1>2. settlements' = f
  BY DEF ConfirmSettlement
<1>3. \A i \in Rows :
        /\ f[i].job = settlements[i].job /\ f[i].reorged = settlements[i].reorged
        /\ f[i].tx = settlements[i].tx
        /\ settlements[i].job # j => f[i] = settlements[i]
  BY <1>1 DEF Row
<1>4. f \in [Rows -> Row]
  BY <1>1 DEF Row
<1>5. \A i \in Rows : f[i].tx.call = f[i].job
  BY <1>3 DEF TableOK
<1> HIDE DEF f
<1>6. QED
  BY <1>2, <1>3, <1>4, <1>5, RowwiseUpdate

LEMMA ReorgTable ==
  ASSUME TableOK, NEW j, NEW t, RecordReorg(j, t)
  PROVE  /\ TableOK' /\ Rows' = Rows
         /\ \A i \in Rows :
              /\ settlements'[i].job = settlements[i].job
              /\ settlements'[i].tx = settlements[i].tx
              /\ settlements[i].reorged => settlements'[i].reorged
              /\ settlements[i].job # j => settlements'[i] = settlements[i]
<1>1. \A i \in Rows : settlements[i] \in Row
  BY RowsAre
<1> DEFINE f == [i \in Rows |->
    IF settlements[i].job = j /\ settlements[i].tx = t
      THEN [settlements[i] EXCEPT !.reorged = TRUE, !.confirmed = FALSE]
      ELSE settlements[i]]
<1>2. settlements' = f
  BY DEF RecordReorg
<1>3. \A i \in Rows :
        /\ f[i].job = settlements[i].job /\ f[i].tx = settlements[i].tx
        /\ settlements[i].reorged => f[i].reorged
        /\ settlements[i].job # j => f[i] = settlements[i]
  BY <1>1 DEF Row
<1>4. f \in [Rows -> Row]
  BY <1>1 DEF Row
<1>5. \A i \in Rows : f[i].tx.call = f[i].job
  BY <1>3 DEF TableOK
<1> HIDE DEF f
<1>6. QED
  BY <1>2, <1>3, <1>4, <1>5, RowwiseUpdate
-----------------------------------------------------------------------------
(* What a step does to the store and to the chain.                          *)

\* What a relayer must have seen to give up its job for good.
Condemns(r) ==
  \/ JobOf(r) \notin Sound
  \/ At(r, "reverted") /\ ~NullifierUsed(JobOf(r))

\* The calls that a step of the relay may make on the jobs table.
StoreCall ==
  \/ UNCHANGED columns
  \/ \E r \in Relayer, j \in Job : LeaseNextProved(j, r) \/ RenewLease(j, r)
  \/ \E r \in Relayer, kind \in FailureKinds :
       /\ JobOf(r) \in Job /\ (kind = "permanent" => Condemns(r))
       /\ RecordSubmissionFailure(JobOf(r), kind)
  \/ \E r \in Relayer :
       JobOf(r) \in Job /\ pc[r] \in {"deep", "elsewhere"} /\ ConfirmSettled(JobOf(r))
  \/ \E j \in Job : \/ UnwindSettled(j) \/ ReleaseLease(j)
                    \/ LeaseRunsOut(j) \/ RetryComesDue(j)
  \/ \E rows \in SUBSET Expired : ReapExpired(rows)

LEMMA FailAttemptCalls ==
  ASSUME NEW r \in Relayer, NEW kind \in FailureKinds, JobOf(r) \in Job,
         kind = "permanent" => Condemns(r), FailAttempt(r, kind)
  PROVE  StoreCall
BY DEF FailAttempt, StoreCall

LEMMA AttemptHasJob ==
  ASSUME RelayersOK, NEW r \in Relayer, ~At(r, "idle")
  PROVE  JobOf(r) \in Job
BY DEF RelayersOK, AttemptOK

LEMMA RelayCallsStore == ASSUME RelayersOK, [RelayNext]_vars PROVE StoreCall
<1>1. ASSUME NEW r \in Relayer, NEW j \in Job, Take(r, j) PROVE StoreCall
  BY <1>1 DEF Take, StoreCall
<1>2. ASSUME NEW r \in Relayer, At(r, "checking"), Check(r) PROVE StoreCall
  BY <1>2, FailAttemptCalls, AttemptHasJob DEF Check, TryLater, FailureKinds, StoreCall, At,
     Condemns
<1>3. ASSUME NEW r \in Relayer,
             \/ NodeFails(r) \/ BroadcastRefused(r) \/ BroadcastAnswerLost(r)
             \/ SeeOrphaned(r)
      PROVE  StoreCall
  BY <1>3, FailAttemptCalls, AttemptHasJob DEF NodeFails, BroadcastRefused,
     BroadcastAnswerLost, SeeOrphaned, TryLater, FailureKinds, At
<1>4. ASSUME NEW r \in Relayer, LookIntoRevert(r) PROVE StoreCall
  BY <1>4, FailAttemptCalls, AttemptHasJob DEF LookIntoRevert, ExplainRevert, FailureKinds,
     StoreCall, At, Condemns
<1>5. ASSUME NEW r \in Relayer, Confirm(r) \/ MarkSettledElsewhere(r) PROVE StoreCall
  BY <1>5, AttemptHasJob DEF Confirm, MarkSettledElsewhere, ConfirmSettlement, StoreCall, At
<1>6. ASSUME NEW r \in Relayer, Renew(r) \/ Restart(r) PROVE StoreCall
  BY <1>6, AttemptHasJob DEF Renew, Restart, StoreCall, At
<1>7. ASSUME NEW r \in Relayer, Unwind(r) PROVE StoreCall
  BY <1>7 DEF Unwind, RecordReorg, StoreCall, RelayersOK
<1>8. ASSUME NEW r \in Relayer,
             \/ Resume(r) \/ StartFresh(r) \/ Broadcast(r) \/ NoteBroadcast(r)
             \/ SeeMined(r) \/ SeeGap(r) \/ CrossGap(r) \/ Bump(r) \/ NoteResend(r)
             \/ LeaseLost(r) \/ Notice(r) \/ BumpAnswerLost(r) \/ CrossGapFails(r)
             \/ WriteFails(r)
      PROVE  UNCHANGED columns
  BY <1>8 DEF Resume, StartFresh, Broadcast, NoteBroadcast, SeeMined, SeeGap, CrossGap,
     Bump, NoteResend, LeaseLost, Notice, BumpAnswerLost, CrossGapFails, WriteFails
<1>9. ASSUME NEW j \in Job, TimePasses(j) PROVE StoreCall
  BY <1>9 DEF TimePasses, StoreCall
<1>10. CASE Reap
  BY <1>10 DEF Reap, StoreCall
<1>11. CASE (Network \/ Administration) /\ UNCHANGED <<columns, settlements, relayers>>
  BY <1>11 DEF StoreCall
<1>12. CASE UNCHANGED vars
  BY <1>12 DEF vars, StoreCall
<1>13. ASSUME NEW r \in Relayer, Check(r) PROVE At(r, "checking")
  BY <1>13 DEF Check
<1>14. UNCHANGED columns => StoreCall
  BY DEF StoreCall
<1>15. QED
  BY <1>1, <1>2, <1>3, <1>4, <1>5, <1>6, <1>7, <1>8, <1>9, <1>10, <1>11, <1>12, <1>13,
     <1>14 DEF RelayNext, Progress, Watch

\* The relay is one of the callers that the store is specified for.
LEMMA StoreCallsAreSteps == ASSUME StoreCall PROVE [Next]_columns
<1>1. Relayer \subseteq Actor
  BY RelayAssumption
<1>2. SUBSET Expired \subseteq SUBSET Job
  BY DEF Expired
<1>3. QED
  BY <1>1, <1>2 DEF StoreCall, Next, ServiceNext

\* What a relayer may send: a transaction of its own, for its job.
Sends(r) == \E t \in Tx : Send(t) /\ t.call = JobOf(r)

LEMMA NonceForIsNonce ==
  ASSUME ChainInv, RelayersOK, NEW r \in Relayer
  PROVE  NonceFor(r) \in Nat
BY PendingNonceIsFree DEF NonceFor, RelayersOK

LEMMA FirstOfferIsTx ==
  ASSUME ChainInv, RelayersOK, NEW r \in Relayer, JobOf(r) \in Job
  PROVE  FirstOffer(r) \in Tx /\ FirstOffer(r).call = JobOf(r)
<1>1. 1 \in 1..MaxPrice
  BY ChainAssumption
<1>2. QED
  BY <1>1, NonceForIsNonce, RelayAssumption DEF FirstOffer, Tx

LEMMA RaisedIsTx ==
  ASSUME RelayersOK, NEW r \in Relayer, At(r, "tracking"), UnderCeiling(r)
  PROVE  Raised(r) \in Tx /\ Raised(r).call = JobOf(r)
<1>1. work[r].tx \in Tx /\ work[r].tx.call = JobOf(r)
  BY DEF RelayersOK, AttemptOK, At, Following
<1>2. work[r].tx.price + 1 \in 1..MaxPrice
  BY <1>1, ChainAssumption DEF UnderCeiling, Tx
<1>3. QED
  BY <1>1, <1>2, RelayAssumption DEF Raised, Tx

LEMMA CrossingIsTx ==
  ASSUME ChainInv, RelayersOK, NEW r \in Relayer, At(r, "gap")
  PROVE  /\ Crossing(r) \in Tx
         /\ Crossing(r).call = JobOf(r) /\ Crossing(r).from = r
<1>1. work[r].tx \in Tx /\ work[r].tx.call = JobOf(r)
  BY DEF RelayersOK, AttemptOK, At, Following
<1>2. QED
  BY <1>1, NonceForIsNonce, RelayAssumption DEF Crossing, Tx

\* Whose transaction a step sends, and from where in its loop.
SendsItsOwn(r, t) ==
  /\ Send(t) /\ t.from = r /\ t.call = JobOf(r)
  /\ \/ At(r, "sending")
     \/ At(r, "tracking") /\ t.nonce = work[r].tx.nonce
     \/ At(r, "gap") /\ (CrossGap(r) \/ CrossGapFails(r))

LEMMA OnlyRelayersSend ==
  ASSUME ChainInv, RelayersOK, [RelayNext]_vars
  PROVE  \/ Network \/ Administration \/ UNCHANGED chain
         \/ \E r \in Relayer, t \in Tx : SendsItsOwn(r, t)
<1>1. ASSUME NEW r \in Relayer, Broadcast(r) \/ BroadcastAnswerLost(r)
      PROVE  SendsItsOwn(r, FirstOffer(r)) /\ FirstOffer(r) \in Tx
  <2>1. JobOf(r) \in Job /\ At(r, "sending") /\ Send(FirstOffer(r))
    BY <1>1, AttemptHasJob DEF Broadcast, BroadcastAnswerLost, At
  <2>2. FirstOffer(r) \in Tx
    BY <2>1, FirstOfferIsTx
  <2>3. FirstOffer(r).from = r /\ FirstOffer(r).call = JobOf(r)
    BY DEF FirstOffer
  <2>4. QED
    BY <2>1, <2>2, <2>3 DEF SendsItsOwn
<1>2. ASSUME NEW r \in Relayer, Bump(r) \/ BumpAnswerLost(r)
      PROVE  SendsItsOwn(r, Raised(r)) /\ Raised(r) \in Tx
  <2>1. At(r, "tracking") /\ Send(Raised(r)) /\ UnderCeiling(r)
    BY <1>2 DEF Bump, BumpAnswerLost, Stuck
  <2>2. Raised(r) \in Tx /\ Raised(r).call = JobOf(r)
    BY <2>1, RaisedIsTx
  <2>3. work[r].tx \in Tx
    BY <2>1 DEF RelayersOK, AttemptOK, At, Following
  <2>4. Raised(r).from = r /\ Raised(r).nonce = work[r].tx.nonce
    BY <2>3 DEF Raised, Tx
  <2>5. QED
    BY <2>1, <2>2, <2>4 DEF SendsItsOwn
<1>3. ASSUME NEW r \in Relayer, CrossGap(r) \/ CrossGapFails(r)
      PROVE  \/ UNCHANGED chain
             \/ SendsItsOwn(r, Crossing(r)) /\ Crossing(r) \in Tx
  <2>1. At(r, "gap") /\ (UNCHANGED chain \/ Send(Crossing(r)))
    BY <1>3 DEF CrossGap, CrossGapFails
  <2>2. /\ Crossing(r) \in Tx
        /\ Crossing(r).call = JobOf(r) /\ Crossing(r).from = r
    BY <2>1, CrossingIsTx
  <2>3. QED
    BY <1>3, <2>1, <2>2 DEF SendsItsOwn
<1>4. ASSUME NEW r \in Relayer,
             \/ \E j \in Job : Take(r, j)
             \/ Resume(r) \/ StartFresh(r) \/ Check(r) \/ BroadcastRefused(r)
             \/ NoteBroadcast(r) \/ SeeMined(r) \/ SeeOrphaned(r) \/ SeeGap(r)
             \/ NoteResend(r) \/ LookIntoRevert(r) \/ Confirm(r)
             \/ MarkSettledElsewhere(r) \/ LeaseLost(r) \/ Notice(r) \/ Unwind(r)
             \/ Renew(r) \/ Restart(r) \/ NodeFails(r) \/ WriteFails(r)
      PROVE  UNCHANGED chain
  BY <1>4 DEF Take, Resume, StartFresh, Check, BroadcastRefused, NoteBroadcast, SeeMined,
     SeeOrphaned, SeeGap, NoteResend, LookIntoRevert, Confirm, MarkSettledElsewhere,
     LeaseLost, Notice, Unwind, Renew, Restart, NodeFails, WriteFails
<1>5. ASSUME (\E j \in Job : TimePasses(j)) \/ Reap \/ UNCHANGED vars PROVE UNCHANGED chain
  BY <1>5 DEF TimePasses, Reap, vars
<1>6. QED
  BY <1>1, <1>2, <1>3, <1>4, <1>5 DEF RelayNext, Progress, Watch

LEMMA RelayChainStep ==
  ASSUME ChainInv, RelayersOK, [RelayNext]_vars
  PROVE  \/ Network \/ Administration \/ UNCHANGED chain
         \/ \E r \in Relayer : Sends(r)
BY OnlyRelayersSend DEF SendsItsOwn, Sends

LEMMA ChainStep ==
  ASSUME ChainInv, RelayersOK, [RelayNext]_vars
  PROVE  ChainInv'
<1>1. UNCHANGED chain => ChainInv'
  BY DEF chain, owner, ChainInv, ChainTypeOK
<1>2. QED
  BY <1>1, RelayChainStep, NetworkKeepsTypes, AdministrationKeepsTypes, SendKeepsTypes
     DEF Sends
-----------------------------------------------------------------------------
(* The relayers' own state.                                                 *)

LEMMA Disturbed ==
  ASSUME RelayersOK, Disturb \/ UNCHANGED disturbances
  PROVE  disturbances' \in 0..Disturbances
BY RelayAssumption DEF RelayersOK, Disturb

\* At most one relayer moves in a step, and its move leaves what it holds fit
\* for where it is.
LEMMA OneRelayerMoves ==
  ASSUME RelayersOK, NEW r \in Relayer,
         NEW p \in Places, NEW a \in Attempt,
         pc' = [pc EXCEPT ![r] = p], work' = [work EXCEPT ![r] = a],
         nonce' \in [Relayer -> Nat \cup {Nothing}], UNCHANGED noticed,
         Disturb \/ UNCHANGED disturbances,
         p = "idle" => a = NoAttempt,
         p # "idle" => a.job \in Job,
         p \in Following => a.tx \in Tx /\ a.tx.call = a.job,
         p \in {"sent", "resent"} => a.sent \in Tx /\ a.sent.call = a.job
  PROVE  RelayersOK'
<1>1. pc' \in [Relayer -> Places] /\ work' \in [Relayer -> Attempt]
  BY DEF RelayersOK
<1>2. /\ pc'[r] = p /\ work'[r] = a
      /\ \A q \in Relayer \ {r} : pc'[q] = pc[q] /\ work'[q] = work[q]
  BY DEF RelayersOK
<1>3. AttemptOK(r)'
  BY <1>2 DEF AttemptOK, At, JobOf
<1>4. \A q \in Relayer \ {r} : AttemptOK(q)'
  BY <1>2 DEF RelayersOK, AttemptOK, At, JobOf
<1>5. QED
  BY <1>1, <1>3, <1>4, Disturbed DEF RelayersOK

LEMMA NoAttemptIsAttempt == NoAttempt \in Attempt
BY DEF NoAttempt, Attempt

\* The attempt ends.
LEMMA RestMoves ==
  ASSUME RelayersOK, NEW r \in Relayer, Rest(r),
         nonce' \in [Relayer -> Nat \cup {Nothing}], UNCHANGED noticed,
         Disturb \/ UNCHANGED disturbances
  PROVE  RelayersOK'
<1>1. pc' = [pc EXCEPT ![r] = "idle"] /\ work' = [work EXCEPT ![r] = NoAttempt]
  BY DEF Rest, GoTo
<1>2. "idle" \in Places /\ "idle" \notin Following
  BY DEF Places, Following
<1>3. QED
  BY <1>1, <1>2, NoAttemptIsAttempt, OneRelayerMoves

\* The relayer goes on to p with the attempt it has.
LEMMA GoesOn ==
  ASSUME RelayersOK, NEW r \in Relayer, ~At(r, "idle"), NEW p \in Places, GoTo(r, p),
         UNCHANGED <<work, noticed>>, nonce' \in [Relayer -> Nat \cup {Nothing}],
         Disturb \/ UNCHANGED disturbances,
         \/ p \notin Following /\ p # "idle" /\ p # "sent"
         \/ pc[r] \in Following /\ p \in Following \ {"resent"}
  PROVE  RelayersOK'
<1>1. work[r] \in Attempt /\ work' = [work EXCEPT ![r] = work[r]]
  BY DEF RelayersOK
<1>2. pc' = [pc EXCEPT ![r] = p] /\ "idle" \notin Following /\ "sent" \notin Following
  BY DEF GoTo, Following
<1>3. /\ work[r].job \in Job
      /\ pc[r] \in Following => work[r].tx \in Tx /\ work[r].tx.call = work[r].job
  BY DEF RelayersOK, AttemptOK, JobOf
<1>4. p # "resent" /\ p # "sent"
  BY <1>2 DEF Following
<1>5. QED
  BY <1>1, <1>2, <1>3, <1>4, OneRelayerMoves

LEMMA NonceKept == ASSUME RelayersOK, UNCHANGED nonce
                   PROVE  nonce' \in [Relayer -> Nat \cup {Nothing}]
BY DEF RelayersOK

LEMMA NonceDropped == ASSUME RelayersOK, NEW r \in Relayer, nonce' = [nonce EXCEPT ![r] = Nothing]
                      PROVE  nonce' \in [Relayer -> Nat \cup {Nothing}]
BY DEF RelayersOK

LEMMA NonceRead == ASSUME ChainInv, RelayersOK, NEW r \in Relayer,
                          nonce' = [nonce EXCEPT ![r] = NonceFor(r)]
                   PROVE  nonce' \in [Relayer -> Nat \cup {Nothing}]
BY NonceForIsNonce DEF RelayersOK

LEMMA NonceConsumed == ASSUME RelayersOK, NEW r \in Relayer, Consumed(r)
                       PROVE  nonce' \in [Relayer -> Nat \cup {Nothing}]
BY DEF RelayersOK, Consumed

LEMMA FailAttemptRests == ASSUME NEW r, NEW kind, FailAttempt(r, kind) PROVE Rest(r)
BY DEF FailAttempt

LEMMA TakeMoves ==
  ASSUME RelayersOK, NEW r \in Relayer, NEW j \in Job, Take(r, j)
  PROVE  RelayersOK'
<1> DEFINE a == [work[r] EXCEPT !.job = j]
<1>1. work[r] \in Attempt /\ a \in Attempt /\ a.job = j
  BY DEF RelayersOK, Attempt
<1>2. work' = [work EXCEPT ![r] = a] /\ pc' = [pc EXCEPT ![r] = "taken"]
  BY DEF Take, GoTo
<1>3. "taken" \in Places /\ "taken" \notin Following
  BY DEF Places, Following
<1> HIDE DEF a
<1>4. QED
  BY <1>1, <1>2, <1>3, NonceKept, OneRelayerMoves DEF Take

LEMMA ResumeMoves ==
  ASSUME TableOK, RelayersOK, NEW r \in Relayer, Resume(r)
  PROVE  RelayersOK'
<1> DEFINE t == settlements[Latest(JobOf(r))].tx
<1>1. t \in Tx /\ t.call = JobOf(r)
  BY LatestIsLast, RowsAre DEF Resume, Resumes, RowsOf, TableOK, Row
<1>2. work[r] \in Attempt /\ JobOf(r) \in Job
  BY AttemptHasJob DEF RelayersOK, Resume, At
<1> HIDE DEF t
<1>3. PICK b \in BOOLEAN : work' = [work EXCEPT ![r].tx = t, ![r].replaceable = b]
  <2>1. KnownToNode(t) \in BOOLEAN /\ work[r].replaceable \in BOOLEAN
    BY <1>2 DEF KnownToNode, Mined, Attempt
  <2>2. \/ work' = [work EXCEPT ![r].tx = t, ![r].replaceable = KnownToNode(t)]
        \/ work' = [work EXCEPT ![r].tx = t]
    BY DEF Resume, t
  <2>3. [work EXCEPT ![r].tx = t] =
          [work EXCEPT ![r].tx = t, ![r].replaceable = work[r].replaceable]
    BY <1>2 DEF RelayersOK, Attempt
  <2>4. QED
    BY <2>1, <2>2, <2>3
<1> DEFINE a == [work[r] EXCEPT !.tx = t, !.replaceable = b]
<1>4. a \in Attempt /\ a.job = JobOf(r) /\ a.tx = t
  BY <1>1, <1>2 DEF Attempt, JobOf
<1>5. work' = [work EXCEPT ![r] = a] /\ pc' = [pc EXCEPT ![r] = "tracking"]
  BY <1>3 DEF Resume, GoTo, RelayersOK
<1>6. "tracking" \in Places
  BY DEF Places
<1> HIDE DEF a
<1>7. Disturb \/ UNCHANGED disturbances
  BY DEF Resume
<1>8. QED
  BY <1>1, <1>2, <1>4, <1>5, <1>6, <1>7, NonceKept, OneRelayerMoves DEF Resume

\* The transaction just sent is at hand and still has to be written down.
LEMMA SentMoves ==
  ASSUME RelayersOK, NEW r \in Relayer, NEW t \in Tx, t.call = JobOf(r),
         ~At(r, "idle"), NEW p \in {"sent", "resent"},
         p = "resent" => pc[r] \in Following,
         GoTo(r, p), work' = [work EXCEPT ![r].sent = t],
         nonce' \in [Relayer -> Nat \cup {Nothing}], UNCHANGED noticed,
         Disturb \/ UNCHANGED disturbances
  PROVE  RelayersOK'
<1> DEFINE a == [work[r] EXCEPT !.sent = t]
<1>1. work[r] \in Attempt /\ JobOf(r) \in Job
  BY AttemptHasJob DEF RelayersOK
<1>2. a \in Attempt /\ a.job = JobOf(r) /\ a.sent = t /\ a.tx = work[r].tx
  BY <1>1 DEF Attempt, JobOf
<1>3. work' = [work EXCEPT ![r] = a] /\ pc' = [pc EXCEPT ![r] = p]
  BY DEF GoTo
<1>4. pc[r] \in Following => work[r].tx \in Tx /\ work[r].tx.call = JobOf(r)
  BY DEF RelayersOK, AttemptOK
<1>5. p \in Places /\ (p \in Following => p = "resent") /\ p # "idle"
  BY DEF Places, Following
<1> HIDE DEF a
<1>6. QED
  BY <1>1, <1>2, <1>3, <1>4, <1>5, OneRelayerMoves

\* What was sent is followed from now on.
LEMMA NotedMoves ==
  ASSUME RelayersOK, NEW r \in Relayer, pc[r] \in {"sent", "resent"}, GoTo(r, "tracking"),
         NEW b \in BOOLEAN,
         work' = [work EXCEPT ![r].tx = work[r].sent, ![r].sent = Nothing,
                              ![r].replaceable = b],
         nonce' \in [Relayer -> Nat \cup {Nothing}], UNCHANGED noticed,
         Disturb \/ UNCHANGED disturbances
  PROVE  RelayersOK'
<1> DEFINE a == [work[r] EXCEPT !.tx = work[r].sent, !.sent = Nothing, !.replaceable = b]
<1>1. /\ work[r] \in Attempt /\ JobOf(r) \in Job
      /\ work[r].sent \in Tx /\ work[r].sent.call = JobOf(r)
  BY DEF RelayersOK, AttemptOK, At
<1>2. a \in Attempt /\ a.job = JobOf(r) /\ a.tx = work[r].sent
  BY <1>1 DEF Attempt, JobOf
<1>3. work' = [work EXCEPT ![r] = a] /\ pc' = [pc EXCEPT ![r] = "tracking"]
  BY DEF GoTo, RelayersOK
<1>4. "tracking" \in Places
  BY DEF Places
<1> HIDE DEF a
<1>5. QED
  BY <1>1, <1>2, <1>3, <1>4, OneRelayerMoves

\* The watcher's notes, and whatever leaves the loops alone.
LEMMA NotesMove ==
  ASSUME RelayersOK, UNCHANGED <<pc, work, nonce>>,
         noticed' \in [Relayer -> [job : Job, tx : Tx] \cup {Nothing}],
         Disturb \/ UNCHANGED disturbances
  PROVE  RelayersOK'
<1>1. \A q \in Relayer : AttemptOK(q)'
  BY DEF RelayersOK, AttemptOK, At, JobOf
<1>2. QED
  BY <1>1, Disturbed DEF RelayersOK

LEMMA RelayersStep ==
  ASSUME ChainInv, TableOK, RelayersOK, [RelayNext]_vars
  PROVE  RelayersOK'
<1> USE NonceKept, NonceDropped, NonceRead, NonceConsumed
<1>1. ASSUME NEW r \in Relayer, FailAttempt(r, "transient") \/ FailAttempt(r, "permanent"),
             nonce' \in [Relayer -> Nat \cup {Nothing}], UNCHANGED noticed,
             Disturb \/ UNCHANGED disturbances
      PROVE  RelayersOK'
  BY <1>1, FailAttemptRests, RestMoves
<1>2. ASSUME NEW r \in Relayer, StartFresh(r) PROVE RelayersOK'
  BY <1>2, GoesOn DEF StartFresh, At, Places, Following
<1>3. ASSUME NEW r \in Relayer, Check(r) PROVE RelayersOK'
  <2>1. CASE Rest(r)
    BY <1>3, <2>1, RestMoves DEF Check
  <2>2. CASE UNCHANGED work /\ (GoTo(r, "elsewhere") \/ GoTo(r, "sending"))
    BY <1>3, <2>2, GoesOn DEF Check, At, Places, Following
  <2>3. QED
    BY <1>3, <2>1, <2>2, FailAttemptRests DEF Check, TryLater
<1>4. ASSUME NEW r \in Relayer,
             NodeFails(r) \/ BroadcastRefused(r) \/ BroadcastAnswerLost(r) \/ SeeOrphaned(r)
      PROVE  RelayersOK'
  BY <1>1, <1>4 DEF NodeFails, BroadcastRefused, BroadcastAnswerLost, SeeOrphaned, TryLater
<1>5. ASSUME NEW r \in Relayer, Broadcast(r) PROVE RelayersOK'
  <2>1. FirstOffer(r) \in Tx /\ FirstOffer(r).call = JobOf(r)
    BY <1>5, AttemptHasJob, FirstOfferIsTx DEF Broadcast, At
  <2>2. QED
    BY <1>5, <2>1, SentMoves DEF Broadcast, At
<1>6. ASSUME NEW r \in Relayer, CrossGap(r) PROVE RelayersOK'
  BY <1>6, CrossingIsTx, SentMoves DEF CrossGap, At, Following
<1>a. ASSUME NEW r \in Relayer, CrossGapFails(r) PROVE RelayersOK'
  BY <1>a, GoesOn DEF CrossGapFails, At, Places, Following
<1>7. ASSUME NEW r \in Relayer, Bump(r) PROVE RelayersOK'
  BY <1>7, RaisedIsTx, SentMoves DEF Bump, Stuck, At, Following
<1>8. ASSUME NEW r \in Relayer, NoteBroadcast(r) PROVE RelayersOK'
  BY <1>8, NotedMoves DEF NoteBroadcast, At
<1>9. ASSUME NEW r \in Relayer, NoteResend(r) PROVE RelayersOK'
  <2>1. work[r].replaceable \in BOOLEAN
    BY DEF RelayersOK, Attempt
  <2>2. [work EXCEPT ![r].tx = work[r].sent, ![r].sent = Nothing] =
          [work EXCEPT ![r].tx = work[r].sent, ![r].sent = Nothing,
                       ![r].replaceable = work[r].replaceable]
    BY DEF RelayersOK, Attempt
  <2>3. QED
    BY <1>9, <2>1, <2>2, NotedMoves DEF NoteResend, At
<1>10. ASSUME NEW r \in Relayer, SeeMined(r) \/ SeeGap(r) PROVE RelayersOK'
  BY <1>10, GoesOn DEF SeeMined, SeeGap, Stuck, At, Places, Following
<1>11. ASSUME NEW r \in Relayer, LookIntoRevert(r) PROVE RelayersOK'
  <2>1. CASE Rest(r)
    BY <1>11, <2>1, RestMoves DEF LookIntoRevert
  <2>2. CASE UNCHANGED work /\ GoTo(r, "elsewhere")
    BY <1>11, <2>2, GoesOn DEF LookIntoRevert, At, Places, Following
  <2>3. QED
    BY <1>11, <2>1, <2>2, FailAttemptRests DEF LookIntoRevert, ExplainRevert
<1>12. ASSUME NEW r \in Relayer,
              Confirm(r) \/ MarkSettledElsewhere(r) \/ WriteFails(r) \/ LeaseLost(r)
       PROVE  RelayersOK'
  BY <1>12, RestMoves DEF Confirm, MarkSettledElsewhere, WriteFails, LeaseLost
<1>13. ASSUME NEW r \in Relayer, Restart(r) PROVE RelayersOK'
  <2>1. /\ nonce' \in [Relayer -> Nat \cup {Nothing}]
        /\ noticed' \in [Relayer -> [job : Job, tx : Tx] \cup {Nothing}]
        /\ Disturb /\ Rest(r)
    BY <1>13 DEF Restart, RelayersOK
  <2>2. /\ pc' \in [Relayer -> Places] /\ work' \in [Relayer -> Attempt]
        /\ pc'[r] = "idle" /\ work'[r] = NoAttempt
        /\ \A q \in Relayer \ {r} : pc'[q] = pc[q] /\ work'[q] = work[q]
    BY <2>1, NoAttemptIsAttempt DEF Rest, GoTo, RelayersOK, Places
  <2>3. \A q \in Relayer : AttemptOK(q)'
    BY <2>2 DEF RelayersOK, AttemptOK, At, JobOf, Following
  <2>4. QED
    BY <2>1, <2>2, <2>3, Disturbed DEF RelayersOK
<1>14. ASSUME NEW r \in Relayer, Notice(r) PROVE RelayersOK'
  <2>1. \A i \in Rows : [job |-> settlements[i].job, tx |-> settlements[i].tx]
                          \in [job : Job, tx : Tx]
    BY RowsAre DEF Row
  <2>2. noticed' \in [Relayer -> [job : Job, tx : Tx] \cup {Nothing}]
    BY <1>14, <2>1 DEF Notice, RelayersOK
  <2>3. QED
    BY <1>14, <2>2, NotesMove DEF Notice
<1>15. ASSUME NEW r \in Relayer, Unwind(r) PROVE RelayersOK'
  <2>1. noticed' \in [Relayer -> [job : Job, tx : Tx] \cup {Nothing}]
    BY <1>15 DEF Unwind, RelayersOK
  <2>2. QED
    BY <1>15, <2>1, NotesMove DEF Unwind
<1>16. ASSUME UNCHANGED <<pc, work, nonce, noticed>>, Disturb \/ UNCHANGED disturbances
       PROVE  RelayersOK'
  BY <1>16, NotesMove DEF RelayersOK
<1>17. ASSUME NEW r \in Relayer, Renew(r) \/ BumpAnswerLost(r) PROVE RelayersOK'
  BY <1>16, <1>17 DEF Renew, BumpAnswerLost, relayers
<1>18. ASSUME NEW j \in Job, TimePasses(j) PROVE RelayersOK'
  BY <1>16, <1>18 DEF TimePasses
<1>19. ASSUME \/ Reap \/ UNCHANGED vars
              \/ (Network \/ Administration) /\ UNCHANGED <<columns, settlements, relayers>>
       PROVE  RelayersOK'
  BY <1>16, <1>19 DEF Reap, vars, relayers
<1> HIDE NonceKept, NonceDropped, NonceRead, NonceConsumed
<1>20. QED
  BY <1>2, <1>3, <1>4, <1>5, <1>6, <1>7, <1>8, <1>9, <1>10, <1>11, <1>12, <1>13, <1>14,
     <1>15, <1>17, <1>18, <1>19, <1>a, TakeMoves, ResumeMoves DEF RelayNext, Progress, Watch
-----------------------------------------------------------------------------
(* The whole.                                                               *)

\* The writes a step may make to the settlements table.
LEMMA TableWrites ==
  ASSUME [RelayNext]_vars
  PROVE  \/ UNCHANGED settlements
         \/ \E r \in Relayer :
              \/ NoteBroadcast(r) /\ RecordSubmission(JobOf(r), work[r].sent)
              \/ NoteResend(r) /\ ReplaceSubmissionTx(JobOf(r), work[r].tx, work[r].sent)
              \/ Confirm(r) /\ ConfirmSettlement(JobOf(r), work[r].tx)
              \/ /\ Unwind(r) /\ noticed[r] # Nothing
                 /\ RecordReorg(noticed[r].job, noticed[r].tx)
<1>1. ASSUME NEW r \in Relayer, NoteBroadcast(r)
      PROVE  UNCHANGED settlements \/ RecordSubmission(JobOf(r), work[r].sent)
  BY <1>1 DEF NoteBroadcast
<1>2. ASSUME NEW r \in Relayer, NoteResend(r)
      PROVE  \/ UNCHANGED settlements
             \/ ReplaceSubmissionTx(JobOf(r), work[r].tx, work[r].sent)
  BY <1>2 DEF NoteResend
<1>3. ASSUME NEW r \in Relayer, Confirm(r)
      PROVE  UNCHANGED settlements \/ ConfirmSettlement(JobOf(r), work[r].tx)
  BY <1>3 DEF Confirm
<1>4. ASSUME NEW r \in Relayer, Unwind(r)
      PROVE  \/ UNCHANGED settlements
             \/ noticed[r] # Nothing /\ RecordReorg(noticed[r].job, noticed[r].tx)
  BY <1>4 DEF Unwind
<1>5. ASSUME NEW r \in Relayer, NEW kind, FailAttempt(r, kind) PROVE UNCHANGED settlements
  BY <1>5 DEF FailAttempt
<1>6. ASSUME NEW r \in Relayer,
             \/ Check(r) \/ NodeFails(r) \/ BroadcastRefused(r) \/ BroadcastAnswerLost(r)
             \/ SeeOrphaned(r) \/ LookIntoRevert(r)
      PROVE  UNCHANGED settlements
  BY <1>5, <1>6 DEF Check, NodeFails, BroadcastRefused, BroadcastAnswerLost, SeeOrphaned,
     LookIntoRevert, ExplainRevert, TryLater
<1>7. ASSUME NEW r \in Relayer,
             \/ \E j \in Job : Take(r, j)
             \/ Resume(r) \/ StartFresh(r) \/ Broadcast(r) \/ SeeMined(r) \/ SeeGap(r)
             \/ CrossGap(r) \/ Bump(r) \/ MarkSettledElsewhere(r) \/ LeaseLost(r)
             \/ Notice(r) \/ Renew(r) \/ Restart(r) \/ BumpAnswerLost(r)
             \/ CrossGapFails(r) \/ WriteFails(r)
      PROVE  UNCHANGED settlements
  BY <1>7 DEF Take, Resume, StartFresh, Broadcast, SeeMined, SeeGap, CrossGap, Bump,
     MarkSettledElsewhere, LeaseLost, Notice, Renew, Restart, BumpAnswerLost, CrossGapFails,
     WriteFails
<1>8. ASSUME \/ Reap \/ UNCHANGED vars \/ \E j \in Job : TimePasses(j)
             \/ (Network \/ Administration) /\ UNCHANGED <<columns, settlements, relayers>>
      PROVE  UNCHANGED settlements
  BY <1>8 DEF Reap, vars, TimePasses
<1>9. QED
  BY <1>1, <1>2, <1>3, <1>4, <1>6, <1>7, <1>8 DEF RelayNext, Progress, Watch

\* What a relayer that has just sent something has at hand.
LEMMA SentIsOwn ==
  ASSUME RelayersOK, NEW r \in Relayer, NoteBroadcast(r) \/ NoteResend(r)
  PROVE  JobOf(r) \in Job /\ work[r].sent \in Tx /\ work[r].sent.call = JobOf(r)
BY DEF RelayersOK, AttemptOK, NoteBroadcast, NoteResend, At

LEMMA TableStep ==
  ASSUME TableOK, RelayersOK, [RelayNext]_vars
  PROVE  TableOK'
<1>1. UNCHANGED settlements => TableOK'
  BY DEF TableOK, Rows
<1>2. QED
  BY <1>1, TableWrites, SentIsOwn, RecordSubmissionTable, ReplaceTable, ConfirmTable,
     ReorgTable

LEMMA RelayInvInit == RelayInit => RelayInv
<1> SUFFICES ASSUME RelayInit PROVE RelayInv
  OBVIOUS
<1>1. TypeOK /\ RowRules
  <2>1. PICK w \in Actor \ Relayer :
          /\ proof = [j \in Job |-> w]
          /\ jobAttempts = [job : Job, number : {1}, worker : {w}, outcome : {"succeeded"}]
    BY DEF RelayInit
  <2>2. jobAttempts \subseteq AttemptRows
    BY <2>1 DEF AttemptRows, Outcomes
  <2>3. QED
    BY <2>1, <2>2, StoreAssumption DEF RelayInit, TypeOK, States, RowRules, LeaseIsWhole,
       ProofMatchesState, RetryIsOnAQueue, IsInFlight
<1>2. ChainInv
  <2>1. <<>> \in Seq(Entry)
    BY EmptySeq
  <2>2. QED
    BY <2>1, FS_EmptySet, ChainAssumption
       DEF RelayInit, ChainInit, ChainInv, ChainTypeOK, Entry
<1>3. TableOK
  <2>1. settlements = <<>> /\ <<>> \in Seq(Row) /\ Len(<<>>) = 0
    BY EmptySeq DEF RelayInit
  <2>2. Rows = 1..0
    BY <2>1, LenProperties DEF Rows
  <2>3. QED
    BY <2>1, <2>2 DEF TableOK
<1>4. RelayersOK
  BY NoAttemptIsAttempt, RelayAssumption
     DEF RelayInit, RelayersOK, Places, Following, AttemptOK, At, JobOf
<1>5. QED
  BY <1>1, <1>2, <1>3, <1>4 DEF RelayInv

LEMMA NoBlocks == ASSUME RelayInit PROVE Blocks = {}
<1>1. ledger = <<>>
  BY DEF RelayInit, ChainInit
<1>2. Blocks = 1..0
  BY <1>1, EmptySeq, LenProperties DEF Blocks
<1>3. QED
  BY <1>2

LEMMA NoRows == ASSUME RelayInit PROVE Rows = {}
<1>1. settlements = <<>>
  BY DEF RelayInit
<1>2. Rows = 1..0
  BY <1>1, EmptySeq, LenProperties DEF Rows
<1>3. QED
  BY <1>2

LEMMA RelayInductive == RelaySpec => []RelayInv
<1>1. RelayInv /\ [RelayNext]_vars => RelayInv'
  <2> SUFFICES ASSUME RelayInv, [RelayNext]_vars PROVE RelayInv'
    OBVIOUS
  <2>1. TypeOK' /\ RowRules'
    BY RelayCallsStore, StoreCallsAreSteps, TypeStep, RulesStep DEF RelayInv
  <2>2. ChainInv' /\ TableOK' /\ RelayersOK'
    BY ChainStep, TableStep, RelayersStep DEF RelayInv
  <2>3. QED
    BY <2>1, <2>2 DEF RelayInv
<1>2. QED
  BY <1>1, RelayInvInit, PTL DEF RelaySpec

\* Every variable keeps its range: no step meets a table, a transaction or a
\* nonce it was not written for, whatever the network and the store did between
\* two steps of a relayer.
THEOREM RelayTypeCorrect == RelaySpec => []RelayTypeOK
<1>1. RelayInv => RelayTypeOK
  BY DEF RelayInv, RelayTypeOK, ChainInv, TableOK, RelayersOK, Places
<1>2. QED
  BY <1>1, RelayInductive, PTL

\* The relay makes only the steps that JobContract allows: what is settled may
\* be unsettled, what is failed stays failed, and no proof is touched.
THEOREM RelayKeepsContract == RelaySpec => KeepsContract
<1>1. ASSUME RelayInv, [RelayNext]_vars PROVE [Contract!ContractNext]_columns
  <2>1. [Contract!ContractNext]_(Contract!contract)
    BY <1>1, RelayCallsStore, StoreCallsAreSteps, ContractStep DEF RelayInv
  <2>2. CASE UNCHANGED Contract!contract
    <3>1. Contract!GiveUp({})
      BY <2>2 DEF Contract!GiveUp, Contract!contract
    <3>2. QED
      BY <3>1 DEF Contract!ContractNext
  <2>3. QED
    BY <2>1, <2>2
<1>2. QED
  BY <1>1, RelayInductive, PTL DEF RelaySpec, KeepsContract

\* However many relayers, duplicates, replacements and reorgs, at most one
\* transaction of a nullifier has succeeded in the blocks there are.
THEOREM NullifiersAreSpentOnce == RelaySpec => []NullifierSpentOnce
<1>1. RelayInit => NullifierSpentOnce
  BY NoBlocks DEF NullifierSpentOnce
<1>2. ASSUME RelayInv, NullifierSpentOnce, [RelayNext]_vars PROVE NullifierSpentOnce'
  <2>1. Network \/ UNCHANGED ledger
    BY <1>2, RelayChainStep
       DEF RelayInv, Administration, RegisterCircuit, SetRelayer, Sends, Send, chain
  <2>2. QED
    BY <1>2, <2>1, SpentOnceStep DEF RelayInv, ChainInv
<1>3. QED
  BY <1>1, <1>2, RelayInductive, PTL DEF RelaySpec
-----------------------------------------------------------------------------
(* The relayers as the pool takes them to be.                               *)

\* The operations on the jobs table are the same ones, seen from the pool.
LEMMA SameLifecycle ==
  /\ \A s, e : Pool!Transition(s, e) = Transition(s, e)
  /\ \A s, e : Pool!CanTransition(s, e) <=> CanTransition(s, e)
  /\ \A kind, made, max : Pool!ClassifyFailure(kind, made, max) = ClassifyFailure(kind, made, max)
  /\ \A s : Pool!IsInFlight(s) <=> IsInFlight(s)
BY DEF Pool!Transition, Transition, Pool!AfterRetry, AfterRetry, Pool!CanTransition, CanTransition,
   Pool!ClassifyFailure, ClassifyFailure, Pool!IsInFlight, IsInFlight

LEMMA SameSubmissionCalls ==
  ASSUME NEW j, NEW r
  PROVE  /\ LeaseNextProved(j, r) => Pool!LeaseNextProved(j, r)
         /\ RenewLease(j, r) => Pool!RenewLease(j, r)
         /\ ConfirmSettled(j) => Pool!ConfirmSettled(j)
         /\ UnwindSettled(j) => Pool!UnwindSettled(j)
         /\ ReleaseLease(j) => Pool!ReleaseLease(j)
         /\ LeaseRunsOut(j) => Pool!LeaseRunsOut(j)
         /\ RetryComesDue(j) => Pool!RetryComesDue(j)
         /\ \A kind : RecordSubmissionFailure(j, kind) => Pool!RecordSubmissionFailure(j, kind)
<1>1. \A e : ApplyEvent(j, e) => Pool!ApplyEvent(j, e)
  BY SameLifecycle DEF ApplyEvent, Pool!ApplyEvent, MoveTo, Pool!MoveTo, ClearLease, Pool!ClearLease
<1>2. LeaseNextProved(j, r) => Pool!LeaseNextProved(j, r)
  BY SameLifecycle DEF LeaseNextProved, Pool!LeaseNextProved, Waiting, Pool!Waiting, MoveTo,
     Pool!MoveTo, GrantLease, Pool!GrantLease
<1>3. RenewLease(j, r) => Pool!RenewLease(j, r)
  BY SameLifecycle DEF RenewLease, Pool!RenewLease, Holds, Pool!Holds
<1>4. \A kind : RecordSubmissionFailure(j, kind) => Pool!RecordSubmissionFailure(j, kind)
  BY SameLifecycle DEF RecordSubmissionFailure, Pool!RecordSubmissionFailure, MoveTo, Pool!MoveTo,
     ClearLease, Pool!ClearLease
<1>5. QED
  BY <1>1, <1>2, <1>3, <1>4 DEF ConfirmSettled, Pool!ConfirmSettled, UnwindSettled,
     Pool!UnwindSettled, ReleaseLease, Pool!ReleaseLease, LeaseRunsOut, Pool!LeaseRunsOut,
     RetryComesDue, Pool!RetryComesDue

LEMMA SameReaping ==
  ASSUME NEW rows, ReapExpired(rows)
  PROVE  Pool!ReapExpired(rows)
<1>1. Pool!Expired = Expired
  BY SameLifecycle DEF Expired, Pool!Expired
<1>2. \A j : Pool!ReapEvent(j) = ReapEvent(j)
  BY SameLifecycle DEF ReapEvent, Pool!ReapEvent
<1>3. QED
  BY <1>1, <1>2, SameLifecycle DEF ReapExpired, Pool!ReapExpired

\* Only relayers hold leases here, so where there are none nothing runs out.
RelayersHoldTheLeases == \A j \in Job : leasedBy[j] \in Relayer \cup {NoOne}

LEMMA RelayersHoldStep ==
  ASSUME TypeOK, RelayersHoldTheLeases, StoreCall
  PROVE  RelayersHoldTheLeases'
<1> USE DEF RelayersHoldTheLeases
<1>1. \A j \in Job : leasedBy'[j] = leasedBy[j] \/ leasedBy'[j] \in Relayer \cup {NoOne}
  <2>1. ASSUME NEW r \in Relayer, NEW j \in Job, LeaseNextProved(j, r)
        PROVE  leasedBy' = [leasedBy EXCEPT ![j] = r]
    BY <2>1 DEF LeaseNextProved, GrantLease
  <2>2. ASSUME NEW j \in Job, NEW e, ApplyEvent(j, e)
        PROVE  leasedBy' = leasedBy \/ leasedBy' = [leasedBy EXCEPT ![j] = NoOne]
    BY <2>2 DEF ApplyEvent, ClearLease
  <2>3. ASSUME NEW j \in Job, NEW kind, RecordSubmissionFailure(j, kind)
        PROVE  leasedBy' = [leasedBy EXCEPT ![j] = NoOne]
    BY <2>3 DEF RecordSubmissionFailure, ClearLease
  <2>4. ASSUME NEW rows, ReapExpired(rows)
        PROVE  \A j \in Job : leasedBy'[j] = leasedBy[j] \/ leasedBy'[j] = NoOne
    BY <2>4 DEF ReapExpired
  <2>5. ASSUME NEW j \in Job, NEW r, \/ RenewLease(j, r) \/ LeaseRunsOut(j) \/ RetryComesDue(j)
        PROVE  leasedBy' = leasedBy
    BY <2>5 DEF RenewLease, LeaseRunsOut, RetryComesDue
  <2>6. UNCHANGED columns => leasedBy' = leasedBy
    BY DEF columns
  <2>7. leasedBy \in [Job -> Actor \cup {NoOne}]
    BY DEF TypeOK
  <2>8. QED
    BY <2>1, <2>2, <2>3, <2>4, <2>5, <2>6, <2>7 DEF StoreCall, ConfirmSettled, UnwindSettled,
       ReleaseLease
<1>2. QED
  BY <1>1

\* Where an attempt ends, the pool sees a job let go of.
LEMMA ForgetsItsJob ==
  ASSUME RelayersOK, NEW r \in Relayer, Rest(r)
  PROVE  Pool!Release(r)
BY DEF RelayersOK, Rest, NoAttempt, Pool!Release

LEMMA PoolStands ==
  ASSUME UNCHANGED work
  PROVE  UNCHANGED Pool!processes
BY DEF Pool!processes

\* An attempt that fails, of either kind.
LEMMA FailingIsThePools ==
  ASSUME RelayersOK, NEW r \in Relayer, ~At(r, "idle"), NEW kind \in FailureKinds,
         FailAttempt(r, kind)
  PROVE  Pool!SubmissionProgress(r)
<1>1. Pool!Release(r) /\ work[r].job # Nothing /\ [q \in Relayer |-> work[q].job][r] = JobOf(r)
  BY ForgetsItsJob, AttemptHasJob, RelayAssumption DEF FailAttempt, JobOf
<1>2. kind \in Pool!FailureKinds
  BY DEF FailureKinds, Pool!FailureKinds
<1>3. CASE RecordSubmissionFailure(JobOf(r), kind)
  BY <1>1, <1>2, <1>3, SameSubmissionCalls DEF Pool!SubmissionProgress, Pool!FailSubmission, JobOf
<1>4. CASE UNCHANGED columns
  BY <1>1, <1>4 DEF Pool!SubmissionProgress, Pool!AbandonSubmission, Pool!columns, columns, JobOf
<1>5. QED
  BY <1>3, <1>4 DEF FailAttempt

LEMMA RelayStepIsThePools ==
  ASSUME RelayInv, RelayersHoldTheLeases, [RelayNext]_vars
  PROVE  [Pool!RelayersNext]_<<columns, Pool!processes>>
<1> DEFINE Quiet == UNCHANGED <<columns, Pool!processes>>
           Goal == Pool!RelayersNext \/ Quiet
<1>0. RelayersOK
  BY DEF RelayInv
<1>a. ASSUME NEW r \in Relayer,
             Pool!SubmissionProgress(r) \/ Pool!RelayerHeartbeat(r) \/ Pool!Interruption(r)
      PROVE  Goal
  BY <1>a DEF Pool!RelayersNext
<1>b. UNCHANGED <<columns, work>> => Goal
  BY PoolStands
<1>1. ASSUME NEW r \in Relayer, NEW j \in Job, Take(r, j) PROVE Goal
  <2>1. work[r] = NoAttempt /\ work' = [work EXCEPT ![r].job = j]
    BY <1>0, <1>1 DEF Take, RelayersOK, AttemptOK
  <2>2. [work[r] EXCEPT !.job = j].job = j /\ work[r].job = Nothing
    BY <1>0, <2>1 DEF RelayersOK, Attempt, NoAttempt
  <2>3. \A q \in Relayer : work'[q].job = IF q = r THEN j ELSE work[q].job
    BY <1>0, <2>1, <2>2 DEF RelayersOK
  <2>4. [q \in Relayer |-> work'[q].job] = [[q \in Relayer |-> work[q].job] EXCEPT ![r] = j]
    BY <2>3
  <2>5. Pool!LeaseNextProved(j, r)
    BY <1>1, SameSubmissionCalls DEF Take
  <2>6. Pool!TakeProof(r, j)
    BY <2>2, <2>4, <2>5 DEF Pool!TakeProof
  <2>7. QED
    BY <1>a, <2>6 DEF Pool!SubmissionProgress
<1>2. ASSUME NEW r \in Relayer, NEW kind \in FailureKinds, ~At(r, "idle"), FailAttempt(r, kind)
      PROVE  Goal
  BY <1>0, <1>2, <1>a, FailingIsThePools
<1>3. ASSUME NEW r \in Relayer, Rest(r), ~At(r, "idle"), UNCHANGED columns PROVE Goal
  <2>1. Pool!AbandonSubmission(r)
    BY <1>0, <1>3, ForgetsItsJob, AttemptHasJob, RelayAssumption
       DEF Pool!AbandonSubmission, Pool!columns, columns, JobOf
  <2>2. QED
    BY <1>a, <2>1 DEF Pool!SubmissionProgress
<1>4. ASSUME NEW r \in Relayer, Rest(r), At(r, "idle"), UNCHANGED columns PROVE Goal
  <2>1. work' = work
    BY <1>0, <1>4 DEF RelayersOK, AttemptOK, Rest
  <2>2. QED
    BY <1>4, <2>1, <1>b
<1>5. ASSUME NEW r \in Relayer, ~At(r, "idle"), Rest(r), ConfirmSettled(JobOf(r)) PROVE Goal
  <2>1. Pool!Settle(r)
    BY <1>0, <1>5, ForgetsItsJob, AttemptHasJob, RelayAssumption, SameSubmissionCalls
       DEF Pool!Settle, JobOf
  <2>2. QED
    BY <1>a, <2>1 DEF Pool!SubmissionProgress
<1>6. ASSUME NEW r \in Relayer, ~At(r, "idle"), Rest(r), ReleaseLease(JobOf(r)) PROVE Goal
  <2>1. Pool!HandBackSubmission(r)
    BY <1>0, <1>6, ForgetsItsJob, AttemptHasJob, RelayAssumption, SameSubmissionCalls
       DEF Pool!HandBackSubmission, Pool!Release, JobOf
  <2>2. QED
    BY <1>a, <2>1 DEF Pool!Interruption
<1>7. ASSUME NEW r \in Relayer, Renew(r) PROVE Goal
  <2>1. Pool!RelayerHeartbeat(r)
    BY <1>0, <1>7, AttemptHasJob, RelayAssumption, SameSubmissionCalls, PoolStands
       DEF Renew, Pool!RelayerHeartbeat, JobOf, relayers
  <2>2. QED
    BY <1>a, <2>1
<1>8. ASSUME NEW r \in Relayer, NEW j \in Job, UnwindSettled(j), UNCHANGED work PROVE Goal
  <2>1. Pool!ReorgSeen(j)
    BY <1>8, SameSubmissionCalls DEF Pool!ReorgSeen
  <2>2. QED
    BY <1>a, <2>1 DEF Pool!Interruption
<1>9. ASSUME NEW j \in Job, TimePasses(j) PROVE Goal
  <2>1. Pool!TimePasses(j)
    BY <1>9, SameSubmissionCalls, PoolStands DEF TimePasses, Pool!TimePasses
  <2>2. QED
    BY <2>1 DEF Pool!RelayersNext
<1>10. CASE Reap
  <2>1. PICK rows \in SUBSET Expired : ReapExpired(rows) /\ UNCHANGED work
    BY <1>10 DEF Reap, relayers
  <2>2. Relayer # {}
    <3>1. PICK j \in Job : IsInFlight(state[j])
      BY <2>1 DEF ReapExpired, Expired
    <3>2. leasedBy[j] # NoOne
      BY <3>1 DEF RelayInv, RowRules, LeaseIsWhole
    <3>3. QED
      BY <3>2 DEF RelayersHoldTheLeases
  <2>3. Pool!ReapExpired(rows) /\ rows \in SUBSET Pool!Expired
    BY <2>1, SameReaping DEF Pool!ReapExpired
  <2>4. Pool!Reap
    BY <2>1, <2>2, <2>3, PoolStands DEF Pool!Reap
  <2>5. QED
    BY <2>4 DEF Pool!RelayersNext
<1>11. ASSUME NEW r \in Relayer, Check(r) \/ LookIntoRevert(r) PROVE Goal
  <2>1. ~At(r, "idle")
    BY <1>11 DEF Check, LookIntoRevert, At
  <2>2. UNCHANGED <<columns, work>> \/ \E kind \in FailureKinds : FailAttempt(r, kind)
    BY <1>11 DEF Check, LookIntoRevert, ExplainRevert, TryLater, FailureKinds
  <2>3. QED
    BY <2>1, <2>2, <1>2, <1>b
<1>12. ASSUME NEW r \in Relayer,
              \/ NodeFails(r) \/ BroadcastRefused(r) \/ BroadcastAnswerLost(r)
              \/ SeeOrphaned(r)
       PROVE  Goal
  <2>1. ~At(r, "idle")
    BY <1>12 DEF NodeFails, BroadcastRefused, BroadcastAnswerLost, SeeOrphaned, At
  <2>2. FailAttempt(r, "transient") /\ "transient" \in FailureKinds
    BY <1>12 DEF NodeFails, BroadcastRefused, BroadcastAnswerLost, SeeOrphaned, TryLater,
       FailureKinds
  <2>3. QED
    BY <2>1, <2>2, <1>2
<1>13. ASSUME NEW r \in Relayer, Confirm(r) \/ MarkSettledElsewhere(r) PROVE Goal
  <2>1. ~At(r, "idle") /\ Rest(r) /\ (ConfirmSettled(JobOf(r)) \/ UNCHANGED columns)
    BY <1>13 DEF Confirm, MarkSettledElsewhere, ConfirmSettlement, At
  <2>2. QED
    BY <2>1, <1>3, <1>5
<1>14. ASSUME NEW r \in Relayer, LeaseLost(r) \/ WriteFails(r) \/ Restart(r) PROVE Goal
  <2>1. Rest(r) /\ (UNCHANGED columns \/ (~At(r, "idle") /\ ReleaseLease(JobOf(r))))
    BY <1>14 DEF LeaseLost, WriteFails, Restart
  <2>2. QED
    BY <2>1, <1>3, <1>4, <1>6
<1>15. ASSUME NEW r \in Relayer, Watch(r) PROVE Goal
  <2>1. UNCHANGED work /\ (UNCHANGED columns \/ \E j \in Job : UnwindSettled(j))
    BY <1>0, <1>15 DEF Watch, Notice, Unwind, RecordReorg, RelayersOK
  <2>2. QED
    BY <2>1, <1>8, <1>b
<1>16. ASSUME NEW r \in Relayer,
              \/ Resume(r) \/ Broadcast(r) \/ NoteBroadcast(r) \/ CrossGap(r) \/ Bump(r)
              \/ NoteResend(r)
       PROVE  Goal
  <2>1. UNCHANGED columns
    BY <1>16 DEF Resume, Broadcast, NoteBroadcast, CrossGap, Bump, NoteResend
  <2>2. PICK a : work' = [work EXCEPT ![r] = a] /\ a.job = work[r].job
    BY <1>0, <1>16 DEF Resume, Broadcast, NoteBroadcast, CrossGap, Bump, NoteResend, RelayersOK,
       Attempt
  <2>3. [q \in Relayer |-> work'[q].job] = [q \in Relayer |-> work[q].job]
    BY <1>0, <2>2 DEF RelayersOK
  <2>4. Quiet
    BY <2>1, <2>3 DEF Pool!processes
  <2>5. QED
    BY <2>4
<1>17. ASSUME NEW r \in Relayer,
              \/ StartFresh(r) \/ SeeMined(r) \/ SeeGap(r) \/ BumpAnswerLost(r)
              \/ CrossGapFails(r)
       PROVE  Goal
  BY <1>17, <1>b DEF StartFresh, SeeMined, SeeGap, BumpAnswerLost, CrossGapFails
<1>18. CASE \/ (Network \/ Administration) /\ UNCHANGED <<columns, settlements, relayers>>
            \/ UNCHANGED vars
  BY <1>18, <1>b DEF relayers, vars
<1>19. Goal
  BY <1>1, <1>7, <1>9, <1>10, <1>11, <1>12, <1>13, <1>14, <1>15, <1>16, <1>17, <1>18
     DEF RelayNext, Progress
<1>20. QED
  BY <1>19

\* The jobs are worked on here as the pool of workers takes its relayers to work
\* on them: settled, failed, handed back, walked away from or unwound, each by a
\* call that WorkerPool's relayers make.
THEOREM RelaysMakePoolSteps == RelaySpec => RelaysAsThePoolAssumes
<1>1. RelayInit => RelayersHoldTheLeases
  BY DEF RelayInit, RelayersHoldTheLeases
<1>2. RelayInv /\ RelayersHoldTheLeases /\ [RelayNext]_vars => RelayersHoldTheLeases'
  BY RelayCallsStore, RelayersHoldStep DEF RelayInv
<1>3. RelayInv /\ RelayersHoldTheLeases /\ [RelayNext]_vars
        => [Pool!RelayersNext]_<<columns, Pool!processes>>
  BY RelayStepIsThePools
<1>4. QED
  BY <1>1, <1>2, <1>3, RelayInductive, PTL DEF RelaySpec, RelaysAsThePoolAssumes
-----------------------------------------------------------------------------
(* Live settlements.                                                        *)

\* A table whose rows keep their jobs and come to life nowhere.
LEMMA NothingRevived ==
  ASSUME TableOK, LiveSettlementIsLatest, Rows' = Rows,
         \A i \in Rows : /\ settlements'[i].job = settlements[i].job
                         /\ settlements[i].reorged => settlements'[i].reorged
  PROVE  LiveSettlementIsLatest'
<1>1. \A j : RowsOf(j)' = RowsOf(j)
  BY DEF RowsOf
<1>2. \A j : Latest(j)' = Latest(j)
  BY <1>1 DEF Latest
<1>3. \A i \in Rows : Live(i)' => Live(i)
  BY DEF Live
<1>4. QED
  BY <1>2, <1>3 DEF LiveSettlementIsLatest

LEMMA LiveSettlementStep ==
  ASSUME TableOK, RelayersOK, LiveSettlementIsLatest, [RelayNext]_vars
  PROVE  LiveSettlementIsLatest'
<1>1. CASE UNCHANGED settlements
  BY <1>1 DEF LiveSettlementIsLatest, Rows, Latest, RowsOf, Live
<1>2. ASSUME NEW j \in Job, NEW t \in Tx, t.call = j, RecordSubmission(j, t)
      PROVE  LiveSettlementIsLatest'
  <2> DEFINE n == Len(settlements)
  <2>1. CASE UNCHANGED settlements
    BY <1>1, <2>1
  <2>2. CASE /\ Rows' = 1..(n + 1)
             /\ \A i \in Rows : settlements'[i] = settlements[i]
             /\ settlements'[n + 1] = [job |-> j, tx |-> t, confirmed |-> FALSE, reorged |-> FALSE]
             /\ \A i \in Rows : Live(i) => NullifierOf[settlements[i].job] # NullifierOf[j]
    <3>1. n \in Nat /\ Rows = 1..n
      BY RowsAre
    <3> HIDE DEF n
    <3>2. \A i \in Rows' : i \in Rows \/ i = n + 1
      BY <2>2, <3>1
    <3>3. \A i \in Rows : (Live(i)' <=> Live(i)) /\ settlements'[i].job = settlements[i].job
      BY <2>2 DEF Live
    <3>4. settlements'[n + 1].job = j
      BY <2>2
    <3>5. \A c : c # j => RowsOf(c)' = RowsOf(c)
      BY <2>2, <3>1, <3>2, <3>4 DEF RowsOf
    <3>6. \A c : c # j => Latest(c)' = Latest(c)
      BY <3>5 DEF Latest
    <3>7. n + 1 = Latest(j)'
      <4>1. n + 1 \in RowsOf(j)' /\ \A k \in RowsOf(j)' : k \in 1..(n + 1)
        BY <2>2, <3>1, <3>4 DEF RowsOf
      <4>2. TableOK'
        BY <1>2, RecordSubmissionTable
      <4>3. /\ Latest(j)' \in RowsOf(j)'
            /\ \A k \in RowsOf(j)' : k <= Latest(j)'
        <5>1. \E m \in RowsOf(j)' : \A k \in RowsOf(j)' : k <= m
          BY <3>1, <4>1
        <5>2. QED
          BY <5>1 DEF Latest
      <4>4. QED
        BY <3>1, <4>1, <4>3
    <3>8. ASSUME NEW i \in Rows, Live(i)' PROVE (i = Latest(settlements[i].job))'
      <4>1. Live(i) /\ settlements[i].job # j
        BY <2>2, <3>3, <3>8
      <4>2. i = Latest(settlements[i].job)
        BY <4>1 DEF LiveSettlementIsLatest
      <4>3. PICK c : c = settlements[i].job /\ c = settlements'[i].job
        BY <3>3
      <4>4. Latest(c)' = i
        BY <3>6, <4>1, <4>2, <4>3
      <4>5. QED
        BY <4>3, <4>4
    <3>9. ASSUME NEW i \in Rows', NEW k \in Rows' \ {i}, Live(i)',
                 NullifierOf[settlements'[k].job] = NullifierOf[settlements'[i].job], Live(k)'
          PROVE  FALSE
      <4>1. CASE i \in Rows /\ k \in Rows
        BY <3>3, <3>9, <4>1 DEF LiveSettlementIsLatest
      <4>2. CASE i = n + 1 \/ k = n + 1
        BY <2>2, <3>1, <3>2, <3>3, <3>4, <3>9, <4>2
      <4>3. QED
        BY <3>2, <4>1, <4>2
    <3>10. QED
      BY <3>2, <3>4, <3>7, <3>8, <3>9 DEF LiveSettlementIsLatest
  <2>3. QED
    BY <1>2, <2>1, <2>2, RecordSubmissionTable
<1>3. ASSUME NEW j \in Job, NEW t, NEW u \in Tx, u.call = j, ReplaceSubmissionTx(j, t, u)
      PROVE  LiveSettlementIsLatest'
  BY <1>3, ReplaceTable, NothingRevived
<1>4. ASSUME NEW j, NEW t, ConfirmSettlement(j, t) PROVE LiveSettlementIsLatest'
  BY <1>4, ConfirmTable, NothingRevived
<1>5. ASSUME NEW j, NEW t, RecordReorg(j, t) PROVE LiveSettlementIsLatest'
  BY <1>5, ReorgTable, NothingRevived
<1>6. QED
  BY <1>1, <1>2, <1>3, <1>4, <1>5, TableWrites, SentIsOwn

\* However many relayers broadcast, replace, unwind and fail to write down, a
\* job's live settlement is its latest and its nullifier's only one.
THEOREM LiveSettlementsAreLatest == RelaySpec => []LiveSettlementIsLatest
<1>1. RelayInit => LiveSettlementIsLatest
  BY NoRows DEF LiveSettlementIsLatest
<1>2. RelayInv /\ LiveSettlementIsLatest /\ [RelayNext]_vars => LiveSettlementIsLatest'
  BY LiveSettlementStep DEF RelayInv
<1>3. QED
  BY <1>1, <1>2, RelayInductive, PTL DEF RelaySpec
-----------------------------------------------------------------------------
(* Failures.                                                                *)

\* Places a relayer reaches, and what it holds there, are its own doing.
Acts(r) ==
  \/ Progress(r) \/ Restart(r) \/ NodeFails(r) \/ BroadcastAnswerLost(r)
  \/ CrossGapFails(r) \/ WriteFails(r)

LEMMA OthersStay ==
  ASSUME RelayersOK, [RelayNext]_vars, NEW q \in Relayer, ~Acts(q)
  PROVE  pc'[q] = pc[q] /\ work'[q] = work[q]
<1> USE DEF RelayersOK
<1>1. ASSUME NEW r \in Relayer, Rest(r), r # q PROVE pc'[q] = pc[q] /\ work'[q] = work[q]
  BY <1>1 DEF Rest, GoTo
<1>2. ASSUME NEW r \in Relayer, r # q, Progress(r)
      PROVE  pc'[q] = pc[q] /\ work'[q] = work[q]
  <2>1. ASSUME NEW j \in Job, Take(r, j) PROVE pc'[q] = pc[q] /\ work'[q] = work[q]
    BY <1>2, <2>1 DEF Take, GoTo
  <2>2. CASE Check(r) \/ BroadcastRefused(r) \/ SeeOrphaned(r) \/ LookIntoRevert(r)
    BY <1>1, <1>2, <2>2, FailAttemptRests
       DEF Check, BroadcastRefused, SeeOrphaned, LookIntoRevert, ExplainRevert, TryLater, GoTo
  <2>3. CASE Confirm(r) \/ MarkSettledElsewhere(r) \/ LeaseLost(r)
    BY <1>1, <1>2, <2>3 DEF Confirm, MarkSettledElsewhere, LeaseLost
  <2>4. CASE Resume(r)
    BY <1>2, <2>4 DEF Resume, GoTo
  <2>5. CASE \/ StartFresh(r) \/ Broadcast(r) \/ NoteBroadcast(r) \/ SeeMined(r)
             \/ SeeGap(r) \/ CrossGap(r) \/ Bump(r) \/ NoteResend(r)
    BY <1>2, <2>5 DEF StartFresh, Broadcast, NoteBroadcast, SeeMined, SeeGap, CrossGap,
       Bump, NoteResend, GoTo
  <2>6. QED
    BY <1>2, <2>1, <2>2, <2>3, <2>4, <2>5 DEF Progress
<1>3. ASSUME NEW r \in Relayer, r # q,
             Restart(r) \/ NodeFails(r) \/ BroadcastAnswerLost(r) \/ WriteFails(r)
      PROVE  pc'[q] = pc[q] /\ work'[q] = work[q]
  BY <1>1, <1>3, FailAttemptRests
     DEF Restart, NodeFails, BroadcastAnswerLost, WriteFails, TryLater
<1>a. ASSUME NEW r \in Relayer, r # q, CrossGapFails(r)
      PROVE  pc'[q] = pc[q] /\ work'[q] = work[q]
  BY <1>a DEF CrossGapFails, GoTo
<1>4. ASSUME NEW r \in Relayer, Watch(r) \/ Renew(r) \/ BumpAnswerLost(r)
      PROVE  pc'[q] = pc[q] /\ work'[q] = work[q]
  BY <1>4 DEF Watch, Notice, Unwind, Renew, BumpAnswerLost, relayers
<1>5. ASSUME \/ Reap \/ UNCHANGED vars \/ \E j \in Job : TimePasses(j)
             \/ (Network \/ Administration) /\ UNCHANGED <<columns, settlements, relayers>>
      PROVE  pc'[q] = pc[q] /\ work'[q] = work[q]
  BY <1>5 DEF Reap, vars, relayers, TimePasses
<1>6. QED
  BY <1>2, <1>3, <1>4, <1>5, <1>a DEF RelayNext, Acts

\* A relayer gets to a revert only by seeing its transaction reverted.
LEMMA RevertIsSeen ==
  ASSUME RelayersOK, [RelayNext]_vars, NEW r \in Relayer, pc'[r] = "reverted"
  PROVE  /\ work'[r] = work[r]
         /\ pc[r] = "reverted" \/ (pc[r] = "tracking" /\ Reverted(work[r].tx))
<1> USE DEF RelayersOK
<1>1. CASE ~Acts(r)
  BY <1>1, OthersStay
<1>2. ASSUME Rest(r) PROVE FALSE
  BY <1>2 DEF Rest, GoTo
<1>3. ASSUME NEW p, p # "reverted", GoTo(r, p) PROVE FALSE
  BY <1>3 DEF GoTo
<1>4. ASSUME \/ Restart(r) \/ NodeFails(r) \/ BroadcastAnswerLost(r) \/ WriteFails(r)
             \/ BroadcastRefused(r) \/ SeeOrphaned(r)
             \/ Confirm(r) \/ MarkSettledElsewhere(r) \/ LeaseLost(r)
      PROVE  FALSE
  BY <1>2, <1>4, FailAttemptRests
     DEF Restart, NodeFails, BroadcastAnswerLost, WriteFails, TryLater, BroadcastRefused,
         SeeOrphaned, Confirm, MarkSettledElsewhere, LeaseLost
<1>5. ASSUME Check(r) \/ LookIntoRevert(r) PROVE FALSE
  BY <1>2, <1>3, <1>5, FailAttemptRests DEF Check, LookIntoRevert, ExplainRevert, TryLater
<1>6. ASSUME \/ \E j \in Job : Take(r, j)
             \/ Resume(r) \/ StartFresh(r) \/ Broadcast(r) \/ NoteBroadcast(r)
             \/ SeeGap(r) \/ CrossGap(r) \/ CrossGapFails(r) \/ Bump(r) \/ NoteResend(r)
      PROVE  FALSE
  BY <1>3, <1>6 DEF Take, Resume, StartFresh, Broadcast, NoteBroadcast, SeeGap, CrossGap,
     CrossGapFails, Bump, NoteResend
<1>7. CASE SeeMined(r)
  BY <1>3, <1>7 DEF SeeMined, At
<1>8. QED
  BY <1>1, <1>4, <1>5, <1>6, <1>7 DEF Acts, Progress

\* Neither the owner nor a reorg has touched what a revert says.
Calm == changes = 0 /\ reorgs = 0

\* While it is calm, a transaction with a sound proof is refused only because
\* its nullifier is spent.
RevertsAreExplained ==
  \A b \in Blocks :
    ~ledger[b].ok /\ ledger[b].tx.call \in Sound => NullifierUsed(ledger[b].tx.call)

CalmChain ==
  /\ stale = {} /\ registered /\ authorised = Account
  /\ RevertsAreExplained

\* A relayer that looks into the revert of a sound proof will find its
\* nullifier spent.
RevertIsExplained(r) ==
  At(r, "reverted") /\ JobOf(r) \in Sound => NullifierUsed(JobOf(r))

\* The states on the relayers' side, and where they can end.
OnRelayersSide == \A j \in Job : state[j] \in {"proved", "submitting", "settled", "failed"}

DeservedInv ==
  /\ OnRelayersSide
  /\ FailureIsDeserved
  /\ Calm => CalmChain /\ \A r \in Relayer : RevertIsExplained(r)

LEMMA CalmChainStep ==
  ASSUME ChainInv, CalmChain, Network \/ UNCHANGED ledger, ~Reorg,
         Network \/ UNCHANGED stale, UNCHANGED <<registered, authorised>>
  PROVE  CalmChain'
<1>1. \A c : NullifierUsed(c) => NullifierUsed(c)'
  BY SpentStaysSpent DEF ChainInv
<1>2. CASE NewBlock
  <2>1. Blocks' = Blocks /\ Keeps(Len(ledger)) /\ Blocks = 1..Len(ledger)
    BY <1>2, NewBlockLedger, BlocksAre, LenProperties DEF ChainInv, Blocks
  <2>2. RevertsAreExplained'
    <3> SUFFICES ASSUME NEW b \in Blocks', ~ledger'[b].ok, ledger'[b].tx.call \in Sound
                 PROVE  NullifierUsed(ledger[b].tx.call)'
      BY DEF RevertsAreExplained
    <3>1. ledger'[b].tx = ledger[b].tx /\ ledger'[b].ok = ledger[b].ok /\ b \in Blocks
      BY <2>1 DEF Keeps
    <3>2. NullifierUsed(ledger[b].tx.call)
      BY <3>1 DEF CalmChain, RevertsAreExplained
    <3>3. PICK c : c = ledger[b].tx.call /\ c = ledger'[b].tx.call
      BY <3>1
    <3>4. NullifierUsed(c)'
      BY <1>1, <3>2, <3>3
    <3>5. QED
      BY <3>3, <3>4
  <2>3. QED
    BY <1>2, <2>2 DEF CalmChain, NewBlock
<1>3. ASSUME NEW t \in pool, Mine(t) PROVE CalmChain'
  <2> DEFINE n == Len(ledger)
  <2>1. Blocks' = 1..(n + 1) /\ n \in Nat /\ Blocks = 1..n
    BY <1>3, MineLedger, LenProperties, BlocksAre DEF Blocks, ChainInv
  <2>2. Keeps(n) /\ ledger'[n + 1] = [tx |-> t, ok |-> SettleOk(t), depth |-> 1] /\ t \in Tx
    BY <1>3, MineLedger DEF ChainInv
  <2>3. ledger'[n + 1].ok = SettleOk(t) /\ ledger'[n + 1].tx = t
    BY <2>2
  <2> HIDE DEF n
  <2>4. RevertsAreExplained'
    <3> SUFFICES ASSUME NEW b \in Blocks', ~ledger'[b].ok, ledger'[b].tx.call \in Sound
                 PROVE  NullifierUsed(ledger[b].tx.call)'
      BY DEF RevertsAreExplained
    <3>1. NullifierUsed(ledger'[b].tx.call)
      <4>1. CASE b \in 1..n
        BY <2>1, <2>2, <4>1 DEF CalmChain, RevertsAreExplained, Keeps
      <4>2. CASE b = n + 1
        <5>1. ~SettleOk(t) /\ t.call \in Sound
          BY <2>3, <4>2
        <5>2. Admits(t.from)
          BY <2>2 DEF CalmChain, Admits, Tx
        <5>3. NullifierUsed(t.call)
          BY <5>1, <5>2 DEF SettleOk
        <5>4. QED
          BY <2>3, <4>2, <5>3
      <4>3. QED
        BY <2>1, <4>1, <4>2
    <3>2. PICK c : c = ledger'[b].tx.call
      OBVIOUS
    <3>3. NullifierUsed(c)'
      BY <1>1, <3>1, <3>2
    <3>4. QED
      BY <3>2, <3>3
  <2>5. stale' = {}
    BY <1>3 DEF Mine, CalmChain
  <2>6. QED
    BY <2>4, <2>5 DEF CalmChain
<1>4. CASE UNCHANGED <<ledger, stale>>
  BY <1>4 DEF CalmChain, RevertsAreExplained, NullifierUsed, Blocks
<1>5. QED
  BY <1>2, <1>3, <1>4 DEF Network, Evict

\* Reorgs and the owner's changes are counted and never forgotten.
LEMMA CalmStep ==
  ASSUME ChainInv, RelayersOK, [RelayNext]_vars
  PROVE  /\ reorgs' >= reorgs /\ changes' >= changes
         /\ Calm' => /\ Calm
                     /\ ~Reorg
                     /\ Network \/ UNCHANGED ledger
                     /\ Network \/ UNCHANGED stale
                     /\ UNCHANGED <<registered, authorised>>
<1>1. reorgs \in Nat /\ changes \in Nat
  BY ChainAssumption DEF ChainInv, ChainTypeOK
<1>2. CASE Reorg
  BY <1>1, <1>2 DEF Reorg, owner, Calm
<1>3. CASE Network /\ ~Reorg
  <2>1. UNCHANGED <<registered, authorised, reorgs, changes>>
    BY <1>3 DEF Network, NewBlock, Mine, Evict, owner
  <2>2. QED
    BY <1>1, <1>3, <2>1 DEF Calm
<1>4. CASE Administration
  BY <1>1, <1>4 DEF Administration, RegisterCircuit, SetRelayer, Calm
<1>5. ASSUME UNCHANGED <<ledger, stale, registered, authorised, reorgs, changes>>, ~Reorg
      PROVE  /\ reorgs' >= reorgs /\ changes' >= changes
             /\ Calm' => /\ Calm
                         /\ ~Reorg
                         /\ Network \/ UNCHANGED ledger
                         /\ Network \/ UNCHANGED stale
                         /\ UNCHANGED <<registered, authorised>>
  BY <1>1, <1>5 DEF Calm
<1>6. CASE UNCHANGED chain
  BY <1>2, <1>5, <1>6 DEF chain, owner
<1>7. ASSUME NEW r \in Relayer, Sends(r)
      PROVE  UNCHANGED <<ledger, stale, registered, authorised, reorgs, changes>>
  BY <1>7 DEF Sends, Send, owner
<1>8. QED
  BY <1>2, <1>3, <1>4, <1>5, <1>6, <1>7, RelayChainStep

\* How a job gets to be failed: its budget is spent, or it is condemned.
LEMMA WaysToFail ==
  ASSUME TypeOK, OnRelayersSide, StoreCall, NEW j \in Job
  PROVE  /\ state'[j] \in {"proved", "submitting", "settled", "failed"}
         /\ submissionAttempts'[j] >= submissionAttempts[j]
         /\ state'[j] = "failed" =>
              \/ state[j] = "failed"
              \/ submissionAttempts[j] >= MaxAttempts
              \/ \E r \in Relayer : JobOf(r) = j /\ Condemns(r)
<1> DEFINE Goal == /\ state'[j] \in {"proved", "submitting", "settled", "failed"}
                   /\ submissionAttempts'[j] >= submissionAttempts[j]
                   /\ state'[j] = "failed" =>
                        \/ state[j] = "failed"
                        \/ submissionAttempts[j] >= MaxAttempts
                        \/ \E r \in Relayer : JobOf(r) = j /\ Condemns(r)
<1>1. state[j] \in {"proved", "submitting", "settled", "failed"} /\ submissionAttempts[j] \in Nat
  BY DEF OnRelayersSide, TypeOK
<1>2. ASSUME UNCHANGED <<state, submissionAttempts>> PROVE Goal
  BY <1>1, <1>2
<1>3. ASSUME NEW r \in Relayer, NEW i \in Job, LeaseNextProved(i, r) PROVE Goal
  BY <1>1, <1>3 DEF LeaseNextProved, MoveTo, Transition, TypeOK
<1>4. ASSUME NEW r \in Relayer, NEW kind \in FailureKinds, JobOf(r) \in Job,
             kind = "permanent" => Condemns(r), RecordSubmissionFailure(JobOf(r), kind)
      PROVE  Goal
  <2> DEFINE i == JobOf(r)
             event == ClassifyFailure(kind, submissionAttempts[i], MaxAttempts)
  <2>1. state' = [state EXCEPT ![i] = Transition(state[i], event)]
        /\ CanTransition(state[i], event) /\ UNCHANGED submissionAttempts
    BY <1>4 DEF RecordSubmissionFailure, MoveTo
  <2>2. state[i] \in {"proved", "submitting"} /\ Transition(state[i], event) \in {"proved", "failed"}
    BY <1>4, <2>1 DEF OnRelayersSide, CanTransition, Transition, AfterRetry, ClassifyFailure
  <2>3. Transition(state[i], event) = "failed" =>
          submissionAttempts[i] >= MaxAttempts \/ Condemns(r)
    BY <1>4, <2>2 DEF ClassifyFailure, Transition, AfterRetry, FailureKinds
  <2> HIDE DEF i, event
  <2>4. CASE i = j
    BY <1>1, <1>4, <2>1, <2>2, <2>3, <2>4 DEF TypeOK, i
  <2>5. CASE i # j
    BY <1>1, <2>1, <2>5 DEF TypeOK
  <2>6. QED
    BY <2>4, <2>5
<1>5. ASSUME NEW i \in Job, ConfirmSettled(i) \/ UnwindSettled(i) \/ ReleaseLease(i)
      PROVE  Goal
  <2>1. PICK e \in {"settlement_confirmed", "reorged", "retry_scheduled", "lease_expired"} :
          ApplyEvent(i, e)
    BY <1>5 DEF ConfirmSettled, UnwindSettled, ReleaseLease
  <2>2. state[i] \in {"proved", "submitting", "settled", "failed"} /\ CanTransition(state[i], e)
    BY <2>1 DEF ApplyEvent, OnRelayersSide
  <2>3. Transition(state[i], e) \in {"settled", "proved"}
    BY <2>2 DEF CanTransition, Transition, AfterRetry
  <2>4. state' = [state EXCEPT ![i] = Transition(state[i], e)] /\ UNCHANGED submissionAttempts
    BY <2>1 DEF ApplyEvent, MoveTo
  <2>5. QED
    BY <1>1, <2>3, <2>4 DEF TypeOK
<1>6. ASSUME NEW rows \in SUBSET Expired, ReapExpired(rows) PROVE Goal
  <2>1. state'[j] = (IF j \in rows THEN Transition(state[j], ReapEvent(j)) ELSE state[j])
        /\ UNCHANGED submissionAttempts
    BY <1>6 DEF ReapExpired
  <2>2. CASE j \in rows
    <3>1. state[j] = "submitting"
      BY <1>1, <2>2 DEF Expired, IsInFlight
    <3>2. \/ Transition(state[j], ReapEvent(j)) = "proved"
          \/ /\ Transition(state[j], ReapEvent(j)) = "failed"
             /\ submissionAttempts[j] >= MaxAttempts
      BY <3>1 DEF ReapEvent, ClassifyFailure, Transition, AfterRetry
    <3>3. QED
      BY <1>1, <2>1, <2>2, <3>2
  <2>3. QED
    BY <1>1, <2>1, <2>2
<1>7. ASSUME NEW i \in Job, NEW r, LeaseRunsOut(i) \/ RetryComesDue(i) \/ RenewLease(i, r)
      PROVE  UNCHANGED <<state, submissionAttempts>>
  BY <1>7 DEF LeaseRunsOut, RetryComesDue, RenewLease
<1>8. UNCHANGED columns => UNCHANGED <<state, submissionAttempts>>
  BY DEF columns
<1>9. QED
  BY <1>2, <1>3, <1>4, <1>5, <1>6, <1>7, <1>8 DEF StoreCall

LEMMA RevertIsExplainedStep ==
  ASSUME ChainInv, RelayersOK, DeservedInv, [RelayNext]_vars, Calm', NEW r \in Relayer
  PROVE  RevertIsExplained(r)'
<1> SUFFICES ASSUME pc'[r] = "reverted", JobOf(r)' \in Sound PROVE NullifierUsed(JobOf(r))'
  BY DEF RevertIsExplained, At
<1>1. work'[r] = work[r] /\ (pc[r] = "reverted" \/ (pc[r] = "tracking" /\ Reverted(work[r].tx)))
  BY RevertIsSeen
<1>2. Calm /\ CalmChain /\ RevertIsExplained(r) /\ ~Reorg /\ (Network \/ UNCHANGED ledger)
  BY CalmStep DEF DeservedInv
<1>3. PICK j : j = JobOf(r) /\ j = JobOf(r)'
  BY <1>1 DEF JobOf
<1>4. NullifierUsed(j)
  <2>1. CASE pc[r] = "reverted"
    BY <1>2, <1>3, <2>1 DEF RevertIsExplained, At
  <2>2. CASE pc[r] = "tracking" /\ Reverted(work[r].tx)
    <3>1. work[r].tx.call = j
      BY <1>3, <2>2 DEF RelayersOK, AttemptOK, Following
    <3>2. PICK b \in Blocks : ledger[b].tx = work[r].tx /\ ledger[b].ok = FALSE
      BY <1>2, <2>2 DEF Reverted, Receipt, CalmChain
    <3>3. QED
      BY <1>2, <1>3, <3>1, <3>2 DEF CalmChain, RevertsAreExplained
  <2>3. QED
    BY <1>1, <2>1, <2>2
<1>5. NullifierUsed(j)'
  BY <1>2, <1>4, SpentStaysSpent DEF ChainInv
<1>6. QED
  BY <1>3, <1>5

LEMMA DeservedStep ==
  ASSUME RelayInv, DeservedInv, [RelayNext]_vars
  PROVE  DeservedInv'
<1>1. StoreCall
  BY RelayCallsStore DEF RelayInv
<1>2. OnRelayersSide'
  BY <1>1, WaysToFail DEF OnRelayersSide, RelayInv, DeservedInv
<1>3. FailureIsDeserved'
  <2> SUFFICES ASSUME NEW j \in Job, state'[j] = "failed", j \in Sound
               PROVE  submissionAttempts'[j] >= MaxAttempts \/ changes' > 0 \/ reorgs' > 0
    BY DEF FailureIsDeserved
  <2>1. /\ submissionAttempts[j] \in Nat /\ submissionAttempts'[j] \in Nat
        /\ changes \in Nat /\ reorgs \in Nat /\ changes' \in Nat /\ reorgs' \in Nat
    BY <1>1, StoreCallsAreSteps, TypeStep, ChainStep, ChainAssumption
       DEF RelayInv, TypeOK, ChainInv, ChainTypeOK
  <2>2. /\ submissionAttempts'[j] >= submissionAttempts[j]
        /\ reorgs' >= reorgs /\ changes' >= changes
    BY <1>1, WaysToFail, CalmStep DEF RelayInv, DeservedInv
  <2>3. \/ state[j] = "failed"
        \/ submissionAttempts[j] >= MaxAttempts
        \/ \E r \in Relayer : JobOf(r) = j /\ Condemns(r)
    BY <1>1, WaysToFail DEF RelayInv, DeservedInv
  <2>4. CASE state[j] = "failed" \/ submissionAttempts[j] >= MaxAttempts
    BY <2>1, <2>2, <2>4, StoreAssumption DEF DeservedInv, FailureIsDeserved
  <2>5. ASSUME NEW r \in Relayer, JobOf(r) = j, Condemns(r) PROVE ~Calm
    BY <2>5 DEF Condemns, DeservedInv, RevertIsExplained
  <2>6. ~Calm => changes' > 0 \/ reorgs' > 0
    BY <2>1, <2>2 DEF Calm
  <2>7. QED
    BY <2>3, <2>4, <2>5, <2>6
<1>4. ASSUME Calm' PROVE CalmChain'
  BY <1>4, CalmStep, CalmChainStep DEF RelayInv, DeservedInv
<1>5. ASSUME Calm', NEW r \in Relayer PROVE RevertIsExplained(r)'
  BY <1>5, RevertIsExplainedStep DEF RelayInv
<1>6. QED
  BY <1>2, <1>3, <1>4, <1>5 DEF DeservedInv

\* However many relayers race, crash, replace and lose answers, a job whose
\* proof is sound fails only on a spent budget, until the owner changes the
\* contract or a reorg takes blocks back. It rests on RevertsAreExplained: on a
\* calm chain a sound transaction reverts only against a spent nullifier, and
\* spent it stays until the relayer asks.
THEOREM FailuresAreDeserved == RelaySpec => []FailureIsDeserved
<1>1. RelayInit => DeservedInv
  BY NoBlocks DEF RelayInit, ChainInit, DeservedInv, OnRelayersSide, FailureIsDeserved,
     CalmChain, RevertsAreExplained, RevertIsExplained, At
<1>2. RelayInv /\ DeservedInv /\ [RelayNext]_vars => DeservedInv'
  BY DeservedStep
<1>3. DeservedInv => FailureIsDeserved
  BY DEF DeservedInv
<1>4. QED
  BY <1>1, <1>2, <1>3, RelayInductive, PTL DEF RelaySpec
-----------------------------------------------------------------------------
(* Settlements.                                                             *)

\* Until a reorg, what is settled is settled on chain, and so is the job of
\* whoever is about to say so.
ConsumedInv ==
  reorgs = 0 =>
    /\ \A j \in Job : state[j] = "settled" => NullifierUsed(j)
    /\ \A r \in Relayer : pc[r] \in {"deep", "elsewhere"} => NullifierUsed(JobOf(r))

\* A relayer gets ready to record a settlement only by seeing it on chain: its
\* own transaction deep, or the nullifier spent.
LEMMA SettlementIsSeen ==
  ASSUME RelayersOK, [RelayNext]_vars, NEW r \in Relayer, pc'[r] \in {"deep", "elsewhere"}
  PROVE  /\ work'[r] = work[r]
         /\ \/ pc[r] \in {"deep", "elsewhere"}
            \/ pc[r] = "tracking" /\ BuriedDeep(work[r].tx)
            \/ NullifierUsed(JobOf(r))
<1> USE DEF RelayersOK
<1>1. CASE ~Acts(r)
  BY <1>1, OthersStay
<1>2. ASSUME Rest(r) PROVE FALSE
  BY <1>2 DEF Rest, GoTo
<1>3. ASSUME NEW p, p \notin {"deep", "elsewhere"}, GoTo(r, p) PROVE FALSE
  BY <1>3 DEF GoTo
<1>4. ASSUME \/ Restart(r) \/ NodeFails(r) \/ BroadcastAnswerLost(r) \/ WriteFails(r)
             \/ BroadcastRefused(r) \/ SeeOrphaned(r)
             \/ Confirm(r) \/ MarkSettledElsewhere(r) \/ LeaseLost(r)
      PROVE  FALSE
  BY <1>2, <1>4, FailAttemptRests
     DEF Restart, NodeFails, BroadcastAnswerLost, WriteFails, TryLater, BroadcastRefused,
         SeeOrphaned, Confirm, MarkSettledElsewhere, LeaseLost
<1>5. ASSUME Check(r) \/ LookIntoRevert(r) PROVE NullifierUsed(JobOf(r)) /\ UNCHANGED work
  BY <1>2, <1>3, <1>5, FailAttemptRests DEF Check, LookIntoRevert, ExplainRevert, TryLater
<1>6. ASSUME \/ \E j \in Job : Take(r, j)
             \/ Resume(r) \/ StartFresh(r) \/ Broadcast(r) \/ NoteBroadcast(r)
             \/ SeeGap(r) \/ CrossGap(r) \/ CrossGapFails(r) \/ Bump(r) \/ NoteResend(r)
      PROVE  FALSE
  BY <1>3, <1>6 DEF Take, Resume, StartFresh, Broadcast, NoteBroadcast, SeeGap, CrossGap,
     CrossGapFails, Bump, NoteResend
<1>7. CASE SeeMined(r)
  BY <1>3, <1>7 DEF SeeMined, At
<1>8. QED
  BY <1>1, <1>4, <1>5, <1>6, <1>7 DEF Acts, Progress

\* A job is settled only by a relayer that is ready to record it.
LEMMA WaysToSettle ==
  ASSUME TypeOK, OnRelayersSide, StoreCall, NEW j \in Job, state'[j] = "settled"
  PROVE  \/ state[j] = "settled"
         \/ \E r \in Relayer : JobOf(r) = j /\ pc[r] \in {"deep", "elsewhere"}
<1> DEFINE Goal == \/ state[j] = "settled"
                   \/ \E r \in Relayer : JobOf(r) = j /\ pc[r] \in {"deep", "elsewhere"}
<1>1. ASSUME NEW i \in Job, NEW s, MoveTo(i, s), s # "settled" \/ i # j PROVE Goal
  BY <1>1 DEF MoveTo, TypeOK
<1>2. ASSUME NEW r \in Relayer, NEW i \in Job, LeaseNextProved(i, r) PROVE Goal
  BY <1>1, <1>2 DEF LeaseNextProved, Transition
<1>3. ASSUME NEW i \in Job, NEW kind \in FailureKinds, RecordSubmissionFailure(i, kind)
      PROVE  Goal
  <2> DEFINE event == ClassifyFailure(kind, submissionAttempts[i], MaxAttempts)
  <2>1. MoveTo(i, Transition(state[i], event))
    BY <1>3 DEF RecordSubmissionFailure
  <2>2. Transition(state[i], event) # "settled"
    BY DEF ClassifyFailure, Transition, AfterRetry
  <2>3. QED
    BY <1>1, <2>1, <2>2
<1>4. ASSUME NEW i \in Job, UnwindSettled(i) \/ ReleaseLease(i) PROVE Goal
  <2>1. PICK e \in {"reorged", "retry_scheduled", "lease_expired"} : ApplyEvent(i, e)
    BY <1>4 DEF UnwindSettled, ReleaseLease
  <2>2. Transition(state[i], e) # "settled"
    BY DEF Transition, AfterRetry
  <2>3. QED
    BY <1>1, <2>1, <2>2 DEF ApplyEvent
<1>5. ASSUME NEW rows \in SUBSET Expired, ReapExpired(rows) PROVE Goal
  <2>1. j \in rows => Transition(state[j], ReapEvent(j)) # "settled"
    BY DEF Expired, IsInFlight, ReapEvent, ClassifyFailure, Transition, AfterRetry
  <2>2. QED
    BY <1>5, <2>1 DEF ReapExpired
<1>6. ASSUME NEW r \in Relayer, JobOf(r) \in Job, pc[r] \in {"deep", "elsewhere"},
             ConfirmSettled(JobOf(r))
      PROVE  Goal
  BY <1>1, <1>6 DEF ConfirmSettled, ApplyEvent
<1>7. ASSUME NEW i \in Job, NEW r, LeaseRunsOut(i) \/ RetryComesDue(i) \/ RenewLease(i, r)
      PROVE  Goal
  BY <1>7 DEF LeaseRunsOut, RetryComesDue, RenewLease
<1>8. UNCHANGED columns => Goal
  BY DEF columns
<1>9. QED
  BY <1>2, <1>3, <1>4, <1>5, <1>6, <1>7, <1>8 DEF StoreCall

LEMMA SpentInNoReorg ==
  ASSUME ChainInv, RelayersOK, [RelayNext]_vars, reorgs' = 0
  PROVE  reorgs = 0 /\ \A c : NullifierUsed(c) => NullifierUsed(c)'
<1>1. reorgs \in Nat /\ reorgs' >= reorgs
  BY CalmStep, ChainAssumption DEF ChainInv, ChainTypeOK
<1>2. ~Reorg
  BY <1>1 DEF Reorg
<1>3. Network \/ UNCHANGED ledger
  BY RelayChainStep DEF Administration, RegisterCircuit, SetRelayer, Sends, Send, chain
<1>4. QED
  BY <1>1, <1>2, <1>3, SpentStaysSpent DEF ChainInv

LEMMA ConsumedStep ==
  ASSUME RelayInv, OnRelayersSide, ConsumedInv, [RelayNext]_vars
  PROVE  ConsumedInv'
<1> SUFFICES ASSUME reorgs' = 0
             PROVE  /\ \A j \in Job : state'[j] = "settled" => NullifierUsed(j)'
                    /\ \A r \in Relayer :
                         pc'[r] \in {"deep", "elsewhere"} => NullifierUsed(JobOf(r))'
  BY DEF ConsumedInv
<1>1. reorgs = 0 /\ \A c : NullifierUsed(c) => NullifierUsed(c)'
  BY SpentInNoReorg DEF RelayInv
<1>2. ASSUME NEW j \in Job, state'[j] = "settled" PROVE NullifierUsed(j)'
  BY <1>1, <1>2, RelayCallsStore, WaysToSettle DEF RelayInv, ConsumedInv
<1>3. ASSUME NEW r \in Relayer, pc'[r] \in {"deep", "elsewhere"}
      PROVE  NullifierUsed(JobOf(r))'
  <2>1. /\ work'[r] = work[r]
        /\ \/ pc[r] \in {"deep", "elsewhere"}
           \/ pc[r] = "tracking" /\ BuriedDeep(work[r].tx)
           \/ NullifierUsed(JobOf(r))
    BY <1>3, SettlementIsSeen DEF RelayInv
  <2>2. ASSUME pc[r] = "tracking", BuriedDeep(work[r].tx) PROVE NullifierUsed(JobOf(r))
    <3>1. work[r].tx.call = JobOf(r)
      BY <2>2 DEF RelayInv, RelayersOK, AttemptOK, Following
    <3>2. QED
      BY <2>2, <3>1 DEF BuriedDeep, NullifierUsed
  <2>3. PICK c : c = JobOf(r) /\ c = JobOf(r)'
    BY <2>1 DEF JobOf
  <2>4. NullifierUsed(c)
    BY <1>1, <2>1, <2>2, <2>3 DEF ConsumedInv
  <2>5. NullifierUsed(c)'
    BY <1>1, <2>4
  <2>6. QED
    BY <2>3, <2>5
<1>4. QED
  BY <1>2, <1>3

\* Until the first reorg, and whatever the relayers, their crashes, their lost
\* answers and the owner do, a job that says it is settled is settled on chain.
\* What a reorg then takes back is the watchers' business.
THEOREM SettledIsSettledUntilReorged ==
  RelaySpec => [](reorgs = 0 => SettledIsConsumedOrWatched)
<1>1. RelayInit => OnRelayersSide /\ ConsumedInv
  BY DEF RelayInit, OnRelayersSide, ConsumedInv
<1>2. (RelayInv /\ OnRelayersSide /\ ConsumedInv) /\ [RelayNext]_vars
        => (OnRelayersSide /\ ConsumedInv)'
  <2>1. ASSUME RelayInv, OnRelayersSide, [RelayNext]_vars PROVE OnRelayersSide'
    BY <2>1, RelayCallsStore, WaysToFail DEF OnRelayersSide, RelayInv
  <2>2. QED
    BY <2>1, ConsumedStep
<1>3. ConsumedInv => (reorgs = 0 => SettledIsConsumedOrWatched)
  BY DEF ConsumedInv, SettledIsConsumedOrWatched
<1>4. QED
  BY <1>1, <1>2, <1>3, RelayInductive, PTL DEF RelaySpec
-----------------------------------------------------------------------------
(* What a relayer follows, while the table is kept.                         *)

\* Whoever is at work on a job holds a lease that has not run out.
HoldsOn(r) ==
  ~At(r, "idle") => leasedBy[JobOf(r)] = r /\ leaseExpiry[JobOf(r)] = "future"

\* Before a broadcast is on record the job has no live row; after it the row
\* to resume from names what the relayer follows.
RowAtHand(r) ==
  /\ pc[r] \in {"checking", "sending", "sent"} => \A i \in RowsOf(JobOf(r)) : ~Live(i)
  /\ pc[r] \in Following => /\ Resumes(JobOf(r))
                            /\ settlements[Latest(JobOf(r))].tx = work[r].tx

OnRecordInv ==
  /\ OnRelayersSide
  /\ LiveSettlementIsLatest
  /\ \A r \in Relayer : HoldsOn(r) /\ RowAtHand(r)

\* Disturbances are counted and never forgotten.
LEMMA NoDisturbance ==
  ASSUME RelayersOK, [RelayNext]_vars, disturbances' = 0
  PROVE  disturbances = 0 /\ ~Disturb
<1>1. disturbances \in Nat
  BY RelayAssumption DEF RelayersOK
<1>2. ~Disturb
  BY <1>1 DEF Disturb
<1>3. ASSUME NEW r \in Relayer, Progress(r) PROVE UNCHANGED disturbances
  BY <1>2, <1>3
     DEF Progress, Take, Resume, StartFresh, Check, Broadcast, BroadcastRefused,
         NoteBroadcast, SeeMined, SeeOrphaned, SeeGap, CrossGap, Bump, NoteResend,
         LookIntoRevert, Confirm, MarkSettledElsewhere, LeaseLost
<1>4. ASSUME NEW r \in Relayer, Watch(r) \/ Renew(r) PROVE UNCHANGED disturbances
  BY <1>4 DEF Watch, Notice, Unwind, Renew, relayers
<1>5. ASSUME NEW r \in Relayer,
             \/ Restart(r) \/ NodeFails(r) \/ BroadcastAnswerLost(r)
             \/ BumpAnswerLost(r) \/ CrossGapFails(r) \/ WriteFails(r)
      PROVE  FALSE
  BY <1>2, <1>5 DEF Restart, NodeFails, BroadcastAnswerLost, BumpAnswerLost, CrossGapFails,
     WriteFails
<1>6. ASSUME \/ Reap \/ UNCHANGED vars \/ \E j \in Job : TimePasses(j)
             \/ (Network \/ Administration) /\ UNCHANGED <<columns, settlements, relayers>>
      PROVE  UNCHANGED disturbances
  BY <1>2, <1>6 DEF Reap, TimePasses, vars, relayers
<1>7. QED
  BY <1>2, <1>3, <1>4, <1>5, <1>6 DEF RelayNext

\* The table follows the relayers in this step, and no other comes near it.
RecordsKept ==
  /\ \A j \in Job : TimePasses(j) => ~LeaseRunsOut(j) \/ \A r \in Relayer : ~Holding(r, j)
  /\ \A r \in Relayer :
       /\ StartFresh(r) => ~Resumes(JobOf(r))
       /\ NoteBroadcast(r) => RecordSubmission(JobOf(r), work[r].sent)
       /\ NoteResend(r) => ReplaceSubmissionTx(JobOf(r), work[r].tx, work[r].sent)

\* Nothing is kept from the table where nothing is disturbed, or nothing that
\* matters to it.
LEMMA TableIsKept == ASSUME TypeOK, TableKept \/ ~Disturb PROVE RecordsKept
<1>1. ASSUME NEW j \in Job, TimePasses(j), LeaseRunsOut(j), NEW r \in Relayer, Holding(r, j)
      PROVE  FALSE
  BY <1>1 DEF TimePasses, LeaseRunsOut, RetryComesDue, TypeOK
<1>2. QED
  BY <1>1 DEF RecordsKept, StartFresh, NoteBroadcast, NoteResend

LEMMA HeldIsSubmitting ==
  ASSUME RelayInv, OnRelayersSide, NEW r \in Relayer, NEW j \in Job, leasedBy[j] = r
  PROVE  state[j] = "submitting"
<1>1. r # NoOne
  BY RelayAssumption, StoreAssumption
<1>2. IsInFlight(state[j])
  BY <1>1 DEF RelayInv, RowRules, LeaseIsWhole
<1>3. QED
  BY <1>2 DEF OnRelayersSide, IsInFlight

\* Calls about one job leave the lease of another alone.
LEMMA OtherLeases ==
  ASSUME TypeOK, NEW i, NEW j \in Job, i # j,
         \/ \E a : LeaseNextProved(i, a) \/ RenewLease(i, a)
         \/ \E kind : RecordSubmissionFailure(i, kind)
         \/ ConfirmSettled(i) \/ UnwindSettled(i) \/ ReleaseLease(i) \/ LeaseRunsOut(i)
  PROVE  leasedBy'[j] = leasedBy[j] /\ leaseExpiry'[j] = leaseExpiry[j]
BY DEF TypeOK, LeaseNextProved, GrantLease, RenewLease, RecordSubmissionFailure,
   ConfirmSettled, UnwindSettled, ReleaseLease, ApplyEvent, ClearLease, LeaseRunsOut

\* A lease is its holder's to lose.
LEMMA LeaseSurvives ==
  ASSUME RecordsKept, RelayInv, OnRecordInv, [RelayNext]_vars,
         NEW q \in Relayer, ~At(q, "idle"), ~Acts(q)
  PROVE  leasedBy'[JobOf(q)] = q /\ leaseExpiry'[JobOf(q)] = "future"
<1> DEFINE j == JobOf(q)
           Goal == leasedBy'[j] = q /\ leaseExpiry'[j] = "future"
<1>1. j \in Job /\ leasedBy[j] = q /\ leaseExpiry[j] = "future"
  BY AttemptHasJob DEF RelayInv, OnRecordInv, HoldsOn
<1>2. state[j] = "submitting"
  BY <1>1, HeldIsSubmitting DEF OnRecordInv
<1>3. TypeOK
  BY DEF RelayInv
<1>4. ASSUME NEW r \in Relayer, r # q, ~At(r, "idle") PROVE JobOf(r) # j
  BY <1>1, <1>4 DEF OnRecordInv, HoldsOn
<1> HIDE DEF j
<1>5. ASSUME UNCHANGED <<leasedBy, leaseExpiry>> PROVE Goal
  BY <1>1, <1>5
<1>6. UNCHANGED columns => Goal
  BY <1>5 DEF columns
<1>7. ASSUME NEW r \in Relayer, NEW kind, r # q, ~At(r, "idle"), FailAttempt(r, kind) PROVE Goal
  BY <1>1, <1>3, <1>4, <1>6, <1>7, OtherLeases DEF FailAttempt
<1>8. ASSUME NEW r \in Relayer, r # q, Acts(r) PROVE Goal
  <2>1. ASSUME NEW i \in Job, Take(r, i) PROVE Goal
    <3>1. LeaseNextProved(i, r) /\ i # j
      BY <1>2, <2>1 DEF Take, LeaseNextProved, Waiting
    <3>2. QED
      BY <1>1, <1>3, <3>1, OtherLeases
  <2>2. CASE \/ Check(r) \/ BroadcastRefused(r) \/ SeeOrphaned(r) \/ LookIntoRevert(r)
             \/ NodeFails(r) \/ BroadcastAnswerLost(r)
    BY <1>6, <1>7, <1>8, <2>2 DEF Check, BroadcastRefused, SeeOrphaned, LookIntoRevert,
       ExplainRevert, NodeFails, BroadcastAnswerLost, TryLater, At
  <2>3. CASE Confirm(r) \/ MarkSettledElsewhere(r)
    <3>1. ~At(r, "idle") /\ (ConfirmSettled(JobOf(r)) \/ UNCHANGED columns)
      BY <2>3 DEF Confirm, MarkSettledElsewhere, ConfirmSettlement, At
    <3>2. QED
      BY <1>1, <1>3, <1>4, <1>6, <1>8, <3>1, OtherLeases
  <2>4. CASE Restart(r)
    <3>1. UNCHANGED columns \/ (~At(r, "idle") /\ ReleaseLease(JobOf(r)))
      BY <2>4 DEF Restart
    <3>2. QED
      BY <1>1, <1>3, <1>4, <1>6, <1>8, <3>1, OtherLeases
  <2>5. CASE \/ Resume(r) \/ StartFresh(r) \/ Broadcast(r) \/ NoteBroadcast(r) \/ SeeMined(r)
             \/ SeeGap(r) \/ CrossGap(r) \/ Bump(r) \/ NoteResend(r) \/ LeaseLost(r)
             \/ CrossGapFails(r) \/ WriteFails(r)
    BY <1>6, <2>5 DEF Resume, StartFresh, Broadcast, NoteBroadcast, SeeMined, SeeGap,
       CrossGap, Bump, NoteResend, LeaseLost, CrossGapFails, WriteFails
  <2>6. QED
    BY <1>8, <2>1, <2>2, <2>3, <2>4, <2>5 DEF Acts, Progress
<1>9. ASSUME NEW r \in Relayer, Watch(r) PROVE Goal
  <2>1. CASE UNCHANGED columns
    BY <1>6, <2>1
  <2>2. CASE RecordReorg(noticed[r].job, noticed[r].tx)
    <3>1. UnwindSettled(noticed[r].job)
      BY <2>2 DEF RecordReorg
    <3>2. noticed[r].job # j
      BY <1>2, <3>1 DEF UnwindSettled, ApplyEvent, CanTransition, Transition
    <3>3. QED
      BY <1>1, <1>3, <3>1, <3>2, OtherLeases
  <2>3. QED
    BY <1>9, <2>1, <2>2 DEF Watch, Notice, Unwind
<1>10. ASSUME NEW r \in Relayer, Renew(r) PROVE Goal
  <2>1. leaseExpiry' = [leaseExpiry EXCEPT ![JobOf(r)] = "future"] /\ leasedBy' = leasedBy
    BY <1>10 DEF Renew, RenewLease
  <2>2. QED
    BY <1>1, <1>3, <2>1 DEF TypeOK
<1>11. ASSUME NEW r \in Relayer, BumpAnswerLost(r) PROVE Goal
  BY <1>6, <1>11 DEF BumpAnswerLost
<1>12. ASSUME NEW i \in Job, TimePasses(i) PROVE Goal
  <2>1. CASE RetryComesDue(i)
    BY <1>5, <2>1 DEF RetryComesDue
  <2>2. CASE LeaseRunsOut(i) /\ i # j
    BY <1>1, <1>3, <2>2, OtherLeases
  <2>3. CASE LeaseRunsOut(i) /\ i = j
    <3>1. Holding(q, i)
      BY <1>1, <2>3 DEF Holding, j
    <3>2. QED
      BY <1>12, <2>3, <3>1 DEF RecordsKept
  <2>4. QED
    BY <1>12, <2>1, <2>2, <2>3 DEF TimePasses
<1>13. ASSUME Reap PROVE Goal
  <2>1. PICK rows \in SUBSET Expired : ReapExpired(rows)
    BY <1>13 DEF Reap
  <2>2. j \notin rows
    BY <1>1, <2>1 DEF Expired
  <2>3. QED
    BY <1>1, <2>1, <2>2 DEF ReapExpired
<1>14. ASSUME \/ UNCHANGED vars
              \/ (Network \/ Administration) /\ UNCHANGED <<columns, settlements, relayers>>
       PROVE  Goal
  BY <1>6, <1>14 DEF vars
<1>15. QED
  BY <1>8, <1>9, <1>10, <1>11, <1>12, <1>13, <1>14 DEF RelayNext, Acts, j

\* The rows of a job are as they were.
SameRows(j) ==
  RowsOf(j)' = RowsOf(j) /\ \A i \in RowsOf(j) : settlements'[i] = settlements[i]

\* Only the relayer at work on a job writes to its rows.
LEMMA RowsAreItsOwn ==
  ASSUME RecordsKept, RelayInv, OnRecordInv, [RelayNext]_vars,
         NEW q \in Relayer, ~At(q, "idle"), ~Acts(q), NEW j, j = JobOf(q)
  PROVE  SameRows(j)
<1>1. j \in Job /\ leasedBy[j] = q
  BY AttemptHasJob DEF RelayInv, OnRecordInv, HoldsOn
<1>2. state[j] = "submitting"
  BY <1>1, HeldIsSubmitting DEF OnRecordInv
<1>3. TableOK /\ RelayersOK
  BY DEF RelayInv
<1>4. ASSUME NEW r \in Relayer, Acts(r), ~At(r, "idle") PROVE JobOf(r) # j
  BY <1>1, <1>4 DEF OnRecordInv, HoldsOn
<1>5. ASSUME Rows' = Rows,
             \A i \in Rows : /\ settlements'[i].job = settlements[i].job
                             /\ settlements[i].job = j => settlements'[i] = settlements[i]
      PROVE  SameRows(j)
  BY <1>5 DEF SameRows, RowsOf
<1>6. CASE UNCHANGED settlements
  BY <1>6 DEF SameRows, RowsOf, Rows
<1>7. ASSUME NEW r \in Relayer, NoteBroadcast(r), RecordSubmission(JobOf(r), work[r].sent)
      PROVE  SameRows(j)
  <2>1. JobOf(r) # j
    BY <1>4, <1>7 DEF Acts, Progress, NoteBroadcast, At
  <2> DEFINE t == work[r].sent
  <2>2. \/ UNCHANGED settlements
        \/ /\ Rows' = 1..(Len(settlements) + 1)
           /\ \A i \in Rows : settlements'[i] = settlements[i]
           /\ settlements'[Len(settlements) + 1] =
                [job |-> JobOf(r), tx |-> t, confirmed |-> FALSE, reorged |-> FALSE]
    <3>1. JobOf(r) \in Job /\ t \in Tx /\ t.call = JobOf(r)
      BY <1>3, <1>7, SentIsOwn
    <3> HIDE DEF t
    <3>2. RecordSubmission(JobOf(r), t)
      BY <1>7 DEF t
    <3>3. QED
      BY <1>3, <3>1, <3>2, RecordSubmissionTable
  <2> HIDE DEF t
  <2>3. Rows = 1..Len(settlements) /\ Len(settlements) \in Nat
    BY <1>3, RowsAre
  <2>4. QED
    BY <1>6, <2>1, <2>2, <2>3 DEF SameRows, RowsOf
<1>8. ASSUME NEW r \in Relayer, NoteResend(r),
             ReplaceSubmissionTx(JobOf(r), work[r].tx, work[r].sent)
      PROVE  SameRows(j)
  <2>1. JobOf(r) # j
    BY <1>4, <1>8 DEF Acts, Progress, NoteResend, At
  <2>2. QED
    BY <1>3, <1>5, <1>8, <2>1, SentIsOwn, ReplaceTable
<1>9. ASSUME NEW r \in Relayer, Confirm(r), ConfirmSettlement(JobOf(r), work[r].tx)
      PROVE  SameRows(j)
  <2>1. JobOf(r) # j
    BY <1>4, <1>9 DEF Acts, Progress, Confirm, At
  <2>2. QED
    BY <1>3, <1>5, <1>9, <2>1, ConfirmTable
<1>10. ASSUME NEW r \in Relayer, RecordReorg(noticed[r].job, noticed[r].tx) PROVE SameRows(j)
  <2>1. noticed[r].job # j
    BY <1>2, <1>10 DEF RecordReorg, UnwindSettled, ApplyEvent, CanTransition, Transition
  <2>2. QED
    BY <1>3, <1>5, <1>10, <2>1, ReorgTable
<1>11. QED
  BY <1>6, <1>7, <1>8, <1>9, <1>10, TableWrites

\* The same rows have the same latest.
LEMMA SameRowsSameLatest ==
  ASSUME TableOK, NEW j, SameRows(j)
  PROVE  /\ Latest(j)' = Latest(j)
         /\ Resumes(j) => /\ Resumes(j)'
                          /\ settlements'[Latest(j)] = settlements[Latest(j)]
<1>1. Latest(j)' = Latest(j)
  BY DEF SameRows, Latest
<1>2. ASSUME Resumes(j)
      PROVE  Resumes(j)' /\ settlements'[Latest(j)] = settlements[Latest(j)]
  <2>1. Latest(j) \in RowsOf(j) /\ RowsOf(j) # {}
    BY <1>2, LatestIsLast DEF Resumes
  <2>2. settlements'[Latest(j)] = settlements[Latest(j)] /\ RowsOf(j)' # {}
    BY <2>1 DEF SameRows
  <2>3. QED
    BY <1>1, <1>2, <2>2 DEF Resumes, Live
<1>3. QED
  BY <1>1, <1>2

\* A relayer whose rows and attempt stay as they are has its row at hand.
LEMMA SameRowAtHand ==
  ASSUME TableOK, NEW r \in Relayer, NEW j, JobOf(r)' = j, SameRows(j),
         pc'[r] \in {"checking", "sending", "sent"} => \A i \in RowsOf(j) : ~Live(i),
         pc'[r] \in Following => /\ Resumes(j)
                                 /\ settlements[Latest(j)].tx = work'[r].tx
  PROVE  RowAtHand(r)'
<1>1. JobOf(r)' = j
  OBVIOUS
<1>2. /\ Latest(j)' = Latest(j)
      /\ Resumes(j) => /\ Resumes(j)'
                       /\ settlements'[Latest(j)] = settlements[Latest(j)]
  BY <1>1, SameRowsSameLatest
<1>3. ASSUME pc'[r] \in {"checking", "sending", "sent"}
      PROVE  \A i \in RowsOf(j)' : ~Live(i)'
  BY <1>1, <1>3 DEF SameRows, Live
<1>4. ASSUME pc'[r] \in Following
      PROVE  Resumes(j)' /\ settlements'[Latest(j)'].tx = work'[r].tx
  BY <1>1, <1>2, <1>4
<1>5. Following' = Following
  BY DEF Following
<1>6. QED
  BY <1>1, <1>3, <1>4, <1>5 DEF RowAtHand

\* With nothing to resume there is no live row at all.
LEMMA NothingToResume ==
  ASSUME TableOK, LiveSettlementIsLatest, NEW j, ~Resumes(j)
  PROVE  \A i \in RowsOf(j) : ~Live(i)
BY DEF Resumes, LiveSettlementIsLatest, RowsOf

\* What a relayer's own act does to its lease: one that goes on with an
\* attempt keeps the one it took it with.
LEMMA OwnActs ==
  ASSUME RelayersOK, NEW q \in Relayer, Acts(q), pc'[q] # "idle"
  PROVE  \/ \E j \in Job : Take(q, j)
         \/ Check(q) /\ UNCHANGED <<columns, work, settlements>>
         \/ Resume(q) \/ StartFresh(q)
         \/ Broadcast(q) \/ NoteBroadcast(q) \/ SeeMined(q) \/ SeeGap(q) \/ CrossGap(q)
         \/ CrossGapFails(q) \/ Bump(q) \/ NoteResend(q)
         \/ LookIntoRevert(q) /\ GoTo(q, "elsewhere") /\ UNCHANGED <<columns, work>>
<1> USE DEF RelayersOK
<1>1. ~Rest(q)
  BY DEF Rest, GoTo
<1>2. \A kind : ~FailAttempt(q, kind)
  BY <1>1, FailAttemptRests
<1>3. ~(\/ Restart(q) \/ NodeFails(q) \/ BroadcastAnswerLost(q) \/ WriteFails(q)
        \/ BroadcastRefused(q) \/ SeeOrphaned(q) \/ Confirm(q)
        \/ MarkSettledElsewhere(q) \/ LeaseLost(q))
  BY <1>1, <1>2 DEF Restart, NodeFails, BroadcastAnswerLost, WriteFails, TryLater,
     BroadcastRefused, SeeOrphaned, Confirm, MarkSettledElsewhere, LeaseLost
<1>4. Check(q) => UNCHANGED <<columns, work, settlements>>
  BY <1>2 DEF Check, TryLater
<1>5. LookIntoRevert(q) => GoTo(q, "elsewhere") /\ UNCHANGED <<columns, work>>
  BY <1>2 DEF LookIntoRevert, ExplainRevert
<1>6. QED
  BY <1>3, <1>4, <1>5 DEF Acts, Progress

LEMMA HoldsOnStep ==
  ASSUME RecordsKept, RelayInv, OnRecordInv, [RelayNext]_vars, NEW q \in Relayer
  PROVE  HoldsOn(q)'
<1> SUFFICES ASSUME pc'[q] # "idle"
             PROVE  leasedBy'[JobOf(q)'] = q /\ leaseExpiry'[JobOf(q)'] = "future"
  BY DEF HoldsOn, At
<1>1. RelayersOK /\ TypeOK
  BY DEF RelayInv
<1>2. CASE ~Acts(q)
  <2>1. ~At(q, "idle") /\ JobOf(q)' = JobOf(q)
    BY <1>1, <1>2, OthersStay DEF At, JobOf
  <2>2. QED
    BY <1>2, <2>1, LeaseSurvives
<1>3. ASSUME NEW j \in Job, Take(q, j)
      PROVE  leasedBy'[JobOf(q)'] = q /\ leaseExpiry'[JobOf(q)'] = "future"
  <2>1. JobOf(q)' = j
    BY <1>1, <1>3 DEF Take, JobOf, RelayersOK, Attempt
  <2>2. leasedBy'[j] = q /\ leaseExpiry'[j] = "future"
    BY <1>1, <1>3 DEF Take, LeaseNextProved, GrantLease, TypeOK
  <2>3. QED
    BY <2>1, <2>2
<1>4. ASSUME ~At(q, "idle"), JobOf(q)' = JobOf(q), UNCHANGED columns
      PROVE  leasedBy'[JobOf(q)'] = q /\ leaseExpiry'[JobOf(q)'] = "future"
  BY <1>4 DEF columns, OnRecordInv, HoldsOn
<1>5. CASE Acts(q)
  <2>1. CASE \/ Resume(q) \/ StartFresh(q) \/ Broadcast(q) \/ NoteBroadcast(q)
             \/ SeeMined(q) \/ SeeGap(q) \/ CrossGap(q) \/ CrossGapFails(q) \/ Bump(q)
             \/ NoteResend(q)
    <3>1. ~At(q, "idle") /\ UNCHANGED columns
      BY <2>1 DEF Resume, StartFresh, Broadcast, NoteBroadcast, SeeMined, SeeGap, CrossGap,
         CrossGapFails, Bump, NoteResend, Stuck, At
    <3>2. JobOf(q)' = JobOf(q)
      <4>1. work[q] \in Attempt
        BY <1>1 DEF RelayersOK
      <4>2. CASE Resume(q)
        BY <1>1, <4>1, <4>2 DEF Resume, JobOf, RelayersOK, Attempt
      <4>3. CASE StartFresh(q) \/ SeeMined(q) \/ SeeGap(q) \/ CrossGapFails(q)
        BY <4>3 DEF StartFresh, SeeMined, SeeGap, CrossGapFails, JobOf
      <4>4. CASE Broadcast(q) \/ CrossGap(q) \/ Bump(q)
        BY <1>1, <4>1, <4>4 DEF Broadcast, CrossGap, Bump, JobOf, RelayersOK, Attempt
      <4>5. CASE NoteBroadcast(q) \/ NoteResend(q)
        BY <1>1, <4>1, <4>5 DEF NoteBroadcast, NoteResend, JobOf, RelayersOK, Attempt
      <4>6. QED
        BY <2>1, <4>2, <4>3, <4>4, <4>5
    <3>3. QED
      BY <1>4, <3>1, <3>2
  <2>2. CASE Check(q) /\ UNCHANGED <<columns, work>>
    BY <1>4, <2>2 DEF Check, At, JobOf
  <2>3. CASE LookIntoRevert(q) /\ UNCHANGED <<columns, work>>
    BY <1>4, <2>3 DEF LookIntoRevert, At, JobOf
  <2>4. QED
    BY <1>1, <1>3, <1>5, <2>1, <2>2, <2>3, OwnActs
<1>6. QED
  BY <1>2, <1>5

\* The broadcast is written down, and nothing but its row is live.
LEMMA BroadcastAtHand ==
  ASSUME RecordsKept, RelayInv, OnRecordInv,
         \A j, k \in Job : NullifierOf[j] = NullifierOf[k] => j = k,
         NEW q \in Relayer, NoteBroadcast(q)
  PROVE  RowAtHand(q)'
<1> DEFINE j == JobOf(q)
           t == work[q].sent
           n == Len(settlements)
<1>1. j \in Job /\ t \in Tx /\ t.call = j
  BY SentIsOwn DEF RelayInv
<1>2. RecordSubmission(j, t)
  BY DEF RecordsKept
<1>3. n \in Nat /\ Rows = 1..n /\ \A i \in Rows : settlements[i] \in Row
  BY RowsAre DEF RelayInv
<1>4. /\ JobOf(q)' = j /\ work'[q].tx = t /\ pc'[q] = "tracking"
  BY DEF NoteBroadcast, GoTo, JobOf, RelayInv, RelayersOK, Attempt
<1>5. \A i \in RowsOf(j) : ~Live(i)
  BY DEF NoteBroadcast, At, OnRecordInv, RowAtHand
<1>6. ~\E i \in Rows : Live(i) /\ NullifierOf[settlements[i].job] = NullifierOf[j]
  BY <1>1, <1>3, <1>5 DEF RowsOf, Row
<1> HIDE DEF t
<1>7. /\ TableOK' /\ Rows' = 1..(n + 1)
      /\ settlements'[n + 1] = [job |-> j, tx |-> t, confirmed |-> FALSE, reorged |-> FALSE]
  <2> HIDE DEF j
  <2>1. QED
    BY <1>1, <1>2, <1>6, RecordSubmissionTable DEF RelayInv
<1>8. PICK c : c = j
  OBVIOUS
<1> HIDE DEF j, n
<1>9. settlements'[n + 1].job = c /\ settlements'[n + 1].tx = t /\ ~settlements'[n + 1].reorged
  BY <1>7, <1>8
<1>10. n + 1 \in RowsOf(c)' /\ \A k \in RowsOf(c)' : k \in 1..(n + 1)
  BY <1>3, <1>7, <1>9 DEF RowsOf
<1>11. Latest(c)' \in RowsOf(c)' /\ \A k \in RowsOf(c)' : k <= Latest(c)'
  <2>1. \E m \in RowsOf(c)' : \A k \in RowsOf(c)' : k <= m
    BY <1>3, <1>10
  <2>2. QED
    BY <2>1 DEF Latest
<1>12. Latest(c)' = n + 1
  BY <1>3, <1>10, <1>11
<1>13. Resumes(c)' /\ settlements'[Latest(c)'].tx = work'[q].tx
  BY <1>4, <1>9, <1>10, <1>12 DEF Resumes, Live
<1>14. QED
  BY <1>4, <1>8, <1>13 DEF RowAtHand, Following, j

\* The row is pointed at the replacement.
LEMMA ResendAtHand ==
  ASSUME RecordsKept, RelayInv, OnRecordInv, NEW q \in Relayer, NoteResend(q)
  PROVE  RowAtHand(q)'
<1> DEFINE t == work[q].tx
           u == work[q].sent
<1>1. PICK j : j = JobOf(q)
  OBVIOUS
<1>2. j \in Job /\ u \in Tx /\ u.call = j
  BY <1>1, SentIsOwn DEF RelayInv
<1>3. ReplaceSubmissionTx(j, t, u)
  BY <1>1 DEF RecordsKept
<1>4. JobOf(q)' = j /\ work'[q].tx = u /\ pc'[q] = "tracking"
  BY <1>1 DEF NoteResend, GoTo, JobOf, RelayInv, RelayersOK, Attempt
<1>5. Resumes(j) /\ settlements[Latest(j)].tx = t
  BY <1>1 DEF NoteResend, At, OnRecordInv, RowAtHand, Following
<1> HIDE DEF t, u
<1>6. /\ Rows' = Rows
      /\ \A i \in Rows :
           /\ settlements'[i].job = settlements[i].job
           /\ settlements'[i].reorged = settlements[i].reorged
           /\ settlements[i].job = j /\ settlements[i].tx = t /\ Live(i)
                => settlements'[i].tx = u
  BY <1>2, <1>3, ReplaceTable DEF RelayInv
<1>7. RowsOf(j)' = RowsOf(j)
  BY <1>6 DEF RowsOf
<1>8. Latest(j)' = Latest(j) /\ Latest(j) \in RowsOf(j) /\ Live(Latest(j)) /\ RowsOf(j) # {}
  BY <1>5, <1>7, LatestIsLast DEF Latest, Resumes, RelayInv
<1>9. settlements'[Latest(j)].tx = u /\ ~settlements'[Latest(j)].reorged
  BY <1>5, <1>6, <1>8 DEF RowsOf, Live
<1>10. Resumes(j)' /\ settlements'[Latest(j)'].tx = work'[q].tx
  BY <1>4, <1>7, <1>8, <1>9 DEF Resumes, Live
<1>11. QED
  BY <1>4, <1>10 DEF RowAtHand, Following

LEMMA RowAtHandStep ==
  ASSUME RecordsKept, \A j, k \in Job : NullifierOf[j] = NullifierOf[k] => j = k,
         RelayInv, OnRecordInv, [RelayNext]_vars, NEW q \in Relayer
  PROVE  RowAtHand(q)'
<1>1. RelayersOK /\ TableOK /\ LiveSettlementIsLatest
  BY DEF RelayInv, OnRecordInv
<1>2. CASE pc'[q] \in {"idle", "taken", "elsewhere"}
  BY <1>2 DEF RowAtHand, Following
<1>3. PICK j : j = JobOf(q)
  OBVIOUS
<1>4. /\ pc[q] \in {"checking", "sending", "sent"} => \A i \in RowsOf(j) : ~Live(i)
      /\ pc[q] \in Following => Resumes(j) /\ settlements[Latest(j)].tx = work[q].tx
  BY <1>3 DEF OnRecordInv, RowAtHand
<1>5. CASE ~Acts(q) /\ pc'[q] # "idle"
  <2>1. pc'[q] = pc[q] /\ work'[q] = work[q] /\ ~At(q, "idle")
    BY <1>1, <1>5, OthersStay DEF At
  <2>2. SameRows(j)
    BY <1>3, <1>5, <2>1, RowsAreItsOwn
  <2>3. JobOf(q)' = j
    BY <1>3, <2>1 DEF JobOf
  <2>4. QED
    BY <1>1, <1>4, <2>1, <2>2, <2>3, SameRowAtHand
<1>6. ASSUME UNCHANGED settlements, JobOf(q)' = j,
             pc'[q] \in {"checking", "sending", "sent"} => \A i \in RowsOf(j) : ~Live(i),
             pc'[q] \in Following => Resumes(j) /\ settlements[Latest(j)].tx = work'[q].tx
      PROVE  RowAtHand(q)'
  <2>1. SameRows(j)
    BY <1>6 DEF SameRows, RowsOf, Rows
  <2>2. QED
    BY <1>1, <1>6, <2>1, SameRowAtHand
<1>7. CASE Acts(q) /\ pc'[q] \notin {"idle", "taken", "elsewhere"}
  <2>1. work[q] \in Attempt /\ pc \in [Relayer -> Places] /\ work \in [Relayer -> Attempt]
    BY <1>1 DEF RelayersOK
  <2>2. ASSUME NEW i \in Job, Take(q, i) PROVE FALSE
    BY <1>7, <2>1, <2>2 DEF Take, GoTo
  <2>3. CASE Resume(q)
    <3>1. /\ pc'[q] = "tracking" /\ JobOf(q)' = j /\ UNCHANGED settlements
          /\ Resumes(j) /\ work'[q].tx = settlements[Latest(j)].tx
      BY <1>3, <2>1, <2>3 DEF Resume, GoTo, JobOf, Attempt
    <3>2. QED
      BY <1>6, <3>1
  <2>4. CASE StartFresh(q)
    <3>1. pc'[q] = "checking" /\ JobOf(q)' = j /\ UNCHANGED settlements /\ ~Resumes(j)
      BY <1>3, <2>1, <2>4 DEF StartFresh, GoTo, JobOf, RecordsKept
    <3>2. QED
      BY <1>1, <1>6, <3>1, NothingToResume DEF Following
  <2>5. CASE Check(q) /\ UNCHANGED <<columns, work, settlements>>
    <3>1. pc'[q] \notin Following
      BY <1>7, <2>1, <2>5, FailAttemptRests DEF Check, GoTo, Following, TryLater, Rest
    <3>2. JobOf(q)' = j /\ pc[q] = "checking"
      BY <1>3, <2>5 DEF Check, At, JobOf
    <3>3. QED
      BY <1>4, <1>6, <2>5, <3>1, <3>2
  <2>6. CASE Broadcast(q)
    <3>1. /\ pc[q] = "sending" /\ pc'[q] = "sent" /\ JobOf(q)' = j /\ UNCHANGED settlements
      BY <1>3, <2>1, <2>6 DEF Broadcast, GoTo, At, JobOf, Attempt
    <3>2. QED
      BY <1>4, <1>6, <3>1 DEF Following
  <2>7. CASE SeeMined(q) \/ SeeGap(q) \/ CrossGapFails(q)
    <3>1. /\ pc[q] \in {"tracking", "gap"} /\ pc'[q] \in Following /\ work' = work /\ JobOf(q)' = j
          /\ UNCHANGED settlements
      BY <1>3, <2>1, <2>7 DEF SeeMined, SeeGap, CrossGapFails, Stuck, GoTo, At, JobOf, Following
    <3>2. QED
      BY <1>4, <1>6, <3>1 DEF Following
  <2>8. CASE CrossGap(q) \/ Bump(q)
    <3>1. /\ pc[q] \in {"tracking", "gap"} /\ pc'[q] = "resent" /\ work'[q].tx = work[q].tx
          /\ JobOf(q)' = j /\ UNCHANGED settlements
      BY <1>3, <2>1, <2>8 DEF CrossGap, Bump, Stuck, GoTo, At, JobOf, Attempt
    <3>2. QED
      BY <1>4, <1>6, <3>1 DEF Following
  <2>9. CASE LookIntoRevert(q) /\ GoTo(q, "elsewhere")
    BY <1>7, <2>1, <2>9 DEF GoTo
  <2>10. QED
    BY <1>1, <1>7, <2>2, <2>3, <2>4, <2>5, <2>6, <2>7, <2>8, <2>9, OwnActs, BroadcastAtHand,
       ResendAtHand
<1>8. QED
  BY <1>2, <1>5, <1>7

LEMMA OnRecordInit == RelayInit => OnRecordInv
<1> SUFFICES ASSUME RelayInit PROVE OnRecordInv
  OBVIOUS
<1>1. LiveSettlementIsLatest
  BY NoRows DEF LiveSettlementIsLatest
<1>2. QED
  BY <1>1 DEF RelayInit, OnRecordInv, OnRelayersSide, HoldsOn, RowAtHand, At, Following

LEMMA OnRecordStep ==
  ASSUME RecordsKept, \A j, k \in Job : NullifierOf[j] = NullifierOf[k] => j = k,
         RelayInv, OnRecordInv, [RelayNext]_vars
  PROVE  OnRecordInv'
<1>1. OnRelayersSide'
  BY RelayCallsStore, WaysToFail DEF OnRelayersSide, RelayInv, OnRecordInv
<1>2. LiveSettlementIsLatest'
  BY LiveSettlementStep DEF RelayInv, OnRecordInv
<1>3. QED
  BY <1>1, <1>2, HoldsOnStep, RowAtHandStep DEF OnRecordInv

\* A job's live row always names the transaction that is followed for it, for
\* any number of relayers, crashes, shutdowns, failed calls, lost answers,
\* reorgs, evictions, replacements and owner's changes, so long as no lease runs
\* out under a relayer, the writes of what is followed succeed, and jobs spend
\* nullifiers of their own. What it takes is that the lease keeps every other
\* relayer away from the job and its rows.
THEOREM RecordedRowsNameWhatIsFollowed ==
  ASSUME TableKept, \A j, k \in Job : NullifierOf[j] = NullifierOf[k] => j = k
  PROVE  RelaySpec => []RowNamesTrackedTransaction
<1>1. RelayInv /\ OnRecordInv /\ [RelayNext]_vars => OnRecordInv'
  BY TableIsKept, OnRecordStep DEF RelayInv
<1>2. OnRecordInv => RowNamesTrackedTransaction
  BY DEF OnRecordInv, RowAtHand, Following, RowNamesTrackedTransaction
<1>3. QED
  BY <1>1, <1>2, OnRecordInit, RelayInductive, PTL DEF RelaySpec

\* Until a call fails, a process dies or a lease runs out under a relayer, and
\* where jobs spend nullifiers of their own, nothing else is needed.
THEOREM RowsNameWhatIsFollowed ==
  ASSUME \A j, k \in Job : NullifierOf[j] = NullifierOf[k] => j = k
  PROVE  RelaySpec => [](disturbances = 0 => RowNamesTrackedTransaction)
<1> DEFINE Inv == disturbances = 0 => OnRecordInv
<1>1. RelayInv /\ Inv /\ [RelayNext]_vars => Inv'
  BY NoDisturbance, TableIsKept, OnRecordStep DEF RelayInv
<1>2. RelayInit => Inv
  BY OnRecordInit
<1>3. Inv => (disturbances = 0 => RowNamesTrackedTransaction)
  BY DEF OnRecordInv, RowAtHand, Following, RowNamesTrackedTransaction
<1>4. QED
  BY <1>1, <1>2, <1>3, RelayInductive, PTL DEF RelaySpec
-----------------------------------------------------------------------------
(* What a reorg takes back, while broadcasts are kept too.                  *)

\* No relayer loses sight of what it broadcasts: the node's answer arrives, and
\* the relayer goes on until it has written it down.
BroadcastsKept ==
  \A r \in Relayer : /\ ~BroadcastAnswerLost(r)
                     /\ At(r, "sent") => pc'[r] \in {"sent", "tracking"}

LiveRow(j) == \E i \in RowsOf(j) : Live(i)

\* A watcher looks at the job, or it need not: the only reorg there may be is
\* past.
Kept(j) == LiveRow(j) \/ (reorgs > 0 /\ NullifierUsed(j))

\* Somebody has written down, or is about to, what was sent for the job.
Spoken(j) == LiveRow(j) \/ \E r \in Relayer : pc[r] = "sent" /\ JobOf(r) = j

WatchedInv ==
  /\ \A j \in Job : state[j] = "settled" => Kept(j)
  /\ \A r \in Relayer : pc[r] = "elsewhere" => Kept(JobOf(r))
  /\ reorgs = 0 => /\ \A t \in Tx : t \in pool \/ Mined(t) => Spoken(t.call)
                   /\ \A r \in Relayer : noticed[r] = Nothing

LEMMA FollowedHasLiveRow ==
  ASSUME RelayInv, OnRecordInv, NEW r \in Relayer, pc[r] \in Following
  PROVE  LiveRow(JobOf(r))
BY LatestIsLast DEF OnRecordInv, RowAtHand, Resumes, LiveRow, RelayInv

\* A live row dies only when its job is unwound.
LEMMA LiveRowStep ==
  ASSUME RelayInv, [RelayNext]_vars, NEW j \in Job, LiveRow(j)
  PROVE  \/ LiveRow(j)'
         \/ /\ \E r \in Relayer : noticed[r] # Nothing
            /\ state[j] = "settled" /\ state'[j] = "proved"
<1>1. PICK i \in Rows : settlements[i].job = j /\ ~settlements[i].reorged
  BY DEF LiveRow, RowsOf, Live
<1>2. ASSUME i \in Rows', settlements'[i].job = j, ~settlements'[i].reorged
      PROVE  LiveRow(j)'
  BY <1>2 DEF LiveRow, RowsOf, Live
<1>3. UNCHANGED settlements => LiveRow(j)'
  BY <1>1, <1>2 DEF Rows
<1>4. ASSUME NEW r \in Relayer, NoteBroadcast(r), RecordSubmission(JobOf(r), work[r].sent)
      PROVE  LiveRow(j)'
  <2> DEFINE t == work[r].sent
  <2>1. JobOf(r) \in Job /\ t \in Tx /\ t.call = JobOf(r)
    BY <1>4, SentIsOwn DEF RelayInv
  <2>2. RecordSubmission(JobOf(r), t)
    BY <1>4
  <2> HIDE DEF t
  <2>3. \/ UNCHANGED settlements
        \/ /\ Rows' = 1..(Len(settlements) + 1)
           /\ \A k \in Rows : settlements'[k] = settlements[k]
    BY <2>1, <2>2, RecordSubmissionTable DEF RelayInv
  <2>4. Rows = 1..Len(settlements) /\ Len(settlements) \in Nat
    BY RowsAre DEF RelayInv
  <2>5. CASE Rows' = 1..(Len(settlements) + 1) /\ \A k \in Rows : settlements'[k] = settlements[k]
    <3>1. i \in Rows'
      BY <1>1, <2>4, <2>5
    <3>2. QED
      BY <1>1, <1>2, <2>5, <3>1
  <2>6. QED
    BY <1>3, <2>3, <2>5
<1>5. ASSUME NEW r \in Relayer, NoteResend(r),
             ReplaceSubmissionTx(JobOf(r), work[r].tx, work[r].sent)
      PROVE  LiveRow(j)'
  BY <1>1, <1>2, <1>5, SentIsOwn, ReplaceTable DEF RelayInv
<1>6. ASSUME NEW r \in Relayer, ConfirmSettlement(JobOf(r), work[r].tx) PROVE LiveRow(j)'
  BY <1>1, <1>2, <1>6, ConfirmTable DEF RelayInv
<1>7. ASSUME NEW r \in Relayer, noticed[r] # Nothing,
             RecordReorg(noticed[r].job, noticed[r].tx), noticed[r].job # j
      PROVE  LiveRow(j)'
  BY <1>1, <1>2, <1>7, ReorgTable DEF RelayInv
<1>8. ASSUME NEW r \in Relayer, RecordReorg(j, noticed[r].tx)
      PROVE  state[j] = "settled" /\ state'[j] = "proved"
  <2>1. ApplyEvent(j, "reorged")
    BY <1>8 DEF RecordReorg, UnwindSettled
  <2>2. state[j] = "settled" /\ Transition(state[j], "reorged") = "proved"
    BY <2>1 DEF ApplyEvent, CanTransition, Transition, AfterRetry
  <2>3. QED
    BY <2>1, <2>2 DEF ApplyEvent, MoveTo, RelayInv, TypeOK
<1>9. QED
  BY <1>3, <1>4, <1>5, <1>6, <1>7, <1>8, TableWrites

\* Where at most one reorg can happen, what is kept stays so until unwound.
LEMMA KeptStep ==
  ASSUME reorgs' <= 1, RelayInv, [RelayNext]_vars, NEW j \in Job, Kept(j),
         ~(state[j] = "settled" /\ state'[j] = "proved")
  PROVE  Kept(j)'
<1>1. CASE LiveRow(j)
  BY <1>1, LiveRowStep DEF Kept
<1>2. CASE reorgs > 0 /\ NullifierUsed(j)
  <2>1. reorgs \in Nat /\ reorgs' >= reorgs /\ reorgs' \in Nat
    BY CalmStep, ChainStep, ChainAssumption DEF RelayInv, ChainInv, ChainTypeOK
  <2>2. ~Reorg
    BY <1>2, <2>1, ChainAssumption DEF Reorg
  <2>3. Network \/ UNCHANGED ledger
    BY RelayChainStep
       DEF RelayInv, Administration, RegisterCircuit, SetRelayer, Sends, Send, chain
  <2>4. NullifierUsed(j)'
    BY <1>2, <2>2, <2>3, SpentStaysSpent DEF RelayInv, ChainInv
  <2>5. QED
    BY <1>2, <2>1, <2>4 DEF Kept
<1>3. QED
  BY <1>1, <1>2 DEF Kept

\* What is newly in the pool has been sent by a relayer that writes it down
\* next, or that follows a transaction already.
LEMMA NewInPool ==
  ASSUME RelayInv, BroadcastsKept, ~Reorg, [RelayNext]_vars, NEW t, t \in pool' \/ Mined(t)'
  PROVE  \/ t \in pool \/ Mined(t)
         \/ \E r \in Relayer : /\ t.call = JobOf(r) /\ JobOf(r)' = JobOf(r)
                               /\ pc'[r] = "sent" \/ pc[r] \in Following
<1> DEFINE Goal == \/ t \in pool \/ Mined(t)
                   \/ \E r \in Relayer : /\ t.call = JobOf(r) /\ JobOf(r)' = JobOf(r)
                                         /\ pc'[r] = "sent" \/ pc[r] \in Following
<1>1. ASSUME UNCHANGED <<pool, ledger>> PROVE Goal
  BY <1>1 DEF Mined, Blocks
<1>2. ASSUME NEW u, Send(u), u # t PROVE Goal
  BY <1>2 DEF Send, Mined, Blocks
<1>3. RelayersOK /\ ChainInv
  BY DEF RelayInv
<1>4. ASSUME NEW r \in Relayer, Broadcast(r) PROVE Goal
  <2>1. FirstOffer(r).call = JobOf(r) /\ Send(FirstOffer(r)) /\ pc'[r] = "sent"
    BY <1>3, <1>4 DEF Broadcast, FirstOffer, GoTo, RelayersOK
  <2>2. JobOf(r)' = JobOf(r)
    BY <1>3, <1>4 DEF Broadcast, JobOf, RelayersOK, Attempt
  <2>3. QED
    BY <1>2, <2>1, <2>2
<1>5. ASSUME NEW r \in Relayer, Bump(r) PROVE Goal
  <2>1. Raised(r).call = JobOf(r) /\ Send(Raised(r)) /\ pc[r] \in Following
    BY <1>3, <1>5, RaisedIsTx DEF Bump, Stuck, At, Following
  <2>2. JobOf(r)' = JobOf(r)
    BY <1>3, <1>5 DEF Bump, JobOf, RelayersOK, Attempt
  <2>3. QED
    BY <1>2, <2>1, <2>2
<1>6. ASSUME NEW r \in Relayer, CrossGap(r) \/ CrossGapFails(r) PROVE Goal
  <2>1. Crossing(r).call = JobOf(r) /\ pc[r] \in Following
    BY <1>3, <1>6, CrossingIsTx DEF CrossGap, CrossGapFails, At, Following
  <2>2. Send(Crossing(r)) \/ UNCHANGED chain
    BY <1>6 DEF CrossGap, CrossGapFails
  <2>3. JobOf(r)' = JobOf(r)
    BY <1>3, <1>6 DEF CrossGap, CrossGapFails, JobOf, RelayersOK, Attempt
  <2>4. UNCHANGED chain => UNCHANGED <<pool, ledger>>
    BY DEF chain
  <2>5. QED
    BY <1>1, <1>2, <2>1, <2>2, <2>3, <2>4
<1>7. ASSUME NEW r \in Relayer, BumpAnswerLost(r) PROVE Goal
  <2>1. Raised(r).call = JobOf(r) /\ Send(Raised(r)) /\ pc[r] \in Following
    BY <1>3, <1>7, RaisedIsTx DEF BumpAnswerLost, Stuck, At, Following
  <2>2. JobOf(r)' = JobOf(r)
    BY <1>7 DEF BumpAnswerLost, JobOf
  <2>3. QED
    BY <1>2, <2>1, <2>2
<1>8. ASSUME NEW r \in Relayer,
             \/ \E j \in Job : Take(r, j)
             \/ Resume(r) \/ StartFresh(r) \/ Check(r) \/ BroadcastRefused(r)
             \/ NoteBroadcast(r) \/ SeeMined(r) \/ SeeOrphaned(r) \/ SeeGap(r)
             \/ NoteResend(r) \/ LookIntoRevert(r) \/ Confirm(r)
             \/ MarkSettledElsewhere(r) \/ LeaseLost(r) \/ Notice(r) \/ Unwind(r)
             \/ Renew(r) \/ Restart(r) \/ NodeFails(r) \/ WriteFails(r)
      PROVE  UNCHANGED chain
  BY <1>8 DEF Take, Resume, StartFresh, Check, BroadcastRefused, NoteBroadcast, SeeMined,
     SeeOrphaned, SeeGap, NoteResend, LookIntoRevert, Confirm, MarkSettledElsewhere,
     LeaseLost, Notice, Unwind, Renew, Restart, NodeFails, WriteFails
<1>9. ASSUME \/ Reap \/ UNCHANGED vars \/ \E j \in Job : TimePasses(j) PROVE UNCHANGED chain
  BY <1>9 DEF TimePasses, Reap, vars
<1>10. UNCHANGED chain => Goal
  BY <1>1 DEF chain
<1>11. Administration => Goal
  BY <1>1 DEF Administration, RegisterCircuit, SetRelayer
<1>12. ASSUME NewBlock PROVE Goal
  <2>1. Blocks' = Blocks /\ \A b \in Blocks : ledger'[b].tx = ledger[b].tx
    BY <1>3, <1>12, NewBlockLedger, BlocksAre, LenProperties DEF ChainInv, Blocks, Keeps
  <2>2. QED
    BY <1>12, <2>1 DEF NewBlock, Mined
<1>13. ASSUME NEW u \in pool, Mine(u) PROVE Goal
  <2> DEFINE n == Len(ledger)
  <2>1. Blocks' = 1..(n + 1) /\ n \in Nat /\ Blocks = 1..n
    BY <1>3, <1>13, MineLedger, LenProperties, BlocksAre DEF Blocks, ChainInv
  <2>2. Keeps(n) /\ ledger'[n + 1] = [tx |-> u, ok |-> SettleOk(u), depth |-> 1]
    BY <1>3, <1>13, MineLedger DEF ChainInv
  <2>3. ledger'[n + 1].tx = u
    BY <2>2
  <2> HIDE DEF n
  <2>4. Mined(t)' => Mined(t) \/ t = u
    BY <2>1, <2>2, <2>3 DEF Mined, Keeps
  <2>5. QED
    BY <1>13, <2>4 DEF Mine
<1>14. ASSUME NEW u \in pool, Evict(u) PROVE Goal
  BY <1>14 DEF Evict, Mined, Blocks
<1>15. QED
  BY <1>4, <1>5, <1>6, <1>7, <1>8, <1>9, <1>10, <1>11, <1>12, <1>13, <1>14
     DEF RelayNext, Progress, Watch, Network, BroadcastsKept

\* A broadcast that is written down leaves its job a live row.
LEMMA NotedHasLiveRow ==
  ASSUME RecordsKept, RelayInv, NEW r \in Relayer, NoteBroadcast(r),
         \A j, k \in Job : NullifierOf[j] = NullifierOf[k] => j = k,
         NEW j \in Job, JobOf(r) = j
  PROVE  LiveRow(j)'
<1> DEFINE t == work[r].sent
           n == Len(settlements)
<1>1. t \in Tx /\ t.call = j
  BY SentIsOwn DEF RelayInv
<1>2. RecordSubmission(j, t)
  BY DEF RecordsKept
<1>3. n \in Nat /\ Rows = 1..n /\ \A i \in Rows : settlements[i] \in Row
  BY RowsAre DEF RelayInv
<1> HIDE DEF t
<1>4. \/ /\ UNCHANGED settlements
         /\ \E i \in Rows : Live(i) /\ NullifierOf[settlements[i].job] = NullifierOf[j]
      \/ /\ Rows' = 1..(n + 1)
         /\ settlements'[n + 1] = [job |-> j, tx |-> t, confirmed |-> FALSE, reorged |-> FALSE]
  BY <1>1, <1>2, RecordSubmissionTable DEF RelayInv
<1> HIDE DEF n
<1>5. CASE /\ UNCHANGED settlements
           /\ \E i \in Rows : Live(i) /\ NullifierOf[settlements[i].job] = NullifierOf[j]
  <2>1. PICK i \in Rows : Live(i) /\ NullifierOf[settlements[i].job] = NullifierOf[j]
    BY <1>5
  <2>2. settlements[i].job = j
    BY <1>3, <2>1 DEF Row
  <2>3. QED
    BY <1>5, <2>1, <2>2 DEF LiveRow, RowsOf, Rows, Live
<1>6. CASE /\ Rows' = 1..(n + 1)
           /\ settlements'[n + 1] = [job |-> j, tx |-> t, confirmed |-> FALSE, reorged |-> FALSE]
  <2>1. settlements'[n + 1].job = j /\ ~settlements'[n + 1].reorged
    BY <1>6
  <2>2. n + 1 \in RowsOf(j)'
    BY <1>3, <1>6, <2>1 DEF RowsOf
  <2>3. QED
    BY <2>1, <2>2 DEF LiveRow, Live
<1>7. QED
  BY <1>4, <1>5, <1>6

\* What was sent for a job is not forgotten before the first reorg.
LEMMA SpokenStep ==
  ASSUME RecordsKept, BroadcastsKept,
         \A j, k \in Job : NullifierOf[j] = NullifierOf[k] => j = k,
         RelayInv, OnRecordInv, [RelayNext]_vars,
         \A r \in Relayer : noticed[r] = Nothing, NEW j \in Job, Spoken(j)
  PROVE  Spoken(j)'
<1>1. CASE LiveRow(j)
  BY <1>1, LiveRowStep DEF Spoken
<1>2. ASSUME NEW r \in Relayer, pc[r] = "sent", JobOf(r) = j PROVE Spoken(j)'
  <2>1. CASE ~Acts(r)
    <3>1. pc'[r] = "sent" /\ JobOf(r)' = j
      BY <1>2, <2>1, OthersStay DEF JobOf, RelayInv
    <3>2. QED
      BY <3>1 DEF Spoken
  <2>2. pc'[r] # "idle"
    BY <1>2 DEF BroadcastsKept, At
  <2>3. Acts(r) => NoteBroadcast(r)
    BY <1>2, <2>2, OwnActs
       DEF Take, Check, Resume, StartFresh, Broadcast, SeeMined, SeeGap, Stuck, CrossGap,
           CrossGapFails, Bump, NoteResend, LookIntoRevert, At, RelayInv
  <2>4. QED
    BY <1>2, <2>1, <2>3, NotedHasLiveRow DEF Spoken
<1>3. QED
  BY <1>1, <1>2 DEF Spoken

\* Before the first reorg, whatever is spent has been spoken of.
LEMMA SpentIsSpoken ==
  ASSUME RelayInv, WatchedInv, reorgs = 0, NEW j \in Job, NullifierUsed(j),
         \A i, k \in Job : NullifierOf[i] = NullifierOf[k] => i = k
  PROVE  Spoken(j)
<1>1. PICK b \in Blocks : NullifierOf[ledger[b].tx.call] = NullifierOf[j]
  BY DEF NullifierUsed
<1>2. ledger[b] \in [tx : Tx, ok : BOOLEAN, depth : 1..Confirmations]
  BY BlocksAre DEF RelayInv, ChainInv, Entry
<1>3. ledger[b].tx \in Tx /\ Mined(ledger[b].tx)
  BY <1>2 DEF Mined
<1>4. ledger[b].tx.call = j
  BY <1>1, <1>3, RelayAssumption DEF Tx
<1>5. QED
  BY <1>3, <1>4 DEF WatchedInv

LEMMA AllSpokenStep ==
  ASSUME RecordsKept, BroadcastsKept,
         \A i, k \in Job : NullifierOf[i] = NullifierOf[k] => i = k,
         RelayInv, OnRecordInv, WatchedInv, [RelayNext]_vars, reorgs' = 0,
         NEW t \in Tx, t \in pool' \/ Mined(t)'
  PROVE  Spoken(t.call)'
<1>1. PICK j \in Job : j = t.call
  BY RelayAssumption DEF Tx
<1>2. reorgs = 0 /\ ~Reorg
  BY SpentInNoReorg, ChainAssumption DEF RelayInv, ChainInv, ChainTypeOK, Reorg
<1>3. \A r \in Relayer : noticed[r] = Nothing
  BY <1>2 DEF WatchedInv
<1>4. Spoken(j) => Spoken(j)'
  BY <1>3, SpokenStep
<1>5. \/ t \in pool \/ Mined(t)
      \/ \E r \in Relayer : /\ j = JobOf(r) /\ JobOf(r)' = JobOf(r)
                            /\ pc'[r] = "sent" \/ pc[r] \in Following
  BY <1>1, <1>2, NewInPool DEF RelayInv
<1>6. CASE t \in pool \/ Mined(t)
  BY <1>1, <1>2, <1>4, <1>6 DEF WatchedInv
<1>7. ASSUME NEW r \in Relayer, j = JobOf(r), JobOf(r)' = JobOf(r), pc'[r] = "sent"
      PROVE  Spoken(j)'
  BY <1>7 DEF Spoken
<1>8. ASSUME NEW r \in Relayer, j = JobOf(r), pc[r] \in Following PROVE Spoken(j)'
  BY <1>4, <1>8, FollowedHasLiveRow DEF Spoken
<1>9. Spoken(j)'
  BY <1>1, <1>4, <1>5, <1>6, <1>7, <1>8
<1>10. QED
  BY <1>1, <1>9

\* Nobody finds the nullifier of its job spent by something unheard of, unless
\* there has been a reorg.
LEMMA ElsewhereIsKept ==
  ASSUME RecordsKept, BroadcastsKept,
         \A i, k \in Job : NullifierOf[i] = NullifierOf[k] => i = k,
         RelayInv, OnRecordInv, WatchedInv, [RelayNext]_vars,
         NEW q \in Relayer, pc'[q] = "elsewhere"
  PROVE  ~At(q, "idle") /\ JobOf(q)' = JobOf(q) /\ Kept(JobOf(q))
<1>1. RelayersOK
  BY DEF RelayInv
<1>2. CASE ~Acts(q)
  BY <1>1, <1>2, OthersStay DEF At, JobOf, WatchedInv
<1>3. CASE Acts(q)
  <2>1. ASSUME NEW p, p # "elsewhere", GoTo(q, p) PROVE FALSE
    BY <1>1, <2>1 DEF GoTo, RelayersOK
  <2>2. \/ Check(q) /\ UNCHANGED work
        \/ LookIntoRevert(q) /\ UNCHANGED work
    BY <1>1, <1>3, <2>1, OwnActs
       DEF Take, Resume, StartFresh, Broadcast, NoteBroadcast, SeeMined, SeeGap, CrossGap,
           CrossGapFails, Bump, NoteResend
  <2>3. JobOf(q)' = JobOf(q) /\ ~At(q, "idle") /\ JobOf(q) \in Job
    BY <1>1, <2>2, AttemptHasJob DEF JobOf, Check, LookIntoRevert, At
  <2>4. CASE LookIntoRevert(q)
    BY <2>3, <2>4, FollowedHasLiveRow DEF LookIntoRevert, At, Following, Kept
  <2>5. CASE Check(q)
    <3>1. ~Rest(q)
      BY <1>1 DEF Rest, GoTo, RelayersOK
    <3>2. NullifierUsed(JobOf(q)) /\ pc[q] = "checking"
      BY <2>1, <2>5, <3>1, FailAttemptRests DEF Check, TryLater, At
    <3>3. ASSUME reorgs = 0 PROVE FALSE
      <4>1. Spoken(JobOf(q))
        BY <2>3, <3>2, <3>3, SpentIsSpoken
      <4>2. ~LiveRow(JobOf(q))
        BY <3>2 DEF LiveRow, OnRecordInv, RowAtHand
      <4>3. PICK r \in Relayer : pc[r] = "sent" /\ JobOf(r) = JobOf(q)
        BY <4>1, <4>2 DEF Spoken
      <4>4. r = q
        BY <2>3, <4>3 DEF OnRecordInv, HoldsOn, At
      <4>5. QED
        BY <3>2, <4>3, <4>4
    <3>4. reorgs > 0
      BY <3>3, ChainAssumption DEF RelayInv, ChainInv, ChainTypeOK
    <3>5. QED
      BY <2>3, <3>2, <3>4 DEF Kept
  <2>6. QED
    BY <2>2, <2>4, <2>5
<1>4. QED
  BY <1>2, <1>3

\* How a watcher's note changes.
LEMMA NotesStep ==
  ASSUME [RelayNext]_vars
  PROVE  \/ UNCHANGED noticed
         \/ \E r \in Relayer : Notice(r) \/ noticed' = [noticed EXCEPT ![r] = Nothing]
<1>1. ASSUME NEW r \in Relayer, Progress(r) PROVE UNCHANGED noticed
  BY <1>1 DEF Progress, Take, Resume, StartFresh, Check, Broadcast, BroadcastRefused,
     NoteBroadcast, SeeMined, SeeOrphaned, SeeGap, CrossGap, Bump, NoteResend,
     LookIntoRevert, Confirm, MarkSettledElsewhere, LeaseLost
<1>2. ASSUME NEW r \in Relayer,
             \/ Renew(r) \/ NodeFails(r) \/ BroadcastAnswerLost(r)
             \/ BumpAnswerLost(r) \/ CrossGapFails(r) \/ WriteFails(r)
      PROVE  UNCHANGED noticed
  BY <1>2 DEF Renew, NodeFails, BroadcastAnswerLost, BumpAnswerLost, CrossGapFails, WriteFails,
     relayers
<1>3. ASSUME NEW r \in Relayer, Unwind(r) \/ Restart(r)
      PROVE  noticed' = [noticed EXCEPT ![r] = Nothing]
  BY <1>3 DEF Unwind, Restart
<1>4. ASSUME \/ Reap \/ UNCHANGED vars \/ \E j \in Job : TimePasses(j)
             \/ (Network \/ Administration) /\ UNCHANGED <<columns, settlements, relayers>>
      PROVE  UNCHANGED noticed
  BY <1>4 DEF Reap, TimePasses, vars, relayers
<1>5. QED
  BY <1>1, <1>2, <1>3, <1>4 DEF RelayNext, Watch

LEMMA WatchedStep ==
  ASSUME RecordsKept, BroadcastsKept, reorgs' <= 1,
         \A i, k \in Job : NullifierOf[i] = NullifierOf[k] => i = k,
         RelayInv, OnRecordInv, ConsumedInv, WatchedInv, [RelayNext]_vars
  PROVE  WatchedInv'
<1>1. ASSUME NEW j \in Job, state'[j] = "settled" PROVE Kept(j)'
  <2>1. Kept(j)
    <3>1. \/ state[j] = "settled"
          \/ \E r \in Relayer : JobOf(r) = j /\ pc[r] \in {"deep", "elsewhere"}
      BY <1>1, RelayCallsStore, WaysToSettle DEF RelayInv, OnRecordInv
    <3>2. QED
      BY <3>1, FollowedHasLiveRow DEF WatchedInv, Following, Kept
  <2>2. QED
    BY <1>1, <2>1, KeptStep
<1>2. ASSUME NEW q \in Relayer, pc'[q] = "elsewhere" PROVE Kept(JobOf(q))'
  <2>1. PICK j : j = JobOf(q)
    OBVIOUS
  <2>2. ~At(q, "idle") /\ JobOf(q)' = j /\ Kept(j)
    BY <1>2, <2>1, ElsewhereIsKept
  <2>3. j \in Job /\ state[j] = "submitting"
    <3>1. j \in Job /\ leasedBy[j] = q
      BY <2>1, <2>2, AttemptHasJob DEF RelayInv, OnRecordInv, HoldsOn
    <3>2. QED
      BY <3>1, HeldIsSubmitting DEF OnRecordInv
  <2>4. Kept(j)'
    BY <2>2, <2>3, KeptStep
  <2>5. QED
    BY <2>2, <2>4
<1>3. ASSUME reorgs' = 0, NEW r \in Relayer PROVE noticed'[r] = Nothing
  <2>1. reorgs = 0 /\ \A q \in Relayer : noticed[q] = Nothing
    BY <1>3, SpentInNoReorg DEF RelayInv, WatchedInv
  <2>2. \A q \in Relayer : ~Notice(q)
    <3>1. \A i \in Rows : settlements[i].job \in Job
      BY RowsAre DEF RelayInv, Row
    <3>2. QED
      BY <2>1, <3>1 DEF Notice, ConsumedInv
  <2>3. noticed \in [Relayer -> [job : Job, tx : Tx] \cup {Nothing}]
    BY DEF RelayInv, RelayersOK
  <2>4. QED
    BY <2>1, <2>2, <2>3, NotesStep
<1>4. QED
  BY <1>1, <1>2, <1>3, AllSpokenStep DEF WatchedInv

\* A step in which nothing is disturbed keeps the broadcasts: a relayer that has
\* sent holds its lease, so all that it can do is write it down.
LEMMA UndisturbedKeepsBroadcasts ==
  ASSUME ~Disturb, RelayInv, OnRecordInv, [RelayNext]_vars
  PROVE  BroadcastsKept
<1>1. \A r \in Relayer : ~BroadcastAnswerLost(r)
  BY DEF BroadcastAnswerLost
<1>2. ASSUME NEW r \in Relayer, pc[r] = "sent" PROVE pc'[r] \in {"sent", "tracking"}
  <2>1. CASE ~Acts(r)
    BY <1>2, <2>1, OthersStay DEF RelayInv
  <2>2. Holds(r, JobOf(r))
    <3>1. JobOf(r) \in Job /\ leasedBy[JobOf(r)] = r
      BY <1>2, AttemptHasJob DEF OnRecordInv, HoldsOn, At, RelayInv
    <3>2. state[JobOf(r)] = "submitting"
      BY <3>1, HeldIsSubmitting DEF OnRecordInv
    <3>3. QED
      BY <3>1, <3>2 DEF Holds, IsInFlight
  <2>3. Acts(r) => NoteBroadcast(r)
    BY <1>2, <2>2
       DEF Acts, Progress, Restart, NodeFails, BroadcastAnswerLost, WriteFails, At, Take,
           Resume, StartFresh, Check, Broadcast, BroadcastRefused, SeeMined, SeeOrphaned,
           SeeGap, Stuck, CrossGap, CrossGapFails, Bump, NoteResend, LookIntoRevert, Confirm,
           MarkSettledElsewhere, LeaseLost
  <2>4. NoteBroadcast(r) => pc'[r] = "tracking"
    BY DEF NoteBroadcast, GoTo, RelayInv, RelayersOK
  <2>5. QED
    BY <2>1, <2>3, <2>4
<1>3. QED
  BY <1>1, <1>2 DEF BroadcastsKept, At

LEMMA StutterKeepsBroadcasts == ASSUME RelayInv, UNCHANGED vars PROVE BroadcastsKept
<1>1. disturbances \in Nat /\ UNCHANGED <<disturbances, pc>>
  BY RelayAssumption DEF RelayInv, RelayersOK, vars, relayers
<1>2. QED
  BY <1>1 DEF Disturb, BroadcastsKept, BroadcastAnswerLost, At

LEMMA NothingToWatch == RelayInit => ConsumedInv /\ OnRelayersSide /\ WatchedInv
<1> SUFFICES ASSUME RelayInit PROVE ConsumedInv /\ OnRelayersSide /\ WatchedInv
  OBVIOUS
<1>1. /\ \A j \in Job : state[j] = "proved"
      /\ \A r \in Relayer : pc[r] = "idle" /\ noticed[r] = Nothing
      /\ pool = {} /\ \A t : ~Mined(t)
  BY NoBlocks DEF RelayInit, ChainInit, Mined
<1>2. QED
  BY <1>1 DEF ConsumedInv, WatchedInv, OnRelayersSide

\* Until the chain takes back a second branch, a job that says it is settled is
\* settled on chain or has a live row for a watcher to find, for any number of
\* relayers, evictions, replacements and owner's changes, and whatever crashes
\* and failing calls there are, so long as the table is kept and no broadcast is
\* lost sight of. Before the reorg only what is on record is ever mined: so a
\* relayer that finds its nullifier spent, and records that with no row, either
\* has one already or comes after the reorg that could have undone it.
THEOREM KeptSettlementsAreWatched ==
  ASSUME TableKept, \A i, k \in Job : NullifierOf[i] = NullifierOf[k] => i = k
  PROVE  RelaySpec /\ [][BroadcastsKept]_vars
           => [](reorgs <= 1 => SettledIsConsumedOrWatched)
<1> DEFINE Inv == OnRecordInv /\ ConsumedInv /\ (reorgs <= 1 => WatchedInv)
<1>1. RelayInit => Inv
  BY OnRecordInit, NothingToWatch
<1>2. RelayInv /\ Inv /\ [RelayNext]_vars /\ [BroadcastsKept]_vars => Inv'
  <2> SUFFICES ASSUME RelayInv, Inv, [RelayNext]_vars, [BroadcastsKept]_vars
               PROVE  Inv'
    OBVIOUS
  <2>1. RecordsKept /\ BroadcastsKept
    BY TableIsKept, StutterKeepsBroadcasts DEF RelayInv
  <2>2. OnRecordInv'
    BY <2>1, OnRecordStep
  <2>3. ConsumedInv'
    BY ConsumedStep DEF OnRecordInv
  <2>4. ASSUME reorgs' <= 1 PROVE WatchedInv'
    <3>1. reorgs <= 1
      BY <2>4, CalmStep, ChainStep, ChainAssumption DEF RelayInv, ChainInv, ChainTypeOK
    <3>2. QED
      BY <2>1, <2>4, <3>1, WatchedStep
  <2>5. QED
    BY <2>2, <2>3, <2>4
<1>3. Inv => (reorgs <= 1 => SettledIsConsumedOrWatched)
  BY DEF WatchedInv, Kept, LiveRow, SettledIsConsumedOrWatched
<1>4. QED
  BY <1>1, <1>2, <1>3, RelayInductive, PTL DEF RelaySpec

\* Where nothing is disturbed, the table is kept and no broadcast is lost sight
\* of: nothing else is needed until then.
THEOREM SettledIsWatchedOnceReorged ==
  ASSUME \A i, k \in Job : NullifierOf[i] = NullifierOf[k] => i = k
  PROVE  RelaySpec => [](disturbances = 0 /\ reorgs <= 1 => SettledIsConsumedOrWatched)
<1> DEFINE Inv == /\ disturbances = 0 => OnRecordInv
                  /\ ConsumedInv /\ OnRelayersSide
                  /\ disturbances = 0 /\ reorgs <= 1 => WatchedInv
<1>1. RelayInit => Inv
  BY OnRecordInit, NothingToWatch
<1>2. RelayInv /\ Inv /\ [RelayNext]_vars => Inv'
  <2> SUFFICES ASSUME RelayInv, Inv, [RelayNext]_vars PROVE Inv'
    OBVIOUS
  <2>1. disturbances' = 0 => disturbances = 0 /\ ~Disturb
    BY NoDisturbance DEF RelayInv
  <2>2. disturbances' = 0 => OnRecordInv'
    BY <2>1, TableIsKept, OnRecordStep DEF RelayInv
  <2>3. ConsumedInv' /\ OnRelayersSide'
    BY ConsumedStep, RelayCallsStore, WaysToFail DEF OnRelayersSide, RelayInv
  <2>4. ASSUME disturbances' = 0, reorgs' <= 1 PROVE WatchedInv'
    <3>1. reorgs <= 1
      BY <2>4, CalmStep, ChainStep, ChainAssumption DEF RelayInv, ChainInv, ChainTypeOK
    <3>2. QED
      BY <2>1, <2>4, <3>1, TableIsKept, UndisturbedKeepsBroadcasts, WatchedStep DEF RelayInv
  <2>5. QED
    BY <2>2, <2>3, <2>4
<1>3. Inv => (disturbances = 0 /\ reorgs <= 1 => SettledIsConsumedOrWatched)
  BY DEF WatchedInv, Kept, LiveRow, SettledIsConsumedOrWatched
<1>4. QED
  BY <1>1, <1>2, <1>3, RelayInductive, PTL DEF RelaySpec
=============================================================================
