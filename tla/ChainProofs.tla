----------------------------- MODULE ChainProofs -----------------------------
(* What the chain keeps, whoever sends: facts about its steps, for any     *)
(* number of accounts, calls, reorgs, evictions and owner's changes.       *)
EXTENDS Chain, TLAPS, FiniteSetTheorems, SequenceTheorems

Entry == [tx : Tx, ok : BOOLEAN, depth : 1..Confirmations]

\* The ledger keeps, of its first n transactions, what they were and how they
\* ended; their depth is another matter.
Keeps(n) ==
  \A b \in 1..n : ledger'[b].tx = ledger[b].tx /\ ledger'[b].ok = ledger[b].ok

\* A nonce is read off the pool and the ledger, so both are finite.
ChainInv == ChainTypeOK /\ IsFiniteSet(pool)

LEMMA BlocksAre ==
  ASSUME ChainTypeOK
  PROVE  /\ Len(ledger) \in Nat /\ Blocks = 1..Len(ledger) /\ IsFiniteSet(Blocks)
         /\ \A b \in Blocks : ledger[b] \in Entry
<1>1. ledger \in Seq(Entry)
  BY DEF ChainTypeOK, Entry
<1>2. Len(ledger) \in Nat /\ Blocks = 1..Len(ledger)
  BY <1>1, LenProperties DEF Blocks
<1>3. \A b \in Blocks : ledger[b] \in Entry
  BY <1>1, <1>2, ElementOfSeq
<1>4. IsFiniteSet(Blocks)
  BY <1>2, FS_Interval
<1>5. QED
  BY <1>2, <1>3, <1>4
-----------------------------------------------------------------------------
(* Nonces.                                                                  *)

\* The image of a finite set under a function is finite and no larger.
LEMMA ImageOfFunction ==
  ASSUME NEW S, IsFiniteSet(S), NEW f, DOMAIN f = S
  PROVE  /\ IsFiniteSet({f[x] : x \in S})
         /\ Cardinality({f[x] : x \in S}) <= Cardinality(S)
<1> DEFINE T == {f[x] : x \in S}
           g == [x \in S |-> f[x]]
<1>1. g \in Surjection(S, T)
  BY DEF Surjection
<1> HIDE DEF T
<1>2. IsFiniteSet(T) /\ Cardinality(T) <= Cardinality(S)
  BY <1>1, FS_Surjection
<1>3. QED
  BY <1>2 DEF T

\* A set of naturals with something between n and m has a least such thing.
LEMMA LeastBetween ==
  ASSUME NEW n \in Nat, NEW m \in Nat, NEW S, (n..m) \cap S # {}
  PROVE  \E k \in (n..m) \cap S : \A l \in n..m : l < k => l \notin S
<1> DEFINE I == n..m
           Family == {n..k : k \in I \cap S}
           R == StrictSubsetOrdering(I)
<1>1. IsFiniteSet(I)
  BY FS_Interval
<1>2. IsWellFoundedOn(R, SUBSET I)
  BY <1>1, FS_StrictSubsetOrderingWellFounded, FS_FiniteSubsetsOfFinite
<1>3. Family \subseteq SUBSET I /\ Family # {}
  OBVIOUS
<1> HIDE DEF R, Family
<1>4. PICK low \in Family : \A other \in Family : ~(<<other, low>> \in R)
  BY <1>2, <1>3, WFMin
<1>5. PICK k \in I \cap S : low = n..k
  BY <1>4 DEF Family
<1>6. ASSUME NEW l \in I, l < k, l \in S PROVE FALSE
  <2>1. n..l \in Family /\ n..l \in SUBSET I /\ n..k \in SUBSET I
    BY <1>3, <1>5, <1>6 DEF Family
  <2>2. n..l \subseteq n..k /\ k \in n..k /\ k \notin n..l
    BY <1>5, <1>6
  <2>3. <<n..l, n..k>> \in R
    BY <2>1, <2>2 DEF R, StrictSubsetOrdering
  <2>4. QED
    BY <1>4, <1>5, <2>1, <2>3
<1>7. QED
  BY <1>5, <1>6

LEMMA NextNonceType ==
  ASSUME ChainTypeOK, NEW a
  PROVE  NextNonce(a) \in Nat
<1>1. IsFiniteSet({b \in Blocks : ledger[b].tx.from = a})
  BY BlocksAre, FS_Subset
<1>2. QED
  BY <1>1, FS_CardinalityType DEF NextNonce

\* pending_nonce is what its name says: not mined, not taken, and everything
\* between the mined and it is taken. Among the nonces it chooses from there
\* is always one, since more are offered than the pool can take.
LEMMA PendingNonceIsFree ==
  ASSUME ChainInv, NEW a
  PROVE  /\ PendingNonce(a) \in Nat /\ PendingNonce(a) >= NextNonce(a)
         /\ \A t \in pool : t.from = a => t.nonce # PendingNonce(a)
         /\ \A n \in Nat : NextNonce(a) <= n /\ n < PendingNonce(a) =>
              \E t \in pool : t.from = a /\ t.nonce = n
<1> DEFINE own == {u \in pool : u.from = a}
           f == [t \in own |-> t.nonce]
           taken == {t.nonce : t \in own}
           low == NextNonce(a)
           high == low + Cardinality(taken)
           Free(n) == n \notin taken /\ \A m \in low..n : m < n => m \in taken
<1>1. IsFiniteSet(own)
  BY FS_Subset DEF ChainInv
<1>2. taken = {f[t] : t \in own} /\ DOMAIN f = own
  OBVIOUS
<1>3. IsFiniteSet(taken)
  <2> HIDE DEF own, f
  <2>1. IsFiniteSet({f[t] : t \in own})
    BY <1>1, <1>2, ImageOfFunction
  <2>2. QED
    BY <1>2, <2>1
<1> HIDE DEF taken
<1>4. low \in Nat /\ Cardinality(taken) \in Nat /\ high \in Nat
  BY <1>3, NextNonceType, FS_CardinalityType DEF ChainInv
<1> HIDE DEF low
<1>5. (low..high) \cap (Nat \ taken) # {}
  <2>1. IsFiniteSet(low..high) /\ Cardinality(low..high) = Cardinality(taken) + 1
    BY <1>4, FS_Interval
  <2>2. CASE low..high \subseteq taken
    BY <1>3, <1>4, <2>1, <2>2, FS_Subset
  <2>3. QED
    BY <1>4, <2>2
<1>6. \E n \in low..high : Free(n)
  <2>1. PICK k \in (low..high) \cap (Nat \ taken) :
          \A l \in low..high : l < k => l \notin Nat \ taken
    BY <1>4, <1>5, LeastBetween
  <2>2. Free(k)
    BY <1>4, <2>1
  <2>3. QED
    BY <2>1, <2>2
<1>7. PendingNonce(a) \in low..high /\ Free(PendingNonce(a))
  BY <1>6 DEF PendingNonce, taken, low
<1>8. QED
  BY <1>4, <1>7 DEF taken, low
-----------------------------------------------------------------------------
(* What the network does.                                                   *)

LEMMA DeeperEntry ==
  ASSUME ChainTypeOK, NEW b \in Blocks
  PROVE  /\ Deeper(ledger[b]) \in Entry
         /\ Deeper(ledger[b]).tx = ledger[b].tx /\ Deeper(ledger[b]).ok = ledger[b].ok
<1>1. ledger[b] \in Entry
  BY BlocksAre
<1>2. QED
  BY <1>1, ChainAssumption DEF Deeper, Entry

\* The ledger with every entry one block deeper.
LEMMA DeeperLedger ==
  ASSUME ChainTypeOK
  PROVE  LET deeper == [b \in Blocks |-> Deeper(ledger[b])]
         IN /\ deeper \in Seq(Entry) /\ Len(deeper) = Len(ledger)
            /\ \A b \in Blocks : deeper[b].tx = ledger[b].tx /\ deeper[b].ok = ledger[b].ok
<1> DEFINE deeper == [b \in Blocks |-> Deeper(ledger[b])]
<1>1. deeper \in [1..Len(ledger) -> Entry] /\ Len(ledger) \in Nat
  BY BlocksAre, DeeperEntry
<1>2. \A b \in Blocks : deeper[b].tx = ledger[b].tx /\ deeper[b].ok = ledger[b].ok
  BY DeeperEntry
<1> HIDE DEF deeper
<1>3. deeper \in Seq(Entry)
  BY <1>1, SeqDef
<1>4. Len(deeper) = Len(ledger)
  BY <1>1, <1>3, LenProperties
<1>5. QED
  BY <1>2, <1>3, <1>4 DEF deeper

LEMMA NewBlockLedger ==
  ASSUME ChainTypeOK, NewBlock
  PROVE  ledger' \in Seq(Entry) /\ Len(ledger') = Len(ledger) /\ Keeps(Len(ledger))
BY BlocksAre, DeeperLedger DEF NewBlock, Keeps

LEMMA MineLedger ==
  ASSUME ChainTypeOK, NEW t, Mine(t)
  PROVE  /\ ledger' \in Seq(Entry) /\ Len(ledger') = Len(ledger) + 1 /\ Keeps(Len(ledger))
         /\ ledger'[Len(ledger) + 1] = [tx |-> t, ok |-> SettleOk(t), depth |-> 1]
         /\ t \in Tx
<1> DEFINE deeper == [b \in Blocks |-> Deeper(ledger[b])]
           new == [tx |-> t, ok |-> SettleOk(t), depth |-> 1]
<1>1. t \in Tx
  BY DEF Mine, ChainTypeOK
<1>2. SettleOk(t) \in BOOLEAN
  BY DEF SettleOk, Admits
<1>3. new \in Entry
  BY <1>1, <1>2, ChainAssumption DEF Entry
<1>4. /\ deeper \in Seq(Entry) /\ Len(deeper) = Len(ledger)
      /\ \A b \in Blocks : deeper[b].tx = ledger[b].tx /\ deeper[b].ok = ledger[b].ok
  BY DeeperLedger
<1>5. ledger' = Append(deeper, new)
  BY DEF Mine
<1> HIDE DEF deeper, new
<1>6. /\ ledger' \in Seq(Entry) /\ Len(ledger') = Len(ledger) + 1
      /\ ledger'[Len(ledger) + 1] = new
      /\ \A b \in 1..Len(ledger) : ledger'[b] = deeper[b]
  BY <1>3, <1>4, <1>5, AppendProperties
<1>7. QED
  BY <1>1, <1>4, <1>6, BlocksAre DEF Keeps, new

\* What an account may use next, when blocks keep their transactions.
LEMMA NextNonceKept ==
  ASSUME Blocks' = Blocks, \A b \in Blocks : ledger'[b].tx = ledger[b].tx, NEW a
  PROVE  NextNonce(a)' = NextNonce(a)
<1>1. {b \in Blocks' : ledger'[b].tx.from = a} = {b \in Blocks : ledger[b].tx.from = a}
  OBVIOUS
<1>2. QED
  BY <1>1 DEF NextNonce

\* A mined transaction uses up one nonce, of its own account.
LEMMA NextNonceMined ==
  ASSUME ChainTypeOK, NEW t, Mine(t), NEW a
  PROVE  NextNonce(a)' = IF t.from = a THEN NextNonce(a) + 1 ELSE NextNonce(a)
<1> DEFINE n == Len(ledger)
           before == {b \in Blocks : ledger[b].tx.from = a}
           after == {b \in Blocks' : ledger'[b].tx.from = a}
<1>1. n \in Nat /\ Blocks = 1..n /\ IsFiniteSet(before)
  BY BlocksAre, FS_Subset
<1>2. Blocks' = 1..(n + 1) /\ Keeps(n)
  BY <1>1, MineLedger, LenProperties DEF Blocks
<1>3. ledger'[n + 1].tx = t
  <2>1. ledger'[n + 1] = [tx |-> t, ok |-> SettleOk(t), depth |-> 1]
    BY MineLedger
  <2>2. QED
    BY <2>1
<1> HIDE DEF n
<1>4. CASE t.from = a
  <2>1. after = before \cup {n + 1} /\ n + 1 \notin before
    BY <1>1, <1>2, <1>3, <1>4 DEF Keeps
  <2> HIDE DEF before, after
  <2>2. Cardinality(after) = Cardinality(before) + 1
    BY <1>1, <2>1, FS_AddElement
  <2>3. QED
    BY <1>4, <2>2 DEF NextNonce, before, after
<1>5. CASE t.from # a
  <2>1. after = before
    BY <1>1, <1>2, <1>3, <1>5 DEF Keeps
  <2>2. QED
    BY <1>5, <2>1 DEF NextNonce
<1>6. QED
  BY <1>4, <1>5

\* What is mined has a nonce that is used up.
MinedBelow == \A b \in Blocks : ledger[b].tx.nonce < NextNonce(ledger[b].tx.from)

LEMMA MinedBelowKept ==
  ASSUME MinedBelow, Blocks' = Blocks, \A b \in Blocks : ledger'[b].tx = ledger[b].tx
  PROVE  MinedBelow'
<1> SUFFICES ASSUME NEW b \in Blocks
             PROVE  ledger'[b].tx.nonce < NextNonce(ledger[b].tx.from)'
  BY DEF MinedBelow
<1>1. PICK a : a = ledger[b].tx.from /\ a = ledger'[b].tx.from
  OBVIOUS
<1>2. ledger'[b].tx.nonce < NextNonce(a)'
  BY <1>1, NextNonceKept DEF MinedBelow
<1>3. QED
  BY <1>1, <1>2

LEMMA MinedBelowMined ==
  ASSUME ChainTypeOK, MinedBelow, NEW t, Mine(t)
  PROVE  MinedBelow'
<1>1. Blocks = 1..Len(ledger) /\ Len(ledger) \in Nat
  BY BlocksAre
<1>2. Blocks' = 1..(Len(ledger) + 1) /\ Keeps(Len(ledger))
  BY MineLedger, LenProperties DEF Blocks
<1>3. ledger'[Len(ledger) + 1].tx = t /\ t.nonce = NextNonce(t.from)
  <2>1. ledger'[Len(ledger) + 1] = [tx |-> t, ok |-> SettleOk(t), depth |-> 1]
    BY MineLedger
  <2>2. ledger'[Len(ledger) + 1].tx = t
    BY <2>1
  <2>3. t.nonce = NextNonce(t.from)
    BY DEF Mine
  <2>4. QED
    BY <2>2, <2>3
<1>4. ASSUME NEW b \in Blocks', NEW a, a = ledger'[b].tx.from
      PROVE  ledger'[b].tx.nonce < NextNonce(a)'
  <2>1. NextNonce(a) \in Nat
    BY NextNonceType
  <2>2. CASE b \in Blocks
    <3>1. ledger'[b].tx = ledger[b].tx
      BY <1>1, <1>2, <2>2 DEF Keeps
    <3>2. ledger[b].tx.nonce \in Nat
      BY <2>2, BlocksAre DEF Entry, Tx
    <3>3. QED
      BY <1>4, <2>1, <2>2, <3>1, <3>2, NextNonceMined DEF MinedBelow
  <2>3. CASE b = Len(ledger) + 1
    BY <1>3, <1>4, <2>1, <2>3, NextNonceMined
  <2>4. QED
    BY <1>1, <1>2, <2>2, <2>3
<1>5. QED
  BY <1>4 DEF MinedBelow

LEMMA ReorgLedger ==
  ASSUME ChainTypeOK, Reorg
  PROVE  ledger' \in Seq(Entry) /\ Len(ledger') < Len(ledger) /\ Keeps(Len(ledger'))
<1>1. PICK b \in Blocks : ledger' = SubSeq(ledger, 1, b - 1)
  BY DEF Reorg
<1>2. b \in Nat /\ 1 <= b /\ b <= Len(ledger) /\ Len(ledger) \in Nat
  BY BlocksAre
<1>3. \A i \in 1..(b - 1) : ledger[i] \in Entry
  BY <1>2, BlocksAre
<1>4. /\ ledger' \in Seq(Entry)
      /\ Len(ledger') = IF 1 <= b - 1 THEN (b - 1) - 1 + 1 ELSE 0
      /\ \A i \in 1..((b - 1) - 1 + 1) : ledger'[i] = ledger[1 + i - 1]
  BY <1>1, <1>2, <1>3, SubSeqProperties
<1>5. Len(ledger') = b - 1 /\ \A i \in 1..(b - 1) : ledger'[i] = ledger[i]
  BY <1>2, <1>4
<1>6. QED
  BY <1>2, <1>4, <1>5 DEF Keeps

\* What a reorg orphans, and what of it stays pending or keeps its receipt.
LEMMA ReorgOrphans ==
  ASSUME ChainInv, NEW b \in Blocks,
         NEW orphaned, orphaned = {[tx |-> ledger[c].tx, ok |-> ledger[c].ok] :
                                    c \in {d \in Blocks : d >= b}},
         NEW kept \in SUBSET orphaned, NEW named \in SUBSET orphaned
  PROVE  /\ orphaned \subseteq [tx : Tx, ok : BOOLEAN]
         /\ IsFiniteSet({s.tx : s \in kept})
         /\ Cardinality(orphaned \ (kept \cup named)) \in Nat
<1> DEFINE D == {d \in Blocks : d >= b}
           f == [c \in D |-> [tx |-> ledger[c].tx, ok |-> ledger[c].ok]]
           g == [s \in kept |-> s.tx]
<1>1. orphaned \subseteq [tx : Tx, ok : BOOLEAN]
  BY BlocksAre DEF ChainInv, Entry
<1>2. IsFiniteSet(D)
  BY BlocksAre, FS_Subset DEF ChainInv
<1>3. orphaned = {f[c] : c \in D} /\ DOMAIN f = D
  OBVIOUS
<1>4. IsFiniteSet(orphaned)
  <2> HIDE DEF D, f
  <2>1. IsFiniteSet({f[c] : c \in D})
    BY <1>2, <1>3, ImageOfFunction
  <2>2. QED
    BY <1>3, <2>1
<1>5. IsFiniteSet(kept) /\ IsFiniteSet(orphaned \ (kept \cup named))
  BY <1>4, FS_Subset
<1>6. {s.tx : s \in kept} = {g[s] : s \in kept} /\ DOMAIN g = kept
  OBVIOUS
<1>7. IsFiniteSet({s.tx : s \in kept})
  <2> HIDE DEF g
  <2>1. IsFiniteSet({g[s] : s \in kept})
    BY <1>5, <1>6, ImageOfFunction
  <2>2. QED
    BY <1>6, <2>1
<1>8. QED
  BY <1>1, <1>5, <1>7, FS_CardinalityType

LEMMA ReorgKeepsTypes ==
  ASSUME ChainInv, Reorg
  PROVE  ChainInv'
<1>1. PICK b \in Blocks :
        LET orphaned == {[tx |-> ledger[c].tx, ok |-> ledger[c].ok] :
                          c \in {d \in Blocks : d >= b}}
        IN \E kept, named \in SUBSET orphaned :
             LET forgotten == Cardinality(orphaned \ (kept \cup named))
             IN /\ ledger' = SubSeq(ledger, 1, b - 1)
                /\ pool' = pool \cup {s.tx : s \in kept}
                /\ stale' = stale \cup named
                /\ evictions' = evictions + forgotten
                /\ evictions' <= Evictions
  BY DEF Reorg
<1> DEFINE orphaned == {[tx |-> ledger[c].tx, ok |-> ledger[c].ok] :
                          c \in {d \in Blocks : d >= b}}
<1>2. PICK kept \in SUBSET orphaned, named \in SUBSET orphaned :
        /\ pool' = pool \cup {s.tx : s \in kept}
        /\ stale' = stale \cup named
        /\ evictions' = evictions + Cardinality(orphaned \ (kept \cup named))
        /\ evictions' <= Evictions
  BY <1>1
<1>3. /\ orphaned \subseteq [tx : Tx, ok : BOOLEAN]
      /\ IsFiniteSet({s.tx : s \in kept})
      /\ Cardinality(orphaned \ (kept \cup named)) \in Nat
  BY ReorgOrphans
<1> HIDE DEF orphaned
<1>4. pool' \subseteq Tx /\ stale' \subseteq [tx : Tx, ok : BOOLEAN]
  BY <1>2, <1>3 DEF ChainInv, ChainTypeOK
<1>5. IsFiniteSet(pool')
  BY <1>2, <1>3, FS_Union DEF ChainInv
<1>6. evictions' \in 0..Evictions /\ reorgs' \in 0..MaxReorgs
  BY <1>2, <1>3, ChainAssumption DEF Reorg, ChainInv, ChainTypeOK
<1>7. QED
  BY <1>4, <1>5, <1>6, ReorgLedger DEF Reorg, ChainInv, ChainTypeOK, Entry, owner

\* The chain's state keeps its type, whatever the network does.
LEMMA NetworkKeepsTypes ==
  ASSUME ChainInv, Network
  PROVE  ChainInv'
<1>1. CASE NewBlock
  BY <1>1, NewBlockLedger DEF NewBlock, ChainInv, ChainTypeOK, Entry, owner
<1>2. CASE Reorg
  BY <1>2, ReorgKeepsTypes
<1>3. ASSUME NEW t \in pool, Mine(t) PROVE ChainInv'
  <2>1. IsFiniteSet(pool')
    BY <1>3, FS_Subset DEF Mine, ChainInv
  <2>2. QED
    BY <1>3, <2>1, MineLedger DEF Mine, ChainInv, ChainTypeOK, Entry, owner
<1>4. ASSUME NEW t \in pool, Evict(t) PROVE ChainInv'
  <2>1. IsFiniteSet(pool')
    BY <1>4, FS_Subset DEF Evict, ChainInv
  <2>2. evictions' \in 0..Evictions
    BY <1>4, ChainAssumption DEF Evict, ChainInv, ChainTypeOK
  <2>3. QED
    BY <1>4, <2>1, <2>2 DEF Evict, ChainInv, ChainTypeOK, owner
<1>5. QED
  BY <1>1, <1>2, <1>3, <1>4 DEF Network

LEMMA AdministrationKeepsTypes ==
  ASSUME ChainInv, Administration
  PROVE  ChainInv'
<1>1. changes' \in 0..Changes
  BY ChainAssumption DEF Administration, RegisterCircuit, SetRelayer, ChainInv, ChainTypeOK
<1>2. QED
  BY <1>1 DEF Administration, RegisterCircuit, SetRelayer, ChainInv, ChainTypeOK

LEMMA SendKeepsTypes ==
  ASSUME ChainInv, NEW t \in Tx, Send(t)
  PROVE  ChainInv'
<1> DEFINE left == {u \in pool : LateInclusion \/ ~SameSlot(t, u)}
<1>1. IsFiniteSet(left) /\ pool' = left \cup {t} /\ left \subseteq pool
  BY FS_Subset DEF Send, ChainInv
<1> HIDE DEF left
<1>2. IsFiniteSet(pool') /\ pool' \subseteq Tx
  BY <1>1, FS_AddElement DEF ChainInv, ChainTypeOK
<1>3. QED
  BY <1>2 DEF Send, ChainInv, ChainTypeOK, owner
-----------------------------------------------------------------------------
(* Nullifiers.                                                              *)

\* A transaction succeeds only against a nullifier that no other has spent,
\* and a reorg only takes from the end.
LEMMA SpentOnceStep ==
  ASSUME ChainTypeOK, NullifierSpentOnce, Network \/ UNCHANGED ledger
  PROVE  NullifierSpentOnce'
<1>1. ASSUME NEW n \in 0..Len(ledger), Blocks' = 1..n, Keeps(n) PROVE NullifierSpentOnce'
  BY <1>1, BlocksAre DEF NullifierSpentOnce, Keeps
<1>2. CASE NewBlock
  <2>1. Blocks' = 1..Len(ledger)
    BY <1>2, NewBlockLedger, LenProperties DEF Blocks
  <2>2. QED
    BY <1>1, <1>2, <2>1, NewBlockLedger, BlocksAre
<1>3. CASE Reorg
  <2>1. Blocks' = 1..Len(ledger') /\ Len(ledger') \in Nat
    BY <1>3, ReorgLedger, LenProperties DEF Blocks
  <2>2. QED
    BY <1>1, <1>3, <2>1, ReorgLedger, BlocksAre
<1>4. ASSUME NEW t \in pool, Mine(t) PROVE NullifierSpentOnce'
  <2> DEFINE n == Len(ledger)
  <2>1. Blocks' = 1..(n + 1) /\ n \in Nat /\ Blocks = 1..n
    BY <1>4, MineLedger, LenProperties, BlocksAre DEF Blocks
  <2>2. Keeps(n) /\ ledger'[n + 1] = [tx |-> t, ok |-> SettleOk(t), depth |-> 1]
    BY <1>4, MineLedger
  <2>3. ledger'[n + 1].ok => ~NullifierUsed(t.call)
    <3>1. ledger'[n + 1].ok = SettleOk(t)
      BY <2>2
    <3>2. SettleOk(t) => ~NullifierUsed(t.call)
      BY DEF SettleOk
    <3>3. QED
      BY <3>1, <3>2
  <2> HIDE DEF n
  <2>4. ASSUME NEW b \in 1..n, ledger'[b].ok, ledger'[n + 1].ok
        PROVE  NullifierOf[ledger'[b].tx.call] # NullifierOf[ledger'[n + 1].tx.call]
    BY <2>1, <2>2, <2>3, <2>4 DEF Keeps, NullifierUsed
  <2>5. \A b, c \in 1..n :
          (/\ ledger'[b].ok /\ ledger'[c].ok
           /\ NullifierOf[ledger'[b].tx.call] = NullifierOf[ledger'[c].tx.call]) => b = c
    BY <2>1, <2>2 DEF NullifierSpentOnce, Keeps
  <2>6. \A b \in 1..(n + 1) : b \in 1..n \/ b = n + 1
    BY <2>1
  <2>7. QED
    BY <2>1, <2>4, <2>5, <2>6 DEF NullifierSpentOnce
<1>5. ASSUME UNCHANGED ledger PROVE NullifierSpentOnce'
  BY <1>5 DEF NullifierSpentOnce, Blocks
<1>6. QED
  BY <1>2, <1>3, <1>4, <1>5 DEF Network, Evict

\* Unless a reorg takes it back, what is spent stays spent.
LEMMA SpentStaysSpent ==
  ASSUME ChainTypeOK, Network \/ UNCHANGED ledger, ~Reorg, NEW c, NullifierUsed(c)
  PROVE  NullifierUsed(c)'
<1>1. PICK b \in Blocks : ledger[b].ok /\ NullifierOf[ledger[b].tx.call] = NullifierOf[c]
  BY DEF NullifierUsed
<1>2. CASE NewBlock
  <2>1. b \in Blocks' /\ ledger'[b].ok = ledger[b].ok /\ ledger'[b].tx = ledger[b].tx
    BY <1>2, NewBlockLedger, LenProperties, BlocksAre DEF Blocks, Keeps
  <2>2. QED
    BY <1>1, <2>1 DEF NullifierUsed
<1>3. ASSUME NEW t, Mine(t) PROVE NullifierUsed(c)'
  <2>1. Blocks' = 1..(Len(ledger) + 1) /\ Blocks = 1..Len(ledger) /\ Len(ledger) \in Nat
    BY <1>3, MineLedger, LenProperties, BlocksAre DEF Blocks
  <2>2. Keeps(Len(ledger))
    BY <1>3, MineLedger
  <2>3. b \in Blocks' /\ ledger'[b].ok = ledger[b].ok /\ ledger'[b].tx = ledger[b].tx
    BY <2>1, <2>2 DEF Keeps
  <2>4. QED
    BY <1>1, <2>3 DEF NullifierUsed
<1>4. CASE UNCHANGED ledger
  BY <1>1, <1>4 DEF NullifierUsed, Blocks
<1>5. QED
  BY <1>2, <1>3, <1>4 DEF Network, Evict
-----------------------------------------------------------------------------
(* The order of nonces.                                                     *)

\* An account's transactions are mined in the order of their nonces, with none
\* left out.
MinedInOrder ==
  \A b \in Blocks : ledger[b].tx.nonce =
    Cardinality({c \in Blocks : c < b /\ ledger[c].tx.from = ledger[b].tx.from})

\* What is kept of the ledger is in order still.
LEMMA OrderKept ==
  ASSUME ChainTypeOK, MinedInOrder, NEW n \in Nat, n <= Len(ledger), Blocks' = 1..n,
         \A b \in 1..n : ledger'[b].tx = ledger[b].tx
  PROVE  MinedInOrder'
<1> SUFFICES ASSUME NEW b \in 1..n
             PROVE  ledger'[b].tx.nonce =
                      Cardinality({c \in 1..n : c < b /\ ledger'[c].tx.from = ledger'[b].tx.from})
  BY DEF MinedInOrder
<1>1. Blocks = 1..Len(ledger) /\ Len(ledger) \in Nat
  BY BlocksAre
<1>2. {c \in 1..n : c < b /\ ledger'[c].tx.from = ledger'[b].tx.from}
        = {c \in Blocks : c < b /\ ledger[c].tx.from = ledger[b].tx.from}
  BY <1>1
<1>3. QED
  BY <1>1, <1>2 DEF MinedInOrder

LEMMA OrderMined ==
  ASSUME ChainTypeOK, MinedInOrder, NEW t, Mine(t)
  PROVE  MinedInOrder'
<1> DEFINE n == Len(ledger)
<1>1. n \in Nat /\ Blocks = 1..n
  BY BlocksAre
<1>2. Blocks' = 1..(n + 1) /\ Keeps(n)
  BY <1>1, MineLedger, LenProperties DEF Blocks
<1>3. ledger'[n + 1].tx = t
  <2>1. ledger'[n + 1] = [tx |-> t, ok |-> SettleOk(t), depth |-> 1]
    BY MineLedger
  <2>2. QED
    BY <2>1
<1> HIDE DEF n
<1>4. \A b \in 1..n : ledger'[b].tx = ledger[b].tx
  BY <1>2 DEF Keeps
<1>5. ASSUME NEW b \in 1..(n + 1)
      PROVE  ledger'[b].tx.nonce = Cardinality({c \in 1..(n + 1) : c < b /\ ledger'[c].tx.from = ledger'[b].tx.from})
  <2>1. CASE b \in 1..n
    <3>1. {c \in 1..(n + 1) : c < b /\ ledger'[c].tx.from = ledger'[b].tx.from}
            = {c \in Blocks : c < b /\ ledger[c].tx.from = ledger[b].tx.from}
      BY <1>1, <1>4, <2>1
    <3>2. QED
      BY <1>1, <1>4, <2>1, <3>1 DEF MinedInOrder
  <2>2. CASE b = n + 1
    <3>1. {c \in 1..(n + 1) : c < b /\ ledger'[c].tx.from = ledger'[b].tx.from}
            = {c \in Blocks : ledger[c].tx.from = t.from}
      BY <1>1, <1>3, <1>4, <2>2
    <3>2. t.nonce = NextNonce(t.from)
      BY DEF Mine
    <3>3. QED
      BY <1>3, <2>2, <3>1, <3>2 DEF NextNonce
  <2>3. QED
    BY <1>1, <2>1, <2>2
<1>6. QED
  BY <1>2, <1>5 DEF MinedInOrder

LEMMA OrderStep ==
  ASSUME ChainInv, MinedInOrder, Network \/ UNCHANGED ledger
  PROVE  MinedInOrder'
<1>1. Len(ledger) \in Nat /\ Blocks = 1..Len(ledger) /\ ChainTypeOK
  BY BlocksAre DEF ChainInv
<1>2. CASE UNCHANGED ledger
  <2>1. Blocks' = 1..Len(ledger) /\ \A b \in 1..Len(ledger) : ledger'[b].tx = ledger[b].tx
    BY <1>1, <1>2 DEF Blocks
  <2>2. QED
    BY <1>1, <2>1, OrderKept
<1>3. CASE NewBlock
  <2>1. Blocks' = 1..Len(ledger) /\ \A b \in Blocks : ledger'[b].tx = ledger[b].tx
    BY <1>1, <1>3, NewBlockLedger, LenProperties DEF Blocks, Keeps
  <2>2. QED
    BY <1>1, <2>1, OrderKept
<1>4. ASSUME NEW t \in pool, Mine(t) PROVE MinedInOrder'
  BY <1>1, <1>4, OrderMined
<1>5. CASE Reorg
  <2> DEFINE n == Len(ledger')
  <2>1. n \in Nat /\ n < Len(ledger) /\ Blocks' = 1..n /\ Keeps(n)
    BY <1>1, <1>5, ReorgLedger, LenProperties DEF Blocks
  <2> HIDE DEF n
  <2>2. QED
    BY <1>1, <2>1, OrderKept DEF Keeps
<1>6. ASSUME NEW t \in pool, Evict(t) PROVE MinedInOrder'
  BY <1>2, <1>6 DEF Evict
<1>7. QED
  BY <1>2, <1>3, <1>4, <1>5, <1>6 DEF Network

LEMMA InOrderIsBelow ==
  ASSUME ChainTypeOK, MinedInOrder
  PROVE  MinedBelow
<1> SUFFICES ASSUME NEW b \in Blocks PROVE ledger[b].tx.nonce < NextNonce(ledger[b].tx.from)
  BY DEF MinedBelow
<1> DEFINE a == ledger[b].tx.from
           before == {c \in Blocks : c < b /\ ledger[c].tx.from = a}
           all == {c \in Blocks : ledger[c].tx.from = a}
<1>1. IsFiniteSet(all) /\ IsFiniteSet(before) /\ Blocks \subseteq Nat
  BY BlocksAre, FS_Subset
<1>2. b \notin before /\ before \cup {b} \subseteq all
  BY <1>1
<1>3. Cardinality(before) = ledger[b].tx.nonce /\ Cardinality(all) = NextNonce(a)
  BY DEF MinedInOrder, NextNonce
<1> HIDE DEF a, before, all
<1>4. /\ IsFiniteSet(before \cup {b})
      /\ Cardinality(before \cup {b}) = Cardinality(before) + 1
      /\ Cardinality(before) \in Nat
  BY <1>1, <1>2, FS_AddElement, FS_CardinalityType
<1>5. Cardinality(before \cup {b}) <= Cardinality(all) /\ Cardinality(all) \in Nat
  BY <1>1, <1>2, FS_Subset, FS_CardinalityType
<1>6. QED
  BY <1>3, <1>4, <1>5 DEF a

\* The pending nonce is the least that is free.
LEMMA PendingNonceIsLeast ==
  \A a : \A n \in Nat :
    ChainInv /\ n >= NextNonce(a) /\ (\A t \in pool : t.from = a => t.nonce # n)
      => PendingNonce(a) <= n
<1> SUFFICES ASSUME NEW a, NEW n \in Nat, ChainInv, n >= NextNonce(a),
                    \A t \in pool : t.from = a => t.nonce # n
             PROVE  PendingNonce(a) <= n
  OBVIOUS
<1>1. NextNonce(a) \in Nat
  BY NextNonceType DEF ChainInv
<1>2. QED
  BY <1>1, PendingNonceIsFree

LEMMA PendingNonceIsLeastNext ==
  \A a : \A n \in Nat :
    ChainInv' /\ n >= NextNonce(a)' /\ (\A t \in pool' : t.from = a => t.nonce # n)
      => PendingNonce(a)' <= n
<1>1. (\A a : \A n \in Nat :
    ChainInv /\ n >= NextNonce(a) /\ (\A t \in pool : t.from = a => t.nonce # n)
      => PendingNonce(a) <= n)'
  BY PendingNonceIsLeast, PTL
<1>2. QED
  BY <1>1

LEMMA PendingNonceIsNonce ==
  \A x : ChainInv => PendingNonce(x) \in Nat
BY PendingNonceIsFree

LEMMA NextNonceTypeNext ==
  \A x : ChainInv' => NextNonce(x)' \in Nat
<1>1. \A x : ChainInv => NextNonce(x) \in Nat
  BY NextNonceType DEF ChainInv
<1>2. (\A x : ChainInv => NextNonce(x) \in Nat)'
  BY <1>1, PTL
<1>3. QED
  BY <1>2

LEMMA PendingNonceTypeNext ==
  \A x : ChainInv' => PendingNonce(x)' \in Nat
<1>1. (\A x : ChainInv => PendingNonce(x) \in Nat)'
  BY PendingNonceIsNonce, PTL
<1>2. QED
  BY <1>1

\* A reorg may send no nonce back to the pool but such as were mined.
LEMMA ReorgReturnsMined ==
  ASSUME ChainInv, Reorg, NEW t \in pool'
  PROVE  t \in pool \/ \E b \in Blocks : ledger[b].tx = t
<1>1. PICK b \in Blocks :
        LET orphaned == {[tx |-> ledger[c].tx, ok |-> ledger[c].ok] :
                          c \in {d \in Blocks : d >= b}}
        IN \E kept \in SUBSET orphaned : pool' = pool \cup {s.tx : s \in kept}
  BY DEF Reorg
<1>2. QED
  BY <1>1

LEMMA NextNonceFalls ==
  ASSUME ChainInv, Reorg, NEW a
  PROVE  NextNonce(a)' <= NextNonce(a)
<1> DEFINE n == Len(ledger')
           before == {b \in Blocks : ledger[b].tx.from = a}
           after == {b \in Blocks' : ledger'[b].tx.from = a}
<1>1. ChainTypeOK
  BY DEF ChainInv
<1>2. n \in Nat /\ n < Len(ledger) /\ Blocks' = 1..n /\ Keeps(n)
  BY <1>1, ReorgLedger, LenProperties DEF Blocks
<1>3. IsFiniteSet(before) /\ Blocks = 1..Len(ledger) /\ Len(ledger) \in Nat
  BY <1>1, BlocksAre, FS_Subset
<1> HIDE DEF n
<1>4. after \subseteq before
  BY <1>2, <1>3 DEF Keeps
<1> HIDE DEF before, after
<1>5. Cardinality(after) <= Cardinality(before)
  BY <1>3, <1>4, FS_Subset
<1>6. QED
  BY <1>5 DEF before, after, NextNonce

\* The nonce an account would send under next goes up by its own sending alone:
\* what a reorg returns to the pool is no further than what was mined.
LEMMA PendingNonceNeverRises ==
  ASSUME ChainInv, ChainInv', MinedInOrder, NEW a,
         \/ Network \/ Administration \/ UNCHANGED chain
         \/ \E t : Send(t) /\ t.from # a
  PROVE  PendingNonce(a)' <= PendingNonce(a)
<1> DEFINE p == PendingNonce(a)
           Goal == NextNonce(a)' <= p /\ \A t \in pool' : t.from = a => t.nonce # p
<1>1. /\ p \in Nat /\ p >= NextNonce(a) /\ NextNonce(a) \in Nat
      /\ \A t \in pool : t.from = a => t.nonce # p
  BY PendingNonceIsFree, NextNonceType DEF ChainInv
<1> HIDE DEF p
<1> SUFFICES Goal
  BY <1>1, PendingNonceIsLeastNext DEF p
<1>2. ASSUME Blocks' = Blocks, \A b \in Blocks : ledger'[b].tx = ledger[b].tx,
             \A t \in pool' : t.from = a => t \in pool
      PROVE  Goal
  BY <1>1, <1>2, NextNonceKept
<1>3. CASE UNCHANGED <<ledger, pool>>
  <2>1. /\ Blocks' = Blocks /\ \A b \in Blocks : ledger'[b].tx = ledger[b].tx
        /\ \A t \in pool' : t.from = a => t \in pool
    BY <1>3 DEF Blocks
  <2>2. QED
    BY <1>2, <2>1
<1>4. CASE NewBlock
  <2>1. Blocks' = Blocks /\ \A b \in Blocks : ledger'[b].tx = ledger[b].tx
    BY <1>4, NewBlockLedger, BlocksAre, LenProperties DEF ChainInv, Blocks, Keeps
  <2>2. pool' = pool
    BY <1>4 DEF NewBlock
  <2>3. QED
    BY <1>2, <2>1, <2>2
<1>5. ASSUME NEW t \in pool, Evict(t) PROVE Goal
  BY <1>2, <1>5 DEF Evict, Blocks
<1>6. ASSUME NEW t, Send(t), t.from # a PROVE Goal
  BY <1>2, <1>6 DEF Send, Blocks
<1>7. ASSUME NEW t \in pool, Mine(t) PROVE Goal
  <2>1. NextNonce(a)' = IF t.from = a THEN NextNonce(a) + 1 ELSE NextNonce(a)
    BY <1>7, NextNonceMined DEF ChainInv
  <2>2. t.nonce = NextNonce(t.from) /\ pool' \subseteq pool
    BY <1>7 DEF Mine
  <2>3. QED
    BY <1>1, <2>1, <2>2
<1>8. CASE Reorg
  <2>1. ASSUME NEW b \in Blocks, ledger[b].tx.from = a PROVE ledger[b].tx.nonce # p
    <3>1. ledger[b].tx.nonce < NextNonce(a) /\ ledger[b].tx.nonce \in Nat
      BY <2>1, InOrderIsBelow, BlocksAre DEF MinedBelow, ChainInv, Entry, Tx
    <3>2. QED
      BY <1>1, <3>1
  <2>2. \A t \in pool' : t.from = a => t.nonce # p
    BY <1>1, <1>8, <2>1, ReorgReturnsMined
  <2>3. NextNonce(a)' <= NextNonce(a)
    BY <1>8, NextNonceFalls
  <2>4. NextNonce(a)' \in Nat
    BY NextNonceTypeNext
  <2>5. QED
    BY <1>1, <2>2, <2>3, <2>4
<1>9. CASE Administration
  BY <1>3, <1>9 DEF Administration, RegisterCircuit, SetRelayer
<1>10. QED
  BY <1>3, <1>4, <1>5, <1>6, <1>7, <1>8, <1>9 DEF Network, chain
=============================================================================
