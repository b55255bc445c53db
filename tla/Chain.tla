------------------------------- MODULE Chain --------------------------------
(***************************************************************************)
(* The chain as the relayer sees it through its node: which transactions   *)
(* are pending, which are mined and how deep, and the settlement contract  *)
(* they call. The node and the network are external and are modelled from  *)
(* how the relayer uses them; settle is the contract's own code.           *)
(*                                                                         *)
(* A transaction is its content, as its hash is. Blocks are kept only as   *)
(* far as they hold a settlement: the ledger lists the mined transactions  *)
(* in order, each with its depth, counted up to the depth the relayer      *)
(* waits for. A reorg replaces the blocks from some point on by a branch   *)
(* at least as long, so what it keeps is no shallower than before.         *)
(***************************************************************************)
EXTENDS Naturals, Sequences, FiniteSets

CONSTANTS
  Account,        \* the accounts that may settle
  Call,           \* settlement calls: a proof and its public inputs
  NullifierOf,    \* the last public input of each call
  Sound,          \* the calls whose proof the verifier accepts
  Confirmations,  \* the depth the relayer waits for
  MaxPrice,       \* the price at the gas ceiling, counted in bumps
  MaxReorgs,      \* bound on reorgs
  Evictions,      \* bound on transactions the node forgets
  Changes,        \* bound on what the contract's owner changes
  LateInclusion   \* whether a replaced transaction may still be mined

ASSUME ChainAssumption ==
  /\ Call = DOMAIN NullifierOf
  /\ Sound \subseteq Call
  /\ Confirmations \in Nat \ {0} /\ MaxPrice \in Nat \ {0}
  /\ MaxReorgs \in Nat /\ Evictions \in Nat /\ Changes \in Nat
  /\ LateInclusion \in BOOLEAN

VARIABLES
  ledger,     \* mined transactions: [tx, ok, depth], in order
  pool,       \* transactions some block producer may still include
  stale,      \* receipts the node still gives for orphaned blocks: [tx, ok]
  registered, \* whether the circuit has a verifier
  authorised, \* the accounts that are relayers to the contract
  reorgs,     \* reorgs so far
  evictions,  \* forgotten transactions so far
  changes     \* the owner's changes so far

owner == <<registered, authorised, changes>>
chain == <<ledger, pool, stale, owner, reorgs, evictions>>

Tx == [from : Account, nonce : Nat, call : Call, price : 1..MaxPrice]

ChainTypeOK ==
  /\ ledger \in Seq([tx : Tx, ok : BOOLEAN, depth : 1..Confirmations])
  /\ pool \subseteq Tx
  /\ stale \subseteq [tx : Tx, ok : BOOLEAN]
  /\ registered \in BOOLEAN /\ authorised \subseteq Account
  /\ changes \in 0..Changes
  /\ reorgs \in 0..MaxReorgs
  /\ evictions \in 0..Evictions

ChainInit ==
  /\ ledger = <<>> /\ pool = {} /\ stale = {}
  /\ registered = TRUE /\ authorised = Account
  /\ reorgs = 0 /\ evictions = 0 /\ changes = 0

Blocks == DOMAIN ledger
SameSlot(t, u) == t.from = u.from /\ t.nonce = u.nonce

\* mined: what the receipt says. It goes on naming a block that has been
\* orphaned, so only the caller's check of the block tells the two apart.
Mined(t) == \E b \in Blocks : ledger[b].tx = t
Receipt(t, ok) == \/ \E b \in Blocks : ledger[b].tx = t /\ ledger[b].ok = ok
                  \/ [tx |-> t, ok |-> ok] \in stale
Reverted(t) == Receipt(t, FALSE)
Orphaned(t) == [tx |-> t, ok |-> TRUE] \in stale
BuriedDeep(t) == \E b \in Blocks : /\ ledger[b].tx = t /\ ledger[b].ok
                                   /\ ledger[b].depth >= Confirmations

\* The nonce the account's next mined transaction must have.
NextNonce(a) == Cardinality({b \in Blocks : ledger[b].tx.from = a})

\* pending_nonce: after every transaction that can follow in sequence.
PendingNonce(a) ==
  LET taken == {t.nonce : t \in {u \in pool : u.from = a}}
  IN CHOOSE n \in NextNonce(a)..(NextNonce(a) + Cardinality(taken)) :
       n \notin taken /\ \A m \in NextNonce(a)..n : m < n => m \in taken

\* nullifier_used
NullifierUsed(c) ==
  \E b \in Blocks : ledger[b].ok /\ NullifierOf[ledger[b].tx.call] = NullifierOf[c]

\* transaction_terms: the node knows what is mined and, of what competes for
\* one nonce, the best priced.
KnownToNode(t) ==
  Mined(t) \/ /\ t \in pool
              /\ \A u \in pool : SameSlot(t, u) => u.price <= t.price

\* What send_transaction takes: not a nonce already mined, not a transaction
\* already known, not a replacement that does not pay more.
Accepts(t) ==
  /\ t.nonce >= NextNonce(t.from)
  /\ \A u \in pool : SameSlot(t, u) => t.price > u.price

Send(t) ==
  /\ pool' = {t} \cup {u \in pool : LateInclusion \/ ~SameSlot(t, u)}
  /\ UNCHANGED <<ledger, stale, owner, reorgs, evictions>>
-----------------------------------------------------------------------------
(* What the network does. *)

\* settle's first two requirements, which have nothing to do with the proof.
Admits(a) == a \in authorised /\ registered

\* Slip: the replay check is left to the verifier.
SettleUnchecked(t) == Admits(t.from) /\ t.call \in Sound

\* The contract's settle: whether a transaction succeeds when it is mined.
SettleOk(t) == Admits(t.from) /\ ~NullifierUsed(t.call) /\ t.call \in Sound

Deeper(entry) ==
  [entry EXCEPT !.depth = IF @ < Confirmations THEN @ + 1 ELSE @]

\* A block with nothing of ours in it.
NewBlock ==
  /\ \E b \in Blocks : ledger[b].depth < Confirmations
  /\ ledger' = [b \in Blocks |-> Deeper(ledger[b])]
  /\ UNCHANGED <<pool, stale, owner, reorgs, evictions>>

\* A block with a pending transaction: it ends whatever else wanted its nonce.
Mine(t) ==
  /\ t \in pool /\ t.nonce = NextNonce(t.from)
  /\ ledger' = Append([b \in Blocks |-> Deeper(ledger[b])],
                      [tx |-> t, ok |-> SettleOk(t), depth |-> 1])
  /\ pool' = {u \in pool : ~SameSlot(t, u)}
  /\ stale' = {s \in stale : s.tx # t}
  /\ UNCHANGED <<owner, reorgs, evictions>>

\* A reorg orphans everything from some block on. What was mined there is
\* pending again or is lost, and the node remembers its receipt or does not;
\* one that is lost and not remembered is a transaction the node forgets.
Reorg ==
  /\ reorgs < MaxReorgs
  /\ \E b \in Blocks :
       LET orphaned == {[tx |-> ledger[c].tx, ok |-> ledger[c].ok] :
                         c \in {d \in Blocks : d >= b}}
       IN \E kept, named \in SUBSET orphaned :
            LET forgotten == Cardinality(orphaned \ (kept \cup named))
            IN /\ ledger' = SubSeq(ledger, 1, b - 1)
               /\ pool' = pool \cup {s.tx : s \in kept}
               /\ stale' = stale \cup named
               /\ evictions' = evictions + forgotten
               /\ evictions' <= Evictions
  /\ reorgs' = reorgs + 1
  /\ UNCHANGED owner

\* The node's pool drops a transaction it does not expect to mine.
Evict(t) ==
  /\ t \in pool
  /\ evictions < Evictions
  /\ pool' = pool \ {t}
  /\ evictions' = evictions + 1
  /\ UNCHANGED <<ledger, stale, owner, reorgs>>

\* registerCircuit or deregisterCircuit, by the contract's owner.
RegisterCircuit ==
  /\ changes < Changes /\ changes' = changes + 1
  /\ registered' = ~registered
  /\ UNCHANGED <<ledger, pool, stale, authorised, reorgs, evictions>>

\* setRelayer
SetRelayer(a) ==
  /\ changes < Changes /\ changes' = changes + 1
  /\ \/ a \in authorised /\ authorised' = authorised \ {a}
     \/ a \notin authorised /\ authorised' = authorised \cup {a}
  /\ UNCHANGED <<ledger, pool, stale, registered, reorgs, evictions>>

Administration == RegisterCircuit \/ \E a \in Account : SetRelayer(a)

Network == NewBlock \/ Reorg \/ \E t \in pool : Mine(t) \/ Evict(t)
-----------------------------------------------------------------------------
\* No job settles twice on chain: however many transactions carry the same
\* nullifier, from whichever relayers, at most one of them succeeds.
NullifierSpentOnce ==
  \A b, c \in Blocks :
    (/\ ledger[b].ok /\ ledger[c].ok
     /\ NullifierOf[ledger[b].tx.call] = NullifierOf[ledger[c].tx.call]) => b = c
=============================================================================
