--------------------------- MODULE BiddingProofs ----------------------------
(* Proofs about the bid, for every policy and every market.                 *)
EXTENDS Bidding, TLAPS

\* A percentage is an integer the code can hold, and more per cent is no less.
LEMMA PercentOfIsMonotonic ==
  ASSUME NEW v \in 0..MaxUint, NEW p \in Nat, NEW q \in Nat, p <= q
  PROVE  /\ PercentOf(v, p) \in 0..MaxUint
         /\ PercentOf(v, p) <= PercentOf(v, q)
<1> DEFINE low == Saturated(v * p)
           high == Saturated(v * q)
<1>1. v * p \in Nat /\ v * q \in Nat /\ v * p <= v * q
  <2>1. PICK d \in Nat : q = p + d
    <3>1. q - p \in Nat /\ q = p + (q - p)
      OBVIOUS
    <3> QED BY <3>1
  <2>2. v \in Nat /\ v * p \in Nat /\ v * d \in Nat
    BY <2>1
  <2>3. v * q = v * p + v * d
    BY <2>1, <2>2
  <2> QED BY <2>2, <2>3
<1>2. low \in 0..MaxUint /\ high \in 0..MaxUint /\ low <= high
  BY <1>1, BiddingAssumption DEF Saturated, Lesser
<1>3. low \div 100 \in 0..MaxUint /\ low \div 100 <= high \div 100
  BY <1>2, BiddingAssumption
<1> QED BY <1>3 DEF PercentOf

\* A raise is one the node takes, where the integers leave room for one.
LEMMA RaiseClears ==
  ASSUME NEW v \in 0..MaxUint, v < MaxUint
  PROVE  Raise(v) \in 0..MaxUint /\ Clears(v, Raise(v))
<1> DEFINE tenth == PercentOf(v, 10)
           bump == PercentOf(v, BumpPercent)
<1>1. tenth \in 0..MaxUint /\ tenth <= bump /\ bump \in 0..MaxUint
  <2>1. 10 \in Nat /\ BumpPercent \in Nat /\ 10 <= BumpPercent /\ BumpPercent <= BumpPercent
    BY BiddingAssumption
  <2>2. tenth \in 0..MaxUint /\ tenth <= bump
    BY <2>1, PercentOfIsMonotonic
  <2>3. bump \in 0..MaxUint
    BY <2>1, PercentOfIsMonotonic
  <2> QED BY <2>2, <2>3
<1> HIDE DEF tenth, bump
<1>2. Saturated(v + tenth) <= Saturated(v + bump)
  BY <1>1, BiddingAssumption DEF Saturated, Lesser
<1>3. Saturated(v + 1) = v + 1
  BY BiddingAssumption DEF Saturated, Lesser
<1>4. Raise(v) = Greater(Saturated(v + bump), v + 1)
  BY <1>3 DEF Raise, bump
<1>5. Raise(v) \in 0..MaxUint /\ Raise(v) > v /\ Raise(v) >= Saturated(v + tenth)
  BY <1>1, <1>2, <1>4, BiddingAssumption DEF Greater, Saturated, Lesser
<1> QED BY <1>5 DEF Clears, tenth
-----------------------------------------------------------------------------
LEMMA InitialIsPayable ==
  ASSUME NEW b \in 0..MaxUint, NEW t \in 0..MaxUint
  PROVE  /\ Initial(b, t) \in Fees
         /\ Initial(b, t).fee <= MaxFeeCap /\ Initial(b, t).tip <= MaxTipCap
         /\ Initial(b, t).tip <= Initial(b, t).fee
<1> DEFINE headroom == PercentOf(b, HeadroomPercent)
<1>1. headroom \in 0..MaxUint
  BY PercentOfIsMonotonic, BiddingAssumption
<1> HIDE DEF headroom
<1> DEFINE tip == Lesser(t, MaxTipCap)
           fee == Lesser(Saturated(headroom + tip), MaxFeeCap)
<1>2. tip \in 0..MaxUint /\ tip <= MaxTipCap
  BY BiddingAssumption DEF Lesser
<1>3. fee \in 0..MaxUint /\ fee <= MaxFeeCap
  BY <1>1, <1>2, BiddingAssumption DEF Lesser, Saturated
<1>4. Lesser(tip, fee) \in 0..MaxUint /\ Lesser(tip, fee) <= tip /\ Lesser(tip, fee) <= fee
  BY <1>2, <1>3, BiddingAssumption DEF Lesser
<1>5. Lesser(tip, fee) <= MaxTipCap
  BY <1>2, <1>3, <1>4, BiddingAssumption
<1>6. Initial(b, t) = [fee |-> fee, tip |-> Lesser(tip, fee)]
  BY DEF Initial, headroom
<1> HIDE DEF tip, fee
<1> QED BY <1>3, <1>4, <1>5, <1>6 DEF Fees

LEMMA HigherIsPayable ==
  ASSUME NEW o \in Fees, o.fee < MaxFeeCap, o.tip <= o.fee
  PROVE  /\ Higher(o) \in Fees
         /\ Higher(o).fee <= MaxFeeCap /\ Higher(o).tip <= MaxTipCap
         /\ Higher(o).tip <= Higher(o).fee
<1>1. o.fee \in 0..MaxUint /\ o.tip \in 0..MaxUint
  BY DEF Fees
<1>2. Raise(o.fee) \in 0..MaxUint /\ Raise(o.tip) \in 0..MaxUint
  BY <1>1, RaiseClears, BiddingAssumption
<1> DEFINE fee == Lesser(Raise(o.fee), MaxFeeCap)
           tip == Lesser(Lesser(Raise(o.tip), MaxTipCap), fee)
<1>3. fee \in 0..MaxUint /\ fee <= MaxFeeCap
  BY <1>2, BiddingAssumption DEF Lesser
<1>4. tip \in 0..MaxUint /\ tip <= MaxTipCap /\ tip <= fee
  BY <1>2, <1>3, BiddingAssumption DEF Lesser
<1>5. Higher(o) = [fee |-> fee, tip |-> tip]
  BY DEF Higher
<1> HIDE DEF fee, tip
<1> QED BY <1>3, <1>4, <1>5 DEF Fees

\* The offer is one that can be paid, under both ceilings, whatever the policy,
\* the market and the number of bumps.
THEOREM OffersArePayable == Spec => []OfferIsPayable
<1> DEFINE Inv == base \in 0..MaxUint /\ OfferIsPayable
<1>1. Init => Inv
  BY BiddingAssumption DEF Init, OfferIsPayable
<1>2. Inv /\ [Next]_vars => Inv'
  <2> SUFFICES ASSUME Inv, [Next]_vars PROVE Inv'
    OBVIOUS
  <2>1. ASSUME NEW t \in Tips, FirstOffer(t) PROVE Inv'
    <3>1. t \in 0..MaxUint
      BY BiddingAssumption
    <3> QED BY <2>1, <3>1, InitialIsPayable DEF FirstOffer, OfferIsPayable
  <2>2. CASE Replace
    <3>1. offer \in Fees /\ offer.tip <= offer.fee
      BY <2>2 DEF Replace, OfferIsPayable
    <3>2. offer.fee < MaxFeeCap
      BY <2>2, <3>1, BiddingAssumption DEF Replace, AtCeiling, Fees
    <3> QED BY <2>2, <3>1, <3>2, HigherIsPayable DEF Replace, OfferIsPayable
  <2>3. CASE Mine
    BY <2>3 DEF Mine, OfferIsPayable
  <2>4. CASE MarketMoves
    BY <2>4, BiddingAssumption DEF MarketMoves, OfferIsPayable
  <2>5. CASE UNCHANGED vars
    BY <2>5 DEF vars, OfferIsPayable
  <2> QED BY <2>1, <2>2, <2>3, <2>4, <2>5 DEF Next
<1>3. Inv => OfferIsPayable
  OBVIOUS
<1> QED BY <1>1, <1>2, <1>3, PTL DEF Spec

\* Where bump offers nothing, no fee under the ceiling would be taken.
THEOREM GivesUpRightly == Spec => []GivesUpOnlyAtCeiling
<1>1. OfferIsPayable => GivesUpOnlyAtCeiling
  <2> SUFFICES ASSUME OfferIsPayable, offer # NoOffer, AtCeiling(offer)
               PROVE  ~Clears(offer.fee, MaxFeeCap)
    BY DEF GivesUpOnlyAtCeiling
  <2>1. offer.fee \in 0..MaxUint
    BY DEF OfferIsPayable, Fees
  <2>2. CASE offer.fee >= MaxFeeCap
    BY <2>1, <2>2, BiddingAssumption DEF Clears
  <2>3. CASE offer.fee < MaxFeeCap /\ Raise(offer.fee) <= MaxFeeCap
    <3>1. Raise(offer.fee) \in 0..MaxUint /\ Clears(offer.fee, Raise(offer.fee))
      BY <2>1, <2>3, RaiseClears, BiddingAssumption
    <3>2. Higher(offer).fee = Raise(offer.fee)
      BY <2>3 DEF Higher, Lesser
    <3> QED BY <2>1, <2>3, <3>1, <3>2, BiddingAssumption DEF AtCeiling
  <2>4. CASE offer.fee < MaxFeeCap /\ ~(Raise(offer.fee) <= MaxFeeCap)
    <3>1. Higher(offer).fee = MaxFeeCap
      BY <2>4 DEF Higher, Lesser
    <3> QED BY <2>1, <2>4, <3>1, BiddingAssumption DEF AtCeiling
  <2> QED BY <2>1, <2>2, <2>3, <2>4, BiddingAssumption
<1> QED BY <1>1, OffersArePayable, PTL
=============================================================================
