------------------------------ MODULE Bidding -------------------------------
(***************************************************************************)
(* What a relayer offers for one settlement while it is not mined: the     *)
(* first offer, and the replacements that bid it up. The arithmetic is     *)
(* that of GasPolicy, saturating where the code saturates; the market and  *)
(* the node's rule for replacements are external.                          *)
(*                                                                         *)
(* Relay counts prices in accepted bumps. This module says which bumps     *)
(* those are.                                                              *)
(***************************************************************************)
EXTENDS Naturals

CONSTANTS
  MaxFeeCap, MaxTipCap,    \* max_fee_cap, max_priority_fee_cap
  BumpPercent,             \* bump_percent
  HeadroomPercent,         \* base_fee_headroom_percent
  MaxUint,                 \* the largest integer, u128::MAX
  BaseFees, Tips,          \* what the chain may report
  NoOffer                  \* nothing broadcast yet

ASSUME BiddingAssumption ==
  /\ MaxUint \in Nat
  /\ MaxFeeCap \in 1..MaxUint /\ MaxTipCap \in 1..MaxUint
  /\ BumpPercent \in Nat /\ BumpPercent >= 10
  /\ HeadroomPercent \in Nat
  /\ BaseFees \subseteq 0..MaxUint /\ Tips \subseteq 0..MaxUint

VARIABLES
  base,   \* the base fee of the next block
  offer,  \* the fees of the transaction the node holds
  mined   \* whether it has been included

vars == <<base, offer, mined>>

Fees == [fee : 0..MaxUint, tip : 0..MaxUint]

ASSUME NoOfferAssumption == NoOffer \notin Fees

Lesser(m, n) == IF m <= n THEN m ELSE n
Greater(m, n) == IF m <= n THEN n ELSE m
Saturated(n) == Lesser(n, MaxUint)

\* percent_of
PercentOf(v, percent) == Saturated(v * percent) \div 100

\* clears_replacement_rule: more, and more by a tenth. The node asks it of the
\* fee and of the tip.
Clears(from, to) == to > from /\ to >= Saturated(from + PercentOf(from, 10))
NodeTakes(from, to) == Clears(from.fee, to.fee) /\ Clears(from.tip, to.tip)

\* Slip: the ceiling is left to the replacements.
InitialOverCeiling(b, t) ==
  LET tip == Lesser(t, MaxTipCap)
      fee == Saturated(PercentOf(b, HeadroomPercent) + tip)
  IN [fee |-> fee, tip |-> Lesser(tip, fee)]

\* initial
Initial(b, t) ==
  LET tip == Lesser(t, MaxTipCap)
      fee == Lesser(Saturated(PercentOf(b, HeadroomPercent) + tip), MaxFeeCap)
  IN [fee |-> fee, tip |-> Lesser(tip, fee)]

\* Slip: a percentage alone, which leaves a small fee where it is.
RaiseByPercent(v) == Saturated(v + PercentOf(v, BumpPercent))

\* bump, how one fee is raised: by a percentage, and by one at least.
Raise(v) == Greater(Saturated(v + PercentOf(v, BumpPercent)), Saturated(v + 1))

\* Slip: the fee is raised and the tip is not.
HigherFeeOnly(o) == [fee |-> Lesser(Raise(o.fee), MaxFeeCap), tip |-> o.tip]

\* bump, what it offers.
Higher(o) ==
  LET fee == Lesser(Raise(o.fee), MaxFeeCap)
  IN [fee |-> fee, tip |-> Lesser(Lesser(Raise(o.tip), MaxTipCap), fee)]

\* bump, when it offers nothing: the rise left under the ceiling is one the
\* node would refuse. It looks at the fee only.
AtCeiling(o) == o.fee >= MaxFeeCap \/ ~Clears(o.fee, Higher(o).fee)
-----------------------------------------------------------------------------
Init == base \in BaseFees /\ offer = NoOffer /\ mined = FALSE

\* settle: the first offer, from what the chain reports.
FirstOffer(t) ==
  /\ offer = NoOffer
  /\ offer' = Initial(base, t)
  /\ UNCHANGED <<base, mined>>

\* track, stuck: bid higher. A replacement the node refuses changes nothing.
Replace ==
  /\ offer # NoOffer /\ ~mined
  /\ ~AtCeiling(offer)
  /\ NodeTakes(offer, Higher(offer))
  /\ offer' = Higher(offer)
  /\ UNCHANGED <<base, mined>>

\* Some block includes it.
Mine ==
  /\ offer # NoOffer /\ ~mined
  /\ offer.fee >= base
  /\ mined' = TRUE
  /\ UNCHANGED <<base, offer>>

MarketMoves ==
  /\ ~mined
  /\ base' \in BaseFees
  /\ UNCHANGED <<offer, mined>>

Next == Replace \/ Mine \/ MarketMoves \/ \E t \in Tips : FirstOffer(t)

Spec == Init /\ [][Next]_vars

\* track tries again for as long as the transaction is not mined.
FairSpec == Spec /\ WF_vars(Replace)
-----------------------------------------------------------------------------
\* Whatever the chain reports and however often the bid is raised, the offer is
\* one that can be paid: under both ceilings, and no tip above the whole fee,
\* which a node would refuse outright.
OfferIsPayable ==
  offer # NoOffer =>
    /\ offer \in Fees
    /\ offer.fee <= MaxFeeCap /\ offer.tip <= MaxTipCap
    /\ offer.tip <= offer.fee

\* bump gives up only where no fee under the ceiling would be taken: not at
\* zero, and not where rounding eats a percentage.
GivesUpOnlyAtCeiling ==
  offer # NoOffer /\ AtCeiling(offer) => ~Clears(offer.fee, MaxFeeCap)

\* A stuck bid goes up until it is mined or a ceiling stops it, that of the fee
\* or that of the tip; it never stops rising for another reason.
BidsRiseToACeiling ==
  offer # NoOffer ~>
    /\ offer # NoOffer
    /\ \/ mined
       \/ ~Clears(offer.fee, MaxFeeCap)
       \/ ~Clears(offer.tip, MaxTipCap)
=============================================================================
