CONSTANTS
  MaxFeeCap = 50
  MaxTipCap = 10
  BumpPercent = 25
  HeadroomPercent = 200
  MaxUint = 9999
  BaseFees <- SomeBaseFees
  Tips <- SomeTips
  NoOffer = NoOffer
SPECIFICATION FairSpec
CHECK_DEADLOCK FALSE
INVARIANTS
  OfferIsPayable
  GivesUpOnlyAtCeiling
PROPERTIES
  BidsRiseToACeiling
