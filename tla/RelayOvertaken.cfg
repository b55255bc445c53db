CONSTANTS
  Job = {j1}
  Call = {j1}
  Relayer = {r1}
  Account = {r1}
  Actor = {r1, w1}
  NullifierOf <- OwnNullifiers
  Sound = {j1}
  NoOne = NoOne
  Nothing = Nothing
  MaxAttempts = 2
  Confirmations = 2
  MaxPrice = 2
  MaxReorgs = 0
  Evictions = 0
  Changes = 0
  LateInclusion = TRUE
  Disturbances = 0
  TableKept = FALSE
SPECIFICATION FairRelaySpec
CHECK_DEADLOCK FALSE
PROPERTIES
  EveryProofIsDecided
