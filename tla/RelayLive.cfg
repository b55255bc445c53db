CONSTANTS
  Job = {j1, j2, j3}
  Call = {j1, j2, j3}
  Relayer = {r1}
  Account = {r1}
  Actor = {r1, w1}
  NullifierOf <- OwnNullifiers
  Sound = {j1, j2}
  NoOne = NoOne
  Nothing = Nothing
  MaxAttempts = 2
  Confirmations = 2
  MaxPrice = 2
  MaxReorgs = 1
  Evictions = 0
  Changes = 1
  LateInclusion = FALSE
  Disturbances = 0
  TableKept = FALSE
SPECIFICATION FairRelaySpec
CHECK_DEADLOCK FALSE
INVARIANTS
  SettledIsConsumedOrWatched
PROPERTIES
  EveryProofIsDecided
