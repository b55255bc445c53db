CONSTANTS
  j1 = j1
  j2 = j2
  Job = {j1, j2}
  Call <- OneHost
  NoCall = NoCall
  Crashes = 1
  Preparations = 1
SPECIFICATION TwoCallsSpec
CHECK_DEADLOCK FALSE
INVARIANTS
  ProvingTypeOK
  ProofIsOfItsOwnWitness
  ScratchIsPrivate
  PermanentIsDeserved
  LeftoversComeFromAKill
PROPERTIES
  EveryCallReturns
  NoChildIsLeftRunning
