CONSTANTS
  Job <- JobNumbers
  Worker = {w1}
  Relayer = {}
  Actor = {w1}
  NoOne = NoOne
  NoJob = NoJob
  MaxAttempts = 1
  Disturbances = 0
  HeartbeatsKeepUp = TRUE
  Client = {c1, c2}
  Request <- RequestNumbers
  NoRequest = NoRequest
  Circuit <- SomeCircuits
  Schema = {"seeded", "struct", "any"}
  CircuitOf <- CircuitNamed
  JobOf <- HashedTo
  Conforming <- LetThrough
  Unregistered = Unregistered
  InitialCircuits <- SomeTables
  MaxQueueDepth = 1
  Upserts = 1
  KeyOrder <- SomeKeys
  Slugs <- SomeCircuits
  Length <- SomeLength
  KeyPath <- NamesIn
  MaxKeyLen = 3
  MaxIdLen = 3
  MaxStringLen = 3
  MaxArrayLen = 2
  MaxDepth = 2
SPECIFICATION IngestSpec
SYMMETRY Symmetry
INVARIANTS
  IngestTypeOK
  OvershootIsBounded
  OneCreator
  SameJobIffSameWork
  ProverReadsWhatWasAccepted
PROPERTIES
  NothingUnwelcomeIsTaken
