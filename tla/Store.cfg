SPECIFICATION Spec
CONSTANTS
  w1 = w1  w2 = w2  w3 = w3  r1 = r1
  p1 = p1  p2 = p2
  Handles = {w1, w2, w3, r1}
  Writers = {w1, w2, w3}
  Procs = {p1, p2}
  ProcOf <- MCProcOf
  Docs = {d1}
  MaxGeneration = 3
  MaxEpoch = 2
  MaxRetained = 2
  Damageable = {1, 2, 3}
  NoDigest = NoDigest
  NoFile = NoFile
  NoDoc = NoDoc
INVARIANTS
  TypeOK
  HeadIsWhole
  HistoryIsChained
  WriterOwnsDirectory
  PublishBaseIsCurrent
  LoadedWasCommitted
  RetentionIsBounded
PROPERTIES
  ImplementsHead
  CancelledNeverCommits
  RecoversNewest
