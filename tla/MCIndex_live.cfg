\* Liveness: one worker and one reader over an entity and a relation that ends in it.
SPECIFICATION FairSpec
CONSTANTS
  e1 = e1
  a1 = a1
  w1 = w1
  w2 = w2
  p1 = p1
  p2 = p2
  r1 = r1
  NoProfile = NoProfile
  NoLease = NoLease
  NoJob = NoJob
  Profiles = {p1}
  Entities = {e1}
  Relations = {1}
  Attachments = {}
  Ends = {e1}
  Parent <- MCParent
  Blank = {}
  Workers = {w1}
  Readers = {r1}
  MaxAttempts = 1
  MaxContent = 1
  MaxBatches = 1
  MaxFaults = 0
PROPERTIES
  JobsSettle
  RebuildEnds
  ReadersCatchUp
