\* The delete job of a dropped tombstone is never settled.
SPECIFICATION FairSpec
CONSTANTS
  e1 = e1
  a1 = a1
  w1 = w1
  w2 = w2
  p1 = p1
  p2 = p2
  r1 = r1
  NoProfile = NoProfile
  NoLease = NoLease
  NoJob = NoJob
  Profiles = {p1}
  Entities = {}
  Relations = {1, 2, 3}
  Attachments = {}
  Ends = {}
  Parent <- MCParent
  Blank = {}
  Workers = {w1}
  Readers = {}
  MaxAttempts = 1
  MaxContent = 1
  MaxBatches = 1
  MaxFaults = 0
PROPERTIES
  JobsSettle
