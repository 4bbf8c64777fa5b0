\* A dead-lettered entity is still served.
SPECIFICATION Spec
CONSTANTS
  e1 = e1
  a1 = a1
  w1 = w1
  w2 = w2
  p1 = p1
  p2 = p2
  r1 = r1
  NoProfile = NoProfile
  NoLease = NoLease
  NoJob = NoJob
  Profiles = {p1}
  Entities = {e1}
  Relations = {}
  Attachments = {}
  Ends = {}
  Parent <- MCParent
  Blank = {}
  Workers = {w1}
  Readers = {r1}
  MaxAttempts = 1
  MaxContent = 2
  MaxBatches = 1
  MaxFaults = 0
SYMMETRY Symmetry
INVARIANTS
  NoDeadLetterServed
