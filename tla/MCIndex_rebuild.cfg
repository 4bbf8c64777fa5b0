\* Two profiles: the second is built while the first serves; two requests per document.
SPECIFICATION Spec
CONSTANTS
  e1 = e1
  a1 = a1
  w1 = w1
  w2 = w2
  p1 = p1
  p2 = p2
  r1 = r1
  NoProfile = NoProfile
  NoLease = NoLease
  NoJob = NoJob
  Profiles = {p1, p2}
  Entities = {e1}
  Relations = {}
  Attachments = {}
  Ends = {}
  Parent <- MCParent
  Blank = {}
  Workers = {w1}
  Readers = {r1}
  MaxAttempts = 2
  MaxContent = 2
  MaxBatches = 2
  MaxFaults = 1
SYMMETRY Symmetry
INVARIANTS
  NothingForgotten
  SearchIsCurrent
PROPERTIES
  SnapshotsAdvance
  ActivationIsComplete
