\* Two workers extract a PDF that takes all the turns it may, or a text, while
\* files are uploaded, removed with their entity, and stored again under the same
\* rowid.
SPECIFICATION FairSpec
CONSTANTS
  e1 = e1
  n1 = n1
  pdf = pdf
  note = note
  u1 = u1
  w1 = w1
  w2 = w2
  NoLease = NoLease
  NoFile = NoFile
  Entities = {e1}
  Names = {n1}
  Docs = {pdf, note}
  Size <- MCSize
  Pages <- MCPages
  Blocks = {1, 2}
  Uploads = {u1}
  Ids = {1}
  Workers = {w1, w2}
  MaxBytes = 2
  Budget = 1
  MaxAttempts = 2
  PagesPerTurn = 1
  MaxPages = 2
  MaxFiles = 2
INVARIANTS
  BudgetHolds
  FinishedNamesOwn
  StatusMatchesJob
  OnlyFailuresKill
PROPERTIES
  IsFileLife
  FilesSettle
  ReservationsEnd
