\* A cache of two open graphs under two requests and the indexer; each role of a process with
\* up to three workspaces; a managed repository under two jobs and a local directory under two
\* watchers; the repair of old files.
SPECIFICATION Spec
CONSTANTS
  Parts = {"handles", "roles", "repair", "code"}
  g2 = g2
  q2 = q2
  Graphs = {g1, g2, g3}
  Legacy = g1
  Callers = {q1, q2}
  Bound = 2
  MaxHandles = 4
  MaxId = 3
  s1 = s1
  s2 = s2
  s3 = s3
  Spaces = {s1, s2, s3}
  FirstSpace = s1
  Csvs <- CsvsDef
  PollerBound = 2
  MaxErrors = 1
  OldFiles <- OldFilesDef
  SourceFiles = {f1}
  MaxVersion = 2
  MaxChanges = 3
  j1 = j1
  j2 = j2
  Jobs = {j1, j2}
  MaxWatchers = 2
  BackupPaths = {"b1", "b2"}
  MaxRepairs = 3
INVARIANTS
  NoIdTaken
  RepairExact
  NothingLeftBehind
  
PROPERTIES
  EntriesCatchUp
  EveryWorkspaceServed
  WakesHeard
