\* Writes, edits, moves and reads of a small graph, in five worlds.
SPECIFICATION Spec
CONSTANTS
  Parts = {"texts", "links", "edits", "types", "walks"}
  x1 = x1
  y1 = y1
  t1 = t1
  u1 = u1
  b1 = b1
  Names = {x1, y1}
  NoName = none
  AnyValue = any
  EntityTypes = {t1, u1}
  RelationTypes = {def, r}
  Defines = def
  Bodies = {b1, c1}
  AttrKeys = {k}
  AttrValues = {v}
  EntityInputs <- EntityInputsDef
  RelationInputs <- RelationInputsDef
  MaxBatch = 1
  MaxEntity = 3
  MaxObs = 2
  MaxRelObs = 2
  MaxMirror = 2
  NodeIds = {1, 2, 3, 4}
  LinkTypes = {"t", "u"}
  AnyType = "any"
  Nets <- NetsDef
  Questions <- QuestionsDef
  MaxEntities = 3
  MaxRels = 4
  MaxQueue = 3
  MaxNeighborDepth = 2
  MaxExpandDepth = 1
  MaxPathsDepth = 3
  MaxPathsResults = 9
  MaxSearchLimit = 2
  MaxNamesAsked = 2
  MaxRelationResults = 3
  MaxExportRows = 3
  MaxUiNodes = 2
  PageSizes = {1, 2}
  MaxCommits = 1
INVARIANTS
  CountersExact
  SearchIndexExact
  MirrorsExact
  ReplicaExact
  
  
PROPERTIES
  MovesLoseNothing
CHECK_DEADLOCK FALSE
