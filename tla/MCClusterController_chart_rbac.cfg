CONSTANTS
  Controllers <- OneProcess
  MaxUid = 1
  MaxFaults = 0
  Backends = {"tidb"}
  RootRefs = {"none"}
  Foreign = {}
  TidbVerbs <- ChartVerbs
  StaleList = FALSE
  DefineOverwrites = FALSE
SPECIFICATION FairSpec
PROPERTIES DeletionCompletes
\* The last incarnation may be gone and nothing left to do.
CHECK_DEADLOCK FALSE
