CONSTANTS
  Controllers <- OneProcess
  MaxUid = 1
  MaxFaults = 1
  Backends = {"tidb", "secret"}
  RootRefs = {"none", "user"}
  Foreign = {}
  TidbVerbs <- AllVerbs
  StaleList = FALSE
  DefineOverwrites = FALSE
SPECIFICATION FairSpec
PROPERTIES DeletionCompletes AccessCloses Recovers BecomesReady
\* The last incarnation may be gone and nothing left to do.
CHECK_DEADLOCK FALSE
