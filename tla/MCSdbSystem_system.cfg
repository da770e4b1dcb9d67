CONSTANTS
  Controllers <- OneProcess
  MaxUid = 1
  MaxFaults = 0
  Backends = {"tidb"}
  RootRefs = {"none"}
  Foreign = {}
  TidbVerbs <- AllVerbs
  StaleList = FALSE
  DefineOverwrites = FALSE
  MaxDbs = 1
  MaxRestarts = 1
  MaxLag = 0
  Client = "Kube"
  ServiceName = "c-surrealdb"
  Namespace = "ns"
SPECIFICATION FairSystem
PROPERTIES FlowCompletes DatabaseFollowsCluster
\* The last incarnations may be gone and nothing left to do.
CHECK_DEADLOCK FALSE
