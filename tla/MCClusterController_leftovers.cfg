CONSTANTS
  Controllers <- Overlapping
  MaxUid = 1
  MaxFaults = 2
  Backends = {"none"}
  RootRefs = {"none"}
  Foreign = {}
  TidbVerbs <- AllVerbs
  StaleList = FALSE
  DefineOverwrites = FALSE
SPECIFICATION FairSpec
PROPERTIES LeftoversGo
\* The last incarnation may be gone and nothing left to do.
CHECK_DEADLOCK FALSE
