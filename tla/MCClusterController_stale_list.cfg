CONSTANTS
  Controllers <- OneProcess
  MaxUid = 1
  MaxFaults = 1
  Backends = {"secret"}
  RootRefs = {"none"}
  Foreign = {}
  TidbVerbs <- AllVerbs
  StaleList = TRUE
  DefineOverwrites = FALSE
SPECIFICATION Spec
PROPERTIES AccessStaysClosed
\* The last incarnation may be gone and nothing left to do.
CHECK_DEADLOCK FALSE
