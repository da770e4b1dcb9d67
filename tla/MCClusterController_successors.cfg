CONSTANTS
  Controllers <- OneProcess
  MaxUid = 2
  MaxFaults = 1
  Backends = {"tidb", "secret"}
  RootRefs = {"none", "user"}
  Foreign = {"secret", "tidb", "deployment"}
  TidbVerbs <- AllVerbs
  StaleList = FALSE
  DefineOverwrites = FALSE
SPECIFICATION Spec
INVARIANTS CredentialsInv OwnedInv RefinementInv
PROPERTIES NothingOrphaned ForeignKept ImplementsService ImplementsLifecycle
\* The last incarnation may be gone and nothing left to do.
CHECK_DEADLOCK FALSE
