CONSTANTS
  Controllers <- OneProcess
  MaxUid = 1
  MaxFaults = 2
  Backends <- AllBackends
  RootRefs = {"none", "user", "nameless"}
  Foreign = {"service"}
  TidbVerbs <- AllVerbs
  StaleList = FALSE
  DefineOverwrites = FALSE
SPECIFICATION Spec
INVARIANTS TypeOK RefBeforePhase CredentialsWork ViewInv OrderInv AccessInv
PROPERTIES PhaseNeverFallsBack AccessStaysClosed RefSettles ForeignKept ImplementsLifecycle
\* The last incarnation may be gone and nothing left to do.
CHECK_DEADLOCK FALSE
