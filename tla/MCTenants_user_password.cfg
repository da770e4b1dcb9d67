CONSTANTS
  MaxUsers = 1
  MaxDbs = 1
  MaxFaults = 1
  MaxLag = 0
  Passwords <- ThreePasswords
  Given <- Generated
  DefineOverwrites = FALSE
  Client = "Kube"
  ServiceName = "c-surrealdb"
  Namespace = "ns"
SPECIFICATION Spec
INVARIANTS ReadyUserCanLogIn
\* Everything may be Ready, or gone, and nothing left to do.
CHECK_DEADLOCK FALSE
