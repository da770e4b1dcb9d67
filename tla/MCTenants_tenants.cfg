CONSTANTS
  MaxUsers = 1
  MaxDbs = 1
  MaxFaults = 1
  MaxLag = 2
  Passwords = {"pw1"}
  Given <- InSpec
  DefineOverwrites = FALSE
  Client = "Kube"
  ServiceName = "c-surrealdb"
  Namespace = "ns"
SPECIFICATION Spec
INVARIANTS TypeOK ReadyDatabaseIsDefined ReadyUserCanLogIn
\* Everything may be Ready, or gone, and nothing left to do.
CHECK_DEADLOCK FALSE
