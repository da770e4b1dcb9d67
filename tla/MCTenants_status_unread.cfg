CONSTANTS
  MaxUsers = 1
  MaxDbs = 1
  MaxFaults = 0
  MaxLag = 0
  Passwords = {"pw1"}
  Given <- InSpec
  DefineOverwrites = FALSE
  Client = "Reqwest"
  ServiceName = "c-surrealdb"
  Namespace = "ns"
SPECIFICATION Spec
INVARIANTS ReadyDatabaseIsDefined
\* Everything may be Ready, or gone, and nothing left to do.
CHECK_DEADLOCK FALSE
