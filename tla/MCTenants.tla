----------------------------- MODULE MCTenants -----------------------------
(* Instances of Tenants for TLC.                                           *)
EXTENDS Tenants

\* Enough for a password in the Secret, one in SurrealDB and a fresh one.
ThreePasswords == {"pw1", "pw2", "pw3"}

\* spec.password is set, or left out.
InSpec == {"pw1"}
Generated == {NoPw}

\* The liveness of one resource is checked while the other's users wait for it to
\* settle, and the Cluster only comes up; failed requests and crashes may fall
\* anywhere.  The tenants run has every interleaving.
DbAtRest == /\ dbStep = "idle" /\ Len(dbFeed) = 1
            /\ D!R!Live(db) => db.phase \in {"Ready", "Error"}
UserAtRest == /\ userStep = "idle" /\ Len(userFeed) = 1
              /\ R!Live(user) => user.phase \in {"Ready", "Error"}

NextInTurn == \/ DbStep \/ DbWatch \/ (DbUsers /\ UserAtRest)
              \/ UserSteps \/ UserWatches \/ (UsersOfUsers /\ DbAtRest) \/ Collect
              \/ ClusterAdvances \/ Crash

FairInTurn == Init /\ [][NextInTurn]_vars /\ Fairness
=============================================================================
