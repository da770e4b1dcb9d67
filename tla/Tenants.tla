------------------------------ MODULE Tenants ------------------------------
(***************************************************************************)
(* A Database, a User of it, and the two controllers that drive them, over *)
(* one Cluster.  The controllers know nothing of each other: they meet in  *)
(* the API server, where the User controller reads the Database, and in    *)
(* SurrealDB, where both define what the other relies on.  Of the Cluster  *)
(* they see what ClusterService says.                                      *)
(***************************************************************************)
EXTENDS UserController

CONSTANT MaxDbs    \* bound: incarnations of the Database

ASSUME TenantsAssumption == MaxDbs \in Nat

VARIABLES dbFeed, dbQueued, dbNewest, dbPast, dbStep, dbGoal, dbFresh

D == INSTANCE DatabaseController

\* Whether the Cluster has storage is nothing the controllers see, and it goes
\* through the moves of one that always has it, and StorageChosen.
C == INSTANCE ClusterService WITH stored <- TRUE

cluster == <<named, up, rooted>>
dbVars == <<db, dbFeed, dbQueued, dbNewest, dbPast, dbStep, dbGoal, dbFresh>>
others == <<user, userFeed, userQueued, userNewest, userPast, userStep,
            userUid, userPw, userGoal, secret, config, serverPw,
            db, dbFeed, dbQueued, dbNewest, dbPast, dbStep, dbGoal, defined>>
vars == <<user, userFeed, userQueued, userNewest, userPast, userStep,
          userUid, userPw, userGoal, userFresh, secret, config, serverPw,
          db, dbFeed, dbQueued, dbNewest, dbPast, dbStep, dbGoal, dbFresh, defined,
          named, up, rooted, faults>>

-----------------------------------------------------------------------------
(* The Cluster, which comes up, and at a cost loses its pods or goes.      *)

\* What is left of C!ChooseStorage: the storage may know the root user already.
StorageChosen == /\ named /\ ~rooted
                 /\ rooted' = TRUE
                 /\ UNCHANGED <<named, up>>

ClusterAdvances == /\ StorageChosen \/ C!NameRootSecret \/ C!Serve \/ C!Bootstrap
                   /\ UNCHANGED <<userFresh, dbFresh, faults>> /\ UNCHANGED others

\* What reconciles have read of a Cluster is of use only until it is withdrawn.
ClusterFails == /\ \/ C!Outage /\ UNCHANGED <<userFresh, dbFresh>>
                   \/ C!Withdraw /\ userFresh' = FALSE /\ dbFresh' = FALSE
                /\ faults < MaxFaults /\ faults' = faults + 1
                /\ UNCHANGED others

-----------------------------------------------------------------------------
DbActs(A) == A /\ UNCHANGED userVars /\ UNCHANGED cluster
UserActs(A) == A /\ UNCHANGED dbVars /\ UNCHANGED cluster

DbStep == DbActs(D!DbStep)
DbWatch == DbActs(D!DbWatch)
DbUsers == DbActs(D!DbUsers)

UserSteps == UserActs(UserStep)
UserWatches == UserActs(UserWatch)
UsersOfUsers == UserActs(UserUsers)
Collect == UserActs(CollectSecret \/ CollectConfigMap)

\* run.rs joins all controllers in one process.
Crash == /\ faults < MaxFaults /\ faults' = faults + 1
         /\ D!DbRestart /\ UserRestart
         /\ UNCHANGED <<secret, config, serverPw>> /\ UNCHANGED cluster

Init == UserInit /\ D!DbInit /\ C!Init /\ faults = 0

Next == \/ DbStep \/ DbWatch \/ DbUsers
        \/ UserSteps \/ UserWatches \/ UsersOfUsers \/ Collect
        \/ ClusterAdvances \/ ClusterFails \/ Crash

Spec == Init /\ [][Next]_vars

\* Both runtimes keep polling.  Nothing is owed by users or by the Cluster.
Fairness == /\ WF_vars(DbStep) /\ WF_vars(DbWatch)
            /\ WF_vars(UserSteps) /\ WF_vars(UserWatches)

-----------------------------------------------------------------------------
TypeOK == UserTypeOK /\ D!DbTypeOK /\ {named, up, rooted} \subseteq BOOLEAN

\* A Database that is Ready is defined in SurrealDB, though the statements are
\* sent by reconciles that fail in the middle and start again.
ReadyDatabaseIsDefined == db.phase = "Ready" => defined = {"namespace", "database"}

\* The password in the Secret of a Ready User is the one SurrealDB accepts,
\* over attempts that failed after any of their writes.
ReadyUserCanLogIn == user.phase = "Ready" => secret.pw # NoPw /\ secret.pw = serverPw

\* Once the Cluster and the Database stay available, every User becomes Ready,
\* those in Error too.
UserBecomesReady ==
  <>[](named /\ up /\ rooted /\ D!R!Exists(db)) =>
     (R!Live(user) /\ user.phase # "Ready" ~> user.phase = "Ready" \/ ~R!Live(user))

\* Once the Cluster stays available no Database remains New.
DatabaseSettles ==
  <>[](named /\ up /\ rooted) =>
     (D!R!Live(db) /\ db.phase = "New" ~> db.phase \in {"Ready", "Error"} \/ ~D!R!Live(db))

\* Deletion of both completes, also when the Cluster has gone for good.
DeletionNeedsNoCluster == /\ db.deleting ~> ~db.deleting
                          /\ user.deleting ~> ~user.deleting
=============================================================================
