----------------------------- MODULE SdbSystem -----------------------------
(***************************************************************************)
(* The Cluster controller and the Database controller in the one process   *)
(* that run.rs makes of them.  Where DatabaseController asks what the      *)
(* Cluster offers, the state of ClusterController answers: the Database is *)
(* reconciled while its Cluster is still being prepared, while SurrealDB   *)
(* is in its open mode, and while both are deleted.                        *)
(***************************************************************************)
EXTENDS ClusterRefinement

CONSTANTS MaxDbs,      \* bound: incarnations of the Database
          MaxRestarts, \* bound: how often the process dies
          MaxLag,      \* bound: how many versions a list of Databases may lag behind
          Client, ServiceName, Namespace

VARIABLES db, dbFeed, dbQueued, dbNewest, dbPast, dbStep, dbGoal, dbFresh, defined, restarts

D == INSTANCE DatabaseController WITH
  named <- SecretReadable, up <- Answers, rooted <- RootKnown

dbVars == <<db, dbFeed, dbQueued, dbNewest, dbPast, dbStep, dbGoal, defined, restarts>>
credentials == <<SecretReadable, RefPw(Cluster.rootRef)>>
clusterVars == <<log, lastUid, child, mode, pods, secretPw, lastPw, rootPw, tidbReady,
                 ctl, feed, queued, restarts>>
systemVars == <<log, lastUid, child, mode, pods, secretPw, lastPw, rootPw, tidbReady,
                ctl, feed, queued, faults,
                db, dbFeed, dbQueued, dbNewest, dbPast, dbStep, dbGoal, dbFresh, defined, restarts>>

-----------------------------------------------------------------------------
\* The Database controller stands still, and what it has read of the Cluster
\* holds until the root Secret goes or another one is named.
Beside(A) == /\ A
             /\ UNCHANGED dbVars
             /\ dbFresh' = (dbFresh /\ credentials' = credentials)

ClusterStep(c) == Beside(Step(c))
ClusterWatch(c) == Beside(Watch(c))
ClusterOutside == Beside(Users \/ Platform \/ PodLost)

DatabaseStep == D!DbStep /\ UNCHANGED clusterVars
DatabaseWatch == D!DbWatch /\ UNCHANGED clusterVars
DatabaseUsers == D!DbUsers /\ UNCHANGED clusterVars

ProcessDies(c) == /\ restarts < MaxRestarts /\ restarts' = restarts + 1
                  /\ Restart(c) /\ D!DbRestart
                  /\ UNCHANGED faults

SystemInit == Init /\ D!DbInit /\ restarts = 0

SystemNext == \/ \E c \in Controllers : ClusterStep(c) \/ ClusterWatch(c) \/ ProcessDies(c)
              \/ ClusterOutside
              \/ DatabaseStep \/ DatabaseWatch \/ DatabaseUsers

SystemSpec == SystemInit /\ [][SystemNext]_systemVars

\* As in ClusterController; the Database controller keeps polling too.
SystemFairness ==
  /\ \A c \in Controllers : WF_systemVars(ClusterStep(c)) /\ WF_systemVars(ClusterWatch(c))
  /\ WF_systemVars(Beside(PodUp))
  /\ WF_systemVars(Beside(PodRetire))
  /\ WF_systemVars(Beside(TidbBecomesReady))
  /\ \A k \in Kinds : WF_systemVars(Beside(GarbageCollect(k)))
  /\ WF_systemVars(DatabaseStep) /\ WF_systemVars(DatabaseWatch)

FairSystem == SystemSpec /\ SystemFairness

-----------------------------------------------------------------------------
(* What must hold.                                                         *)

\* The flow of tests/integration_ready_flow.rs: a Database that is created once
\* its Cluster is in service becomes Ready, if no request fails meanwhile, and
\* though the process dies and starts over.
FlowCompletes ==
  Cluster.phase \in Serving /\ D!R!Exists(db) /\ ~db.fin
    ~> db.phase = "Ready" \/ ~D!R!Exists(db) \/ ~Live(Cluster) \/ faults # 0

\* What the status of the Cluster promises is what a Database waits for: it is
\* decided upon, though created earlier, when its Cluster remains Ready.
DatabaseFollowsCluster ==
  <>[](Cluster.phase = "Ready") =>
    (D!R!Live(db) /\ db.phase = "New" ~> db.phase \in {"Ready", "Error"} \/ ~D!R!Live(db))
=============================================================================
