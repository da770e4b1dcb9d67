------------------------- MODULE DatabaseController -------------------------
(***************************************************************************)
(* The Database controller: one Database, reconciled by one process.       *)
(*                                                                         *)
(*   db, dbFeed, dbQueued, dbNewest, dbPast, dbStep   the resource          *)
(*   dbGoal      the phase the reconcile will set                          *)
(*   dbFresh     what the reconcile read of the Cluster still holds        *)
(*   defined     which of the namespace and the database SurrealDB has     *)
(*   named       the Cluster names its root Secret, which can be read      *)
(*   up, rooted  SurrealDB, see ServiceClient                              *)
(***************************************************************************)
EXTENDS ServiceClient, Integers, Sequences

CONSTANTS MaxDbs,      \* bound: incarnations of the Database
          MaxFaults,   \* bound: failed requests and crashes together
          MaxLag       \* bound: how many versions a list may lag behind

VARIABLES db, dbFeed, dbQueued, dbNewest, dbPast, dbStep, dbGoal, dbFresh,
          defined, named, faults

DbPhase == {"New", "InProgress", "Ready", "Error"}

R == INSTANCE Resource WITH
  Phases <- DbPhase, MaxUid <- MaxDbs, stored <- db, feed <- dbFeed, queued <- dbQueued,
  newest <- dbNewest, past <- dbPast, step <- dbStep

ReconcileSparesUnsettled ==
  /\ \/ R!SkipGone
     \/ R!Exists(R!Cached) /\ ~R!Cached.fin /\ R!Begin("addFinalizer")
     \/ /\ R!Cached.deleting /\ R!Cached.phase \in {"Ready", "Error"}
        /\ R!Begin("removeFinalizer")
     \/ /\ R!Cached.fin /\ R!Cached.phase \in {"New", "InProgress"}
        /\ R!Begin("getCluster")
  /\ UNCHANGED <<dbGoal, dbFresh, defined>>

\* A reconcile of Ready or Error only requeues itself, which changes nothing.
Reconcile ==
  /\ \/ R!SkipGone
     \/ R!Exists(R!Cached) /\ ~R!Cached.fin /\ R!Begin("addFinalizer")
     \/ R!Cached.deleting /\ R!Begin("removeFinalizer")
     \/ /\ R!Live(R!Cached) /\ R!Cached.phase \in {"New", "InProgress"}
        /\ R!Begin("getCluster")
  /\ UNCHANGED <<dbGoal, dbFresh, defined>>

Finalize == (R!AddFinalizer \/ R!RemoveFinalizer) /\ UNCHANGED <<dbGoal, dbFresh, defined>>

GetClusterGivesUp ==
  /\ dbStep = "getCluster"
  /\ R!Request(named, TRUE, TRUE, R!Continue("getRootSecret") /\ dbFresh' = TRUE,
               R!Rest /\ UNCHANGED dbFresh)
  /\ UNCHANGED <<db, dbFeed, dbNewest, dbPast, dbGoal, defined>>

\* get_root_credentials, followed by `?': its errors go to error_policy.
GetCluster ==
  /\ dbStep = "getCluster"
  /\ R!Request(named, TRUE, TRUE, R!Continue("getRootSecret") /\ dbFresh' = TRUE,
               R!Retry /\ UNCHANGED dbFresh)
  /\ UNCHANGED <<db, dbFeed, dbNewest, dbPast, dbGoal, defined>>

GetRootSecret ==
  /\ dbStep = "getRootSecret"
  /\ \E there \in AsRead(named, dbFresh) :
       R!Request(there, TRUE, TRUE, R!Continue("defineNamespace"), R!Retry)
  /\ UNCHANGED <<db, dbFeed, dbNewest, dbPast, dbGoal, dbFresh, defined>>

Settle(p) == dbGoal' = p /\ R!Continue("setPhase")

\* A statement of the root user whose password was read.
Send(effect, onOk, onErr) ==
  /\ \E known \in Known(dbFresh) :
       R!Exchange(Executed(known), Succeeds(known), effect, UNCHANGED defined, onOk, onErr)
  /\ UNCHANGED <<db, dbFeed, dbNewest, dbPast, dbFresh>>

DefineNamespace ==
  /\ dbStep = "defineNamespace"
  /\ Send(defined' = defined \union {"namespace"},
          R!Continue("defineDatabase") /\ UNCHANGED dbGoal, Settle("Error"))

DefineDatabaseErrorIgnored ==
  /\ dbStep = "defineDatabase"
  /\ Send(defined' = {"namespace", "database"}, Settle("Ready"), Settle("Ready"))

\* Run on a server that is not strict: it makes the namespace as well.
DefineDatabase ==
  /\ dbStep = "defineDatabase"
  /\ Send(defined' = {"namespace", "database"}, Settle("Ready"), Settle("Error"))

SetPhaseMsg == /\ dbStep = "setPhase"
               /\ R!SetPhase(dbGoal)
               /\ UNCHANGED <<dbGoal, dbFresh, defined>>

DbStep == \/ Reconcile \/ Finalize
          \/ GetCluster \/ GetRootSecret
          \/ DefineNamespace \/ DefineDatabase \/ SetPhaseMsg

DbWatch == R!Watch /\ UNCHANGED <<dbGoal, dbFresh, defined>>

DbUsers == (R!Create \/ R!Delete) /\ UNCHANGED <<dbGoal, dbFresh, defined>>

DbRestart == R!Restart /\ UNCHANGED <<dbGoal, dbFresh, defined>>

DbInit == R!Init /\ dbGoal = "New" /\ dbFresh = FALSE /\ defined = {}

DbTypeOK == /\ R!TypeOK
            /\ dbStep \in {"idle", "addFinalizer", "removeFinalizer", "getCluster",
                           "getRootSecret", "defineNamespace", "defineDatabase", "setPhase"}
            /\ dbGoal \in DbPhase /\ dbFresh \in BOOLEAN
            /\ defined \subseteq {"namespace", "database"}
=============================================================================
