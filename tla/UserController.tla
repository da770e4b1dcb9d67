--------------------------- MODULE UserController ---------------------------
(***************************************************************************)
(* The User controller: one User, reconciled by one process.               *)
(*                                                                         *)
(*   user, userFeed, userQueued, userNewest, userPast, userStep            *)
(*               the resource, see Resource                                *)
(*   userUid, userPw, userGoal   what the reconcile carries: the uid of    *)
(*               its User, the password it uses, the phase it will set     *)
(*   userFresh   what the reconcile read of the Cluster still holds        *)
(*   secret      the credentials Secret: its owner, and its password       *)
(*   config      the owner of the ConfigMap                                *)
(*   serverPw    the password of the user in SurrealDB                     *)
(*   db          the Database it refers to                                 *)
(*   defined, named            as in DatabaseController                    *)
(***************************************************************************)
EXTENDS ServiceClient, Integers, Sequences

CONSTANTS MaxUsers,         \* bound: incarnations of the User
          MaxFaults,        \* bound: failed requests and crashes together
          MaxLag,           \* bound: how many versions a list may lag behind
          Passwords,        \* what a password may be
          Given,            \* what users write in spec.password, over time; NoPw: nothing
          DefineOverwrites  \* does DEFINE USER replace an existing user

VARIABLES user, userFeed, userQueued, userNewest, userPast, userStep,
          userUid, userPw, userGoal, userFresh, secret, config, serverPw, db, defined, named, faults

NoPw == "no password"
NoSecret == [owner |-> 0, pw |-> NoPw]

ASSUME UserAssumption == /\ {MaxUsers, MaxFaults, MaxLag} \subseteq Nat
                         /\ NoPw \notin Passwords
                         /\ Given \subseteq Passwords \union {NoPw}
                         /\ DefineOverwrites \in BOOLEAN

UserPhase == {"New", "Ready", "Error"}

R == INSTANCE Resource WITH
  Phases <- UserPhase, MaxUid <- MaxUsers, stored <- user, feed <- userFeed,
  queued <- userQueued, newest <- userNewest, past <- userPast, step <- userStep

carried == <<userUid, userPw, userGoal, userFresh>>
made == <<secret, config, serverPw, defined>>
userVars == <<user, userFeed, userQueued, userNewest, userPast, userStep,
              userUid, userPw, userGoal, userFresh, secret, config, serverPw>>

ReconcileErrorIsFinal ==
  /\ \/ R!SkipGone /\ UNCHANGED userUid
     \/ /\ R!Exists(R!Cached) /\ ~R!Cached.fin /\ R!Begin("addFinalizer")
        /\ UNCHANGED userUid
     \/ R!Cached.deleting /\ R!Begin("removeFinalizer") /\ UNCHANGED userUid
     \/ /\ R!Live(R!Cached) /\ R!Cached.phase = "New"
        /\ R!Begin("getDatabase")
        /\ userUid' = R!Cached.uid
  /\ UNCHANGED <<userPw, userGoal, userFresh>> /\ UNCHANGED made

\* A reconcile of Ready only requeues itself, which changes nothing.  Error is
\* tried again like New.
Reconcile ==
  /\ \/ R!SkipGone /\ UNCHANGED userUid
     \/ /\ R!Exists(R!Cached) /\ ~R!Cached.fin /\ R!Begin("addFinalizer")
        /\ UNCHANGED userUid
     \/ R!Cached.deleting /\ R!Begin("removeFinalizer") /\ UNCHANGED userUid
     \/ /\ R!Live(R!Cached) /\ R!Cached.phase \in {"New", "Error"}
        /\ R!Begin("getDatabase")
        /\ userUid' = R!Cached.uid
  /\ UNCHANGED <<userPw, userGoal, userFresh>> /\ UNCHANGED made

Finalize == (R!AddFinalizer \/ R!RemoveFinalizer) /\ UNCHANGED carried /\ UNCHANGED made

\* The Database supplies names only; it need not be Ready.
GetDatabase ==
  /\ userStep = "getDatabase"
  /\ R!Request(R!Exists(db), TRUE, TRUE, R!Continue("getCluster"), R!Retry)
  /\ UNCHANGED <<user, userFeed, userNewest, userPast>> /\ UNCHANGED carried /\ UNCHANGED made

GetCluster ==
  /\ userStep = "getCluster"
  /\ R!Request(named, TRUE, TRUE, R!Continue("getRootSecret") /\ userFresh' = TRUE,
               R!Retry /\ UNCHANGED userFresh)
  /\ UNCHANGED <<user, userFeed, userNewest, userPast, userUid, userPw, userGoal>> /\ UNCHANGED made

\* The password of the spec, which may have been edited since the last attempt,
\* or a new random one on every attempt.
Choices == (Given \ {NoPw})
           \union (IF NoPw \in Given THEN Passwords \ {secret.pw, serverPw} ELSE {})

GetRootSecret ==
  /\ userStep = "getRootSecret"
  /\ \E pw \in Choices, there \in AsRead(named, userFresh) :
       R!Request(there, TRUE, TRUE, R!Continue("provision") /\ userPw' = pw,
                 R!Retry /\ UNCHANGED userPw)
  /\ UNCHANGED <<user, userFeed, userNewest, userPast, userUid, userGoal, userFresh>>
  /\ UNCHANGED made

Settle(p) == userGoal' = p /\ R!Continue("setPhase")
Proceed(s) == R!Continue(s) /\ UNCHANGED userGoal

\* DEFINE USER, on a server that makes the database when it is not there.
DefineUser == /\ serverPw' = IF serverPw = NoPw \/ DefineOverwrites THEN userPw ELSE serverPw
              /\ defined' = {"namespace", "database"}

ProvisionUser ==
  /\ userStep = "provision"
  /\ \E known \in Known(userFresh) :
       R!Exchange(Executed(known), Succeeds(known), DefineUser, UNCHANGED <<serverPw, defined>>,
                  Proceed("createSecret"), Settle("Error"))
  /\ UNCHANGED <<user, userFeed, userNewest, userPast, userUid, userPw, userFresh, secret, config>>

EnsureSecretErrorIgnored ==
  /\ userStep = "createSecret"
  /\ R!Request(TRUE,
               secret' = IF secret = NoSecret THEN [owner |-> userUid, pw |-> userPw] ELSE secret,
               UNCHANGED secret,
               Proceed("createConfigMap"), Proceed("createConfigMap"))
  /\ UNCHANGED <<user, userFeed, userNewest, userPast, userUid, userPw, userFresh>>
  /\ UNCHANGED <<config, serverPw, defined>>

EnsureSecretUnowned ==
  /\ userStep = "createSecret"
  /\ R!Request(TRUE, secret' = IF secret = NoSecret THEN [owner |-> 0, pw |-> userPw] ELSE secret,
               UNCHANGED secret, Proceed("createConfigMap"), Settle("Error"))
  /\ UNCHANGED <<user, userFeed, userNewest, userPast, userUid, userPw, userFresh>>
  /\ UNCHANGED <<config, serverPw, defined>>

\* 409 AlreadyExists counts as success; the password is not compared.
EnsureSecret ==
  /\ userStep = "createSecret"
  /\ R!Request(TRUE,
               secret' = IF secret = NoSecret THEN [owner |-> userUid, pw |-> userPw] ELSE secret,
               UNCHANGED secret,
               Proceed("createConfigMap"), Settle("Error"))
  /\ UNCHANGED <<user, userFeed, userNewest, userPast, userUid, userPw, userFresh>>
  /\ UNCHANGED <<config, serverPw, defined>>

EnsureConfigMap ==
  /\ userStep = "createConfigMap"
  /\ R!Request(TRUE, config' = IF config = 0 THEN userUid ELSE config, UNCHANGED config,
               Settle("Ready"), Settle("Error"))
  /\ UNCHANGED <<user, userFeed, userNewest, userPast, userUid, userPw, userFresh>>
  /\ UNCHANGED <<secret, serverPw, defined>>

SetPhaseMsg == /\ userStep = "setPhase"
               /\ R!SetPhase(userGoal)
               /\ UNCHANGED carried /\ UNCHANGED made

UserStep == \/ Reconcile \/ Finalize \/ GetDatabase \/ GetCluster \/ GetRootSecret
            \/ ProvisionUser \/ EnsureSecret \/ EnsureConfigMap \/ SetPhaseMsg

UserWatch == R!Watch /\ UNCHANGED carried /\ UNCHANGED made

UserUsers == (R!Create \/ R!Delete) /\ UNCHANGED carried /\ UNCHANGED made

UserRestart == R!Restart /\ UNCHANGED carried /\ UNCHANGED made

\* Kubernetes removes what is owned by a User that is gone.  The user in
\* SurrealDB stays.
CollectSecret == /\ secret.owner \notin {0, user.uid}
                 /\ secret' = NoSecret
                 /\ UNCHANGED <<user, userFeed, userQueued, userNewest, userPast, userStep, config,
                                serverPw, defined, faults>>
                 /\ UNCHANGED carried

CollectConfigMap == /\ config \notin {0, user.uid}
                    /\ config' = 0
                    /\ UNCHANGED <<user, userFeed, userQueued, userNewest, userPast, userStep, secret,
                                   serverPw, defined, faults>>
                    /\ UNCHANGED carried

UserInit == /\ R!Init
            /\ userUid = 0 /\ userPw = NoPw /\ userGoal = "New" /\ userFresh = FALSE
            /\ secret = NoSecret /\ config = 0 /\ serverPw = NoPw

\* A reconcile carries what it read, and a Secret has a password and an owner, or
\* neither.
CarriedOK ==
  /\ userStep \in {"getDatabase", "getCluster", "getRootSecret", "provision", "createSecret",
                  "createConfigMap"} => userUid # 0
  /\ userStep \in {"provision", "createSecret", "createConfigMap"} => userPw # NoPw
  /\ secret.owner = 0 <=> secret.pw = NoPw

UserTypeOK ==
  /\ R!TypeOK
  /\ userStep \in {"idle", "addFinalizer", "removeFinalizer", "getDatabase", "getCluster",
                   "getRootSecret", "provision", "createSecret", "createConfigMap", "setPhase"}
  /\ userUid \in 0..MaxUsers /\ userPw \in Passwords \union {NoPw} /\ userGoal \in UserPhase
  /\ userFresh \in BOOLEAN
  /\ secret \in [owner : 0..MaxUsers, pw : Passwords \union {NoPw}]
  /\ config \in 0..MaxUsers /\ serverPw \in Passwords \union {NoPw}
  /\ CarriedOK
=============================================================================
