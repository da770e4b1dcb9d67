--------------------------- MODULE Tenants_proofs ---------------------------
(***************************************************************************)
(* What a Database and a User that are Ready can rely on, over every order *)
(* of the two controllers, the Cluster, lost requests and restarts.        *)
(***************************************************************************)
EXTENDS Tenants, TLAPS

\* What Resource_proofs shows of any resource, of the User and the Database.
U == INSTANCE Resource_proofs WITH
  Phases <- UserPhase, MaxUid <- MaxUsers, stored <- user, feed <- userFeed,
  queued <- userQueued, newest <- userNewest, past <- userPast, step <- userStep

B == INSTANCE Resource_proofs WITH
  Phases <- D!DbPhase, MaxUid <- MaxDbs, stored <- db, feed <- dbFeed,
  queued <- dbQueued, newest <- dbNewest, past <- dbPast, step <- dbStep

LEMMA UserIsResource ==
  /\ R!AddFinalizer => U!AddFinalizer
  /\ R!RemoveFinalizer => U!RemoveFinalizer
  /\ \A p : R!SetPhase(p) => U!SetPhase(p)
  /\ R!Watch => U!Watch
  /\ R!Restart => U!Restart
  /\ R!Create => U!Create
  /\ R!Delete => U!Delete
  /\ R!Init => U!Init
  /\ R!Cached = U!Cached
<1> USE DEF R!Request, U!Request, R!Exchange, U!Exchange, R!Outcomes, U!Outcomes, R!Charge, U!Charge,
        R!Store, U!Store, R!Remember, U!Remember, R!Absent, U!Absent, R!Exists, U!Exists,
        R!object, U!object, R!Retry, U!Retry, R!Rest, U!Rest
<1>1. R!AddFinalizer => U!AddFinalizer
  BY DEF R!AddFinalizer, U!AddFinalizer
<1>2. R!RemoveFinalizer => U!RemoveFinalizer
  BY DEF R!RemoveFinalizer, U!RemoveFinalizer
<1>3. \A p : R!SetPhase(p) => U!SetPhase(p)
  BY DEF R!SetPhase, U!SetPhase
<1>4. R!Watch => U!Watch
  BY DEF R!Watch, U!Watch
<1>5. R!Restart => U!Restart
  BY DEF R!Restart, U!Restart
<1>6. R!Create => U!Create
  BY DEF R!Create, U!Create
<1>7. R!Delete => U!Delete
  BY DEF R!Delete, U!Delete
<1>8. R!Init => U!Init
  BY DEF R!Init, U!Init
<1>9. R!Cached = U!Cached
  BY DEF R!Cached, U!Cached
<1> QED BY <1>1, <1>2, <1>3, <1>4, <1>5, <1>6, <1>7, <1>8, <1>9

LEMMA DatabaseIsResource ==
  /\ D!R!AddFinalizer => B!AddFinalizer
  /\ D!R!RemoveFinalizer => B!RemoveFinalizer
  /\ \A p : D!R!SetPhase(p) => B!SetPhase(p)
  /\ D!R!Watch => B!Watch
  /\ D!R!Restart => B!Restart
  /\ D!R!Create => B!Create
  /\ D!R!Delete => B!Delete
  /\ D!R!Init => B!Init
  /\ D!R!Cached = B!Cached
<1> USE DEF D!R!Request, B!Request, D!R!Exchange, B!Exchange, D!R!Outcomes, B!Outcomes, D!R!Charge, B!Charge,
        D!R!Store, B!Store, D!R!Remember, B!Remember, D!R!Absent, B!Absent, D!R!Exists, B!Exists,
        D!R!object, B!object, D!R!Retry, B!Retry, D!R!Rest, B!Rest
<1>1. D!R!AddFinalizer => B!AddFinalizer
  BY DEF D!R!AddFinalizer, B!AddFinalizer
<1>2. D!R!RemoveFinalizer => B!RemoveFinalizer
  BY DEF D!R!RemoveFinalizer, B!RemoveFinalizer
<1>3. \A p : D!R!SetPhase(p) => B!SetPhase(p)
  BY DEF D!R!SetPhase, B!SetPhase
<1>4. D!R!Watch => B!Watch
  BY DEF D!R!Watch, B!Watch
<1>5. D!R!Restart => B!Restart
  BY DEF D!R!Restart, B!Restart
<1>6. D!R!Create => B!Create
  BY DEF D!R!Create, B!Create
<1>7. D!R!Delete => B!Delete
  BY DEF D!R!Delete, B!Delete
<1>8. D!R!Init => B!Init
  BY DEF D!R!Init, B!Init
<1>9. D!R!Cached = B!Cached
  BY DEF D!R!Cached, B!Cached
<1> QED BY <1>1, <1>2, <1>3, <1>4, <1>5, <1>6, <1>7, <1>8, <1>9

-----------------------------------------------------------------------------
(* Types.                                                                  *)

UserStepNames == {"idle", "addFinalizer", "removeFinalizer", "getDatabase", "getCluster",
               "getRootSecret", "provision", "createSecret", "createConfigMap", "setPhase"}

UserLocals ==
  /\ userQueued \in BOOLEAN
  /\ userStep \in UserStepNames
  /\ userUid \in 0..MaxUsers /\ userPw \in Passwords \union {NoPw} /\ userGoal \in UserPhase
  /\ userFresh \in BOOLEAN
  /\ secret \in [owner : 0..MaxUsers, pw : Passwords \union {NoPw}]
  /\ config \in 0..MaxUsers /\ serverPw \in Passwords \union {NoPw}

DbLocals ==
  /\ dbQueued \in BOOLEAN
  /\ dbStep \in {"idle", "addFinalizer", "removeFinalizer", "getCluster",
                 "getRootSecret", "defineNamespace", "defineDatabase", "setPhase"}
  /\ dbGoal \in D!DbPhase /\ dbFresh \in BOOLEAN

SharedTypes == /\ faults \in 0..MaxFaults
               /\ defined \subseteq {"namespace", "database"}
               /\ {named, up, rooted} \subseteq BOOLEAN

TInv == U!ObjectInv /\ B!ObjectInv /\ UserLocals /\ DbLocals /\ SharedTypes

LEMMA Bounds == U!Bounded /\ B!Bounded
  BY UserAssumption, TenantsAssumption DEF U!Bounded, B!Bounded, UserPhase, D!DbPhase

LEMMA InvType == TInv /\ CarriedOK => TypeOK
<1>1. TInv /\ CarriedOK => UserTypeOK
  BY DEF TInv, U!ObjectInv, UserLocals, UserStepNames, SharedTypes, UserTypeOK, R!TypeOK, U!Seen, U!AllSeen,
     R!Version, U!Version
<1>2. TInv => D!DbTypeOK
  BY DEF TInv, B!ObjectInv, DbLocals, SharedTypes, D!DbTypeOK, D!R!TypeOK, B!Seen, B!AllSeen,
     D!R!Version, B!Version
<1> QED BY <1>1, <1>2 DEF TInv, SharedTypes, TypeOK

LEMMA UserKeepsObject == ASSUME TInv, UserStep \/ UserWatch \/ UserUsers \/ UserRestart
                         PROVE  U!ObjectInv'
<1> USE Bounds DEF TInv
<1>1. CASE UNCHANGED R!object
  BY <1>1, U!Untouched DEF R!object, U!object
<1>2. CASE Reconcile
  BY <1>1, <1>2 DEF Reconcile, R!SkipGone, R!Begin
<1>3. CASE Finalize
  BY <1>3, UserIsResource, U!AddFinalizerKeeps, U!RemoveFinalizerKeeps DEF Finalize
<1>4. CASE SetPhaseMsg
  <2>1. PICK p \in UserPhase : R!SetPhase(p)
    BY <1>4 DEF SetPhaseMsg, UserLocals
  <2> QED BY <2>1, UserIsResource, U!SetPhaseKeeps
<1>5. CASE UserWatch \/ UserUsers \/ UserRestart
  BY <1>5, UserIsResource, U!WatchKeeps, U!CreateKeeps, U!DeleteKeeps, U!RestartKeeps
     DEF UserWatch, UserUsers, UserRestart
<1>6. CASE GetDatabase \/ GetCluster \/ GetRootSecret \/ ProvisionUser \/ EnsureSecret \/ EnsureConfigMap
  BY <1>1, <1>6 DEF GetDatabase, GetCluster, GetRootSecret, ProvisionUser, EnsureSecret, EnsureConfigMap, R!object
<1> QED BY <1>2, <1>3, <1>4, <1>5, <1>6 DEF UserStep

LEMMA DbKeepsObject == ASSUME TInv, D!DbStep \/ D!DbWatch \/ D!DbUsers \/ D!DbRestart
                       PROVE  B!ObjectInv'
<1> USE Bounds DEF TInv
<1>1. CASE UNCHANGED D!R!object
  BY <1>1, B!Untouched DEF D!R!object, B!object
<1>2. CASE D!Reconcile
  BY <1>1, <1>2 DEF D!Reconcile, D!R!SkipGone, D!R!Begin
<1>3. CASE D!Finalize
  BY <1>3, DatabaseIsResource, B!AddFinalizerKeeps, B!RemoveFinalizerKeeps DEF D!Finalize
<1>4. CASE D!SetPhaseMsg
  <2>1. PICK p \in D!DbPhase : D!R!SetPhase(p)
    BY <1>4 DEF D!SetPhaseMsg, DbLocals
  <2> QED BY <2>1, DatabaseIsResource, B!SetPhaseKeeps
<1>5. CASE D!DbWatch \/ D!DbUsers \/ D!DbRestart
  BY <1>5, DatabaseIsResource, B!WatchKeeps, B!CreateKeeps, B!DeleteKeeps, B!RestartKeeps
     DEF D!DbWatch, D!DbUsers, D!DbRestart
<1>6. CASE \/ D!GetCluster \/ D!GetRootSecret
           \/ D!DefineNamespace \/ D!DefineDatabase
  BY <1>1, <1>6 DEF D!GetCluster, D!GetRootSecret, D!DefineNamespace, D!DefineDatabase, D!Send, D!R!object
<1> QED BY <1>2, <1>3, <1>4, <1>5, <1>6 DEF D!DbStep

Shared == faults \in 0..MaxFaults /\ defined \subseteq {"namespace", "database"}

LEMMA NoSecretType == NoSecret \in [owner : 0..MaxUsers, pw : Passwords \union {NoPw}]
  BY UserAssumption DEF NoSecret

LEMMA FaultsCharged == ASSUME TInv, NEW o, R!Charge(o) \/ D!R!Charge(o) PROVE faults' \in 0..MaxFaults
  BY UserAssumption DEF TInv, SharedTypes, R!Charge, D!R!Charge

LEMMA UserKeepsLocals == ASSUME TInv, UserStep \/ UserWatch \/ UserUsers \/ CollectSecret \/ CollectConfigMap
                         PROVE  UserLocals' /\ Shared'
<1> USE FaultsCharged DEF TInv, UserLocals, UserStepNames, Shared, SharedTypes, carried, made,
        R!Retry, R!Rest, R!Continue, R!Exchange, R!Request
<1>1. CASE Reconcile
  <2>1. R!Cached.uid \in 0..MaxUsers
    <3>1. U!Cached = R!Cached /\ U!Seen(userNewest, U!Cached)
      BY UserIsResource, U!CachedSeen
    <3> QED BY <3>1, UserAssumption DEF U!ObjectInv, U!Seen, U!Version
  <2> QED BY <1>1, <2>1 DEF Reconcile, R!SkipGone, R!Begin
<1>2. CASE Finalize
  BY <1>2 DEF Finalize, R!AddFinalizer, R!RemoveFinalizer
<1>3. CASE GetDatabase \/ GetCluster
  BY <1>3 DEF GetDatabase, GetCluster
<1>4. CASE GetRootSecret
  BY <1>4, UserAssumption DEF GetRootSecret, Choices
<1>5. CASE ProvisionUser
  BY <1>5 DEF ProvisionUser, DefineUser, Proceed, Settle, UserPhase
<1>6. CASE EnsureSecret
  <2>1. secret' \in [owner : 0..MaxUsers, pw : Passwords \union {NoPw}]
    BY <1>6 DEF EnsureSecret
  <2> QED BY <1>6, <2>1 DEF EnsureSecret, Proceed, Settle, UserPhase
<1>7. CASE EnsureConfigMap
  BY <1>7 DEF EnsureConfigMap, Settle, UserPhase
<1>8. CASE SetPhaseMsg
  BY <1>8 DEF SetPhaseMsg, R!SetPhase
<1>9. CASE UserWatch \/ UserUsers
  BY <1>9 DEF UserWatch, UserUsers, R!Watch, R!Create, R!Delete
<1>10. CASE CollectSecret \/ CollectConfigMap
  <2>1. 0 \in 0..MaxUsers
    BY UserAssumption
  <2>2. CASE CollectSecret
    BY <2>2, NoSecretType DEF CollectSecret
  <2>3. CASE CollectConfigMap
    BY <2>1, <2>3 DEF CollectConfigMap
  <2> QED BY <1>10, <2>2, <2>3
<1> QED BY <1>1, <1>2, <1>3, <1>4, <1>5, <1>6, <1>7, <1>8, <1>9, <1>10 DEF UserStep

LEMMA DbKeepsLocals == ASSUME TInv, D!DbStep \/ D!DbWatch \/ D!DbUsers
                       PROVE  DbLocals' /\ Shared'
<1> USE FaultsCharged DEF TInv, DbLocals, Shared, SharedTypes,
        D!R!Retry, D!R!Rest, D!R!Continue, D!R!Exchange, D!R!Request
<1>1. CASE D!Reconcile
  BY <1>1 DEF D!Reconcile, D!R!SkipGone, D!R!Begin
<1>2. CASE D!Finalize
  BY <1>2 DEF D!Finalize, D!R!AddFinalizer, D!R!RemoveFinalizer
<1>3. CASE D!GetCluster \/ D!GetRootSecret
  BY <1>3 DEF D!GetCluster, D!GetRootSecret
<1>4. CASE D!DefineNamespace \/ D!DefineDatabase
  BY <1>4 DEF D!DefineNamespace, D!DefineDatabase, D!Send, D!Settle, D!DbPhase
<1>5. CASE D!SetPhaseMsg
  BY <1>5 DEF D!SetPhaseMsg, D!R!SetPhase
<1>6. CASE D!DbWatch \/ D!DbUsers
  BY <1>6 DEF D!DbWatch, D!DbUsers, D!R!Watch, D!R!Create, D!R!Delete
<1> QED BY <1>1, <1>2, <1>3, <1>4, <1>5, <1>6 DEF D!DbStep

LEMMA ClusterTypes == ASSUME TInv, ClusterAdvances \/ ClusterFails
                      PROVE  {named, up, rooted}' \subseteq BOOLEAN
  BY DEF TInv, SharedTypes, ClusterAdvances, ClusterFails, StorageChosen, C!NameRootSecret, C!Serve, C!Bootstrap,
     C!Outage, C!Withdraw

LEMMA TenantsNext == ASSUME TInv, [Next]_vars PROVE TInv'
<1>1. UNCHANGED userVars => U!ObjectInv' /\ UserLocals'
  BY DEF TInv, userVars, U!ObjectInv, U!AllSeen, U!Seen, UserLocals
<1>2. UNCHANGED dbVars => B!ObjectInv' /\ DbLocals'
  BY DEF TInv, dbVars, B!ObjectInv, B!AllSeen, B!Seen, DbLocals
<1>3. CASE UserSteps \/ UserWatches \/ UsersOfUsers \/ Collect
  <2>1. /\ UserStep \/ UserWatch \/ UserUsers \/ CollectSecret \/ CollectConfigMap
        /\ UNCHANGED dbVars /\ UNCHANGED cluster
    BY <1>3 DEF UserSteps, UserWatches, UsersOfUsers, Collect, UserActs
  <2>2. U!ObjectInv'
    <3>1. CASE CollectSecret \/ CollectConfigMap
      BY <3>1 DEF CollectSecret, CollectConfigMap, TInv, U!ObjectInv, U!AllSeen, U!Seen
    <3> QED BY <2>1, <3>1, UserKeepsObject
  <2> QED BY <1>2, <2>1, <2>2, UserKeepsLocals DEF TInv, Shared, SharedTypes, cluster
<1>4. CASE DbStep \/ DbWatch \/ DbUsers
  <2>1. /\ D!DbStep \/ D!DbWatch \/ D!DbUsers
        /\ UNCHANGED userVars /\ UNCHANGED cluster
    BY <1>4 DEF DbStep, DbWatch, DbUsers, DbActs
  <2> QED BY <1>1, <2>1, DbKeepsObject, DbKeepsLocals DEF TInv, Shared, SharedTypes, cluster
<1>5. CASE ClusterAdvances \/ ClusterFails
  <2>1. UNCHANGED others /\ userFresh' \in {userFresh, FALSE} /\ dbFresh' \in {dbFresh, FALSE}
    BY <1>5 DEF ClusterAdvances, ClusterFails
  <2>3. U!ObjectInv' /\ B!ObjectInv'
    BY <2>1 DEF TInv, others, U!ObjectInv, U!AllSeen, U!Seen, B!ObjectInv, B!AllSeen, B!Seen
  <2>4. UserLocals' /\ DbLocals' /\ defined' = defined
    BY <2>1 DEF TInv, others, UserLocals, DbLocals
  <2>2. faults' \in 0..MaxFaults
    BY <1>5, UserAssumption DEF ClusterAdvances, ClusterFails, TInv, SharedTypes
  <2> QED BY <1>5, <2>2, <2>3, <2>4, ClusterTypes DEF TInv, SharedTypes
<1>6. CASE Crash
  <2>1. U!ObjectInv' /\ B!ObjectInv'
    BY <1>6, UserKeepsObject, DbKeepsObject DEF Crash
  <2>2. UserLocals' /\ DbLocals' /\ SharedTypes'
    BY <1>6, UserAssumption DEF Crash, TInv, UserLocals, UserStepNames, DbLocals, SharedTypes, UserRestart, D!DbRestart,
       R!Restart, D!R!Restart, carried, made, cluster
  <2> QED BY <2>1, <2>2 DEF TInv
<1>7. CASE UNCHANGED vars
  <2>1. UNCHANGED userVars /\ UNCHANGED dbVars
    BY <1>7 DEF vars, userVars, dbVars
  <2> QED BY <1>1, <1>2, <1>7, <2>1 DEF TInv, SharedTypes, vars
<1> QED BY <1>3, <1>4, <1>5, <1>6, <1>7 DEF Next

LEMMA TenantsInit == ASSUME Init PROVE TInv
<1>1. U!ObjectInv /\ B!ObjectInv
  BY Bounds, UserIsResource, DatabaseIsResource, U!InitSeen, B!InitSeen DEF Init, UserInit, D!DbInit
<1>2. UserLocals /\ DbLocals /\ SharedTypes
  <2>1. 0 \in 0..MaxUsers /\ 0 \in 0..MaxFaults
    BY UserAssumption
  <2>2. UserLocals
    BY <2>1, NoSecretType DEF Init, UserInit, R!Init, UserLocals, UserStepNames, UserPhase
  <2>3. DbLocals /\ SharedTypes
    BY <2>1 DEF Init, D!DbInit, C!Init, D!R!Init, DbLocals, SharedTypes, D!DbPhase
  <2> QED BY <2>2, <2>3
<1> QED BY <1>1, <1>2 DEF TInv

LEMMA TenantsType == Spec => []TInv
<1>1. Init => TInv
  BY TenantsInit
<1>2. TInv /\ [Next]_vars => TInv'
  BY TenantsNext
<1> QED BY <1>1, <1>2, PTL DEF Spec

LEMMA CarriedNext == ASSUME TInv, CarriedOK, [Next]_vars PROVE CarriedOK'
<1> USE DEF CarriedOK
<1>1. CASE UNCHANGED <<userStep, userUid, userPw, secret>>
  BY <1>1
<1>2. CASE UserSteps
  <2>1. UserStep
    BY <1>2 DEF UserSteps, UserActs
  <2>2. CASE Reconcile
    <3>1. R!Live(R!Cached) => R!Cached.uid # 0
      <4>1. U!Cached = R!Cached /\ U!Seen(userNewest, U!Cached)
        BY UserIsResource, U!CachedSeen DEF TInv
      <4> QED BY <4>1 DEF R!Live, U!Seen, U!Exists, U!Absent
    <3> QED BY <2>2, <3>1 DEF Reconcile, R!SkipGone, R!Begin, made
  <2>3. CASE Finalize \/ SetPhaseMsg
    BY <2>3 DEF Finalize, SetPhaseMsg, R!AddFinalizer, R!RemoveFinalizer, R!SetPhase, R!Request, R!Exchange,
       R!Retry, R!Rest, carried, made
  <2>4. CASE GetDatabase \/ GetCluster
    BY <2>4 DEF GetDatabase, GetCluster, R!Request, R!Exchange, R!Retry, R!Continue, carried, made
  <2>5. CASE GetRootSecret
    <3>1. NoPw \notin Choices
      BY UserAssumption DEF Choices
    <3> QED BY <2>5, <3>1 DEF GetRootSecret, R!Request, R!Exchange, R!Retry, R!Continue, made
  <2>6. CASE ProvisionUser
    BY <2>6 DEF ProvisionUser, R!Exchange, R!Continue, Proceed, Settle
  <2>7. CASE EnsureSecret
    <3>1. secret' = [owner |-> userUid, pw |-> userPw] \/ secret' = secret
      BY <2>7 DEF EnsureSecret, R!Request, R!Exchange
    <3>2. /\ userStep = "createSecret" /\ UNCHANGED <<userUid, userPw>>
          /\ userStep' \in {"createConfigMap", "setPhase"}
      BY <2>7 DEF EnsureSecret, R!Request, R!Exchange, R!Continue, Proceed, Settle
    <3> QED BY <3>1, <3>2
  <2>8. CASE EnsureConfigMap
    BY <2>8 DEF EnsureConfigMap, R!Request, R!Exchange, R!Continue, Settle
  <2> QED BY <2>1, <2>2, <2>3, <2>4, <2>5, <2>6, <2>7, <2>8 DEF UserStep
<1>3. CASE UserWatches \/ UsersOfUsers \/ Collect
  BY <1>3 DEF UserWatches, UsersOfUsers, Collect, UserActs, UserWatch, UserUsers, R!Watch, R!Create, R!Delete,
     CollectSecret, CollectConfigMap, NoSecret, carried, made
<1>4. CASE Crash
  BY <1>4 DEF Crash, UserRestart, R!Restart, carried, made
<1>5. CASE ~UserSteps /\ ~(UserWatches \/ UsersOfUsers \/ Collect) /\ ~Crash
  BY <1>1, <1>5 DEF Next, DbStep, DbWatch, DbUsers, DbActs, ClusterAdvances, ClusterFails, others, userVars, vars
<1> QED BY <1>2, <1>3, <1>4, <1>5

\* However far lists and caches lag behind, both controllers keep to their
\* steps and phases, a reconcile that reached the Secret knows its User and the
\* password, and no Secret is left without an owner to be removed with.
THEOREM TypeCorrect == Spec => []TypeOK
<1>1. Init => CarriedOK
  BY DEF Init, UserInit, R!Init, CarriedOK, NoSecret
<1>2. TInv /\ CarriedOK /\ [Next]_vars => CarriedOK'
  BY CarriedNext
<1> QED BY <1>1, <1>2, TenantsType, InvType, PTL DEF Spec

-----------------------------------------------------------------------------
(* The Database, with a client that reads the status of an answer.         *)

Both == {"namespace", "database"}

\* Ready is decided on only when both statements were executed, and what is
\* defined stays so.
DefinedInv == db.phase = "Ready" \/ dbGoal = "Ready" => defined = Both

LEMMA ExecutedIfOk == ASSUME Client = "Kube", NEW known
                      PROVE  D!Succeeds(known) = D!Executed(known) /\ Succeeds(known) = Executed(known)
  BY DEF D!Succeeds, D!Executed, Succeeds, Executed

LEMMA StaysDefined == ASSUME TInv, [Next]_vars, defined = Both PROVE defined' = Both
<1>1. CASE DbStep
  <2>1. CASE D!DefineNamespace \/ D!DefineDatabase
    BY <2>1 DEF D!DefineNamespace, D!DefineDatabase, D!Send, D!Send, D!R!Exchange, Both
  <2>2. CASE ~(D!DefineNamespace \/ D!DefineDatabase)
    BY <1>1, <2>2 DEF DbStep, DbActs, D!DbStep, D!Reconcile, D!Finalize, D!GetCluster, D!GetRootSecret, D!SetPhaseMsg
  <2> QED BY <2>1, <2>2
<1>2. CASE UserSteps
  <2>1. CASE ProvisionUser
    BY <2>1 DEF ProvisionUser, DefineUser, R!Exchange, Both
  <2>2. CASE ~ProvisionUser
    BY <1>2, <2>2 DEF UserSteps, UserActs, UserStep, Reconcile, Finalize, GetDatabase, GetCluster,
       GetRootSecret, EnsureSecret, EnsureConfigMap, SetPhaseMsg, made
  <2> QED BY <2>1, <2>2
<1>3. CASE ~DbStep /\ ~UserSteps
  BY <1>3 DEF Next, DbWatch, DbUsers, DbActs, D!DbWatch, D!DbUsers, UserWatches, UsersOfUsers, Collect, UserActs,
     UserWatch, UserUsers, CollectSecret, CollectConfigMap, made, ClusterAdvances, ClusterFails, others,
     Crash, D!DbRestart, UserRestart, vars
<1> QED BY <1>1, <1>2, <1>3

LEMMA DefinedNext == ASSUME Client = "Kube", TInv, DefinedInv, [Next]_vars PROVE DefinedInv'
<1>1. CASE DbStep
  <2>1. CASE D!DefineDatabase
    BY <2>1, StaysDefined, ExecutedIfOk
       DEF D!DefineDatabase, D!Send, D!R!Exchange, D!R!Outcomes, D!R!Charge, D!Settle, DefinedInv, Both
  <2>2. CASE D!DefineNamespace
    <3>1. db' = db /\ (dbGoal' = "Ready" => dbGoal = "Ready")
      BY <2>2 DEF D!DefineNamespace, D!Send, D!R!Exchange, D!Settle
    <3> QED BY <3>1, StaysDefined DEF DefinedInv
  <2>3. CASE D!SetPhaseMsg
    <3>1. PICK p : D!R!SetPhase(p) /\ p = dbGoal /\ dbGoal' = dbGoal
      BY <2>3 DEF D!SetPhaseMsg
    <3>2. db' = db \/ db'.phase = p
      BY <3>1, B!SetsPhase, DatabaseIsResource DEF TInv
    <3> QED BY <3>1, <3>2, StaysDefined DEF DefinedInv
  <2>4. CASE D!Reconcile \/ D!GetCluster \/ D!GetRootSecret
    BY <2>4, StaysDefined DEF D!Reconcile, D!GetCluster, D!GetRootSecret, D!R!SkipGone, D!R!Begin, D!R!object, DefinedInv
  <2>5. CASE D!Finalize
    <3>1. dbGoal' = dbGoal /\ (db' = B!Absent \/ db'.phase = db.phase)
      BY <2>5, B!Rewrites, DatabaseIsResource DEF TInv, D!Finalize
    <3> QED BY <3>1, StaysDefined DEF DefinedInv, B!Absent
  <2> QED BY <1>1, <2>1, <2>2, <2>3, <2>4, <2>5 DEF DbStep, DbActs, D!DbStep
<1>2. CASE DbWatch \/ DbUsers \/ Crash
  <2>1. dbGoal' = dbGoal /\ (db' = B!Absent \/ db'.phase = "New" \/ db'.phase = db.phase)
    BY <1>2, B!Rewrites, B!Creates, DatabaseIsResource
       DEF TInv, DbWatch, DbUsers, DbActs, Crash, D!DbWatch, D!DbUsers, D!DbRestart
  <2> QED BY <2>1, StaysDefined DEF DefinedInv, B!Absent
<1>3. CASE ~(DbStep \/ DbWatch \/ DbUsers \/ Crash)
  <2>1. dbGoal' = dbGoal /\ db' = db
    BY <1>3 DEF Next, UserSteps, UserWatches, UsersOfUsers, Collect, UserActs, dbVars, ClusterAdvances,
       ClusterFails, others, vars
  <2> QED BY <2>1, StaysDefined DEF DefinedInv
<1> QED BY <1>1, <1>2, <1>3

\* A Database that is Ready has its namespace and its database in SurrealDB,
\* whatever was lost between the two statements and the phase.
THEOREM ReadyDatabasesAreDefined == ASSUME Client = "Kube" PROVE Spec => []ReadyDatabaseIsDefined
<1>1. Init => DefinedInv
  BY DEF Init, D!DbInit, D!R!Init, D!R!Absent, DefinedInv
<1>2. TInv /\ DefinedInv /\ [Next]_vars => DefinedInv'
  BY DefinedNext
<1>3. DefinedInv => ReadyDatabaseIsDefined
  BY DEF DefinedInv, ReadyDatabaseIsDefined, Both
<1> QED BY <1>1, <1>2, <1>3, TenantsType, PTL DEF Spec

-----------------------------------------------------------------------------
(* The User, with a password in its spec.                                  *)

\* The password users write, where it is always the same.
Only == CHOOSE pw : pw \in Given

\* The one User there is has been made, its password is what SurrealDB accepts
\* once it was provisioned, and what the Secret holds once that was created.
StepLogin == /\ userNewest = 0 => userStep = "idle"
             /\ userStep \in {"provision", "createSecret", "createConfigMap"} => userPw = Only
             /\ userStep \in {"createSecret", "createConfigMap"} => serverPw = Only
             /\ userStep = "createConfigMap" /\ R!Exists(user) => secret.pw = Only
             /\ userStep = "setPhase" /\ userGoal = "Ready" =>
                  serverPw = Only /\ (R!Exists(user) => secret.pw = Only)

LoginInv == /\ serverPw \in {NoPw, Only}
            /\ secret = NoSecret \/ secret.pw = Only
            /\ user.phase = "Ready" => R!Exists(user) /\ serverPw = Only /\ secret.pw = Only
            /\ StepLogin

OnePassword == Client = "Kube" /\ Given = {Only} /\ Only # NoPw /\ MaxUsers = 1

\* While nothing happens to the passwords of a User they remain right.
LEMMA SamePasswords == ASSUME LoginInv, serverPw' = serverPw, secret' = secret,
                              user'.phase = "Ready" => user.phase = "Ready" /\ R!Exists(user)',
                              StepLogin'
                       PROVE  LoginInv'
  BY DEF LoginInv

LEMMA AtRest == ASSUME userStep' = "idle" PROVE StepLogin'
  BY DEF StepLogin

LEMMA UserUids == ASSUME TInv, OnePassword
                  PROVE  /\ userNewest \in {0, 1} /\ user.uid \in Nat /\ user.uid <= userNewest
                         /\ user.phase # "New" => R!Exists(user)
                         /\ userNewest = 0 => ~R!Exists(U!Cached) /\ ~U!Cached.fin /\ ~U!Cached.deleting
<1>1. U!Seen(userNewest, user) /\ U!Seen(userNewest, U!Cached) /\ userNewest \in 0..1
  BY U!CachedSeen DEF TInv, U!ObjectInv, OnePassword
<1> QED BY <1>1 DEF U!Seen, U!Exists, R!Exists, U!Absent, U!Version

LEMMA ReconcileLogin == ASSUME OnePassword, TInv, LoginInv, Reconcile
                        PROVE  LoginInv'
<1>1. user' = user /\ serverPw' = serverPw /\ secret' = secret /\ userNewest' = userNewest
  BY DEF Reconcile, R!SkipGone, R!Begin, R!object, made
<1>2. StepLogin'
  <2>1. userStep' \in {"idle", "addFinalizer", "removeFinalizer", "getDatabase"}
    BY DEF Reconcile, R!SkipGone, R!Begin
  <2>2. userNewest = 0 => userStep' = "idle"
    <3>1. R!Cached = U!Cached
      BY UserIsResource
    <3> QED BY <3>1, UserUids DEF Reconcile, R!SkipGone, R!Begin, R!Live
  <2> QED BY <1>1, <2>1, <2>2 DEF StepLogin
<1> QED BY <1>1, <1>2, SamePasswords DEF LoginInv, R!Exists

\* The requests up to the first write.
LEMMA ReadsLogin == ASSUME OnePassword, TInv, LoginInv, GetDatabase \/ GetCluster \/ GetRootSecret
                    PROVE  LoginInv'
<1>1. user' = user /\ serverPw' = serverPw /\ secret' = secret /\ userNewest' = userNewest
  BY DEF GetDatabase, GetCluster, GetRootSecret, made
<1>2. userStep # "idle" /\ userStep' \in {"idle", "getCluster", "getRootSecret", "provision"}
  BY DEF GetDatabase, GetCluster, GetRootSecret, R!Request, R!Exchange, R!Continue, R!Retry
<1>3. userStep' = "provision" => userPw' = Only
  BY DEF OnePassword, GetDatabase, GetCluster, GetRootSecret, R!Request, R!Exchange, R!Continue, R!Retry, Choices
<1>4. StepLogin'
  BY <1>1, <1>2, <1>3 DEF LoginInv, StepLogin
<1> QED BY <1>1, <1>4, SamePasswords DEF LoginInv, R!Exists

LEMMA ProvisionLogin == ASSUME OnePassword, TInv, LoginInv, ProvisionUser
                        PROVE  LoginInv'
<1>1. /\ userStep = "provision" /\ userPw = Only /\ userNewest # 0
      /\ user' = user /\ secret' = secret /\ userPw' = userPw /\ userNewest' = userNewest
  BY DEF ProvisionUser, LoginInv, StepLogin
<1>2. serverPw' \in {serverPw, Only} /\ (serverPw = Only => serverPw' = Only) /\ (serverPw' = NoPw => serverPw' = serverPw)
  BY <1>1 DEF ProvisionUser, R!Exchange, DefineUser, LoginInv, OnePassword
<1>3. \/ userStep' = "createSecret" /\ serverPw' = Only
      \/ userStep' = "setPhase" /\ userGoal' = "Error"
  BY <1>1, ExecutedIfOk DEF OnePassword, ProvisionUser, R!Exchange, R!Outcomes, DefineUser, Proceed, Settle, R!Continue, LoginInv
<1> QED BY <1>1, <1>2, <1>3 DEF LoginInv, StepLogin, R!Exists

LEMMA SecretLogin == ASSUME OnePassword, TInv, LoginInv, EnsureSecret
                     PROVE  LoginInv'
<1>1. /\ userStep = "createSecret" /\ userPw = Only /\ serverPw = Only /\ userNewest # 0
      /\ user' = user /\ serverPw' = serverPw /\ userPw' = userPw /\ userNewest' = userNewest
  BY DEF EnsureSecret, LoginInv, StepLogin
<1>2. secret' = secret \/ secret'.pw = Only
  BY <1>1 DEF EnsureSecret, R!Request, R!Exchange
<1>3. \/ userStep' = "createConfigMap" /\ secret'.pw = Only
      \/ userStep' = "setPhase" /\ userGoal' = "Error"
  <2>1. \/ userStep' = "createConfigMap" /\ (secret' = IF secret = NoSecret THEN [owner |-> userUid, pw |-> userPw] ELSE secret)
        \/ userStep' = "setPhase" /\ userGoal' = "Error"
    BY DEF EnsureSecret, R!Request, R!Exchange, R!Outcomes, Proceed, Settle, R!Continue
  <2> QED BY <1>1, <2>1 DEF LoginInv
<1> QED BY <1>1, <1>2, <1>3 DEF LoginInv, StepLogin, R!Exists

LEMMA ConfigMapLogin == ASSUME OnePassword, TInv, LoginInv, EnsureConfigMap
                        PROVE  LoginInv'
<1>1. /\ userStep = "createConfigMap" /\ userNewest # 0
      /\ user' = user /\ serverPw' = serverPw /\ secret' = secret /\ userNewest' = userNewest
      /\ userStep' = "setPhase"
  BY DEF EnsureConfigMap, LoginInv, StepLogin, R!Request, R!Exchange, Settle, R!Continue
<1> QED BY <1>1 DEF LoginInv, StepLogin, R!Exists

LEMMA SetPhaseLogin == ASSUME OnePassword, TInv, LoginInv, SetPhaseMsg
                       PROVE  LoginInv'
<1>1. /\ userStep = "setPhase" /\ userStep' = "idle"
      /\ serverPw' = serverPw /\ secret' = secret
  BY DEF SetPhaseMsg, made, R!SetPhase, R!Request, R!Exchange, R!Retry
<1>2. PICK p : p = userGoal /\ R!SetPhase(p)
  BY DEF SetPhaseMsg
<1>3. user' = user \/ (R!Exists(user) /\ R!Exists(user') /\ user'.phase = p)
  <2>1. user' = user \/ (U!Exists(user) /\ user'.uid = user.uid /\ user'.phase = p)
    BY <1>2, U!SetsPhase, UserIsResource DEF TInv
  <2> QED BY <2>1 DEF U!Exists, R!Exists
<1>4. StepLogin'
  BY <1>1, AtRest
<1> QED BY <1>1, <1>2, <1>3, <1>4 DEF LoginInv, StepLogin, R!Exists

\* The finalizer, the users and a restart leave the phase, or leave no User.
LEMMA ObjectLogin == ASSUME OnePassword, TInv, LoginInv,
                            Finalize \/ UserWatch \/ UserUsers \/ (UserRestart /\ UNCHANGED <<secret, serverPw>>)
                     PROVE  LoginInv'
<1>1. /\ serverPw' = serverPw /\ secret' = secret /\ UNCHANGED carried
  BY DEF Finalize, UserWatch, UserUsers, UserRestart, made
<1>2. CASE R!Create
  <2>1. user'.phase = "New" /\ userNewest = 0 /\ userNewest' = 1 /\ userStep' = userStep
    BY <1>2, UserUids, U!Creates, UserIsResource DEF OnePassword, R!Create
  <2>2. StepLogin'
    BY <2>1, AtRest DEF LoginInv, StepLogin
  <2> QED BY <1>1, <2>1, <2>2, SamePasswords
<1>3. CASE ~R!Create
  <2>1. userNewest' = userNewest /\ (user' = U!Absent \/ (user'.uid = user.uid /\ user'.phase = user.phase))
    BY <1>3, U!Rewrites, UserIsResource DEF Finalize, UserWatch, UserUsers, UserRestart, TInv
  <2>2. user'.phase = "Ready" => user.phase = "Ready" /\ R!Exists(user)'
    BY <2>1 DEF U!Absent, R!Exists, LoginInv
  <2>3. R!Exists(user)' => R!Exists(user)
    BY <2>1 DEF U!Absent, R!Exists
  <2>4. userStep' = "idle" \/ userStep' = userStep
    BY <1>3 DEF Finalize, UserWatch, UserUsers, UserRestart, R!AddFinalizer, R!RemoveFinalizer, R!Request,
       R!Exchange, R!Rest, R!Retry, R!Watch, R!Delete, R!Restart
  <2>5. StepLogin'
    BY <1>1, <2>1, <2>3, <2>4, AtRest DEF LoginInv, StepLogin, carried
  <2> QED BY <1>1, <2>2, <2>5, SamePasswords
<1> QED BY <1>2, <1>3

\* The Secret of the one User is collected only when the User is gone.
LEMMA CollectLogin == ASSUME OnePassword, TInv, LoginInv, CollectSecret \/ CollectConfigMap
                      PROVE  LoginInv'
<1>1. user' = user /\ userNewest' = userNewest /\ serverPw' = serverPw /\ UNCHANGED <<userStep, userPw, userGoal>>
  BY DEF CollectSecret, CollectConfigMap, carried
<1>2. CASE CollectSecret
  <2>1. ~R!Exists(user)
    <3>1. secret.owner \in 0..1
      BY DEF TInv, UserLocals, OnePassword
    <3> QED BY <1>2, <3>1, UserUids DEF CollectSecret, R!Exists
  <2>2. secret' = NoSecret
    BY <1>2 DEF CollectSecret
  <2> QED BY <1>1, <2>1, <2>2 DEF LoginInv, StepLogin, R!Exists
<1>3. CASE CollectConfigMap
  <2>1. secret' = secret
    BY <1>3 DEF CollectConfigMap
  <2> QED BY <1>1, <2>1 DEF LoginInv, StepLogin, R!Exists
<1> QED BY <1>2, <1>3

LEMMA LoginNext == ASSUME OnePassword, TInv, LoginInv, [Next]_vars PROVE LoginInv'
<1>1. CASE UserSteps
  BY <1>1, ReconcileLogin, ReadsLogin, ProvisionLogin, SecretLogin, ConfigMapLogin, SetPhaseLogin, ObjectLogin
     DEF UserSteps, UserActs, UserStep
<1>2. CASE UserWatches \/ UsersOfUsers \/ Collect \/ Crash
  BY <1>2, ObjectLogin, CollectLogin DEF UserWatches, UsersOfUsers, Collect, UserActs, Crash
<1>3. CASE DbStep \/ DbWatch \/ DbUsers \/ ClusterAdvances \/ ClusterFails \/ UNCHANGED vars
  <2>1. UNCHANGED <<user, userNewest, userStep, userPw, userGoal, secret, serverPw>>
    BY <1>3 DEF DbStep, DbWatch, DbUsers, DbActs, ClusterAdvances, ClusterFails, others, vars, userVars
  <2> QED BY <2>1 DEF LoginInv, StepLogin, R!Exists
<1> QED BY <1>1, <1>2, <1>3 DEF Next

\* A User that is Ready logs in with the password in its Secret, whatever
\* failed between SurrealDB, the Secret, the ConfigMap and the phase, and in
\* whatever order they were tried again: where the spec gives the password and
\* keeps it, the client reads the status of an answer, and no second User takes
\* the name.
THEOREM ReadyUsersLogIn ==
  ASSUME Client = "Kube", MaxUsers = 1, NEW pw \in Passwords, Given = {pw}
  PROVE  Spec => []ReadyUserCanLogIn
<1>1. Given = {Only} /\ Only # NoPw
  BY UserAssumption DEF Only
<1>2. Init => LoginInv
  BY DEF Init, UserInit, R!Init, R!Absent, LoginInv, StepLogin, NoSecret
<1>3. TInv /\ LoginInv /\ [Next]_vars => LoginInv'
  BY <1>1, LoginNext DEF OnePassword
<1>4. LoginInv => ReadyUserCanLogIn
  BY <1>1 DEF LoginInv, ReadyUserCanLogIn
<1> QED BY <1>2, <1>3, <1>4, TenantsType, PTL DEF Spec

-----------------------------------------------------------------------------
(* The Cluster of Tenants makes the moves of ClusterService, less whether   *)
(* there is storage.  What SurrealDB keeps of a tenant, defined and        *)
(* serverPw, is in Tenants only and outlives every move, so this carries   *)
(* the results about it over to a service that keeps its storage.          *)

VARIABLE storage

S == INSTANCE ClusterService WITH stored <- storage

\* The Cluster makes one of the moves that Tenants has, for any fault budget.
ClusterMoves == \/ StorageChosen \/ C!NameRootSecret \/ C!Serve \/ C!Bootstrap
                \/ C!Outage \/ C!Withdraw

\* Every step of the service of a Cluster, seen without its storage, is one that
\* the Cluster of Tenants may make, or none.
LEMMA ServiceMoves == S!Spec => C!Init /\ [][ClusterMoves]_cluster
<1> DEFINE Flags == {storage, named, rooted} \subseteq BOOLEAN
<1>1. S!Init => C!Init /\ Flags
  BY DEF S!Init, C!Init
<1>2. ASSUME Flags, [S!Next]_(S!service) PROVE Flags' /\ [ClusterMoves]_cluster
  <2>1. CASE S!ChooseStorage
    <3>1. storage' = TRUE /\ named' = named /\ up' = up /\ rooted' \in {FALSE, named}
      BY <2>1 DEF S!ChooseStorage
    <3>2. rooted \in BOOLEAN /\ named \in BOOLEAN
      BY <1>2
    <3>3. CASE rooted' = rooted
      BY <3>1, <3>2, <3>3 DEF cluster
    <3>4. CASE rooted' = TRUE /\ rooted = FALSE
      <4>1. named = TRUE
        BY <3>1, <3>2, <3>4
      <4> QED BY <3>1, <3>4, <4>1 DEF ClusterMoves, StorageChosen
    <3>5. CASE rooted' = FALSE /\ rooted = TRUE
      BY <3>1, <3>2, <3>5 DEF ClusterMoves, C!Withdraw
    <3>6. rooted' \in BOOLEAN
      BY <3>1, <3>2
    <3> QED BY <3>1, <3>2, <3>3, <3>4, <3>5, <3>6
  <2>2. CASE S!NameRootSecret
    BY <1>2, <2>2 DEF S!NameRootSecret, ClusterMoves, C!NameRootSecret
  <2>3. CASE S!Serve \/ S!Bootstrap \/ S!Outage
    BY <1>2, <2>3 DEF S!Serve, S!Bootstrap, S!Outage, ClusterMoves, C!Serve, C!Bootstrap, C!Outage
  <2>4. CASE S!Withdraw
    BY <1>2, <2>4 DEF S!Withdraw, ClusterMoves, C!Withdraw
  <2>5. CASE UNCHANGED S!service
    BY <1>2, <2>5 DEF S!service, cluster
  <2> QED BY <1>2, <2>1, <2>2, <2>3, <2>4, <2>5 DEF S!Next
<1>3. Flags /\ [S!Next]_(S!service) => Flags' /\ [ClusterMoves]_cluster
  BY <1>2
<1> HIDE DEF Flags
<1> QED BY <1>1, <1>3, PTL DEF S!Spec
=============================================================================
