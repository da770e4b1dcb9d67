---------------------- MODULE ClusterController_proofs ----------------------
(***************************************************************************)
(* Proofs about ClusterController, for all values of its constants.        *)
(***************************************************************************)
EXTENDS ClusterController, TLAPS, SequenceTheorems

-----------------------------------------------------------------------------
(* The parts of TypeOK, by what the actions write together.                *)

Record == [pc : Steps, snap : Version, goal : Phases, kind : 1..Len(CleanupOrder), cred : Int]

ObjectOK == /\ log \in Seq(Version) /\ log # <<>>
            /\ feed \in [Controllers -> Seq(Version)]
            /\ \A c \in Controllers : feed[c] # <<>>
            /\ lastUid \in 0..MaxUid

\* The last conjunct makes it inductive: pods get their environment from mode.
ChildrenOK == /\ child \in [Kinds -> Int]
              /\ mode \in {"none", "foreign", "creation", "auth"}
              /\ pods \subseteq {"foreign", "creation", "auth"}
              /\ secretPw \in Int /\ lastPw \in Nat
              /\ rootPw \in [Storage -> Int]
              /\ tidbReady \in BOOLEAN
              /\ child["deployment"] # NoObject => mode # "none"

ProcessOK == /\ ctl \in [Controllers -> Record]
             /\ queued \in [Controllers -> BOOLEAN]

FaultsOK == faults \in 0..MaxFaults

TypeInv == ObjectOK /\ ChildrenOK /\ ProcessOK /\ FaultsOK

-----------------------------------------------------------------------------
(* What the building blocks of the actions preserve.                       *)

\* Every way a reconcile goes on leaves the processes well typed.
LEMMA GotoType == ASSUME NEW c \in Controllers, NEW pc \in Steps, ProcessOK, Goto(c, pc)
                  PROVE ProcessOK'
  BY DEF ProcessOK, Goto, Record

LEMMA GotoPhaseType == ASSUME NEW c \in Controllers, NEW p \in Phases, ProcessOK, GotoPhase(c, p)
                       PROVE ProcessOK'
  BY DEF ProcessOK, GotoPhase, Record, Steps

LEMMA AbsentType == Absent \in Version
  BY DEF Absent, Version, Storage, Refs, Phases

LEMMA IdleType == Idle \in Record
  BY AbsentType DEF Idle, Record, Steps, Phases, CleanupOrder, NoPw

LEMMA RestType == ASSUME NEW c \in Controllers, ProcessOK, Requeue(c) \/ AwaitChange(c)
                  PROVE ProcessOK'
<1>1. ctl' \in [Controllers -> Record]
  BY IdleType DEF ProcessOK, Requeue, AwaitChange
<1>2. queued' \in [Controllers -> BOOLEAN]
  BY DEF ProcessOK, Requeue, AwaitChange
<1> QED BY <1>1, <1>2 DEF ProcessOK

LEMMA NextChildType == ASSUME NEW c \in Controllers, ProcessOK, NextChild(c)
                       PROVE ProcessOK'
<1>1. Len(CleanupOrder) = 4
  BY DEF CleanupOrder
<1>2. ctl[c].kind \in 1..4 /\ {"getChild", "publish"} \subseteq Steps
  BY <1>1 DEF ProcessOK, Record, Steps
<1>3. CASE ctl[c].kind < 4
  BY <1>1, <1>2, <1>3 DEF ProcessOK, NextChild, Record
<1>4. CASE ~(ctl[c].kind < 4)
  BY <1>1, <1>2, <1>4 DEF ProcessOK, NextChild, Record
<1> QED BY <1>3, <1>4

\* The last version of a nonempty log or feed, and its first.
LEMMA EndsType == ASSUME NEW s \in Seq(Version), s # <<>>
                  PROVE  s[Len(s)] \in Version /\ Head(s) \in Version /\ Len(s) \in Nat \ {0}
  OBVIOUS

LEMMA StoreType == ASSUME NEW v \in Version, ObjectOK, Store(v), lastUid' \in 0..MaxUid
                   PROVE  ObjectOK'
<1>1. CASE v = Cluster
  BY <1>1 DEF ObjectOK, Store, object
<1>2. CASE v # Cluster
  <2>1. log' \in Seq(Version) /\ log' # <<>>
    <3>1. /\ Append(log, v) \in Seq(Version) /\ Append(log, v) # <<>>
          /\ <<v>> \in Seq(Version) /\ <<v>> # <<>>
      BY DEF ObjectOK
    <3>2. log' = Append(log, v) \/ log' = <<v>>
      BY <1>2 DEF Store
    <3> QED BY <3>1, <3>2
  <2>2. feed' = [c \in Controllers |-> Append(feed[c], v)]
    BY <1>2 DEF Store
  <2>3. ASSUME NEW c \in Controllers PROVE Append(feed[c], v) \in Seq(Version) \ {<<>>}
    BY DEF ObjectOK
  <2> QED BY <2>1, <2>2, <2>3 DEF ObjectOK
<1> QED BY <1>1, <1>2

LEMMA RemoveChildType == ASSUME NEW k \in Kinds, ChildrenOK, RemoveChild(k)
                         PROVE  ChildrenOK'
<1>1. "deployment" \in Kinds /\ 0 \in Int /\ -1 \in Int
  BY DEF Kinds
<1>2. child' \in [Kinds -> Int] /\ secretPw' \in Int
  BY <1>1 DEF ChildrenOK, RemoveChild, NoObject, NoPw
<1>3. /\ mode' \in {"none", "foreign", "creation", "auth"}
      /\ pods' \subseteq {"foreign", "creation", "auth"}
      /\ child'["deployment"] # NoObject => mode' # "none"
  <2>1. CASE k = "deployment"
    BY <2>1, <1>1 DEF ChildrenOK, RemoveChild, NoObject
  <2>2. CASE k # "deployment"
    BY <2>2, <1>1 DEF ChildrenOK, RemoveChild, NoObject
  <2> QED BY <2>1, <2>2
<1>4. lastPw' \in Nat /\ rootPw' \in [Storage -> Int] /\ tidbReady' \in BOOLEAN
  BY DEF ChildrenOK, RemoveChild
<1> QED BY <1>2, <1>3, <1>4 DEF ChildrenOK

LEMMA ChargeType == ASSUME NEW o \in Outcomes, FaultsOK, Charge(o)
                    PROVE FaultsOK'
  BY ControllerAssumption DEF FaultsOK, Charge

LEMMA KeepObject == ASSUME ObjectOK, UNCHANGED object, UNCHANGED lastUid
                    PROVE  ObjectOK'
  BY DEF ObjectOK, object

LEMMA KeepChildren == ASSUME ChildrenOK, UNCHANGED objects
                      PROVE  ChildrenOK'
  BY DEF ChildrenOK, objects

\* The version that is stored, the cached one and a snapshot are versions.
LEMMA VersionsType == ASSUME TypeInv, NEW c \in Controllers
                      PROVE  Cluster \in Version /\ Cached(c) \in Version /\ Snap(c) \in Version
<1>1. Cluster \in Version
  BY EndsType DEF TypeInv, ObjectOK, Cluster
<1>2. Cached(c) \in Version
  BY EndsType DEF TypeInv, ObjectOK, Cached
<1>3. Snap(c) \in Version
  BY DEF TypeInv, ProcessOK, Record, Snap
<1> QED BY <1>1, <1>2, <1>3

-----------------------------------------------------------------------------
(* The start of a reconcile.                                               *)

LEMMA BeginType == ASSUME TypeInv, NEW c \in Controllers, NEW pc \in Steps, NEW goal \in Phases,
                          Begin(c, pc, goal)
                   PROVE  TypeInv'
<1>1. [Idle EXCEPT !.pc = pc, !.snap = Cached(c), !.goal = goal] \in Record
  BY IdleType, VersionsType DEF Record
<1>2. ctl' \in [Controllers -> Record]
  BY <1>1 DEF TypeInv, ProcessOK, Begin
<1>3. queued' \in [Controllers -> BOOLEAN]
  BY DEF TypeInv, ProcessOK, Begin
<1>4. ObjectOK' /\ ChildrenOK' /\ FaultsOK'
  BY KeepObject, KeepChildren DEF TypeInv, Begin, FaultsOK
<1> QED BY <1>2, <1>3, <1>4 DEF TypeInv, ProcessOK

LEMMA StartType == ASSUME TypeInv, NEW c \in Controllers, Start(c)
                   PROVE  TypeInv'
<1>1. CASE ReconcileGone(c)
  <2>1. queued' \in [Controllers -> BOOLEAN]
    BY <1>1 DEF TypeInv, ProcessOK, ReconcileGone
  <2>2. ObjectOK' /\ ChildrenOK' /\ FaultsOK' /\ ctl' = ctl
    BY <1>1, KeepObject, KeepChildren DEF TypeInv, ReconcileGone, FaultsOK
  <2> QED BY <2>1, <2>2 DEF TypeInv, ProcessOK
<1>2. CASE ~ReconcileGone(c)
  <2>1. PICK pc \in Steps, goal \in Phases : Begin(c, pc, goal)
    BY <1>2 DEF Start, ReconcileUnfinalized, ReconcileDeleted, ReconcileNew,
                ReconcilePreparing, ReconcileInCreation, ReconcileServing, ReconcileError,
                AfterNew, Steps, Phases
  <2> QED BY <2>1, BeginType
<1> QED BY <1>1, <1>2

-----------------------------------------------------------------------------
(* The requests.                                                           *)

LEMMA AddFinalizerType == ASSUME TypeInv, NEW c \in Controllers, AddFinalizer(c)
                          PROVE  TypeInv'
<1>1. PICK o \in Outcomes : Charge(o)
  BY DEF AddFinalizer, Write
<1>2. Requeue(c) \/ AwaitChange(c)
  BY DEF AddFinalizer, Write
<1>3. [Cluster EXCEPT !.fin = TRUE] \in Version
  BY VersionsType DEF Version
<1>4. UNCHANGED object \/ Store([Cluster EXCEPT !.fin = TRUE])
  BY DEF AddFinalizer, Write
<1>5. ObjectOK'
  BY <1>3, <1>4, KeepObject, StoreType DEF AddFinalizer, TypeInv, ObjectOK
<1>6. ChildrenOK'
  BY KeepChildren DEF AddFinalizer, TypeInv
<1> QED BY <1>1, <1>2, <1>5, <1>6, ChargeType, RestType DEF TypeInv

LEMMA AfterPhaseType == ASSUME TypeInv, NEW c \in Controllers, AfterPhase(c)
                        PROVE  ProcessOK'
  BY GotoType, RestType DEF AfterPhase, TypeInv, Steps

LEMMA SetPhaseType == ASSUME TypeInv, NEW c \in Controllers, SetPhase(c)
                      PROVE  TypeInv'
<1>1. PICK o \in Outcomes : Charge(o)
  BY DEF SetPhase, Write
<1>2. AfterPhase(c) \/ Requeue(c)
  BY DEF SetPhase, Write
<1>3. [Cluster EXCEPT !.phase = ctl[c].goal] \in Version
  BY VersionsType DEF Version, TypeInv, ProcessOK, Record
<1>4. UNCHANGED object \/ Store([Cluster EXCEPT !.phase = ctl[c].goal])
  BY DEF SetPhase, Write
<1>5. ObjectOK'
  BY <1>3, <1>4, KeepObject, StoreType DEF SetPhase, TypeInv, ObjectOK
<1>6. ChildrenOK'
  BY KeepChildren DEF SetPhase, TypeInv
<1>7. ProcessOK'
  BY <1>2, AfterPhaseType, RestType DEF TypeInv
<1> QED BY <1>1, <1>5, <1>6, <1>7, ChargeType DEF TypeInv

LEMMA CreateSecretType == ASSUME TypeInv, NEW c \in Controllers, CreateSecret(c)
                          PROVE  TypeInv'
<1>1. PICK o \in Outcomes : Charge(o)
  BY DEF CreateSecret, Write
<1>2. Goto(c, "persistRef") \/ GotoPhase(c, "Error")
  BY DEF CreateSecret, Write
<1>3. ProcessOK'
  BY <1>2, GotoType, GotoPhaseType DEF TypeInv, Steps, Phases
<1>4. ObjectOK'
  BY KeepObject DEF CreateSecret, TypeInv, object
<1>5. Snap(c).uid \in Int /\ lastPw + 1 \in Nat /\ "deployment" # "secret"
  BY VersionsType DEF Version, TypeInv, ChildrenOK
<1>6. \/ UNCHANGED <<child, secretPw, lastPw>>
      \/ /\ child' = [child EXCEPT !["secret"] = Snap(c).uid]
         /\ secretPw' = lastPw + 1 /\ lastPw' = lastPw + 1
  BY DEF CreateSecret, Write
<1>7. ChildrenOK'
  BY <1>5, <1>6 DEF CreateSecret, TypeInv, ChildrenOK, Kinds
<1> QED BY <1>1, <1>3, <1>4, <1>7, ChargeType DEF TypeInv

LEMMA PersistRefType == ASSUME TypeInv, NEW c \in Controllers, PersistRef(c)
                        PROVE  TypeInv'
<1>1. PICK o \in Outcomes : Charge(o)
  BY DEF PersistRef, Write
<1>2. GotoPhase(c, AfterNew(Snap(c))) \/ GotoPhase(c, "Error")
  BY DEF PersistRef, Write
<1>3. ProcessOK'
  BY <1>2, GotoPhaseType DEF TypeInv, AfterNew, Phases
<1>4. [Cluster EXCEPT !.rootRef = "auto"] \in Version
  BY VersionsType DEF Version, Refs
<1>5. UNCHANGED object \/ Store([Cluster EXCEPT !.rootRef = "auto"])
  BY DEF PersistRef, Write
<1>6. ObjectOK'
  BY <1>4, <1>5, KeepObject, StoreType DEF PersistRef, TypeInv, ObjectOK
<1>7. ChildrenOK'
  BY KeepChildren DEF PersistRef, TypeInv
<1> QED BY <1>1, <1>3, <1>6, <1>7, ChargeType DEF TypeInv

LEMMA CreateTidbType == ASSUME TypeInv, NEW c \in Controllers, CreateTidb(c)
                        PROVE  TypeInv'
<1>1. PICK o \in Outcomes : Charge(o)
  BY DEF CreateTidb, Write
<1>2. Goto(c, "getTidb") \/ Requeue(c)
  BY DEF CreateTidb, Write
<1>3. ProcessOK'
  BY <1>2, GotoType, RestType DEF TypeInv, Steps
<1>4. ObjectOK'
  BY KeepObject DEF CreateTidb, TypeInv, object
<1>5. child' = child \/ child' = [child EXCEPT !["tidb"] = Snap(c).uid]
  BY DEF CreateTidb, Write
<1>6. ChildrenOK'
  BY <1>5, VersionsType DEF CreateTidb, TypeInv, ChildrenOK, Kinds, Version
<1> QED BY <1>1, <1>3, <1>4, <1>6, ChargeType DEF TypeInv

LEMMA ApplyDeploymentType == ASSUME TypeInv, NEW c \in Controllers, ApplyDeployment(c)
                             PROVE  TypeInv'
<1>1. PICK o \in Outcomes : Charge(o)
  BY DEF ApplyDeployment, Write
<1>2. Goto(c, "applyService") \/ Requeue(c)
  BY DEF ApplyDeployment, Write
<1>3. ProcessOK'
  BY <1>2, GotoType, RestType DEF TypeInv, Steps
<1>4. ObjectOK'
  BY KeepObject DEF ApplyDeployment, TypeInv, object
<1>5. \/ UNCHANGED <<child, mode>>
      \/ /\ child' = [child EXCEPT !["deployment"] = Snap(c).uid]
         /\ mode' \in {"creation", "auth"}
  BY DEF ApplyDeployment, Write
<1>6. ChildrenOK'
  BY <1>5, VersionsType DEF ApplyDeployment, TypeInv, ChildrenOK, Kinds, Version
<1> QED BY <1>1, <1>3, <1>4, <1>6, ChargeType DEF TypeInv

LEMMA ApplyServiceType == ASSUME TypeInv, NEW c \in Controllers, ApplyService(c)
                          PROVE  TypeInv'
<1>1. PICK o \in Outcomes : Charge(o)
  BY DEF ApplyService, Write
<1>2. AfterApply(c) \/ Requeue(c)
  BY DEF ApplyService, Write
<1>3. ProcessOK'
  BY <1>2, GotoType, RestType DEF AfterApply, TypeInv, Steps
<1>4. ObjectOK'
  BY KeepObject DEF ApplyService, TypeInv, object
<1>5. child' = child \/ child' = [child EXCEPT !["service"] = Snap(c).uid]
  BY DEF ApplyService, Write
<1>6. ChildrenOK'
  BY <1>5, VersionsType DEF ApplyService, TypeInv, ChildrenOK, Kinds, Version
<1> QED BY <1>1, <1>3, <1>4, <1>6, ChargeType DEF TypeInv

\* A read changes nothing but the process that reads.
LEMMA ReadType == ASSUME TypeInv, NEW c \in Controllers,
                         GetTidb(c) \/ CheckReady(c) \/ GetSecret(c) \/ GetChild(c) \/ Publish(c)
                  PROVE  TypeInv'
<1>1. PICK o \in Outcomes : Charge(o)
  BY DEF GetTidb, CheckReady, GetSecret, GetChild, Publish, Read, Outcomes
<1>2. ObjectOK' /\ ChildrenOK'
  BY KeepObject, KeepChildren
     DEF TypeInv, GetTidb, CheckReady, GetSecret, GetChild, Publish, Read
<1>3. ProcessOK'
  <2>1. CASE GetTidb(c)
    <3>1. GotoPhase(c, "InCreation") \/ Requeue(c)
      BY <2>1 DEF GetTidb, Read
    <3> QED BY <3>1, GotoPhaseType, RestType DEF TypeInv, Phases
  <2>2. CASE CheckReady(c)
    <3>1. WhenReady(c) \/ WhenNotReady(c)
      BY <2>2 DEF CheckReady, Read
    <3>2. CASE WhenReady(c)
      <4>1. Goto(c, "getSecret") \/ GotoPhase(c, "Ready") \/ Requeue(c)
        BY <3>2 DEF WhenReady
      <4> QED BY <4>1, GotoType, GotoPhaseType, RestType DEF TypeInv, Steps, Phases
    <3>3. CASE WhenNotReady(c)
      BY <3>3, GotoPhaseType, RestType DEF WhenNotReady, TypeInv, Phases
    <3> QED BY <3>1, <3>2, <3>3
  <2>3. CASE GetSecret(c)
    <3>1. RefPw(Snap(c).rootRef) \in Int
      BY DEF RefPw, UserPw, TypeInv, ChildrenOK
    <3>2. \/ /\ ctl' = [ctl EXCEPT ![c].pc = "postSql", ![c].cred = RefPw(Snap(c).rootRef)]
             /\ UNCHANGED queued
          \/ Requeue(c)
      BY <2>3 DEF GetSecret, Read
    <3>3. CASE Requeue(c)
      BY <3>3, RestType DEF TypeInv
    <3>4. CASE ~Requeue(c)
      <4>1. PICK p \in Int : /\ ctl' = [ctl EXCEPT ![c].pc = "postSql", ![c].cred = p]
                             /\ UNCHANGED queued
        BY <3>1, <3>2, <3>4
      <4> QED BY <4>1 DEF TypeInv, ProcessOK, Record, Steps
    <3> QED BY <3>3, <3>4
  <2>4. CASE GetChild(c)
    <3>1. Requeue(c) \/ Goto(c, "deleteChild") \/ NextChild(c)
      BY <2>4 DEF GetChild, Read
    <3> QED BY <3>1, GotoType, NextChildType, RestType DEF TypeInv, Steps
  <2>5. CASE Publish(c)
    <3>1. Requeue(c) \/ Goto(c, "removeFinalizer")
      BY <2>5 DEF Publish, Read
    <3> QED BY <3>1, GotoType, RestType DEF TypeInv, Steps
  <2> QED BY <2>1, <2>2, <2>3, <2>4, <2>5
<1> QED BY <1>1, <1>2, <1>3, ChargeType DEF TypeInv

LEMMA PostSqlType == ASSUME TypeInv, NEW c \in Controllers, PostSql(c)
                     PROVE  TypeInv'
<1>1. UNCHANGED faults \/ \E o \in Outcomes : Charge(o)
  BY DEF PostSql, Write
<1>2. FaultsOK'
  BY <1>1, ChargeType DEF TypeInv, FaultsOK
<1>3. GotoPhase(c, "InProgress") \/ Requeue(c)
  BY DEF PostSql, Write
<1>4. ProcessOK'
  BY <1>3, GotoPhaseType, RestType DEF TypeInv, Phases
<1>5. ObjectOK'
  BY KeepObject DEF PostSql, TypeInv, object
<1>6. UNCHANGED rootPw \/ DefineRoot(c)
  BY DEF PostSql, Write
<1>7. rootPw' \in [Storage -> Int]
  BY <1>6 DEF DefineRoot, TypeInv, ChildrenOK, ProcessOK, Record
<1>8. ChildrenOK'
  BY <1>7 DEF PostSql, TypeInv, ChildrenOK
<1> QED BY <1>2, <1>4, <1>5, <1>8 DEF TypeInv

LEMMA DeleteChildType == ASSUME TypeInv, NEW c \in Controllers, DeleteChild(c)
                         PROVE  TypeInv'
<1>1. PICK o \in Outcomes : Charge(o)
  BY DEF DeleteChild, Write
<1>2. ProcessOK'
  <2>1. NextChild(c) \/ Requeue(c)
    BY DEF DeleteChild, Write
  <2> QED BY <2>1, NextChildType, RestType DEF TypeInv
<1>3. ObjectOK'
  BY KeepObject DEF DeleteChild, TypeInv, object
<1>4. Child(c) \in Kinds
  <2>1. ctl[c].kind \in 1..4
    BY DEF TypeInv, ProcessOK, Record, CleanupOrder
  <2> QED BY <2>1 DEF Child, CleanupOrder, Kinds
<1>5. UNCHANGED objects \/ RemoveChild(Child(c))
  BY DEF DeleteChild, Write
<1>6. ChildrenOK'
  BY <1>4, <1>5, KeepChildren, RemoveChildType DEF TypeInv
<1> QED BY <1>1, <1>2, <1>3, <1>6, ChargeType DEF TypeInv

LEMMA RemoveFinalizerType == ASSUME TypeInv, NEW c \in Controllers, RemoveFinalizer(c)
                             PROVE  TypeInv'
<1>1. PICK o \in Outcomes : Charge(o)
  BY DEF RemoveFinalizer, Write
<1>2. Requeue(c) \/ AwaitChange(c)
  BY DEF RemoveFinalizer, Write
<1> DEFINE v == IF Cluster.deleting THEN Absent ELSE [Cluster EXCEPT !.fin = FALSE]
<1>3. v \in Version
  BY VersionsType, AbsentType DEF Version
<1>4. UNCHANGED object \/ Store(v)
  BY DEF RemoveFinalizer, Write
<1>5. ObjectOK'
  <2> HIDE DEF v
  <2> QED BY <1>3, <1>4, KeepObject, StoreType DEF RemoveFinalizer, TypeInv, ObjectOK
<1>6. ChildrenOK'
  BY KeepChildren DEF RemoveFinalizer, TypeInv
<1> QED BY <1>1, <1>2, <1>5, <1>6, ChargeType, RestType DEF TypeInv

-----------------------------------------------------------------------------
(* The runtime and the environment.                                        *)

LEMMA WatchType == ASSUME TypeInv, NEW c \in Controllers, Watch(c)
                   PROVE  TypeInv'
<1>1. Tail(feed[c]) \in Seq(Version) /\ Tail(feed[c]) # <<>>
  <2>1. ASSUME NEW s \in Seq(Version), Len(s) > 1 PROVE Tail(s) \in Seq(Version) /\ Tail(s) # <<>>
    <3>1. s # <<>>
      BY <2>1
    <3>2. Tail(s) \in Seq(Version) /\ Len(Tail(s)) = Len(s) - 1
      BY <3>1
    <3>3. Len(Tail(s)) # 0 /\ Len(<<>>) = 0
      <4>1. Len(s) \in Nat
        OBVIOUS
      <4> QED BY <2>1, <3>2, <4>1
    <3> QED BY <3>2, <3>3
  <2>2. feed[c] \in Seq(Version) /\ Len(feed[c]) > 1
    BY DEF Watch, TypeInv, ObjectOK
  <2> QED BY <2>1, <2>2
<1>2. ObjectOK'
  BY <1>1 DEF Watch, TypeInv, ObjectOK
<1>3. queued' \in [Controllers -> BOOLEAN]
  BY DEF Watch, TypeInv, ProcessOK
<1>4. ctl' = ctl /\ ChildrenOK' /\ FaultsOK'
  BY KeepChildren DEF Watch, TypeInv, FaultsOK
<1> QED BY <1>2, <1>3, <1>4 DEF TypeInv, ProcessOK

LEMMA CrashType == ASSUME TypeInv, NEW c \in Controllers, Crash(c)
                   PROVE  TypeInv'
<1>1. PICK i \in 1..Len(log) : feed' = [feed EXCEPT ![c] = SubSeq(log, i, Len(log))]
  BY DEF Crash, Restart
<1>2. SubSeq(log, i, Len(log)) \in Seq(Version) /\ SubSeq(log, i, Len(log)) # <<>>
  <2>1. log \in Seq(Version) /\ Len(log) \in Nat /\ i \in 1..Len(log)
    BY DEF TypeInv, ObjectOK
  <2>2. Len(SubSeq(log, i, Len(log))) = Len(log) - i + 1
    BY <2>1, SubSeqProperties
  <2>3. SubSeq(log, i, Len(log)) \in Seq(Version)
    BY <2>1, SubSeqProperties
  <2> QED BY <2>1, <2>2, <2>3
<1>3. ObjectOK'
  BY <1>1, <1>2 DEF Crash, Restart, TypeInv, ObjectOK
<1>4. ctl' \in [Controllers -> Record] /\ queued' \in [Controllers -> BOOLEAN]
  <2>1. ctl' \in [Controllers -> Record]
    BY IdleType DEF Crash, Restart, TypeInv, ProcessOK
  <2>2. queued' \in [Controllers -> BOOLEAN]
    BY DEF Crash, Restart, TypeInv, ProcessOK
  <2> QED BY <2>1, <2>2
<1>5. ChildrenOK'
  BY KeepChildren DEF Crash, Restart, TypeInv
<1>6. FaultsOK'
  BY ControllerAssumption DEF Crash, Restart, TypeInv, FaultsOK
<1> QED BY <1>3, <1>4, <1>5, <1>6 DEF TypeInv, ProcessOK

LEMMA UsersType == ASSUME TypeInv, Users PROVE TypeInv'
<1>1. ProcessOK' /\ FaultsOK'
  BY DEF Users, UserCreate, UserDelete, UserEdit, UserPrecreate, Outside, TypeInv,
         ProcessOK, FaultsOK
<1>2. CASE \E b \in Backends, r \in RootRefs : UserCreate(b, r)
  <2>1. PICK b \in Backends, r \in RootRefs : UserCreate(b, r)
    BY <1>2
  <2>2. lastUid + 1 \in 0..MaxUid
    BY <2>1, ControllerAssumption DEF UserCreate, TypeInv, ObjectOK
  <2>3. [Absent EXCEPT !.uid = lastUid + 1, !.backend = b, !.rootRef = r] \in Version
    <3>1. lastUid + 1 \in Nat /\ b \in Storage /\ r \in Refs
      BY <2>2, ControllerAssumption DEF Refs
    <3> QED BY <3>1, AbsentType DEF Version
  <2>4. ObjectOK'
    BY <2>1, <2>2, <2>3, StoreType DEF UserCreate, TypeInv
  <2>5. ChildrenOK'
    BY <2>1, KeepChildren DEF UserCreate, TypeInv
  <2> QED BY <2>4, <2>5, <1>1 DEF TypeInv
<1>3. CASE \E b \in Backends, r \in RootRefs : UserEdit(b, r)
  <2>1. PICK b \in Backends, r \in RootRefs : UserEdit(b, r)
    BY <1>3
  <2>2. Cluster \in Version
    BY EndsType DEF TypeInv, ObjectOK, Cluster
  <2>3. /\ [Cluster EXCEPT !.backend = b] \in Version
        /\ [Cluster EXCEPT !.rootRef = r] \in Version
    BY <2>2, ControllerAssumption DEF Version, Refs
  <2>4. /\ Store([Cluster EXCEPT !.backend = b]) \/ Store([Cluster EXCEPT !.rootRef = r])
        /\ lastUid' \in 0..MaxUid
    BY <2>1 DEF UserEdit, TypeInv, ObjectOK
  <2>5. ObjectOK'
    BY <2>3, <2>4, StoreType DEF TypeInv
  <2>6. ChildrenOK'
    BY <2>1, KeepChildren DEF UserEdit, TypeInv
  <2> QED BY <2>5, <2>6, <1>1 DEF TypeInv
<1>4. CASE UserDelete
  <2>1. Cluster \in Version
    BY EndsType DEF TypeInv, ObjectOK, Cluster
  <2> DEFINE v == IF Cluster.fin THEN [Cluster EXCEPT !.deleting = TRUE] ELSE Absent
  <2>2. v \in Version
    BY <2>1, AbsentType DEF Version
  <2>3. Store(v) /\ lastUid' \in 0..MaxUid
    BY <1>4 DEF UserDelete, TypeInv, ObjectOK
  <2>4. ObjectOK'
    <3> HIDE DEF v
    <3> QED BY <2>2, <2>3, StoreType DEF TypeInv
  <2>5. ChildrenOK'
    BY <1>4, KeepChildren DEF UserDelete, TypeInv
  <2> QED BY <2>4, <2>5, <1>1 DEF TypeInv
<1>5. CASE \E k \in Foreign : UserPrecreate(k)
  <2>1. PICK k \in Foreign : UserPrecreate(k)
    BY <1>5
  <2>2. ObjectOK'
    BY <2>1, KeepObject DEF UserPrecreate, TypeInv, object
  <2>3. k \in Kinds /\ -1 \in Int
    BY ControllerAssumption
  <2>4. child' \in [Kinds -> Int] /\ secretPw' \in Int
    BY <2>1, <2>3 DEF UserPrecreate, TypeInv, ChildrenOK, Nobody, UserPw
  <2>5. mode' \in {"none", "foreign", "creation", "auth"} /\ (child'["deployment"] # NoObject => mode' # "none")
    <3>1. CASE k = "deployment"
      BY <2>1, <3>1 DEF UserPrecreate
    <3>2. CASE k # "deployment"
      BY <2>1, <2>3, <3>2 DEF UserPrecreate, TypeInv, ChildrenOK
    <3> QED BY <3>1, <3>2
  <2>6. ChildrenOK'
    BY <2>1, <2>4, <2>5 DEF UserPrecreate, TypeInv, ChildrenOK
  <2> QED BY <2>2, <2>6, <1>1 DEF TypeInv
<1> QED BY <1>2, <1>3, <1>4, <1>5 DEF Users

LEMMA PlatformType == ASSUME TypeInv, Platform \/ PodLost PROVE TypeInv'
<1>1. CASE PodUp \/ PodRetire \/ TidbBecomesReady \/ PodLost
  <2>1. ProcessOK' /\ ObjectOK'
    BY <1>1, KeepObject DEF PodUp, PodRetire, TidbBecomesReady, PodLost, Outside, TypeInv,
                            ProcessOK, object
  <2>2. FaultsOK'
    BY <1>1, ControllerAssumption DEF PodUp, PodRetire, TidbBecomesReady, PodLost, TypeInv, FaultsOK
  <2>3. ChildrenOK'
    BY <1>1 DEF PodUp, PodRetire, TidbBecomesReady, PodLost, TypeInv, ChildrenOK
  <2> QED BY <2>1, <2>2, <2>3 DEF TypeInv
<1>2. CASE \E k \in Kinds : GarbageCollect(k)
  BY <1>2, KeepObject, RemoveChildType DEF GarbageCollect, Outside, TypeInv, ProcessOK,
                                           FaultsOK, object
<1> QED BY <1>1, <1>2 DEF Platform

-----------------------------------------------------------------------------
LEMMA StepType == ASSUME TypeInv, NEW c \in Controllers, Step(c) PROVE TypeInv'
  BY StartType, AddFinalizerType, SetPhaseType, CreateSecretType, PersistRefType,
     ApplyDeploymentType, ApplyServiceType, CreateTidbType, ReadType, PostSqlType,
     DeleteChildType, RemoveFinalizerType DEF Step

LEMMA InitType == Init => TypeInv
<1> SUFFICES ASSUME Init PROVE TypeInv
  OBVIOUS
<1>1. <<Absent>> \in Seq(Version) /\ <<Absent>> # <<>>
  BY AbsentType
<1>2. ObjectOK
  BY <1>1, ControllerAssumption DEF Init, ObjectOK
<1>3. ChildrenOK
  <2>1. "deployment" \in Kinds /\ 0 \in Int /\ -1 \in Int
    BY DEF Kinds
  <2>2. child \in [Kinds -> Int] /\ child["deployment"] = 0
    BY <2>1 DEF Init, NoObject
  <2>3. rootPw \in [Storage -> Int] /\ secretPw \in Int /\ lastPw \in Nat
    BY <2>1 DEF Init, NoPw, UserPw
  <2>4. pods \subseteq {"creation", "auth"} /\ mode = "none" /\ tidbReady \in BOOLEAN
    BY DEF Init
  <2> QED BY <2>2, <2>3, <2>4 DEF ChildrenOK, NoObject
<1>4. ProcessOK /\ FaultsOK
  BY IdleType, ControllerAssumption DEF Init, ProcessOK, FaultsOK
<1> QED BY <1>2, <1>3, <1>4 DEF TypeInv

LEMMA NextType == TypeInv /\ [Next]_vars => TypeInv'
<1> SUFFICES ASSUME TypeInv, [Next]_vars PROVE TypeInv'
  OBVIOUS
<1>1. CASE UNCHANGED vars
  BY <1>1 DEF vars, TypeInv, ObjectOK, ChildrenOK, ProcessOK, FaultsOK
<1>2. CASE Next
  BY <1>2, StepType, WatchType, CrashType, UsersType, PlatformType DEF Next
<1> QED BY <1>1, <1>2

LEMMA TypeInvariant == Spec => []TypeInv
  BY InitType, NextType, PTL DEF Spec

\* Every reachable state is well typed: for any number of controller
\* processes, incarnations and faults, any permissions, and with lists that
\* may be stale.
THEOREM TypeCorrect == Spec => []TypeOK
<1>1. TypeInv => TypeOK
  BY DEF TypeInv, TypeOK, ObjectOK, ChildrenOK, ProcessOK, FaultsOK, Record
<1> QED BY <1>1, TypeInvariant, PTL

-----------------------------------------------------------------------------
(***************************************************************************)
(* RefBeforePhase, for one controller process with fresh lists.            *)
(*                                                                         *)
(* The process works from the past: from the version at the head of its    *)
(* feed, or from an older snapshot.  ViewInv says why that is harmless.    *)
(* Only this process adds and removes the finalizer, and it does either    *)
(* only after it has seen the opposite; so the feed holds at most one such *)
(* change, and while a live version is anywhere in it, or in the snapshot  *)
(* of a reconcile, that incarnation is still the stored one and what it    *)
(* said about its root Secret still holds.                                 *)
(***************************************************************************)

Alone(p) == Controllers = {p} /\ StaleList = FALSE

View(p) == FeedInv(feed[p]) /\ StepInv(ctl[p], feed[p])

IInv(p) == TypeInv /\ Len(log) = 1 /\ View(p)

LEMMA FeedType == ASSUME NEW p, Alone(p), TypeInv
                  PROVE  /\ p \in Controllers
                         /\ feed[p] \in Seq(Version) /\ Len(feed[p]) \in Nat \ {0}
                         /\ DOMAIN feed[p] = 1..Len(feed[p])
                         /\ \A i \in DOMAIN feed[p] : feed[p][i] \in Version
                         /\ Cached(p) = feed[p][1]
                         /\ Cluster \in Version /\ Snap(p) \in Version
                         /\ ctl[p] \in Record
<1>1. p \in Controllers
  BY DEF Alone
<1>2. feed[p] \in Seq(Version) /\ feed[p] # <<>>
  BY <1>1 DEF TypeInv, ObjectOK
<1>3. Len(feed[p]) \in Nat \ {0} /\ DOMAIN feed[p] = 1..Len(feed[p]) /\ Head(feed[p]) = feed[p][1]
  BY <1>2
<1>4. \A i \in DOMAIN feed[p] : feed[p][i] \in Version
  BY <1>2
<1>5. ctl[p] \in Record
  BY <1>1 DEF TypeInv, ProcessOK
<1> QED BY <1>1, <1>2, <1>3, <1>4, <1>5, VersionsType DEF Cached

\* What a write does to the feed.
LEMMA StoreFeed == ASSUME NEW p, Alone(p), TypeInv, NEW v \in Version, Store(v), v # Cluster
                   PROVE  /\ Cluster' = v /\ Len(log') = 1
                          /\ Len(feed'[p]) = Len(feed[p]) + 1
                          /\ DOMAIN feed'[p] = 1..(Len(feed[p]) + 1)
                          /\ \A i \in DOMAIN feed[p] : feed'[p][i] = feed[p][i]
                          /\ feed'[p][Len(feed[p]) + 1] = v
<1>1. Cluster' = v /\ Len(log') = 1
  <2>1. log' = <<v>>
    BY DEF Store, Alone
  <2> QED BY <2>1 DEF Cluster
<1>2. feed'[p] = Append(feed[p], v)
  <2>1. feed' = [c \in Controllers |-> Append(feed[c], v)]
    BY DEF Store
  <2> QED BY <2>1, FeedType
<1>3. ASSUME NEW F \in Seq(Version), NEW G, G = Append(F, v)
      PROVE  /\ Len(G) = Len(F) + 1 /\ DOMAIN G = 1..(Len(F) + 1)
             /\ \A i \in DOMAIN F : G[i] = F[i]
             /\ G[Len(F) + 1] = v
  BY <1>3
<1> QED BY <1>1, <1>2, <1>3, FeedType

LEMMA Same == ASSUME TypeInv, UNCHANGED object
              PROVE  Cluster' = Cluster /\ feed' = feed /\ log' = log
  BY DEF object, Cluster

-----------------------------------------------------------------------------
(* How the process moves on.                                               *)

LEMMA Retire == ASSUME NEW p, Alone(p), TypeInv, Requeue(p) \/ AwaitChange(p)
                PROVE  StepInv(ctl'[p], feed[p])
<1>1. ctl'[p] = Idle
  BY FeedType DEF Requeue, AwaitChange, TypeInv, ProcessOK
<1> QED BY <1>1 DEF StepInv, Idle, CleanupSteps, ApplySteps

LEMMA Advance == ASSUME NEW p, Alone(p), TypeInv, View(p), NEW pc \in ApplySteps \ {"setPhase"},
                        ctl[p].pc \in ApplySteps, Goto(p, pc),
                        pc \in {"getTidb", "createTidb", "getSecret", "postSql"}
                          => Snap(p).phase \in Started
                 PROVE  StepInv(ctl'[p], feed[p])
<1>1. ctl'[p].pc = pc /\ ctl'[p].snap = ctl[p].snap
  BY FeedType DEF Goto, TypeInv, ProcessOK, Record
<1> QED BY <1>1 DEF View, StepInv, Snap, CleanupSteps, ApplySteps

LEMMA AdvancePhase == ASSUME NEW p, Alone(p), TypeInv, View(p), NEW g \in Phases,
                             ctl[p].pc \in ApplySteps, GotoPhase(p, g),
                             g \in Started => Cluster.rootRef # "none"
                      PROVE  StepInv(ctl'[p], feed[p])
<1>1. ctl'[p].pc = "setPhase" /\ ctl'[p].snap = ctl[p].snap /\ ctl'[p].goal = g
  BY FeedType DEF GotoPhase, TypeInv, ProcessOK, Record
<1> QED BY <1>1 DEF View, StepInv, CleanupSteps, ApplySteps

LEMMA AdvanceCleanup == ASSUME NEW p, Alone(p), TypeInv, View(p), ctl[p].pc \in CleanupSteps,
                               NextChild(p) \/ Goto(p, "deleteChild") \/ Goto(p, "removeFinalizer")
                        PROVE  StepInv(ctl'[p], feed[p])
<1>1. PICK pc \in {"getChild", "publish", "deleteChild", "removeFinalizer"} : ctl'[p].pc = pc
  <2>1. CASE NextChild(p)
    <3>1. \/ ctl' = [ctl EXCEPT ![p].kind = @ + 1, ![p].pc = "getChild"]
          \/ ctl' = [ctl EXCEPT ![p].pc = "publish"]
      BY <2>1 DEF NextChild
    <3> QED BY <3>1, FeedType DEF TypeInv, ProcessOK, Record
  <2>2. CASE Goto(p, "deleteChild") \/ Goto(p, "removeFinalizer")
    BY <2>2, FeedType DEF Goto, TypeInv, ProcessOK, Record
  <2> QED BY <2>1, <2>2
<1> QED BY <1>1 DEF View, StepInv, CleanupSteps, ApplySteps

\* In the middle of apply the snapshot is true of the stored Cluster.
LEMMA SnapshotHolds == ASSUME NEW p, View(p), ctl[p].pc \in ApplySteps
                       PROVE  /\ Cluster.uid = Snap(p).uid /\ Cluster.fin
                              /\ Snap(p).phase \in Started => Cluster.rootRef # "none"
                              /\ Snap(p).rootRef # "none" => Cluster.rootRef # "none"
  BY DEF View, StepInv, Snap, Held, RefOK

\* A step that leaves the object alone.
LEMMA Still == ASSUME NEW p, Alone(p), TypeInv, View(p), UNCHANGED object,
                      StepInv(ctl'[p], feed[p])
               PROVE  View(p)'
  BY Same DEF View, FeedInv, FeedOrder, StepInv, Held

-----------------------------------------------------------------------------
(* Writes of the object.                                                   *)

\* Any write that keeps the finalizer, and with it the incarnation, the
\* deletion mark and the reference, keeps every view true.
LEMMA Grow == ASSUME NEW p, Alone(p), TypeInv, View(p), NEW v \in Version, Store(v),
                     v.fin = Cluster.fin,
                     v.fin => /\ v.uid = Cluster.uid
                              /\ Cluster.deleting => v.deleting
                              /\ Cluster.rootRef # "none" => v.rootRef # "none",
                     v.deleting => v.fin, v.fin => Exists(v), RefOK(v)
              PROVE  /\ FeedInv(feed[p])'
                     /\ \A r \in Record : StepInv(r, feed[p]) => StepInv(r, feed[p])'
<1>1. CASE v = Cluster
  <2>1. UNCHANGED object
    BY <1>1 DEF Store
  <2> QED BY <2>1, Same DEF View, FeedInv, FeedOrder, StepInv, Held
<1>2. CASE v # Cluster
  <2> DEFINE F == feed[p]
             G == feed'[p]
             n == Len(feed[p])
  <2>1. /\ Cluster' = v /\ Len(G) = n + 1 /\ DOMAIN G = 1..(n + 1)
        /\ \A i \in 1..n : G[i] = F[i]
        /\ G[n + 1] = v /\ n \in Nat \ {0} /\ DOMAIN F = 1..n
        /\ v \in Version /\ Cluster \in Version /\ \A i \in 1..n : F[i] \in Version
    BY <1>2, StoreFeed, FeedType
  <2>2. F[n] = Cluster /\ FeedInv(F)
    BY DEF View, FeedInv
  <2> HIDE DEF F, G, n
  <2>3. \A i \in 1..n : F[i].deleting /\ i < n => ~Live(Cluster)
    BY <2>1, <2>2 DEF FeedInv, FeedOrder
  <2>4. \A i \in 1..n : F[i].deleting => ~Live(v)
    <3>1. ASSUME NEW i \in 1..n, F[i].deleting PROVE ~Live(Cluster)
      BY <2>1, <2>2, <2>3, <3>1 DEF Live
    <3> QED BY <3>1 DEF Live
  <2>5. \A i, j, k \in 1..(n + 1) : i < j /\ j < k /\ G[i].fin # G[j].fin => G[k].fin = G[j].fin
    <3> SUFFICES ASSUME NEW i \in 1..(n + 1), NEW j \in 1..(n + 1), NEW k \in 1..(n + 1),
                        i < j, j < k, G[i].fin # G[j].fin
                 PROVE  G[k].fin = G[j].fin
      OBVIOUS
    <3>1. i \in 1..n /\ j \in 1..n /\ F[i].fin # F[j].fin
      BY <2>1
    <3>2. CASE k \in 1..n
      BY <2>1, <2>2, <3>1, <3>2 DEF FeedInv, FeedOrder
    <3>3. CASE k = n + 1
      <4>1. j < n => F[n].fin = F[j].fin
        BY <2>1, <2>2, <3>1 DEF FeedInv, FeedOrder
      <4>2. j = n \/ j < n
        BY <2>1, <3>1
      <4> QED BY <2>1, <2>2, <3>1, <3>3, <4>1, <4>2
    <3> QED BY <2>1, <3>2, <3>3
  <2>6. \A i, j \in 1..(n + 1) : i < j /\ G[i].deleting => ~Live(G[j])
    <3> SUFFICES ASSUME NEW i \in 1..(n + 1), NEW j \in 1..(n + 1), i < j, G[i].deleting
                 PROVE  ~Live(G[j])
      OBVIOUS
    <3>1. i \in 1..n /\ F[i].deleting
      BY <2>1
    <3>2. CASE j \in 1..n
      BY <2>1, <2>2, <3>1, <3>2 DEF FeedInv, FeedOrder
    <3>3. CASE j = n + 1
      BY <2>1, <2>4, <3>1, <3>3
    <3> QED BY <2>1, <3>2, <3>3
  <2> DEFINE HeldNext(x) == Live(x) => /\ Cluster'.uid = x.uid /\ Cluster'.fin
                                       /\ x.rootRef # "none" => Cluster'.rootRef # "none"
  <2>7. \A x : Held(x) => HeldNext(x)
    BY <2>1 DEF Held
  <2>8. HeldNext(v)
    BY <2>1 DEF Live
  <2> HIDE DEF HeldNext
  <2>9. \A i \in 1..(n + 1) : /\ G[i].deleting => G[i].fin
                              /\ G[i].fin => Exists(G[i])
                              /\ RefOK(G[i])
                              /\ HeldNext(G[i])
    <3> SUFFICES ASSUME NEW i \in 1..(n + 1)
                 PROVE  /\ G[i].deleting => G[i].fin
                        /\ G[i].fin => Exists(G[i])
                        /\ RefOK(G[i])
                        /\ HeldNext(G[i])
      OBVIOUS
    <3>1. CASE i \in 1..n
      BY <2>1, <2>2, <2>7, <3>1 DEF FeedInv
    <3>2. CASE i = n + 1
      BY <2>1, <2>8, <3>2
    <3> QED BY <2>1, <3>1, <3>2
  <2>10. FeedInv(feed[p])'
    BY <2>1, <2>5, <2>6, <2>9 DEF FeedInv, FeedOrder, Held, HeldNext, Live, RefOK, Exists, G
  <2>11. ASSUME NEW r \in Record, StepInv(r, F) PROVE StepInv(r, feed[p])'
    <3>1. r.pc = "addFinalizer" => \A i, j \in 1..(n + 1) : i < j /\ G[i].fin => G[j].fin
      BY <2>1, <2>2, <2>11 DEF StepInv
    <3>2. r.pc \in CleanupSteps =>
            /\ \A i, j \in 1..(n + 1) : i < j /\ G[j].fin => G[i].fin
            /\ \A i \in 1..(n + 1) : ~Live(G[i])
      BY <2>1, <2>2, <2>11 DEF StepInv, Live
    <3>3. r.pc \in ApplySteps => Live(r.snap) /\ HeldNext(r.snap) /\ RefOK(r.snap)
      BY <2>7, <2>11 DEF StepInv
    <3>4. r.pc = "setPhase" /\ r.goal \in Started => Cluster'.rootRef # "none"
      <4>1. r.pc = "setPhase" => Cluster.fin
        BY <2>11 DEF StepInv, Held, ApplySteps, CleanupSteps, Steps
      <4> QED BY <2>1, <2>11, <4>1 DEF StepInv
    <3> QED BY <2>1, <2>11, <3>1, <3>2, <3>3, <3>4 DEF StepInv, Held, HeldNext, Live, RefOK, G
  <2> QED BY <2>10, <2>11 DEF F
<1> QED BY <1>1, <1>2

\* The record of the process may point to another phase to write.
LEMMA Aim == ASSUME NEW p, NEW r, NEW q, StepInv(r, feed[p])', r.pc \in ApplySteps,
                    q.pc = "setPhase", q.snap = r.snap,
                    q.goal \in Started => Cluster'.rootRef # "none"
             PROVE  StepInv(q, feed[p])'
  BY DEF StepInv, ApplySteps, CleanupSteps

\* A write of that kind by the process itself, or by somebody else.
LEMMA Written == ASSUME NEW p, Alone(p), TypeInv, TypeInv', View(p), NEW v \in Version, Store(v),
                        v.fin = Cluster.fin,
                        v.fin => /\ v.uid = Cluster.uid
                                 /\ Cluster.deleting => v.deleting
                                 /\ Cluster.rootRef # "none" => v.rootRef # "none",
                        v.deleting => v.fin, v.fin => Exists(v), RefOK(v),
                        StepInv(ctl'[p], feed[p])
                 PROVE  View(p)'
<1>1. ctl'[p] \in Record
  BY FeedType DEF TypeInv, ProcessOK
<1>2. PICK r \in Record : r = ctl'[p]
  BY <1>1
<1>3. FeedInv(feed[p])' /\ StepInv(r, feed[p])'
  BY <1>2, Grow
<1> QED BY <1>2, <1>3 DEF View, StepInv

\* What the stored version satisfies, as the last one in the feed.
LEMMA StoredOK == ASSUME NEW p, Alone(p), TypeInv, View(p)
                  PROVE  /\ feed[p][Len(feed[p])] = Cluster
                         /\ Cluster.deleting => Cluster.fin
                         /\ Cluster.fin => Exists(Cluster)
                         /\ RefOK(Cluster)
<1>1. Len(feed[p]) \in DOMAIN feed[p]
  BY FeedType
<1> QED BY <1>1 DEF View, FeedInv

\* AddFinalizer.  Nothing the process has yet to see had the finalizer.
LEMMA AddFinalizerView == ASSUME NEW p, Alone(p), TypeInv, View(p), AddFinalizer(p)
                          PROVE  View(p)'
<1> DEFINE v == [Cluster EXCEPT !.fin = TRUE]
<1>1. Requeue(p) \/ AwaitChange(p)
  BY DEF AddFinalizer, Write
<1>2. UNCHANGED object \/ (Exists(Cluster) /\ ~Cluster.fin /\ Store(v))
  BY DEF AddFinalizer, Write
<1>3. CASE UNCHANGED object
  BY <1>1, <1>3, Retire, Still
<1>4. CASE Exists(Cluster) /\ ~Cluster.fin /\ Store(v)
  <2> DEFINE F == feed[p]
             n == Len(feed[p])
  <2>1. /\ v \in Version /\ v.fin /\ v.deleting = Cluster.deleting /\ v.uid = Cluster.uid
        /\ v.rootRef = Cluster.rootRef /\ v.phase = Cluster.phase /\ v # Cluster
    <3>1. v \in [uid : Nat, fin : BOOLEAN, deleting : BOOLEAN,
                 backend : Storage, rootRef : Refs, phase : Phases]
      BY FeedType DEF Version
    <3>2. v.fin /\ v.deleting = Cluster.deleting /\ v.uid = Cluster.uid
          /\ v.rootRef = Cluster.rootRef /\ v.phase = Cluster.phase
      BY FeedType DEF Version
    <3> QED BY <1>4, <3>1, <3>2 DEF Version
  <2> HIDE DEF v
  <2>2. PICK G : /\ feed'[p] = G /\ Cluster' = v /\ Len(G) = n + 1 /\ DOMAIN G = 1..(n + 1)
                 /\ \A i \in 1..n : G[i] = F[i]
                 /\ G[n + 1] = v /\ n \in Nat \ {0} /\ DOMAIN F = 1..n
    BY <1>4, <2>1, StoreFeed, FeedType
  <2>3. F[n] = Cluster /\ FeedInv(F) /\ StepInv(ctl[p], F) /\ ctl[p].pc = "addFinalizer"
    BY StoredOK DEF View, AddFinalizer
  <2>4. \A i \in 1..n : ~F[i].fin /\ ~F[i].deleting /\ RefOK(F[i])
    <3> SUFFICES ASSUME NEW i \in 1..n PROVE ~F[i].fin /\ ~F[i].deleting /\ RefOK(F[i])
      OBVIOUS
    <3>1. i < n => ~F[i].fin
      BY <1>4, <2>2, <2>3 DEF StepInv
    <3>2. i = n \/ i < n
      BY <2>2
    <3>3. F[i].deleting => F[i].fin
      BY <2>2, <2>3 DEF FeedInv
    <3>4. RefOK(F[i])
      BY <2>2, <2>3 DEF FeedInv
    <3> QED BY <1>4, <2>3, <3>1, <3>2, <3>3, <3>4
  <2>5. ~v.deleting /\ Exists(v) /\ RefOK(v)
    <3>1. ~Cluster.deleting /\ Exists(Cluster) /\ RefOK(Cluster)
      BY <1>4, StoredOK, FeedType
    <3> QED BY <2>1, <3>1 DEF Exists, RefOK
  <2> HIDE DEF F, n
  <2>6. FeedOrder(G)
    <3>1. \A i, j \in 1..(n + 1) : i < j => i \in 1..n
      BY <2>2
    <3>2. \A i \in 1..n : G[i].fin = FALSE /\ ~G[i].deleting
      <4>1. \A i \in 1..n : F[i].fin \in BOOLEAN
        BY <2>2, FeedType DEF F, Version
      <4> QED BY <2>2, <2>4, <4>1
    <3>3. \A i, j, k \in 1..(n + 1) : i < j /\ j < k => G[i].fin = G[j].fin
      <4>1. \A j, k \in 1..(n + 1) : j < k => j \in 1..n
        BY <2>2
      <4> QED BY <3>1, <3>2, <4>1
    <3> QED BY <2>2, <3>1, <3>2, <3>3 DEF FeedOrder
  <2>7. \A i \in 1..(n + 1) : i \in 1..n \/ i = n + 1
    BY <2>2
  <2>8. FeedInv(feed[p])'
    BY <2>1, <2>2, <2>4, <2>5, <2>6, <2>7 DEF FeedInv, FeedOrder, Held, Live, RefOK, Exists
  <2>9. ctl'[p] = Idle
    BY <1>1, FeedType DEF Requeue, AwaitChange, TypeInv, ProcessOK
  <2> QED BY <2>8, <2>9 DEF View, StepInv, Idle, CleanupSteps, ApplySteps
<1> QED BY <1>2, <1>3, <1>4

\* RemoveFinalizer.  A process in cleanup has nothing live before it, so the
\* finalizer it takes off is that of a deleted Cluster.
LEMMA RemoveFinalizerView == ASSUME NEW p, Alone(p), TypeInv, View(p), RemoveFinalizer(p)
                             PROVE  View(p)'
<1> DEFINE F == feed[p]
           n == Len(feed[p])
<1>1. Requeue(p) \/ AwaitChange(p)
  BY DEF RemoveFinalizer, Write
<1>2. /\ F[n] = Cluster /\ FeedInv(F) /\ StepInv(ctl[p], F) /\ ctl[p].pc \in CleanupSteps
      /\ n \in Nat \ {0} /\ DOMAIN F = 1..n
  BY StoredOK, FeedType DEF View, RemoveFinalizer, CleanupSteps
<1>3. UNCHANGED object \/ (Cluster.fin /\ Store(Absent))
  <2>1. ~Live(Cluster)
    BY <1>2 DEF StepInv
  <2> QED BY <2>1 DEF RemoveFinalizer, Write, Live
<1>4. CASE UNCHANGED object
  BY <1>1, <1>4, Retire, Still
<1>5. CASE Cluster.fin /\ Store(Absent)
  <2>1. Absent \in Version /\ Absent # Cluster
    BY <1>5, AbsentType DEF Absent
  <2>2. PICK G : /\ feed'[p] = G /\ Cluster' = Absent /\ Len(G) = n + 1 /\ DOMAIN G = 1..(n + 1)
                 /\ \A i \in 1..n : G[i] = F[i]
                 /\ G[n + 1] = Absent
    BY <1>5, <2>1, StoreFeed, FeedType
  <2>3. \A i \in 1..n : F[i].fin /\ ~Live(F[i]) /\ RefOK(F[i]) /\ Exists(F[i])
    <3> SUFFICES ASSUME NEW i \in 1..n PROVE F[i].fin /\ ~Live(F[i]) /\ RefOK(F[i]) /\ Exists(F[i])
      OBVIOUS
    <3>1. i < n => F[i].fin
      BY <1>2, <1>5 DEF StepInv
    <3>2. i = n \/ i < n
      BY <1>2
    <3>3. F[i].fin
      BY <1>2, <1>5, <3>1, <3>2
    <3>4. ~Live(F[i])
      BY <1>2 DEF StepInv
    <3> QED BY <1>2, <3>3, <3>4 DEF FeedInv
  <2> HIDE DEF F, n
  <2>4. ~Live(Absent) /\ ~Absent.fin /\ ~Absent.deleting /\ RefOK(Absent)
    BY DEF Live, Absent, RefOK, Started, Serving
  <2>5. \A i \in 1..(n + 1) : i \in 1..n \/ i = n + 1
    BY <1>2
  <2>6. FeedOrder(G)
    <3>1. \A i, j \in 1..(n + 1) : i < j => i \in 1..n
      BY <1>2
    <3>2. \A i \in 1..(n + 1) : ~Live(G[i])
      BY <2>2, <2>3, <2>4, <2>5
    <3>3. \A i \in 1..n : G[i].fin = TRUE
      <4>1. \A i \in 1..n : F[i].fin \in BOOLEAN
        BY <1>2, FeedType DEF F, Version
      <4> QED BY <2>2, <2>3, <4>1
    <3>4. \A i, j, k \in 1..(n + 1) : i < j /\ j < k => G[i].fin = G[j].fin
      <4>1. \A j, k \in 1..(n + 1) : j < k => j \in 1..n
        BY <1>2
      <4> QED BY <3>1, <3>3, <4>1
    <3> QED BY <2>2, <3>2, <3>4 DEF FeedOrder
  <2>7. FeedInv(feed[p])'
    <3>1. \A i \in 1..(n + 1) : /\ G[i].deleting => G[i].fin
                                /\ G[i].fin => Exists(G[i])
                                /\ RefOK(G[i]) /\ ~Live(G[i])
      BY <2>2, <2>3, <2>4, <2>5
    <3> QED BY <2>2, <2>6, <3>1 DEF FeedInv, FeedOrder, Held, Live, RefOK, Exists
  <2>8. ctl'[p] = Idle
    BY <1>1, FeedType DEF Requeue, AwaitChange, TypeInv, ProcessOK
  <2> QED BY <2>7, <2>8 DEF View, StepInv, Idle, CleanupSteps, ApplySteps
<1> QED BY <1>3, <1>4, <1>5

\* SetPhase.  It writes a started phase only onto a Cluster with a reference.
LEMMA SetPhaseView == ASSUME NEW p, Alone(p), TypeInv, TypeInv', View(p), SetPhase(p)
                      PROVE  View(p)'
<1> DEFINE v == [Cluster EXCEPT !.phase = ctl[p].goal]
<1>1. ctl[p].pc = "setPhase" /\ ctl[p].pc \in ApplySteps /\ ctl[p].goal \in Phases
  BY FeedType DEF SetPhase, ApplySteps, CleanupSteps, Steps, Record
<1>2. UNCHANGED object \/ (Exists(Cluster) /\ Store(v))
  BY DEF SetPhase, Write
<1>3. StepInv(ctl'[p], feed[p])
  <2>1. AfterPhase(p) \/ Requeue(p)
    BY DEF SetPhase, Write
  <2>2. Requeue(p) \/ Goto(p, "applyDeployment")
    BY <2>1 DEF AfterPhase
  <2>3. "applyDeployment" \in ApplySteps \ {"setPhase"}
    BY DEF ApplySteps, CleanupSteps, Steps
  <2> QED BY <1>1, <2>2, <2>3, Retire, Advance
<1>4. CASE UNCHANGED object
  BY <1>3, <1>4, Still
<1>5. CASE Exists(Cluster) /\ Store(v)
  <2>1. /\ v.fin = Cluster.fin /\ v.uid = Cluster.uid /\ v.deleting = Cluster.deleting
        /\ v.rootRef = Cluster.rootRef /\ v.phase = ctl[p].goal
    BY FeedType DEF Version
  <2>2. v \in Version
    BY <1>1, FeedType DEF Version
  <2>3. ctl[p].goal \in Started => Cluster.rootRef # "none"
    BY <1>1 DEF View, StepInv
  <2> HIDE DEF v
  <2>4. v.deleting => v.fin
    BY <2>1, StoredOK
  <2>5. Exists(v) /\ RefOK(v)
    BY <1>5, <2>1, <2>3 DEF Exists, RefOK
  <2> QED BY <1>3, <1>5, <2>1, <2>2, <2>4, <2>5, Written
<1> QED BY <1>2, <1>4, <1>5

\* PersistRef.  Only an answer takes the reconcile on to a started phase.
LEMMA PersistRefView == ASSUME NEW p, Alone(p), TypeInv, TypeInv', View(p), PersistRef(p)
                        PROVE  View(p)'
<1> DEFINE v == [Cluster EXCEPT !.rootRef = "auto"]
<1>1. ctl[p].pc \in ApplySteps
  BY DEF PersistRef, ApplySteps, CleanupSteps, Steps
<1>2. CASE UNCHANGED object /\ GotoPhase(p, "Error")
  <2>1. "Error" \in Phases /\ "Error" \notin Started
    BY DEF Phases, Started, Serving
  <2>2. StepInv(ctl'[p], feed[p])
    BY <1>1, <1>2, <2>1, AdvancePhase
  <2> QED BY <1>2, <2>2, Still
<1>3. CASE Exists(Cluster) /\ Store(v) /\ \E g \in Phases : GotoPhase(p, g)
  <2>1. /\ v.fin = Cluster.fin /\ v.uid = Cluster.uid /\ v.deleting = Cluster.deleting
        /\ v.rootRef = "auto" /\ v.phase = Cluster.phase
    BY FeedType DEF Version
  <2>2. v \in Version
    BY FeedType DEF Version, Refs
  <2> HIDE DEF v
  <2>3. (v.deleting => v.fin) /\ Exists(v) /\ RefOK(v)
    BY <1>3, <2>1, StoredOK DEF Exists, RefOK
  <2>4. ctl[p] \in Record /\ StepInv(ctl[p], feed[p])
    BY FeedType DEF View
  <2>5. PICK r \in Record : r = ctl[p]
    BY <2>4
  <2>6. FeedInv(feed[p])' /\ StepInv(r, feed[p])'
    BY <1>3, <2>1, <2>2, <2>3, <2>4, <2>5, Grow
  <2>7. Cluster'.rootRef # "none"
    <3>1. v = Cluster \/ v # Cluster
      OBVIOUS
    <3>2. CASE v = Cluster
      <4>1. UNCHANGED object
        BY <1>3, <3>2 DEF Store
      <4> QED BY <2>1, <3>2, <4>1, Same
    <3>3. CASE v # Cluster
      BY <1>3, <2>1, <2>2, <3>3, StoreFeed
    <3> QED BY <3>1, <3>2, <3>3
  <2>8. PICK q : q = ctl'[p]
    OBVIOUS
  <2>9. q.pc = "setPhase" /\ q.snap = r.snap
    BY <1>3, <2>5, <2>8, FeedType DEF GotoPhase, TypeInv, ProcessOK, Record
  <2>10. StepInv(q, feed[p])'
    BY <1>1, <2>5, <2>6, <2>7, <2>9, Aim
  <2> QED BY <2>6, <2>8, <2>10 DEF View, StepInv
<1>4. AfterNew(Snap(p)) \in Phases /\ "Error" \in Phases
  BY DEF AfterNew, Phases
<1> QED BY <1>2, <1>3, <1>4 DEF PersistRef, Write

-----------------------------------------------------------------------------
(* Requests that leave the object alone.                                   *)

LEMMA ApplyView == ASSUME NEW p, Alone(p), TypeInv, View(p),
                          \/ CreateSecret(p) \/ CreateTidb(p) \/ GetTidb(p)
                          \/ ApplyDeployment(p) \/ ApplyService(p)
                          \/ CheckReady(p) \/ GetSecret(p) \/ PostSql(p)
                   PROVE  View(p)'
<1>1. UNCHANGED object
  BY DEF object, CreateSecret, CreateTidb, GetTidb, ApplyDeployment, ApplyService,
         CheckReady, GetSecret, PostSql, Read
<1>2. ctl[p].pc \in ApplySteps
  BY DEF CreateSecret, CreateTidb, GetTidb, ApplyDeployment, ApplyService,
         CheckReady, GetSecret, PostSql, ApplySteps, CleanupSteps, Steps
<1>3. /\ {"persistRef", "getTidb", "applyService", "checkReady", "getSecret", "postSql"}
           \subseteq ApplySteps \ {"setPhase"}
      /\ {"Error", "InCreation", "InProgress", "Ready", "NotReady"} \subseteq Phases
      /\ "Error" \notin Started
  BY DEF ApplySteps, CleanupSteps, Steps, Phases, Started, Serving
<1>4. Snap(p).phase \in Started => Cluster.rootRef # "none"
  BY <1>2, SnapshotHolds
<1>5. CASE CreateSecret(p)
  <2>1. Goto(p, "persistRef") \/ GotoPhase(p, "Error")
    BY <1>5 DEF CreateSecret, Write
  <2> QED BY <1>1, <1>2, <1>3, <2>1, Advance, AdvancePhase, Still
<1>6. CASE CreateTidb(p)
  <2>1. Goto(p, "getTidb") \/ Requeue(p)
    BY <1>6 DEF CreateTidb, Write
  <2>2. Snap(p).phase \in Started
    BY <1>6 DEF CreateTidb, View, StepInv, Snap
  <2> QED BY <1>1, <1>2, <1>3, <2>1, <2>2, Advance, Retire, Still
<1>7. CASE GetTidb(p)
  <2>1. GotoPhase(p, "InCreation") \/ Requeue(p)
    BY <1>7 DEF GetTidb, Read
  <2>2. Snap(p).phase \in Started
    BY <1>7 DEF GetTidb, View, StepInv, Snap
  <2> QED BY <1>1, <1>2, <1>3, <1>4, <2>1, <2>2, AdvancePhase, Retire, Still
<1>8. CASE ApplyDeployment(p)
  <2>1. Goto(p, "applyService") \/ Requeue(p)
    BY <1>8 DEF ApplyDeployment, Write
  <2> QED BY <1>1, <1>2, <1>3, <2>1, Advance, Retire, Still
<1>9. CASE ApplyService(p)
  <2>1. Goto(p, "checkReady") \/ Requeue(p)
    BY <1>9 DEF ApplyService, AfterApply, Write
  <2> QED BY <1>1, <1>2, <1>3, <2>1, Advance, Retire, Still
<1>10. CASE CheckReady(p)
  <2>1. WhenReady(p) \/ WhenNotReady(p)
    BY <1>10 DEF CheckReady, Read
  <2>2. \/ Goto(p, "getSecret") /\ Snap(p).phase \in Started
        \/ GotoPhase(p, "Ready") /\ Snap(p).phase \in Started
        \/ GotoPhase(p, "NotReady") /\ Snap(p).phase \in Started
        \/ Requeue(p)
    BY <2>1 DEF WhenReady, WhenNotReady, Started, Serving
  <2>3. CASE Goto(p, "getSecret") /\ Snap(p).phase \in Started
    BY <1>1, <1>2, <1>3, <2>3, Advance, Still
  <2>4. ASSUME NEW g \in {"Ready", "NotReady"}, GotoPhase(p, g), Snap(p).phase \in Started
        PROVE  View(p)'
    BY <1>1, <1>2, <1>3, <1>4, <2>4, AdvancePhase, Still
  <2>5. CASE Requeue(p)
    BY <1>1, <2>5, Retire, Still
  <2> QED BY <2>2, <2>3, <2>4, <2>5
<1>11. CASE GetSecret(p)
  <2>1. (\E w : ctl' = [ctl EXCEPT ![p].pc = "postSql", ![p].cred = w]) \/ Requeue(p)
    BY <1>11 DEF GetSecret, Read
  <2>2. CASE \E w : ctl' = [ctl EXCEPT ![p].pc = "postSql", ![p].cred = w]
    <3>1. ctl'[p].pc = "postSql" /\ ctl'[p].snap = ctl[p].snap
      BY <2>2, FeedType DEF TypeInv, ProcessOK, Record
    <3>2. ctl[p].pc = "getSecret"
      BY <1>11 DEF GetSecret
    <3>3. StepInv(ctl'[p], feed[p])
      BY <1>2, <3>1, <3>2 DEF View, StepInv, CleanupSteps, ApplySteps
    <3> QED BY <1>1, <3>3, Still
  <2> QED BY <1>1, <2>1, <2>2, Retire, Still
<1>12. CASE PostSql(p)
  <2>1. GotoPhase(p, "InProgress") \/ Requeue(p)
    BY <1>12 DEF PostSql, Write
  <2>2. Snap(p).phase \in Started
    BY <1>12 DEF PostSql, View, StepInv, Snap
  <2> QED BY <1>1, <1>2, <1>3, <1>4, <2>1, <2>2, AdvancePhase, Retire, Still
<1> QED BY <1>5, <1>6, <1>7, <1>8, <1>9, <1>10, <1>11, <1>12

LEMMA CleanupView == ASSUME NEW p, Alone(p), TypeInv, View(p),
                            GetChild(p) \/ DeleteChild(p) \/ Publish(p)
                     PROVE  View(p)'
<1>1. UNCHANGED object
  BY DEF object, GetChild, DeleteChild, Publish, Read
<1>2. ctl[p].pc \in CleanupSteps
  BY DEF GetChild, DeleteChild, Publish, CleanupSteps
<1>3. \/ Requeue(p)
      \/ NextChild(p) \/ Goto(p, "deleteChild") \/ Goto(p, "removeFinalizer")
  BY DEF GetChild, DeleteChild, Publish, Read, Write
<1> QED BY <1>1, <1>2, <1>3, AdvanceCleanup, Retire, Still

-----------------------------------------------------------------------------
(* The start of a reconcile.                                               *)

LEMMA BeginView == ASSUME NEW p, Alone(p), TypeInv, View(p), NEW pc \in Steps, NEW goal \in Phases,
                         Begin(p, pc, goal)
                  PROVE  /\ UNCHANGED object
                         /\ ctl'[p].pc = pc /\ ctl'[p].snap = feed[p][1] /\ ctl'[p].goal = goal
  BY FeedType DEF Begin, TypeInv, ProcessOK, Idle

\* apply is called with a live version: the invariant of the feed at its head.
LEMMA LiveStart == ASSUME NEW p, Alone(p), TypeInv, View(p), Live(Cached(p)),
                          NEW pc \in ApplySteps, NEW goal \in Phases, Begin(p, pc, goal),
                          pc \in {"getTidb", "createTidb", "getSecret", "postSql"}
                            => Cached(p).phase \in Started,
                          pc = "setPhase" /\ goal \in Started => Cached(p).rootRef # "none"
                   PROVE  View(p)'
<1>1. /\ UNCHANGED object
      /\ ctl'[p].pc = pc /\ ctl'[p].snap = feed[p][1] /\ ctl'[p].goal = goal
  BY BeginView DEF ApplySteps
<1>2. 1 \in DOMAIN feed[p] /\ Cached(p) = feed[p][1]
  BY FeedType
<1>3. Held(Cached(p)) /\ RefOK(Cached(p))
  BY <1>2 DEF View, FeedInv
<1>4. StepInv(ctl'[p], feed[p])
  BY <1>1, <1>2, <1>3 DEF StepInv, Held, ApplySteps, CleanupSteps
<1> QED BY <1>1, <1>4, Still

LEMMA StartView == ASSUME NEW p, Alone(p), TypeInv, View(p), Start(p)
                   PROVE  View(p)'
<1> DEFINE F == feed[p]
<1>1. 1 \in DOMAIN F /\ Cached(p) = F[1] /\ FeedInv(F)
      /\ \A i \in DOMAIN F : i = 1 \/ 1 < i
  BY FeedType DEF View
<1>2. /\ {"createSecret", "setPhase", "createTidb", "getTidb", "checkReady", "applyDeployment"}
           \subseteq ApplySteps
      /\ {"New", "Error"} \subseteq Phases /\ "New" \notin Started /\ "Error" \notin Started
  BY DEF ApplySteps, CleanupSteps, Steps, Phases, Started, Serving
<1>3. CASE ReconcileGone(p)
  <2>1. UNCHANGED object /\ ctl' = ctl
    BY <1>3 DEF ReconcileGone
  <2>2. StepInv(ctl'[p], feed[p])
    BY <2>1 DEF View
  <2> QED BY <2>1, <2>2, Still
<1>4. CASE ReconcileUnfinalized(p)
  <2>1. UNCHANGED object /\ ctl'[p].pc = "addFinalizer"
    BY <1>4, BeginView DEF ReconcileUnfinalized, Steps, Phases
  <2>2. ~F[1].fin
    BY <1>1, <1>4 DEF ReconcileUnfinalized
  <2>3. \A i, j \in DOMAIN F : i < j /\ F[i].fin => F[j].fin
    BY <1>1, <2>2 DEF FeedInv, FeedOrder
  <2>4. StepInv(ctl'[p], F)
    BY <2>1, <2>3 DEF StepInv, CleanupSteps, ApplySteps
  <2> QED BY <2>1, <2>4, Still
<1>5. CASE ReconcileDeleted(p)
  <2>1. UNCHANGED object /\ ctl'[p].pc = "getChild"
    BY <1>5, BeginView DEF ReconcileDeleted, Steps, Phases
  <2>2. F[1].fin /\ F[1].deleting
    BY <1>1, <1>5 DEF ReconcileDeleted
  <2>3. \A i, j \in DOMAIN F : i < j /\ F[j].fin => F[i].fin
    BY <1>1, <2>2 DEF FeedInv, FeedOrder
  <2>4. \A i \in DOMAIN F : ~Live(F[i])
    <3>1. ~Live(F[1])
      BY <2>2 DEF Live
    <3> QED BY <1>1, <2>2, <3>1 DEF FeedInv, FeedOrder
  <2>5. StepInv(ctl'[p], F)
    BY <2>1, <2>3, <2>4 DEF StepInv, CleanupSteps, ApplySteps
  <2> QED BY <2>1, <2>5, Still
<1>6. CASE ReconcileNew(p)
  <2>1. CASE Begin(p, "setPhase", "Error")
    BY <1>2, <1>6, <2>1, LiveStart DEF ReconcileNew
  <2>2. CASE Begin(p, "createSecret", "New")
    BY <1>2, <1>6, <2>2, LiveStart DEF ReconcileNew
  <2>3. CASE Cached(p).rootRef # "none" /\ Begin(p, "setPhase", AfterNew(Cached(p)))
    <3>1. AfterNew(Cached(p)) \in Phases
      BY DEF AfterNew, Phases
    <3> QED BY <1>2, <1>6, <2>3, <3>1, LiveStart DEF ReconcileNew
  <2> QED BY <1>6, <2>1, <2>2, <2>3 DEF ReconcileNew
<1>7. CASE ReconcilePreparing(p)
  <2>1. Live(Cached(p)) /\ Cached(p).phase \in Started
    BY <1>7 DEF ReconcilePreparing, Started
  <2>2. Begin(p, "createTidb", "New") \/ Begin(p, "getTidb", "New")
    BY <1>7 DEF ReconcilePreparing
  <2> QED BY <1>2, <2>1, <2>2, LiveStart
<1>8. CASE ReconcileInCreation(p) \/ ReconcileServing(p) \/ ReconcileError(p)
  <2>1. Live(Cached(p)) /\ (Begin(p, "checkReady", "New") \/ Begin(p, "applyDeployment", "New"))
    BY <1>8 DEF ReconcileInCreation, ReconcileServing, ReconcileError
  <2> QED BY <1>2, <2>1, LiveStart
<1> QED BY <1>3, <1>4, <1>5, <1>6, <1>7, <1>8 DEF Start

LEMMA StepView == ASSUME NEW p, Alone(p), TypeInv, TypeInv', View(p), Step(p)
                  PROVE  View(p)'
  BY StartView, AddFinalizerView, SetPhaseView, PersistRefView, ApplyView, CleanupView,
     RemoveFinalizerView DEF Step

-----------------------------------------------------------------------------
(* The runtime, the users and the platform.                                *)

LEMMA WatchView == ASSUME NEW p, Alone(p), TypeInv, View(p), Watch(p)
                   PROVE  View(p)'
<1>1. /\ Len(feed[p]) > 1 /\ feed'[p] = Tail(feed[p]) /\ Cluster' = Cluster /\ ctl' = ctl
  BY FeedType DEF Watch, TypeInv, ObjectOK, Cluster
<1>2. ASSUME NEW F \in Seq(Version), NEW G, G = Tail(F), Len(F) > 1
      PROVE  /\ Len(G) = Len(F) - 1 /\ DOMAIN G = 1..(Len(F) - 1)
             /\ \A i \in 1..(Len(F) - 1) : G[i] = F[i + 1]
  BY <1>2
<1> DEFINE F == feed[p]
           n == Len(feed[p])
<1>3. PICK G : /\ feed'[p] = G /\ Len(G) = n - 1 /\ DOMAIN G = 1..(n - 1)
               /\ \A i \in 1..(n - 1) : G[i] = F[i + 1]
  <2>1. PICK H : H = Tail(F)
    OBVIOUS
  <2>2. /\ Len(H) = n - 1 /\ DOMAIN H = 1..(n - 1)
        /\ \A i \in 1..(n - 1) : H[i] = F[i + 1]
    BY <1>1, <1>2, <2>1, FeedType
  <2> QED BY <1>1, <2>1, <2>2
<1>4. /\ n \in Nat /\ n > 1 /\ DOMAIN F = 1..n /\ F[n] = Cluster /\ FeedInv(F) /\ StepInv(ctl[p], F)
  BY <1>1, FeedType, StoredOK DEF View
<1> HIDE DEF F, n
<1>5. G[n - 1] = Cluster
  BY <1>3, <1>4
<1>6. \A i \in 1..(n - 1) : i + 1 \in 1..n
  BY <1>4
<1>7. FeedOrder(G)
  <2>1. ASSUME NEW i \in 1..(n - 1), NEW j \in 1..(n - 1), NEW k \in 1..(n - 1),
               i < j, j < k, G[i].fin # G[j].fin
        PROVE  G[k].fin = G[j].fin
    <3>1. i + 1 \in 1..n /\ j + 1 \in 1..n /\ k + 1 \in 1..n /\ i + 1 < j + 1 /\ j + 1 < k + 1
      BY <1>4, <2>1
    <3>2. G[i] = F[i + 1] /\ G[j] = F[j + 1] /\ G[k] = F[k + 1]
      BY <1>3
    <3>3. F[i + 1].fin # F[j + 1].fin
      BY <2>1, <3>2
    <3>4. F[k + 1].fin = F[j + 1].fin
      BY <1>4, <3>1, <3>3 DEF FeedInv, FeedOrder
    <3> QED BY <3>2, <3>4
  <2>2. ASSUME NEW i \in 1..(n - 1), NEW j \in 1..(n - 1), i < j, G[i].deleting
        PROVE  ~Live(G[j])
    <3>1. i + 1 \in 1..n /\ j + 1 \in 1..n /\ i + 1 < j + 1
      BY <1>4, <2>2
    <3> QED BY <1>3, <1>4, <2>2, <3>1 DEF FeedInv, FeedOrder
  <2> QED BY <1>3, <2>1, <2>2 DEF FeedOrder
<1>8. FeedInv(feed[p])'
  <2>1. \A i \in 1..(n - 1) : /\ G[i].deleting => G[i].fin
                              /\ G[i].fin => Exists(G[i])
                              /\ RefOK(G[i])
                              /\ Held(G[i])
    BY <1>3, <1>4, <1>6 DEF FeedInv
  <2>2. G[Len(G)] = Cluster
    BY <1>3, <1>5
  <2>3. \A i \in 1..(n - 1) : Live(G[i]) => /\ Cluster'.uid = G[i].uid /\ Cluster'.fin
                                            /\ G[i].rootRef # "none" => Cluster'.rootRef # "none"
    BY <1>1, <2>1 DEF Held
  <2>4. FeedOrder(feed[p])'
    BY <1>3, <1>7 DEF FeedOrder, Live
  <2>5. (feed[p][Len(feed[p])] = Cluster)'
    BY <1>1, <1>3, <2>2
  <2>6. (\A i \in DOMAIN feed[p] : /\ feed[p][i].deleting => feed[p][i].fin
                                   /\ feed[p][i].fin => Exists(feed[p][i])
                                   /\ RefOK(feed[p][i]))'
    BY <1>3, <2>1 DEF Exists, RefOK
  <2>7. (\A i \in DOMAIN feed[p] : Held(feed[p][i]))'
    BY <1>3, <2>3 DEF Held, Live
  <2> QED BY <2>4, <2>5, <2>6, <2>7 DEF FeedInv
<1>9. StepInv(ctl[p], feed[p])'
  <2>1. PICK r : r = ctl[p]
    OBVIOUS
  <2>2. r.pc = "addFinalizer" => \A i, j \in 1..(n - 1) : i < j /\ G[i].fin => G[j].fin
    <3> SUFFICES ASSUME r.pc = "addFinalizer", NEW i \in 1..(n - 1), NEW j \in 1..(n - 1),
                        i < j, G[i].fin
                 PROVE  G[j].fin
      OBVIOUS
    <3>1. i + 1 < j + 1
      BY <1>4
    <3> QED BY <1>3, <1>4, <1>6, <2>1, <3>1 DEF StepInv
  <2>3. r.pc \in CleanupSteps =>
          /\ \A i, j \in 1..(n - 1) : i < j /\ G[j].fin => G[i].fin
          /\ \A i \in 1..(n - 1) : ~Live(G[i])
    <3> SUFFICES ASSUME r.pc \in CleanupSteps
                 PROVE  /\ \A i, j \in 1..(n - 1) : i < j /\ G[j].fin => G[i].fin
                        /\ \A i \in 1..(n - 1) : ~Live(G[i])
      OBVIOUS
    <3>1. ASSUME NEW i \in 1..(n - 1), NEW j \in 1..(n - 1), i < j, G[j].fin
          PROVE  G[i].fin
      <4>1. i + 1 < j + 1
        BY <1>4, <3>1
      <4> QED BY <1>3, <1>4, <1>6, <2>1, <3>1, <4>1 DEF StepInv
    <3>2. \A i \in 1..(n - 1) : ~Live(G[i])
      BY <1>3, <1>4, <1>6, <2>1 DEF StepInv
    <3> QED BY <3>1, <3>2
  <2> QED BY <1>1, <1>3, <1>4, <2>1, <2>2, <2>3 DEF StepInv, Held, Live, RefOK
<1> QED BY <1>8, <1>9 DEF View

LEMMA CrashView == ASSUME NEW p, Alone(p), TypeInv, Len(log) = 1, View(p), Crash(p)
                   PROVE  View(p)'
<1>1. /\ Len(feed'[p]) = 1 /\ DOMAIN feed'[p] = 1..1 /\ feed'[p][1] = Cluster
      /\ Cluster' = Cluster /\ ctl'[p] = Idle
  <2>1. PICK i \in 1..Len(log) : feed' = [feed EXCEPT ![p] = SubSeq(log, i, Len(log))]
    BY DEF Crash, Restart
  <2>2. ASSUME NEW s \in Seq(Version), Len(s) = 1, NEW G, G = SubSeq(s, 1, 1)
        PROVE  Len(G) = 1 /\ DOMAIN G = 1..1 /\ G[1] = s[1]
    BY <2>2
  <2>3. i = 1 /\ log \in Seq(Version)
    BY <2>1 DEF TypeInv, ObjectOK
  <2>4. Len(feed'[p]) = 1 /\ DOMAIN feed'[p] = 1..1 /\ feed'[p][1] = Cluster
    <3>1. feed'[p] = SubSeq(log, 1, 1)
      BY <2>1, <2>3, FeedType DEF TypeInv, ObjectOK
    <3> QED BY <2>2, <2>3, <3>1 DEF Cluster
  <2>5. Cluster' = Cluster
    BY DEF Crash, Restart, Cluster
  <2>6. ctl'[p] = Idle
    BY FeedType DEF Crash, Restart, TypeInv, ProcessOK
  <2> QED BY <2>4, <2>5, <2>6
<1>2. PICK G : feed'[p] = G /\ Len(G) = 1 /\ DOMAIN G = 1..1 /\ G[1] = Cluster
  BY <1>1
<1>3. \A i \in DOMAIN G : i = 1
  BY <1>2
<1>4. FeedOrder(G)
  BY <1>3 DEF FeedOrder
<1>5. /\ Cluster.deleting => Cluster.fin
      /\ Cluster.fin => Exists(Cluster)
      /\ RefOK(Cluster) /\ Held(Cluster)
  <2>1. Held(Cluster)
    BY DEF Held, Live
  <2> QED BY <2>1, StoredOK
<1>6. FeedInv(feed[p])'
  BY <1>1, <1>2, <1>3, <1>4, <1>5 DEF FeedInv, FeedOrder, Held, Live, RefOK, Exists
<1> QED BY <1>1, <1>6 DEF View, StepInv, Idle, CleanupSteps, ApplySteps

LEMMA OutsideView == ASSUME NEW p, Alone(p), TypeInv, View(p), UNCHANGED object, ctl' = ctl
                     PROVE  View(p)'
<1>1. StepInv(ctl'[p], feed[p])
  BY DEF View
<1> QED BY <1>1, Still

LEMMA UsersView == ASSUME NEW p, Alone(p), TypeInv, TypeInv', View(p), Users
                   PROVE  View(p)'
<1>1. StepInv(ctl'[p], feed[p])
  BY DEF View, Users, UserCreate, UserEdit, UserDelete, UserPrecreate, Outside
<1>2. /\ Cluster.deleting => Cluster.fin
      /\ Cluster.fin => Exists(Cluster)
      /\ RefOK(Cluster) /\ Cluster \in Version
  BY StoredOK, FeedType
<1>3. ASSUME NEW b \in Backends, NEW r \in RootRefs, UserCreate(b, r) PROVE View(p)'
  <2> DEFINE v == [Absent EXCEPT !.uid = lastUid + 1, !.backend = b, !.rootRef = r]
  <2>1. v \in Version /\ ~v.fin /\ ~v.deleting /\ v.phase = "New"
    <3>1. lastUid + 1 \in Nat /\ b \in Storage /\ r \in Refs
      BY ControllerAssumption DEF TypeInv, ObjectOK, Refs
    <3>2. PICK w \in Version : w = Absent
      BY AbsentType
    <3>3. ~w.fin /\ ~w.deleting /\ w.phase = "New"
      BY <3>2 DEF Absent
    <3>4. v = [w EXCEPT !.uid = lastUid + 1, !.backend = b, !.rootRef = r]
      BY <3>2
    <3> QED BY <3>1, <3>2, <3>3, <3>4 DEF Version
  <2>2. Store(v) /\ ~Exists(Cluster)
    BY <1>3 DEF UserCreate
  <2> HIDE DEF v
  <2>3. v.fin = Cluster.fin
    BY <1>2, <2>1, <2>2 DEF Version
  <2>4. RefOK(v)
    BY <2>1 DEF RefOK, Started, Serving
  <2> QED BY <1>1, <2>1, <2>2, <2>3, <2>4, Written
<1>4. CASE UserDelete
  <2>1. CASE Cluster.fin
    <3> DEFINE v == [Cluster EXCEPT !.deleting = TRUE]
    <3>1. v \in Version /\ v.deleting
      BY <1>2 DEF Version
    <3>2. /\ v.fin = Cluster.fin /\ v.uid = Cluster.uid /\ v.rootRef = Cluster.rootRef
          /\ v.phase = Cluster.phase
      BY <1>2 DEF Version
    <3>3. Store(v)
      BY <1>4, <2>1 DEF UserDelete
    <3> HIDE DEF v
    <3>4. RefOK(v) /\ Exists(v)
      BY <1>2, <2>1, <3>2 DEF RefOK, Exists
    <3> QED BY <1>1, <2>1, <3>1, <3>2, <3>3, <3>4, Written
  <2>2. CASE ~Cluster.fin
    <3>1. Store(Absent)
      BY <1>4, <2>2 DEF UserDelete
    <3>2. Absent.fin = Cluster.fin /\ ~Absent.fin /\ ~Absent.deleting
      BY <1>2, <2>2 DEF Version, Absent
    <3>3. RefOK(Absent)
      BY DEF Absent, RefOK, Started, Serving
    <3> QED BY <1>1, <3>1, <3>2, <3>3, AbsentType, Written
  <2> QED BY <2>1, <2>2
<1>5. ASSUME NEW b \in Backends, NEW r \in RootRefs, UserEdit(b, r) PROVE View(p)'
  <2>1. CASE Store([Cluster EXCEPT !.backend = b])
    <3> DEFINE v == [Cluster EXCEPT !.backend = b]
    <3>1. v \in Version
      BY <1>2, ControllerAssumption DEF Version
    <3>2. /\ v.fin = Cluster.fin /\ v.uid = Cluster.uid /\ v.deleting = Cluster.deleting
          /\ v.rootRef = Cluster.rootRef /\ v.phase = Cluster.phase
      BY <1>2 DEF Version
    <3> HIDE DEF v
    <3>3. RefOK(v) /\ (v.fin => Exists(v)) /\ (v.deleting => v.fin)
      BY <1>2, <3>2 DEF RefOK, Exists
    <3>4. Store(v)
      BY <2>1 DEF v
    <3> QED BY <1>1, <3>1, <3>2, <3>3, <3>4, Written
  <2>2. CASE Cluster.rootRef = "none" /\ Store([Cluster EXCEPT !.rootRef = r])
    <3> DEFINE v == [Cluster EXCEPT !.rootRef = r]
    <3>1. v \in Version
      BY <1>2, ControllerAssumption DEF Version, Refs
    <3>2. /\ v.fin = Cluster.fin /\ v.uid = Cluster.uid /\ v.deleting = Cluster.deleting
          /\ v.phase = Cluster.phase
      BY <1>2 DEF Version
    <3> HIDE DEF v
    <3>3. RefOK(v) /\ (v.fin => Exists(v)) /\ (v.deleting => v.fin)
      BY <1>2, <2>2, <3>2 DEF RefOK, Exists
    <3>4. Store(v)
      BY <2>2 DEF v
    <3> QED BY <1>1, <2>2, <3>1, <3>2, <3>3, <3>4, Written
  <2> QED BY <1>5, <2>1, <2>2 DEF UserEdit
<1>6. ASSUME NEW k \in Foreign, UserPrecreate(k) PROVE View(p)'
  BY <1>6, OutsideView DEF UserPrecreate, Outside, object
<1> QED BY <1>3, <1>4, <1>5, <1>6 DEF Users

LEMMA PlatformView == ASSUME NEW p, Alone(p), TypeInv, View(p), Platform \/ PodLost
                      PROVE  View(p)'
<1>1. UNCHANGED object /\ ctl' = ctl
  BY DEF Platform, PodLost, PodUp, PodRetire, TidbBecomesReady, GarbageCollect, Outside, object
<1> QED BY <1>1, OutsideView

LEMMA StartStores == ASSUME NEW c \in Controllers, Start(c) PROVE UNCHANGED object /\ UNCHANGED objects
  BY DEF Start, ReconcileGone, ReconcileUnfinalized, ReconcileDeleted, ReconcileNew,
     ReconcilePreparing, ReconcileInCreation, ReconcileServing, ReconcileError, Begin

\* Whatever writes the Cluster does so by Store.
LEMMA ObjectSteps == ASSUME Next
                     PROVE  \/ \E v : Store(v)
                            \/ UNCHANGED object
                            \/ \E c \in Controllers : Watch(c) \/ Crash(c)
<1>1. ASSUME NEW c \in Controllers, Start(c) PROVE UNCHANGED object
  BY <1>1, StartStores
<1>2. ASSUME NEW c \in Controllers, Step(c), ~Start(c) PROVE (\E v : Store(v)) \/ UNCHANGED object
  <2>1. CASE AddFinalizer(c) \/ SetPhase(c) \/ PersistRef(c) \/ RemoveFinalizer(c)
    BY <2>1 DEF AddFinalizer, SetPhase, PersistRef, RemoveFinalizer, Write
  <2>2. CASE CreateSecret(c) \/ ApplyDeployment(c) \/ ApplyService(c) \/ CreateTidb(c)
             \/ PostSql(c) \/ DeleteChild(c)
    BY <2>2 DEF CreateSecret, ApplyDeployment, ApplyService, CreateTidb, PostSql, DeleteChild,
       object
  <2>3. CASE GetTidb(c) \/ CheckReady(c) \/ GetSecret(c) \/ GetChild(c) \/ Publish(c)
    BY <2>3 DEF GetTidb, CheckReady, GetSecret, GetChild, Publish, Read
  <2> QED BY <1>2, <2>1, <2>2, <2>3 DEF Step
<1>3. CASE Users
  BY <1>3 DEF Users, UserCreate, UserEdit, UserDelete, UserPrecreate, object
<1>4. CASE Platform \/ PodLost
  BY <1>4 DEF Platform, PodLost, PodUp, PodRetire, TidbBecomesReady, GarbageCollect, object
<1> QED BY <1>1, <1>2, <1>3, <1>4 DEF Next

LEMMA StoreOnly == ASSUME Next
                   PROVE  (\E v : Store(v)) \/ UNCHANGED log
  BY ObjectSteps DEF object, Watch, Crash, Restart

\* With fresh lists the log holds the stored version only.
LEMMA LogView == ASSUME NEW p, Alone(p), Len(log) = 1, Next
                 PROVE  Len(log') = 1
<1>1. (\E v : Store(v)) \/ UNCHANGED log
  BY StoreOnly
<1>2. ASSUME NEW v, Store(v) PROVE log' = log \/ log' = <<v>>
  BY <1>2 DEF Store, Alone, object
<1>3. ASSUME NEW v PROVE Len(<<v>>) = 1
  OBVIOUS
<1> QED BY <1>1, <1>2, <1>3

-----------------------------------------------------------------------------
LEMMA InitView == ASSUME NEW p, Alone(p), Init PROVE IInv(p)
<1>1. TypeInv
  BY InitType
<1>2. Len(log) = 1
  BY DEF Init
<1>3. /\ feed[p] = <<Absent>> /\ Cluster = Absent /\ ctl[p] = Idle
  BY DEF Init, Cluster, Alone
<1>4. PICK G : feed[p] = G /\ Len(G) = 1 /\ DOMAIN G = 1..1 /\ G[1] = Absent
  BY <1>3
<1>5. ~Live(Absent) /\ ~Absent.fin /\ ~Absent.deleting /\ RefOK(Absent)
  BY DEF Live, Absent, RefOK, Started, Serving
<1>6. \A i \in DOMAIN G : i = 1
  BY <1>4
<1>7. FeedInv(feed[p])
  BY <1>3, <1>4, <1>5, <1>6 DEF FeedInv, FeedOrder, Held
<1>8. StepInv(ctl[p], feed[p])
  BY <1>3 DEF StepInv, Idle, CleanupSteps, ApplySteps
<1> QED BY <1>1, <1>2, <1>7, <1>8 DEF IInv, View

LEMMA NextView == ASSUME NEW p, Alone(p), IInv(p), [Next]_vars PROVE IInv(p)'
<1>1. TypeInv'
  BY NextType DEF IInv
<1>2. CASE UNCHANGED vars
  <2>1. UNCHANGED object /\ ctl' = ctl /\ log' = log
    BY <1>2 DEF vars, object
  <2> QED BY <1>1, <2>1, OutsideView DEF IInv
<1>3. CASE Next
  <2>1. Len(log') = 1
    BY <1>3, LogView DEF IInv
  <2>2. View(p)'
    <3>1. ASSUME NEW c \in Controllers, Step(c) \/ Watch(c) \/ Crash(c) PROVE View(p)'
      <4>1. c = p
        BY DEF Alone
      <4> QED BY <1>1, <3>1, <4>1, StepView, WatchView, CrashView DEF IInv
    <3>2. CASE Users
      BY <1>1, <3>2, UsersView DEF IInv
    <3>3. CASE Platform \/ PodLost
      BY <3>3, PlatformView DEF IInv
    <3> QED BY <1>3, <3>1, <3>2, <3>3 DEF Next
  <2> QED BY <1>1, <2>1, <2>2 DEF IInv
<1> QED BY <1>2, <1>3

\* Whatever requests are lost or unacknowledged, whenever the process dies,
\* and whatever the users do in between, no Cluster is in a phase after New
\* without a root Secret in its spec: for one controller process with fresh
\* lists, and any number of incarnations and faults.
THEOREM ReferenceBeforePhase == ASSUME NEW CONSTANT p, Controllers = {p}, StaleList = FALSE
                                PROVE  Spec => []RefBeforePhase
<1>1. Alone(p)
  BY DEF Alone
<1>2. Init => IInv(p)
  BY <1>1, InitView
<1>3. IInv(p) /\ [Next]_vars => IInv(p)'
  BY <1>1, NextView
<1>4. IInv(p) => RefBeforePhase
  BY <1>1, StoredOK DEF IInv, RefBeforePhase, RefOK
<1> QED BY <1>2, <1>3, <1>4, PTL DEF Spec

\* The view a reconcile works from is stale only in harmless ways.
THEOREM ViewsHold == ASSUME NEW CONSTANT p, Controllers = {p}, StaleList = FALSE
                     PROVE  Spec => []ViewInv
<1>1. Alone(p)
  BY DEF Alone
<1>2. Init => IInv(p)
  BY <1>1, InitView
<1>3. IInv(p) /\ [Next]_vars => IInv(p)'
  BY <1>1, NextView
<1>4. IInv(p) => ViewInv
  BY <1>1 DEF IInv, View, ViewInv, Alone
<1> QED BY <1>2, <1>3, <1>4, PTL DEF Spec

=============================================================================
