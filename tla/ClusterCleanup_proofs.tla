----------------------- MODULE ClusterCleanup_proofs -----------------------
(***************************************************************************)
(* OwnedInv, and what follows from it: cleanup leaves nothing behind that  *)
(* the Cluster owns, and takes nothing that somebody else made.  For one   *)
(* controller process with fresh lists.                                    *)
(***************************************************************************)
EXTENDS ClusterInvariants, ClusterController_proofs

LEMMA CleanupOrderFacts ==
  /\ Len(CleanupOrder) = 4
  /\ \A i \in 1..4 : CleanupOrder[i] \in Kinds
  /\ \A k \in Kinds : \E i \in 1..4 : CleanupOrder[i] = k
<1>1. /\ Len(CleanupOrder) = 4
      /\ CleanupOrder[1] = "deployment" /\ CleanupOrder[2] = "service"
      /\ CleanupOrder[3] = "secret" /\ CleanupOrder[4] = "tidb"
  BY DEF CleanupOrder
<1> QED BY <1>1 DEF Kinds

LEMMA ChildType == ASSUME TypeInv, NEW k \in Kinds PROVE child[k] \in Int
  BY DEF TypeInv, ChildrenOK

-----------------------------------------------------------------------------
(* The finalizer.                                                          *)

LEMMA Stored == ASSUME NEW p, Alone(p), NEW v, Store(v) PROVE Cluster' = v
<1>1. CASE v = Cluster
  BY <1>1 DEF Store, object, Cluster
<1>2. CASE v # Cluster
  <2>1. log' = <<v>>
    BY <1>2 DEF Store, Alone
  <2> QED BY <2>1 DEF Cluster
<1> QED BY <1>1, <1>2

\* Nobody but a controller that is done with the cleanup releases a Cluster.
LEMMA FinalizerStays == ASSUME NEW p, Alone(p), TypeInv, View(p), Next, Cluster.fin, ~RemoveFinalizer(p)
                        PROVE  Cluster'.fin /\ Cluster'.uid = Cluster.uid
<1> DEFINE Kept == Cluster'.fin /\ Cluster'.uid = Cluster.uid
<1>1. Cluster \in Version /\ Exists(Cluster)
  BY FeedType, StoredOK
<1>2. CASE UNCHANGED log
  BY <1>2 DEF Cluster
<1>3. ASSUME NEW v, Store(v), v.fin, v.uid = Cluster.uid PROVE Kept
  BY <1>3, Stored
<1>4. CASE SetPhase(p)
  <2>1. UNCHANGED log \/ Store([Cluster EXCEPT !.phase = ctl[p].goal])
    BY <1>4 DEF SetPhase, Write, object
  <2> QED BY <1>1, <1>2, <1>3, <2>1 DEF Version
<1>5. CASE PersistRef(p)
  <2>1. UNCHANGED log \/ Store([Cluster EXCEPT !.rootRef = "auto"])
    BY <1>5 DEF PersistRef, Write, object
  <2> QED BY <1>1, <1>2, <1>3, <2>1 DEF Version
<1>6. CASE AddFinalizer(p)
  <2>1. UNCHANGED log
    BY <1>6 DEF AddFinalizer, Write, object
  <2> QED BY <1>2, <2>1
<1>7. CASE Users
  <2>1. CASE UserDelete
    <3>1. Store([Cluster EXCEPT !.deleting = TRUE])
      BY <2>1 DEF UserDelete
    <3> QED BY <1>1, <1>3, <3>1 DEF Version
  <2>2. ASSUME NEW b \in Backends, NEW r \in RootRefs, UserEdit(b, r) PROVE Kept
    <3>1. Store([Cluster EXCEPT !.backend = b]) \/ Store([Cluster EXCEPT !.rootRef = r])
      BY <2>2 DEF UserEdit
    <3> QED BY <1>1, <1>3, <3>1 DEF Version
  <2>3. ASSUME NEW b \in Backends, NEW r \in RootRefs, UserCreate(b, r) PROVE FALSE
    BY <1>1, <2>3 DEF UserCreate
  <2>4. ASSUME NEW k \in Foreign, UserPrecreate(k) PROVE UNCHANGED log
    BY <2>4 DEF UserPrecreate
  <2> QED BY <1>2, <1>7, <2>1, <2>2, <2>3, <2>4 DEF Users
<1>8. CASE Start(p)
  BY <1>2, <1>8, StartStores DEF object, Alone
<1>9. ASSUME ~Start(p), ~AddFinalizer(p), ~SetPhase(p), ~PersistRef(p), NEW c \in Controllers,
             Step(c) \/ Watch(c) \/ Crash(c)
      PROVE  UNCHANGED log
  <2>1. c = p
    BY DEF Alone
  <2> QED BY <1>9, <2>1 DEF Step, CreateSecret, ApplyDeployment, ApplyService, CreateTidb, PostSql,
             DeleteChild, GetTidb, CheckReady, GetSecret, GetChild, Publish, Read, object,
             Watch, Crash, Restart
<1>10. CASE Platform \/ PodLost
  BY <1>2, <1>10 DEF Platform, PodLost, PodUp, PodRetire, TidbBecomesReady, GarbageCollect
<1> QED BY <1>2, <1>4, <1>5, <1>6, <1>7, <1>8, <1>9, <1>10 DEF Next

-----------------------------------------------------------------------------
(* What keeps the invariant.                                               *)

Sweep(p) == OwnedAlive /\ SweepOf(ctl[p])

\* A step at which nothing appears that is owned, and the process is not in
\* cleanup afterwards.
LEMMA FewerOwned == ASSUME OwnedAlive, Cluster.fin => Cluster'.fin /\ Cluster'.uid = Cluster.uid,
                           \A k \in Kinds : child'[k] > 0 => child'[k] = child[k]
                    PROVE  OwnedAlive'
  BY DEF OwnedAlive

LEMMA NoSweep == ASSUME NEW p, ctl'[p].pc \notin CleanupSteps
                 PROVE  SweepOf(ctl[p])'
<1>1. PICK r : r = ctl'[p]
  OBVIOUS
<1> QED BY <1>1 DEF SweepOf, Swept, CleanupSteps

LEMMA SweepStays == ASSUME NEW p, Alone(p), TypeInv, SweepOf(ctl[p]), ctl' = ctl,
                           Cluster.fin => Cluster'.fin,
                           \A k \in Kinds : \/ child'[k] = child[k]
                                            \/ child[k] = NoObject /\ child'[k] = Nobody
                    PROVE  SweepOf(ctl[p])'
<1>1. PICK r \in Record : r = ctl[p]
  BY FeedType
<1>2. r.kind \in 1..4
  BY CleanupOrderFacts DEF Record
<1> QED BY <1>1, <1>2, CleanupOrderFacts DEF SweepOf, Swept, NoObject, Nobody

-----------------------------------------------------------------------------
(* The requests of apply: what they create belongs to the stored Cluster.  *)

MovesOn(p) == \/ Requeue(p) \/ AwaitChange(p)
              \/ \E pc \in ApplySteps : Goto(p, pc)
              \/ \E g : GotoPhase(p, g)
              \/ \E w : ctl' = [ctl EXCEPT ![p].pc = "postSql", ![p].cred = w]

LEMMA MovesOnLeaves == ASSUME NEW p, Alone(p), TypeInv, MovesOn(p)
                       PROVE  ctl'[p].pc \notin CleanupSteps
<1>1. CASE Requeue(p) \/ AwaitChange(p)
  <2>1. ctl'[p] = Idle
    BY <1>1, FeedType DEF Requeue, AwaitChange, TypeInv, ProcessOK
  <2> QED BY <2>1 DEF Idle, CleanupSteps
<1>2. ASSUME NEW pc \in ApplySteps, Goto(p, pc) PROVE ctl'[p].pc \notin CleanupSteps
  <2>1. ctl'[p].pc = pc
    BY <1>2, FeedType DEF Goto, TypeInv, ProcessOK, Record
  <2> QED BY <2>1 DEF ApplySteps
<1>3. ASSUME NEW g, GotoPhase(p, g) PROVE ctl'[p].pc \notin CleanupSteps
  <2>1. ctl'[p].pc = "setPhase"
    BY <1>3, FeedType DEF GotoPhase, TypeInv, ProcessOK, Record
  <2> QED BY <2>1 DEF CleanupSteps
<1>4. ASSUME NEW w, ctl' = [ctl EXCEPT ![p].pc = "postSql", ![p].cred = w]
      PROVE  ctl'[p].pc \notin CleanupSteps
  <2>1. ctl'[p].pc = "postSql"
    BY <1>4, FeedType DEF TypeInv, ProcessOK, Record
  <2> QED BY <2>1 DEF CleanupSteps
<1> QED BY <1>1, <1>2, <1>3, <1>4 DEF MovesOn

Applies(p) == \/ CreateSecret(p) \/ CreateTidb(p) \/ GetTidb(p)
              \/ ApplyDeployment(p) \/ ApplyService(p)
              \/ CheckReady(p) \/ GetSecret(p) \/ PostSql(p)

LEMMA AppliesMovesOn == ASSUME NEW p, Applies(p) \/ SetPhase(p) \/ PersistRef(p) \/ AddFinalizer(p)
                        PROVE  MovesOn(p)
<1>1. {"persistRef", "getTidb", "applyService", "applyDeployment", "checkReady", "getSecret"}
        \subseteq ApplySteps
  BY DEF ApplySteps, CleanupSteps, Steps
<1>2. CASE CreateSecret(p) \/ CreateTidb(p) \/ GetTidb(p) \/ ApplyDeployment(p)
  BY <1>1, <1>2 DEF CreateSecret, CreateTidb, GetTidb, ApplyDeployment, Write, Read, MovesOn
<1>3. CASE ApplyService(p)
  BY <1>1, <1>3 DEF ApplyService, AfterApply, Write, MovesOn
<1>4. CASE CheckReady(p)
  <2>1. WhenReady(p) \/ WhenNotReady(p)
    BY <1>4 DEF CheckReady, Read
  <2> QED BY <1>1, <2>1 DEF WhenReady, WhenNotReady, MovesOn
<1>5. CASE GetSecret(p)
  BY <1>5 DEF GetSecret, Read, MovesOn
<1>6. CASE PostSql(p)
  BY <1>6 DEF PostSql, Write, MovesOn
<1>7. CASE SetPhase(p)
  BY <1>1, <1>7 DEF SetPhase, AfterPhase, Write, MovesOn
<1>8. CASE PersistRef(p) \/ AddFinalizer(p)
  BY <1>8 DEF PersistRef, AddFinalizer, Write, MovesOn
<1> QED BY <1>2, <1>3, <1>4, <1>5, <1>6, <1>7, <1>8 DEF Applies

\* What a request of apply does to the dependants.
LEMMA AppliesChild == ASSUME NEW p, Applies(p)
                      PROVE  /\ UNCHANGED object /\ ctl[p].pc \in ApplySteps
                             /\ \/ child' = child
                                \/ \E k \in Kinds : /\ child' = [child EXCEPT ![k] = Snap(p).uid]
                                                    /\ k \in {"deployment", "service"} \/ child[k] = NoObject
<1>1. UNCHANGED object
  BY DEF Applies, object, CreateSecret, CreateTidb, GetTidb, ApplyDeployment, ApplyService,
         CheckReady, GetSecret, PostSql, Read
<1>2. ctl[p].pc \in ApplySteps
  BY DEF Applies, CreateSecret, CreateTidb, GetTidb, ApplyDeployment, ApplyService,
         CheckReady, GetSecret, PostSql, ApplySteps, CleanupSteps, Steps
<1>3. Kinds = {"deployment", "service", "secret", "tidb"}
  BY DEF Kinds
<1>4. CASE CreateSecret(p) \/ CreateTidb(p) \/ ApplyDeployment(p) \/ ApplyService(p)
  BY <1>1, <1>2, <1>3, <1>4 DEF CreateSecret, CreateTidb, ApplyDeployment, ApplyService, Write
<1>5. CASE GetTidb(p) \/ CheckReady(p) \/ GetSecret(p) \/ PostSql(p)
  BY <1>1, <1>2, <1>5 DEF GetTidb, CheckReady, GetSecret, PostSql, Read, objects
<1> QED BY <1>4, <1>5 DEF Applies

LEMMA AppliesSweep == ASSUME NEW p, Alone(p), TypeInv, View(p), Sweep(p), Applies(p)
                      PROVE  Sweep(p)'
<1>1. Cluster' = Cluster
  BY AppliesChild, Same
<1>2. Cluster.uid = Snap(p).uid /\ Cluster.fin
  BY AppliesChild, SnapshotHolds
<1>3. OwnedAlive'
  BY <1>1, <1>2, AppliesChild DEF Sweep, OwnedAlive, TypeInv, ChildrenOK
<1>4. SweepOf(ctl[p])'
  BY AppliesMovesOn, MovesOnLeaves, NoSweep
<1> QED BY <1>3, <1>4 DEF Sweep

\* The writes of the Cluster that leave the dependants alone.
LEMMA WritesSweep == ASSUME NEW p, Alone(p), TypeInv, View(p), Sweep(p), Next,
                            SetPhase(p) \/ PersistRef(p) \/ AddFinalizer(p)
                     PROVE  Sweep(p)'
<1>1. ~RemoveFinalizer(p) /\ child' = child
  BY DEF SetPhase, PersistRef, AddFinalizer, RemoveFinalizer, objects
<1>2. OwnedAlive'
  BY <1>1, FinalizerStays, FewerOwned DEF Sweep
<1>3. SweepOf(ctl[p])'
  BY AppliesMovesOn, MovesOnLeaves, NoSweep
<1> QED BY <1>2, <1>3 DEF Sweep

-----------------------------------------------------------------------------
(* Cleanup.                                                                *)

LEMMA SweepStart == ASSUME NEW p, Alone(p), TypeInv, View(p), Sweep(p), Start(p)
                    PROVE  Sweep(p)'
<1>1. Cluster' = Cluster /\ child' = child
  BY StartStores, Same DEF objects, Alone
<1>2. OwnedAlive'
  BY <1>1 DEF Sweep, OwnedAlive
<1>3. CASE ReconcileGone(p)
  <2>1. ctl' = ctl
    BY <1>3 DEF ReconcileGone
  <2> QED BY <1>1, <1>2, <2>1, SweepStays DEF Sweep
<1>4. ASSUME NEW pc, NEW goal, pc \notin {"deleteChild", "publish", "removeFinalizer"}, Begin(p, pc, goal)
      PROVE  SweepOf(ctl[p])'
  <2>1. ctl'[p].pc = pc /\ ctl'[p].kind = 1
    BY <1>4, FeedType DEF Begin, TypeInv, ProcessOK, Idle
  <2>2. PICK r : r = ctl'[p] /\ r.pc = pc /\ r.kind = 1
    BY <2>1
  <2>3. \A i \in 1..4 : ~(i < 1)
    OBVIOUS
  <2> QED BY <1>4, <2>2, <2>3, CleanupOrderFacts DEF SweepOf, Swept
<1>5. CASE ~ReconcileGone(p)
  <2>1. PICK pc, goal : pc \notin {"deleteChild", "publish", "removeFinalizer"} /\ Begin(p, pc, goal)
    BY <1>5 DEF Start, ReconcileUnfinalized, ReconcileDeleted, ReconcileNew,
       ReconcilePreparing, ReconcileInCreation, ReconcileServing, ReconcileError
  <2> QED BY <1>2, <1>4, <2>1 DEF Sweep
<1> QED BY <1>3, <1>5

\* The cleanup of one kind of dependants is done.
LEMMA SweepsOn == ASSUME NEW p, Alone(p), TypeInv, Sweep(p), ctl[p].pc \in {"getChild", "deleteChild"},
                         NextChild(p), child'[Child(p)] <= 0,
                         \A k \in Kinds : child'[k] = child[k] \/ child'[k] = NoObject
                  PROVE  SweepOf(ctl[p])'
<1>1. PICK r \in Record : r = ctl[p] /\ r.kind \in 1..4
  BY FeedType, CleanupOrderFacts DEF Record
<1>2. PICK q : /\ q = ctl'[p]
               /\ \/ r.kind < 4 /\ q.pc = "getChild" /\ q.kind = r.kind + 1
                  \/ r.kind = 4 /\ q.pc = "publish"
  BY <1>1, CleanupOrderFacts, FeedType DEF NextChild, TypeInv, ProcessOK, Record
<1>3. \A i \in 1..4 : i < r.kind => child'[CleanupOrder[i]] <= 0
  BY <1>1, CleanupOrderFacts DEF Sweep, SweepOf, Swept, NoObject
<1>4. child'[CleanupOrder[r.kind]] <= 0
  BY <1>1 DEF Child
<1>5. \A i \in 1..4 : i < r.kind + 1 => i < r.kind \/ i = r.kind
  BY <1>1
<1> QED BY <1>1, <1>2, <1>3, <1>4, <1>5, CleanupOrderFacts DEF SweepOf, Swept

LEMMA GetChildSweep == ASSUME NEW p, Alone(p), TypeInv, View(p), Sweep(p), GetChild(p)
                       PROVE  Sweep(p)'
<1>1. Cluster' = Cluster /\ child' = child
  BY Same DEF GetChild, Read, objects
<1>2. OwnedAlive'
  BY <1>1 DEF Sweep, OwnedAlive
<1>3. Child(p) \in Kinds /\ child[Child(p)] \in Int
  BY FeedType, CleanupOrderFacts, ChildType DEF Child, Record
<1>4. Snap(p).uid \in Nat
  BY FeedType DEF Version
<1>5. SweepOf(ctl[p])'
  <2>1. \/ Requeue(p)
        \/ child[Child(p)] # NoObject /\ Owned(p, Child(p)) /\ Goto(p, "deleteChild")
        \/ ~(child[Child(p)] # NoObject /\ Owned(p, Child(p))) /\ NextChild(p)
    BY DEF GetChild, Read
  <2>2. CASE Requeue(p)
    BY <2>2, MovesOnLeaves, NoSweep DEF MovesOn
  <2>3. CASE child[Child(p)] # NoObject /\ Owned(p, Child(p)) /\ Goto(p, "deleteChild")
    <3>1. child[Child(p)] > 0
      BY <1>3, <1>4, <2>3 DEF Owned, NoObject
    <3>2. Cluster.fin
      BY <1>3, <3>1 DEF Sweep, OwnedAlive
    <3>3. PICK r \in Record : r = ctl[p] /\ r.pc = "getChild"
      BY FeedType DEF GetChild
    <3>4. PICK q : q = ctl'[p] /\ q.pc = "deleteChild" /\ q.kind = r.kind
      <4>1. ctl'[p].pc = "deleteChild" /\ ctl'[p].kind = ctl[p].kind
        BY <2>3, FeedType DEF Goto, TypeInv, ProcessOK, Record
      <4> QED BY <3>3, <4>1
    <3>5. /\ \A i \in 1..Len(CleanupOrder) : i < r.kind => child[CleanupOrder[i]] <= 0
          /\ Cluster.fin /\ child[CleanupOrder[r.kind]] > 0
      BY <3>1, <3>2, <3>3 DEF Sweep, SweepOf, Swept, Child
    <3> QED BY <1>1, <3>4, <3>5 DEF SweepOf, Swept
  <2>4. CASE ~(child[Child(p)] # NoObject /\ Owned(p, Child(p))) /\ NextChild(p)
    <3>1. child'[Child(p)] <= 0
      BY <1>1, <1>3, <2>4 DEF Owned, NoObject
    <3> QED BY <1>1, <2>4, <3>1, SweepsOn DEF GetChild
  <2> QED BY <2>1, <2>2, <2>3, <2>4
<1> QED BY <1>2, <1>5 DEF Sweep

LEMMA DeleteChildSweep == ASSUME NEW p, Alone(p), TypeInv, View(p), Sweep(p), DeleteChild(p)
                          PROVE  Sweep(p)'
<1>1. Cluster' = Cluster
  BY DEF DeleteChild, Cluster
<1>2. Child(p) \in Kinds
  BY FeedType, CleanupOrderFacts DEF Child, Record
<1>3. RemoveChild(Child(p)) \/ (child' = child /\ Requeue(p))
  BY DEF DeleteChild, Write, objects
<1>4. /\ \A k \in Kinds : child'[k] = child[k] \/ child'[k] = NoObject
      /\ RemoveChild(Child(p)) => child'[Child(p)] <= 0
  <2>1. child \in [Kinds -> Int] /\ (RemoveChild(Child(p)) => child' = [child EXCEPT ![Child(p)] = 0])
    BY DEF RemoveChild, TypeInv, ChildrenOK, NoObject
  <2> QED BY <1>2, <1>3, <2>1 DEF NoObject
<1>5. OwnedAlive'
  BY <1>1, <1>4, FewerOwned DEF Sweep, NoObject
<1>6. Requeue(p) \/ (RemoveChild(Child(p)) /\ NextChild(p))
  BY DEF DeleteChild, Write
<1>7. SweepOf(ctl[p])'
  <2>1. CASE Requeue(p)
    BY <2>1, MovesOnLeaves, NoSweep DEF MovesOn
  <2>2. CASE RemoveChild(Child(p)) /\ NextChild(p)
    BY <1>4, <2>2, SweepsOn DEF DeleteChild
  <2> QED BY <1>6, <2>1, <2>2
<1> QED BY <1>5, <1>7 DEF Sweep

LEMMA PublishSweep == ASSUME NEW p, Alone(p), TypeInv, Sweep(p), Publish(p)
                      PROVE  Sweep(p)'
<1>1. Cluster' = Cluster /\ child' = child
  BY Same DEF Publish, Read, objects
<1>2. OwnedAlive'
  BY <1>1 DEF Sweep, OwnedAlive
<1>3. Requeue(p) \/ Goto(p, "removeFinalizer")
  BY DEF Publish, Read
<1>4. CASE Requeue(p)
  BY <1>2, <1>4, MovesOnLeaves, NoSweep DEF Sweep, MovesOn
<1>5. CASE Goto(p, "removeFinalizer")
  <2>1. PICK q : q = ctl'[p] /\ q.pc = "removeFinalizer"
    BY <1>5, FeedType DEF Goto, TypeInv, ProcessOK, Record
  <2>2. PICK r : r = ctl[p] /\ r.pc = "publish"
    BY DEF Publish
  <2> QED BY <1>1, <1>2, <2>1, <2>2 DEF Sweep, SweepOf, Swept
<1> QED BY <1>3, <1>4, <1>5

\* Cleanup is through when the finalizer goes.
LEMMA AllSwept == ASSUME NEW p, Alone(p), TypeInv, Sweep(p), RemoveFinalizer(p), NEW k \in Kinds
                  PROVE  child[k] <= 0
<1>1. PICK r : r = ctl[p] /\ r.pc = "removeFinalizer"
  BY DEF RemoveFinalizer
<1>2. \A i \in 1..4 : child[CleanupOrder[i]] <= 0
  BY <1>1, CleanupOrderFacts DEF Sweep, SweepOf, Swept
<1> QED BY <1>2, CleanupOrderFacts

LEMMA RemoveFinalizerSweep == ASSUME NEW p, Alone(p), TypeInv, View(p), Sweep(p), RemoveFinalizer(p)
                              PROVE  Sweep(p)'
<1>1. child' = child
  BY DEF RemoveFinalizer, objects
<1>2. OwnedAlive'
  <2>1. \A k \in Kinds : ~(child'[k] > 0)
    BY <1>1, AllSwept, ChildType
  <2> QED BY <2>1 DEF OwnedAlive
<1>3. Requeue(p) \/ AwaitChange(p)
  BY DEF RemoveFinalizer, Write
<1> QED BY <1>2, <1>3, MovesOnLeaves, NoSweep DEF Sweep, MovesOn

LEMMA StepSweep == ASSUME NEW p, Alone(p), TypeInv, View(p), Sweep(p), Next, Step(p)
                   PROVE  Sweep(p)'
  BY SweepStart, WritesSweep, AppliesSweep, GetChildSweep, DeleteChildSweep, PublishSweep,
     RemoveFinalizerSweep DEF Step, Applies

-----------------------------------------------------------------------------
(* The users, the platform and the runtime.                                *)

LEMMA OthersSweep == ASSUME NEW p, Alone(p), TypeInv, View(p), Sweep(p), Next,
                            Users \/ Platform \/ PodLost \/ Watch(p)
                     PROVE  Sweep(p)'
<1>1. ctl' = ctl /\ ~RemoveFinalizer(p)
  <2>1. ctl' = ctl
    BY DEF Users, UserCreate, UserEdit, UserDelete, UserPrecreate, Platform, PodLost, PodUp,
       PodRetire, TidbBecomesReady, GarbageCollect, Outside, Watch
  <2>2. RemoveFinalizer(p) => ctl'[p].pc = "idle" /\ ctl[p].pc = "removeFinalizer"
    BY FeedType DEF RemoveFinalizer, Write, Requeue, AwaitChange, TypeInv, ProcessOK, Idle
  <2> QED BY <2>1, <2>2
<1>2. Cluster.fin => Cluster'.fin /\ Cluster'.uid = Cluster.uid
  BY <1>1, FinalizerStays
<1>3. \A k \in Kinds : \/ child'[k] = child[k]
                       \/ child[k] = NoObject /\ child'[k] = Nobody
  <2>1. CASE Users
    <3>1. child' = child \/ \E k \in Foreign : UserPrecreate(k)
      BY <2>1 DEF Users, UserCreate, UserEdit, UserDelete, objects
    <3>2. ASSUME NEW k \in Foreign, UserPrecreate(k)
          PROVE  child' = [child EXCEPT ![k] = Nobody] /\ child[k] = NoObject
      BY <3>2 DEF UserPrecreate
    <3> QED BY <3>1, <3>2 DEF TypeInv, ChildrenOK
  <2>2. CASE Platform \/ PodLost \/ Watch(p)
    <3>1. child' = child \/ \E k \in Kinds : GarbageCollect(k)
      BY <2>2 DEF Platform, PodLost, PodUp, PodRetire, TidbBecomesReady, Watch, objects
    <3> QED BY <3>1 DEF GarbageCollect, Sweep, OwnedAlive
  <2> QED BY <2>1, <2>2
<1>4. OwnedAlive'
  BY <1>2, <1>3, FewerOwned DEF Sweep, NoObject, Nobody
<1>5. SweepOf(ctl[p])'
  BY <1>1, <1>2, <1>3, SweepStays DEF Sweep
<1> QED BY <1>4, <1>5 DEF Sweep

LEMMA CrashSweep == ASSUME NEW p, Alone(p), TypeInv, Sweep(p), Crash(p)
                    PROVE  Sweep(p)'
<1>1. Cluster' = Cluster /\ child' = child /\ ctl'[p].pc = "idle"
  <2>1. ctl'[p] = Idle
    BY FeedType DEF Crash, Restart, TypeInv, ProcessOK
  <2> QED BY <2>1 DEF Crash, Restart, Cluster, objects, Idle
<1>2. SweepOf(ctl[p])'
  BY <1>1, NoSweep DEF CleanupSteps
<1> QED BY <1>1, <1>2 DEF Sweep, OwnedAlive

-----------------------------------------------------------------------------
CInv(p) == IInv(p) /\ Sweep(p)

LEMMA InitSweep == ASSUME NEW p, Alone(p), Init PROVE CInv(p)
<1>1. \A k \in Kinds : ~(child[k] > 0)
  BY DEF Init, NoObject
<1>2. ctl[p].pc = "idle"
  BY DEF Init, Idle, Alone
<1>3. SweepOf(ctl[p])
  BY <1>2 DEF SweepOf, Swept
<1> QED BY <1>1, <1>3, InitView DEF CInv, Sweep, OwnedAlive

LEMMA NextSweep == ASSUME NEW p, Alone(p), CInv(p), [Next]_vars PROVE CInv(p)'
<1>1. IInv(p)' /\ TypeInv /\ View(p) /\ Len(log) = 1
  BY NextView DEF CInv, IInv
<1>2. CASE UNCHANGED vars
  <2>1. Cluster' = Cluster /\ child' = child /\ ctl' = ctl
    BY <1>2 DEF vars, Cluster
  <2> QED BY <1>1, <2>1, SweepStays DEF CInv, Sweep, OwnedAlive
<1>3. CASE Next
  <2>1. ASSUME NEW c \in Controllers, Step(c) \/ Watch(c) \/ Crash(c) PROVE Sweep(p)'
    <3>1. c = p
      BY DEF Alone
    <3> QED BY <1>1, <1>3, <2>1, <3>1, StepSweep, OthersSweep, CrashSweep DEF CInv
  <2>2. CASE Users \/ Platform \/ PodLost
    BY <1>1, <1>3, <2>2, OthersSweep DEF CInv
  <2> QED BY <1>1, <1>3, <2>1, <2>2 DEF CInv, Next
<1> QED BY <1>2, <1>3

LEMMA SweepHolds == ASSUME NEW CONSTANT p, Alone(p) PROVE Spec => []CInv(p)
<1>1. Init => CInv(p)
  BY InitSweep
<1>2. CInv(p) /\ [Next]_vars => CInv(p)'
  BY NextSweep
<1> QED BY <1>1, <1>2, PTL DEF Spec

\* What the controller owns belongs to the Cluster that is stored, under its
\* finalizer, and cleanup misses nothing and takes nothing of others.
THEOREM DependantsOwned == ASSUME NEW CONSTANT p, Controllers = {p}, StaleList = FALSE
                           PROVE  Spec => []OwnedInv
<1>1. CInv(p) => OwnedInv
  BY DEF CInv, Sweep, OwnedInv
<1> QED BY <1>1, SweepHolds, PTL DEF Alone

\* However often cleanup is interrupted and run again, and whatever fails: when
\* the finalizer goes, nothing that the Cluster owns is left.
THEOREM NothingLeftBehind == ASSUME NEW CONSTANT p, Controllers = {p}, StaleList = FALSE
                             PROVE  Spec => NothingOrphaned
<1> DEFINE A == Cluster.fin /\ ~Cluster'.fin => \A k \in Kinds : child[k] <= 0
<1>1. ASSUME CInv(p), [Next]_vars PROVE [A]_vars
  <2>1. CASE Next
    <3>1. CASE RemoveFinalizer(p)
      BY <1>1, <3>1, AllSwept DEF CInv, IInv, Alone
    <3>2. CASE ~RemoveFinalizer(p)
      BY <1>1, <2>1, <3>2, FinalizerStays DEF CInv, IInv, Alone
    <3> QED BY <3>1, <3>2
  <2> QED BY <1>1, <2>1
<1>2. Spec => []CInv(p)
  BY SweepHolds DEF Alone
<1>3. Spec => [][A]_vars
  BY <1>1, <1>2, PTL DEF Spec
<1> QED BY <1>3 DEF NothingOrphaned

\* Cleanup deletes by name, but what is somebody else's stays, and what was so and
\* is not any more is a Deployment or a Service that the stored Cluster took over.
THEOREM ForeignObjectsStay == ASSUME NEW CONSTANT p, Controllers = {p}, StaleList = FALSE
                              PROVE  Spec => ForeignKept
<1> DEFINE Kept(k) == \/ child'[k] = Nobody
                      \/ k \in {"deployment", "service"} /\ child'[k] = Cluster.uid /\ Cluster.fin
           A == \A k \in Kinds : child[k] = Nobody => Kept(k)
<1>1. ASSUME CInv(p), Next, NEW k \in Kinds, child[k] = Nobody PROVE Kept(k)
  <2>1. TypeInv /\ View(p) /\ Sweep(p) /\ child \in [Kinds -> Int] /\ Nobody # NoObject
    BY <1>1 DEF CInv, IInv, TypeInv, ChildrenOK, Nobody, NoObject
  <2>2. ASSUME NEW q \in Kinds, RemoveChild(q), child[q] # Nobody PROVE child'[k] = Nobody
    BY <1>1, <2>1, <2>2 DEF RemoveChild
  <2>3. CASE child' = child
    BY <1>1, <2>1, <2>3
  <2>4. CASE Applies(p)
    <3>1. Snap(p).uid = Cluster.uid /\ Cluster.fin
      BY <2>1, <2>4, AppliesChild, SnapshotHolds DEF Alone
    <3>2. ASSUME NEW q \in Kinds, child' = [child EXCEPT ![q] = Snap(p).uid],
                 q \in {"deployment", "service"} \/ child[q] = NoObject
          PROVE  Kept(k)
      <4>1. CASE q = k
        <5>1. child'[k] = Cluster.uid /\ k \in {"deployment", "service"}
          BY <1>1, <2>1, <3>1, <3>2, <4>1
        <5> QED BY <3>1, <5>1
      <4>2. CASE q # k
        <5>1. child'[k] = Nobody
          BY <1>1, <2>1, <3>2, <4>2
        <5> QED BY <5>1
      <4> QED BY <4>1, <4>2
    <3> QED BY <2>3, <2>4, <3>2, AppliesChild
  <2>5. CASE DeleteChild(p)
    <3>1. PICK r : r = ctl[p] /\ r.pc = "deleteChild"
      BY <2>5 DEF DeleteChild
    <3>2. Child(p) \in Kinds /\ child[Child(p)] > 0
      BY <2>1, <3>1, FeedType, CleanupOrderFacts DEF Child, Record, Sweep, SweepOf, Alone
    <3>3. child[Child(p)] # Nobody
      BY <3>2 DEF Nobody
    <3> QED BY <2>2, <2>3, <2>5, <3>2, <3>3 DEF DeleteChild, Write, objects
  <2>6. CASE Users
    <3>1. child' = child \/ \E q \in Foreign : child' = [child EXCEPT ![q] = Nobody]
      BY <2>6 DEF Users, UserCreate, UserEdit, UserDelete, UserPrecreate, objects
    <3> QED BY <1>1, <2>1, <3>1
  <2>7. CASE Platform \/ PodLost
    <3>1. child' = child \/ \E q \in Kinds : RemoveChild(q) /\ child[q] > 0
      BY <2>7 DEF Platform, PodLost, PodUp, PodRetire, TidbBecomesReady, GarbageCollect
    <3> QED BY <2>1, <2>2, <2>3, <3>1 DEF Nobody
  <2>8. ASSUME NEW c \in Controllers, Step(c) \/ Watch(c) \/ Crash(c), ~Applies(p), ~DeleteChild(p)
        PROVE  child' = child
    <3>1. c = p
      BY DEF Alone
    <3>2. CASE Start(p)
      BY <3>1, <3>2, StartStores DEF objects
    <3> QED BY <2>8, <3>1, <3>2 DEF Step, Applies, AddFinalizer, SetPhase, PersistRef, GetChild,
               Publish, Read, RemoveFinalizer, Watch, Crash, Restart, objects
  <2> QED BY <1>1, <2>3, <2>4, <2>5, <2>6, <2>7, <2>8 DEF Next
<1>2. ASSUME CInv(p), [Next]_vars PROVE [A]_vars
  BY <1>1, <1>2
<1>3. Spec => []CInv(p)
  BY SweepHolds DEF Alone
<1>4. Spec => [][A]_vars
  BY <1>2, <1>3, PTL DEF Spec
<1> QED BY <1>4 DEF ForeignKept

=============================================================================
