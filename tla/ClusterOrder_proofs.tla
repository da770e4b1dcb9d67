------------------------ MODULE ClusterOrder_proofs ------------------------
(***************************************************************************)
(* OrderInv, and what follows from it: the reference to the root Secret    *)
(* settles, and phases never fall back.  For one controller process with   *)
(* fresh lists, and all values of the other constants.                     *)
(***************************************************************************)
EXTENDS ClusterInvariants, ClusterController_proofs

Order(p) == OrderOf(ctl[p], feed[p])

-----------------------------------------------------------------------------
(* Versions.                                                               *)

LEMMA FollowsItself == ASSUME NEW v \in Version, RefOK(v)
                       PROVE  Follows(v, v)
<1>1. v.phase \in Phases
  BY DEF Version
<1>2. MayBecome(v, v.phase)
  BY <1>1 DEF Phases, MayBecome, Serving
<1> QED BY <1>2 DEF Follows, RefOK

\* The finalizer and the deletion mark do not matter.
LEMMA FollowsAlike == ASSUME NEW x, NEW w, NEW v, Follows(x, w),
                             v.uid = w.uid, v.backend = w.backend,
                             v.rootRef = w.rootRef, v.phase = w.phase
                      PROVE  Follows(x, v)
  BY DEF Follows

LEMMA FollowsOther == ASSUME NEW x, NEW v, v.uid # x.uid \/ v.uid = 0
                      PROVE  Follows(x, v)
  BY DEF Follows, Exists

\* What a reconcile of s decides to write is in order after every version that
\* has come since.
LEMMA GoalFollows == ASSUME NEW s \in Version, NEW x \in Version, NEW g, MayWrite(s, g),
                            MayBecome(s, x.phase), s.backend # "none" => x.backend = s.backend
                     PROVE  MayBecome(x, g)
  BY DEF MayWrite, MayBecome, AfterNew, UsesTidb, Serving

-----------------------------------------------------------------------------
(* Steps that leave the object alone, and writes of it.                    *)

\* A snapshot that the rest of the view follows.
Behind(p, x) == Backed(x) /\ \A i \in DOMAIN feed[p] : Follows(x, feed[p][i])

LEMMA StoredInOrder == ASSUME NEW p, Alone(p), TypeInv, View(p), Order(p)
                       PROVE  /\ Cluster.uid <= lastUid /\ Backed(Cluster)
                              /\ \A i \in DOMAIN feed[p] : Follows(feed[p][i], Cluster)
                              /\ \A x : Behind(p, x) => Follows(x, Cluster)
<1>1. /\ Len(feed[p]) \in DOMAIN feed[p] /\ feed[p][Len(feed[p])] = Cluster
      /\ \A i \in DOMAIN feed[p] : i <= Len(feed[p])
  BY FeedType, StoredOK
<1> QED BY <1>1 DEF Order, OrderOf, Behind

LEMMA StillOrder == ASSUME NEW p, Alone(p), TypeInv, Order(p), UNCHANGED object, UNCHANGED lastUid,
                           ctl'[p].pc \in ApplySteps => Behind(p, ctl'[p].snap),
                           StepOrder(ctl'[p])
                    PROVE  Order(p)'
<1>1. Cluster' = Cluster /\ feed' = feed
  BY Same
<1>2. PICK r : r = ctl'[p]
  OBVIOUS
<1>3. OrderOf(r, feed[p])'
  BY <1>1, <1>2 DEF Order, OrderOf, StepOrder, Behind
<1> QED BY <1>2, <1>3 DEF Order, OrderOf, StepOrder

\* A new version has to follow everything in view.
LEMMA WrittenOrder == ASSUME NEW p, Alone(p), TypeInv, View(p), Order(p), NEW v \in Version, Store(v),
                             lastUid \in Nat, lastUid' \in Nat, lastUid <= lastUid', v.uid <= lastUid',
                             Backed(v), RefOK(v),
                             \A i \in DOMAIN feed[p] : Follows(feed[p][i], v),
                             ctl'[p].pc \in ApplySteps =>
                               Behind(p, ctl'[p].snap) /\ Follows(ctl'[p].snap, v),
                             StepOrder(ctl[p])'
                      PROVE  Order(p)'
<1> DEFINE F == feed[p]
           n == Len(feed[p])
<1>1. PICK r : r = ctl'[p]
  OBVIOUS
<1>2. PICK G : /\ feed'[p] = G /\ DOMAIN F = 1..n /\ n \in Nat \ {0}
               /\ \/ G = F
                  \/ /\ DOMAIN G = 1..(n + 1) /\ G[n + 1] = v
                     /\ \A i \in 1..n : G[i] = F[i]
  <2>1. CASE v = Cluster
    <3>1. feed' = feed
      BY <2>1, Same DEF Store
    <3> QED BY <3>1, FeedType
  <2>2. CASE v # Cluster
    BY <2>2, StoreFeed, FeedType
  <2> QED BY <2>1, <2>2
<1>3. /\ \A i \in 1..n : F[i].uid <= lastUid /\ Backed(F[i]) /\ Follows(F[i], v)
      /\ \A i \in 1..n : F[i].uid \in Nat
      /\ \A i, j \in 1..n : i <= j => Follows(F[i], F[j])
      /\ r.pc \in ApplySteps =>
           Backed(r.snap) /\ Follows(r.snap, v) /\ \A i \in 1..n : Follows(r.snap, F[i])
  <2>1. \A i \in DOMAIN F : F[i].uid \in Nat
    BY FeedType DEF Version
  <2> QED BY <1>1, <1>2, <2>1 DEF Order, OrderOf, Behind
<1>4. v.uid \in Nat /\ Follows(v, v)
  BY FollowsItself DEF Version
<1> HIDE DEF F, n
<1>5. CASE G = F
  <2>1. \A i \in 1..n : G[i].uid <= lastUid'
    BY <1>2, <1>3, <1>5
  <2> QED BY <1>1, <1>2, <1>3, <1>5, <2>1 DEF Order, OrderOf
<1>6. CASE /\ DOMAIN G = 1..(n + 1) /\ G[n + 1] = v
           /\ \A i \in 1..n : G[i] = F[i]
  <2>1. \A i \in 1..(n + 1) : i \in 1..n \/ i = n + 1
    BY <1>2
  <2>2. \A i \in 1..(n + 1) : G[i].uid <= lastUid' /\ Backed(G[i])
    BY <1>3, <1>4, <1>6, <2>1
  <2>3. \A i, j \in 1..(n + 1) : i <= j => Follows(G[i], G[j])
    <3> SUFFICES ASSUME NEW i \in 1..(n + 1), NEW j \in 1..(n + 1), i <= j
                 PROVE  Follows(G[i], G[j])
      OBVIOUS
    <3>1. CASE j \in 1..n
      BY <1>2, <1>3, <1>6, <3>1
    <3>2. CASE j = n + 1
      BY <1>3, <1>4, <1>6, <2>1, <3>2
    <3> QED BY <2>1, <3>1, <3>2
  <2>4. r.pc \in ApplySteps => Backed(r.snap) /\ \A i \in 1..(n + 1) : Follows(r.snap, G[i])
    BY <1>3, <1>6, <2>1
  <2> QED BY <1>1, <1>2, <1>6, <2>2, <2>3, <2>4 DEF Order, OrderOf
<1> QED BY <1>2, <1>5, <1>6

\* How the process moves on.
LEMMA RetireOrder == ASSUME NEW p, Alone(p), TypeInv, Order(p), UNCHANGED object, UNCHANGED lastUid,
                            Requeue(p) \/ AwaitChange(p)
                     PROVE  Order(p)'
<1>1. ctl'[p] = Idle
  BY FeedType DEF Requeue, AwaitChange, TypeInv, ProcessOK
<1>2. ctl'[p].pc \notin ApplySteps /\ StepOrder(ctl'[p])
  BY <1>1 DEF StepOrder, Idle, CleanupSteps, ApplySteps
<1> QED BY <1>2, StillOrder

LEMMA AdvanceOrder == ASSUME NEW p, Alone(p), TypeInv, Order(p), UNCHANGED object, UNCHANGED lastUid,
                             ctl[p].pc \in ApplySteps, ctl'[p].snap = ctl[p].snap,
                             StepOrder(ctl'[p])
                      PROVE  Order(p)'
<1>1. Behind(p, ctl'[p].snap)
  BY DEF Order, OrderOf, Behind
<1> QED BY <1>1, StillOrder

LEMMA GotoRecord == ASSUME NEW p, Alone(p), TypeInv, NEW pc, Goto(p, pc)
                    PROVE  ctl'[p].pc = pc /\ ctl'[p].snap = ctl[p].snap /\ ctl'[p].goal = ctl[p].goal
  BY FeedType DEF Goto, TypeInv, ProcessOK, Record

LEMMA GotoPhaseRecord == ASSUME NEW p, Alone(p), TypeInv, NEW g, GotoPhase(p, g)
                         PROVE  /\ ctl'[p].pc = "setPhase" /\ ctl'[p].snap = ctl[p].snap
                                /\ ctl'[p].goal = g
  BY FeedType DEF GotoPhase, TypeInv, ProcessOK, Record

-----------------------------------------------------------------------------
(* The start of a reconcile.                                               *)

LEMMA BeginOrder == ASSUME NEW p, Alone(p), TypeInv, View(p), Order(p), NEW pc \in Steps, NEW goal \in Phases,
                           Begin(p, pc, goal), NEW r, r = ctl'[p],
                           r.pc = pc /\ r.snap = Cached(p) /\ r.goal = goal => StepOrder(r)
                    PROVE  Order(p)'
<1>1. /\ UNCHANGED object /\ UNCHANGED lastUid
      /\ r.pc = pc /\ r.snap = Cached(p) /\ r.goal = goal
  BY BeginView, FeedType DEF Begin
<1>2. Behind(p, Cached(p))
  <2>1. 1 \in DOMAIN feed[p] /\ Cached(p) = feed[p][1] /\ \A i \in DOMAIN feed[p] : 1 <= i
    BY FeedType
  <2> QED BY <2>1 DEF Behind, Order, OrderOf
<1> QED BY <1>1, <1>2, StillOrder

LEMMA StartOrder == ASSUME NEW p, Alone(p), TypeInv, View(p), Order(p), Start(p)
                    PROVE  Order(p)'
<1> DEFINE s == Cached(p)
<1>1. /\ {"addFinalizer", "getChild", "createSecret", "setPhase", "createTidb", "getTidb",
          "checkReady", "applyDeployment"} \subseteq Steps
      /\ {"New", "Error", "Preparing", "InCreation"} \subseteq Phases
  BY DEF Steps, Phases
<1>2. PICK r : r = ctl'[p]
  OBVIOUS
<1>3. CASE ReconcileGone(p)
  <2>1. UNCHANGED object /\ UNCHANGED lastUid /\ ctl' = ctl
    BY <1>3 DEF ReconcileGone
  <2>2. StepOrder(ctl[p]) /\ (ctl[p].pc \in ApplySteps => Behind(p, ctl[p].snap))
    BY DEF Order, OrderOf, Behind
  <2> QED BY <2>1, <2>2, StillOrder
<1>4. ASSUME NEW pc \in {"addFinalizer", "getChild", "applyDeployment"}, Begin(p, pc, "New")
      PROVE  Order(p)'
  BY <1>1, <1>2, <1>4, BeginOrder DEF StepOrder
<1>5. CASE ReconcileNew(p)
  <2>1. s.phase = "New"
    BY <1>5 DEF ReconcileNew
  <2>2. CASE Begin(p, "setPhase", "Error")
    <3>1. ASSUME r.pc = "setPhase", r.snap = s, r.goal = "Error" PROVE StepOrder(r)
      BY <2>1, <3>1 DEF StepOrder, MayWrite, Started, Serving
    <3> QED BY <1>1, <1>2, <2>2, <3>1, BeginOrder
  <2>3. CASE s.backend # "none" /\ s.rootRef = "none" /\ Begin(p, "createSecret", "New")
    <3>1. ASSUME r.pc = "createSecret", r.snap = s, r.goal = "New" PROVE StepOrder(r)
      BY <2>1, <2>3, <3>1 DEF StepOrder
    <3> QED BY <1>1, <1>2, <2>3, <3>1, BeginOrder
  <2>4. CASE s.backend # "none" /\ s.rootRef # "none" /\ Begin(p, "setPhase", AfterNew(s))
    <3>1. AfterNew(s) \in {"Preparing", "InCreation"}
      BY DEF AfterNew
    <3>2. ASSUME r.pc = "setPhase", r.snap = s, r.goal = AfterNew(s) PROVE StepOrder(r)
      BY <2>1, <2>4, <3>1, <3>2 DEF StepOrder, MayWrite, Serving
    <3> QED BY <1>1, <1>2, <2>4, <3>1, <3>2, BeginOrder
  <2> QED BY <1>5, <2>2, <2>3, <2>4 DEF ReconcileNew
<1>6. CASE ReconcilePreparing(p)
  <2>1. s.phase = "Preparing" /\ (Begin(p, "createTidb", "New") \/ Begin(p, "getTidb", "New"))
    BY <1>6 DEF ReconcilePreparing
  <2>2. ASSUME NEW pc \in {"createTidb", "getTidb"}, r.pc = pc, r.snap = s PROVE StepOrder(r)
    BY <2>1, <2>2 DEF StepOrder
  <2> QED BY <1>1, <1>2, <2>1, <2>2, BeginOrder
<1>7. CASE ReconcileInCreation(p)
  <2>1. s.phase = "InCreation" /\ Begin(p, "checkReady", "New")
    BY <1>7 DEF ReconcileInCreation
  <2>2. ASSUME r.pc = "checkReady", r.snap = s PROVE StepOrder(r)
    BY <2>1, <2>2 DEF StepOrder
  <2> QED BY <1>1, <1>2, <2>1, <2>2, BeginOrder
<1> QED BY <1>3, <1>4, <1>5, <1>6, <1>7
        DEF Start, ReconcileUnfinalized, ReconcileDeleted, ReconcileServing, ReconcileError

-----------------------------------------------------------------------------
(* Requests that leave the object alone.                                   *)

LEMMA ApplyOrder == ASSUME NEW p, Alone(p), TypeInv, View(p), Order(p),
                           \/ CreateSecret(p) \/ CreateTidb(p) \/ GetTidb(p)
                           \/ ApplyDeployment(p) \/ ApplyService(p)
                           \/ CheckReady(p) \/ GetSecret(p) \/ PostSql(p)
                    PROVE  Order(p)'
<1>1. UNCHANGED object /\ UNCHANGED lastUid
  BY DEF object, CreateSecret, CreateTidb, GetTidb, ApplyDeployment, ApplyService,
         CheckReady, GetSecret, PostSql, Read
<1>2. ctl[p].pc \in ApplySteps
  BY DEF CreateSecret, CreateTidb, GetTidb, ApplyDeployment, ApplyService,
         CheckReady, GetSecret, PostSql, ApplySteps, CleanupSteps, Steps
<1>3. StepOrder(ctl[p])
  BY DEF Order, OrderOf
<1>4. PICK s : s = ctl[p].snap
  OBVIOUS
<1>5. PICK r : r = ctl'[p]
  OBVIOUS
<1>6. s.phase \in Started => s.rootRef # "none"
  BY <1>2, <1>4 DEF View, StepInv, RefOK
<1>7. ASSUME r.snap = s, StepOrder(r) PROVE Order(p)'
  BY <1>1, <1>2, <1>4, <1>5, <1>7, AdvanceOrder
<1>8. ASSUME NEW pc \in {"applyService", "applyDeployment"}, Goto(p, pc) PROVE Order(p)'
  <2>1. r.pc = pc /\ r.snap = s
    BY <1>4, <1>5, <1>8, GotoRecord
  <2> QED BY <1>7, <2>1 DEF StepOrder
<1>9. CASE CreateSecret(p)
  <2>1. s.phase = "New" /\ s.rootRef = "none" /\ s.backend # "none"
    BY <1>3, <1>4, <1>9 DEF CreateSecret, StepOrder
  <2>2. Goto(p, "persistRef") \/ GotoPhase(p, "Error")
    BY <1>9 DEF CreateSecret, Write
  <2>3. /\ r.snap = s
        /\ r.pc = "persistRef" \/ (r.pc = "setPhase" /\ r.goal = "Error")
    BY <1>4, <1>5, <2>2, GotoRecord, GotoPhaseRecord
  <2> QED BY <1>7, <2>1, <2>3 DEF StepOrder, MayWrite, Started, Serving
<1>10. CASE CreateTidb(p)
  <2>1. s.phase = "Preparing"
    BY <1>3, <1>4, <1>10 DEF CreateTidb, StepOrder
  <2>2. Goto(p, "getTidb") \/ Requeue(p)
    BY <1>10 DEF CreateTidb, Write
  <2>3. CASE Goto(p, "getTidb")
    <3>1. r.pc = "getTidb" /\ r.snap = s
      BY <1>4, <1>5, <2>3, GotoRecord
    <3> QED BY <1>7, <2>1, <3>1 DEF StepOrder
  <2> QED BY <1>1, <2>2, <2>3, RetireOrder
<1>11. CASE GetTidb(p)
  <2>1. s.phase = "Preparing" /\ s.rootRef # "none"
    BY <1>3, <1>4, <1>6, <1>11 DEF GetTidb, StepOrder, Started
  <2>2. GotoPhase(p, "InCreation") \/ Requeue(p)
    BY <1>11 DEF GetTidb, Read
  <2>3. CASE GotoPhase(p, "InCreation")
    <3>1. r.pc = "setPhase" /\ r.snap = s /\ r.goal = "InCreation"
      BY <1>4, <1>5, <2>3, GotoPhaseRecord
    <3> QED BY <1>7, <2>1, <3>1 DEF StepOrder, MayWrite, Serving
  <2> QED BY <1>1, <2>2, <2>3, RetireOrder
<1>12. CASE ApplyDeployment(p)
  <2>1. Goto(p, "applyService") \/ Requeue(p)
    BY <1>12 DEF ApplyDeployment, Write
  <2> QED BY <1>1, <1>8, <2>1, RetireOrder
<1>13. CASE ApplyService(p)
  <2>1. (s.phase \in Serving /\ Goto(p, "checkReady")) \/ Requeue(p)
    BY <1>4, <1>13 DEF ApplyService, AfterApply, Write, Snap
  <2>2. CASE s.phase \in Serving /\ Goto(p, "checkReady")
    <3>1. r.pc = "checkReady" /\ r.snap = s
      BY <1>4, <1>5, <2>2, GotoRecord
    <3> QED BY <1>7, <2>2, <3>1 DEF StepOrder
  <2> QED BY <1>1, <2>1, <2>2, RetireOrder
<1>14. CASE CheckReady(p)
  <2>1. WhenReady(p) \/ WhenNotReady(p)
    BY <1>14 DEF CheckReady, Read
  <2>2. \/ s.phase = "InCreation" /\ Goto(p, "getSecret")
        \/ s.phase \in Serving /\ (GotoPhase(p, "Ready") \/ GotoPhase(p, "NotReady"))
        \/ Requeue(p)
    BY <1>4, <2>1 DEF WhenReady, WhenNotReady, Serving, Snap
  <2>3. CASE s.phase = "InCreation" /\ Goto(p, "getSecret")
    <3>1. r.pc = "getSecret" /\ r.snap = s
      BY <1>4, <1>5, <2>3, GotoRecord
    <3> QED BY <1>7, <2>3, <3>1 DEF StepOrder
  <2>4. ASSUME NEW g \in {"Ready", "NotReady"}, s.phase \in Serving, GotoPhase(p, g)
        PROVE  Order(p)'
    <3>1. r.pc = "setPhase" /\ r.snap = s /\ r.goal = g
      BY <1>4, <1>5, <2>4, GotoPhaseRecord
    <3>2. s.rootRef \notin {"none", "nameless"}
      BY <1>2, <1>4, <1>6, <2>4 DEF Order, OrderOf, Backed, Started
    <3> QED BY <1>7, <2>4, <3>1, <3>2 DEF StepOrder, MayWrite
  <2> QED BY <1>1, <2>2, <2>3, <2>4, RetireOrder
<1>15. CASE GetSecret(p)
  <2>1. s.phase = "InCreation"
    BY <1>3, <1>4, <1>15 DEF GetSecret, StepOrder
  <2>2. \/ /\ \E w : ctl' = [ctl EXCEPT ![p].pc = "postSql", ![p].cred = w]
           /\ s.rootRef # "nameless"
        \/ Requeue(p)
    BY <1>4, <1>15 DEF GetSecret, HasCredentials, Read, Snap
  <2>3. CASE /\ \E w : ctl' = [ctl EXCEPT ![p].pc = "postSql", ![p].cred = w]
             /\ s.rootRef # "nameless"
    <3>1. r.pc = "postSql" /\ r.snap = s
      BY <1>4, <1>5, <2>3, FeedType DEF TypeInv, ProcessOK, Record
    <3> QED BY <1>7, <2>1, <2>3, <3>1 DEF StepOrder
  <2> QED BY <1>1, <2>2, <2>3, RetireOrder
<1>16. CASE PostSql(p)
  <2>1. s.phase = "InCreation" /\ s.rootRef \notin {"none", "nameless"}
    BY <1>3, <1>4, <1>6, <1>16 DEF PostSql, StepOrder, Started
  <2>2. GotoPhase(p, "InProgress") \/ Requeue(p)
    BY <1>16 DEF PostSql, Write
  <2>3. CASE GotoPhase(p, "InProgress")
    <3>1. r.pc = "setPhase" /\ r.snap = s /\ r.goal = "InProgress"
      BY <1>4, <1>5, <2>3, GotoPhaseRecord
    <3> QED BY <1>7, <2>1, <3>1 DEF StepOrder, MayWrite
  <2> QED BY <1>1, <2>2, <2>3, RetireOrder
<1> QED BY <1>9, <1>10, <1>11, <1>12, <1>13, <1>14, <1>15, <1>16

LEMMA SweepOrder == ASSUME NEW p, Alone(p), TypeInv, View(p), Order(p),
                           GetChild(p) \/ DeleteChild(p) \/ Publish(p)
                    PROVE  Order(p)'
<1>1. UNCHANGED object /\ UNCHANGED lastUid
  BY DEF object, GetChild, DeleteChild, Publish, Read
<1>2. ctl[p].pc \in CleanupSteps
  BY DEF GetChild, DeleteChild, Publish, CleanupSteps
<1>3. \/ Requeue(p)
      \/ NextChild(p) \/ Goto(p, "deleteChild") \/ Goto(p, "removeFinalizer")
  BY DEF GetChild, DeleteChild, Publish, Read, Write
<1>4. CASE NextChild(p) \/ Goto(p, "deleteChild") \/ Goto(p, "removeFinalizer")
  <2>1. PICK r : r = ctl'[p]
    OBVIOUS
  <2>2. r.pc \in {"getChild", "publish", "deleteChild", "removeFinalizer"}
    <3>1. \/ ctl' = [ctl EXCEPT ![p].kind = @ + 1, ![p].pc = "getChild"]
          \/ ctl' = [ctl EXCEPT ![p].pc = "publish"]
          \/ Goto(p, "deleteChild") \/ Goto(p, "removeFinalizer")
      BY <1>4 DEF NextChild
    <3> QED BY <2>1, <3>1, FeedType DEF Goto, TypeInv, ProcessOK, Record
  <2>3. r.pc \notin ApplySteps /\ StepOrder(r)
    BY <2>2 DEF StepOrder, ApplySteps, CleanupSteps
  <2> QED BY <1>1, <2>1, <2>3, StillOrder
<1> QED BY <1>1, <1>3, <1>4, RetireOrder

-----------------------------------------------------------------------------
(* Writes of the object by the process.                                    *)

LEMMA RestsInOrder == ASSUME NEW p, Alone(p), TypeInv, ctl'[p] = Idle
                      PROVE  ctl'[p].pc \notin ApplySteps /\ StepOrder(ctl[p])'
<1>1. PICK r : r = ctl'[p]
  OBVIOUS
<1>2. r.pc = "idle"
  BY <1>1 DEF Idle
<1> QED BY <1>1, <1>2 DEF StepOrder, CleanupSteps, ApplySteps

LEMMA RestingIdle == ASSUME NEW p, Alone(p), TypeInv, Requeue(p) \/ AwaitChange(p)
                     PROVE  ctl'[p] = Idle
  BY FeedType DEF Requeue, AwaitChange, TypeInv, ProcessOK

LEMMA AddFinalizerOrder == ASSUME NEW p, Alone(p), TypeInv, TypeInv', View(p), Order(p), AddFinalizer(p)
                           PROVE  Order(p)'
<1> DEFINE v == [Cluster EXCEPT !.fin = TRUE]
<1>1. Requeue(p) \/ AwaitChange(p)
  BY DEF AddFinalizer, Write
<1>2. lastUid' = lastUid /\ (UNCHANGED object \/ Store(v))
  BY DEF AddFinalizer, Write
<1>3. CASE Store(v)
  <2>1. /\ v \in Version /\ v.uid = Cluster.uid /\ v.backend = Cluster.backend
        /\ v.rootRef = Cluster.rootRef /\ v.phase = Cluster.phase
    BY FeedType DEF Version
  <2> HIDE DEF v
  <2>2. /\ v.uid <= lastUid /\ Backed(v) /\ RefOK(v)
        /\ \A i \in DOMAIN feed[p] : Follows(feed[p][i], v)
    BY <2>1, StoredInOrder, StoredOK, FollowsAlike DEF Backed, RefOK
  <2>3. ctl'[p].pc \notin ApplySteps /\ StepOrder(ctl[p])'
    BY <1>1, RestingIdle, RestsInOrder
  <2>4. lastUid \in Nat
    BY ControllerAssumption DEF TypeInv, ObjectOK
  <2> QED BY <1>2, <1>3, <2>1, <2>2, <2>3, <2>4, WrittenOrder
<1> QED BY <1>1, <1>2, <1>3, RetireOrder

LEMMA RemoveFinalizerOrder == ASSUME NEW p, Alone(p), TypeInv, View(p), Order(p), RemoveFinalizer(p)
                              PROVE  Order(p)'
<1>1. Requeue(p) \/ AwaitChange(p)
  BY DEF RemoveFinalizer, Write
<1>2. lastUid' = lastUid /\ (UNCHANGED object \/ Store(Absent))
  <2>1. ~Live(Cluster)
    <3>1. Len(feed[p]) \in DOMAIN feed[p]
      BY FeedType
    <3> QED BY <3>1, StoredOK DEF View, StepInv, RemoveFinalizer, CleanupSteps
  <2> QED BY <2>1 DEF RemoveFinalizer, Write, Live
<1>3. CASE Store(Absent)
  <2>1. PICK v \in Version : v = Absent
    BY AbsentType
  <2>2. v.uid = 0 /\ v.phase = "New"
    BY <2>1 DEF Absent
  <2>3. lastUid \in Nat
    BY ControllerAssumption DEF TypeInv, ObjectOK
  <2>4. v.uid <= lastUid /\ Backed(v) /\ RefOK(v) /\ \A x : Follows(x, v)
    BY <2>2, <2>3, FollowsOther DEF Backed, RefOK, Started, Serving
  <2>5. ctl'[p].pc \notin ApplySteps /\ StepOrder(ctl[p])'
    BY <1>1, RestingIdle, RestsInOrder
  <2> QED BY <1>2, <1>3, <2>1, <2>3, <2>4, <2>5, WrittenOrder
<1> QED BY <1>1, <1>2, <1>3, RetireOrder

\* The version a reconcile of s found good to give the phase g is by now x or
\* later, and w is the last of them.
LEMMA PhaseFollows == ASSUME NEW s \in Version, NEW x \in Version, NEW w \in Version, NEW v \in Version, NEW g,
                             Follows(s, x), Follows(s, w), Follows(x, w), s.uid = w.uid, Exists(s),
                             MayWrite(s, g), RefOK(s),
                             g \in Started /\ s.rootRef = "none" => w.rootRef = "auto",
                             v.uid = w.uid, v.backend = w.backend, v.rootRef = w.rootRef, v.phase = g
                      PROVE  Follows(x, v)
<1> SUFFICES ASSUME Exists(x), v.uid = x.uid PROVE Follows(x, v)
  BY DEF Follows
<1>1. MayBecome(x, g)
  BY GoalFollows DEF Follows
<1>2. g \in Started /\ x.rootRef = "none" => w.rootRef = "auto"
  <2>1. CASE s.rootRef = "none"
    BY <2>1
  <2>2. CASE s.rootRef # "none"
    BY <2>2 DEF Follows
  <2> QED BY <2>1, <2>2
<1> QED BY <1>1, <1>2 DEF Follows

LEMMA SetPhaseOrder == ASSUME NEW p, Alone(p), TypeInv, View(p), Order(p), SetPhase(p)
                       PROVE  Order(p)'
<1> DEFINE v == [Cluster EXCEPT !.phase = ctl[p].goal]
<1>1. PICK s \in Version, g \in Phases : s = Snap(p) /\ g = ctl[p].goal
  BY FeedType DEF Record
<1>2. ctl[p].pc = "setPhase" /\ ctl[p].pc \in ApplySteps
  BY DEF SetPhase, ApplySteps, CleanupSteps, Steps
<1>3. lastUid' = lastUid /\ (UNCHANGED object \/ Store(v))
  BY DEF SetPhase, Write
<1>4. Requeue(p) \/ Goto(p, "applyDeployment")
  BY DEF SetPhase, Write, AfterPhase
<1>5. CASE UNCHANGED object
  <2>1. CASE Goto(p, "applyDeployment")
    <3>1. PICK r : r = ctl'[p] /\ r.pc = "applyDeployment" /\ r.snap = ctl[p].snap
      BY <2>1, GotoRecord
    <3>2. StepOrder(r)
      BY <3>1 DEF StepOrder
    <3> QED BY <1>2, <1>3, <1>5, <3>1, <3>2, AdvanceOrder
  <2> QED BY <1>3, <1>4, <1>5, <2>1, RetireOrder
<1>6. CASE Store(v)
  <2>1. /\ v \in Version /\ v.uid = Cluster.uid /\ v.backend = Cluster.backend
        /\ v.rootRef = Cluster.rootRef /\ v.phase = g
    BY <1>1, FeedType DEF Version
  <2> HIDE DEF v
  <2>2. Live(s) /\ Cluster.uid = s.uid /\ RefOK(s) /\ Exists(s) /\ Exists(Cluster)
    BY <1>1, <1>2, StoredOK DEF View, StepInv, Held, Snap, Exists
  <2>3. /\ MayWrite(s, g)
        /\ g \in Started /\ s.rootRef = "none" => Cluster.rootRef = "auto"
        /\ g \in Serving => s.rootRef # "nameless"
    BY <1>1, <1>2 DEF Order, OrderOf, StepOrder, Snap
  <2>4. Behind(p, s) /\ Follows(s, Cluster)
    BY <1>1, <1>2, StoredInOrder DEF Order, OrderOf, Behind, Snap
  <2>5. ASSUME NEW x \in Version, Follows(s, x), Follows(x, Cluster) PROVE Follows(x, v)
    BY <2>1, <2>2, <2>3, <2>4, <2>5, PhaseFollows, FeedType
  <2>6. \A i \in DOMAIN feed[p] : Follows(feed[p][i], v)
    BY <2>4, <2>5, StoredInOrder, FeedType DEF Behind
  <2>7. Follows(s, v)
    BY <2>2, <2>4, <2>5, FollowsItself
  <2>8. RefOK(v)
    <3>1. s.rootRef # "none" => Cluster.rootRef # "none"
      BY <2>2, <2>4 DEF Follows
    <3> QED BY <2>1, <2>3, <3>1 DEF RefOK
  <2>9. Backed(v)
    <3>1. g \in Started => s.backend # "none"
      BY <2>3, <2>4 DEF MayWrite, Behind, Backed, Started, Serving
    <3>2. g \in Serving => s.phase \in Started /\ s.rootRef # "nameless"
      BY <2>3 DEF MayWrite, AfterNew, Started, Serving
    <3> QED BY <2>1, <2>2, <2>4, <3>1, <3>2 DEF Follows, Backed
  <2>10. v.uid <= lastUid /\ lastUid \in Nat
    BY <2>1, StoredInOrder, ControllerAssumption DEF TypeInv, ObjectOK
  <2>11. /\ ctl'[p].pc \in ApplySteps => Behind(p, ctl'[p].snap) /\ Follows(ctl'[p].snap, v)
         /\ StepOrder(ctl[p])'
    <3>1. CASE Goto(p, "applyDeployment")
      <4>1. PICK r : r = ctl'[p] /\ r.pc = "applyDeployment" /\ r.snap = s
        BY <1>1, <3>1, GotoRecord DEF Snap
      <4> QED BY <2>4, <2>7, <4>1 DEF StepOrder
    <3>2. CASE Requeue(p)
      BY <3>2, RestingIdle, RestsInOrder
    <3> QED BY <1>4, <3>1, <3>2
  <2> QED BY <1>3, <1>6, <2>1, <2>6, <2>8, <2>9, <2>10, <2>11, WrittenOrder
<1> QED BY <1>3, <1>5, <1>6

LEMMA PersistRefOrder == ASSUME NEW p, Alone(p), TypeInv, View(p), Order(p), PersistRef(p)
                         PROVE  Order(p)'
<1> DEFINE v == [Cluster EXCEPT !.rootRef = "auto"]
<1>1. PICK s \in Version : s = Snap(p)
  BY FeedType
<1>2. ctl[p].pc = "persistRef" /\ ctl[p].pc \in ApplySteps
  BY DEF PersistRef, ApplySteps, CleanupSteps, Steps
<1>3. s.phase = "New" /\ s.rootRef = "none" /\ s.backend # "none"
  BY <1>1, <1>2 DEF Order, OrderOf, StepOrder, Snap
<1>4. lastUid' = lastUid
  BY DEF PersistRef
<1>5. AfterNew(s) \in Phases /\ MayWrite(s, AfterNew(s)) /\ MayWrite(s, "Error")
  BY <1>3 DEF MayWrite, AfterNew, Phases
<1>6. CASE UNCHANGED object /\ GotoPhase(p, "Error")
  <2>1. PICK r : r = ctl'[p] /\ r.pc = "setPhase" /\ r.snap = s /\ r.goal = "Error"
    BY <1>1, <1>6, GotoPhaseRecord DEF Snap
  <2>2. StepOrder(r)
    BY <1>5, <2>1 DEF StepOrder, Started, Serving
  <2> QED BY <1>1, <1>2, <1>4, <1>6, <2>1, <2>2, AdvanceOrder DEF Snap
<1>7. ASSUME Store(v), NEW g \in {"Error", AfterNew(s)}, GotoPhase(p, g) PROVE Order(p)'
  <2>1. /\ v \in Version /\ v.uid = Cluster.uid /\ v.backend = Cluster.backend
        /\ v.rootRef = "auto" /\ v.phase = Cluster.phase
    BY FeedType DEF Version, Refs
  <2> HIDE DEF v
  <2>2. Cluster.uid = s.uid /\ Exists(s) /\ RefOK(s)
    BY <1>1, <1>2, StoredOK DEF View, StepInv, Held, Snap, Exists
  <2>3. Behind(p, s) /\ Follows(s, Cluster)
    BY <1>1, <1>2, StoredInOrder DEF Order, OrderOf, Behind, Snap
  <2>4. ASSUME NEW x \in Version, Follows(s, x), Follows(x, Cluster), RefOK(x) PROVE Follows(x, v)
    BY <1>3, <2>1, <2>2, <2>4 DEF Follows, Exists, RefOK
  <2>5. \A i \in DOMAIN feed[p] : Follows(feed[p][i], v)
    BY <2>3, <2>4, StoredInOrder, FeedType DEF Behind, View, FeedInv
  <2>6. Follows(s, v)
    BY <2>2, <2>3, <2>4, FollowsItself
  <2>7. RefOK(v) /\ Backed(v) /\ v.uid <= lastUid /\ lastUid \in Nat
    BY <2>1, StoredInOrder, ControllerAssumption DEF RefOK, Backed, TypeInv, ObjectOK
  <2>8. PICK r : r = ctl'[p] /\ r.pc = "setPhase" /\ r.snap = s /\ r.goal = g
    BY <1>1, <1>7, GotoPhaseRecord DEF Snap
  <2>9. Cluster'.rootRef = "auto"
    <3>1. CASE v = Cluster
      BY <1>7, <2>1, <3>1, Same DEF Store
    <3>2. CASE v # Cluster
      BY <1>7, <2>1, <3>2, StoreFeed
    <3> QED BY <3>1, <3>2
  <2>10. StepOrder(ctl[p])'
    BY <1>5, <1>7, <2>8, <2>9 DEF StepOrder, AfterNew, Serving
  <2> QED BY <1>4, <1>7, <2>1, <2>3, <2>5, <2>6, <2>7, <2>8, <2>10, WrittenOrder
<1> QED BY <1>1, <1>6, <1>7 DEF PersistRef, Write

LEMMA StepKeepsOrder == ASSUME NEW p, Alone(p), TypeInv, TypeInv', View(p), Order(p), Step(p)
                        PROVE  Order(p)'
  BY StartOrder, AddFinalizerOrder, SetPhaseOrder, PersistRefOrder, ApplyOrder, SweepOrder,
     RemoveFinalizerOrder DEF Step

-----------------------------------------------------------------------------
(* The users, the platform and the runtime.                                *)

LEMMA OutsideOrder == ASSUME NEW p, Alone(p), TypeInv, Order(p), UNCHANGED object, ctl' = ctl,
                             UNCHANGED lastUid
                      PROVE  Order(p)'
<1>1. StepOrder(ctl[p]) /\ (ctl[p].pc \in ApplySteps => Behind(p, ctl[p].snap))
  BY DEF Order, OrderOf, Behind
<1> QED BY <1>1, StillOrder

\* A write by a user that keeps a reference the controller has made.
LEMMA UserOrder == ASSUME NEW p, Alone(p), TypeInv, View(p), Order(p), NEW v \in Version, Store(v),
                          ctl' = ctl, lastUid' \in Nat, lastUid <= lastUid', v.uid <= lastUid',
                          Backed(v), RefOK(v),
                          \A i \in DOMAIN feed[p] : Follows(feed[p][i], v),
                          ctl[p].pc \in ApplySteps =>
                            /\ Follows(ctl[p].snap, v)
                            /\ Cluster.rootRef = "auto" => v.rootRef = "auto"
                   PROVE  Order(p)'
<1>1. ctl[p].pc \in ApplySteps => Behind(p, ctl[p].snap)
  BY DEF Order, OrderOf, Behind
<1>2. Cluster' = v
  <2>1. CASE v = Cluster
    BY <2>1, Same DEF Store
  <2>2. CASE v # Cluster
    BY <2>2, StoreFeed
  <2> QED BY <2>1, <2>2
<1>3. "setPhase" \in ApplySteps
  BY DEF ApplySteps, CleanupSteps, Steps
<1>4. StepOrder(ctl[p])'
  BY <1>2, <1>3 DEF Order, OrderOf, StepOrder
<1>5. lastUid \in Nat
  BY ControllerAssumption DEF TypeInv, ObjectOK
<1> QED BY <1>1, <1>4, <1>5, WrittenOrder

LEMMA UsersOrder == ASSUME NEW p, Alone(p), TypeInv, TypeInv', View(p), Order(p), Users
                    PROVE  Order(p)'
<1>1. /\ ctl[p].pc \in ApplySteps => Cluster.fin /\ Behind(p, ctl[p].snap)
      /\ Cluster.fin => Exists(Cluster)
      /\ \A i \in DOMAIN feed[p] : feed[p][i].uid <= lastUid /\ Follows(feed[p][i], Cluster)
      /\ \A i \in DOMAIN feed[p] : feed[p][i].uid \in Nat /\ RefOK(feed[p][i])
      /\ Cluster.uid <= lastUid /\ Backed(Cluster) /\ RefOK(Cluster) /\ Cluster \in Version
  <2>1. \A i \in DOMAIN feed[p] : feed[p][i].uid \in Nat /\ RefOK(feed[p][i])
    BY FeedType DEF Version, View, FeedInv
  <2> QED BY <2>1, SnapshotHolds, StoredOK, StoredInOrder, FeedType DEF Order, OrderOf, Behind
<1>2. ctl[p].pc \in ApplySteps => Follows(ctl[p].snap, Cluster) /\ RefOK(ctl[p].snap)
  BY <1>1, StoredInOrder DEF View, StepInv
<1>3. lastUid \in Nat /\ lastUid' \in Nat
  BY ControllerAssumption DEF TypeInv, ObjectOK
<1>4. ASSUME NEW b \in Backends, NEW r \in RootRefs, UserCreate(b, r) PROVE Order(p)'
  <2> DEFINE v == [Absent EXCEPT !.uid = lastUid + 1, !.backend = b, !.rootRef = r]
  <2>1. v \in Version /\ v.uid = lastUid + 1 /\ v.phase = "New"
    <3>1. lastUid + 1 \in Nat /\ b \in Storage /\ r \in Refs
      BY <1>3, ControllerAssumption DEF Refs
    <3>2. PICK w \in Version : w = Absent
      BY AbsentType
    <3>3. w.phase = "New"
      BY <3>2 DEF Absent
    <3>4. v = [w EXCEPT !.uid = lastUid + 1, !.backend = b, !.rootRef = r]
      BY <3>2
    <3> QED BY <3>1, <3>2, <3>3, <3>4 DEF Version
  <2>2. Store(v) /\ ~Exists(Cluster) /\ lastUid' = lastUid + 1 /\ ctl' = ctl
    BY <1>4 DEF UserCreate, Outside
  <2> HIDE DEF v
  <2>3. Backed(v) /\ RefOK(v)
    BY <2>1 DEF RefOK, Backed, Started, Serving
  <2>4. \A i \in DOMAIN feed[p] : Follows(feed[p][i], v)
    <3>1. \A i \in DOMAIN feed[p] : feed[p][i].uid # v.uid
      BY <1>1, <1>3, <2>1
    <3> QED BY <3>1, FollowsOther
  <2>5. ctl[p].pc \notin ApplySteps
    BY <1>1, <2>2
  <2> QED BY <1>3, <2>1, <2>2, <2>3, <2>4, <2>5, UserOrder
<1>5. CASE UserDelete
  <2>1. lastUid' = lastUid /\ ctl' = ctl
    BY <1>5 DEF UserDelete, Outside
  <2>2. CASE Cluster.fin
    <3> DEFINE v == [Cluster EXCEPT !.deleting = TRUE]
    <3>1. /\ v \in Version /\ v.uid = Cluster.uid /\ v.backend = Cluster.backend
          /\ v.rootRef = Cluster.rootRef /\ v.phase = Cluster.phase
      BY <1>1 DEF Version
    <3>2. Store(v)
      BY <1>5, <2>2 DEF UserDelete
    <3> HIDE DEF v
    <3>3. Backed(v) /\ RefOK(v) /\ \A x : Follows(x, Cluster) => Follows(x, v)
      BY <1>1, <3>1, FollowsAlike DEF Backed, RefOK
    <3> QED BY <1>1, <1>2, <1>3, <2>1, <3>1, <3>2, <3>3, UserOrder
  <2>3. CASE ~Cluster.fin
    <3>1. PICK v \in Version : v = Absent
      BY AbsentType
    <3>2. v.uid = 0 /\ v.phase = "New" /\ Store(v)
      BY <1>5, <2>3, <3>1 DEF Absent, UserDelete
    <3>3. Backed(v) /\ RefOK(v) /\ \A x : Follows(x, v)
      BY <3>2, FollowsOther DEF Backed, RefOK, Started, Serving
    <3> QED BY <1>1, <1>3, <2>1, <2>3, <3>2, <3>3, UserOrder
  <2> QED BY <2>2, <2>3
<1>6. ASSUME NEW b \in Backends, NEW r \in RootRefs, UserEdit(b, r) PROVE Order(p)'
  <2>1. lastUid' = lastUid /\ ctl' = ctl
    BY <1>6 DEF UserEdit, Outside
  <2>2. CASE Cluster.backend = "none" /\ Store([Cluster EXCEPT !.backend = b])
    <3> DEFINE v == [Cluster EXCEPT !.backend = b]
    <3>1. /\ v \in Version /\ v.uid = Cluster.uid
          /\ v.rootRef = Cluster.rootRef /\ v.phase = Cluster.phase
      BY <1>1, ControllerAssumption DEF Version
    <3>2. Store(v)
      BY <2>2
    <3> HIDE DEF v
    <3>3. Backed(v) /\ RefOK(v) /\ \A x : Follows(x, Cluster) => Follows(x, v)
      BY <1>1, <2>2, <3>1 DEF Backed, RefOK, Follows
    <3> QED BY <1>1, <1>2, <1>3, <2>1, <3>1, <3>2, <3>3, UserOrder
  <2>3. CASE Cluster.rootRef = "none" /\ Store([Cluster EXCEPT !.rootRef = r])
    <3> DEFINE v == [Cluster EXCEPT !.rootRef = r]
    <3>1. /\ v \in Version /\ v.uid = Cluster.uid
          /\ v.backend = Cluster.backend /\ v.phase = Cluster.phase
      BY <1>1, ControllerAssumption DEF Version, Refs
    <3>2. Store(v)
      BY <2>3
    <3> HIDE DEF v
    <3>3. Backed(v) /\ RefOK(v) /\ \A x : Follows(x, Cluster) /\ RefOK(x) => Follows(x, v)
      BY <1>1, <2>3, <3>1 DEF Backed, RefOK, Follows, Started
    <3> QED BY <1>1, <1>2, <1>3, <2>1, <2>3, <3>1, <3>2, <3>3, UserOrder
  <2> QED BY <1>6, <2>2, <2>3 DEF UserEdit
<1>7. ASSUME NEW k \in Foreign, UserPrecreate(k) PROVE Order(p)'
  BY <1>7, OutsideOrder DEF UserPrecreate, Outside, object
<1> QED BY <1>4, <1>5, <1>6, <1>7 DEF Users

LEMMA PlatformOrder == ASSUME NEW p, Alone(p), TypeInv, Order(p), Platform \/ PodLost
                       PROVE  Order(p)'
<1>1. UNCHANGED object /\ ctl' = ctl /\ UNCHANGED lastUid
  BY DEF Platform, PodLost, PodUp, PodRetire, TidbBecomesReady, GarbageCollect, Outside, object
<1> QED BY <1>1, OutsideOrder

LEMMA WatchOrder == ASSUME NEW p, Alone(p), TypeInv, View(p), Order(p), Watch(p)
                    PROVE  Order(p)'
<1> DEFINE F == feed[p]
           n == Len(feed[p])
<1>1. /\ n > 1 /\ feed'[p] = Tail(F) /\ Cluster' = Cluster /\ ctl' = ctl /\ lastUid' = lastUid
  BY FeedType DEF Watch, TypeInv, ObjectOK, Cluster
<1>2. ASSUME NEW H \in Seq(Version), NEW G, G = Tail(H), Len(H) > 1
      PROVE  /\ DOMAIN G = 1..(Len(H) - 1)
             /\ \A i \in 1..(Len(H) - 1) : G[i] = H[i + 1]
  BY <1>2
<1>3. PICK G : /\ feed'[p] = G /\ DOMAIN G = 1..(n - 1)
               /\ \A i \in 1..(n - 1) : G[i] = F[i + 1]
  <2>1. PICK H : H = Tail(F)
    OBVIOUS
  <2>2. DOMAIN H = 1..(n - 1) /\ \A i \in 1..(n - 1) : H[i] = F[i + 1]
    BY <1>1, <1>2, <2>1, FeedType
  <2> QED BY <1>1, <2>1, <2>2
<1>4. n \in Nat /\ n > 1 /\ DOMAIN F = 1..n /\ OrderOf(ctl[p], F)
  BY <1>1, FeedType DEF Order
<1> HIDE DEF F, n
<1>5. \A i \in 1..(n - 1) : i + 1 \in 1..n
  BY <1>4
<1>6. \A i \in 1..(n - 1) : G[i].uid <= lastUid /\ Backed(G[i])
  BY <1>3, <1>4, <1>5 DEF OrderOf
<1>7. \A i, j \in 1..(n - 1) : i <= j => Follows(G[i], G[j])
  <2> SUFFICES ASSUME NEW i \in 1..(n - 1), NEW j \in 1..(n - 1), i <= j
               PROVE  Follows(F[i + 1], F[j + 1])
    BY <1>3
  <2>1. i + 1 \in 1..n /\ j + 1 \in 1..n /\ i + 1 <= j + 1
    BY <1>4
  <2> QED BY <1>4, <2>1 DEF OrderOf
<1>8. PICK r : r = ctl[p]
  OBVIOUS
<1>9. r.pc \in ApplySteps => Backed(r.snap) /\ \A i \in 1..(n - 1) : Follows(r.snap, G[i])
  BY <1>3, <1>4, <1>5, <1>8 DEF OrderOf
<1>10. StepOrder(r) /\ r = ctl'[p]
  BY <1>1, <1>4, <1>8 DEF OrderOf
<1> QED BY <1>1, <1>3, <1>6, <1>7, <1>9, <1>10 DEF Order, OrderOf, StepOrder

LEMMA CrashOrder == ASSUME NEW p, Alone(p), TypeInv, Len(log) = 1, View(p), Order(p), Crash(p)
                    PROVE  Order(p)'
<1>1. PICK i \in 1..Len(log) : feed' = [feed EXCEPT ![p] = SubSeq(log, i, Len(log))]
  BY DEF Crash, Restart
<1>2. ASSUME NEW s \in Seq(Version), Len(s) = 1, NEW G, G = SubSeq(s, 1, 1)
      PROVE  DOMAIN G = 1..1 /\ G[1] = s[1]
  BY <1>2
<1>3. i = 1 /\ log \in Seq(Version)
  BY <1>1 DEF TypeInv, ObjectOK
<1>4. PICK G : feed'[p] = G /\ DOMAIN G = 1..1 /\ G[1] = Cluster
  <2>1. feed'[p] = SubSeq(log, 1, 1)
    BY <1>1, <1>3, FeedType DEF TypeInv, ObjectOK
  <2> QED BY <1>2, <1>3, <2>1 DEF Cluster
<1>5. ctl'[p] = Idle /\ lastUid' = lastUid
  BY FeedType DEF Crash, Restart, TypeInv, ProcessOK
<1>6. ctl'[p].pc \notin ApplySteps /\ StepOrder(ctl[p])'
  BY <1>5, RestsInOrder
<1>7. Cluster.uid <= lastUid /\ Backed(Cluster) /\ Follows(Cluster, Cluster)
  BY StoredInOrder, StoredOK, FollowsItself, FeedType
<1>8. \A k \in DOMAIN G : G[k] = Cluster
  BY <1>4
<1> QED BY <1>4, <1>5, <1>6, <1>7, <1>8 DEF Order, OrderOf

-----------------------------------------------------------------------------
OInv(p) == IInv(p) /\ Order(p)

LEMMA InitOrder == ASSUME NEW p, Alone(p), Init PROVE OInv(p)
<1>1. feed[p] = <<Absent>> /\ ctl[p] = Idle /\ lastUid = 0
  BY DEF Init, Alone
<1>2. PICK G : feed[p] = G /\ DOMAIN G = 1..1 /\ G[1] = Absent
  BY <1>1
<1>3. Absent.uid = 0 /\ Backed(Absent) /\ Follows(Absent, Absent)
  BY DEF Absent, Backed, Started, Serving, Follows, Exists
<1>4. \A k \in DOMAIN G : G[k] = Absent
  BY <1>2
<1>5. ctl[p].pc \notin ApplySteps /\ StepOrder(ctl[p])
  BY <1>1 DEF Idle, StepOrder, ApplySteps, CleanupSteps
<1>6. Order(p)
  BY <1>1, <1>2, <1>3, <1>4, <1>5 DEF Order, OrderOf
<1> QED BY <1>6, InitView DEF OInv

LEMMA NextOrder == ASSUME NEW p, Alone(p), OInv(p), [Next]_vars PROVE OInv(p)'
<1>1. IInv(p)' /\ TypeInv'
  BY NextView DEF OInv, IInv
<1>2. CASE UNCHANGED vars
  <2>1. UNCHANGED object /\ ctl' = ctl /\ UNCHANGED lastUid
    BY <1>2 DEF vars, object
  <2> QED BY <1>1, <2>1, OutsideOrder DEF OInv, IInv
<1>3. CASE Next
  <2>1. ASSUME NEW c \in Controllers, Step(c) \/ Watch(c) \/ Crash(c) PROVE Order(p)'
    <3>1. c = p
      BY DEF Alone
    <3> QED BY <1>1, <2>1, <3>1, StepKeepsOrder, WatchOrder, CrashOrder DEF OInv, IInv
  <2>2. CASE Users
    BY <1>1, <2>2, UsersOrder DEF OInv, IInv
  <2>3. CASE Platform \/ PodLost
    BY <1>1, <2>3, PlatformOrder DEF OInv, IInv
  <2> QED BY <1>1, <1>3, <2>1, <2>2, <2>3 DEF OInv, Next
<1> QED BY <1>2, <1>3

\* One version of an incarnation follows the other.
LEMMA NextFollows == ASSUME NEW p, Alone(p), OInv(p), Next PROVE Follows(Cluster, Cluster')
<1>1. OInv(p)' /\ TypeInv /\ TypeInv' /\ View(p)
  BY NextOrder DEF OInv, IInv
<1>2. Follows(Cluster, Cluster)
  BY <1>1, FollowsItself, StoredOK, FeedType
<1>3. CASE UNCHANGED log
  BY <1>2, <1>3 DEF Cluster
<1>4. ASSUME NEW v, Store(v) PROVE Follows(Cluster, Cluster')
  <2>1. CASE v = Cluster
    BY <1>1, <1>2, <1>4, <2>1, Same DEF Store
  <2>2. CASE v # Cluster
    <3>1. Cluster' = v /\ v \in Version
      <4>1. log' = <<v>>
        BY <1>4, <2>2 DEF Store, Alone
      <4> QED BY <1>1, <4>1 DEF TypeInv, ObjectOK, Cluster
    <3> DEFINE n == Len(feed[p])
    <3>2. PICK G : /\ feed'[p] = G /\ DOMAIN G = 1..(n + 1)
                   /\ G[n] = Cluster /\ G[n + 1] = v /\ n \in Nat \ {0}
      BY <1>1, <1>4, <2>2, <3>1, StoreFeed, StoredOK, FeedType
    <3>3. \A i, j \in DOMAIN G : i <= j => Follows(G[i], G[j])
      BY <1>1, <3>2 DEF OInv, Order, OrderOf
    <3>4. n \in DOMAIN G /\ n + 1 \in DOMAIN G /\ n <= n + 1
      BY <3>2
    <3> QED BY <3>1, <3>2, <3>3, <3>4
  <2> QED BY <2>1, <2>2
<1> QED BY <1>3, <1>4, StoreOnly

LEMMA OrderHolds == ASSUME NEW CONSTANT p, Alone(p) PROVE Spec => []OInv(p)
<1>1. Init => OInv(p)
  BY InitOrder
<1>2. OInv(p) /\ [Next]_vars => OInv(p)'
  BY NextOrder
<1> QED BY <1>1, <1>2, PTL DEF Spec

\* A reconcile of an old version may still do what it decided on: whatever has
\* happened to the Cluster since is something that decision allows for.
THEOREM VersionsInOrder == ASSUME NEW CONSTANT p, Controllers = {p}, StaleList = FALSE
                           PROVE  Spec => []OrderInv
<1>1. OInv(p) => OrderInv
  BY DEF OInv, Order, OrderInv
<1> QED BY <1>1, OrderHolds, PTL DEF Alone

\* From Preparing on the reference to the root Secret stays as it is, though
\* it is chosen on an old snapshot and users may choose at the same time.
THEOREM ReferenceSettles == ASSUME NEW CONSTANT p, Controllers = {p}, StaleList = FALSE
                            PROVE  Spec => RefSettles
<1> DEFINE A == SameIncarnation /\ Cluster.phase \in Started => Cluster'.rootRef = Cluster.rootRef
<1>1. ASSUME OInv(p), [Next]_vars PROVE [A]_vars
  <2>1. CASE Next
    <3>1. Follows(Cluster, Cluster')
      BY <1>1, <2>1, NextFollows DEF Alone
    <3> QED BY <3>1 DEF Follows, SameIncarnation
  <2> QED BY <1>1, <2>1
<1>2. Spec => []OInv(p)
  BY OrderHolds DEF Alone
<1>3. Spec => [][A]_vars
  BY <1>1, <1>2, PTL DEF Spec
<1> QED BY <1>3 DEF RefSettles

\* Phases are written with no precondition by reconciles of old snapshots, and
\* yet no incarnation falls back to an earlier phase, or from service to Error.
THEOREM PhasesAdvance == ASSUME NEW CONSTANT p, Controllers = {p}, StaleList = FALSE
                         PROVE  Spec => PhaseNeverFallsBack
<1> DEFINE A == SameIncarnation /\ Cluster.phase # "Error" =>
                  \/ Cluster.phase \notin Serving /\ Cluster'.phase = "Error"
                  \/ Cluster'.phase # "Error" /\ Rank[Cluster'.phase] >= Rank[Cluster.phase]
<1>1. ASSUME NEW v \in Version, NEW w \in Version, MayBecome(v, w.phase), v.phase # "Error"
      PROVE  \/ v.phase \notin Serving /\ w.phase = "Error"
             \/ w.phase # "Error" /\ Rank[w.phase] >= Rank[v.phase]
  BY <1>1 DEF MayBecome, AfterNew, Serving, Rank, Version, Phases
<1>2. ASSUME OInv(p), [Next]_vars PROVE [A]_vars
  <2>1. CASE Next
    <3>1. Follows(Cluster, Cluster')
      BY <1>2, <2>1, NextFollows DEF Alone
    <3>2. Cluster \in Version /\ Cluster' \in Version
      <4>1. TypeInv /\ TypeInv'
        BY <1>2, NextOrder DEF OInv, IInv, Alone
      <4> QED BY <4>1, EndsType DEF TypeInv, ObjectOK, Cluster
    <3> QED BY <1>1, <3>1, <3>2 DEF Follows, SameIncarnation
  <2> QED BY <1>2, <2>1
<1>3. Spec => []OInv(p)
  BY OrderHolds DEF Alone
<1>4. Spec => [][A]_vars
  BY <1>2, <1>3, PTL DEF Spec
<1> QED BY <1>4 DEF PhaseNeverFallsBack

=============================================================================
