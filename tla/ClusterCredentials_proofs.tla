--------------------- MODULE ClusterCredentials_proofs ---------------------
(***************************************************************************)
(* CredentialsInv: a Cluster that is in service lets in whoever has the    *)
(* Secret it names, where DEFINE USER replaces a user that exists or the   *)
(* storage was empty.  And AccessInv: storage with a root user is never    *)
(* served openly again by the incarnation that made the user.  For one     *)
(* controller process with fresh lists.                                    *)
(***************************************************************************)
EXTENDS ClusterOrder_proofs, ClusterCleanup_proofs

Pristine(p) == Untouched(ctl[p], feed[p])
Sound(p) == Fresh /\ ObjectGranted(ctl[p], feed[p])
Trusted(p) == Sound(p) /\ StepGranted(ctl[p])
First(p) == FirstOf(ctl[p], feed[p])

\* What the earlier invariants say together.
Base(p) == Alone(p) /\ TypeInv /\ View(p) /\ Order(p) /\ Sweep(p)

-----------------------------------------------------------------------------
LEMMA SnapshotInOrder == ASSUME NEW p, Base(p), ctl[p].pc \in ApplySteps
                         PROVE  /\ Follows(Snap(p), Cluster) /\ Backed(Snap(p)) /\ RefOK(Snap(p))
                                /\ Cluster.uid = Snap(p).uid /\ Cluster.fin
                                /\ Exists(Cluster) /\ Exists(Snap(p))
<1>1. Behind(p, Snap(p))
  BY DEF Base, Order, OrderOf, Behind, Snap
<1>2. Follows(Snap(p), Cluster) /\ Backed(Snap(p))
  BY <1>1, StoredInOrder DEF Base, Behind
<1>3. RefOK(Snap(p))
  BY DEF Base, View, StepInv, Snap
<1> QED BY <1>2, <1>3, SnapshotHolds, StoredOK DEF Base, Exists

\* From the login on, a reconcile knows the storage and the Secret.
LEMMA Committed == ASSUME NEW p, Base(p), NEW r, r = ctl[p],
                          r.pc \in {"getSecret", "postSql"} \/ (r.pc = "setPhase" /\ r.goal = "InProgress")
                   PROVE  /\ Cluster.fin /\ Exists(Cluster)
                          /\ Cluster.backend = Snap(p).backend /\ Cluster.backend # "none"
                          /\ Cluster.rootRef = Snap(p).rootRef /\ Cluster.rootRef # "none"
                          /\ r.pc # "getSecret" => Cluster.rootRef \in {"auto", "user"}
<1>1. r.pc \in ApplySteps
  BY DEF ApplySteps, CleanupSteps, Steps
<1>2. Snap(p).phase = "InCreation" /\ (r.pc # "getSecret" => Snap(p).rootRef # "nameless")
  <2>1. StepOrder(r)
    BY DEF Base, Order, OrderOf
  <2> QED BY <2>1 DEF StepOrder, MayWrite, AfterNew, Serving, Snap
<1>3. Cluster.rootRef \in Refs
  BY FeedType DEF Base, Version
<1> QED BY <1>1, <1>2, <1>3, SnapshotInOrder DEF Follows, Backed, RefOK, Started, Refs

-----------------------------------------------------------------------------
(* What one step does to what is stored, and to what the process has in view. *)

\* How the Cluster may be written.
Rewritten(p) ==
  \/ Cluster' = Cluster
  \/ AddFinalizer(p) /\ Exists(Cluster) /\ ~Cluster.fin /\ Cluster' = [Cluster EXCEPT !.fin = TRUE]
  \/ SetPhase(p) /\ Exists(Cluster) /\ Cluster' = [Cluster EXCEPT !.phase = ctl[p].goal]
  \/ PersistRef(p) /\ Exists(Cluster) /\ Cluster' = [Cluster EXCEPT !.rootRef = "auto"]
  \/ RemoveFinalizer(p) /\ Cluster.fin /\ (Cluster' = Absent \/ Cluster' = [Cluster EXCEPT !.fin = FALSE])
  \/ UserDelete /\ Cluster.fin /\ Cluster' = [Cluster EXCEPT !.deleting = TRUE]
  \/ UserDelete /\ ~Cluster.fin /\ Cluster' = Absent
  \/ \E b \in Backends, r \in RootRefs :
       \/ UserCreate(b, r) /\ Cluster' = [Absent EXCEPT !.uid = lastUid + 1, !.backend = b, !.rootRef = r]
       \/ UserEdit(b, r) /\ Cluster.backend = "none" /\ Cluster' = [Cluster EXCEPT !.backend = b]
       \/ UserEdit(b, r) /\ Cluster.rootRef = "none" /\ Cluster' = [Cluster EXCEPT !.rootRef = r]

LEMMA ClusterFrom == ASSUME NEW p, Base(p), Next PROVE Rewritten(p)
<1>1. ASSUME UNCHANGED log PROVE Cluster' = Cluster
  BY <1>1 DEF Cluster
<1>2. ASSUME NEW c \in Controllers, Step(c) \/ Watch(c) \/ Crash(c)
      PROVE  \/ UNCHANGED log
             \/ AddFinalizer(p) \/ SetPhase(p) \/ PersistRef(p) \/ RemoveFinalizer(p)
  <2>1. c = p
    BY DEF Base, Alone
  <2>2. CASE Start(p)
    BY <2>1, <2>2, StartStores DEF object
  <2>3. CASE Applies(p)
    BY <2>3, AppliesChild DEF object
  <2>4. CASE GetChild(p) \/ DeleteChild(p) \/ Publish(p) \/ Watch(p) \/ Crash(p)
    BY <2>4 DEF GetChild, DeleteChild, Publish, Read, object, Watch, Crash, Restart
  <2> QED BY <1>2, <2>1, <2>2, <2>3, <2>4 DEF Step, Applies
<1>3. CASE AddFinalizer(p)
  BY <1>1, <1>3, Stored DEF Base, AddFinalizer, Write, object, Rewritten
<1>4. CASE SetPhase(p)
  BY <1>1, <1>4, Stored DEF Base, SetPhase, Write, object, Rewritten
<1>5. CASE PersistRef(p)
  BY <1>1, <1>5, Stored DEF Base, PersistRef, Write, object, Rewritten
<1>6. CASE RemoveFinalizer(p)
  BY <1>1, <1>6, Stored DEF Base, RemoveFinalizer, Write, object, Rewritten
<1>7. CASE Platform \/ PodLost
  BY <1>1, <1>7 DEF Platform, PodLost, PodUp, PodRetire, TidbBecomesReady, GarbageCollect, Rewritten
<1>8. CASE Users
  <2>1. CASE UserDelete
    BY <2>1, Stored DEF Base, UserDelete, Rewritten
  <2>2. ASSUME NEW b \in Backends, NEW r \in RootRefs, UserCreate(b, r)
        PROVE  Cluster' = [Absent EXCEPT !.uid = lastUid + 1, !.backend = b, !.rootRef = r]
    BY <2>2, Stored DEF Base, UserCreate
  <2>3. ASSUME NEW b \in Backends, NEW r \in RootRefs, UserEdit(b, r)
        PROVE  \/ Cluster.backend = "none" /\ Cluster' = [Cluster EXCEPT !.backend = b]
               \/ Cluster.rootRef = "none" /\ Cluster' = [Cluster EXCEPT !.rootRef = r]
    BY <2>3, Stored DEF Base, UserEdit
  <2>4. ASSUME NEW k \in Foreign, UserPrecreate(k) PROVE Cluster' = Cluster
    BY <2>4 DEF UserPrecreate, Cluster
  <2> QED BY <1>8, <2>1, <2>2, <2>3, <2>4 DEF Users, Rewritten
<1>9. UNCHANGED log => Rewritten(p)
  BY <1>1 DEF Rewritten
<1> QED BY <1>2, <1>3, <1>4, <1>5, <1>6, <1>7, <1>8, <1>9 DEF Next

\* What a process has in view is what it had before, or what is stored now.
LEMMA FeedFrom == ASSUME NEW p, Base(p), TypeInv', Len(log) = 1, Next, NEW i \in DOMAIN feed'[p]
                  PROVE  \/ feed'[p][i] = Cluster'
                         \/ \E j \in DOMAIN feed[p] : feed'[p][i] = feed[p][j]
<1> DEFINE Known(v) == v = Cluster' \/ \E j \in DOMAIN feed[p] : v = feed[p][j]
<1>1. CASE UNCHANGED object
  BY <1>1 DEF object
<1>2. ASSUME NEW v, Store(v) PROVE Known(feed'[p][i])
  <2>1. CASE v = Cluster
    BY <1>1, <1>2, <2>1 DEF Store
  <2>2. CASE v # Cluster
    <3>1. v \in Version
      <4>1. Cluster' \in Version
        BY EndsType DEF TypeInv, ObjectOK, Cluster
      <4> QED BY <1>2, <4>1, Stored DEF Base
    <3>2. PICK G : /\ feed'[p] = G /\ DOMAIN G = 1..(Len(feed[p]) + 1)
                   /\ \A j \in DOMAIN feed[p] : G[j] = feed[p][j]
                   /\ G[Len(feed[p]) + 1] = Cluster'
      BY <1>2, <2>2, <3>1, StoreFeed DEF Base
    <3>3. i \in DOMAIN feed[p] \/ i = Len(feed[p]) + 1
      BY <3>2, FeedType DEF Base
    <3> QED BY <3>2, <3>3
  <2> QED BY <2>1, <2>2
<1>3. CASE Watch(p)
  <2>1. feed'[p] = Tail(feed[p]) /\ Len(feed[p]) > 1
    BY <1>3, FeedType DEF Base, Watch, TypeInv, ObjectOK
  <2>2. ASSUME NEW H \in Seq(Version), NEW G, G = Tail(H), Len(H) > 1, NEW k \in DOMAIN G
        PROVE  k + 1 \in DOMAIN H /\ G[k] = H[k + 1]
    BY <2>2
  <2>3. i + 1 \in DOMAIN feed[p] /\ feed'[p][i] = feed[p][i + 1]
    BY <2>1, <2>2, FeedType DEF Base
  <2> QED BY <2>3
<1>4. CASE Crash(p)
  <2>1. PICK k \in 1..Len(log) : feed' = [feed EXCEPT ![p] = SubSeq(log, k, Len(log))]
    BY <1>4 DEF Crash, Restart
  <2>2. ASSUME NEW s \in Seq(Version), Len(s) = 1, NEW G, G = SubSeq(s, 1, 1), NEW m \in DOMAIN G
        PROVE  G[m] = s[1]
    BY <2>2
  <2>3. feed'[p] = SubSeq(log, 1, 1) /\ log \in Seq(Version)
    BY <2>1, FeedType DEF Base, TypeInv, ObjectOK
  <2>4. feed'[p][i] = log[1]
    BY <2>2, <2>3
  <2> QED BY <1>4, <2>4 DEF Crash, Restart, Cluster
<1>5. ASSUME NEW c \in Controllers PROVE c = p
  BY DEF Base, Alone
<1> QED BY <1>1, <1>2, <1>3, <1>4, <1>5, ObjectSteps

\* A reconcile keeps the snapshot it began with.
LEMMA SnapFrom == ASSUME NEW p, Base(p), Next, ctl'[p].pc \in ApplySteps
                  PROVE  \/ ctl[p].pc \in ApplySteps /\ Snap(p)' = Snap(p)
                         \/ Start(p) /\ Snap(p)' = Cached(p)
<1>1. CASE ctl' = ctl
  BY <1>1 DEF Snap
<1>2. CASE Start(p) /\ ctl' # ctl
  <2>1. PICK pc \in Steps, goal \in Phases : Begin(p, pc, goal)
    BY <1>2 DEF Start, ReconcileGone, ReconcileUnfinalized, ReconcileDeleted, ReconcileNew, AfterNew,
       ReconcilePreparing, ReconcileInCreation, ReconcileServing, ReconcileError, Steps, Phases
  <2> QED BY <1>2, <2>1, BeginView, FeedType DEF Base, Snap
<1>3. CASE Applies(p) \/ SetPhase(p) \/ PersistRef(p)
  <2>1. ctl[p].pc \in ApplySteps
    BY <1>3, AppliesChild DEF SetPhase, PersistRef, ApplySteps, CleanupSteps, Steps
  <2>2. ctl'[p] = Idle \/ ctl'[p].snap = ctl[p].snap
    <3>1. MovesOn(p)
      BY <1>3, AppliesMovesOn
    <3>2. ASSUME NEW w, ctl' = [ctl EXCEPT ![p].pc = "postSql", ![p].cred = w]
          PROVE  ctl'[p].snap = ctl[p].snap
      BY <3>2, FeedType DEF Base, TypeInv, ProcessOK, Record
    <3> QED BY <3>1, <3>2, RestingIdle, GotoRecord, GotoPhaseRecord DEF MovesOn, Base
  <2> QED BY <2>1, <2>2 DEF Snap, Idle, ApplySteps
<1>4. ASSUME NEW c \in Controllers, Step(c) \/ Watch(c) \/ Crash(c)
      PROVE  \/ ctl' = ctl \/ Start(p) \/ Applies(p) \/ SetPhase(p) \/ PersistRef(p)
  <2>1. c = p
    BY DEF Base, Alone
  <2>2. CASE Watch(p)
    BY <2>2 DEF Watch
  <2>3. CASE Crash(p) \/ AddFinalizer(p) \/ RemoveFinalizer(p)
    <3>1. ctl'[p] = Idle
      BY <2>3, RestingIdle, FeedType
         DEF Base, Crash, Restart, AddFinalizer, RemoveFinalizer, Write, TypeInv, ProcessOK
    <3> QED BY <3>1 DEF Idle, ApplySteps
  <2>4. CASE GetChild(p) \/ DeleteChild(p) \/ Publish(p)
    <3>1. \/ Requeue(p)
          \/ NextChild(p) \/ Goto(p, "deleteChild") \/ Goto(p, "removeFinalizer")
      BY <2>4 DEF GetChild, DeleteChild, Publish, Read, Write
    <3>2. ctl'[p].pc \in {"idle"} \union CleanupSteps
      <4>1. CASE Requeue(p)
        BY <4>1, RestingIdle DEF Base, Idle
      <4>2. CASE ~Requeue(p)
        <5>1. \/ ctl' = [ctl EXCEPT ![p].kind = @ + 1, ![p].pc = "getChild"]
              \/ ctl' = [ctl EXCEPT ![p].pc = "publish"]
              \/ Goto(p, "deleteChild") \/ Goto(p, "removeFinalizer")
          BY <3>1, <4>2 DEF NextChild
        <5> QED BY <5>1, FeedType DEF Base, Goto, TypeInv, ProcessOK, Record, CleanupSteps
      <4> QED BY <4>1, <4>2
    <3> QED BY <3>2 DEF ApplySteps
  <2> QED BY <1>4, <2>1, <2>2, <2>3, <2>4 DEF Step, Applies
<1>5. CASE Users \/ Platform \/ PodLost
  BY <1>1, <1>5 DEF Users, UserCreate, UserEdit, UserDelete, UserPrecreate, Platform, PodLost, PodUp,
     PodRetire, TidbBecomesReady, GarbageCollect, Outside
<1> QED BY <1>1, <1>2, <1>3, <1>4, <1>5 DEF Next

LEMMA LiveIsPristine == ASSUME NEW p, Base(p), Live(Cluster) PROVE Pristine(p)
<1>1. Len(feed[p]) \in DOMAIN feed[p] /\ feed[p][Len(feed[p])] = Cluster
  BY FeedType, StoredOK DEF Base
<1> QED BY <1>1 DEF Pristine, Untouched

\* Only a finalizer that is added brings a Cluster into the hands of the process.
LEMMA NeverReborn == ASSUME NEW p, Base(p), TypeInv', View(p)', Len(log) = 1, Next, Pristine(p)'
                     PROVE  Pristine(p) \/ (AddFinalizer(p) /\ ~Cluster.fin)
<1>1. CASE ctl'[p].pc \in ApplySteps
  <2>1. CASE ctl[p].pc \in ApplySteps
    BY <2>1 DEF Pristine, Untouched
  <2>2. CASE Snap(p)' = Cached(p)
    <3>1. Live(Snap(p))'
      BY <1>1 DEF View, StepInv, Snap
    <3>2. Live(feed[p][1]) /\ 1 \in DOMAIN feed[p]
      BY <2>2, <3>1, FeedType DEF Base, Live
    <3> QED BY <3>2 DEF Pristine, Untouched
  <2> QED BY <1>1, <2>1, <2>2, SnapFrom
<1>2. ASSUME NEW i \in DOMAIN feed'[p], Live(feed'[p][i])
      PROVE  Pristine(p) \/ (AddFinalizer(p) /\ ~Cluster.fin)
  <2>1. CASE \E j \in DOMAIN feed[p] : feed'[p][i] = feed[p][j]
    BY <1>2, <2>1 DEF Pristine, Untouched
  <2>2. CASE Live(Cluster')
    <3>1. Live(Cluster) \/ (AddFinalizer(p) /\ ~Cluster.fin)
      <4>1. Cluster \in Version
        BY FeedType DEF Base
      <4>2. PICK v : v = Cluster'
        OBVIOUS
      <4>3. CASE \/ \E e : v = [Cluster EXCEPT !.phase = e]
                 \/ \E e : v = [Cluster EXCEPT !.rootRef = e]
                 \/ \E e : v = [Cluster EXCEPT !.backend = e]
        <5>1. v.fin = Cluster.fin /\ v.deleting = Cluster.deleting
          BY <4>1, <4>3 DEF Version
        <5> QED BY <2>2, <4>2, <5>1 DEF Live
      <4>4. CASE \/ v = Absent \/ v = [Cluster EXCEPT !.fin = FALSE] \/ v = [Cluster EXCEPT !.deleting = TRUE]
                 \/ \E u, b, r : v = [Absent EXCEPT !.uid = u, !.backend = b, !.rootRef = r]
        <5>1. v = Absent => ~Live(v)
          BY DEF Absent, Live
        <5>2. v = [Cluster EXCEPT !.fin = FALSE] => ~v.fin
          BY <4>1 DEF Version
        <5>3. v = [Cluster EXCEPT !.deleting = TRUE] => v.deleting
          BY <4>1 DEF Version
        <5>4. ASSUME NEW u, NEW b, NEW r, v = [Absent EXCEPT !.uid = u, !.backend = b, !.rootRef = r]
              PROVE  ~v.fin
          BY <5>4 DEF Absent
        <5>5. ~Live(v)
          <6>1. CASE \E u, b, r : v = [Absent EXCEPT !.uid = u, !.backend = b, !.rootRef = r]
            BY <5>4, <6>1 DEF Live
          <6> QED BY <4>4, <5>1, <5>2, <5>3, <6>1 DEF Live
        <5> QED BY <2>2, <4>2, <5>5
      <4>5. CASE \E b \in Backends, r \in RootRefs :
                   \/ v = [Absent EXCEPT !.uid = lastUid + 1, !.backend = b, !.rootRef = r]
                   \/ v = [Cluster EXCEPT !.backend = b] \/ v = [Cluster EXCEPT !.rootRef = r]
        BY <4>3, <4>4, <4>5
      <4>6. CASE v = Cluster \/ (AddFinalizer(p) /\ ~Cluster.fin)
        BY <2>2, <4>2, <4>6
      <4>7. CASE \/ v = [Cluster EXCEPT !.phase = ctl[p].goal] \/ v = [Cluster EXCEPT !.rootRef = "auto"]
        BY <4>3, <4>7
      <4> QED BY <4>2, <4>4, <4>5, <4>6, <4>7, ClusterFrom DEF Rewritten
    <3> QED BY <3>1, LiveIsPristine
  <2> QED BY <1>2, <2>1, <2>2, FeedFrom
<1> QED BY <1>1, <1>2 DEF Pristine, Untouched

-----------------------------------------------------------------------------
(* What a root user says of the versions, whatever DEFINE USER does to one  *)
(* that exists.                                                            *)

Closed(p) == /\ HasRoot => lastUid > 0
             /\ HasRoot /\ lastUid = 1 => ClosedOf(ctl[p], feed[p])

\* Where the phase of a Cluster comes from.
LEMMA PhaseFrom == ASSUME NEW p, Base(p), Next, Exists(Cluster')
                   PROVE  \/ Exists(Cluster) /\ Cluster'.phase = Cluster.phase /\ lastUid' = lastUid
                          \/ SetPhase(p) /\ Cluster'.phase = ctl[p].goal /\ lastUid' = lastUid
                          \/ lastUid' = lastUid + 1 /\ rootPw' = rootPw /\ Cluster'.phase = "New"
<1> DEFINE Kept == Exists(Cluster) /\ Cluster'.phase = Cluster.phase /\ lastUid' = lastUid
<1>1. Cluster \in Version
  BY FeedType DEF Base
<1>2. CASE UNCHANGED log /\ lastUid' = lastUid
  BY <1>2 DEF Cluster
<1>3. ASSUME NEW v, Store(v), v.uid = Cluster.uid, v.phase = Cluster.phase, lastUid' = lastUid PROVE Kept
  BY <1>3, Stored DEF Base, Exists
<1>4. CASE SetPhase(p)
  <2> DEFINE v == [Cluster EXCEPT !.phase = ctl[p].goal]
  <2>1. lastUid' = lastUid /\ (UNCHANGED log \/ Store(v))
    BY <1>4 DEF SetPhase, Write, object
  <2>2. v.phase = ctl[p].goal
    BY <1>1 DEF Version
  <2>3. CASE Store(v)
    BY <1>4, <2>1, <2>2, <2>3, Stored DEF Base
  <2> QED BY <1>2, <2>1, <2>3
<1>5. CASE PersistRef(p)
  <2>1. lastUid' = lastUid /\ (UNCHANGED log \/ Store([Cluster EXCEPT !.rootRef = "auto"]))
    BY <1>5 DEF PersistRef, Write, object
  <2> QED BY <1>1, <1>2, <1>3, <2>1 DEF Version
<1>6. CASE AddFinalizer(p)
  <2>1. lastUid' = lastUid /\ (UNCHANGED log \/ Store([Cluster EXCEPT !.fin = TRUE]))
    BY <1>6 DEF AddFinalizer, Write, object
  <2> QED BY <1>1, <1>2, <1>3, <2>1 DEF Version
<1>7. CASE RemoveFinalizer(p)
  <2>1. lastUid' = lastUid /\ (UNCHANGED log \/ Store(Absent) \/ Store([Cluster EXCEPT !.fin = FALSE]))
    BY <1>7 DEF RemoveFinalizer, Write, object
  <2>2. ~Store(Absent)
    BY Stored DEF Base, Exists, Absent
  <2> QED BY <1>1, <1>2, <1>3, <2>1, <2>2 DEF Version
<1>8. CASE Users
  <2>1. CASE UserDelete
    <3>1. lastUid' = lastUid /\ (Store(Absent) \/ Store([Cluster EXCEPT !.deleting = TRUE]))
      BY <2>1 DEF UserDelete
    <3>2. ~Store(Absent)
      BY Stored DEF Base, Exists, Absent
    <3> QED BY <1>1, <1>3, <3>1, <3>2 DEF Version
  <2>2. ASSUME NEW b \in Backends, NEW r \in RootRefs, UserEdit(b, r) PROVE Kept
    <3>1. lastUid' = lastUid /\ (Store([Cluster EXCEPT !.backend = b]) \/ Store([Cluster EXCEPT !.rootRef = r]))
      BY <2>2 DEF UserEdit
    <3> QED BY <1>1, <1>3, <3>1 DEF Version
  <2>3. ASSUME NEW b \in Backends, NEW r \in RootRefs, UserCreate(b, r)
        PROVE  lastUid' = lastUid + 1 /\ rootPw' = rootPw /\ Cluster'.phase = "New"
    <3>1. PICK v : v = [Absent EXCEPT !.uid = lastUid + 1, !.backend = b, !.rootRef = r]
      OBVIOUS
    <3>2. Store(v) /\ v.phase = "New"
      BY <2>3, <3>1 DEF UserCreate, Absent
    <3> QED BY <2>3, <3>2, Stored DEF Base, UserCreate, objects
  <2>4. ASSUME NEW k \in Foreign, UserPrecreate(k) PROVE UNCHANGED log /\ lastUid' = lastUid
    BY <2>4 DEF UserPrecreate
  <2> QED BY <1>2, <1>8, <2>1, <2>2, <2>3, <2>4 DEF Users
<1>9. CASE Start(p)
  <2>1. UNCHANGED log /\ lastUid' = lastUid
    BY <1>9 DEF Start, ReconcileGone, ReconcileUnfinalized, ReconcileDeleted, ReconcileNew, ReconcilePreparing,
       ReconcileInCreation, ReconcileServing, ReconcileError, Begin, object
  <2> QED BY <1>2, <2>1
<1>10. ASSUME ~Start(p), ~AddFinalizer(p), ~SetPhase(p), ~PersistRef(p), ~RemoveFinalizer(p),
              NEW c \in Controllers, Step(c) \/ Watch(c) \/ Crash(c)
       PROVE  UNCHANGED log /\ lastUid' = lastUid
  <2>1. c = p
    BY DEF Base, Alone
  <2> QED BY <1>10, <2>1 DEF Step, CreateSecret, ApplyDeployment, ApplyService, CreateTidb, PostSql,
             DeleteChild, GetTidb, CheckReady, GetSecret, GetChild, Publish, Read, object,
             Watch, Crash, Restart
<1>11. CASE Platform \/ PodLost
  BY <1>2, <1>11 DEF Platform, PodLost, PodUp, PodRetire, TidbBecomesReady, GarbageCollect
<1> QED BY <1>2, <1>4, <1>5, <1>6, <1>7, <1>8, <1>9, <1>10, <1>11 DEF Next

\* Only the bootstrap gives storage a root user.
LEMMA RootFrom == ASSUME NEW p, Base(p), Next, rootPw' # rootPw
                  PROVE  PostSql(p)
<1>1. CASE Users \/ Platform \/ PodLost
  BY <1>1 DEF Users, UserCreate, UserEdit, UserDelete, UserPrecreate, Platform, PodLost, PodUp, PodRetire,
     TidbBecomesReady, GarbageCollect, RemoveChild, objects
<1>2. ASSUME NEW c \in Controllers, Step(c) \/ Watch(c) \/ Crash(c), ~Start(c), ~PostSql(c)
      PROVE  FALSE
  BY <1>2 DEF Step, AddFinalizer, SetPhase, PersistRef, RemoveFinalizer, CreateSecret, ApplyDeployment,
     ApplyService, CreateTidb, DeleteChild, RemoveChild, Write, GetTidb, CheckReady, GetSecret, GetChild,
     Publish, Read, objects, Watch, Crash, Restart
<1>3. ASSUME NEW c \in Controllers, Start(c) PROVE FALSE
  BY <1>3, StartStores DEF objects
<1>4. ASSUME NEW c \in Controllers PROVE c = p
  BY DEF Base, Alone
<1> QED BY <1>1, <1>2, <1>3, <1>4 DEF Next

-----------------------------------------------------------------------------
(* Closed is inductive.                                                    *)

\* The login that makes a root user is of a reconcile of InCreation, and the
\* incarnation has not been in an earlier phase since.
LEMMA FirstLoginCloses == ASSUME NEW p, Base(p), PostSql(p)
                          PROVE  lastUid > 0 /\ (lastUid = 1 => ClosedOf(ctl[p], feed[p]))
<1>1. ctl[p].pc \in ApplySteps
  BY DEF PostSql, ApplySteps, CleanupSteps, Steps
<1>2. PICK s : s = ctl[p].snap /\ s.phase = "InCreation"
  BY DEF Base, Order, OrderOf, StepOrder, PostSql
<1>3. \A i \in DOMAIN feed[p] : feed[p][i].uid <= lastUid /\ Follows(s, feed[p][i])
  BY <1>1, <1>2 DEF Base, Order, OrderOf
<1>4. Exists(s) /\ s.uid <= lastUid
  BY <1>1, <1>2, SnapshotInOrder, StoredInOrder DEF Base, Snap
<1>5. s.uid \in Nat /\ lastUid \in Nat /\ \A i \in DOMAIN feed[p] : feed[p][i].uid \in Nat
  <2>1. feed[p] \in Seq(Version) /\ lastUid \in Nat
    BY FeedType DEF Base, TypeInv, ObjectOK
  <2>2. s \in Version /\ \A i \in DOMAIN feed[p] : feed[p][i] \in Version
    BY <1>2, <2>1, FeedType, VersionsType DEF Base, Snap
  <2> QED BY <2>1, <2>2 DEF Version
<1>6. lastUid = 1 => \A i \in DOMAIN feed[p] : Exists(feed[p][i]) => feed[p][i].uid = s.uid
  BY <1>3, <1>4, <1>5 DEF Exists
<1>7. lastUid = 1 => \A i \in DOMAIN feed[p] : Exists(feed[p][i]) => ~Opens(feed[p][i])
  BY <1>2, <1>3, <1>4, <1>6 DEF Opens, Follows, MayBecome, Serving
<1> QED BY <1>2, <1>4, <1>5, <1>7 DEF ClosedOf, Opens, Exists

LEMMA StaysClosed == ASSUME NEW p, Base(p), TypeInv', Len(log) = 1, Next, lastUid' = lastUid,
                            ClosedOf(ctl[p], feed[p])
                     PROVE  ClosedOf(ctl[p], feed[p])'
<1>1. Exists(Cluster) => ~Opens(Cluster)
  BY StoredOK, FeedType DEF Base, ClosedOf
<1>2. Exists(Cluster') => ~Opens(Cluster')
  <2>1. SetPhase(p) => ctl[p].goal \notin {"New", "Preparing"}
    <3>1. SetPhase(p) => ctl[p].pc = "setPhase" /\ ctl[p].pc \in ApplySteps
      BY DEF SetPhase, ApplySteps, CleanupSteps, Steps
    <3> QED BY <3>1 DEF Base, Order, OrderOf, StepOrder, ClosedOf, Opens, MayWrite
  <2>2. lastUid' # lastUid + 1
    BY DEF Base, TypeInv, ObjectOK
  <2> QED BY <1>1, <2>1, <2>2, PhaseFrom DEF Opens
<1>3. \A i \in DOMAIN feed'[p] : Exists(feed'[p][i]) => ~Opens(feed'[p][i])
  BY <1>2, FeedFrom DEF ClosedOf
<1>4. ctl'[p].pc \in ApplySteps => ~Opens(ctl'[p].snap)
  <2>1. Start(p) /\ ctl'[p].pc \in ApplySteps /\ Snap(p)' = Cached(p) => ~Opens(Cached(p))
    <3>1. 1 \in DOMAIN feed[p] /\ Cached(p) = feed[p][1]
      BY FeedType DEF Base, Cached
    <3>2. Start(p) /\ ctl'[p].pc \in ApplySteps => Exists(Cached(p)) \/ ctl' = ctl
      <4>1. \A i \in DOMAIN feed[p] : feed[p][i].fin => Exists(feed[p][i])
        BY DEF Base, View, FeedInv
      <4> QED BY <3>1, <4>1 DEF Start, ReconcileGone, ReconcileUnfinalized, ReconcileDeleted, ReconcileNew, ReconcilePreparing,
             ReconcileInCreation, ReconcileServing, ReconcileError, Live
    <3> QED BY <3>1, <3>2 DEF ClosedOf, Snap
  <2> QED BY <2>1, SnapFrom DEF ClosedOf, Snap
<1> QED BY <1>3, <1>4 DEF ClosedOf

\* Only users begin a new incarnation.
LEMMA RaisesUid == ASSUME Next, lastUid' # lastUid
                   PROVE  \E b \in Backends, r \in RootRefs : UserCreate(b, r)
<1>1. ASSUME NEW c \in Controllers, Step(c) \/ Watch(c) \/ Crash(c), ~Start(c)
      PROVE  FALSE
  BY <1>1 DEF Step, AddFinalizer, SetPhase, PersistRef, RemoveFinalizer, CreateSecret, ApplyDeployment,
     ApplyService, CreateTidb, DeleteChild, Write, GetTidb, CheckReady, GetSecret, GetChild, PostSql,
     Publish, Read, Watch, Crash, Restart
<1>2. ASSUME NEW c \in Controllers, Start(c) PROVE FALSE
  BY <1>2 DEF Start, ReconcileGone, ReconcileUnfinalized, ReconcileDeleted, ReconcileNew, ReconcilePreparing,
     ReconcileInCreation, ReconcileServing, ReconcileError, Begin
<1>3. CASE Platform \/ PodLost
  BY <1>3 DEF Platform, PodLost, PodUp, PodRetire, TidbBecomesReady, GarbageCollect
<1>4. CASE Users
  BY <1>4 DEF Users, UserEdit, UserDelete, UserPrecreate
<1> QED BY <1>1, <1>2, <1>3, <1>4 DEF Next

LEMMA UidFrom == ASSUME NEW p, Base(p), Next, lastUid' # lastUid
                 PROVE  lastUid' = lastUid + 1 /\ rootPw' = rootPw /\ ~Exists(Cluster) /\ lastUid \in Nat
<1>1. ASSUME NEW b \in Backends, NEW r \in RootRefs, UserCreate(b, r)
      PROVE  lastUid' = lastUid + 1 /\ rootPw' = rootPw /\ ~Exists(Cluster)
  BY <1>1 DEF UserCreate, objects
<1>2. \E b \in Backends, r \in RootRefs : UserCreate(b, r)
  BY RaisesUid
<1> QED BY <1>1, <1>2 DEF Base, TypeInv, ObjectOK

LEMMA NextClosed == ASSUME NEW p, Base(p), TypeInv', Len(log) = 1, Next, Closed(p)
                    PROVE  Closed(p)'
<1>1. HasRoot' => HasRoot \/ PostSql(p)
  BY RootFrom DEF HasRoot
<1>2. CASE lastUid' = lastUid
  <2>1. HasRoot' => lastUid > 0
    BY <1>1, FirstLoginCloses DEF Closed
  <2>2. HasRoot' /\ lastUid = 1 => ClosedOf(ctl[p], feed[p])
    BY <1>1, FirstLoginCloses DEF Closed
  <2> QED BY <1>2, <2>1, <2>2, StaysClosed DEF Closed
<1>3. CASE lastUid' # lastUid
  <2>1. lastUid' = lastUid + 1 /\ rootPw' = rootPw /\ lastUid \in Nat
    BY <1>3, UidFrom
  <2>2. HasRoot' => HasRoot
    BY <2>1 DEF HasRoot
  <2> QED BY <2>1, <2>2 DEF Closed
<1> QED BY <1>2, <1>3

-----------------------------------------------------------------------------
AInv(p) == OInv(p) /\ CInv(p) /\ Closed(p)

LEMMA InitClosed == ASSUME NEW p, Alone(p), Init PROVE AInv(p)
<1>1. ~HasRoot
  BY DEF Init, HasRoot
<1> QED BY <1>1, InitOrder, InitSweep DEF AInv, Closed

LEMMA NextAccess == ASSUME NEW p, Alone(p), AInv(p), [Next]_vars PROVE AInv(p)'
<1>1. OInv(p)' /\ CInv(p)' /\ TypeInv'
  BY NextOrder, NextSweep DEF AInv, OInv, IInv
<1>2. Base(p) /\ Len(log) = 1
  BY DEF Base, AInv, OInv, CInv, IInv
<1>3. CASE UNCHANGED vars
  BY <1>1, <1>3 DEF vars, AInv, Closed, ClosedOf, HasRoot
<1>4. CASE Next
  BY <1>1, <1>2, <1>4, NextClosed DEF AInv
<1> QED BY <1>3, <1>4

LEMMA AccessHolds == ASSUME NEW CONSTANT p, Alone(p) PROVE Spec => []AInv(p)
<1>1. Init => AInv(p)
  BY InitClosed
<1>2. AInv(p) /\ [Next]_vars => AInv(p)'
  BY NextAccess
<1> QED BY <1>1, <1>2, PTL DEF Spec

-----------------------------------------------------------------------------
(* What nothing changes, and a process at rest.                            *)

\* The step does not make it so.
Keeps(p) == (Pristine(p)' => Pristine(p)) /\ (Definable' => Definable)

LEMMA Applying == ASSUME NEW p, ctl[p].pc \in ApplySteps PROVE Pristine(p)
  BY DEF Pristine, Untouched

LEMMA CleanupBegun == ASSUME NEW p, Base(p), ctl[p].pc \in CleanupSteps PROVE ~Pristine(p)
  BY DEF Base, View, StepInv, Pristine, Untouched, ApplySteps

LEMMA SameGranted == ASSUME NEW p, Sound(p), Keeps(p), Cluster' = Cluster,
                            secretPw' = secretPw, rootPw' = rootPw,
                            child["secret"] # NoObject => child'["secret"] # NoObject
                     PROVE  /\ Sound(p)'
                            /\ \A r : StepGranted(r) => StepGranted(r)'
  BY DEF Sound, ObjectGranted, Fresh, Keeps, Pristine, RefPw, StepGranted, Granted

\* A process at any other step has nothing in hand.
LEMMA EmptyHanded == ASSUME NEW p, NEW r, r = ctl'[p], r.pc \notin {"persistRef", "postSql"},
                            r.pc = "setPhase" => r.goal # "InProgress"
                     PROVE  StepGranted(ctl[p])'
  BY DEF StepGranted

LEMMA RestingEmpty == ASSUME NEW p, Base(p), Requeue(p) \/ AwaitChange(p)
                      PROVE  StepGranted(ctl[p])'
<1>1. ctl'[p] = Idle
  BY RestingIdle DEF Base
<1> QED BY <1>1, EmptyHanded DEF Idle

LEMMA SecretChild == ASSUME TypeInv PROVE child \in [Kinds -> Int] /\ "secret" \in Kinds
  BY DEF TypeInv, ChildrenOK, Kinds

-----------------------------------------------------------------------------
(* The start of a reconcile, and the requests that leave the credentials.  *)

LEMMA StartGranted == ASSUME NEW p, Base(p), Trusted(p), Keeps(p), Start(p)
                      PROVE  Trusted(p)'
<1>1. Cluster' = Cluster /\ secretPw' = secretPw /\ rootPw' = rootPw /\ child' = child
  BY StartStores, Same DEF objects, Alone, Base
<1>2. Sound(p)' /\ (StepGranted(ctl[p]) => (ctl' = ctl => StepGranted(ctl[p])'))
  BY <1>1, SameGranted DEF Trusted
<1>3. CASE ReconcileGone(p)
  BY <1>2, <1>3 DEF ReconcileGone, Trusted
<1>4. CASE ~ReconcileGone(p)
  <2>1. PICK pc \in Steps, goal \in Phases :
          /\ pc \notin {"persistRef", "postSql"} /\ goal # "InProgress" /\ Begin(p, pc, goal)
    BY <1>4 DEF Start, ReconcileUnfinalized, ReconcileDeleted, ReconcileNew, AfterNew,
       ReconcilePreparing, ReconcileInCreation, ReconcileServing, ReconcileError, Steps, Phases
  <2>2. PICK r : r = ctl'[p] /\ r.pc = pc /\ r.goal = goal
    BY <2>1, BeginView DEF Base
  <2> QED BY <1>2, <2>1, <2>2, EmptyHanded DEF Trusted
<1> QED BY <1>3, <1>4

LEMMA OtherRequestsGranted ==
  ASSUME NEW p, Base(p), Trusted(p), Keeps(p),
         \/ CreateTidb(p) \/ GetTidb(p) \/ ApplyDeployment(p) \/ ApplyService(p) \/ CheckReady(p)
  PROVE  Trusted(p)'
<1>1. Cluster' = Cluster /\ secretPw' = secretPw /\ rootPw' = rootPw
  BY Same, AppliesChild
     DEF Base, Applies, CreateTidb, GetTidb, ApplyDeployment, ApplyService, CheckReady, Read, objects
<1>2. child["secret"] # NoObject => child'["secret"] # NoObject
  <2>1. child' = child \/ \E k \in Kinds : child' = [child EXCEPT ![k] = Snap(p).uid]
    BY AppliesChild DEF Applies
  <2>2. Snap(p).uid # NoObject
    BY AppliesChild, SnapshotInOrder DEF Applies, NoObject, Exists
  <2> QED BY <2>1, <2>2, SecretChild DEF Base
<1>3. StepGranted(ctl[p])'
  <2>1. \/ Requeue(p)
        \/ \E pc \in {"getTidb", "applyService", "checkReady", "getSecret"} : Goto(p, pc)
        \/ \E g \in {"InCreation", "Ready", "NotReady"} : GotoPhase(p, g)
    <3>1. CASE CreateTidb(p) \/ GetTidb(p) \/ ApplyDeployment(p)
      BY <3>1 DEF CreateTidb, GetTidb, ApplyDeployment, Write, Read
    <3>2. CASE ApplyService(p)
      BY <3>2 DEF ApplyService, AfterApply, Write
    <3>3. CASE CheckReady(p)
      <4>1. WhenReady(p) \/ WhenNotReady(p)
        BY <3>3 DEF CheckReady, Read
      <4> QED BY <4>1 DEF WhenReady, WhenNotReady
    <3> QED BY <3>1, <3>2, <3>3
  <2>2. ASSUME NEW pc \in {"getTidb", "applyService", "checkReady", "getSecret"}, Goto(p, pc)
        PROVE  StepGranted(ctl[p])'
    BY <2>2, GotoRecord, EmptyHanded DEF Base
  <2>3. ASSUME NEW g \in {"InCreation", "Ready", "NotReady"}, GotoPhase(p, g)
        PROVE  StepGranted(ctl[p])'
    BY <2>3, GotoPhaseRecord, EmptyHanded DEF Base
  <2> QED BY <2>1, <2>2, <2>3, RestingEmpty
<1> QED BY <1>1, <1>2, <1>3, SameGranted DEF Trusted

-----------------------------------------------------------------------------
(* The Secret, the login and the reference.                                *)

\* A new password is generated only where no Cluster in service relies on the
\* old one.
LEMMA CreateSecretGranted == ASSUME NEW p, Base(p), Trusted(p), Keeps(p), CreateSecret(p)
                             PROVE  Trusted(p)'
<1>1. Cluster' = Cluster /\ rootPw' = rootPw
  BY Same, AppliesChild DEF Base, Applies, CreateSecret
<1>2. PICK s : s = Snap(p) /\ s.phase = "New" /\ s.rootRef = "none"
  BY DEF Base, Order, OrderOf, StepOrder, CreateSecret, Snap
<1>3. Follows(s, Cluster) /\ Cluster.uid = s.uid /\ Cluster.fin /\ Exists(s) /\ s.uid # NoObject
  BY <1>2, SnapshotInOrder, AppliesChild DEF Applies, Exists, NoObject
<1>4. \/ child' = child /\ secretPw' = secretPw
      \/ child["secret"] = NoObject /\ child' = [child EXCEPT !["secret"] = s.uid]
  BY <1>2 DEF CreateSecret, Write
<1>5. child["secret"] # NoObject => child'["secret"] # NoObject
  BY <1>3, <1>4, SecretChild DEF Base
<1>6. Sound(p)'
  <2>1. CASE secretPw' = secretPw
    BY <1>1, <1>5, <2>1, SameGranted DEF Trusted
  <2>2. CASE child["secret"] = NoObject
    <3>1. Pristine(p)
      BY Applying, AppliesChild DEF Applies
    <3>2. Cluster.rootRef # "auto"
      BY <2>2, <3>1 DEF Trusted, Sound, ObjectGranted, Pristine
    <3>3. Cluster.phase \in Serving => Cluster.rootRef = "user"
      BY <1>2, <1>3, <3>2 DEF Follows, Started
    <3> QED BY <1>1, <1>3, <3>1, <3>2, <3>3
          DEF Trusted, Sound, ObjectGranted, Granted, Fresh, Keeps, Pristine, RefPw
  <2> QED BY <1>4, <2>1, <2>2
<1>7. StepGranted(ctl[p])'
  <2>1. \/ GotoPhase(p, "Error")
        \/ child'["secret"] # NoObject /\ Goto(p, "persistRef")
    <3>1. \/ GotoPhase(p, "Error")
          \/ /\ Goto(p, "persistRef")
             /\ child["secret"] # NoObject \/ child' = [child EXCEPT !["secret"] = s.uid]
      BY <1>2 DEF CreateSecret, Write
    <3> QED BY <1>3, <1>5, <3>1, SecretChild DEF Base
  <2>2. CASE GotoPhase(p, "Error")
    BY <2>2, GotoPhaseRecord, EmptyHanded DEF Base
  <2>3. CASE child'["secret"] # NoObject /\ Goto(p, "persistRef")
    <3>1. PICK r : r = ctl'[p] /\ r.pc = "persistRef"
      BY <2>3, GotoRecord DEF Base
    <3> QED BY <2>3, <3>1 DEF StepGranted
  <2> QED BY <2>1, <2>2, <2>3
<1> QED BY <1>6, <1>7 DEF Trusted

LEMMA GetSecretGranted == ASSUME NEW p, Base(p), Trusted(p), Keeps(p), GetSecret(p)
                          PROVE  Trusted(p)'
<1>1. /\ Cluster' = Cluster /\ secretPw' = secretPw /\ rootPw' = rootPw /\ child' = child
  BY Same, AppliesChild DEF Base, Applies, GetSecret, Read, objects
<1>2. Sound(p)'
  BY <1>1, SameGranted DEF Trusted
<1>3. Cluster.rootRef = Snap(p).rootRef
  BY Committed DEF GetSecret
<1>4. \/ ctl' = [ctl EXCEPT ![p].pc = "postSql", ![p].cred = RefPw(Snap(p).rootRef)]
      \/ Requeue(p)
  BY DEF GetSecret, Read
<1>5. CASE ctl' = [ctl EXCEPT ![p].pc = "postSql", ![p].cred = RefPw(Snap(p).rootRef)]
  <2>1. PICK w : w = RefPw(Snap(p).rootRef)
    OBVIOUS
  <2>2. ctl'[p].pc = "postSql" /\ ctl'[p].cred = w
    BY <1>5, <2>1, FeedType DEF Base, TypeInv, ProcessOK, Record
  <2>3. PICK r : r = ctl'[p] /\ r.pc = "postSql" /\ r.cred = w
    BY <2>2
  <2>4. RefPw(Cluster.rootRef)' = w
    BY <1>1, <1>3, <2>1 DEF RefPw
  <2> QED BY <1>2, <2>3, <2>4 DEF StepGranted, Trusted
<1> QED BY <1>2, <1>4, <1>5, RestingEmpty DEF Trusted

\* What a login leaves: SurrealDB accepts the password, unless it had a root
\* user already and keeps it.
LEMMA LoginGrants == ASSUME NEW p, Base(p), StepGranted(ctl[p]), PostSql(p)
                     PROVE  /\ Cluster' = Cluster /\ secretPw' = secretPw /\ child' = child
                            /\ lastUid' = lastUid
                            /\ rootPw' = rootPw \/ Granted'
                            /\ Requeue(p) \/ (/\ GotoPhase(p, "InProgress")
                                              /\ DefineOverwrites \/ ~HasRoot => Granted')
<1>1. Cluster' = Cluster /\ secretPw' = secretPw /\ child' = child /\ lastUid' = lastUid
  BY Same, AppliesChild DEF Base, Applies, PostSql
<1>2. PICK r : r = ctl[p] /\ r.pc = "postSql" /\ r.cred = RefPw(Cluster.rootRef)
  BY DEF PostSql, StepGranted
<1>3. Cluster.backend = Snap(p).backend /\ Snap(p).backend \in Storage
  BY <1>2, Committed, FeedType DEF Base, Version
<1>4. ~HasRoot => rootPw[Snap(p).backend] = NoPw
  BY <1>3 DEF HasRoot
<1>5. /\ rootPw' = rootPw \/ rootPw' = [rootPw EXCEPT ![Snap(p).backend] = r.cred]
      /\ Requeue(p) \/ (/\ GotoPhase(p, "InProgress")
                        /\ DefineOverwrites \/ ~HasRoot => rootPw' = [rootPw EXCEPT ![Snap(p).backend] = r.cred])
  BY <1>2, <1>4 DEF PostSql, Write, DefineRoot
<1>6. rootPw' = [rootPw EXCEPT ![Snap(p).backend] = r.cred] => Granted'
  <2>1. rootPw \in [Storage -> Int]
    BY DEF Base, TypeInv, ChildrenOK
  <2>2. RefPw(Cluster.rootRef)' = r.cred
    BY <1>1, <1>2 DEF RefPw
  <2> QED BY <1>1, <1>3, <2>1, <2>2 DEF Granted
<1> QED BY <1>1, <1>5, <1>6

\* Whether or not the answer arrives, what SurrealDB has afterwards is right.
LEMMA PostSqlGranted == ASSUME NEW p, Base(p), Trusted(p), First(p), Keeps(p), PostSql(p)
                        PROVE  Trusted(p)'
<1>1. Cluster' = Cluster /\ secretPw' = secretPw /\ child' = child /\ (rootPw' = rootPw \/ Granted')
  BY LoginGrants DEF Trusted
<1>2. Sound(p)'
  <2>1. CASE rootPw' = rootPw
    BY <1>1, <2>1, SameGranted DEF Trusted
  <2>2. CASE Granted'
    BY <1>1, <2>2 DEF Trusted, Sound, ObjectGranted, Fresh, Keeps, Pristine
  <2> QED BY <1>1, <2>1, <2>2
<1>3. lastUid = 1 /\ HasRoot => Granted'
  <2>1. Pristine(p)
    BY Applying, AppliesChild DEF Applies
  <2>2. lastUid = 1 /\ HasRoot => Granted
    BY <2>1 DEF First, FirstOf, Pristine
  <2> QED BY <1>1, <2>2 DEF Granted, RefPw
<1>4. Definable => lastUid = 1 \/ DefineOverwrites
  BY FirstLoginCloses DEF Definable, Base, TypeInv, ObjectOK
<1>5. StepGranted(ctl[p])'
  <2>1. CASE GotoPhase(p, "InProgress") /\ (Definable => Granted')
    <3>1. PICK q : q = ctl'[p] /\ q.pc = "setPhase"
      BY <2>1, GotoPhaseRecord DEF Base
    <3> QED BY <2>1, <3>1 DEF StepGranted, Keeps
  <2> QED BY <1>3, <1>4, <2>1, LoginGrants, RestingEmpty DEF Trusted
<1> QED BY <1>2, <1>5 DEF Trusted

\* Service is declared only behind a login that worked.
LEMMA SetPhaseGranted == ASSUME NEW p, Base(p), Trusted(p), Keeps(p), SetPhase(p)
                         PROVE  Trusted(p)'
<1> DEFINE v == [Cluster EXCEPT !.phase = ctl[p].goal]
<1>1. secretPw' = secretPw /\ rootPw' = rootPw /\ child' = child
  BY DEF SetPhase, objects
<1>2. PICK r : r = ctl[p] /\ r.pc = "setPhase" /\ r.pc \in ApplySteps
  BY DEF SetPhase, ApplySteps, CleanupSteps, Steps
<1>3. StepGranted(ctl[p])'
  <2>1. Requeue(p) \/ Goto(p, "applyDeployment")
    BY DEF SetPhase, Write, AfterPhase
  <2> QED BY <2>1, GotoRecord, RestingEmpty, EmptyHanded DEF Base
<1>4. CASE UNCHANGED object
  <2>1. Cluster' = Cluster
    BY <1>4, Same DEF Base
  <2> QED BY <1>1, <1>3, <2>1, SameGranted DEF Trusted
<1>5. CASE Store(v)
  <2>1. Cluster' = v
    BY <1>5, Stored DEF Base
  <2>2. /\ v.fin = Cluster.fin /\ v.deleting = Cluster.deleting /\ v.backend = Cluster.backend
        /\ v.rootRef = Cluster.rootRef /\ v.phase = r.goal
    BY <1>2, FeedType DEF Base, Version
  <2> HIDE DEF v
  <2>3. Cluster.fin
    BY <1>2, SnapshotInOrder
  <2>4. r.goal \in Serving => r.goal = "InProgress" \/ Cluster.phase \in Serving
    <3>1. Follows(Snap(p), Cluster) /\ Cluster.uid = Snap(p).uid /\ Exists(Snap(p))
      BY <1>2, SnapshotInOrder
    <3>2. MayWrite(Snap(p), r.goal)
      BY <1>2 DEF Base, Order, OrderOf, StepOrder, Snap
    <3> QED BY <3>1, <3>2 DEF Follows, MayWrite, MayBecome, AfterNew, Serving
  <2>5. Definable /\ r.goal \in Serving => Granted
    BY <1>2, <2>4, Applying DEF Trusted, Sound, ObjectGranted, Pristine, StepGranted
  <2>6. Sound(p)'
    BY <1>1, <2>1, <2>2, <2>3, <2>5 DEF Trusted, Sound, ObjectGranted, Fresh, Keeps, Pristine, Granted, RefPw
  <2> QED BY <1>3, <2>6 DEF Trusted
<1> QED BY <1>4, <1>5 DEF SetPhase, Write

\* A reference is made to a Secret that exists, and of a Cluster in service it
\* is what was there before.
LEMMA PersistRefGranted == ASSUME NEW p, Base(p), Trusted(p), Keeps(p), PersistRef(p)
                           PROVE  Trusted(p)'
<1> DEFINE v == [Cluster EXCEPT !.rootRef = "auto"]
<1>1. secretPw' = secretPw /\ rootPw' = rootPw /\ child' = child
  BY DEF PersistRef, objects
<1>2. PICK r : r = ctl[p] /\ r.pc = "persistRef" /\ r.pc \in ApplySteps
  BY DEF PersistRef, ApplySteps, CleanupSteps, Steps
<1>3. StepGranted(ctl[p])'
  <2>1. PICK g : g # "InProgress" /\ GotoPhase(p, g)
    BY DEF PersistRef, Write, AfterNew
  <2> QED BY <2>1, GotoPhaseRecord, EmptyHanded DEF Base
<1>4. CASE UNCHANGED object
  <2>1. Cluster' = Cluster
    BY <1>4, Same DEF Base
  <2> QED BY <1>1, <1>3, <2>1, SameGranted DEF Trusted
<1>5. CASE Store(v)
  <2>1. Cluster' = v
    BY <1>5, Stored DEF Base
  <2>2. /\ v.fin = Cluster.fin /\ v.deleting = Cluster.deleting /\ v.backend = Cluster.backend
        /\ v.rootRef = "auto" /\ v.phase = Cluster.phase
    BY FeedType DEF Base, Version
  <2> HIDE DEF v
  <2>3. Cluster.fin /\ child["secret"] # NoObject
    BY <1>2, SnapshotInOrder DEF Trusted, StepGranted
  <2>4. Cluster.phase \in Serving => Cluster.rootRef = "auto"
    <3>1. Follows(Snap(p), Cluster) /\ Cluster.uid = Snap(p).uid /\ Exists(Snap(p))
      BY <1>2, SnapshotInOrder
    <3>2. Snap(p).rootRef = "none"
      BY <1>2 DEF Base, Order, OrderOf, StepOrder, Snap
    <3> QED BY <3>1, <3>2 DEF Follows, Started
  <2>5. Sound(p)'
    BY <1>1, <2>1, <2>2, <2>3, <2>4 DEF Trusted, Sound, ObjectGranted, Fresh, Keeps, Pristine,
       Granted, RefPw
  <2> QED BY <1>3, <2>5 DEF Trusted
<1> QED BY <1>4, <1>5 DEF PersistRef, Write

-----------------------------------------------------------------------------
(* The finalizer and the cleanup.                                          *)

LEMMA AddFinalizerGranted == ASSUME NEW p, Base(p), Trusted(p), AddFinalizer(p)
                             PROVE  Trusted(p)'
<1> DEFINE v == [Cluster EXCEPT !.fin = TRUE]
<1>1. secretPw' = secretPw /\ rootPw' = rootPw /\ child' = child
  BY DEF AddFinalizer, objects
<1>2. StepGranted(ctl[p])'
  BY RestingEmpty DEF AddFinalizer, Write
<1>3. CASE UNCHANGED object
  <2>1. Cluster' = Cluster
    BY <1>3, Same DEF Base
  <2>2. ctl'[p] = Idle /\ feed' = feed
    BY <1>3, RestingIdle, Same DEF Base, AddFinalizer, Write
  <2>3. Keeps(p)
    BY <2>2 DEF Keeps, Pristine, Untouched, Idle, ApplySteps, Definable, AddFinalizer
  <2> QED BY <1>1, <1>2, <2>1, <2>3, SameGranted DEF Trusted
<1>4. CASE ~Cluster.fin /\ Store(v)
  <2>1. Cluster' = v
    BY <1>4, Stored DEF Base
  <2>2. v.fin /\ v.rootRef = Cluster.rootRef /\ v.phase = Cluster.phase
    BY FeedType DEF Base, Version
  <2> HIDE DEF v
  <2>3. v.phase = "New" /\ v.rootRef # "auto"
    BY <1>4, <2>2 DEF Trusted, Sound, Fresh
  <2> QED BY <1>2, <2>1, <2>2, <2>3 DEF Trusted, Sound, ObjectGranted, Fresh, Serving
<1> QED BY <1>3, <1>4 DEF AddFinalizer, Write

LEMMA StoredAbsent == ASSUME NEW p, Base(p), Store(Absent)
                      PROVE  Sound(p)'
<1>1. Cluster' = Absent
  BY Stored DEF Base
<1> QED BY <1>1 DEF Sound, ObjectGranted, Fresh, Pristine, Absent, Serving

LEMMA CleanupGranted == ASSUME NEW p, Base(p), Trusted(p), Keeps(p),
                               GetChild(p) \/ DeleteChild(p) \/ Publish(p) \/ RemoveFinalizer(p)
                        PROVE  Trusted(p)'
<1>1. ctl[p].pc \in CleanupSteps
  BY DEF GetChild, DeleteChild, Publish, RemoveFinalizer, CleanupSteps
<1>2. ~Pristine(p)
  BY <1>1, CleanupBegun
<1>3. StepGranted(ctl[p])'
  <2>1. \/ Requeue(p) \/ AwaitChange(p)
        \/ NextChild(p) \/ Goto(p, "deleteChild") \/ Goto(p, "removeFinalizer")
    BY DEF GetChild, DeleteChild, Publish, RemoveFinalizer, Read, Write
  <2>2. CASE NextChild(p)
    <3>1. ctl'[p].pc \in {"getChild", "publish"}
      <4>1. \/ ctl' = [ctl EXCEPT ![p].kind = @ + 1, ![p].pc = "getChild"]
            \/ ctl' = [ctl EXCEPT ![p].pc = "publish"]
        BY <2>2 DEF NextChild
      <4> QED BY <4>1, FeedType DEF Base, TypeInv, ProcessOK, Record
    <3> QED BY <3>1, EmptyHanded
  <2>3. CASE Goto(p, "deleteChild") \/ Goto(p, "removeFinalizer")
    BY <2>3, GotoRecord, EmptyHanded DEF Base
  <2> QED BY <2>1, <2>2, <2>3, RestingEmpty
<1>4. Sound(p)'
  <2>1. CASE Cluster' = Cluster
    BY <1>2, <2>1 DEF Trusted, Sound, ObjectGranted, Fresh, Keeps, Pristine
  <2>2. CASE Cluster' # Cluster
    <3>1. RemoveFinalizer(p) /\ ~UNCHANGED object
      BY <2>2, Same DEF Base, GetChild, DeleteChild, Publish, Read, Cluster
    <3>2. Cluster.fin /\ ~Live(Cluster)
      BY <1>2, <3>1, LiveIsPristine DEF RemoveFinalizer, Write
    <3>3. Store(Absent)
      BY <3>1, <3>2 DEF RemoveFinalizer, Write, Live
    <3> QED BY <3>3, StoredAbsent
  <2> QED BY <2>1, <2>2
<1> QED BY <1>3, <1>4 DEF Trusted

LEMMA StepKeepsTrust == ASSUME NEW p, Base(p), Trusted(p), First(p), Keeps(p), Step(p)
                        PROVE  Trusted(p)'
  BY StartGranted, OtherRequestsGranted, CreateSecretGranted, GetSecretGranted, PostSqlGranted,
     SetPhaseGranted, PersistRefGranted, AddFinalizerGranted, CleanupGranted DEF Step

-----------------------------------------------------------------------------
(* The users, the platform and the runtime.                                *)

\* What a reconcile has in hand survives a write that keeps storage and Secret.
LEMMA UserWriteGranted == ASSUME NEW p, Base(p), Trusted(p), Keeps(p), NEW v, Store(v), UNCHANGED objects, ctl' = ctl,
                                 v.fin = Cluster.fin,
                                 v.deleting = Cluster.deleting \/ v.deleting, v.phase = Cluster.phase,
                                 Cluster.backend # "none" => v.backend = Cluster.backend,
                                 Cluster.rootRef # "none" => v.rootRef = Cluster.rootRef,
                                 v.rootRef = "auto" => Cluster.rootRef = "auto"
                          PROVE  Trusted(p)'
<1>1. Cluster' = v /\ secretPw' = secretPw /\ rootPw' = rootPw /\ child' = child
  BY Stored DEF Base, objects
<1>2. PICK r : r = ctl[p]
  OBVIOUS
<1>3. r.pc = "postSql" \/ (r.pc = "setPhase" /\ r.goal = "InProgress") =>
        Cluster.backend # "none" /\ Cluster.rootRef # "none"
  BY <1>2, Committed
<1>4. Cluster.phase \in Serving => Cluster.backend # "none" /\ Cluster.rootRef # "none"
  BY StoredInOrder, StoredOK DEF Base, Backed, RefOK, Started
<1>5. StepGranted(r)'
  BY <1>1, <1>2, <1>3 DEF Trusted, StepGranted, Granted, RefPw, Keeps
<1>6. Sound(p)'
  BY <1>1, <1>4 DEF Trusted, Sound, ObjectGranted, Fresh, Keeps, Pristine, Granted, RefPw
<1> QED BY <1>2, <1>5, <1>6 DEF Trusted, StepGranted

LEMMA NothingInHand == ASSUME NEW p, Base(p), ctl' = ctl, ~Cluster.fin
                       PROVE  StepGranted(ctl[p])'
<1>1. ctl[p].pc \notin ApplySteps
  BY SnapshotInOrder
<1>2. PICK r : r = ctl[p] /\ r.pc \notin {"persistRef", "postSql", "setPhase"}
  BY <1>1 DEF ApplySteps, CleanupSteps, Steps
<1> QED BY <1>2, EmptyHanded

LEMMA UsersGranted == ASSUME NEW p, Base(p), Trusted(p), Keeps(p), Users
                      PROVE  Trusted(p)'
<1>1. Cluster \in Version /\ (Cluster.fin => Exists(Cluster)) /\ (Cluster.deleting => Cluster.fin)
  BY FeedType, StoredOK DEF Base
<1>2. ASSUME NEW b \in Backends, NEW r \in RootRefs, UserCreate(b, r) PROVE Trusted(p)'
  <2> DEFINE v == [Absent EXCEPT !.uid = lastUid + 1, !.backend = b, !.rootRef = r]
  <2>1. Cluster' = v /\ ~Cluster.fin /\ ctl' = ctl
    BY <1>1, <1>2, Stored DEF Base, UserCreate, Outside
  <2>2. ~v.fin /\ v.phase = "New" /\ v.rootRef = r
    BY DEF Absent
  <2> HIDE DEF v
  <2>3. r # "auto"
    BY ControllerAssumption
  <2>4. Sound(p)'
    BY <2>1, <2>2, <2>3 DEF Sound, ObjectGranted, Fresh, Serving
  <2> QED BY <2>1, <2>4, NothingInHand DEF Trusted
<1>3. CASE UserDelete
  <2>1. UNCHANGED objects /\ ctl' = ctl
    BY <1>3 DEF UserDelete, Outside
  <2>2. CASE Cluster.fin
    <3> DEFINE v == [Cluster EXCEPT !.deleting = TRUE]
    <3>1. Store(v)
      BY <1>3, <2>2 DEF UserDelete
    <3>2. /\ v.fin = Cluster.fin /\ v.deleting /\ v.backend = Cluster.backend
          /\ v.rootRef = Cluster.rootRef /\ v.phase = Cluster.phase
      BY <1>1 DEF Version
    <3> HIDE DEF v
    <3> QED BY <2>1, <3>1, <3>2, UserWriteGranted
  <2>3. CASE ~Cluster.fin
    <3>1. Store(Absent)
      BY <1>3, <2>3 DEF UserDelete
    <3> QED BY <2>1, <2>3, <3>1, StoredAbsent, NothingInHand DEF Trusted
  <2> QED BY <2>2, <2>3
<1>4. ASSUME NEW b \in Backends, NEW r \in RootRefs, UserEdit(b, r) PROVE Trusted(p)'
  <2>1. UNCHANGED objects /\ ctl' = ctl
    BY <1>4 DEF UserEdit, Outside
  <2>2. CASE Cluster.backend = "none" /\ Store([Cluster EXCEPT !.backend = b])
    <3> DEFINE v == [Cluster EXCEPT !.backend = b]
    <3>1. /\ v.fin = Cluster.fin /\ v.deleting = Cluster.deleting
          /\ v.rootRef = Cluster.rootRef /\ v.phase = Cluster.phase
      BY <1>1 DEF Version
    <3>2. Store(v)
      BY <2>2
    <3> HIDE DEF v
    <3> QED BY <2>1, <2>2, <3>1, <3>2, UserWriteGranted
  <2>3. CASE Cluster.rootRef = "none" /\ Store([Cluster EXCEPT !.rootRef = r])
    <3> DEFINE v == [Cluster EXCEPT !.rootRef = r]
    <3>1. /\ v.fin = Cluster.fin /\ v.deleting = Cluster.deleting
          /\ v.backend = Cluster.backend /\ v.phase = Cluster.phase /\ v.rootRef = r
      BY <1>1 DEF Version
    <3>2. Store(v)
      BY <2>3
    <3>3. r # "auto"
      BY ControllerAssumption
    <3> HIDE DEF v
    <3> QED BY <2>1, <2>3, <3>1, <3>2, <3>3, UserWriteGranted
  <2> QED BY <1>4, <2>2, <2>3 DEF UserEdit
<1>5. ASSUME NEW k \in Foreign, UserPrecreate(k) PROVE Trusted(p)'
  <2>1. /\ Cluster' = Cluster /\ ctl' = ctl /\ rootPw' = rootPw
        /\ child["secret"] # NoObject => child'["secret"] # NoObject /\ secretPw' = secretPw
    BY <1>5, SecretChild DEF Base, UserPrecreate, Outside, Cluster
  <2>2. CASE secretPw' = secretPw
    BY <2>1, <2>2, SameGranted DEF Trusted
  <2>3. CASE child["secret"] = NoObject
    <3>1. PICK r : r = ctl[p]
      OBVIOUS
    <3>2. Pristine(p) => Cluster.rootRef # "auto"
      BY <2>3 DEF Trusted, Sound, ObjectGranted, Pristine
    <3>3. Cluster.phase \in Serving => Cluster.rootRef \in {"auto", "user"}
      BY <1>1, StoredInOrder, StoredOK DEF Base, Backed, RefOK, Started, Version, Refs
    <3>4. Sound(p)'
      BY <2>1, <3>2, <3>3 DEF Trusted, Sound, ObjectGranted, Fresh, Keeps, Pristine, Granted, RefPw
    <3>5. r.pc # "persistRef"
      BY <2>3, <3>1 DEF Trusted, StepGranted
    <3>6. r.pc = "postSql" \/ (r.pc = "setPhase" /\ r.goal = "InProgress") => Cluster.rootRef = "user"
      <4>1. r.pc \in {"postSql", "setPhase"} => Pristine(p)
        BY <3>1, Applying DEF ApplySteps, CleanupSteps, Steps
      <4> QED BY <3>1, <3>2, <4>1, Committed
    <3>7. StepGranted(r)'
      BY <2>1, <3>1, <3>5, <3>6 DEF Trusted, StepGranted, Granted, RefPw, Keeps
    <3> QED BY <2>1, <3>1, <3>4, <3>7 DEF Trusted, StepGranted
  <2> QED BY <2>1, <2>2, <2>3
<1> QED BY <1>2, <1>3, <1>4, <1>5 DEF Users

LEMMA OthersGranted == ASSUME NEW p, Base(p), Trusted(p), Keeps(p), Platform \/ PodLost \/ Watch(p)
                       PROVE  Trusted(p)'
<1>1. Cluster' = Cluster /\ ctl' = ctl /\ rootPw' = rootPw
  BY DEF Platform, PodLost, PodUp, PodRetire, TidbBecomesReady, GarbageCollect, RemoveChild,
     Outside, Watch, objects, Cluster
<1>2. secretPw' = secretPw /\ child' = child
  <2>1. ASSUME NEW k \in Kinds, GarbageCollect(k) PROVE FALSE
    BY <2>1 DEF GarbageCollect, Base, Sweep, OwnedAlive
  <2> QED BY <2>1 DEF Platform, PodLost, PodUp, PodRetire, TidbBecomesReady, Watch, objects
<1> QED BY <1>1, <1>2, SameGranted DEF Trusted

LEMMA CrashGranted == ASSUME NEW p, Base(p), Trusted(p), Keeps(p), Crash(p)
                      PROVE  Trusted(p)'
<1>1. /\ Cluster' = Cluster /\ rootPw' = rootPw /\ secretPw' = secretPw /\ child' = child
      /\ ctl'[p] = Idle
  BY FeedType DEF Base, Crash, Restart, objects, Cluster, TypeInv, ProcessOK
<1>2. StepGranted(ctl[p])'
  BY <1>1, EmptyHanded DEF Idle
<1> QED BY <1>1, <1>2, SameGranted DEF Trusted

-----------------------------------------------------------------------------
(* The root user of a first incarnation.                                   *)

LEMMA PristineExists == ASSUME NEW p, Base(p), Pristine(p) PROVE Exists(Cluster) /\ Cluster.fin
<1>1. CASE ctl[p].pc \in ApplySteps
  BY <1>1, SnapshotInOrder
<1>2. ASSUME NEW i \in DOMAIN feed[p], Live(feed[p][i]) PROVE Cluster.fin
  BY <1>2 DEF Base, View, FeedInv, Held
<1>3. Cluster.fin => Exists(Cluster)
  BY StoredOK DEF Base
<1> QED BY <1>1, <1>2, <1>3 DEF Pristine, Untouched

\* Where the password of the Secret comes from.
LEMMA SecretFrom == ASSUME NEW p, Base(p), Next, secretPw' # secretPw
                    PROVE  CreateSecret(p) \/ DeleteChild(p) \/ child["secret"] = NoObject
<1>1. CASE Users \/ PodLost
  BY <1>1, SecretChild DEF Base, Users, UserCreate, UserEdit, UserDelete, UserPrecreate, PodLost, objects
<1>2. ASSUME Platform PROVE FALSE
  <2>1. ASSUME NEW k \in Kinds, GarbageCollect(k) PROVE FALSE
    BY <2>1 DEF GarbageCollect, Base, Sweep, OwnedAlive
  <2> QED BY <1>2, <2>1 DEF Platform, PodUp, PodRetire, TidbBecomesReady
<1>3. ASSUME NEW c \in Controllers, Step(c) \/ Watch(c) \/ Crash(c), ~Start(c),
             ~CreateSecret(c), ~DeleteChild(c)
      PROVE  FALSE
  BY <1>3 DEF Step, AddFinalizer, SetPhase, PersistRef, RemoveFinalizer, PostSql, ApplyDeployment,
     ApplyService, CreateTidb, GetTidb, CheckReady, GetSecret, GetChild,
     Publish, Read, objects, Watch, Crash, Restart
<1>4. ASSUME NEW c \in Controllers, Start(c) PROVE FALSE
  BY <1>4, StartStores DEF objects
<1>5. ASSUME NEW c \in Controllers PROVE c = p
  BY DEF Base, Alone
<1> QED BY <1>1, <1>2, <1>3, <1>4, <1>5 DEF Next

\* Past its first login a Cluster keeps its storage, its reference and the
\* password of its Secret till cleanup begins: what a stale reconcile of an
\* earlier phase might write is no longer in anybody's view.
LEMMA FirstSettled == ASSUME NEW p, Base(p), ClosedOf(ctl[p], feed[p]), Pristine(p), Next,
                             Sound(p), Cluster.backend # "none", Cluster.rootRef \in {"auto", "user"}
                      PROVE  \/ /\ Cluster'.backend = Cluster.backend
                                /\ Cluster'.rootRef = Cluster.rootRef
                                /\ RefPw(Cluster.rootRef)' = RefPw(Cluster.rootRef)
                             \/ Cluster' = Absent
<1>1. Cluster \in Version /\ Exists(Cluster) /\ Cluster.fin
  BY FeedType, PristineExists DEF Base
<1>2. ~CreateSecret(p) /\ ~PersistRef(p)
  <2>1. ctl[p].pc \notin {"createSecret", "persistRef"}
    <3>1. ASSUME ctl[p].pc \in {"createSecret", "persistRef"}
          PROVE  ctl[p].pc \in ApplySteps /\ Opens(ctl[p].snap)
      BY <3>1 DEF ApplySteps, CleanupSteps, Steps, Base, Order, OrderOf, StepOrder, Opens
    <3> QED BY <3>1 DEF ClosedOf
  <2> QED BY <2>1 DEF CreateSecret, PersistRef
<1>3. ~DeleteChild(p) /\ ~RemoveFinalizer(p)
  BY CleanupBegun DEF DeleteChild, RemoveFinalizer, CleanupSteps
<1>4. Cluster.rootRef = "user" \/ secretPw' = secretPw
  <2>1. Cluster.rootRef = "auto" => child["secret"] # NoObject
    BY DEF Sound, ObjectGranted, Pristine
  <2> QED BY <1>2, <1>3, <2>1, SecretFrom
<1>5. ASSUME NEW b \in Backends, NEW r \in RootRefs, UserCreate(b, r) PROVE FALSE
  BY <1>1, <1>5 DEF UserCreate
<1>6. PICK v : v = Cluster'
  OBVIOUS
<1>7. v = Cluster \/ v = [Cluster EXCEPT !.fin = TRUE] \/ v = [Cluster EXCEPT !.phase = ctl[p].goal]
      \/ v = [Cluster EXCEPT !.deleting = TRUE] \/ v = Absent
  BY <1>1, <1>2, <1>3, <1>5, <1>6, ClusterFrom DEF Rewritten
<1>8. v = Absent \/ (v.backend = Cluster.backend /\ v.rootRef = Cluster.rootRef)
  BY <1>1, <1>7 DEF Version
<1> QED BY <1>4, <1>6, <1>8 DEF RefPw

LEMMA NextFirst == ASSUME NEW p, Base(p), TypeInv', View(p)', Len(log) = 1, Next,
                          Closed(p), Trusted(p), First(p)
                   PROVE  First(p)'
<1> SUFFICES ASSUME lastUid' = 1, HasRoot', Pristine(p)'
             PROVE  Granted' /\ Cluster'.backend # "none" /\ Cluster'.rootRef \in {"auto", "user"}
  BY DEF First, FirstOf, Pristine
<1>1. CASE PostSql(p)
  <2>1. PICK r : r = ctl[p] /\ r.pc = "postSql" /\ r.pc \in ApplySteps
    BY <1>1 DEF PostSql, ApplySteps, CleanupSteps, Steps
  <2>2. /\ Cluster' = Cluster /\ secretPw' = secretPw /\ lastUid = 1
        /\ rootPw' = rootPw \/ Granted'
    BY <1>1, LoginGrants DEF Trusted
  <2>3. Cluster.backend # "none" /\ Cluster.rootRef \in {"auto", "user"}
    BY <2>1, Committed
  <2>4. CASE rootPw' = rootPw
    <3>1. HasRoot
      BY <2>4 DEF HasRoot
    <3>2. Granted
      BY <2>1, <2>2, <3>1, Applying DEF First, FirstOf, Pristine
    <3> QED BY <2>2, <2>3, <2>4, <3>2 DEF Granted, RefPw
  <2> QED BY <2>2, <2>3, <2>4
<1>2. CASE ~PostSql(p)
  <2>1. rootPw' = rootPw /\ HasRoot
    BY <1>2, RootFrom DEF HasRoot
  <2>2. lastUid = 1
    <3>1. lastUid > 0
      BY <2>1 DEF Closed
    <3> QED BY <3>1, UidFrom
  <2>3. ClosedOf(ctl[p], feed[p])
    BY <2>1, <2>2 DEF Closed
  <2>4. Pristine(p)
    <3>1. Cluster.fin \/ ~Exists(Cluster)
      <4>1. Exists(Cluster) => ~Opens(Cluster)
        BY <2>3, StoredOK, FeedType DEF Base, ClosedOf
      <4> QED BY <4>1 DEF Trusted, Sound, Fresh, Opens
    <3>2. CASE AddFinalizer(p)
      <4>1. feed' = feed /\ ctl'[p] = Idle
        BY <3>1, <3>2, RestingIdle DEF Base, AddFinalizer, Write, object
      <4> QED BY <4>1 DEF Pristine, Untouched, Idle, ApplySteps
    <3> QED BY <3>2, NeverReborn
  <2>5. Granted /\ Cluster.backend # "none" /\ Cluster.rootRef \in {"auto", "user"}
    BY <2>1, <2>2, <2>4 DEF First, FirstOf, Pristine
  <2>6. Cluster' # Absent
    <3>1. Cluster' = Absent => ~Cluster'.fin
      BY DEF Absent
    <3>2. ctl'[p].pc \in ApplySteps => Cluster'.fin
      BY DEF View, StepInv, Held, Snap
    <3>3. \A i \in DOMAIN feed'[p] : Live(feed'[p][i]) => Cluster'.fin
      BY DEF View, FeedInv, Held
    <3> QED BY <3>1, <3>2, <3>3 DEF Pristine, Untouched, Live
  <2> QED BY <2>1, <2>3, <2>4, <2>5, <2>6, FirstSettled DEF Granted, RefPw, Trusted
<1> QED BY <1>1, <1>2

-----------------------------------------------------------------------------
GInv(p) == OInv(p) /\ CInv(p) /\ Closed(p) /\ Trusted(p) /\ First(p)

LEMMA InitGranted == ASSUME NEW p, Alone(p), Init PROVE GInv(p)
<1>1. Cluster = Absent /\ ctl[p] = Idle
  BY DEF Init, Cluster, Alone
<1>2. Sound(p)
  BY <1>1 DEF Sound, ObjectGranted, Fresh, Absent, Serving
<1>3. StepGranted(ctl[p])
  BY <1>1 DEF StepGranted, Idle
<1>4. First(p)
  BY DEF First, FirstOf, HasRoot, Init
<1> QED BY <1>2, <1>3, <1>4, InitClosed DEF GInv, AInv, Trusted

LEMMA NextGranted == ASSUME NEW p, Alone(p), GInv(p), [Next]_vars PROVE GInv(p)'
<1>1. OInv(p)' /\ CInv(p)' /\ Closed(p)'
  BY NextAccess DEF GInv, AInv
<1>2. Base(p)
  BY DEF Base, GInv, OInv, CInv, IInv
<1>3. CASE UNCHANGED vars
  <2>1. /\ Cluster' = Cluster /\ rootPw' = rootPw /\ secretPw' = secretPw /\ child' = child
        /\ ctl' = ctl /\ feed' = feed /\ lastUid' = lastUid
    BY <1>3 DEF vars, Cluster
  <2>2. Keeps(p)
    BY <2>1 DEF Keeps, Pristine, Untouched, Definable
  <2>3. First(p)'
    BY <2>1 DEF GInv, First, FirstOf, Granted, HasRoot, RefPw
  <2> QED BY <1>1, <2>1, <2>2, <2>3, SameGranted DEF GInv, Trusted
<1>4. CASE Next
  <2>1. Keeps(p) \/ AddFinalizer(p)
    <3>1. Definable' => Definable
      BY <1>2, <1>4, UidFrom DEF Definable
    <3> QED BY <1>1, <1>2, <1>4, <3>1, NeverReborn DEF Keeps, OInv, IInv, GInv
  <2>2. ASSUME NEW c \in Controllers, Step(c) \/ Watch(c) \/ Crash(c), Keeps(p) PROVE Trusted(p)'
    <3>1. c = p
      BY DEF Alone
    <3> QED BY <1>2, <2>2, <3>1, StepKeepsTrust, OthersGranted, CrashGranted DEF GInv
  <2>3. ASSUME Users \/ Platform \/ PodLost, Keeps(p) PROVE Trusted(p)'
    BY <1>2, <2>3, UsersGranted, OthersGranted DEF GInv
  <2>4. Trusted(p)'
    BY <1>2, <1>4, <2>1, <2>2, <2>3, AddFinalizerGranted DEF Next, GInv
  <2>5. First(p)'
    BY <1>1, <1>2, <1>4, NextFirst DEF GInv, OInv, IInv
  <2> QED BY <1>1, <2>4, <2>5 DEF GInv
<1> QED BY <1>3, <1>4

LEMMA GrantedHolds == ASSUME NEW CONSTANT p, Alone(p) PROVE Spec => []GInv(p)
<1>1. Init => GInv(p)
  BY InitGranted
<1>2. GInv(p) /\ [Next]_vars => GInv(p)'
  BY NextGranted
<1> QED BY <1>1, <1>2, PTL DEF Spec

\* Whatever DEFINE USER does to a user that exists, the Secret a Cluster names is
\* there and what is posted is its password.
THEOREM CredentialsKept == ASSUME NEW CONSTANT p, Controllers = {p}, StaleList = FALSE
                           PROVE  Spec => []CredentialsInv
<1>1. Alone(p) /\ GInv(p) => CredentialsInv
  BY DEF Alone, GInv, Trusted, Sound, First, CredentialsInv
<1> QED BY <1>1, GrantedHolds, PTL DEF Alone

\* A live Cluster that is in service lets in whoever has the Secret it names:
\* over lost and repeated bootstraps, and references that users and the controller
\* set at the same time; where DEFINE USER replaces a user, also over storage
\* that outlived an earlier incarnation.
THEOREM CredentialsAlwaysWork ==
  ASSUME NEW CONSTANT p, Controllers = {p}, StaleList = FALSE,
         DefineOverwrites = TRUE \/ MaxUid = 1
  PROVE  Spec => []CredentialsWork
<1>1. Alone(p) /\ GInv(p) => CredentialsWork
  <2> SUFFICES ASSUME Alone(p), GInv(p), Live(Cluster) PROVE Cluster.phase \in Serving => Granted
    BY DEF CredentialsWork, Granted
  <2>1. Pristine(p)
    BY LiveIsPristine DEF Base, GInv, OInv, CInv, IInv
  <2>2. Definable
    BY DEF Definable, GInv, OInv, IInv, TypeInv, ObjectOK
  <2> QED BY <2>1, <2>2 DEF GInv, Trusted, Sound, ObjectGranted, Pristine
<1> QED BY <1>1, GrantedHolds, PTL DEF Alone

-----------------------------------------------------------------------------
(* The open mode.                                                          *)

\* Only the reconcile of a version before the bootstrap makes the Deployment
\* serve openly.
LEMMA OpenedBy == ASSUME NEW p, Base(p), Next, mode # "creation", mode' = "creation"
                  PROVE  ctl[p].pc \in ApplySteps /\ Opens(Snap(p))
<1>1. CASE Users \/ Platform \/ PodLost
  BY <1>1 DEF Users, UserCreate, UserEdit, UserDelete, UserPrecreate, Platform, PodLost, PodUp, PodRetire,
     TidbBecomesReady, GarbageCollect, RemoveChild, objects
<1>2. ASSUME NEW c \in Controllers, Step(c) \/ Watch(c) \/ Crash(c), ~Start(c), ~ApplyDeployment(c)
      PROVE  FALSE
  BY <1>2 DEF Step, AddFinalizer, SetPhase, PersistRef, RemoveFinalizer, CreateSecret, PostSql,
     ApplyService, CreateTidb, DeleteChild, RemoveChild, Write, GetTidb, CheckReady, GetSecret, GetChild,
     Publish, Read, objects, Watch, Crash, Restart
<1>3. ASSUME NEW c \in Controllers, Start(c) PROVE FALSE
  BY <1>3, StartStores DEF objects
<1>4. CASE ApplyDeployment(p)
  <2>1. ctl[p].pc \in ApplySteps
    BY <1>4, AppliesChild DEF Applies
  <2>2. CreationMode(p)
    BY <1>4 DEF ApplyDeployment, Write
  <2> QED BY <2>1, <2>2 DEF CreationMode, Opens
<1>5. ASSUME NEW c \in Controllers PROVE c = p
  BY DEF Base, Alone
<1> QED BY <1>1, <1>2, <1>3, <1>4, <1>5 DEF Next

\* Storage that was empty has a root user only from the bootstrap of its own
\* incarnation, and then no version a reconcile may see is one that is served
\* openly.
THEOREM RootUserMeansBootstrapped == ASSUME NEW CONSTANT p, Controllers = {p}, StaleList = FALSE
                                     PROVE  Spec => []AccessInv
<1>1. Alone(p) /\ AInv(p) => AccessInv
  BY DEF Alone, AInv, Closed, AccessInv
<1> QED BY <1>1, AccessHolds, PTL DEF Alone

\* No reconcile, however old its view, puts a Deployment that demands
\* authentication back into the open mode while its Cluster is in service or
\* has a root user in storage of its own.
THEOREM DeploymentStaysClosed == ASSUME NEW CONSTANT p, Controllers = {p}, StaleList = FALSE
                                 PROVE  Spec => AccessStaysClosed
<1> DEFINE A == mode = "auth" /\ SameIncarnation /\ Secured => mode' # "creation"
<1>1. ASSUME AInv(p), [Next]_vars PROVE [A]_vars
  <2>1. CASE Next /\ mode = "auth" /\ SameIncarnation /\ Secured /\ mode' = "creation"
    <3>1. Base(p)
      BY <1>1 DEF Base, AInv, OInv, CInv, IInv, Alone
    <3>2. ctl[p].pc \in ApplySteps /\ Opens(Snap(p))
      BY <2>1, <3>1, OpenedBy
    <3>3. Follows(Snap(p), Cluster) /\ Cluster.uid = Snap(p).uid /\ Exists(Snap(p))
      BY <3>1, <3>2, SnapshotInOrder
    <3>4. CASE Cluster.phase \in Serving
      BY <3>2, <3>3, <3>4 DEF Follows, MayBecome, AfterNew, Opens, Serving
    <3>5. CASE lastUid = 1 /\ rootPw[Cluster.backend] # NoPw
      <4>1. Cluster.backend \in Storage
        BY <3>1, FeedType DEF Base, Version
      <4> QED BY <1>1, <3>2, <3>5, <4>1 DEF AInv, Closed, ClosedOf, HasRoot, Snap
    <3> QED BY <2>1, <3>4, <3>5 DEF Secured
  <2> QED BY <1>1, <2>1
<1>2. Spec => []AInv(p)
  BY AccessHolds DEF Alone
<1>3. Spec => [][A]_vars
  BY <1>1, <1>2, PTL DEF Spec
<1> QED BY <1>3 DEF AccessStaysClosed

=============================================================================
