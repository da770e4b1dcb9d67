---------------------- MODULE ClusterRefinement_proofs ----------------------
(***************************************************************************)
(* One controller process with fresh lists implements ClusterService and   *)
(* ClusterLifecycle: every step of it maps to a step of the abstract       *)
(* specification or to a stutter.  A step rewrites the Cluster, or it does *)
(* something to the objects beside it, never both, and the proofs go       *)
(* through the ways in which either can happen.                            *)
(***************************************************************************)
EXTENDS ClusterRefinement, ClusterCredentials_proofs

-----------------------------------------------------------------------------
(* What one step does to the objects beside the Cluster.                   *)

Makes(p, k) == child' = [child EXCEPT ![k] = Snap(p).uid]

SecretMade(p) == /\ CreateSecret(p) /\ child["secret"] = NoObject
                 /\ Makes(p, "secret")
                 /\ secretPw' = lastPw + 1 /\ lastPw' = lastPw + 1
                 /\ UNCHANGED <<mode, pods, rootPw>>

DependantMade(p) == /\ \/ CreateTidb(p) /\ Makes(p, "tidb")
                       \/ ApplyService(p) /\ Makes(p, "service")
                    /\ UNCHANGED <<mode, pods, secretPw, lastPw, rootPw>>

DeploymentApplied(p) == /\ ApplyDeployment(p) /\ Makes(p, "deployment")
                        /\ mode' = IF CreationMode(p) THEN "creation" ELSE "auth"
                        /\ UNCHANGED <<pods, secretPw, lastPw, rootPw>>

RootDefined(p) == /\ PostSql(p) /\ "creation" \in pods /\ child["service"] > 0
                  /\ DefineOverwrites \/ rootPw[Snap(p).backend] = NoPw
                  /\ rootPw' = [rootPw EXCEPT ![Snap(p).backend] = ctl[p].cred]
                  /\ UNCHANGED <<child, mode, pods, secretPw, lastPw>>

PodsChange == PodUp \/ PodRetire \/ PodLost \/ TidbBecomesReady

WorkedOn(p) == \/ SecretMade(p) \/ DependantMade(p) \/ DeploymentApplied(p) \/ RootDefined(p)
               \/ DeleteChild(p) /\ RemoveChild(Child(p))
               \/ \E k \in Foreign : UserPrecreate(k)
               \/ PodsChange

LEMMA ObjectsFrom == ASSUME NEW p, Base(p), Next PROVE UNCHANGED objects \/ WorkedOn(p)
<1>1. ASSUME NEW c \in Controllers, Step(c) \/ Watch(c) \/ Crash(c)
      PROVE  UNCHANGED objects \/ WorkedOn(p)
  <2>1. c = p
    BY DEF Base, Alone
  <2>2. CASE Start(p)
    BY <2>2, <2>1, StartStores
  <2>3. CASE Watch(p) \/ Crash(p) \/ AddFinalizer(p) \/ SetPhase(p) \/ PersistRef(p) \/ RemoveFinalizer(p)
    BY <2>3 DEF Watch, Crash, Restart, AddFinalizer, SetPhase, PersistRef, RemoveFinalizer
  <2>4. CASE GetTidb(p) \/ CheckReady(p) \/ GetSecret(p) \/ GetChild(p) \/ Publish(p)
    BY <2>4 DEF GetTidb, CheckReady, GetSecret, GetChild, Publish, Read
  <2>5. CASE CreateSecret(p)
    <3>1. /\ UNCHANGED <<mode, pods, rootPw, tidbReady>>
          /\ \/ UNCHANGED <<child, secretPw, lastPw>>
             \/ /\ child["secret"] = NoObject /\ Makes(p, "secret")
                /\ secretPw' = lastPw + 1 /\ lastPw' = lastPw + 1
      BY <2>5 DEF CreateSecret, Write, Makes
    <3> QED BY <2>5, <3>1 DEF WorkedOn, SecretMade, objects
  <2>6. CASE CreateTidb(p)
    <3>1. /\ UNCHANGED <<mode, pods, secretPw, lastPw, rootPw, tidbReady>>
          /\ child' = child \/ Makes(p, "tidb")
      BY <2>6 DEF CreateTidb, Write, Makes
    <3> QED BY <2>6, <3>1 DEF WorkedOn, DependantMade, objects
  <2>7. CASE ApplyService(p)
    <3>1. /\ UNCHANGED <<mode, pods, secretPw, lastPw, rootPw, tidbReady>>
          /\ child' = child \/ Makes(p, "service")
      BY <2>7 DEF ApplyService, Write, Makes
    <3> QED BY <2>7, <3>1 DEF WorkedOn, DependantMade, objects
  <2>8. CASE ApplyDeployment(p)
    <3>1. /\ UNCHANGED <<pods, secretPw, lastPw, rootPw, tidbReady>>
          /\ \/ UNCHANGED <<child, mode>>
             \/ Makes(p, "deployment") /\ mode' = IF CreationMode(p) THEN "creation" ELSE "auth"
      BY <2>8 DEF ApplyDeployment, Write, Makes
    <3> QED BY <2>8, <3>1 DEF WorkedOn, DeploymentApplied, objects
  <2>9. CASE PostSql(p)
    <3>1. /\ UNCHANGED <<child, mode, pods, secretPw, lastPw, tidbReady>>
          /\ \/ UNCHANGED rootPw
             \/ /\ "creation" \in pods /\ child["service"] > 0
                /\ DefineOverwrites \/ rootPw[Snap(p).backend] = NoPw
                /\ rootPw' = [rootPw EXCEPT ![Snap(p).backend] = ctl[p].cred]
      BY <2>9 DEF PostSql, Write, DefineRoot
    <3> QED BY <2>9, <3>1 DEF WorkedOn, RootDefined, objects
  <2>10. CASE DeleteChild(p)
    <3>1. UNCHANGED objects \/ RemoveChild(Child(p))
      BY <2>10 DEF DeleteChild, Write
    <3> QED BY <2>10, <3>1 DEF WorkedOn
  <2> QED BY <1>1, <2>1, <2>2, <2>3, <2>4, <2>5, <2>6, <2>7, <2>8, <2>9, <2>10 DEF Step
<1>2. CASE Users
  BY <1>2 DEF Users, UserCreate, UserEdit, UserDelete, WorkedOn
<1>3. CASE Platform \/ PodLost
  <2>1. ~\E k \in Kinds : GarbageCollect(k)
    BY DEF GarbageCollect, Base, Sweep, OwnedAlive
  <2> QED BY <1>3, <2>1 DEF Platform, WorkedOn, PodsChange
<1> QED BY <1>1, <1>2, <1>3 DEF Next

\* The Cluster is rewritten, or the objects beside it change.
LEMMA OneOrTheOther == ASSUME NEW p, Base(p), Next
                       PROVE  \/ UNCHANGED objects /\ Rewritten(p)
                              \/ Cluster' = Cluster /\ WorkedOn(p)
<1>1. WorkedOn(p) => UNCHANGED log
  <2>1. Applies(p) => UNCHANGED log
    BY AppliesChild DEF object
  <2>2. DeleteChild(p) \/ (\E k \in Foreign : UserPrecreate(k)) \/ PodsChange => UNCHANGED log
    BY DEF DeleteChild, UserPrecreate, PodsChange, PodUp, PodRetire, PodLost, TidbBecomesReady
  <2> QED BY <2>1, <2>2 DEF WorkedOn, SecretMade, DependantMade, DeploymentApplied, RootDefined, Applies
<1>2. UNCHANGED log => Cluster' = Cluster
  BY DEF Cluster
<1> QED BY <1>1, <1>2, ObjectsFrom, ClusterFrom

-----------------------------------------------------------------------------
(* The passwords, the Deployment and the name of a Cluster that is gone.   *)

LEMMA ObjectTypes == ASSUME TypeInv
                     PROVE  /\ child \in [Kinds -> Int] /\ rootPw \in [Storage -> Int]
                            /\ Kinds = {"deployment", "service", "secret", "tidb"}
                            /\ \A k \in Kinds : child[k] \in Int
                            /\ secretPw \in Int /\ lastPw \in Nat /\ lastPw \in Int
                            /\ pods \subseteq {"foreign", "creation", "auth"}
  BY DEF TypeInv, ChildrenOK, Kinds

\* A reference to the generated Secret is dropped with the Cluster only, when
\* that Secret is gone.
LEMMA RefDropped == ASSUME NEW p, Base(p), Trusted(p), Vacant, Rewritten(p), Cluster.rootRef = "auto"
                    PROVE  Cluster'.rootRef = "auto" \/ child["secret"] <= 0
<1>1. Cluster \in Version
  BY FeedType DEF Base
<1>2. "secret" \in Kinds
  BY DEF Kinds
<1>3. CASE RemoveFinalizer(p)
  BY <1>2, <1>3, AllSwept DEF Base
<1>4. Exists(Cluster) /\ Cluster.fin
  BY DEF Vacant, Absent, Trusted, Sound, Fresh
<1>5. PICK v : v = Cluster'
  OBVIOUS
<1>6. ASSUME v = [Cluster EXCEPT !.fin = TRUE] \/ v = [Cluster EXCEPT !.deleting = TRUE]
                \/ v = [Cluster EXCEPT !.rootRef = "auto"] \/ v = Cluster
      PROVE  v.rootRef = "auto"
  BY <1>1, <1>6 DEF Version
<1>7. ASSUME NEW e, v = [Cluster EXCEPT !.phase = e] \/ v = [Cluster EXCEPT !.backend = e]
      PROVE  v.rootRef = "auto"
  BY <1>1, <1>7 DEF Version
<1>8. ~\E b \in Backends, r \in RootRefs : UserCreate(b, r)
  BY <1>4 DEF UserCreate
<1> QED BY <1>3, <1>4, <1>5, <1>6, <1>7, <1>8 DEF Rewritten

LEMMA RewrittenPasswords == ASSUME NEW p, Base(p), Trusted(p), Passwords, Deployments, Vacant,
                                   Rewritten(p), UNCHANGED objects
                            PROVE  Passwords'
<1>1. UNCHANGED <<child, secretPw, lastPw, rootPw>>
  BY DEF objects
<1>2. child["secret"] <= 0 => secretPw <= UserPw
  BY ObjectTypes DEF Base, Passwords, Deployments, Kinds, NoPw, UserPw, NoObject, Nobody
<1>3. secretPw > UserPw /\ (\E s \in Storage : rootPw[s] = secretPw) => Cluster'.rootRef = "auto"
  BY <1>2, RefDropped, ObjectTypes DEF Base, Passwords, UserPw
<1> QED BY <1>1, <1>3 DEF Passwords

\* A child of the process has the uid of the Cluster, which exists.
LEMMA MadeChild == ASSUME NEW p, Base(p), NEW k \in Kinds, Makes(p, k), ctl[p].pc \in ApplySteps
                   PROVE  /\ child'[k] = Cluster.uid /\ child'[k] \in Nat /\ child'[k] > 0
                          /\ \A j \in Kinds : j # k => child'[j] = child[j]
<1>1. Cluster.uid = Snap(p).uid /\ Cluster.uid # 0 /\ Cluster.uid \in Nat
  BY SnapshotInOrder, FeedType DEF Base, Exists, Version
<1>2. child'[k] = Snap(p).uid /\ \A j \in Kinds : j # k => child'[j] = child[j]
  BY ObjectTypes DEF Makes, Base
<1> QED BY <1>1, <1>2

LEMMA MakingApplies == ASSUME NEW p, SecretMade(p) \/ DependantMade(p) \/ DeploymentApplied(p) \/ RootDefined(p)
                       PROVE  ctl[p].pc \in ApplySteps
  BY AppliesChild DEF SecretMade, DependantMade, DeploymentApplied, RootDefined, Applies

LEMMA WorkedOnPasswords == ASSUME NEW p, Base(p), Trusted(p), Passwords, Cluster' = Cluster, WorkedOn(p)
                           PROVE  Passwords'
<1>1. "secret" \in Kinds /\ "deployment" \in Kinds /\ "service" \in Kinds /\ "tidb" \in Kinds
  BY DEF Kinds
<1>2. CASE SecretMade(p)
  <2>1. child'["secret"] > 0 /\ child'["secret"] \in Nat
    BY <1>1, <1>2, MadeChild, MakingApplies DEF SecretMade
  <2>2. secretPw' = lastPw + 1 /\ lastPw' = lastPw + 1 /\ rootPw' = rootPw
    BY <1>2 DEF SecretMade
  <2>3. \A s \in Storage : rootPw[s] \in Int /\ rootPw[s] <= lastPw
    BY ObjectTypes DEF Base, Passwords
  <2> QED BY <2>1, <2>2, <2>3, ObjectTypes DEF Base, Passwords, NoPw, UserPw, NoObject, Nobody
<1>3. ASSUME child'["secret"] = child["secret"], UNCHANGED <<secretPw, lastPw, rootPw>>
      PROVE  Passwords'
  BY <1>3 DEF Passwords
<1>4. CASE DependantMade(p) \/ DeploymentApplied(p)
  <2>1. child'["secret"] = child["secret"]
    BY <1>1, <1>4, MadeChild, MakingApplies DEF DependantMade, DeploymentApplied
  <2> QED BY <1>3, <1>4, <2>1 DEF DependantMade, DeploymentApplied
<1>5. CASE RootDefined(p)
  <2>1. PICK r : r = ctl[p] /\ r.pc = "postSql" /\ r.cred = RefPw(Cluster.rootRef)
    BY <1>5 DEF RootDefined, PostSql, Trusted, StepGranted
  <2>2. Snap(p).backend \in Storage /\ Snap(p).backend # "none" /\ Cluster.rootRef \in {"auto", "user"}
    BY <2>1, Committed, FeedType DEF Base, Version, Refs
  <2>3. /\ rootPw' = [rootPw EXCEPT ![Snap(p).backend] = r.cred]
        /\ UNCHANGED <<child, secretPw, lastPw>>
    BY <1>5, <2>1 DEF RootDefined
  <2>4. r.cred = UserPw \/ (r.cred = secretPw /\ Cluster.rootRef = "auto")
    BY <2>1, <2>2 DEF RefPw
  <2>5. r.cred <= lastPw /\ \A s \in Storage : rootPw'[s] = rootPw[s] \/ rootPw'[s] = r.cred
    BY <2>2, <2>3, <2>4, ObjectTypes DEF Base, Passwords, UserPw
  <2>6. rootPw'["none"] = NoPw
    BY <2>2, <2>3, ObjectTypes DEF Base, Passwords, Storage
  <2>7. secretPw > UserPw /\ (\E s \in Storage : rootPw'[s] = secretPw) => Cluster.rootRef = "auto"
    BY <2>4, <2>5, ObjectTypes DEF Base, Passwords, UserPw
  <2> QED BY <2>3, <2>5, <2>6, <2>7 DEF Passwords
<1>6. CASE DeleteChild(p) /\ RemoveChild(Child(p))
  <2>1. CASE Child(p) = "secret"
    <3>1. child'["secret"] = NoObject /\ secretPw' = NoPw /\ UNCHANGED <<lastPw, rootPw>>
      BY <1>1, <1>6, <2>1, ObjectTypes DEF RemoveChild, Base
    <3> QED BY <3>1, ObjectTypes DEF Base, Passwords, NoPw, UserPw, NoObject, Nobody
  <2>2. CASE Child(p) # "secret"
    BY <1>1, <1>3, <1>6, <2>2, ObjectTypes DEF RemoveChild, Base
  <2> QED BY <2>1, <2>2
<1>7. ASSUME NEW k \in Foreign, UserPrecreate(k) PROVE Passwords'
  <2>1. CASE k = "secret"
    <3>1. child'["secret"] = Nobody /\ secretPw' = UserPw /\ UNCHANGED <<lastPw, rootPw>>
      BY <1>1, <1>7, <2>1, ObjectTypes DEF UserPrecreate, Base
    <3> QED BY <3>1, ObjectTypes DEF Base, Passwords, NoPw, UserPw, NoObject, Nobody
  <2>2. CASE k # "secret"
    BY <1>1, <1>3, <1>7, <2>2, ObjectTypes DEF UserPrecreate, Base
  <2> QED BY <2>1, <2>2
<1>8. CASE PodsChange
  BY <1>3, <1>8 DEF PodsChange, PodUp, PodRetire, PodLost, TidbBecomesReady
<1> QED BY <1>2, <1>4, <1>5, <1>6, <1>7, <1>8 DEF WorkedOn

LEMMA DeploymentsHold == ASSUME NEW p, Base(p), Deployments, UNCHANGED objects \/ WorkedOn(p)
                         PROVE  Deployments'
<1>1. "secret" \in Kinds /\ "deployment" \in Kinds /\ "service" \in Kinds /\ "tidb" \in Kinds
  BY DEF Kinds
<1>2. ASSUME child' = child, mode' = mode PROVE Deployments'
  BY <1>2 DEF Deployments
<1>3. ASSUME NEW k \in Kinds, Makes(p, k), ctl[p].pc \in ApplySteps, k = "deployment" \/ mode' = mode
      PROVE  Deployments'
  <2>1. /\ child'[k] > 0 /\ child'[k] \in Nat
        /\ \A j \in Kinds : j # k => child'[j] = child[j]
    BY <1>3, MadeChild
  <2> QED BY <1>1, <1>3, <2>1, ObjectTypes DEF Base, Deployments, NoObject, Nobody
<1>4. CASE SecretMade(p) \/ DependantMade(p) \/ DeploymentApplied(p)
  BY <1>1, <1>3, <1>4, MakingApplies DEF SecretMade, DependantMade, DeploymentApplied
<1>5. CASE DeleteChild(p) /\ RemoveChild(Child(p))
  <2>1. \A j \in Kinds : child'[j] = IF j = Child(p) THEN NoObject ELSE child[j]
    BY <1>5, ObjectTypes DEF RemoveChild, Base
  <2>2. IF Child(p) = "deployment" THEN mode' = "none" ELSE mode' = mode
    BY <1>5 DEF RemoveChild
  <2> QED BY <1>1, <2>1, <2>2, ObjectTypes DEF Base, Deployments, NoObject, Nobody
<1>6. ASSUME NEW k \in Foreign, UserPrecreate(k) PROVE Deployments'
  <2>1. k \in Kinds
    BY ControllerAssumption
  <2>2. /\ \A j \in Kinds : child'[j] = IF j = k THEN Nobody ELSE child[j]
        /\ mode' = IF k = "deployment" THEN "foreign" ELSE mode
    BY <1>6, <2>1, ObjectTypes DEF UserPrecreate, Base
  <2> QED BY <1>1, <2>1, <2>2, ObjectTypes DEF Base, Deployments, NoObject, Nobody
<1>7. CASE UNCHANGED objects \/ RootDefined(p) \/ PodsChange
  BY <1>2, <1>7 DEF objects, RootDefined, PodsChange, PodUp, PodRetire, PodLost, TidbBecomesReady
<1> QED BY <1>4, <1>5, <1>6, <1>7 DEF WorkedOn

LEMMA VacantHolds == ASSUME NEW p, Base(p), Vacant, Rewritten(p), lastUid \in Nat
                     PROVE  Vacant'
<1>1. Cluster \in Version /\ (Cluster.fin => Exists(Cluster))
  BY FeedType, StoredOK DEF Base
<1>2. PICK v : v = Cluster'
  OBVIOUS
<1>3. v = Cluster => (Exists(v) \/ v = Absent)
  BY DEF Vacant
<1>4. ASSUME Exists(Cluster), v = [Cluster EXCEPT !.fin = TRUE] \/ v = [Cluster EXCEPT !.deleting = TRUE]
                \/ v = [Cluster EXCEPT !.rootRef = "auto"] \/ v = [Cluster EXCEPT !.fin = FALSE]
      PROVE  Exists(v)
  BY <1>1, <1>4 DEF Version, Exists
<1>5. ASSUME NEW e, Exists(Cluster), \/ v = [Cluster EXCEPT !.phase = e] \/ v = [Cluster EXCEPT !.backend = e]
                                     \/ v = [Cluster EXCEPT !.rootRef = e]
      PROVE  Exists(v)
  BY <1>1, <1>5 DEF Version, Exists
<1>6. ASSUME NEW b, NEW r, v = [Absent EXCEPT !.uid = lastUid + 1, !.backend = b, !.rootRef = r]
      PROVE  Exists(v)
  <2>1. v.uid = lastUid + 1
    BY <1>6 DEF Absent
  <2> QED BY <2>1 DEF Exists
<1>7. Exists(v) \/ v = Absent
  BY <1>1, <1>2, <1>3, <1>4, <1>5, <1>6 DEF Rewritten, UserEdit, UserDelete
<1> QED BY <1>2, <1>7 DEF Vacant

-----------------------------------------------------------------------------
(* A reconcile that opens access is in time.                               *)

\* Only the start of a reconcile and the phase it has stored lead there.
LEMMA ToDeployment == ASSUME NEW p, Base(p), Next, ctl'[p].pc = "applyDeployment"
                      PROVE  ctl' = ctl \/ Start(p) \/ SetPhase(p)
<1>1. ASSUME Requeue(p) \/ AwaitChange(p) PROVE FALSE
  BY <1>1, RestingIdle DEF Base, Idle
<1>2. ASSUME NEW pc, Goto(p, pc), pc # "applyDeployment" PROVE FALSE
  BY <1>2, GotoRecord DEF Base
<1>3. ASSUME NEW g, GotoPhase(p, g) PROVE FALSE
  BY <1>3, GotoPhaseRecord DEF Base
<1>4. ASSUME NextChild(p) PROVE FALSE
  BY <1>4, FeedType DEF NextChild, Base, TypeInv, ProcessOK, Record
<1>5. ASSUME NEW c \in Controllers, Step(c) \/ Watch(c) \/ Crash(c)
      PROVE  ctl' = ctl \/ Start(p) \/ SetPhase(p)
  <2>1. c = p
    BY DEF Base, Alone
  <2>2. CASE Watch(p)
    BY <2>2 DEF Watch
  <2>3. CASE Crash(p)
    <3>1. ctl'[p] = Idle
      BY <2>3, FeedType DEF Base, Crash, Restart, TypeInv, ProcessOK
    <3> QED BY <3>1 DEF Idle
  <2>4. CASE AddFinalizer(p) \/ RemoveFinalizer(p)
    BY <1>1, <2>4 DEF AddFinalizer, RemoveFinalizer, Write
  <2>5. CASE CreateSecret(p) \/ PersistRef(p) \/ CreateTidb(p) \/ ApplyDeployment(p)
    BY <1>1, <1>2, <1>3, <2>5 DEF CreateSecret, PersistRef, CreateTidb, ApplyDeployment, Write
  <2>6. CASE ApplyService(p)
    BY <1>1, <1>2, <2>6 DEF ApplyService, AfterApply, Write
  <2>7. CASE GetTidb(p)
    BY <1>1, <1>3, <2>7 DEF GetTidb, Read
  <2>8. CASE CheckReady(p)
    <3>1. WhenReady(p) => Requeue(p) \/ Goto(p, "getSecret") \/ GotoPhase(p, "InProgress") \/ GotoPhase(p, "Ready")
      BY DEF WhenReady
    <3>2. WhenNotReady(p) => Requeue(p) \/ GotoPhase(p, "NotReady")
      BY DEF WhenNotReady
    <3> QED BY <1>1, <1>2, <1>3, <2>8, <3>1, <3>2 DEF CheckReady, Read
  <2>9. CASE GetSecret(p)
    <3>1. ASSUME NEW w, ctl' = [ctl EXCEPT ![p].pc = "postSql", ![p].cred = w] PROVE FALSE
      BY <3>1, FeedType DEF Base, TypeInv, ProcessOK, Record
    <3> QED BY <1>1, <2>9, <3>1 DEF GetSecret, Read
  <2>10. CASE PostSql(p)
    BY <1>1, <1>3, <2>10 DEF PostSql, Write
  <2>11. CASE GetChild(p) \/ DeleteChild(p) \/ Publish(p)
    BY <1>1, <1>2, <1>4, <2>11 DEF GetChild, DeleteChild, Publish, Read, Write
  <2> QED BY <1>5, <2>1, <2>2, <2>3, <2>4, <2>5, <2>6, <2>7, <2>8, <2>9, <2>10, <2>11 DEF Step
<1>6. CASE Users \/ Platform \/ PodLost
  BY <1>6 DEF Users, UserCreate, UserEdit, UserDelete, UserPrecreate, Platform, PodLost, PodUp,
     PodRetire, TidbBecomesReady, GarbageCollect, Outside
<1> QED BY <1>5, <1>6 DEF Next

LEMMA OpensHolds == ASSUME NEW p, Base(p), Next, OpensInTime(ctl[p])
                    PROVE  OpensInTime(ctl[p])'
<1> SUFFICES ASSUME ctl'[p].pc = "applyDeployment", Opens(ctl'[p].snap)
             PROVE  /\ Cluster'.phase \in {"Preparing", "InCreation", "Error"}
                    /\ Cluster'.rootRef # "none"
  BY DEF OpensInTime
<1>1. Cluster \in Version
  BY FeedType DEF Base
<1>2. CASE ctl' = ctl
  <2>1. PICK r : r = ctl[p] /\ r.pc = "applyDeployment" /\ r.pc \in ApplySteps /\ Opens(r.snap)
    BY <1>2 DEF ApplySteps, CleanupSteps, Steps
  <2>2. Cluster.phase \in {"Preparing", "InCreation", "Error"} /\ Cluster.rootRef # "none"
    BY <2>1 DEF OpensInTime
  <2>3. Cluster.fin /\ Exists(Cluster)
    BY <2>1, SnapshotInOrder
  <2>4. ~(AddFinalizer(p) \/ SetPhase(p) \/ PersistRef(p) \/ RemoveFinalizer(p))
    BY <2>1 DEF AddFinalizer, SetPhase, PersistRef, RemoveFinalizer
  <2>5. PICK v : v = Cluster'
    OBVIOUS
  <2>6. v = [Cluster EXCEPT !.deleting = TRUE] => v.phase = Cluster.phase /\ v.rootRef = Cluster.rootRef
    BY <1>1 DEF Version
  <2>7. ASSUME NEW b, v = [Cluster EXCEPT !.backend = b]
        PROVE v.phase = Cluster.phase /\ v.rootRef = Cluster.rootRef
    BY <1>1, <2>7 DEF Version
  <2>8. ~\E b \in Backends, e \in RootRefs : UserCreate(b, e)
    BY <2>3 DEF UserCreate
  <2> QED BY <2>2, <2>3, <2>4, <2>5, <2>6, <2>7, <2>8, ClusterFrom DEF Rewritten
<1>3. CASE Start(p) /\ ctl' # ctl
  <2>1. PICK pc \in Steps, goal \in Phases :
               Begin(p, pc, goal) /\ (pc = "applyDeployment" => ~Opens(Cached(p)))
    BY <1>3 DEF Start, ReconcileGone, ReconcileUnfinalized, ReconcileDeleted, ReconcileNew, AfterNew,
       ReconcilePreparing, ReconcileInCreation, ReconcileServing, ReconcileError, Steps, Phases, Opens, Serving
  <2>2. ctl'[p].pc = pc /\ ctl'[p].snap = Cached(p)
    BY <2>1, BeginView, FeedType DEF Base
  <2> QED BY <2>1, <2>2
<1>4. CASE SetPhase(p)
  <2>1. PICK r : r = ctl[p] /\ r.pc = "setPhase" /\ r.pc \in ApplySteps
    BY <1>4 DEF SetPhase, ApplySteps, CleanupSteps, Steps
  <2>2. /\ MayWrite(r.snap, r.goal)
        /\ r.goal \in Started => Cluster.rootRef # "none"
    BY <2>1 DEF Base, Order, OrderOf, StepOrder, View, StepInv
  <2>3. Goto(p, "applyDeployment") /\ r.goal \in {"InCreation", "InProgress"}
    <3>1. Requeue(p) \/ (Goto(p, "applyDeployment") /\ r.goal \in {"InCreation", "InProgress"})
      BY <1>4, <2>1 DEF SetPhase, Write, AfterPhase
    <3>2. ~Requeue(p)
      BY RestingIdle DEF Base, Idle
    <3> QED BY <3>1, <3>2
  <2>4. Opens(r.snap)
    BY <2>1, <2>3, GotoRecord DEF Base
  <2>5. r.goal = "InCreation" /\ Cluster.rootRef # "none"
    BY <2>2, <2>3, <2>4 DEF MayWrite, Opens, Started, AfterNew, Serving
  <2>6. CASE Cluster' = [Cluster EXCEPT !.phase = r.goal]
    <3>1. ASSUME NEW v, v = [Cluster EXCEPT !.phase = r.goal]
          PROVE  v.phase = r.goal /\ v.rootRef = Cluster.rootRef
      BY <1>1, <3>1 DEF Version
    <3> QED BY <2>5, <2>6, <3>1
  <2>7. CASE Cluster' = Cluster /\ Cluster' # [Cluster EXCEPT !.phase = r.goal]
    <3>1. ~Propagates(p)
      <4>1. Exists(Cluster)
        BY <2>1, SnapshotInOrder
      <4>2. ~Store([Cluster EXCEPT !.phase = r.goal])
        BY <2>7, Stored DEF Base
      <4>3. IF Propagates(p) THEN Requeue(p) ELSE AfterPhase(p)
        BY <1>4, <2>1, <4>1, <4>2 DEF SetPhase, Write
      <4> QED BY <4>3, RestingIdle DEF Base, Idle
    <3>2. r.snap.phase = "Preparing"
      BY <2>1, <2>4, <2>5, <3>1 DEF Propagates, Opens, Snap
    <3>3. Follows(r.snap, Cluster) /\ Exists(r.snap) /\ Cluster.uid = r.snap.uid
      BY <2>1, SnapshotInOrder DEF Snap
    <3> QED BY <2>5, <2>7, <3>2, <3>3 DEF Follows, MayBecome, Serving
  <2>8. Cluster' = Cluster \/ Cluster' = [Cluster EXCEPT !.phase = r.goal]
    BY <1>4, <2>1, Stored DEF SetPhase, Write, Base, object, Cluster
  <2> QED BY <2>6, <2>7, <2>8
<1> QED BY <1>2, <1>3, <1>4, ToDeployment

-----------------------------------------------------------------------------
(* No service without a root user.                                         *)

\* Only a login that SurrealDB has answered leads there.
LEMMA ToService == ASSUME NEW p, Base(p), Next, ctl'[p].pc = "setPhase", ctl'[p].goal = "InProgress"
                   PROVE  ctl' = ctl \/ PostSql(p)
<1>1. ASSUME Requeue(p) \/ AwaitChange(p) PROVE FALSE
  BY <1>1, RestingIdle DEF Base, Idle
<1>2. ASSUME NEW pc, Goto(p, pc), pc # "setPhase" PROVE FALSE
  BY <1>2, GotoRecord DEF Base
<1>3. ASSUME NEW g, GotoPhase(p, g), g # "InProgress" PROVE FALSE
  BY <1>3, GotoPhaseRecord DEF Base
<1>4. ASSUME NextChild(p) PROVE FALSE
  BY <1>4, FeedType DEF NextChild, Base, TypeInv, ProcessOK, Record
<1>5. ASSUME NEW c \in Controllers, Step(c) \/ Watch(c) \/ Crash(c)
      PROVE  ctl' = ctl \/ PostSql(p)
  <2>1. c = p
    BY DEF Base, Alone
  <2>2. CASE Watch(p)
    BY <2>2 DEF Watch
  <2>3. CASE Crash(p)
    <3>1. ctl'[p] = Idle
      BY <2>3, FeedType DEF Base, Crash, Restart, TypeInv, ProcessOK
    <3> QED BY <3>1 DEF Idle
  <2>4. CASE Start(p) /\ ctl' # ctl
    <3>1. PICK pc \in Steps, goal \in Phases \ {"InProgress"} : Begin(p, pc, goal)
      BY <2>4 DEF Start, ReconcileGone, ReconcileUnfinalized, ReconcileDeleted, ReconcileNew, AfterNew,
         ReconcilePreparing, ReconcileInCreation, ReconcileServing, ReconcileError, Steps, Phases
    <3>2. ctl'[p].goal = goal
      BY <3>1, FeedType DEF Base, Begin, Idle, TypeInv, ProcessOK
    <3> QED BY <3>1, <3>2
  <2>5. CASE AddFinalizer(p) \/ RemoveFinalizer(p)
    BY <1>1, <2>5 DEF AddFinalizer, RemoveFinalizer, Write
  <2>6. CASE CreateSecret(p) \/ PersistRef(p) \/ CreateTidb(p) \/ ApplyDeployment(p)
    BY <1>1, <1>2, <1>3, <2>6 DEF CreateSecret, PersistRef, CreateTidb, ApplyDeployment, Write, AfterNew
  <2>7. CASE SetPhase(p)
    BY <1>1, <1>2, <2>7 DEF SetPhase, AfterPhase, Write
  <2>8. CASE ApplyService(p)
    BY <1>1, <1>2, <2>8 DEF ApplyService, AfterApply, Write
  <2>9. CASE GetTidb(p)
    BY <1>1, <1>3, <2>9 DEF GetTidb, Read
  <2>10. CASE CheckReady(p)
    <3>1. WhenReady(p) => Requeue(p) \/ Goto(p, "getSecret") \/ GotoPhase(p, "Ready")
      BY DEF WhenReady
    <3>2. WhenNotReady(p) => Requeue(p) \/ GotoPhase(p, "NotReady")
      BY DEF WhenNotReady
    <3> QED BY <1>1, <1>2, <1>3, <2>10, <3>1, <3>2 DEF CheckReady, Read
  <2>11. CASE GetSecret(p)
    <3>1. ASSUME NEW w, ctl' = [ctl EXCEPT ![p].pc = "postSql", ![p].cred = w] PROVE FALSE
      BY <3>1, FeedType DEF Base, TypeInv, ProcessOK, Record
    <3> QED BY <1>1, <2>11, <3>1 DEF GetSecret, Read
  <2>12. CASE GetChild(p) \/ DeleteChild(p) \/ Publish(p)
    BY <1>1, <1>2, <1>4, <2>12 DEF GetChild, DeleteChild, Publish, Read, Write
  <2> QED BY <1>5, <2>1, <2>2, <2>3, <2>4, <2>5, <2>6, <2>7, <2>8, <2>9, <2>10, <2>11, <2>12 DEF Step
<1>6. CASE Users \/ Platform \/ PodLost
  BY <1>6 DEF Users, UserCreate, UserEdit, UserDelete, UserPrecreate, Platform, PodLost, PodUp,
     PodRetire, TidbBecomesReady, GarbageCollect, Outside
<1> QED BY <1>5, <1>6 DEF Next

\* A Secret that exists has a password.
LEMMA SecretHasPw == ASSUME TypeInv, Passwords, Deployments, child["secret"] # NoObject
                     PROVE  secretPw # NoPw
  BY ObjectTypes DEF Passwords, Deployments, Kinds, NoPw, UserPw, NoObject, Nobody

\* A login leaves a root user in the storage of the Cluster, and no other step
\* takes one from any storage.
LEMMA LoginRoots == ASSUME NEW p, Base(p), Trusted(p), Passwords, Deployments, RootDefined(p)
                    PROVE  /\ rootPw'[Cluster.backend] # NoPw
                           /\ \A s \in Storage : rootPw[s] # NoPw => rootPw'[s] # NoPw
<1>1. PICK r : r = ctl[p] /\ r.pc = "postSql" /\ r.cred = RefPw(Cluster.rootRef)
  BY DEF RootDefined, PostSql, Trusted, StepGranted
<1>2. /\ Cluster.backend = Snap(p).backend /\ Cluster.backend \in Storage
      /\ Cluster.rootRef \in {"auto", "user"}
  BY <1>1, Committed, FeedType DEF Base, Version, Refs
<1>3. Cluster.rootRef = "auto" => child["secret"] # NoObject
  BY MakingApplies, Applying DEF Trusted, Sound, ObjectGranted, Pristine
<1>4. r.cred # NoPw
  BY <1>1, <1>2, <1>3, SecretHasPw DEF RefPw, Base, UserPw, NoPw
<1>5. rootPw' = [rootPw EXCEPT ![Cluster.backend] = r.cred]
  BY <1>1, <1>2 DEF RootDefined
<1> QED BY <1>2, <1>4, <1>5, ObjectTypes DEF Base

LEMMA RootKept == ASSUME NEW p, Base(p), WorkedOn(p), ~RootDefined(p) PROVE rootPw' = rootPw
  BY DEF WorkedOn, SecretMade, DependantMade, DeploymentApplied, RemoveChild, UserPrecreate,
     PodsChange, PodUp, PodRetire, PodLost, TidbBecomesReady

\* The storage of a Cluster that is prepared stays, and a phase in service is
\* declared by a reconcile of a bootstrap or of a Cluster in service.
LEMMA RootedRewritten == ASSUME NEW p, Base(p), Rooted, RootsInTime(ctl[p]), UNCHANGED objects, Rewritten(p)
                         PROVE  Rooted'
<1>1. Cluster \in Version
  BY FeedType DEF Base
<1>2. rootPw' = rootPw
  BY DEF objects
<1>3. Cluster.phase \in Started => Cluster.backend # "none"
  BY StoredInOrder DEF Base, Backed
<1>4. PICK v : v = Cluster'
  OBVIOUS
<1>5. ASSUME v.phase = Cluster.phase, v.backend = Cluster.backend \/ Cluster.phase \notin Started
      PROVE  Rooted'
  BY <1>2, <1>4, <1>5 DEF Rooted, Started
<1>6. ASSUME NEW e, \/ v = [Cluster EXCEPT !.fin = e] \/ v = [Cluster EXCEPT !.deleting = e]
                    \/ v = [Cluster EXCEPT !.rootRef = e] \/ v = Cluster
      PROVE  v.phase = Cluster.phase /\ v.backend = Cluster.backend
  BY <1>1, <1>6 DEF Version
<1>7. ASSUME NEW e, Cluster.backend = "none", v = [Cluster EXCEPT !.backend = e]
      PROVE  v.phase = Cluster.phase /\ Cluster.phase \notin Started
  BY <1>1, <1>3, <1>7 DEF Version
<1>8. ASSUME v.phase = "New" PROVE Rooted'
  BY <1>4, <1>8 DEF Rooted, Serving
<1>9. Absent.phase = "New" /\ \A b, e : [Absent EXCEPT !.uid = lastUid + 1, !.backend = b, !.rootRef = e].phase = "New"
  BY DEF Absent
<1>10. ASSUME SetPhase(p), v = [Cluster EXCEPT !.phase = ctl[p].goal] PROVE Rooted'
  <2>1. PICK r : r = ctl[p] /\ r.pc = "setPhase" /\ r.pc \in ApplySteps
    BY <1>10 DEF SetPhase, ApplySteps, CleanupSteps, Steps
  <2>2. v.phase = r.goal /\ v.backend = Cluster.backend
    BY <1>1, <1>10, <2>1 DEF Version
  <2>3. MayWrite(r.snap, r.goal) /\ MayBecome(r.snap, Cluster.phase)
    BY <2>1, SnapshotInOrder DEF Base, Order, OrderOf, StepOrder, Follows, Snap
  <2>4. r.goal \in Serving => r.goal = "InProgress" \/ Cluster.phase \in Serving
    BY <2>3 DEF MayWrite, MayBecome, AfterNew, Serving
  <2> QED BY <1>2, <1>4, <2>1, <2>2, <2>4 DEF Rooted, RootsInTime
<1>11. ASSUME \/ v = Cluster \/ v = [Cluster EXCEPT !.fin = TRUE] \/ v = [Cluster EXCEPT !.fin = FALSE]
              \/ v = [Cluster EXCEPT !.deleting = TRUE] \/ \E e : v = [Cluster EXCEPT !.rootRef = e]
       PROVE  Rooted'
  BY <1>5, <1>6, <1>11
<1>12. ASSUME v = Absent \/ \E b, e : v = [Absent EXCEPT !.uid = lastUid + 1, !.backend = b, !.rootRef = e]
       PROVE  Rooted'
  BY <1>8, <1>9, <1>12
<1>13. ASSUME NEW e, Cluster.backend = "none", v = [Cluster EXCEPT !.backend = e] PROVE Rooted'
  BY <1>5, <1>7, <1>13
<1> QED BY <1>4, <1>10, <1>11, <1>12, <1>13 DEF Rewritten

LEMMA RootedHolds == ASSUME NEW p, Base(p), Trusted(p), Passwords, Deployments, Next,
                            Rooted, RootsInTime(ctl[p])
                     PROVE  Rooted'
<1>1. Cluster.backend \in Storage
  BY FeedType DEF Base, Version
<1>2. CASE Cluster' = Cluster /\ WorkedOn(p)
  BY <1>1, <1>2, LoginRoots, RootKept DEF Rooted
<1> QED BY <1>2, OneOrTheOther, RootedRewritten

LEMMA RootsInTimeHolds == ASSUME NEW p, Base(p), Trusted(p), Passwords, Deployments, Next,
                                 RootsInTime(ctl[p])
                          PROVE  RootsInTime(ctl[p])'
<1> SUFFICES ASSUME ctl'[p].pc = "setPhase", ctl'[p].goal = "InProgress"
             PROVE  rootPw'[Cluster'.backend] # NoPw
  BY DEF RootsInTime
<1>1. Cluster \in Version
  BY FeedType DEF Base
<1>2. CASE ctl' = ctl
  <2>1. PICK r : r = ctl[p] /\ r.pc = "setPhase" /\ r.goal = "InProgress"
    BY <1>2
  <2>2. Cluster.fin /\ Exists(Cluster) /\ Cluster.backend # "none" /\ rootPw[Cluster.backend] # NoPw
    BY <2>1, Committed DEF RootsInTime
  <2>3. ~(AddFinalizer(p) \/ PersistRef(p) \/ RemoveFinalizer(p))
    BY <2>1 DEF AddFinalizer, PersistRef, RemoveFinalizer
  <2>4. PICK v : v = Cluster'
    OBVIOUS
  <2>5. ASSUME NEW e, v = [Cluster EXCEPT !.deleting = e] \/ v = [Cluster EXCEPT !.rootRef = e]
                      \/ v = [Cluster EXCEPT !.phase = e]
        PROVE v.backend = Cluster.backend
    BY <1>1, <2>5 DEF Version
  <2>6. ~\E b \in Backends, e \in RootRefs : UserCreate(b, e)
    BY <2>2 DEF UserCreate
  <2>7. Cluster'.backend = Cluster.backend
    BY <2>2, <2>3, <2>4, <2>5, <2>6, ClusterFrom DEF Rewritten
  <2>8. rootPw'[Cluster.backend] # NoPw
    <3>1. UNCHANGED objects => rootPw' = rootPw
      BY DEF objects
    <3> QED BY <1>1, <2>2, <3>1, ObjectsFrom, RootKept, LoginRoots DEF Version
  <2> QED BY <2>7, <2>8
<1>3. CASE PostSql(p)
  <2>1. PICK r : r = ctl[p] /\ r.pc = "postSql"
    BY <1>3 DEF PostSql
  <2>2. Cluster' = Cluster /\ Cluster.backend = Snap(p).backend
    BY <1>3, <2>1, Committed DEF PostSql, Cluster
  <2>3. ~Requeue(p)
    BY RestingIdle DEF Base, Idle
  <2>4. DefineRoot(p) /\ "creation" \in pods /\ child["service"] > 0
    BY <1>3, <2>3 DEF PostSql, Write
  <2>5. CASE rootPw[Snap(p).backend] = NoPw \/ DefineOverwrites
    <3>1. RootDefined(p)
      BY <1>3, <2>4, <2>5 DEF RootDefined, DefineRoot, PostSql
    <3> QED BY <2>2, <3>1, LoginRoots
  <2>6. CASE ~(rootPw[Snap(p).backend] = NoPw \/ DefineOverwrites)
    BY <2>2, <2>4, <2>6 DEF DefineRoot
  <2> QED BY <2>5, <2>6
<1> QED BY <1>2, <1>3, ToService

-----------------------------------------------------------------------------
RInv(p) == /\ GInv(p) /\ Passwords /\ Deployments /\ Vacant /\ Rooted
           /\ OpensInTime(ctl[p]) /\ RootsInTime(ctl[p])

LEMMA RInvBase == ASSUME NEW p, Alone(p), RInv(p)
                  PROVE  /\ Base(p) /\ Trusted(p) /\ Passwords /\ Deployments /\ Vacant /\ Rooted
                         /\ OpensInTime(ctl[p]) /\ RootsInTime(ctl[p])
  BY DEF RInv, GInv, OInv, CInv, IInv, Base

LEMMA InitRefinement == ASSUME NEW p, Alone(p), Init PROVE RInv(p)
<1>1. Cluster = Absent /\ ctl[p] = Idle
  BY DEF Init, Cluster, Alone
<1>2. Passwords
  BY <1>1 DEF Init, Passwords, Absent, Kinds, Storage, NoPw, UserPw, NoObject, Nobody
<1>3. Deployments
  BY DEF Init, Deployments, Kinds, NoObject, Nobody
<1>4. Vacant /\ Rooted /\ OpensInTime(ctl[p]) /\ RootsInTime(ctl[p])
  BY <1>1 DEF Vacant, Rooted, OpensInTime, RootsInTime, Idle, Absent, Serving
<1> QED BY <1>2, <1>3, <1>4, InitGranted DEF RInv

LEMMA NextRefinement == ASSUME NEW p, Alone(p), RInv(p), [Next]_vars PROVE RInv(p)'
<1>1. GInv(p)'
  BY NextGranted DEF RInv
<1>2. /\ Base(p) /\ Trusted(p) /\ Passwords /\ Deployments /\ Vacant /\ Rooted
      /\ OpensInTime(ctl[p]) /\ RootsInTime(ctl[p])
  BY RInvBase
<1>3. CASE UNCHANGED vars
  <2>1. Cluster' = Cluster
    BY <1>3 DEF vars, Cluster
  <2>2. Passwords' /\ Deployments' /\ Vacant'
    BY <1>2, <1>3, <2>1 DEF Passwords, Deployments, Vacant, vars
  <2>3. Rooted' /\ OpensInTime(ctl[p])' /\ RootsInTime(ctl[p])'
    BY <1>2, <1>3, <2>1 DEF Rooted, OpensInTime, RootsInTime, vars
  <2> QED BY <1>1, <2>2, <2>3 DEF RInv
<1>4. CASE Next
  <2>1. Passwords'
    BY <1>2, <1>4, OneOrTheOther, RewrittenPasswords, WorkedOnPasswords
  <2>2. Deployments'
    BY <1>2, <1>4, OneOrTheOther, DeploymentsHold
  <2>3. Vacant'
    <3>1. lastUid \in Nat
      BY <1>2 DEF Base, TypeInv, ObjectOK
    <3>2. Rewritten(p) => Vacant'
      BY <1>2, <3>1, VacantHolds
    <3>3. Cluster' = Cluster => Vacant'
      BY <1>2 DEF Vacant
    <3> QED BY <1>2, <1>4, <3>2, <3>3, OneOrTheOther
  <2>4. OpensInTime(ctl[p])'
    BY <1>2, <1>4, OpensHolds
  <2>5. Rooted' /\ RootsInTime(ctl[p])'
    BY <1>2, <1>4, RootedHolds, RootsInTimeHolds
  <2> QED BY <1>1, <2>1, <2>2, <2>3, <2>4, <2>5 DEF RInv
<1> QED BY <1>3, <1>4

LEMMA RefinementHolds == ASSUME NEW CONSTANT p, Alone(p) PROVE Spec => []RInv(p)
<1>1. Init => RInv(p)
  BY InitRefinement
<1>2. RInv(p) /\ [Next]_vars => RInv(p)'
  BY NextRefinement
<1> QED BY <1>1, <1>2, PTL DEF Spec

\* A generated password is in SurrealDB only while the Cluster names the Secret
\* with it, none serves without a Deployment, service is not declared before
\* SurrealDB has a root user, and a reconcile that is about to open access is in
\* time.
THEOREM ConnectionHolds == ASSUME NEW CONSTANT p, Controllers = {p}, StaleList = FALSE
                           PROVE  Spec => []RefinementInv
<1>1. Alone(p) /\ RInv(p) => RefinementInv
  BY DEF Alone, RInv, RefinementInv
<1> QED BY <1>1, RefinementHolds, PTL DEF Alone

-----------------------------------------------------------------------------
(* The steps of ClusterService, by what they do to the Cluster.            *)

Offers == [Service!Next]_(Service!service)

HasStorage == Cluster.backend # "none"

LEMMA OffersAlike == ASSUME HasStorage' = HasStorage, SecretReadable' = SecretReadable,
                            Answers' = Answers, RootKnown' = RootKnown
                     PROVE  Offers
  BY DEF Offers, HasStorage, Service!service

LEMMA OffersName == ASSUME ~SecretReadable, SecretReadable', Answers' = Answers,
                           HasStorage => HasStorage', RootKnown' => HasStorage'
                    PROVE  Offers
<1>1. Service!NameRootSecret
  BY DEF HasStorage, RootKnown, Service!NameRootSecret
<1> QED BY <1>1 DEF Offers, Service!Next

LEMMA OffersStorage == ASSUME ~HasStorage, HasStorage', SecretReadable' = SecretReadable,
                              Answers' = Answers
                       PROVE  Offers
<1>1. Service!ChooseStorage
  BY DEF HasStorage, RootKnown, Service!ChooseStorage
<1> QED BY <1>1 DEF Offers, Service!Next

LEMMA OffersWithdrawn == ASSUME HasStorage \/ SecretReadable, HasStorage' => HasStorage,
                                SecretReadable' => SecretReadable,
                                ~RootKnown', Answers' = Answers
                         PROVE  Offers
<1>1. SecretReadable \in BOOLEAN /\ SecretReadable' \in BOOLEAN /\ RootKnown' \in BOOLEAN
  BY DEF SecretReadable, RootKnown
<1>2. Service!Withdraw
  BY <1>1 DEF HasStorage, Service!Withdraw
<1> QED BY <1>2 DEF Offers, Service!Next

LEMMA OffersRoot == ASSUME SecretReadable, Answers, ~RootKnown, RootKnown',
                           HasStorage' = HasStorage, SecretReadable' = SecretReadable,
                           Answers' = Answers
                    PROVE  Offers
<1>1. Service!Bootstrap
  BY DEF HasStorage, Service!Bootstrap
<1> QED BY <1>1 DEF Offers, Service!Next

LEMMA OffersUpOrDown == ASSUME HasStorage' = HasStorage, SecretReadable' = SecretReadable,
                               RootKnown' = RootKnown
                        PROVE  Offers
<1>1. CASE Answers' = Answers
  BY <1>1, OffersAlike
<1>2. CASE ~Answers /\ Answers'
  <2>1. Service!Serve
    BY <1>2 DEF HasStorage, Service!Serve
  <2> QED BY <2>1 DEF Offers, Service!Next
<1>3. CASE Answers /\ ~Answers'
  <2>1. Service!Outage
    BY <1>3 DEF HasStorage, Service!Outage
  <2> QED BY <2>1 DEF Offers, Service!Next
<1> QED BY <1>1, <1>2, <1>3 DEF Answers

\* Nobody logs in to a Cluster without storage.
LEMMA KnownIsStored ==
  TypeInv /\ Passwords /\ Deployments /\ RootKnown =>
    HasStorage /\ SecretReadable /\ rootPw[Cluster.backend] # NoPw
<1>1. TypeInv /\ Passwords /\ Deployments /\ SecretReadable => RefPw(Cluster.rootRef) # NoPw
  BY SecretHasPw DEF SecretReadable, RefPw, NoPw, UserPw
<1> QED BY <1>1 DEF RootKnown, HasStorage, Passwords

LEMMA KnownWillBeStored ==
  TypeInv' /\ Passwords' /\ Deployments' /\ RootKnown' =>
    HasStorage' /\ SecretReadable' /\ rootPw'[Cluster'.backend] # NoPw
<1>1. (TypeInv /\ Passwords /\ Deployments /\ RootKnown)' =>
        (HasStorage /\ SecretReadable /\ rootPw[Cluster.backend] # NoPw)'
  BY KnownIsStored, PTL
<1> QED BY <1>1

-----------------------------------------------------------------------------
(* A Cluster that is rewritten.                                            *)

LEMMA SameSpec == ASSUME UNCHANGED objects, Cluster'.backend = Cluster.backend, Cluster'.rootRef = Cluster.rootRef
                  PROVE  /\ SecretReadable' = SecretReadable /\ HasStorage' = HasStorage
                         /\ RootKnown' = RootKnown /\ Answers' = Answers
  BY DEF objects, SecretReadable, HasStorage, RootKnown, RefPw, Answers

LEMMA SameServing == ASSUME UNCHANGED objects PROVE Answers' = Answers
  BY DEF objects, Answers

\* What is known of a Cluster that names no Secret, or has no storage.
LEMMA Nameless == /\ Cluster.rootRef = "none" => ~SecretReadable
                  /\ ~SecretReadable => ~RootKnown
  BY DEF SecretReadable, RootKnown

\* The reference is written for a Secret that exists; where it replaces one a
\* user named, nobody has used the generated password yet.
LEMMA RefPersisted == ASSUME NEW p, Base(p), Trusted(p), Passwords, Deployments, PersistRef(p),
                             UNCHANGED objects, Cluster'.backend = Cluster.backend,
                             Cluster'.rootRef = "auto", Cluster.rootRef # "auto"
                      PROVE  /\ SecretReadable'
                             /\ SecretReadable => Cluster.rootRef = "user" /\ (RootKnown' => RootKnown)
<1>1. child["secret"] # NoObject
  BY DEF PersistRef, Trusted, StepGranted
<1>2. UNCHANGED <<child, secretPw, lastPw, rootPw>>
  BY DEF objects
<1>3. SecretReadable'
  BY <1>1, <1>2 DEF SecretReadable
<1>4. SecretReadable => Cluster.rootRef = "user"
  BY DEF SecretReadable
<1>5. Cluster.backend \in Storage
  BY FeedType DEF Base, Version
<1>6. secretPw >= UserPw
  BY <1>1, ObjectTypes DEF Base, Passwords, Deployments, Kinds, NoPw, UserPw, NoObject, Nobody
<1>7. RootKnown' => rootPw[Cluster.backend] = secretPw
  BY <1>2 DEF RootKnown, RefPw
<1>8. RootKnown' => secretPw = UserPw
  BY <1>5, <1>6, <1>7, ObjectTypes DEF Base, Passwords, UserPw
<1>9. SecretReadable /\ RootKnown' => RootKnown
  BY <1>4, <1>7, <1>8 DEF RootKnown, RefPw
<1> QED BY <1>3, <1>4, <1>9

LEMMA RewrittenOffers == ASSUME NEW p, Base(p), Trusted(p), Passwords, Deployments, Vacant,
                                TypeInv', Passwords', Deployments', UNCHANGED objects, Rewritten(p)
                         PROVE  Offers
<1> USE DEF HasStorage
<1>1. Cluster \in Version
  BY FeedType DEF Base
<1>2. Answers' = Answers
  BY SameServing
<1>3. RootKnown => HasStorage /\ SecretReadable
  BY KnownIsStored DEF Base
<1>4. RootKnown' => HasStorage' /\ SecretReadable'
  BY KnownWillBeStored
<1>5. PICK v : v = Cluster'
  OBVIOUS
<1>6. ASSUME v = [Cluster EXCEPT !.fin = TRUE] \/ v = [Cluster EXCEPT !.deleting = TRUE] \/ v = Cluster
               \/ v = [Cluster EXCEPT !.fin = FALSE] \/ (\E e : v = [Cluster EXCEPT !.phase = e])
      PROVE  Offers
  <2>1. v.backend = Cluster.backend /\ v.rootRef = Cluster.rootRef
    BY <1>1, <1>6 DEF Version
  <2> QED BY <1>5, <2>1, SameSpec, OffersAlike
<1>7. ASSUME PersistRef(p), v = [Cluster EXCEPT !.rootRef = "auto"] PROVE Offers
  <2>1. v.backend = Cluster.backend /\ v.rootRef = "auto"
    BY <1>1, <1>7 DEF Version
  <2>2. CASE Cluster.rootRef = "auto"
    BY <1>5, <2>1, <2>2, SameSpec, OffersAlike
  <2>3. CASE Cluster.rootRef # "auto"
    <3>1. /\ SecretReadable'
          /\ SecretReadable => Cluster.rootRef = "user" /\ (RootKnown' => RootKnown)
      BY <1>5, <1>7, <2>1, <2>3, RefPersisted
    <3>2. HasStorage' = HasStorage
      BY <1>5, <2>1
    <3>3. CASE ~SecretReadable
      BY <1>2, <1>4, <3>1, <3>2, <3>3, OffersName
    <3>4. CASE SecretReadable /\ ~RootKnown'
      BY <1>2, <3>1, <3>2, <3>4, OffersWithdrawn
    <3>5. CASE SecretReadable /\ RootKnown'
      <4>1. RootKnown' = RootKnown /\ SecretReadable' = SecretReadable
        BY <3>1, <3>5 DEF RootKnown, SecretReadable
      <4> QED BY <1>2, <3>2, <4>1, OffersAlike
    <3> QED BY <3>3, <3>4, <3>5
  <2> QED BY <2>2, <2>3
<1>8. ASSUME v = Absent PROVE Offers
  <2>1. ~HasStorage' /\ ~SecretReadable' /\ ~RootKnown'
    BY <1>4, <1>5, <1>8 DEF Absent, SecretReadable
  <2>2. CASE HasStorage \/ SecretReadable
    BY <1>2, <2>1, <2>2, OffersWithdrawn
  <2>3. CASE ~HasStorage /\ ~SecretReadable
    <3>1. HasStorage' = HasStorage /\ SecretReadable' = SecretReadable /\ RootKnown' = RootKnown
      BY <1>3, <2>1, <2>3 DEF SecretReadable, RootKnown
    <3> QED BY <1>2, <3>1, OffersAlike
  <2> QED BY <2>2, <2>3
<1>9. ASSUME ~SecretReadable, HasStorage => HasStorage' PROVE Offers
  <2>1. CASE SecretReadable'
    BY <1>2, <1>4, <1>9, <2>1, OffersName
  <2>2. CASE ~SecretReadable'
    <3>1. SecretReadable' = SecretReadable /\ RootKnown' = RootKnown
      BY <1>3, <1>4, <1>9, <2>2 DEF SecretReadable, RootKnown
    <3> QED BY <1>2, <1>9, <3>1, OffersAlike, OffersStorage
  <2> QED BY <2>1, <2>2
<1>10. ASSUME NEW b, NEW r, UserCreate(b, r) PROVE Offers
  <2>1. ~SecretReadable /\ ~HasStorage
    BY <1>10 DEF UserCreate, Vacant, Absent, SecretReadable
  <2> QED BY <1>9, <2>1
<1>11. ASSUME NEW b, Cluster.backend = "none", v = [Cluster EXCEPT !.backend = b] PROVE Offers
  <2>1. v.rootRef = Cluster.rootRef /\ v.backend = b
    BY <1>1, <1>11 DEF Version
  <2>2. SecretReadable' = SecretReadable
    BY <1>5, <2>1 DEF SecretReadable, objects
  <2>3. CASE b = "none"
    BY <1>5, <1>11, <2>1, <2>3, SameSpec, OffersAlike
  <2>4. CASE b # "none"
    BY <1>2, <1>5, <1>11, <2>1, <2>2, <2>4, OffersStorage
  <2> QED BY <2>3, <2>4
<1>12. ASSUME NEW r, Cluster.rootRef = "none", v = [Cluster EXCEPT !.rootRef = r] PROVE Offers
  <2>1. v.backend = Cluster.backend
    BY <1>1, <1>12 DEF Version
  <2> QED BY <1>5, <1>9, <1>12, <2>1, Nameless
<1> QED BY <1>5, <1>6, <1>7, <1>8, <1>10, <1>11, <1>12 DEF Rewritten

-----------------------------------------------------------------------------
(* A Cluster that is worked on.                                            *)

SecretDeleted(p) == DeleteChild(p) /\ Child(p) = "secret" /\ RemoveChild("secret")

\* Somebody makes a Secret of the name that was cleaned up.
SecretFound == UserPrecreate("secret") /\ Cluster.rootRef = "auto"

\* Only the bootstrap and the cleanup of the Secret touch the root user: a Secret
\* that the controller makes anew is not one the Cluster names.
LEMMA RootAlike == ASSUME NEW p, Base(p), Trusted(p), Cluster' = Cluster,
                          WorkedOn(p), ~RootDefined(p), ~SecretDeleted(p), ~SecretFound
                   PROVE  SecretReadable' = SecretReadable /\ RootKnown' = RootKnown
<1>1. "secret" \in Kinds /\ "deployment" \in Kinds /\ "service" \in Kinds /\ "tidb" \in Kinds
  BY DEF Kinds
<1>2. ASSUME child'["secret"] = child["secret"], secretPw' = secretPw, rootPw' = rootPw
      PROVE  SecretReadable' = SecretReadable /\ RootKnown' = RootKnown
  BY <1>2 DEF SecretReadable, RootKnown, RefPw
<1>3. ASSUME Cluster.rootRef # "auto", rootPw' = rootPw
      PROVE  SecretReadable' = SecretReadable /\ RootKnown' = RootKnown
  BY <1>3 DEF SecretReadable, RootKnown, RefPw
<1>4. CASE SecretMade(p)
  <2>1. Pristine(p)
    BY <1>4, MakingApplies, Applying
  <2>2. Cluster.rootRef # "auto"
    BY <1>4, <2>1 DEF SecretMade, Trusted, Sound, ObjectGranted, Pristine
  <2> QED BY <1>3, <1>4, <2>2 DEF SecretMade
<1>5. CASE DependantMade(p) \/ DeploymentApplied(p)
  BY <1>1, <1>2, <1>5, MadeChild, MakingApplies DEF DependantMade, DeploymentApplied
<1>6. CASE DeleteChild(p) /\ RemoveChild(Child(p))
  <2>1. Child(p) # "secret"
    BY <1>6 DEF SecretDeleted
  <2> QED BY <1>1, <1>2, <1>6, <2>1, ObjectTypes DEF RemoveChild, Base
<1>7. ASSUME NEW k \in Foreign, UserPrecreate(k)
      PROVE  SecretReadable' = SecretReadable /\ RootKnown' = RootKnown
  <2>1. rootPw' = rootPw
    BY <1>7 DEF UserPrecreate
  <2>2. CASE k = "secret"
    BY <1>3, <1>7, <2>1, <2>2 DEF SecretFound
  <2>3. CASE k # "secret"
    BY <1>1, <1>2, <1>7, <2>1, <2>3, ObjectTypes DEF UserPrecreate, Base
  <2> QED BY <2>2, <2>3
<1>8. CASE PodsChange
  BY <1>2, <1>8 DEF PodsChange, PodUp, PodRetire, PodLost, TidbBecomesReady
<1> QED BY <1>4, <1>5, <1>6, <1>7, <1>8 DEF WorkedOn

\* The bootstrap makes the root user of the Secret the Cluster names.
LEMMA RootMade == ASSUME NEW p, Base(p), Trusted(p), Cluster' = Cluster, RootDefined(p)
                  PROVE  /\ SecretReadable /\ SecretReadable' /\ RootKnown'
                         /\ Answers /\ Answers' = Answers
<1>1. PICK r : r = ctl[p] /\ r.pc = "postSql" /\ r.cred = RefPw(Cluster.rootRef)
  BY DEF RootDefined, PostSql, Trusted, StepGranted
<1>2. Pristine(p)
  BY MakingApplies, Applying
<1>3. /\ Cluster.backend = Snap(p).backend /\ Cluster.backend \in Storage
      /\ Cluster.rootRef \in {"auto", "user"}
  BY <1>1, Committed, FeedType DEF Base, Version, Refs
<1>4. /\ rootPw' = [rootPw EXCEPT ![Snap(p).backend] = r.cred]
      /\ UNCHANGED <<child, pods, secretPw>>
      /\ child["service"] > 0 /\ pods \ {"foreign"} # {}
  BY <1>1 DEF RootDefined
<1>5. SecretReadable /\ SecretReadable'
  BY <1>2, <1>3, <1>4 DEF Trusted, Sound, ObjectGranted, Pristine, SecretReadable
<1>6. rootPw'[Cluster'.backend] = RefPw(Cluster.rootRef)
  BY <1>1, <1>3, <1>4, ObjectTypes DEF Base
<1>7. RootKnown'
  BY <1>4, <1>5, <1>6 DEF RootKnown, RefPw
<1> QED BY <1>4, <1>5, <1>7 DEF Answers

\* With the generated Secret goes the way to log in.
LEMMA RootForgotten == ASSUME NEW p, Base(p), Cluster' = Cluster, SecretDeleted(p)
                       PROVE  /\ Answers' = Answers
                              /\ \/ SecretReadable /\ ~SecretReadable' /\ ~RootKnown'
                                 \/ SecretReadable' = SecretReadable /\ RootKnown' = RootKnown
<1>1. /\ child'["secret"] = NoObject /\ child'["service"] = child["service"]
      /\ pods' = pods /\ rootPw' = rootPw
  BY ObjectTypes DEF SecretDeleted, RemoveChild, Base, Kinds
<1>2. Cluster.rootRef = "auto" => ~SecretReadable'
  BY <1>1 DEF SecretReadable
<1>3. Cluster.rootRef # "auto" => SecretReadable' = SecretReadable /\ RootKnown' = RootKnown
  BY <1>1 DEF SecretReadable, RootKnown, RefPw
<1>4. ~SecretReadable' => ~RootKnown'
  BY DEF RootKnown
<1>5. ~SecretReadable /\ ~SecretReadable' => SecretReadable' = SecretReadable /\ RootKnown' = RootKnown
  BY DEF SecretReadable, RootKnown
<1> QED BY <1>1, <1>2, <1>3, <1>4, <1>5 DEF Answers

\* It may have the password that SurrealDB has.
LEMMA SecretIsFound == ASSUME NEW p, Base(p), Cluster' = Cluster, SecretFound
                       PROVE  ~SecretReadable /\ SecretReadable' /\ Answers' = Answers /\ rootPw' = rootPw
<1>1. child["secret"] = NoObject /\ child'["secret"] = Nobody /\ child'["service"] = child["service"]
  BY ObjectTypes DEF Base, SecretFound, UserPrecreate, Kinds
<1> QED BY <1>1 DEF SecretFound, UserPrecreate, SecretReadable, Answers, NoObject, Nobody

LEMMA WorkedOnOffers == ASSUME NEW p, Base(p), Trusted(p), Cluster' = Cluster, WorkedOn(p),
                               TypeInv', Passwords', Deployments'
                        PROVE  Offers
<1>1. HasStorage' = HasStorage
  BY DEF HasStorage
<1>2. CASE ~RootDefined(p) /\ ~SecretDeleted(p) /\ ~SecretFound
  BY <1>1, <1>2, RootAlike, OffersUpOrDown
<1>3. CASE RootDefined(p)
  <2>1. /\ SecretReadable /\ SecretReadable' /\ RootKnown'
        /\ Answers /\ Answers' = Answers
    BY <1>3, RootMade
  <2>2. SecretReadable' = SecretReadable
    BY <2>1 DEF SecretReadable
  <2>3. CASE RootKnown
    <3>1. RootKnown' = RootKnown
      BY <2>1, <2>3 DEF RootKnown
    <3> QED BY <1>1, <2>1, <2>2, <3>1, OffersAlike
  <2>4. CASE ~RootKnown
    BY <1>1, <2>1, <2>2, <2>4, OffersRoot
  <2> QED BY <2>3, <2>4
<1>4. CASE SecretDeleted(p)
  BY <1>1, <1>4, RootForgotten, OffersWithdrawn, OffersAlike
<1>5. CASE SecretFound
  <2>1. RootKnown' => HasStorage'
    BY KnownWillBeStored
  <2> QED BY <1>1, <1>5, <2>1, SecretIsFound, OffersName
<1> QED BY <1>2, <1>3, <1>4, <1>5

LEMMA NextOffers == ASSUME NEW p, Alone(p), RInv(p), RInv(p)', [Next]_vars PROVE Offers
<1>1. Base(p) /\ Trusted(p) /\ Passwords /\ Deployments /\ Vacant
  BY RInvBase
<1>2. TypeInv' /\ Passwords' /\ Deployments'
  BY DEF RInv, GInv, OInv, IInv
<1>3. CASE UNCHANGED vars
  <2>1. UNCHANGED objects /\ Cluster' = Cluster
    BY <1>3 DEF vars, objects, Cluster
  <2> QED BY <2>1, SameSpec, OffersAlike
<1>4. CASE Next
  BY <1>1, <1>2, <1>4, OneOrTheOther, RewrittenOffers, WorkedOnOffers
<1> QED BY <1>3, <1>4

LEMMA InitOffers == Init => Service!Init
<1>1. Init => Cluster = Absent
  BY DEF Init, Cluster
<1> QED BY <1>1 DEF Init, Service!Init, Absent, SecretReadable, Answers, RootKnown, Kinds

\* Whatever the controller of a Cluster does and is hit by, those that use the
\* Cluster meet what ClusterService says of it, and no more.
THEOREM ServiceImplemented == ASSUME NEW CONSTANT p, Controllers = {p}, StaleList = FALSE
                              PROVE  Spec => ImplementsService
<1>1. Alone(p) /\ RInv(p) /\ RInv(p)' /\ [Next]_vars => [Service!Next]_(Service!service)
  BY NextOffers DEF Offers
<1>2. Alone(p)
  BY DEF Alone
<1> QED BY <1>1, <1>2, InitOffers, RefinementHolds, PTL DEF Spec, ImplementsService, Service!Spec

-----------------------------------------------------------------------------
(* The steps of ClusterLifecycle.                                          *)

Lives == [Lifecycle!Next]_(Lifecycle!lifecycle)

Named == Cluster.rootRef # "none"

LEMMA LivesAlike == ASSUME Stage' = Stage, Cluster'.phase = Cluster.phase, Named' = Named,
                           Root' = Root, Access' = Access
                    PROVE  Lives
  BY DEF Lives, Named, Lifecycle!lifecycle

LEMMA RootSame == ASSUME RootKnown' = RootKnown, rootPw' = rootPw, Cluster'.backend = Cluster.backend
                  PROVE  Root' = Root
  BY DEF Root

LEMMA AccessSame == mode' = mode => Access' = Access
  BY DEF Access

LEMMA LivesIn == ASSUME UNCHANGED objects, Cluster'.backend = Cluster.backend, Cluster'.rootRef = Cluster.rootRef
                 PROVE  Named' = Named /\ Root' = Root /\ Access' = Access
<1>1. RootKnown' = RootKnown /\ rootPw' = rootPw /\ mode' = mode
  BY SameSpec DEF objects
<1> QED BY <1>1, RootSame, AccessSame DEF Named

\* Whose the root user is.
LEMMA RootCases == /\ Root = "ours" <=> RootKnown
                   /\ ~RootKnown /\ rootPw[Cluster.backend] = NoPw => Root = "nobody"
                   /\ ~RootKnown /\ rootPw[Cluster.backend] # NoPw => Root = "another"
                   /\ rootPw[Cluster.backend] # NoPw => Root # "nobody"
                   /\ Root \in {"nobody", "ours", "another"}
  BY DEF Root

LEMMA RootCasesAfter == /\ Root' = "ours" <=> RootKnown'
                        /\ ~RootKnown' /\ rootPw'[Cluster'.backend] = NoPw => Root' = "nobody"
                        /\ ~RootKnown' /\ rootPw'[Cluster'.backend] # NoPw => Root' = "another"
                        /\ Root' \in {"nobody", "ours", "another"}
  BY DEF Root

\* A phase that may follow, with what has to be there before it.
MayAdvance(q) == \/ Cluster.phase \in {"New", "Error"} /\ q = "Preparing" /\ Named
                 \/ Cluster.phase \in {"New", "Preparing", "Error"} /\ q = "InCreation" /\ Named
                 \/ Cluster.phase \in {"InCreation", "Error"} /\ q = "InProgress" /\ Root # "nobody"
                 \/ Cluster.phase \in {"InProgress", "NotReady"} /\ q = "Ready" /\ Root # "nobody"
                 \/ Cluster.phase \in {"InProgress", "Ready"} /\ q = "NotReady" /\ Root # "nobody"
                 \/ Cluster.phase \in {"New", "Preparing", "InCreation"} /\ q = "Error"

LEMMA LivesAdvance == ASSUME NEW q, Stage # "gone", MayAdvance(q),
                             Stage' = Stage, Cluster'.phase = q, Named' = Named,
                             Root' = Root, Access' = Access
                      PROVE  Lives
<1>1. \/ Lifecycle!Prepare \/ Lifecycle!Launch \/ Lifecycle!EnterService
      \/ Lifecycle!ReportReady \/ Lifecycle!ReportNotReady \/ Lifecycle!Fail
  BY DEF MayAdvance, Named, Lifecycle!Advance, Lifecycle!Prepare, Lifecycle!Launch,
     Lifecycle!EnterService, Lifecycle!ReportReady, Lifecycle!ReportNotReady, Lifecycle!Fail
<1> QED BY <1>1 DEF Lives, Lifecycle!Next

\* What a login needs is there for a Cluster in service.
LEMMA KnownInService == ASSUME NEW p, Base(p), Trusted(p), Pristine(p), Definable, Cluster.phase \in Serving
                        PROVE  RootKnown
<1>1. Cluster.rootRef \in {"auto", "user"}
  BY StoredInOrder, StoredOK, FeedType DEF Base, Backed, RefOK, Started, Version, Refs
<1>2. Granted /\ SecretReadable
  BY <1>1 DEF Trusted, Sound, ObjectGranted, Pristine, SecretReadable
<1> QED BY <1>2 DEF RootKnown, Granted

\* A reconcile writes a phase that may follow the one the Cluster is in by now.
LEMMA PhaseMayFollow == ASSUME NEW p, Base(p), Rooted, RootsInTime(ctl[p]), SetPhase(p)
                        PROVE  ctl[p].goal = Cluster.phase \/ MayAdvance(ctl[p].goal)
<1>1. PICK r : r = ctl[p] /\ r.pc = "setPhase" /\ r.pc \in ApplySteps
  BY DEF SetPhase, ApplySteps, CleanupSteps, Steps
<1>2. MayWrite(r.snap, r.goal) /\ (r.goal \in Started => Named)
  BY <1>1 DEF Base, Order, OrderOf, StepOrder, View, StepInv, Named
<1>3. MayBecome(r.snap, Cluster.phase)
  BY <1>1, SnapshotInOrder DEF Follows, Snap
<1>4. Cluster.phase \in Phases
  BY FeedType DEF Base, Version
<1>6. r.goal = "InProgress" => Root # "nobody"
  BY <1>1, RootCases DEF RootsInTime
<1>7. Cluster.phase \in Serving => Root # "nobody"
  BY RootCases DEF Rooted
<1>8. CASE r.snap.phase = "New"
  BY <1>1, <1>2, <1>3, <1>8 DEF MayWrite, MayBecome, AfterNew, MayAdvance, Started, Serving
<1>9. CASE r.snap.phase = "Preparing" \/ r.snap.phase = "InCreation"
  BY <1>1, <1>2, <1>3, <1>6, <1>9 DEF MayWrite, MayBecome, MayAdvance, Started, Serving
<1>10. CASE r.snap.phase \in Serving
  BY <1>1, <1>2, <1>3, <1>7, <1>10 DEF MayWrite, MayBecome, MayAdvance, Serving
<1> QED BY <1>2, <1>8, <1>9, <1>10 DEF MayWrite

LEMMA SetPhaseLives == ASSUME NEW p, Base(p), Rooted, RootsInTime(ctl[p]), UNCHANGED objects,
                              SetPhase(p), Exists(Cluster), Cluster' = [Cluster EXCEPT !.phase = ctl[p].goal]
                       PROVE  Lives
<1> DEFINE g == ctl[p].goal
<1>1. /\ Cluster'.phase = g /\ Cluster'.uid = Cluster.uid /\ Cluster'.deleting = Cluster.deleting
      /\ Cluster'.backend = Cluster.backend /\ Cluster'.rootRef = Cluster.rootRef
  <2>1. Cluster \in Version
    BY FeedType DEF Base
  <2>2. ASSUME NEW v, v = [Cluster EXCEPT !.phase = g]
        PROVE  /\ v.phase = g /\ v.uid = Cluster.uid /\ v.deleting = Cluster.deleting
               /\ v.backend = Cluster.backend /\ v.rootRef = Cluster.rootRef
    BY <2>1, <2>2 DEF Version
  <2> QED BY <2>2
<1>2. Stage' = Stage /\ Stage # "gone"
  BY <1>1 DEF Stage, Exists
<1>3. Named' = Named /\ Root' = Root /\ Access' = Access
  BY <1>1, LivesIn
<1>4. g = Cluster.phase \/ MayAdvance(g)
  BY PhaseMayFollow
<1> HIDE DEF g
<1> QED BY <1>1, <1>2, <1>3, <1>4, LivesAlike, LivesAdvance

-----------------------------------------------------------------------------
(* The other ways in which the Cluster is rewritten.                       *)

LEMMA LivesNamed == ASSUME TypeInv, Passwords, Deployments, TypeInv', Passwords', Deployments',
                           Exists(Cluster), Cluster.phase \in {"New", "Error"},
                           UNCHANGED objects, Cluster'.backend = Cluster.backend,
                           Named', Stage' = Stage, Cluster'.phase = Cluster.phase
                    PROVE  Lives
<1>1. Stage # "gone" /\ rootPw' = rootPw /\ Access' = Access
  BY AccessSame DEF Stage, objects
<1>2. Root' \in IF Root = "nobody" THEN {"nobody"} ELSE Lifecycle!Kept
  <2>1. Root = "nobody" <=> rootPw[Cluster.backend] = NoPw
    BY KnownIsStored, RootCases
  <2>2. Root' = "nobody" <=> rootPw[Cluster.backend] = NoPw
    BY <1>1, KnownWillBeStored, RootCasesAfter
  <2> QED BY <2>1, <2>2, RootCasesAfter DEF Lifecycle!Kept
<1>3. Lifecycle!NameRootSecret
  BY <1>1, <1>2 DEF Named, Lifecycle!NameRootSecret
<1> QED BY <1>3 DEF Lives, Lifecycle!Next

LEMMA PersistRefLives == ASSUME NEW p, Base(p), Passwords, Deployments, TypeInv', Passwords', Deployments',
                                UNCHANGED objects, PersistRef(p), Exists(Cluster),
                                Cluster' = [Cluster EXCEPT !.rootRef = "auto"]
                         PROVE  Lives
<1>1. /\ Cluster'.phase = Cluster.phase /\ Cluster'.uid = Cluster.uid
      /\ Cluster'.deleting = Cluster.deleting
      /\ Cluster'.backend = Cluster.backend /\ Cluster'.rootRef = "auto"
  <2>1. Cluster \in Version
    BY FeedType DEF Base
  <2>2. ASSUME NEW v, v = [Cluster EXCEPT !.rootRef = "auto"]
        PROVE  /\ v.phase = Cluster.phase /\ v.uid = Cluster.uid /\ v.deleting = Cluster.deleting
               /\ v.backend = Cluster.backend /\ v.rootRef = "auto"
    BY <2>1, <2>2 DEF Version
  <2> QED BY <2>2
<1>2. Stage' = Stage
  BY <1>1 DEF Stage, Exists
<1>3. CASE Cluster.rootRef = "auto"
  BY <1>1, <1>2, <1>3, LivesIn, LivesAlike
<1>4. CASE Cluster.rootRef # "auto"
  <2>1. PICK r : r = ctl[p] /\ r.pc = "persistRef" /\ r.pc \in ApplySteps
    BY DEF PersistRef, ApplySteps, CleanupSteps, Steps
  <2>2. r.snap.phase = "New" /\ r.snap.rootRef = "none"
    BY <2>1 DEF Base, Order, OrderOf, StepOrder
  <2>3. Cluster.phase \notin Started
    BY <1>4, <2>1, <2>2, SnapshotInOrder DEF Follows, Snap
  <2>4. Cluster.phase \in {"New", "Error"}
    BY <2>3, FeedType DEF Base, Version, Phases, Started, Serving
  <2>5. Named'
    BY <1>1 DEF Named
  <2> QED BY <1>1, <1>2, <2>4, <2>5, LivesNamed DEF Base
<1> QED BY <1>3, <1>4

\* The Cluster goes when nothing serves any more, or was never worked on.
LEMMA GoneLives == ASSUME NEW p, Base(p), Trusted(p), Passwords, Deployments, UNCHANGED objects, Cluster' = Absent,
                          \/ RemoveFinalizer(p) /\ Cluster.fin /\ Cluster.deleting
                          \/ UserDelete /\ ~Cluster.fin
                   PROVE  Lives
<1>1. Exists(Cluster)
  BY StoredOK DEF Base, UserDelete
<1>2. /\ Stage' = "gone" /\ Cluster'.phase = "New" /\ ~Named' /\ ~RootKnown'
      /\ Cluster'.backend = "none"
  BY DEF Absent, Exists, Stage, Named, RootKnown, SecretReadable
<1>3. Access' = Access /\ Root' = "nobody"
  BY <1>2, AccessSame, RootCasesAfter DEF objects, Passwords
<1>4. CASE RemoveFinalizer(p) /\ Cluster.deleting
  <2>1. child["deployment"] <= 0
    BY <1>4, AllSwept DEF Base, Kinds
  <2>2. Access = "none"
    BY <2>1, ObjectTypes DEF Base, Deployments, Kinds, NoObject, Nobody, Access
  <2>3. Stage = "deleting"
    BY <1>1, <1>4 DEF Stage
  <2>4. Lifecycle!Release
    BY <1>2, <1>3, <2>2, <2>3 DEF Lifecycle!Release, Named
  <2> QED BY <2>4 DEF Lives, Lifecycle!Next
<1>5. CASE UserDelete /\ ~Cluster.fin
  <2>1. Stage = "live" /\ Cluster.phase = "New"
    BY <1>1, <1>5 DEF Stage, UserDelete, Trusted, Sound, Fresh
  <2>2. Lifecycle!Release
    BY <1>2, <1>3, <2>1 DEF Lifecycle!Release, Named
  <2> QED BY <2>2 DEF Lives, Lifecycle!Next
<1> QED BY <1>4, <1>5

LEMMA CreatedLives == ASSUME NEW b, NEW r, Vacant, UNCHANGED objects, UserCreate(b, r), lastUid \in Nat,
                             Cluster' = [Absent EXCEPT !.uid = lastUid + 1, !.backend = b, !.rootRef = r]
                      PROVE  Lives
<1>1. ~Exists(Cluster) /\ Stage = "gone"
  BY DEF UserCreate, Stage
<1>2. Cluster'.uid = lastUid + 1 /\ Cluster'.phase = "New" /\ ~Cluster'.deleting
  BY DEF Absent
<1>3. Stage' = "live"
  BY <1>2 DEF Stage, Exists
<1>4. Named' \in BOOLEAN /\ Root' \in {"nobody", "ours", "another"} /\ (Root' = "ours" => Named')
  BY RootCasesAfter DEF Named, RootKnown, SecretReadable
<1>5. Access' = Access
  BY AccessSame DEF objects
<1>6. Lifecycle!Create
  BY <1>1, <1>2, <1>3, <1>4, <1>5 DEF Lifecycle!Create, Lifecycle!Kept, Named
<1> QED BY <1>6 DEF Lives, Lifecycle!Next

\* What users still may write into the spec they write before it is worked on.
LEMMA EditedLives == ASSUME NEW p, Base(p), Passwords, Deployments, TypeInv', Passwords', Deployments',
                            UNCHANGED objects, NEW b, NEW r, UserEdit(b, r),
                            \/ Cluster.backend = "none" /\ Cluster' = [Cluster EXCEPT !.backend = b]
                            \/ Cluster.rootRef = "none" /\ Cluster' = [Cluster EXCEPT !.rootRef = r]
                     PROVE  Lives
<1>1. Cluster \in Version /\ Exists(Cluster)
  BY FeedType DEF Base, UserEdit
<1>2. PICK v : v = Cluster'
  OBVIOUS
<1>3. Cluster.phase \in {"New", "Error"}
  <2>1. Backed(Cluster) /\ RefOK(Cluster)
    BY StoredInOrder, StoredOK DEF Base
  <2>2. Cluster.phase \notin Started
    BY <2>1, <1>2 DEF Backed, RefOK
  <2> QED BY <1>1, <2>2 DEF Version, Phases, Started, Serving
<1>4. CASE Cluster.backend = "none" /\ v = [Cluster EXCEPT !.backend = b]
  <2>1. /\ v.phase = Cluster.phase /\ v.uid = Cluster.uid /\ v.deleting = Cluster.deleting
        /\ v.rootRef = Cluster.rootRef
    BY <1>1, <1>4 DEF Version
  <2>2. Stage' = Stage /\ Stage # "gone" /\ Named' = Named /\ Access' = Access
    BY <1>1, <1>2, <2>1, AccessSame DEF Stage, Exists, Named, objects
  <2>3. Root = "nobody"
    BY <1>4, KnownIsStored, RootCases DEF Base, HasStorage, Passwords
  <2>4. CASE Root' # "nobody"
    <3>1. RootKnown' => Named'
      BY KnownWillBeStored DEF SecretReadable, Named
    <3>2. Root' \in Lifecycle!Kept /\ (Root' = "ours" => Named)
      BY <2>2, <2>4, <3>1, RootCasesAfter DEF Lifecycle!Kept
    <3>3. Lifecycle!ChooseStorage
      BY <1>2, <1>3, <2>1, <2>2, <2>3, <3>2 DEF Lifecycle!ChooseStorage, Named
    <3> QED BY <3>3 DEF Lives, Lifecycle!Next
  <2>5. CASE Root' = "nobody"
    BY <1>2, <2>1, <2>2, <2>3, <2>5, LivesAlike
  <2> QED BY <2>4, <2>5
<1>5. CASE Cluster.rootRef = "none" /\ v = [Cluster EXCEPT !.rootRef = r]
  <2>1. /\ v.phase = Cluster.phase /\ v.uid = Cluster.uid /\ v.deleting = Cluster.deleting
        /\ v.rootRef = r /\ v.backend = Cluster.backend
    BY <1>1, <1>5 DEF Version
  <2>2. Stage' = Stage
    BY <1>2, <2>1 DEF Stage, Exists
  <2>3. CASE r = "none"
    BY <1>2, <1>5, <2>1, <2>2, <2>3, LivesIn, LivesAlike
  <2>4. CASE r # "none"
    <3>1. Named'
      BY <1>2, <1>5, <2>1, <2>4 DEF Named
    <3> QED BY <1>1, <1>2, <1>3, <2>1, <2>2, <3>1, LivesNamed DEF Base
  <2> QED BY <2>3, <2>4
<1> QED BY <1>2, <1>4, <1>5

LEMMA ReleasedDeleted == ASSUME NEW p, Base(p), RemoveFinalizer(p), Cluster.fin, Cluster' = Absent
                         PROVE  Cluster.deleting
<1>1. Cluster \in Version /\ Exists(Cluster)
  BY FeedType, StoredOK DEF Base
<1>2. Cluster' = Cluster \/ Cluster' = IF Cluster.deleting THEN Absent ELSE [Cluster EXCEPT !.fin = FALSE]
  BY Stored DEF RemoveFinalizer, Write, Base, object, Cluster
<1>3. [Cluster EXCEPT !.fin = FALSE].uid # 0
  BY <1>1 DEF Version, Exists
<1> QED BY <1>1, <1>2, <1>3 DEF Absent, Exists

LEMMA RewrittenLives == ASSUME NEW p, Base(p), Trusted(p), Passwords, Deployments, Vacant,
                               Rooted, RootsInTime(ctl[p]),
                               TypeInv', Passwords', Deployments', UNCHANGED objects, Rewritten(p)
                        PROVE  Lives
<1>1. Cluster \in Version /\ (Cluster.fin => Exists(Cluster)) /\ lastUid \in Nat
  BY FeedType, StoredOK DEF Base, TypeInv, ObjectOK
<1>2. PICK v : v = Cluster'
  OBVIOUS
<1>4. ASSUME v = [Cluster EXCEPT !.fin = TRUE] \/ v = [Cluster EXCEPT !.fin = FALSE] \/ v = Cluster
      PROVE  Lives
  <2>1. /\ v.phase = Cluster.phase /\ v.uid = Cluster.uid /\ v.deleting = Cluster.deleting
        /\ v.rootRef = Cluster.rootRef /\ v.backend = Cluster.backend
    BY <1>1, <1>4 DEF Version
  <2>2. Stage' = Stage
    BY <1>2, <2>1 DEF Stage, Exists
  <2> QED BY <1>2, <2>1, <2>2, LivesIn, LivesAlike
<1>5. ASSUME UserDelete, v = [Cluster EXCEPT !.deleting = TRUE] PROVE Lives
  <2>1. /\ v.phase = Cluster.phase /\ v.uid = Cluster.uid /\ v.deleting
        /\ v.rootRef = Cluster.rootRef /\ v.backend = Cluster.backend
    BY <1>1, <1>5 DEF Version
  <2>2. Stage = "live" /\ Stage' = "deleting"
    BY <1>2, <1>5, <2>1 DEF Stage, Exists, UserDelete
  <2>3. Named' = Named /\ Root' = Root /\ Access' = Access
    BY <1>2, <2>1, LivesIn
  <2>4. Lifecycle!Delete
    BY <1>2, <2>1, <2>2, <2>3 DEF Lifecycle!Delete, Named
  <2> QED BY <2>4 DEF Lives, Lifecycle!Next
<1>6. CASE RemoveFinalizer(p) /\ Cluster.fin /\ (Cluster' = Absent \/ Cluster' = [Cluster EXCEPT !.fin = FALSE])
  BY <1>2, <1>4, <1>6, GoneLives, ReleasedDeleted
<1>7. CASE SetPhase(p) /\ Exists(Cluster) /\ Cluster' = [Cluster EXCEPT !.phase = ctl[p].goal]
  BY <1>7, SetPhaseLives
<1>8. CASE PersistRef(p) /\ Exists(Cluster) /\ Cluster' = [Cluster EXCEPT !.rootRef = "auto"]
  BY <1>8, PersistRefLives
<1>9. CASE UserDelete /\ ~Cluster.fin /\ Cluster' = Absent
  BY <1>9, GoneLives
<1>10. ASSUME NEW b \in Backends, NEW r \in RootRefs, UserCreate(b, r),
              Cluster' = [Absent EXCEPT !.uid = lastUid + 1, !.backend = b, !.rootRef = r]
       PROVE  Lives
  BY <1>1, <1>10, CreatedLives
<1>11. ASSUME NEW b \in Backends, NEW r \in RootRefs, UserEdit(b, r),
              \/ Cluster.backend = "none" /\ Cluster' = [Cluster EXCEPT !.backend = b]
              \/ Cluster.rootRef = "none" /\ Cluster' = [Cluster EXCEPT !.rootRef = r]
       PROVE  Lives
  BY <1>11, EditedLives
<1> QED BY <1>2, <1>4, <1>5, <1>6, <1>7, <1>8, <1>9, <1>10, <1>11 DEF Rewritten

-----------------------------------------------------------------------------
(* A Cluster that is worked on.                                            *)

\* Access opens in time, and closes behind a reconcile that is past New.
LEMMA AppliedLives == ASSUME NEW p, Base(p), Trusted(p), OpensInTime(ctl[p]), Cluster' = Cluster,
                             DeploymentApplied(p), Root' = Root
                      PROVE  Lives
<1>1. PICK r : r = ctl[p] /\ r.pc = "applyDeployment" /\ r.pc \in ApplySteps
  BY DEF DeploymentApplied, ApplyDeployment, ApplySteps, CleanupSteps, Steps
<1>2. Stage' = Stage /\ Cluster'.phase = Cluster.phase /\ Named' = Named
  BY DEF Stage, Named, Exists
<1>3. CASE Opens(r.snap)
  <2>1. Cluster.phase \in {"Preparing", "InCreation", "Error"} /\ Named
    BY <1>1, <1>3 DEF OpensInTime, Named
  <2>2. Access' = "creation"
    BY <1>1, <1>3 DEF DeploymentApplied, CreationMode, Opens, Snap, Access
  <2>3. CASE Access = "creation"
    BY <1>2, <2>2, <2>3, LivesAlike
  <2>4. CASE Access # "creation"
    <3>1. Lifecycle!Open
      BY <1>2, <2>1, <2>2, <2>4 DEF Lifecycle!Open, Named
    <3> QED BY <3>1 DEF Lives, Lifecycle!Next
  <2> QED BY <2>3, <2>4
<1>4. CASE ~Opens(r.snap)
  <2>1. Access' = "auth"
    BY <1>1, <1>4 DEF DeploymentApplied, CreationMode, Opens, Snap, Access
  <2>2. MayBecome(r.snap, Cluster.phase)
    BY <1>1, SnapshotInOrder DEF Follows, Snap
  <2>3. Cluster.phase # "New"
    BY <1>4, <2>2 DEF MayBecome, Opens, Serving
  <2>4. CASE Access = "auth"
    BY <1>2, <2>1, <2>4, LivesAlike
  <2>5. CASE Access # "auth"
    <3>1. Lifecycle!Close
      BY <1>2, <2>1, <2>3, <2>5 DEF Lifecycle!Close, Named
    <3> QED BY <3>1 DEF Lives, Lifecycle!Next
  <2> QED BY <2>4, <2>5
<1> QED BY <1>3, <1>4

\* The bootstrap comes before service, or replaces nobody else's root user.
LEMMA DefinedLives == ASSUME NEW p, Base(p), Trusted(p), Rooted, Cluster' = Cluster, RootDefined(p)
                      PROVE  Lives
<1>1. PICK r : r = ctl[p] /\ r.pc = "postSql" /\ r.pc \in ApplySteps
  BY DEF RootDefined, PostSql, ApplySteps, CleanupSteps, Steps
<1>2. Stage' = Stage /\ Cluster'.phase = Cluster.phase /\ Named' = Named /\ Access' = Access
  BY AccessSame DEF Stage, Named, Exists, RootDefined
<1>3. Named /\ Root' = "ours"
  BY RootMade, RootCasesAfter DEF SecretReadable, Named
<1>4. CASE Root = "ours"
  BY <1>2, <1>3, <1>4, LivesAlike
<1>5. CASE Root # "ours"
  <2>1. MayBecome(r.snap, Cluster.phase) /\ r.snap.phase = "InCreation"
    BY <1>1, SnapshotInOrder DEF Follows, Snap, Base, Order, OrderOf, StepOrder
  <2>2. Cluster.phase \notin Serving
    <3>1. Cluster.backend = Snap(p).backend
      BY <1>1, Committed
    <3>2. Cluster.phase \in Serving => Definable
      BY <3>1 DEF Rooted, RootDefined, Definable
    <3> QED BY <1>1, <1>5, <3>2, Applying, KnownInService, RootCases
  <2>3. Cluster.phase \in {"InCreation", "Error"}
    BY <2>1, <2>2 DEF MayBecome, Serving
  <2>4. Lifecycle!DefineRoot
    BY <1>2, <1>3, <1>5, <2>3 DEF Lifecycle!DefineRoot, Named
  <2> QED BY <2>4 DEF Lives, Lifecycle!Next
<1> QED BY <1>4, <1>5

\* Cleanup works on a Cluster that is deleted, and takes the Secret after the
\* Deployment.
LEMMA CleanupFacts == ASSUME NEW p, Base(p), Deployments, DeleteChild(p)
                      PROVE  /\ Exists(Cluster) /\ Cluster.deleting
                             /\ Child(p) = "secret" => Access = "none"
<1>1. PICK r : r = ctl[p] /\ r.pc = "deleteChild" /\ r \in Record
  BY FeedType DEF Base, DeleteChild
<1>2. Cluster.fin /\ Exists(Cluster)
  BY <1>1, StoredOK DEF Base, Sweep, SweepOf
<1>3. ~Live(Cluster)
  <2>1. Len(feed[p]) \in DOMAIN feed[p] /\ feed[p][Len(feed[p])] = Cluster
    BY FeedType, StoredOK DEF Base
  <2> QED BY <1>1, <2>1 DEF Base, View, StepInv, CleanupSteps
<1>4. CASE Child(p) = "secret"
  <2>1. r.kind \in 1..4 /\ CleanupOrder[r.kind] = "secret"
    BY <1>1, <1>4, CleanupOrderFacts DEF Child, Record
  <2>2. r.kind = 3 /\ CleanupOrder[1] = "deployment"
    BY <2>1 DEF CleanupOrder
  <2>3. child["deployment"] <= 0
    BY <1>1, <2>2, CleanupOrderFacts DEF Base, Sweep, SweepOf, Swept
  <2> QED BY <1>2, <1>3, <2>3, ObjectTypes DEF Live, Base, Deployments, Kinds, NoObject, Nobody, Access
<1> QED BY <1>2, <1>3, <1>4 DEF Live

LEMMA DeletedLives == ASSUME NEW p, Base(p), Passwords, Deployments, Cluster' = Cluster,
                             DeleteChild(p), RemoveChild(Child(p)),
                             ~SecretDeleted(p) => RootKnown' = RootKnown
                      PROVE  Lives
<1>1. /\ Stage' = Stage /\ Cluster'.phase = Cluster.phase /\ Named' = Named /\ Stage = "deleting"
      /\ rootPw' = rootPw
  BY CleanupFacts DEF Stage, Named, Exists, RemoveChild
<1>2. CASE SecretDeleted(p)
  <2>1. Access = "none" /\ Access' = Access
    BY <1>2, CleanupFacts, AccessSame DEF SecretDeleted, RemoveChild
  <2>2. CASE RootKnown' = RootKnown
    BY <1>1, <2>1, <2>2, RootSame, LivesAlike
  <2>3. CASE ~(RootKnown' = RootKnown)
    <3>1. RootKnown /\ ~RootKnown'
      BY <1>2, <2>3, RootForgotten DEF RootKnown
    <3>2. Root = "ours" /\ Root' = "another"
      BY <1>1, <3>1, KnownIsStored, RootCases, RootCasesAfter DEF Base
    <3>3. Lifecycle!ForgetRoot
      BY <1>1, <2>1, <3>2 DEF Lifecycle!ForgetRoot, Named
    <3> QED BY <3>3 DEF Lives, Lifecycle!Next
  <2> QED BY <2>2, <2>3
<1>3. CASE ~SecretDeleted(p)
  <2>1. Root' = Root
    BY <1>1, <1>3, RootSame
  <2>2. CASE Access' = Access
    BY <1>1, <2>1, <2>2, LivesAlike
  <2>3. CASE Access' # Access
    <3>1. Access' = "none" /\ Access # "none"
      BY <2>3, AccessSame DEF RemoveChild, Access
    <3>2. Lifecycle!TakeDown
      BY <1>1, <2>1, <3>1 DEF Lifecycle!TakeDown, Named
    <3> QED BY <3>2 DEF Lives, Lifecycle!Next
  <2> QED BY <2>2, <2>3
<1> QED BY <1>2, <1>3

\* The Secret of a Cluster that is being deleted, made by somebody else.
LEMMA FoundLives == ASSUME NEW p, Base(p), Trusted(p), Passwords, Deployments, Cluster' = Cluster, SecretFound,
                           TypeInv', Passwords', Deployments'
                    PROVE  Lives
<1>1. /\ Stage' = Stage /\ Cluster'.phase = Cluster.phase /\ Named' = Named /\ rootPw' = rootPw
      /\ ~RootKnown /\ Access' = Access
  BY SecretIsFound, AccessSame DEF Stage, Named, Exists, RootKnown, SecretFound, UserPrecreate
<1>2. Stage = "deleting"
  <2>1. child["secret"] = NoObject /\ Cluster.rootRef = "auto"
    BY DEF SecretFound, UserPrecreate
  <2>2. ~Pristine(p) /\ Cluster.fin
    BY <2>1 DEF Trusted, Sound, ObjectGranted, Pristine, Fresh
  <2> QED BY <2>2, LiveIsPristine, StoredOK DEF Live, Stage, Base
<1>3. CASE RootKnown'
  <2>1. Root = "another" /\ Root' = "ours"
    BY <1>1, <1>3, KnownWillBeStored, RootCases, RootCasesAfter
  <2>2. Lifecycle!FindRoot
    BY <1>1, <1>2, <2>1 DEF Lifecycle!FindRoot, Named
  <2> QED BY <2>2 DEF Lives, Lifecycle!Next
<1>4. CASE ~RootKnown'
  <2>1. RootKnown' = RootKnown
    BY <1>1, <1>4 DEF RootKnown
  <2> QED BY <1>1, <2>1, RootSame, LivesAlike
<1> QED BY <1>3, <1>4

\* Every request moves the process on.
LEMMA NotDeletedHere == ASSUME NEW p, Base(p), ctl' = ctl PROVE ~SecretDeleted(p)
<1> SUFFICES ASSUME SecretDeleted(p) PROVE FALSE
  OBVIOUS
<1>1. ctl[p].pc = "deleteChild"
  BY DEF SecretDeleted, DeleteChild
<1>2. ~Requeue(p)
  BY <1>1, RestingIdle DEF Base, Idle
<1>3. ~NextChild(p)
  BY <1>1, FeedType DEF NextChild, Base, TypeInv, ProcessOK, Record
<1> QED BY <1>2, <1>3 DEF SecretDeleted, DeleteChild, Write

LEMMA WorkedOnLives == ASSUME NEW p, Base(p), Trusted(p), Passwords, Deployments, Rooted,
                              OpensInTime(ctl[p]), Cluster' = Cluster, WorkedOn(p),
                              TypeInv', Passwords', Deployments'
                       PROVE  Lives
<1>1. ~RootDefined(p) /\ ~SecretDeleted(p) /\ ~SecretFound => RootKnown' = RootKnown /\ Root' = Root
  BY RootAlike, RootKept, RootSame
<1>2. CASE RootDefined(p)
  BY <1>2, DefinedLives
<1>3. CASE SecretFound
  BY <1>3, FoundLives
<1>4. ASSUME ~RootDefined(p), ~SecretDeleted(p), ~SecretFound, Access' = Access PROVE Lives
  <2>1. Stage' = Stage /\ Named' = Named
    BY DEF Stage, Exists, Named
  <2> QED BY <1>1, <1>4, <2>1, LivesAlike
<1>5. CASE DeleteChild(p) /\ RemoveChild(Child(p)) /\ ~SecretFound
  <2>1. ~RootDefined(p)
    BY <1>5 DEF RootDefined, DeleteChild, PostSql
  <2> QED BY <1>1, <1>5, <2>1, DeletedLives
<1>6. CASE DeploymentApplied(p) /\ ~SecretFound
  <2>1. ~RootDefined(p) /\ ~SecretDeleted(p)
    BY <1>6 DEF DeploymentApplied, ApplyDeployment, RootDefined, PostSql, SecretDeleted, DeleteChild
  <2> QED BY <1>1, <1>6, <2>1, AppliedLives
<1>7. ASSUME SecretMade(p) \/ DependantMade(p) PROVE Access' = Access /\ ~DeleteChild(p)
  BY <1>7, AccessSame DEF SecretMade, DependantMade, CreateSecret, CreateTidb, ApplyService, DeleteChild
<1>8. CASE SecretMade(p) \/ DependantMade(p)
  BY <1>2, <1>3, <1>4, <1>7, <1>8 DEF SecretDeleted
<1>9. ASSUME (\E k \in Foreign : UserPrecreate(k)) \/ PodsChange PROVE Access' = Access /\ ctl' = ctl
  <2>1. ASSUME NEW k \in Foreign, UserPrecreate(k) PROVE Access' = Access
    BY <2>1, AccessSame DEF UserPrecreate, Access, Deployments
  <2>2. PodsChange => Access' = Access
    BY AccessSame DEF PodsChange, PodUp, PodRetire, PodLost, TidbBecomesReady
  <2> QED BY <1>9, <2>1, <2>2 DEF UserPrecreate, PodsChange, PodUp, PodRetire, PodLost, TidbBecomesReady, Outside
<1>10. CASE (\E k \in Foreign : UserPrecreate(k)) \/ PodsChange
  <2>1. ~SecretDeleted(p)
    <3>1. ctl' = ctl
      BY <1>9, <1>10
    <3> QED BY <3>1, NotDeletedHere
  <2> QED BY <1>2, <1>3, <1>4, <1>9, <1>10, <2>1
<1> QED BY <1>2, <1>3, <1>5, <1>6, <1>8, <1>10 DEF WorkedOn

LEMMA NextLives == ASSUME NEW p, Alone(p), RInv(p), RInv(p)', [Next]_vars PROVE Lives
<1>1. /\ Base(p) /\ Trusted(p) /\ Passwords /\ Deployments /\ Vacant /\ Rooted
      /\ OpensInTime(ctl[p]) /\ RootsInTime(ctl[p])
  BY RInvBase
<1>2. TypeInv' /\ Passwords' /\ Deployments'
  BY DEF RInv, GInv, OInv, IInv
<1>3. CASE UNCHANGED vars
  <2>1. UNCHANGED objects /\ Cluster' = Cluster
    BY <1>3 DEF vars, objects, Cluster
  <2>2. Stage' = Stage
    BY <2>1 DEF Stage, Exists
  <2> QED BY <2>1, <2>2, LivesIn, LivesAlike
<1>4. CASE Next
  BY <1>1, <1>2, <1>4, OneOrTheOther, RewrittenLives, WorkedOnLives
<1> QED BY <1>3, <1>4

LEMMA InitLives == Init => Lifecycle!Init
<1> SUFFICES ASSUME Init PROVE Lifecycle!Init
  OBVIOUS
<1>1. Cluster = Absent
  BY DEF Init, Cluster
<1>2. Root = "nobody" /\ Access = "none"
  BY <1>1 DEF Init, Root, RootKnown, SecretReadable, Absent, Storage, Access
<1> QED BY <1>1, <1>2 DEF Lifecycle!Init, Absent, Stage, Exists

\* Through stale caches, lost answers and crashes the Cluster goes through its
\* phases as the lifecycle says: service is declared only behind a root user,
\* access opens and closes with the phases, and a deletion takes down what
\* serves before what logs in.
THEOREM LifecycleImplemented == ASSUME NEW CONSTANT p, Controllers = {p}, StaleList = FALSE
                                PROVE  Spec => ImplementsLifecycle
<1>1. Alone(p) /\ RInv(p) /\ RInv(p)' /\ [Next]_vars => [Lifecycle!Next]_(Lifecycle!lifecycle)
  BY NextLives DEF Lives
<1>2. Alone(p)
  BY DEF Alone
<1> QED BY <1>1, <1>2, InitLives, RefinementHolds, PTL DEF Spec, ImplementsLifecycle, Lifecycle!Spec
=============================================================================
