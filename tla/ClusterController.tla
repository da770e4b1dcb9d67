------------------------- MODULE ClusterController -------------------------
(***************************************************************************)
(* The Cluster controller of sdb-controller: one namespaced Cluster object *)
(* (and its later incarnations under the same name), the reconcilers that  *)
(* drive it through its phases, and the parts of Kubernetes and SurrealDB  *)
(* it relies on.                                                           *)
(*                                                                         *)
(* A reconcile is a sequence of awaited API requests.  Every request is an *)
(* action of its own, so the users, the watch, the pods, a crash and other *)
(* controller processes interleave between any two of them.                *)
(*                                                                         *)
(*   log       the versions of the Cluster object a list may answer with,  *)
(*             oldest first; the last one is what the API server stores,   *)
(*             Absent marks deletion                                       *)
(*   lastUid   the uid of the newest incarnation                           *)
(*   child     for each kind of dependent object the uid of its owner, or  *)
(*             NoObject, or Nobody for one that has no owner reference     *)
(*   mode      the environment in the Deployment's pod template, "foreign" *)
(*             in one that somebody else made                              *)
(*   pods      the environments of the pods that are available             *)
(*   secretPw  the password in the generated root Secret                   *)
(*   lastPw    the newest generated password                               *)
(*   rootPw    for each storage backend the root password SurrealDB keeps  *)
(*   tidbReady the Ready condition of the TidbCluster                      *)
(*   ctl       for each controller process where its reconcile stands      *)
(*   feed      the version in its watch cache, then the events to come     *)
(*   queued    whether it has a reconcile of the Cluster scheduled         *)
(*   faults    how many requests failed, processes crashed or pods died    *)
(*                                                                         *)
(* A definition that stands before one it resembles, and is used nowhere,  *)
(* is a plausible bug in it: replaced by that bug the definition breaks a  *)
(* property of the last section, which shows that the property can fail.   *)
(***************************************************************************)
EXTENDS Integers, Sequences

CONSTANTS
  Controllers,      \* controller processes (one, or two while a rollout overlaps)
  MaxUid,           \* bound: incarnations of the Cluster object
  MaxFaults,        \* bound: failed requests, crashes and lost pods together
  Backends,         \* the storage configurations users write
  RootRefs,         \* what users write into spec.rootSecret
  Foreign,          \* kinds of objects users may make themselves
  TidbVerbs,        \* what RBAC allows the controller on tidbclusters
  StaleList,        \* may a list with resourceVersion=0 answer with old data
  DefineOverwrites  \* does DEFINE USER replace an existing user

Phases == {"New", "Preparing", "InCreation", "NotReady", "InProgress", "Ready", "Error"}
Kinds == {"deployment", "service", "secret", "tidb"}
Storage == {"none", "tidb", "secret", "both"}   \* "both": tidbCluster and tikvSecretRef
Refs == {"none", "auto", "user", "nameless"}    \* "nameless": a rootSecret without a name
Verbs == {"get", "create", "delete"}

NoObject == 0
Nobody == -1
NoPw == -1     \* no password
UserPw == 0    \* the password users write into secrets of their own

ASSUME ControllerAssumption ==
  /\ Controllers # {}
  /\ MaxUid \in Nat \ {0}
  /\ MaxFaults \in Nat
  /\ Backends \subseteq Storage
  /\ RootRefs \subseteq {"none", "user", "nameless"}
  /\ Foreign \subseteq Kinds
  /\ TidbVerbs \subseteq Verbs
  /\ StaleList \in BOOLEAN
  /\ DefineOverwrites \in BOOLEAN

VARIABLES log, lastUid, child, mode, pods, secretPw, lastPw, rootPw, tidbReady,
          ctl, feed, queued, faults

object == <<log, feed>>
objects == <<child, mode, pods, secretPw, lastPw, rootPw, tidbReady>>
vars == <<log, lastUid, child, mode, pods, secretPw, lastPw, rootPw, tidbReady,
          ctl, feed, queued, faults>>

-----------------------------------------------------------------------------
(* The Cluster object.                                                     *)

Version == [uid : Nat, fin : BOOLEAN, deleting : BOOLEAN,
            backend : Storage, rootRef : Refs, phase : Phases]

Absent == [uid |-> 0, fin |-> FALSE, deleting |-> FALSE,
           backend |-> "none", rootRef |-> "none", phase |-> "New"]

Exists(v) == v.uid # 0

\* What the API server stores now.
Cluster == log[Len(log)]

\* A new version becomes an event for every watch; a write that changes
\* nothing makes no new version.  Old versions matter to stale lists only.
Store(v) ==
  IF v = Cluster THEN UNCHANGED object
  ELSE /\ log' = IF StaleList THEN Append(log, v) ELSE <<v>>
       /\ feed' = [c \in Controllers |-> Append(feed[c], v)]

Serving == {"InProgress", "Ready", "NotReady"}

-----------------------------------------------------------------------------
(* Controller-local state: the request a reconcile issues next, the        *)
(* version it works from, and what it carries from earlier replies.        *)

Steps == {"idle", "addFinalizer", "setPhase", "createSecret", "persistRef",
          "applyDeployment", "applyService", "createTidb", "getTidb",
          "checkReady", "getSecret", "postSql", "getChild", "deleteChild",
          "publish", "removeFinalizer"}

CleanupForgetsTidb == <<"deployment", "service", "secret">>

CleanupSecretFirst == <<"secret", "deployment", "service", "tidb">>

CleanupOrder == <<"deployment", "service", "secret", "tidb">>

Idle == [pc |-> "idle", snap |-> Absent, goal |-> "New", kind |-> 1, cred |-> NoPw]

\* The immutable Arc<Cluster> the reconcile of c was called with.
Snap(c) == ctl[c].snap

Goto(c, pc) == /\ ctl' = [ctl EXCEPT ![c].pc = pc]
               /\ UNCHANGED queued

GotoPhase(c, p) == /\ ctl' = [ctl EXCEPT ![c].pc = "setPhase", ![c].goal = p]
                   /\ UNCHANGED queued

\* Action::requeue, and error_policy after an Err: run again after a while.
Requeue(c) == /\ ctl' = [ctl EXCEPT ![c] = Idle]
              /\ queued' = [queued EXCEPT ![c] = TRUE]

\* Action::await_change: only a watch event runs it again.
AwaitChange(c) == /\ ctl' = [ctl EXCEPT ![c] = Idle]
                  /\ UNCHANGED queued

(* A request is answered, or it is lost on the way, or it takes effect and *)
(* its answer is lost: in both of the last cases the code sees an Err.     *)
Outcomes == {"answered", "lost", "unacknowledged"}

Charge(o) == IF o = "answered" THEN UNCHANGED faults
             ELSE /\ faults < MaxFaults
                  /\ faults' = faults + 1

\* A write the API server accepts when valid holds.
Write(valid, effect, noEffect, onOk, onErr) ==
  \E o \in Outcomes :
    /\ Charge(o)
    /\ IF valid /\ o # "lost" THEN effect ELSE noEffect
    /\ IF valid /\ o = "answered" THEN onOk ELSE onErr

\* A read, whose answer decides how the reconcile goes on.
Read(onAnswer, onErr) ==
  \E o \in {"answered", "lost"} :
    /\ Charge(o)
    /\ IF o = "answered" THEN onAnswer ELSE onErr
    /\ UNCHANGED lastUid /\ UNCHANGED object /\ UNCHANGED objects

-----------------------------------------------------------------------------
(* Start of a reconcile: the finalizer helper looks at the cached version  *)
(* and calls apply or cleanup; apply dispatches on status.phase.           *)

Scheduled(c) == ctl[c].pc = "idle" /\ queued[c]

Cached(c) == Head(feed[c])

Begin(c, pc, goal) ==
  /\ Scheduled(c)
  /\ ctl' = [ctl EXCEPT ![c] = [Idle EXCEPT !.pc = pc, !.snap = Cached(c), !.goal = goal]]
  /\ queued' = [queued EXCEPT ![c] = FALSE]
  /\ UNCHANGED <<lastUid, faults>> /\ UNCHANGED object /\ UNCHANGED objects

\* The runner skips an object its cache no longer holds.
ReconcileGone(c) == /\ ~Exists(Cached(c))
                    /\ Scheduled(c)
                    /\ queued' = [queued EXCEPT ![c] = FALSE]
                    /\ UNCHANGED <<lastUid, ctl, faults>>
                    /\ UNCHANGED object /\ UNCHANGED objects

ReconcileUnfinalized(c) == /\ Exists(Cached(c)) /\ ~Cached(c).fin
                           /\ Begin(c, "addFinalizer", "New")

ReconcileDeletedOrLive(c) == Cached(c).fin /\ Begin(c, "getChild", "New")

ReconcileDeleted(c) == /\ Cached(c).fin /\ Cached(c).deleting
                       /\ Begin(c, "getChild", "New")

Live(v) == v.fin /\ ~v.deleting

UsesTidb(v) == v.backend \in {"tidb", "both"}

AfterNew(v) == IF UsesTidb(v) THEN "Preparing" ELSE "InCreation"

ReconcileNew(c) ==
  LET v == Cached(c) IN
  /\ Live(v) /\ v.phase = "New"
  /\ \/ v.backend = "none" /\ Begin(c, "setPhase", "Error")
     \/ v.backend # "none" /\ v.rootRef = "none" /\ Begin(c, "createSecret", "New")
     \/ v.backend # "none" /\ v.rootRef # "none" /\ Begin(c, "setPhase", AfterNew(v))

ReconcilePreparing(c) ==
  /\ Live(Cached(c)) /\ Cached(c).phase = "Preparing"
  /\ \/ UsesTidb(Cached(c)) /\ Begin(c, "createTidb", "New")
     \/ ~UsesTidb(Cached(c)) /\ Begin(c, "getTidb", "New")

ReconcileInCreation(c) == /\ Live(Cached(c)) /\ Cached(c).phase = "InCreation"
                          /\ Begin(c, "checkReady", "New")

ReconcileServingUnapplied(c) == /\ Live(Cached(c)) /\ Cached(c).phase \in Serving
                                /\ Begin(c, "checkReady", "New")

ReconcileServing(c) == /\ Live(Cached(c)) /\ Cached(c).phase \in Serving
                       /\ Begin(c, "applyDeployment", "New")

ReconcileError(c) == /\ Live(Cached(c)) /\ Cached(c).phase = "Error"
                     /\ Begin(c, "applyDeployment", "New")

Start(c) == \/ ReconcileGone(c) \/ ReconcileUnfinalized(c) \/ ReconcileDeleted(c)
            \/ ReconcileNew(c) \/ ReconcilePreparing(c) \/ ReconcileInCreation(c)
            \/ ReconcileServing(c) \/ ReconcileError(c)

-----------------------------------------------------------------------------
(* The requests of apply.                                                  *)

\* The JSON patch tests that there are no finalizers yet, then adds ours.
AddFinalizer(c) ==
  /\ ctl[c].pc = "addFinalizer"
  /\ Write(Exists(Cluster) /\ ~Cluster.fin,
           Store([Cluster EXCEPT !.fin = TRUE]), UNCHANGED object,
           AwaitChange(c), Requeue(c))
  /\ UNCHANGED lastUid /\ UNCHANGED objects

\* Which set_phase calls are followed by `?'; the others by `.ok()'.
Propagates(c) == /\ Snap(c).phase = "New"
                 /\ ctl[c].goal = "InCreation" \/ Snap(c).backend = "none"

AfterPhase(c) == IF ctl[c].goal \in {"InCreation", "InProgress"}
                 THEN Goto(c, "applyDeployment") ELSE Requeue(c)

\* The merge patch names the object only: it carries no uid, no version.
SetPhase(c) ==
  /\ ctl[c].pc = "setPhase"
  /\ Write(Exists(Cluster),
           Store([Cluster EXCEPT !.phase = ctl[c].goal]), UNCHANGED object,
           AfterPhase(c), IF Propagates(c) THEN Requeue(c) ELSE AfterPhase(c))
  /\ UNCHANGED lastUid /\ UNCHANGED objects

\* 409 AlreadyExists counts as success, whoever owns the Secret.
CreateSecret(c) ==
  /\ ctl[c].pc = "createSecret"
  /\ Write(TRUE,
           IF child["secret"] # NoObject THEN UNCHANGED <<child, secretPw, lastPw>>
           ELSE /\ child' = [child EXCEPT !["secret"] = Snap(c).uid]
                /\ secretPw' = lastPw + 1
                /\ lastPw' = lastPw + 1,
           UNCHANGED <<child, secretPw, lastPw>>,
           Goto(c, "persistRef"), GotoPhase(c, "Error"))
  /\ UNCHANGED <<log, lastUid, feed, mode, pods, rootPw, tidbReady>>

PersistRefErrorIgnored(c) ==
  /\ ctl[c].pc = "persistRef"
  /\ Write(Exists(Cluster),
           Store([Cluster EXCEPT !.rootRef = "auto"]), UNCHANGED object,
           GotoPhase(c, AfterNew(Snap(c))), GotoPhase(c, AfterNew(Snap(c))))
  /\ UNCHANGED lastUid /\ UNCHANGED objects

\* A JSON patch of the object as it is now, decided by the snapshot.
PersistRef(c) ==
  /\ ctl[c].pc = "persistRef"
  /\ Write(Exists(Cluster),
           Store([Cluster EXCEPT !.rootRef = "auto"]), UNCHANGED object,
           GotoPhase(c, AfterNew(Snap(c))), GotoPhase(c, "Error"))
  /\ UNCHANGED lastUid /\ UNCHANGED objects

CreateTidb(c) ==
  /\ ctl[c].pc = "createTidb"
  /\ Write("create" \in TidbVerbs,
           child' = IF child["tidb"] # NoObject THEN child
                    ELSE [child EXCEPT !["tidb"] = Snap(c).uid],
           UNCHANGED child,
           Goto(c, "getTidb"), Requeue(c))
  /\ UNCHANGED <<log, lastUid, feed, mode, pods, secretPw, lastPw, rootPw, tidbReady>>

GetTidbAwaitsChange(c) ==
  /\ ctl[c].pc = "getTidb"
  /\ Read(IF "get" \in TidbVerbs /\ child["tidb"] # NoObject /\ tidbReady
          THEN GotoPhase(c, "InCreation") ELSE AwaitChange(c),
          Requeue(c))

GetTidb(c) ==
  /\ ctl[c].pc = "getTidb"
  /\ Read(IF "get" \in TidbVerbs /\ child["tidb"] # NoObject /\ tidbReady
          THEN GotoPhase(c, "InCreation") ELSE Requeue(c),
          Requeue(c))

CreationModeWhenNotReady(c) == Snap(c).phase \notin {"InCreation", "InProgress", "Ready", "Error"}

\* creation_mode: only the reconciles of New and Preparing pass true.
CreationMode(c) == Snap(c).phase \in {"New", "Preparing"}

ApplyDeploymentUnowned(c) ==
  /\ ctl[c].pc = "applyDeployment"
  /\ Write(TRUE,
           /\ child' = [child EXCEPT !["deployment"] = Nobody]
           /\ mode' = IF CreationMode(c) THEN "creation" ELSE "auth",
           UNCHANGED <<child, mode>>,
           Goto(c, "applyService"), Requeue(c))
  /\ UNCHANGED <<log, lastUid, feed, pods, secretPw, lastPw, rootPw, tidbReady>>

\* Forced server-side apply: creates the Deployment, or takes over one that
\* somebody else made, whose pods then roll over to ours.  Refused when the path
\* of the storage has both a value and a source.
ApplyDeployment(c) ==
  /\ ctl[c].pc = "applyDeployment"
  /\ Write(Snap(c).backend # "both",
           /\ child' = [child EXCEPT !["deployment"] = Snap(c).uid]
           /\ mode' = IF CreationMode(c) THEN "creation" ELSE "auth",
           UNCHANGED <<child, mode>>,
           Goto(c, "applyService"), Requeue(c))
  /\ UNCHANGED <<log, lastUid, feed, pods, secretPw, lastPw, rootPw, tidbReady>>

AfterApplyForgetsNotReady(c) == IF Snap(c).phase \in {"InProgress", "Ready"}
                                THEN Goto(c, "checkReady") ELSE Requeue(c)

AfterApply(c) == IF Snap(c).phase \in Serving THEN Goto(c, "checkReady") ELSE Requeue(c)

ApplyService(c) ==
  /\ ctl[c].pc = "applyService"
  /\ Write(TRUE,
           child' = [child EXCEPT !["service"] = Snap(c).uid], UNCHANGED child,
           AfterApply(c), Requeue(c))
  /\ UNCHANGED <<log, lastUid, feed, mode, pods, secretPw, lastPw, rootPw, tidbReady>>

\* status.availableReplicas counts the pods of every template revision.
Available == child["deployment"] # NoObject /\ pods # {}

WhenReadySkipsBootstrap(c) ==
  CASE Snap(c).phase = "InCreation" -> GotoPhase(c, "InProgress")
    [] Snap(c).phase \in {"InProgress", "NotReady"} -> GotoPhase(c, "Ready")
    [] OTHER -> Requeue(c)

WhenReady(c) ==
  CASE Snap(c).phase = "InCreation" -> Goto(c, "getSecret")
    [] Snap(c).phase \in {"InProgress", "NotReady"} -> GotoPhase(c, "Ready")
    [] OTHER -> Requeue(c)

WhenNotReadyStartsOver(c) == IF Snap(c).phase \in Serving
                             THEN GotoPhase(c, "Preparing") ELSE Requeue(c)

WhenNotReady(c) == IF Snap(c).phase \in {"InProgress", "Ready"}
                   THEN GotoPhase(c, "NotReady") ELSE Requeue(c)

CheckReady(c) ==
  /\ ctl[c].pc = "checkReady"
  /\ Read(IF Available THEN WhenReady(c) ELSE WhenNotReady(c), WhenNotReady(c))

-----------------------------------------------------------------------------
(* bootstrap_root_user.                                                    *)

RefPw(ref) == IF ref = "user" THEN UserPw ELSE secretPw

HasCredentials(c) == \/ Snap(c).rootRef = "user"
                     \/ Snap(c).rootRef = "auto" /\ child["secret"] # NoObject

GetSecret(c) ==
  /\ ctl[c].pc = "getSecret"
  /\ Read(IF HasCredentials(c)
          THEN /\ ctl' = [ctl EXCEPT ![c].pc = "postSql",
                                     ![c].cred = RefPw(Snap(c).rootRef)]
               /\ UNCHANGED queued
          ELSE Requeue(c),
          Requeue(c))

\* DEFINE USER, run by an unauthenticated pod on its storage backend.
DefineRoot(c) ==
  rootPw' = IF rootPw[Snap(c).backend] = NoPw \/ DefineOverwrites
            THEN [rootPw EXCEPT ![Snap(c).backend] = ctl[c].cred] ELSE rootPw

PostSqlWithoutService(c) ==
  /\ ctl[c].pc = "postSql"
  /\ \/ /\ "creation" \in pods
        /\ Write(TRUE, DefineRoot(c), UNCHANGED rootPw,
                 GotoPhase(c, "InProgress"), Requeue(c))
     \/ /\ pods # {"creation"}
        /\ Requeue(c)
        /\ UNCHANGED <<rootPw, faults>>
  /\ UNCHANGED <<log, lastUid, feed, child, mode, pods, secretPw, lastPw, tidbReady>>

\* The service proxy reaches one available pod.  DEFINE USER over an existing
\* user may fail inside the body of a 200, which the code does not read; a pod
\* that demands authentication, or is none of ours, refuses the request.
PostSql(c) ==
  /\ ctl[c].pc = "postSql"
  /\ \/ /\ "creation" \in pods
        /\ Write(child["service"] > 0, DefineRoot(c), UNCHANGED rootPw,
                 GotoPhase(c, "InProgress"), Requeue(c))
     \/ /\ pods # {"creation"}
        /\ Requeue(c)
        /\ UNCHANGED <<rootPw, faults>>
  /\ UNCHANGED <<log, lastUid, feed, child, mode, pods, secretPw, lastPw, tidbReady>>

-----------------------------------------------------------------------------
(* The requests of cleanup, and the removal of the finalizer after it.     *)

Child(c) == CleanupOrder[ctl[c].kind]

NextChildOverruns(c) ==
  /\ IF ctl[c].kind <= Len(CleanupOrder)
     THEN ctl' = [ctl EXCEPT ![c].kind = @ + 1, ![c].pc = "getChild"]
     ELSE ctl' = [ctl EXCEPT ![c].pc = "publish"]
  /\ UNCHANGED queued

NextChild(c) ==
  /\ IF ctl[c].kind < Len(CleanupOrder)
     THEN ctl' = [ctl EXCEPT ![c].kind = @ + 1, ![c].pc = "getChild"]
     ELSE ctl' = [ctl EXCEPT ![c].pc = "publish"]
  /\ UNCHANGED queued

Allowed(verb, k) == k = "tidb" => verb \in TidbVerbs

OwnedByAnyone(c, k) == child[k] # NoObject

\* The owner reference has our uid, or our kind and name: those match for
\* every incarnation of the Cluster.
Owned(c, k) == child[k] = Snap(c).uid \/ child[k] > 0

GetChild(c) ==
  /\ ctl[c].pc = "getChild"
  /\ Read(IF ~Allowed("get", Child(c)) THEN Requeue(c)
          ELSE IF child[Child(c)] # NoObject /\ Owned(c, Child(c))
               THEN Goto(c, "deleteChild") ELSE NextChild(c),
          Requeue(c))

\* An object disappears together with what exists only through it.
RemoveChild(k) ==
  /\ child' = [child EXCEPT ![k] = NoObject]
  /\ IF k = "deployment" THEN mode' = "none" /\ pods' = {} ELSE UNCHANGED <<mode, pods>>
  /\ secretPw' = IF k = "secret" THEN NoPw ELSE secretPw
  /\ tidbReady' = IF k = "tidb" THEN FALSE ELSE tidbReady
  /\ UNCHANGED <<lastPw, rootPw>>

\* The delete names the object only; 404 counts as success.
DeleteChild(c) ==
  /\ ctl[c].pc = "deleteChild"
  /\ Write(Allowed("delete", Child(c)),
           RemoveChild(Child(c)), UNCHANGED objects,
           NextChild(c), Requeue(c))
  /\ UNCHANGED <<log, lastUid, feed>>

PublishGivesUp(c) ==
  /\ ctl[c].pc = "publish"
  /\ Read(Goto(c, "removeFinalizer"), AwaitChange(c))

\* The event DeleteRequested.
Publish(c) ==
  /\ ctl[c].pc = "publish"
  /\ Read(Goto(c, "removeFinalizer"), Requeue(c))

\* The JSON patch tests that our finalizer is there, then removes it.  It
\* carries no uid, so it works on any incarnation of that name.
RemoveFinalizer(c) ==
  /\ ctl[c].pc = "removeFinalizer"
  /\ Write(Exists(Cluster) /\ Cluster.fin,
           Store(IF Cluster.deleting THEN Absent ELSE [Cluster EXCEPT !.fin = FALSE]),
           UNCHANGED object,
           AwaitChange(c), Requeue(c))
  /\ UNCHANGED lastUid /\ UNCHANGED objects

Step(c) == \/ Start(c)
           \/ AddFinalizer(c) \/ SetPhase(c) \/ CreateSecret(c) \/ PersistRef(c)
           \/ ApplyDeployment(c) \/ ApplyService(c) \/ CreateTidb(c) \/ GetTidb(c)
           \/ CheckReady(c) \/ GetSecret(c) \/ PostSql(c)
           \/ GetChild(c) \/ DeleteChild(c) \/ Publish(c) \/ RemoveFinalizer(c)

-----------------------------------------------------------------------------
(* The runtime of a controller process.                                    *)

\* Watch events come in order; each one schedules the object.
Watch(c) == /\ Len(feed[c]) > 1
            /\ feed' = [feed EXCEPT ![c] = Tail(@)]
            /\ queued' = [queued EXCEPT ![c] = TRUE]
            /\ UNCHANGED <<log, lastUid, ctl, faults>> /\ UNCHANGED objects

\* The process dies at any point; a new one lists the objects and reconciles
\* all it finds.  any_semantic asks for resourceVersion=0, which an API
\* server may answer from a cache of its own that lags behind.
Restart(c) ==
  /\ ctl' = [ctl EXCEPT ![c] = Idle]
  /\ \E i \in 1..Len(log) : feed' = [feed EXCEPT ![c] = SubSeq(log, i, Len(log))]
  /\ queued' = [queued EXCEPT ![c] = TRUE]
  /\ UNCHANGED <<log, lastUid>> /\ UNCHANGED objects

Crash(c) == /\ faults < MaxFaults /\ faults' = faults + 1
            /\ Restart(c)

-----------------------------------------------------------------------------
(* The users, Kubernetes and the TiDB operator.                            *)

Outside == UNCHANGED <<ctl, queued>>

UserCreate(b, r) ==
  /\ ~Exists(Cluster) /\ lastUid < MaxUid
  /\ lastUid' = lastUid + 1
  /\ Store([Absent EXCEPT !.uid = lastUid + 1, !.backend = b, !.rootRef = r])
  /\ UNCHANGED faults /\ Outside /\ UNCHANGED objects

UserDelete ==
  /\ Exists(Cluster) /\ ~Cluster.deleting
  /\ Store(IF Cluster.fin THEN [Cluster EXCEPT !.deleting = TRUE] ELSE Absent)
  /\ UNCHANGED <<lastUid, faults>> /\ Outside /\ UNCHANGED objects

\* A user corrects a Cluster written without storage, or names a root Secret.
UserEdit(b, r) ==
  /\ Exists(Cluster)
  /\ \/ Cluster.backend = "none" /\ Store([Cluster EXCEPT !.backend = b])
     \/ Cluster.rootRef = "none" /\ Store([Cluster EXCEPT !.rootRef = r])
  /\ UNCHANGED <<lastUid, faults>> /\ Outside /\ UNCHANGED objects

\* Somebody else makes an object with the name ours would have.
UserPrecreate(k) ==
  /\ child[k] = NoObject
  /\ child' = [child EXCEPT ![k] = Nobody]
  /\ mode' = IF k = "deployment" THEN "foreign" ELSE mode
  /\ secretPw' = IF k = "secret" THEN UserPw ELSE secretPw
  /\ UNCHANGED <<log, feed, lastUid, pods, lastPw, rootPw, tidbReady, faults>>
  /\ Outside

PodUp ==
  /\ child["deployment"] # NoObject /\ mode \notin pods
  /\ pods' = pods \union {mode}
  /\ UNCHANGED <<log, feed, lastUid, child, mode, secretPw, lastPw, rootPw, tidbReady, faults>>
  /\ Outside

\* A rolling update removes the old pods once a new one is available.
PodRetire ==
  /\ mode \in pods /\ pods # {mode}
  /\ pods' = {mode}
  /\ UNCHANGED <<log, feed, lastUid, child, mode, secretPw, lastPw, rootPw, tidbReady, faults>>
  /\ Outside

PodLost ==
  /\ faults < MaxFaults /\ faults' = faults + 1
  /\ \E p \in pods : pods' = pods \ {p}
  /\ UNCHANGED <<log, feed, lastUid, child, mode, secretPw, lastPw, rootPw, tidbReady>>
  /\ Outside

TidbBecomesReady ==
  /\ child["tidb"] # NoObject /\ ~tidbReady
  /\ tidbReady' = TRUE
  /\ UNCHANGED <<log, feed, lastUid, child, mode, pods, secretPw, lastPw, rootPw, faults>>
  /\ Outside

\* Kubernetes removes what is owned by an object that is gone.
GarbageCollect(k) ==
  /\ child[k] > 0 /\ child[k] # Cluster.uid
  /\ RemoveChild(k)
  /\ UNCHANGED <<log, feed, lastUid, faults>> /\ Outside

Users == \/ \E b \in Backends, r \in RootRefs : UserCreate(b, r) \/ UserEdit(b, r)
         \/ UserDelete
         \/ \E k \in Foreign : UserPrecreate(k)

Platform == \/ PodUp \/ PodRetire \/ TidbBecomesReady
            \/ \E k \in Kinds : GarbageCollect(k)

-----------------------------------------------------------------------------
Init == /\ log = <<Absent>>
        /\ lastUid = 0
        /\ child = [k \in Kinds |-> NoObject]
        /\ mode = "none"
        /\ pods = {}
        /\ secretPw = NoPw
        /\ lastPw = UserPw
        /\ rootPw = [s \in Storage |-> NoPw]
        /\ tidbReady = FALSE
        /\ ctl = [c \in Controllers |-> Idle]
        /\ feed = [c \in Controllers |-> <<Absent>>]
        /\ queued = [c \in Controllers |-> FALSE]
        /\ faults = 0

Next == \/ \E c \in Controllers : Step(c) \/ Watch(c) \/ Crash(c)
        \/ Users \/ Platform \/ PodLost

Spec == Init /\ [][Next]_vars

\* The runtime keeps polling its queue and its watch, and Kubernetes and the
\* operator do their work; users, crashes and lost pods are never owed.
Fairness == /\ \A c \in Controllers : WF_vars(Step(c)) /\ WF_vars(Watch(c))
            /\ WF_vars(PodUp) /\ WF_vars(PodRetire) /\ WF_vars(TidbBecomesReady)
            /\ \A k \in Kinds : WF_vars(GarbageCollect(k))

FairSpec == Spec /\ Fairness

-----------------------------------------------------------------------------
TypeOK ==
  /\ log \in Seq(Version) /\ log # <<>>
  /\ lastUid \in 0..MaxUid
  /\ child \in [Kinds -> Int]
  /\ mode \in {"none", "foreign", "creation", "auth"}
  /\ pods \subseteq {"foreign", "creation", "auth"}
  /\ secretPw \in Int /\ lastPw \in Nat
  /\ rootPw \in [Storage -> Int]
  /\ tidbReady \in BOOLEAN
  /\ ctl \in [Controllers -> [pc : Steps, snap : Version, goal : Phases,
                              kind : 1..Len(CleanupOrder), cred : Int]]
  /\ feed \in [Controllers -> Seq(Version)]
  /\ \A c \in Controllers : feed[c] # <<>>
  /\ queued \in [Controllers -> BOOLEAN]
  /\ faults \in 0..MaxFaults

-----------------------------------------------------------------------------
(* What must hold.                                                         *)

SameIncarnation == Exists(Cluster) /\ Cluster'.uid = Cluster.uid

Started == {"Preparing", "InCreation"} \union Serving

\* Whatever calls fail, no Cluster leaves New before its root Secret is named
\* in its spec: the later phases have no other way to find the credentials.
RefBeforePhase == Cluster.phase \in Started => Cluster.rootRef # "none"

\* Which Secret the Cluster names is decided on an old snapshot and written to
\* the object as it is now, where a user may have named one meanwhile.  That may
\* happen before the Cluster is prepared; from then on the reference stays, as
\* the bootstrap and every later login go by it.
RefSettles == [][SameIncarnation /\ Cluster.phase \in Started
                   => Cluster'.rootRef = Cluster.rootRef]_vars

\* When the controller declares a live Cluster in service, SurrealDB accepts
\* the password in the Secret the Cluster names, over lost and repeated
\* bootstraps.  Over storage that an earlier incarnation left behind this is so
\* only where DEFINE USER replaces a user.
CredentialsWork == Live(Cluster) /\ Cluster.phase \in Serving =>
                     rootPw[Cluster.backend] = RefPw(Cluster.rootRef)

Rank == [New |-> 0, Preparing |-> 1, InCreation |-> 2,
         InProgress |-> 3, Ready |-> 3, NotReady |-> 3]

\* Reconciles work from snapshots that may be several writes behind, and write
\* phases without a precondition; still an incarnation never falls back to an
\* earlier phase, nor from service to Error.  (From Error it may: a reconcile
\* of a stale New can still take it out.)
PhaseNeverFallsBack ==
  [][SameIncarnation /\ Cluster.phase # "Error" =>
       \/ Cluster.phase \notin Serving /\ Cluster'.phase = "Error"
       \/ Cluster'.phase # "Error" /\ Rank[Cluster'.phase] >= Rank[Cluster.phase]]_vars

\* The Cluster is in service, or at least has a root user in storage that was
\* empty when the first incarnation began.
Secured == \/ Cluster.phase \in Serving
           \/ lastUid = 1 /\ rootPw[Cluster.backend] # NoPw

\* Once the Deployment of such a Cluster demands authentication, no reconcile of
\* it, however old its view, puts the Deployment back into the open mode.
AccessStaysClosed ==
  [][mode = "auth" /\ SameIncarnation /\ Secured => mode' # "creation"]_vars

\* The finalizer is removed only when nothing owned by a Cluster is left,
\* however often cleanup was interrupted and run again.
NothingOrphaned == [][Cluster.fin /\ ~Cluster'.fin => \A k \in Kinds : child[k] <= 0]_vars

\* Cleanup deletes by name, yet never what is somebody else's, and Secrets and
\* TidbClusters of others stay theirs.  A Deployment or a Service of others does
\* not: the forced apply makes it one of the stored Cluster's, to be deleted
\* with that.
ForeignKept ==
  [][\A k \in Kinds : child[k] = Nobody =>
       \/ child'[k] = Nobody
       \/ k \in {"deployment", "service"} /\ child'[k] = Cluster.uid /\ Cluster.fin]_vars

-----------------------------------------------------------------------------
(* Liveness, under FairSpec.                                               *)

\* A deleted Cluster is cleaned up and released in the end, in spite of a
\* bounded number of failed requests and crashes.
DeletionCompletes == Cluster.deleting ~> ~Cluster.deleting

\* Where no request fails, a Cluster with storage becomes Ready.
BecomesReady == Live(Cluster) /\ Cluster.phase = "New" /\ Cluster.backend # "none"
                  ~> Cluster.phase = "Ready" \/ ~Live(Cluster) \/ faults # 0

\* The open mode of the bootstrap ends: a Cluster declared in service comes to
\* have neither an open pod nor a template for one, even when the flip itself
\* failed and while readiness is reported on pods of the old template.
AccessCloses == Cluster.phase \in Serving
                  ~> (mode = "auth" /\ "creation" \notin pods) \/ ~Live(Cluster)

\* A Cluster that lost its pods is reported Ready again when they are back.
Recovers == Cluster.phase = "NotReady" ~> Cluster.phase = "Ready" \/ ~Live(Cluster)

\* A Cluster in InCreation gets its Deployment.
CreationIsApplied == Cluster.phase = "InCreation"
                       ~> Cluster.phase # "InCreation" \/ child["deployment"] # NoObject

\* Even what a second process creates behind the cleanup of the first goes in
\* the end: no Deployment and nothing owned outlives the last incarnation.
LeftoversGo == ~Exists(Cluster) ~> \/ Exists(Cluster)
                                   \/ mode = "none" /\ \A k \in Kinds : child[k] <= 0

-----------------------------------------------------------------------------
(* What a single controller process with fresh lists knows about its own   *)
(* stale view, and why RefBeforePhase is inductive: see                    *)
(* ClusterController_proofs.                                               *)

CleanupSteps == {"getChild", "deleteChild", "publish", "removeFinalizer"}
ApplySteps == Steps \ (CleanupSteps \union {"idle", "addFinalizer"})

RefOK(v) == v.phase \in Started => v.rootRef # "none"

\* A live version, however old, is one of the incarnation that is stored now,
\* still protected by the finalizer, and what it says of the Secret is true.
Held(v) == Live(v) => /\ Cluster.uid = v.uid /\ Cluster.fin
                      /\ v.rootRef # "none" => Cluster.rootRef # "none"

\* The finalizer comes or goes at most once in what the process has yet to
\* see, and nothing comes alive behind a deletion it has not seen.
FeedOrder(F) ==
  /\ \A i, j, k \in DOMAIN F : i < j /\ j < k /\ F[i].fin # F[j].fin => F[k].fin = F[j].fin
  /\ \A i, j \in DOMAIN F : i < j /\ F[i].deleting => ~Live(F[j])

FeedInv(F) ==
  /\ F[Len(F)] = Cluster
  /\ FeedOrder(F)
  /\ \A i \in DOMAIN F : /\ F[i].deleting => F[i].fin
                         /\ F[i].fin => Exists(F[i])
                         /\ RefOK(F[i])
                         /\ Held(F[i])

StepInv(r, F) ==
  /\ r.pc = "addFinalizer" =>
       \A i, j \in DOMAIN F : i < j /\ F[i].fin => F[j].fin
  /\ r.pc \in CleanupSteps =>
       /\ \A i, j \in DOMAIN F : i < j /\ F[j].fin => F[i].fin
       /\ \A i \in DOMAIN F : ~Live(F[i])
  /\ r.pc \in ApplySteps =>
       Live(r.snap) /\ Held(r.snap) /\ RefOK(r.snap)
  /\ r.pc \in {"getTidb", "createTidb", "getSecret", "postSql"} => r.snap.phase \in Started
  /\ r.pc = "setPhase" /\ r.goal \in Started => Cluster.rootRef # "none"

\* Every reconcile works from a view that is stale only in harmless ways.
ViewInv == \A c \in Controllers : FeedInv(feed[c]) /\ StepInv(ctl[c], feed[c])

=============================================================================
