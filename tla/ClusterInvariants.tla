------------------------- MODULE ClusterInvariants -------------------------
(***************************************************************************)
(* Why the safety properties of ClusterController hold for one process     *)
(* with fresh lists: inductive invariants on top of ViewInv.  Each is      *)
(* checked by TLC here and proved in a module of its own.                  *)
(***************************************************************************)
EXTENDS ClusterController

-----------------------------------------------------------------------------
(* What a reconcile relies on when it writes to a Cluster that has moved   *)
(* on since its snapshot (ClusterOrder_proofs).                            *)

\* The phase an incarnation can be in, as long as a process that has seen v has
\* not begun a reconcile with anything later.
MayBecome(v, p) ==
  \/ v.phase = "New" /\ (p \in {"New", "Error"} \/ (v.backend # "none" /\ p = AfterNew(v)))
  \/ v.phase = "Preparing" /\ p \in {"Preparing", "Error", "InCreation"}
  \/ v.phase = "InCreation" /\ p \in {"InCreation", "Error", "InProgress"}
  \/ v.phase \in Serving /\ p \in Serving
  \/ v.phase = "Error" /\ p # "New"

\* The phase a reconcile of v may write.
MayWrite(v, p) ==
  \/ v.phase = "New" /\ (p = "Error" \/ (v.backend # "none" /\ p = AfterNew(v)))
  \/ v.phase = "Preparing" /\ p = "InCreation"
  \/ v.phase = "InCreation" /\ p = "InProgress"
  \/ v.phase \in Serving /\ p \in {"Ready", "NotReady"}

\* How a version w may differ from a version v the process has yet to handle.
\* It is more than a step from one version to the next, and does not compose.
Follows(v, w) ==
  Exists(v) /\ w.uid = v.uid =>
    /\ v.backend # "none" => w.backend = v.backend
    /\ v.rootRef # "none" => w.rootRef # "none"
    /\ v.rootRef = "auto" => w.rootRef = "auto"
    /\ v.phase \in Started => w.rootRef = v.rootRef
    /\ w.phase \in Started /\ v.rootRef = "none" => w.rootRef = "auto"
    /\ MayBecome(v, w.phase)

\* What a reconcile knows of its snapshot at each request.
StepOrder(r) ==
  /\ r.pc \in {"createSecret", "persistRef"} =>
       r.snap.phase = "New" /\ r.snap.rootRef = "none" /\ r.snap.backend # "none"
  /\ r.pc \in {"createTidb", "getTidb"} => r.snap.phase = "Preparing"
  /\ r.pc \in {"getSecret", "postSql"} => r.snap.phase = "InCreation"
  /\ r.pc = "postSql" \/ (r.pc = "setPhase" /\ r.goal \in Serving) => r.snap.rootRef # "nameless"
  /\ r.pc = "checkReady" => r.snap.phase \in Serving \union {"InCreation"}
  /\ r.pc = "setPhase" =>
       /\ MayWrite(r.snap, r.goal)
       /\ r.goal \in Started /\ r.snap.rootRef = "none" => Cluster.rootRef = "auto"

\* What a Cluster must have got before it can be in a phase.
Backed(v) == /\ v.phase \in Started => v.backend # "none"
             /\ v.phase \in Serving => v.rootRef # "nameless"

OrderOf(r, F) ==
  /\ \A i \in DOMAIN F : F[i].uid <= lastUid /\ Backed(F[i])
  /\ \A i, j \in DOMAIN F : i <= j => Follows(F[i], F[j])
  /\ r.pc \in ApplySteps => Backed(r.snap) /\ \A i \in DOMAIN F : Follows(r.snap, F[i])
  /\ StepOrder(r)

\* A Cluster has moved on only in ways that let every reconcile of an older
\* version do what it decided on.
OrderInv == \A c \in Controllers : OrderOf(ctl[c], feed[c])

-----------------------------------------------------------------------------
(* Whose the dependants are (ClusterCleanup_proofs).                       *)

Swept(r, i) == \/ r.pc \in {"getChild", "deleteChild"} /\ i < r.kind
               \/ r.pc \in {"publish", "removeFinalizer"}

\* What is owned is owned by the Cluster that is stored, which has the
\* finalizer.
OwnedAlive == \A k \in Kinds : child[k] > 0 => Cluster.fin /\ child[k] = Cluster.uid

\* Cleanup has taken all it has been through, and what it is about to delete is
\* there and the Cluster's.
SweepOf(r) ==
  /\ \A i \in 1..Len(CleanupOrder) : Swept(r, i) => child[CleanupOrder[i]] <= 0
  /\ r.pc = "deleteChild" => Cluster.fin /\ child[CleanupOrder[r.kind]] > 0

\* No dependant outlives the Cluster that owns it, whatever ended its cleanup.
OwnedInv == OwnedAlive /\ \A c \in Controllers : SweepOf(ctl[c])

-----------------------------------------------------------------------------
(* Where the credentials are on their way (ClusterCredentials_proofs).     *)

\* SurrealDB accepts the password of the Secret the Cluster names.
Granted == rootPw[Cluster.backend] = RefPw(Cluster.rootRef)

\* No cleanup of the Cluster has begun, as long as the process is in the middle
\* of apply or has yet to see that it is deleted.
Untouched(r, F) == r.pc \in ApplySteps \/ \E i \in DOMAIN F : Live(F[i])

\* A login gives SurrealDB the password it posts: DEFINE USER replaces a user
\* that exists, or no earlier incarnation can have made one.
Definable == DefineOverwrites \/ lastUid <= 1

HasRoot == \E s \in Storage : rootPw[s] # NoPw

\* Till then SurrealDB accepts the password in service, and the Secret a
\* reference was made for exists.
ObjectGranted(r, F) ==
  Untouched(r, F) =>
    /\ Definable /\ Cluster.phase \in Serving => Granted
    /\ Cluster.rootRef = "auto" => child["secret"] # NoObject

\* The root user of a first incarnation is the one its Secret is about.
FirstOf(r, F) == lastUid = 1 /\ HasRoot /\ Untouched(r, F) =>
                   Granted /\ Cluster.backend # "none" /\ Cluster.rootRef \in {"auto", "user"}

\* What has no finalizer yet has not been worked on.
Fresh == ~Cluster.fin => Cluster.phase = "New" /\ Cluster.rootRef # "auto"

\* What is posted is the password of that Secret, and SurrealDB has it before
\* service is declared.
StepGranted(r) ==
  /\ r.pc = "persistRef" => child["secret"] # NoObject
  /\ r.pc = "postSql" => r.cred = RefPw(Cluster.rootRef)
  /\ Definable /\ r.pc = "setPhase" /\ r.goal = "InProgress" => Granted

\* The way of the password from the Secret into SurrealDB: whatever a stale
\* reconcile reads, posts or declares is about the Secret the Cluster names.
CredentialsInv ==
  /\ Fresh
  /\ \A c \in Controllers : /\ ObjectGranted(ctl[c], feed[c]) /\ FirstOf(ctl[c], feed[c])
                            /\ StepGranted(ctl[c])

-----------------------------------------------------------------------------
(* What a reconcile would open (ClusterCredentials_proofs).                *)

Opens(v) == v.phase \in {"New", "Preparing"}

ClosedOf(r, F) == /\ \A i \in DOMAIN F : Exists(F[i]) => ~Opens(F[i])
                  /\ r.pc \in ApplySteps => ~Opens(r.snap)

\* In storage that was empty there is a root user only by a login of the same
\* incarnation, which then is past the phases that are served openly.
AccessInv ==
  /\ HasRoot => lastUid > 0
  /\ HasRoot /\ lastUid = 1 => \A c \in Controllers : ClosedOf(ctl[c], feed[c])

-----------------------------------------------------------------------------
(* What the abstract specifications of a Cluster say on top of that        *)
(* (ClusterRefinement_proofs).                                             *)

\* A generated password is used once.  SurrealDB has the one in the Secret only
\* if the Cluster names that Secret.
Passwords ==
  /\ child["secret"] = NoObject => secretPw = NoPw
  /\ child["secret"] = Nobody => secretPw = UserPw
  /\ child["secret"] > 0 => secretPw > UserPw
  /\ secretPw <= lastPw /\ \A s \in Storage : rootPw[s] <= lastPw
  /\ rootPw["none"] = NoPw
  /\ secretPw > UserPw /\ (\E s \in Storage : rootPw[s] = secretPw) => Cluster.rootRef = "auto"

\* Only a Deployment of the Cluster serves.
Deployments ==
  /\ \A k \in Kinds : child[k] >= Nobody
  /\ child["deployment"] = NoObject => mode = "none"
  /\ child["deployment"] = Nobody => mode = "foreign"

\* Service is not declared before SurrealDB has a root user, be it one that an
\* earlier incarnation left behind.
Rooted == Cluster.phase \in Serving => rootPw[Cluster.backend] # NoPw

RootsInTime(r) == r.pc = "setPhase" /\ r.goal = "InProgress" => rootPw[Cluster.backend] # NoPw

Vacant == ~Exists(Cluster) => Cluster = Absent

\* A reconcile that is about to open access has stored the phase for it.
OpensInTime(r) == r.pc = "applyDeployment" /\ Opens(r.snap) =>
                    Cluster.phase \in {"Preparing", "InCreation", "Error"} /\ Cluster.rootRef # "none"

\* What connects a state to the abstract one: passwords, Deployments and
\* versions are what the mapping takes them for, over every stale reconcile.
RefinementInv ==
  /\ Passwords /\ Deployments /\ Vacant /\ Rooted
  /\ \A c \in Controllers : OpensInTime(ctl[c]) /\ RootsInTime(ctl[c])
=============================================================================
