# Verification of sdb-controller

TLA+ models of the Kubernetes operator `sdb-controller`, model-checked with TLC
and, where it says so, proved with TLAPS. Paths are those of the repository:
the crate is in `src/`, the Helm chart in `deploy/charts/`. `PROJECT.json` names,
for every definition that models code, the lines it stands for.

## The system

`run.rs` joins three controllers built on `kube::runtime::Controller`, one for
each custom resource, and a web server that only reads. A controller keeps a
watch cache of its resource, schedules a reconcile for every event and every
requeue, and never runs two reconciles of the same object at once. Nothing is
persisted outside the API server.

| component | state it keeps | operations | talks to |
|---|---|---|---|
| Cluster controller, `src/cluster/crd.rs` | the Cluster: finalizer, deletion mark, `spec.rootSecret`, `status.phase`; the dependants it makes: Deployment, Service, root Secret, TidbCluster | `reconcile`, one arm per phase; `cleanup`; `set_phase`, `ensure_root_secret`, `persist_root_secret_ref`, `reconcile_tidb_cluster`, `reconcile_surrealdb_with_mode`, `check_ready`, `bootstrap_root_user`, `delete_if_exists`; `error_policy` | API server; SurrealDB through the service proxy |
| Database controller, `src/database/crd.rs` | the Database: finalizer, `status.phase` | `reconcile`, `cleanup` | API server (Cluster, Secret, Service); SurrealDB |
| User controller, `src/user/crd.rs` | the User: finalizer, phase, generated Secret | `reconcile`, `cleanup` | API server (Database, Cluster, Secret); SurrealDB |
| Service client, `src/service.rs` | none | `post`, `send`: build the URL of a SurrealDB endpoint and say whether a statement was accepted | SurrealDB |
| start-up and shared state, `src/run.rs`, `src/main.rs`, `src/lib.rs` | diagnostics behind a lock | start the controllers, serve `/metrics` and `/health` | all controllers |
| metrics, telemetry | counters | observe | nothing reads them |
| CRD generator, TiDB API types | none | print schemas, declare types | |
| Helm chart | RBAC, replicas, rolling update | | decides how many processes run and what they may do |

A reconcile of a Cluster is called by the finalizer helper with an immutable
`Arc<Cluster>` from the cache. It adds the finalizer first, in a reconcile of
its own. After that:

    New --(root Secret, its name into spec)--> Preparing --(TidbCluster ready)--> InCreation
    New --(secret storage)--> InCreation --(pod available, root user defined)--> InProgress
    InProgress, NotReady --(pod available)--> Ready --(no pod)--> NotReady
    New --(no storage configured, or the Secret failed)--> Error

The Deployment starts in an open mode (`SURREAL_UNAUTHENTICATED`) in which the
root user is created over HTTP, and is then applied again with authentication.

What is hard here: every `.await` is a point at which users, other writes, a
crash or another process act; the object a reconcile looks at may be older than
its own last writes; patches carry neither uid nor resourceVersion; an error
anywhere ends the reconcile and it runs again from the start; some errors are
dropped with `.ok()`; names are reused by later incarnations, and storage
outlives all of them. `hazards` in `PROJECT.json` lists each at its line with
the properties that cover it.

What makes each component correct:

- Cluster controller: phases keep their order; no phase after New without a
  root Secret; a Cluster in service has the credentials it names; the open mode
  ends and does not come back; cleanup takes all that is owned and nothing
  else, and completes; a Cluster comes up, and recovers.
- Database and User controllers: a resource is Ready only when its statement
  took effect in the server it belongs to; the password in a User's Secret is
  the one the server accepts; both can be deleted although their Cluster has
  gone.
- Service client: `post` accepts just the hosts it says it does; what `send`
  calls a success is one.

## Modules

    ClusterController      the Cluster controller and what it relies on
      ClusterRefinement    maps it to   ClusterLifecycle   (what it promises of a Cluster)
                           and to       ClusterService     (what others see of a Cluster)
      ClusterInvariants    the inductive invariants behind its safety properties
      proofs: ClusterController_proofs
                ClusterOrder_proofs, ClusterCleanup_proofs
                  ClusterCredentials_proofs
                    ClusterRefinement_proofs
    ServiceClient          how a statement reaches SurrealDB, and what its answer counts for
      proofs: ServiceClient_proofs
    Resource               a custom resource, its watch and the finalizer helper
      proofs: Resource_proofs
      DatabaseController   (ServiceClient, Resource)
      UserController       (ServiceClient, Resource)
    Tenants                DatabaseController and UserController over a ClusterService
      proofs: Tenants_proofs
    SdbSystem              DatabaseController over the real ClusterController, in one process

`MCClusterController`, `MCTenants` and `MCSdbSystem` hold the constants of the
TLC instances.

The two compositions divide the work. `Tenants` puts both controllers over the
abstract `ClusterService`, whose six actions are all a Cluster may do to them;
`ImplementsService` shows that the detailed controller does no more. What
`Tenants` finds safe is therefore safe over it as long as the Cluster keeps its
storage; what SurrealDB knows of Databases and Users (`defined`, `serverPw`)
belongs to one storage, and nothing is claimed across a change of it. Progress
is not inherited: an abstract Cluster owes nothing. `SdbSystem` therefore runs
the Database controller over the detailed Cluster controller, where its progress
is checked.

### What is left to do

1. What holds with two processes, or with stale lists: the theorems about the
   Cluster controller are about one process with fresh lists, and the runs
   `stale_list` and `leftovers` show that most of them need it.
2. `ReadyDatabaseIsDefined` over the real Cluster controller (`SdbSystem`), where
   it may lose its storage, from the theorems about `Tenants` and the refinement.
3. Several Users of one Database, and recreated ones: the Secret then needs an
   owner in the properties, and two hazards are waiting for it.

## ClusterController

One Cluster name, its later incarnations, any number of controller processes,
and what they rely on: API server, watch, pods, garbage collector, TiDB
operator, SurrealDB.

| variable | stands for |
|---|---|
| `log` | the versions a list may answer with, the last one stored now; only the stored one unless `StaleList` |
| `lastUid` | the newest incarnation |
| `child` | per kind of dependant: the uid in its owner reference, `NoObject`, or `Nobody` for an object somebody else made |
| `mode`, `pods` | the environment in the pod template (`foreign` for a Deployment somebody else made), and those of the available pods (during a rolling update, both) |
| `secretPw`, `lastPw` | the password in the generated Secret, and a counter that makes generated passwords distinct |
| `rootPw` | per storage backend the root password SurrealDB keeps; it outlives the Cluster |
| `tidbReady` | the Ready condition of the TidbCluster |
| `ctl[c]` | where the reconcile of process c stands: the request it issues next, the `Arc<Cluster>` it was called with, the phase it will set, the position in the deletes, the credentials it has read |
| `feed[c]` | the cached version, then the events to come |
| `queued[c]` | a reconcile is scheduled |
| `faults` | failed requests, crashes and lost pods so far |

Every request of a reconcile is an action (`AddFinalizer`, `SetPhase`,
`CreateSecret`, `PersistRef`, `CreateTidb`, `GetTidb`, `ApplyDeployment`,
`ApplyService`, `CheckReady`, `GetSecret`, `PostSql`, `GetChild`, `DeleteChild`,
`Publish`, `RemoveFinalizer`); what the code decides between two requests is
part of the action before it. `Reconcile...` are the starts of a reconcile, one
for each arm of `reconcile` and of the finalizer helper. A write is `answered`,
`lost` (an error, no effect) or `unacknowledged` (an effect, then an error); a
read is answered or lost. The model keeps which errors the code propagates and
which it drops. `Requeue` is `Action::requeue` and `error_policy`,
`AwaitChange` is `Action::await_change`. `Watch` delivers events in order;
`Crash` kills the process, and a new one lists and reconciles.

Some definitions stand just before one they resemble and are used nowhere
(`NextChildOverruns` before `NextChild`). Each is a plausible bug in that
definition; put in its place it breaks a property, which shows that the
property can fail.

### Assumptions about what is outside `src/`

- The API server accepts the JSON patch `replace` of a `/spec/rootSecret` that
  is absent, as the patch library it uses does.
- A merge patch that changes nothing makes no event; the status merge patch
  fails with 404 once the object is gone.
- Deleting a Deployment removes its pods at once (their termination period is
  not modelled); deleting a TidbCluster, which cleanup does with
  `Orphan` propagation, leaves its volumes.
- An anonymous statement sent to a pod that demands authentication is refused
  with an HTTP error; a statement that fails (a user that exists) is reported
  inside a 200. Whether `DEFINE USER` replaces an existing user is the constant
  `DefineOverwrites`: false for the `surrealdb` image the code deploys and in every
  run, true for the 1.x series.
- Users may make objects of any kind under the names of ours (`Foreign`), at any
  time. A create answers 409 and leaves them alone. The forced apply takes a
  Deployment or a Service over: it adds its owner reference and replaces the
  template, and a rolling update replaces the pods. That the selector of a
  Deployment cannot be changed, and would make the API server refuse the apply of
  one with another selector, is not modelled. A Service of others does not lead to
  our pods.
- A spec may have both `tidbCluster` and `tikvSecretRef` (`both`): an environment
  variable with `value` and `valueFrom` is refused, so the apply never succeeds.
  A `rootSecret` may have no name (`nameless`): nothing is generated then, and
  the bootstrap finds no credentials.
- A Secret named by a user exists and does not change.
- Users edit what explains the code's branches: they give storage to a Cluster
  written without it, and name a root Secret where there is none.
- With `TidbVerbs` short of `get` or `delete`, those requests get a 403.

## ClusterService, ClusterLifecycle, ClusterRefinement

`ClusterLifecycle` is the abstract specification of the Cluster controller:
the phase of the stored Cluster, whether a root Secret is named, whose the root
user of SurrealDB is, and how the Deployment serves. There are no reconciles, caches or
failures in it. It says in which order phases follow each other and what has
to be there before each (`Prepare`, `Launch`, `EnterService`, ...), that a
Cluster enters service only when SurrealDB has a root user, and that none but the
one of the Secret it names is made meanwhile (`root`: `ours`, or `another` one that
storage kept from an earlier Cluster), that access is opened (`Open`) only before service and never to a Cluster
without a named Secret, and that SurrealDB is taken down before the Secret goes
(`TakeDown`, `ForgetRoot`) and the Cluster is released last.

`ClusterService` is what Databases and Users see: whether the root Secret can be
read, whether SurrealDB answers, whether it knows that root user. Whether the
Cluster has storage (`stored`) they do not see, but it decides what may happen
next: storage that is chosen late (`ChooseStorage`) may know the root user at
once, without a bootstrap and while nothing serves.

`ClusterRefinement` maps the detailed state to both:

| abstract | detailed |
|---|---|
| `stage` | the stored Cluster is absent, live or deleting |
| `named` (lifecycle) | `rootRef` is set |
| `stored` | `backend` is not `none` |
| `named` (service), `SecretReadable` | it is the user's Secret, or the generated one and that exists |
| `rooted`, `RootKnown` | the Secret is readable and its password is the one in the storage backend |
| `up`, `Answers` | there is a Service and an available pod, both ours |
| `root`, `Root` | `ours` if `RootKnown`, else `nobody` if the backend has no root user, else `another` |
| `access`, `Access` | `mode`, and `none` for a Deployment of others |

The abstract actions are as permissive as the code is, and each permission was
found by TLC. From Error a Cluster may go on, because a reconcile of an older
New is still under way; likewise a reconcile of an older Error may close access
(`Close`) while the Cluster is in InCreation, whose bootstrap is then refused.
The reference may be written over before the Cluster is prepared
(`NameRootSecret` with `named`, `Withdraw` with `named'`), and storage kept from
an earlier Cluster may know the root user at once.

## Tenants

`Resource` is one custom resource as the API server and the one process of its
controller see it, with the finalizer helper: what the Database and the User
controller have in common. `DatabaseController` and `UserController` each
instantiate it and add their requests in the order of the code; `Tenants`
interleaves the two over one SurrealDB and one fault budget. `ServiceClient`
says which Service `service::Client::post` addresses for the host both
controllers write (`Post`, on hosts as sequences of labels), and what `send`
makes of the answer to a statement. All controllers run in one process, so
`Crash` restarts both.

The Cluster is a `ClusterService` that always has storage, which keeps a variable
nobody sees out of the state, and one more action, `StorageChosen`, for what is
then missing; the lemma `ServiceMoves` proves that no other step of a
`ClusterService` is. What SurrealDB keeps of Databases and Users outlives every
move in `Tenants`, which is true of one storage only.

| variable | stands for |
|---|---|
| `db`, `user` | the resource as stored: uid, finalizer, deletion mark, phase |
| `dbFeed`, `userFeed` | the cached version, then the events to come |
| `dbQueued`, `userQueued` | a reconcile is scheduled |
| `dbNewest`, `userNewest` | the newest incarnation |
| `dbPast`, `userPast` | the last `MaxLag` versions before the stored one: the list of a restarted process may answer with one of them, and the events since then follow |
| `dbStep`, `userStep` | the request the reconcile issues next |
| `dbGoal`, `userGoal` | the phase it will set |
| `dbFresh`, `userFresh` | nothing of what the reconcile read of the Cluster (which root Secret, its password) has been withdrawn or replaced since |
| `userUid`, `userPw` | the uid of the User it was called with, and the password it uses |
| `secret`, `config` | the credentials Secret (owner, password) and the owner of the ConfigMap |
| `serverPw`, `defined` | what SurrealDB has: the password of the user; the namespace and the database |
| `named`, `up`, `rooted` | the Cluster as seen from here: its root Secret can be found, SurrealDB answers, the root user exists |
| `faults` | failed requests, crashes and outages so far |

`GetCluster` and `GetRootSecret` of the Database controller are the requests of
`get_root_credentials`. A reconcile logs in with the password it has read: once
the root Secret has been withdrawn (`ClusterFails`, and in `SdbSystem` when the
`credentials` change) SurrealDB may accept it still, or not (`Known`). `GetDatabase`, `GetCluster` and `GetRootSecret` are the reads of a User's reconcile,
`ProvisionUser`, `EnsureSecret` and `EnsureConfigMap` its writes, in that order. An error of a
read is propagated and retried, one of a write becomes the phase Error, which a
User leaves and a Database does not. `SetPhaseMsg` drops its error, as
`.await.ok()` does. `ClusterAdvances` and `ClusterFails` are the actions of
`ClusterService`; outages and withdrawals are charged to the faults, which only
bounds them.

Assumed of what is outside `src/`: a statement of a user SurrealDB does not know
is refused with HTTP 401, in the open mode too; the server is not strict, so
`DEFINE DATABASE` and `DEFINE USER` create the namespace and database they name;
defining what exists fails inside a 200 and changes nothing, except a user's password where
`DefineOverwrites` holds; storage and the root user outlive an
outage; the root Secret holds the root credentials. A new random password is
none in use (`Choices`); a user may write any of `Given` into `spec.password`
before an attempt.

## SdbSystem

The variables of `ClusterController` and those of `DatabaseController`, whose
`named`, `up` and `rooted` are the expressions of `ClusterRefinement` over them.
Every action of one leaves the variables of the other alone (a root Secret that
goes or is replaced only ends `dbFresh`, see `Beside`), except `ProcessDies`: `run.rs` joins the controllers in one process, so both reconciles
stop and both watches start over. It is counted by `restarts`, apart from the
faults, so that the flow can be claimed across a crash. `FlowCompletes` is the
flow of `tests/integration_ready_flow.rs`, as far as the Database.

## Runs

Those of `MCClusterController` use one process, `c1`, except `leftovers`.
`MaxUid`, `MaxDbs` and `MaxUsers` bound incarnations, `MaxFaults` the faults of
one behaviour, `MaxRestarts` the crashes of `SdbSystem`, `MaxLag` how many
versions a list of Databases or Users may be behind.

| run | bounds | shows |
|---|---|---|
| `lifecycle` | 1 incarnation, 2 faults, every backend and `rootSecret` (both storages, one without a name), foreign Service | `TypeOK`, `RefBeforePhase`, `CredentialsWork`, `PhaseNeverFallsBack`, `AccessStaysClosed`, `RefSettles`, `ForeignKept`, `ImplementsLifecycle`, and of the proofs `ViewInv`, `OrderInv`, `AccessInv` |
| `successors` | 2 incarnations over kept storage, 1 fault, foreign Secret, TidbCluster and Deployment | `NothingOrphaned`, `ForeignKept`, `ImplementsService`, `ImplementsLifecycle`, and of the proofs `CredentialsInv`, `OwnedInv`, `RefinementInv` |
| `progress` | 1 incarnation, 1 fault, fair | `DeletionCompletes`, `AccessCloses`, `Recovers`, `BecomesReady` |
| `leftovers` | two processes, 1 incarnation, 2 faults, no storage, fair | `LeftoversGo`: what one process creates behind the cleanup of the other is collected |
| `stale_list` | violation of `AccessStaysClosed` | after a restart an old list sends a serving Cluster back to the open mode |
| `chart_rbac` | violation of `DeletionCompletes` | the chart grants no `delete` on tidbclusters: the finalizer stays |
| `lost_apply` | violation of `CreationIsApplied` | one failed apply after InCreation is set, and nothing applies again |
| `tenants` | 1 incarnation of each, 1 fault, lists up to 2 versions old, password in the spec, `Client::Kube` | `TypeOK`, `ReadyDatabaseIsDefined`, `ReadyUserCanLogIn` |
| `tenants_progress` | 1 incarnation of each, 1 failed request or crash, the users of one resource wait till the other has settled, fair | `UserBecomesReady`, `DatabaseSettles`, `DeletionNeedsNoCluster` |
| `system` | 1 incarnation of each, TiDB storage, no fault, 1 crash, fair | `FlowCompletes`, `DatabaseFollowsCluster` |
| `user_password` | generated password, 1 fault; violation of `ReadyUserCanLogIn` | a retry draws another password, of which the Secret and SurrealDB keep different ones |
| `status_unread` | `Client::Reqwest`; violation of `ReadyDatabaseIsDefined` | in a pod the client reports a refused statement as done: the Database is Ready and not there |

What the model also has, and no property forbids: with two processes, one
removes the finalizer when the other has just made a Secret, against the comment
"ensure nothing is orphaned" (`NothingOrphaned` fails), though garbage collection
takes it later (`LeftoversGo`); a Cluster becomes Ready while
the only available pod is still the open one, since `check_ready` counts pods of
the old template; a root Secret that a user names during a reconcile is
overwritten by `persist_root_secret_ref`, as long as the Cluster is not yet
Preparing (`RefSettles`); a
recreated Cluster over kept storage goes into service with a password that
SurrealDB does not accept, where `DEFINE USER` keeps the user of the first
(`CredentialsWork` fails in `successors`, and is checked for one incarnation); a
Deployment or a Service of somebody else is taken over by the forced apply, and
deleted with the Cluster; a Cluster with both storages, or with a `rootSecret`
without a name, never leaves InCreation; a User whose `spec.password` is edited
between two attempts may be Ready with a Secret that does not log in; a Database in Error
stays there; a Cluster whose stale Error closed access in InCreation is never
bootstrapped.

Why the bounds are enough. The safety properties are proved without them (see
Proofs), so they matter for the rest. Two faults let a failed write be followed by a
failure of its retry or a crash in the recovery, and there is no counter in the
code a third could push further. Two incarnations are all that names confuse:
the code relates an object to the current incarnation or to some earlier one.
The feed is not bounded: the process may lag behind by every version there is,
and the writes of one incarnation are few. (Two
processes that both lag may undo each other's phases for ever, so `leftovers` uses
a Cluster without storage, whose phase is written once; its Deployment and
Service are made from the Error phase.) One Cluster is enough because
reconciles of different Clusters share no state but metrics. Two processes are
what a rolling update overlaps.

In `Tenants` one Database and one User suffice for what is stated, since the
controllers relate a User to one Database and one Cluster, and different Users
share nothing but the server. One fault is a lost or unacknowledged request, a
crash or an outage at any point; every attempt starts again from the beginning,
so a second one repeats the first (with fresh lists the invariants also hold
with two). A list two versions old shows a Ready resource as New, or as one
without its finalizer, which is what reconcile tells apart; elsewhere lists are
fresh. Three passwords are one in the Secret, one in
SurrealDB and a fresh one. In `tenants_progress` the fault is a request of either
controller that fails, before or after its effect, or a crash; the refusals
before the root user exists come on top of it. The users of the Database act only
while the User is at rest, and the other way round, which keeps the liveness
check small; the controllers and the Cluster interleave freely. Outages are left
to `tenants`, which has every interleaving.

In `SdbSystem` one Cluster and one Database, each with its deletion at any
moment, meet in every phase of the other. The run has no failed request, since
one that hits a Database leaves it in Error for ever and `FlowCompletes`
excludes that; a crash is what remains, and one is enough, as a second again
starts both controllers over. With one failed request or lost pod in place of
the crash both properties hold as well, in an instance too large for a routine
run. The successor of a deleted Cluster is left out: over kept storage it may
not know its own password (above).

Deadlock is not checked: once the last incarnation is gone, or every Database and
User is settled, there is nothing left to do.

Fairness. Weak fairness of a process's steps and of its watch: the runtime polls
its queue and its streams, and every request ends, with an error at worst. Weak
fairness of pods coming up and of the old ones being retired, of the TiDB
operator and of garbage collection per kind: Kubernetes does these on its own.
Faults, users and lost pods are never owed. `BecomesReady` is
claimed of behaviours without a fault, since `lost_apply` shows that it fails
after one. In `Tenants` both controllers are fair and the Cluster owes nothing:
`UserBecomesReady` and `DatabaseSettles` assume that it is available from some
point on, and `DeletionNeedsNoCluster` assumes nothing of it. `SdbSystem` has
the fairness of both: `FlowCompletes` needs the Cluster only to be in service when the
Database is created, and `DatabaseFollowsCluster` that it remains Ready.

## Proofs

Every safety property of a passing run is a theorem for all values of the
constants, under the hypotheses in the last column. "One" is one controller
process with fresh lists (`Controllers = {p}`, `StaleList = FALSE`).

| module | theorem | states | under |
|---|---|---|---|
| `ClusterController_proofs` | `TypeCorrect` | `[]TypeOK` | nothing: any processes, stale lists |
| | `ViewsHold`, `ReferenceBeforePhase` | `[]ViewInv`, `[]RefBeforePhase` | one |
| `ClusterOrder_proofs` | `VersionsInOrder`, `ReferenceSettles`, `PhasesAdvance` | `[]OrderInv`, `RefSettles`, `PhaseNeverFallsBack` | one |
| `ClusterCleanup_proofs` | `DependantsOwned`, `NothingLeftBehind`, `ForeignObjectsStay` | `[]OwnedInv`, `NothingOrphaned`, `ForeignKept` | one |
| `ClusterCredentials_proofs` | `CredentialsKept`, `RootUserMeansBootstrapped`, `DeploymentStaysClosed` | `[]CredentialsInv`, `[]AccessInv`, `AccessStaysClosed` | one |
| | `CredentialsAlwaysWork` | `[]CredentialsWork` | one; `DefineOverwrites`, or the first incarnation |
| `ClusterRefinement_proofs` | `ConnectionHolds`, `ServiceImplemented` | `[]RefinementInv`, `ImplementsService` | one |
| | `LifecycleImplemented` | `ImplementsLifecycle` | one |
| `Tenants_proofs` | `TypeCorrect` | `[]TypeOK` | nothing |
| | `ReadyDatabasesAreDefined` | `[]ReadyDatabaseIsDefined` | `Client = "Kube"` |
| | `ReadyUsersLogIn` | `[]ReadyUserCanLogIn` | the same, one password that the spec gives and keeps, one incarnation of the User |
| `ServiceClient_proofs` | `PostFindsService`, `PostRefuses`, `StatementsDelivered` | what `post` makes of a host, of any length | |

The hypotheses are needed. `stale_list` shows what stale lists do; with two
processes a cleanup of one can be overtaken by an apply of the other. Where
`DEFINE USER` keeps a user, a second incarnation over kept storage may be in
service with a password that is refused. `status_unread` and `user_password`
are what happens with the other client and without a password in the spec, and
a recreated User is a hazard of its own (`hazards`).

### The Cluster controller

Nearly every write of a reconcile is decided from an old snapshot and done to
whatever has the name now. None of the properties is therefore inductive, and
the invariants of `ClusterInvariants`, each proved on top of those before, say
what may have happened in between.

- `ViewInv`, with the types and a log of one version. `FeedOrder`
  says that the finalizer comes or goes at most once in what the process has yet
  to see, and that nothing comes alive after a deletion it has not seen: only
  the process itself changes the finalizer, and it adds it only after it has seen
  it absent and removes it only in a cleanup it began after seeing a deletion. So
  a live version, however old (`Held`), is of the incarnation stored now, whose
  finalizer is still there, and a reference it showed is still there. `StepInv`
  carries this through a reconcile. `Grow` is the lemma for every write that
  keeps the finalizer; `AddFinalizerView` and `RemoveFinalizerView` treat the
  two that do not.
- `OrderInv`: of two versions in view the later `Follows` the older, and the
  snapshot of a reconcile is followed by all that is in view. `Follows` says which
  phases a Cluster may have reached before the process has handled a version
  (`MayBecome`), and that a reference is only made where there was none. It is no
  transitive relation: a New may become Error, and an Error anything but New, but
  as long as a New is in view the Cluster is not Ready. So a written phase is compared
  with every version in view, by what the reconcile may write (`MayWrite`).
- `OwnedInv`: what is owned belongs to the stored Cluster, which has the
  finalizer, since an apply works on a held snapshot; and cleanup has taken the
  kinds it has been through, since no apply is under way behind it.
- `CredentialsInv`: as long as no cleanup has begun (`Untouched`) the Secret a
  reference was made for exists; what a login posts is the password of the Secret
  the Cluster names, which from InCreation on is settled by `OrderInv`; and
  SurrealDB has it before `InProgress` is written. Over storage that knew nobody the
  login takes effect even where `DEFINE USER` keeps a user, and a login that is
  repeated finds its own password (`FirstOf`): by `AccessInv` no view is left from
  which the Secret or the reference could still change.
- `AccessInv`: in the first incarnation a root user means that no version
  in view is New or Preparing, and those are the only ones whose reconcile opens
  the Deployment.
- `RefinementInv`: what connects a state to the abstract one. A generated password
  is used once, so that SurrealDB accepts the one in the Secret only after a login with
it; and service is not declared before the storage has a root user (`Rooted`),
which a reconcile has seen to when it writes `InProgress` (`RootsInTime`).

The refinement goes through what one step may do. `OneOrTheOther`: it
rewrites the Cluster (`Rewritten`) or works on the objects beside it
(`WorkedOn`), never both. Each way is shown to be an action of `ClusterService`
(`Offers`), or of `ClusterLifecycle` (`Lives`), or to change none of their
variables. Two cases are not local: `PhaseMayFollow`, where a phase from an old
snapshot must be one that the lifecycle lets follow the phase of now, and opening
access, which must find a phase that allows it.

### Databases and Users

`Resource_proofs` has what a controller knows of any resource, however far its
cache and its lists are behind (`ObjectInv`: every version is of an incarnation
that was made). `Tenants_proofs` instantiates it for the Database and the User.
`DefinedInv` adds to `ReadyDatabaseIsDefined` that a reconcile that is about
to write Ready has seen both statements succeed; `LoginInv` says of
every request of a User's reconcile which of Secret and SurrealDB hold the
password by then. `CarriedOK` is the part of `TypeOK` that is no plain type: what
a reconcile carries has been read, and a Secret has the owner it is collected
with. Both results are about a Cluster that keeps its storage (see Modules).

### Only model-checked

Liveness (`progress`, `leftovers`, `tenants_progress`, `system`), which is out of
the prover's reach under fairness, as is `ENABLED`; all of `SdbSystem`; and the
runs that expect a violation, which refute what they check.

## Not modelled

- The User controller over the real Cluster controller: the product of the three is
  out of TLC's reach, and `Tenants` has it over `ClusterService`.
- Names of SurrealDB namespaces, databases and users, and their quoting. The name
  of a Cluster is one label.
- Users that share a Secret, a Cluster recreated over other storage than its Databases were defined in.
- Wording of names, labels and manifests; resource requests, probes; the number of replicas
  (whether any pod is available is all the code asks).
- Durations: requeue intervals and timeouts are "some time later".
- Telemetry, metrics and diagnostics: no decision reads them. `crdgen.rs` and the
  generated TiDB types have no behaviour.
- 26822 of the repository's 30803 lines of Rust declare the types of the TiDB
  operator, generated from its schema; of the rest most of what no definition
  stands for are the test fixtures and tests, `crdgen.rs`, metrics and telemetry.
