------------------------- MODULE ClusterRefinement -------------------------
(***************************************************************************)
(* The Cluster controller implements what the other controllers and the    *)
(* users may rely on.                                                      *)
(***************************************************************************)
EXTENDS ClusterController

SecretReadable == \/ Cluster.rootRef = "user"
                  \/ Cluster.rootRef = "auto" /\ child["secret"] # NoObject

\* The pods of others are not SurrealDB.
Answers == child["service"] > 0 /\ pods \ {"foreign"} # {}

RootKnown == SecretReadable /\ rootPw[Cluster.backend] = RefPw(Cluster.rootRef)

Service == INSTANCE ClusterService WITH
  stored <- Cluster.backend # "none", named <- SecretReadable,
  up <- Answers, rooted <- RootKnown

\* Whose the root user is that SurrealDB has.
Root == IF RootKnown THEN "ours"
        ELSE IF rootPw[Cluster.backend] = NoPw THEN "nobody" ELSE "another"

Access == IF mode = "foreign" THEN "none" ELSE mode

Stage == IF ~Exists(Cluster) THEN "gone"
         ELSE IF Cluster.deleting THEN "deleting" ELSE "live"

Lifecycle == INSTANCE ClusterLifecycle WITH
  stage <- Stage, phase <- Cluster.phase, named <- Cluster.rootRef # "none",
  root <- Root, access <- Access

\* Whatever the Cluster controller and its reconciles do, Databases and Users
\* meet no more than the ClusterService they are composed with.
ImplementsService == Service!Spec

\* Through stale caches, lost answers and crashes the Cluster goes through its
\* phases as the lifecycle says, and access opens and closes with them.
ImplementsLifecycle == Lifecycle!Spec
=============================================================================
