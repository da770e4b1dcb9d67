--------------------------- MODULE ServiceClient ---------------------------
(***************************************************************************)
(* How the Database and the User controller reach SurrealDB, and what      *)
(* becomes of a statement they send.  try_default picks Client::Kube,      *)
(* which goes through the service proxy of the API server, where there is  *)
(* a kubeconfig, and Client::Reqwest elsewhere, as in a pod.               *)
(*                                                                         *)
(*   up       SurrealDB answers                                            *)
(*   rooted   it knows the root user of the Cluster                        *)
(*                                                                         *)
(* A reconcile logs in with what it read of the Cluster before: fresh says *)
(* that nothing of it has been withdrawn or replaced since.                *)
(***************************************************************************)
EXTENDS Integers, Sequences

CONSTANTS Client,       \* "Kube" or "Reqwest"
          ServiceName,  \* the Service of the Cluster, and
          Namespace     \* its namespace: a DNS label each

VARIABLES up, rooted

ASSUME ClientAssumption == Client \in {"Kube", "Reqwest"}

\* A host is the sequence of its labels.  Both controllers write
\* http://{cluster_name}-surrealdb.{cluster_ns}.svc.cluster.local:8000/sql
Host == <<ServiceName, Namespace, "svc", "cluster", "local">>
Port == 8000

NoTarget == <<>>

PostWantsFourMore(host, port) ==
  IF Len(host) - 2 > 3 /\ port # 80 THEN <<host[1], host[2], port>> ELSE NoTarget

\* The Service, namespace and port that post addresses through the proxy, where
\* the host has more than two labels after the namespace.  Url::port() leaves
\* out the default port of http.
Post(host, port) ==
  IF Len(host) - 2 > 2 /\ port # 80 THEN <<host[1], host[2], port>> ELSE NoTarget

\* Client::Reqwest sends to the URL as it is.
Delivered == Client = "Reqwest" \/ Post(Host, Port) = <<ServiceName, Namespace, Port>>

\* What held of the Cluster that was read: what holds now, and once that was
\* withdrawn it may be so or not.
AsRead(now, fresh) == IF fresh THEN {now} ELSE BOOLEAN

\* Whether SurrealDB knows the root user of the credentials that were read.
Known(fresh) == AsRead(rooted, fresh)

\* SurrealDB carries out a statement of the root user, and refuses one of a
\* user it does not know.
Executed(known) == Delivered /\ up /\ known

\* send has an answer to return Ok for.  request_text makes an Err of an HTTP
\* status of 400 and above; execute does not look at the status.
Succeeds(known) == Delivered /\ up /\ (known \/ Client = "Reqwest")
=============================================================================
