--------------------------- MODULE ClusterService ---------------------------
(***************************************************************************)
(* What a Cluster offers those that use it, whatever its controller does   *)
(* to that end: the abstract specification that the controllers of         *)
(* Databases and Users are composed with, and that the Cluster controller  *)
(* implements (ClusterRefinement).                                         *)
(*                                                                         *)
(*   stored   the Cluster has storage                                      *)
(*   named    the Cluster names its root Secret, which can be read         *)
(*   up       SurrealDB answers                                            *)
(*   rooted   SurrealDB knows the root user of that Secret                 *)
(***************************************************************************)
VARIABLES stored, named, up, rooted

service == <<stored, named, up, rooted>>

Init == stored \in BOOLEAN /\ named = FALSE /\ up = FALSE /\ rooted = FALSE

\* Storage kept from an earlier Cluster of that name may know the root user
\* already, and a user may choose it before or after the Secret.
ChooseStorage == /\ ~stored
                 /\ stored' = TRUE /\ rooted' \in {FALSE, named}
                 /\ UNCHANGED <<named, up>>

NameRootSecret == /\ ~named
                  /\ named' = TRUE /\ stored' \in {stored, TRUE}
                  /\ rooted' \in {FALSE, stored'}
                  /\ UNCHANGED up

Serve == ~up /\ up' = TRUE /\ stored' = stored /\ UNCHANGED <<named, rooted>>

\* The root user is made for the Secret that is named, by a server that answers.
Bootstrap == /\ named /\ up /\ ~rooted
             /\ rooted' = TRUE
             /\ stored' = stored /\ UNCHANGED <<named, up>>

\* Storage and credentials outlive the pods.
Outage == up /\ up' = FALSE /\ stored' = stored /\ UNCHANGED <<named, rooted>>

\* The Cluster goes, or its Secret, or another is named in its place.
Withdraw == /\ stored \/ named
            /\ stored' \in {FALSE, stored} /\ named' \in {FALSE, named}
            /\ rooted' = FALSE
            /\ UNCHANGED up

Next == ChooseStorage \/ NameRootSecret \/ Serve \/ Bootstrap \/ Outage \/ Withdraw

Spec == Init /\ [][Next]_service
=============================================================================
