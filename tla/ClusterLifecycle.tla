-------------------------- MODULE ClusterLifecycle --------------------------
(***************************************************************************)
(* What the Cluster controller promises about a Cluster: the order of its  *)
(* phases and what has to be there before each, how access to SurrealDB    *)
(* opens for the bootstrap and closes again, and what goes in which order  *)
(* when it is deleted.  No reconcile, no cache and no failed request is    *)
(* left in it; ClusterController implements it (ClusterRefinement).        *)
(*                                                                         *)
(*   stage    "gone", "live" or "deleting"                                 *)
(*   phase    status.phase                                                 *)
(*   named    spec.rootSecret is set                                       *)
(*   root     the root user SurrealDB has: "nobody", the one of the Secret *)
(*            it names ("ours"), or one with another password              *)
(*   access   how the Deployment serves: "none", "creation" (open), "auth" *)
(***************************************************************************)
VARIABLES stage, phase, named, root, access

lifecycle == <<stage, phase, named, root, access>>

InService == {"InProgress", "Ready", "NotReady"}

\* Storage outlives the Clusters that use it.
Kept == {"ours", "another"}

Init == stage = "gone" /\ phase = "New" /\ named = FALSE /\ root = "nobody" /\ access = "none"

-----------------------------------------------------------------------------
(* Phases.  A reconcile may still write one when the Cluster is deleted.   *)

Advance(from, to, ready) ==
  /\ stage # "gone" /\ phase \in from /\ ready
  /\ phase' = to
  /\ UNCHANGED <<stage, named, root, access>>

Prepare == Advance({"New", "Error"}, "Preparing", named)
Launch == Advance({"New", "Preparing", "Error"}, "InCreation", named)
EnterService == Advance({"InCreation", "Error"}, "InProgress", root # "nobody")
ReportReady == Advance({"InProgress", "NotReady"}, "Ready", root # "nobody")
ReportNotReady == Advance({"InProgress", "Ready"}, "NotReady", root # "nobody")
Fail == Advance({"New", "Preparing", "InCreation"}, "Error", TRUE)

-----------------------------------------------------------------------------
(* The root user and the Deployment.                                       *)

\* Before it is prepared; the user that SurrealDB kept from an earlier Cluster of
\* that name may turn out to be the one.  The generated Secret may replace one a
\* user names meanwhile.
NameRootSecret == /\ stage # "gone" /\ phase \in {"New", "Error"}
                  /\ named' = TRUE
                  /\ root' \in IF root = "nobody" THEN {"nobody"} ELSE Kept
                  /\ UNCHANGED <<stage, phase, access>>

\* A Cluster written without storage may get one that has a root user.
ChooseStorage == /\ stage # "gone" /\ phase \in {"New", "Error"} /\ root = "nobody"
                 /\ root' \in Kept /\ (root' = "ours" => named)
                 /\ UNCHANGED <<stage, phase, named, access>>

\* Only the open mode lets the root user be made.  One that is there already may
\* be replaced.
DefineRoot == /\ named /\ root # "ours" /\ phase \in {"InCreation", "Error"}
              /\ root' = "ours"
              /\ UNCHANGED <<stage, phase, named, access>>

\* Access is never opened to a Cluster that is or was in service, nor before
\* the controller can tell what the root user will be.
Open == /\ access # "creation" /\ named
        /\ phase \in {"Preparing", "InCreation", "Error"}
        /\ access' = "creation"
        /\ UNCHANGED <<stage, phase, named, root>>

\* Closed once the root user is there.  An earlier failure may close it too, and
\* the Cluster can come out of Error meanwhile.
Close == /\ access # "auth"
         /\ root = "ours" \/ phase # "New"
         /\ access' = "auth"
         /\ UNCHANGED <<stage, phase, named, root>>

-----------------------------------------------------------------------------
Create == /\ stage = "gone"
          /\ stage' = "live" /\ phase' = "New"
          /\ named' \in BOOLEAN
          /\ root' \in {"nobody"} \union Kept /\ (root' = "ours" => named')
          /\ UNCHANGED access

Delete == /\ stage = "live"
          /\ stage' = "deleting"
          /\ UNCHANGED <<phase, named, root, access>>

TakeDown == /\ stage # "live" /\ access # "none"
            /\ access' = "none"
            /\ UNCHANGED <<stage, phase, named, root>>

\* With the Cluster goes its root Secret, and so the way to log in; SurrealDB
\* goes first.
ForgetRoot == /\ stage = "deleting" /\ access = "none" /\ root = "ours"
              /\ root' = "another"
              /\ UNCHANGED <<stage, phase, named, access>>

\* Unless somebody else makes one with the password SurrealDB has.
FindRoot == /\ stage = "deleting" /\ root = "another"
            /\ root' = "ours"
            /\ UNCHANGED <<stage, phase, named, access>>

\* At once while the controller has not taken hold of the Cluster, otherwise
\* when nothing serves any more.
Release == /\ \/ stage = "deleting" /\ access = "none"
              \/ stage = "live" /\ phase = "New"
           /\ stage' = "gone" /\ phase' = "New" /\ named' = FALSE /\ root' = "nobody"
           /\ UNCHANGED access

Next == \/ Create \/ Delete \/ TakeDown \/ ForgetRoot \/ FindRoot \/ Release
        \/ Prepare \/ Launch \/ EnterService \/ ReportReady \/ ReportNotReady \/ Fail
        \/ NameRootSecret \/ ChooseStorage \/ DefineRoot \/ Open \/ Close

Spec == Init /\ [][Next]_lifecycle
=============================================================================
