------------------------ MODULE MCClusterController ------------------------
(* Instances of ClusterController for TLC.                                 *)
EXTENDS ClusterRefinement, ClusterInvariants

OneProcess == {"c1"}

\* A rolling update of the controller's Deployment starts the new pod before
\* it stops the old one.
Overlapping == {"c1", "c2"}

\* What the ClusterRole of the chart grants with tidbController.enabled.
ChartVerbs == {"get", "create"}

AllVerbs == {"get", "create", "delete"}

AllBackends == {"none", "tidb", "secret", "both"}
=============================================================================
