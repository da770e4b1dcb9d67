------------------------ MODULE ServiceClient_proofs ------------------------
(***************************************************************************)
(* What post makes of the hosts it is given.                               *)
(***************************************************************************)
EXTENDS ServiceClient, TLAPS

\* Of every host <svc>.<ns>.svc.<domain>, whatever the domain of the Kubernetes
\* cluster as long as it has two labels, and every port but 80, post finds the
\* Service, its namespace and the port: the form its error message asks for.
THEOREM PostFindsService ==
  ASSUME NEW Label, NEW svc \in Label, NEW ns \in Label, NEW kind \in Label,
         NEW domain \in Seq(Label), Len(domain) >= 2, NEW port \in Nat \ {80}
  PROVE  Post(<<svc, ns, kind>> \o domain, port) = <<svc, ns, port>>
<1> DEFINE host == <<svc, ns, kind>> \o domain
<1>1. Len(host) = 3 + Len(domain)
  OBVIOUS
<1>2. host[1] = svc /\ host[2] = ns
  OBVIOUS
<1>3. Len(domain) \in Nat
  OBVIOUS
<1> QED BY <1>1, <1>2, <1>3 DEF Post

\* A single label after the namespace's "svc" is refused, though the message
\* allows any domain; and so is port 80, which the URL does not spell out.
THEOREM PostRefuses ==
  ASSUME NEW Label, NEW svc \in Label, NEW ns \in Label, NEW kind \in Label,
         NEW domain \in Seq(Label), NEW port \in Nat, Len(domain) < 2 \/ port = 80
  PROVE  Post(<<svc, ns, kind>> \o domain, port) = NoTarget
<1> DEFINE host == <<svc, ns, kind>> \o domain
<1>1. Len(host) = 3 + Len(domain) /\ Len(domain) \in Nat
  OBVIOUS
<1> QED BY <1>1 DEF Post

\* So every statement of the Database and the User controller goes to the
\* Service of the Cluster, over either client.
THEOREM StatementsDelivered == Delivered
<1>1. Len(Host) = 5 /\ Host[1] = ServiceName /\ Host[2] = Namespace
  BY DEF Host
<1>2. Port \in Nat \ {80}
  BY DEF Port
<1> QED BY <1>1, <1>2 DEF Delivered, Post
=============================================================================
