------------------------ MODULE MCNodeGroupUpgrade --------------------------
(* Instances of NodeGroupUpgrade for TLC. *)
EXTENDS NodeGroupUpgrade, TLC

v27 == V(1, 27, 3)
v28 == V(1, 28, 0)
v29 == V(1, 29, 1)

All(S, x) == [e \in S |-> x]

OneHop        == {v27, v28}
OneHopTarget  == {v28}
TwoHops       == {v27, v28, v29}
TwoHopTargets == {v28, v29}
AllAt27       == {All(Node, v27)}

WorkerRole  == All(Group, "Worker")
Kubeadm     == All(Group, "Kubeadm")
InPlaceOnly == All(Group, "InPlace")
NoBatchSize == All(Group, 0)
NoLimit     == All(Group, [kind |-> "unset", value |-> 0])
NoPods      == All(Node, {})

(* Workers: three nodes, 67% of which (two) may be down at a time, with a  *)
(* DaemonSet pod, an ordinary pod and a pod behind a disruption budget.    *)
AllWorkers   == All(Node, "workers")
WorkersLimit == All(Group, [kind |-> "percent", value |-> 67])
WorkersPods  == 1 :> {"daemon", "budgeted"} @@ 2 :> {"web"} @@ 3 :> {}

(* A node ahead of the first hop, alone with one behind it, and as the    *)
(* second batch of a group.                                                *)
MixedInit    == {1 :> v27 @@ 2 :> v29}
MixedWorkers == {1 :> v27 @@ 2 :> v27 @@ 3 :> v29}

(* Every other kind of provider: an EKS node group, whose adapter is a     *)
(* stub, and workers with the generic adapter, replaced after somebody has *)
(* acknowledged the risk; they come back at the target, or not, and node 4 *)
(* joins them late.  Node 2 has a NodeGroupUpgrade nobody discovered, with *)
(* a provider nobody registered.                                           *)
ChildGroup    == 1 :> "eks" @@ 2 :> "manual" @@ 3 :> "workers" @@ 4 :> "workers"
ChildProvider == "eks" :> "Stub" @@ "manual" :> "Unregistered" @@ "workers" :> "Generic"
ChildStrategy == All(Group, "Replace")

(* The groups of that instance are the ones discovery makes of the nodes.  *)
D == INSTANCE Discovery

ListedNode(providerID, eksNodeGroup) ==
    [inScope |-> TRUE, controlPlane |-> FALSE, override |-> {},
     providerID |-> providerID, eksNodeGroup |-> eksNodeGroup, lkePool |-> {}]

ListedNodes ==
    <<ListedNode("aws", {"eks"}), [ListedNode("", {}) EXCEPT !.inScope = FALSE],
      ListedNode("other", {}), ListedNode("other", {})>>

Overrides ==
    << <<"workers", [D!NoOverride EXCEPT !.strategy = {"Replace"},
                                         !.acknowledgeReplaceRisk = TRUE]>> >>

Child(g) == D!buildDesiredChild(D!DiscoveredGroup(ListedNodes, g), D!findOverride(Overrides, g),
                                [batchSize |-> {}, maxUnavailable |-> {}])

ASSUME ProvidersAsDiscovered ==
    /\ D!GroupNames(ListedNodes) = {"eks", "workers"}
    /\ \A g \in D!GroupNames(ListedNodes) :
         /\ D!Members(ListedNodes, g) = {n \in 1..4 : ChildGroup[n] = g}
         /\ Child(g).role = "Worker" /\ Child(g).strategy = "Replace" /\ ~Child(g).paused
         /\ ChildProvider[g] = IF Child(g).provider = "Generic" THEN "Generic" ELSE "Stub"
=============================================================================
