------------------------ MODULE MCKubernetesUpgrade -------------------------
(* Instances of KubernetesUpgrade for TLC: group 1 is the control plane,   *)
(* groups 2 and 3 are workers.                                             *)
EXTENDS KubernetesUpgrade, TLC

v27  == V(1, 27, 3)
v28  == V(1, 28, 0)
v28p == V(1, 28, 4)
v29  == V(1, 29, 0)

All(S, x) == [e \in S |-> x]

RoleOf      == [g \in Group |-> IF g = 1 THEN "ControlPlane" ELSE "Worker"]
Kubeadm     == All(Group, "Kubeadm")
InPlaceOnly == All(Group, "InPlace")
NoBatchSize == All(Group, 0)
NoLimit     == All(Group, [kind |-> "unset", value |-> 0])
NoPods      == All(Node, {})

(* One control-plane node and one worker; two and one; three and two       *)
(* groups of one worker.                                                   *)
TwoNodes    == 1 :> 1 @@ 2 :> 2
ThreeNodes  == 1 :> 1 @@ 2 :> 1 @@ 3 :> 2
ThreeAndTwo == 1 :> 1 @@ 2 :> 1 @@ 3 :> 1 @@ 4 :> 2 @@ 5 :> 3

AllAt27     == {All(Node, v27)}

(* The first control-plane node possibly at or past the target already.    *)
HalfWay     == {[All(Node, v27) EXCEPT ![1] = v] : v \in {v27, v28, v28p}}

(* Nodes behind and past the first of two hops. *)
MixedFleet  == [Node -> {v27, v28p}]

To28    == {v27, v28, v28p}
To29    == {v27, v28, v28p, v29}
=============================================================================
