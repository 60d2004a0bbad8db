------------------------------ MODULE Discovery -----------------------------
(***************************************************************************)
(* Which groups the nodes of a cluster form, and what their children are   *)
(* told to do: pkg/upgrade/discovery.go, ResolveStrategy and what          *)
(* buildDesiredChild decides beside the target version and the hold, which *)
(* are in KubernetesUpgrade.                                               *)
(*                                                                         *)
(* Nodes are the sequence the API server lists.  A field that may be unset *)
(* is a set: {} or {value}.                                                *)
(***************************************************************************)
EXTENDS Integers, Sequences

KnownProvider ==
    {"Kubeadm", "AWSEKSManagedNodeGroup", "AWSAutoScalingGroup", "LinodeLKE", "Generic"}

Optional(S) == {{}} \cup {{x} : x \in S}

(* What is read of a Node: whether the scope's selector matches it, either *)
(* control-plane label, the provider-override annotation, the prefix of    *)
(* its providerID, and the labels of an EKS node group and of an LKE pool. *)
NodeInfo ==
    [inScope : BOOLEAN, controlPlane : BOOLEAN, override : Optional(STRING),
     providerID : {"", "aws", "linode", "other"},
     eksNodeGroup : Optional(STRING), lkePool : Optional(STRING)]

classifyRole(node) == IF node.controlPlane THEN "ControlPlane" ELSE "Worker"

(* The annotation counts only if it names a provider.                      *)
Annotated(node) == node.override \cap KnownProvider # {}

classifyProvider(node) ==
    CASE Annotated(node) -> CHOOSE p \in KnownProvider : p \in node.override
      [] ~Annotated(node) /\ node.providerID = "aws" ->
           IF node.eksNodeGroup # {} THEN "AWSEKSManagedNodeGroup" ELSE "AWSAutoScalingGroup"
      [] ~Annotated(node) /\ node.providerID = "linode" ->
           IF node.lkePool # {} THEN "LinodeLKE" ELSE "Generic"
      [] ~Annotated(node) /\ node.providerID = "" -> "Kubeadm"
      [] ~Annotated(node) /\ node.providerID = "other" -> "Generic"

(* An AWS instance outside of EKS is only guessed to be in a scaling group.*)
Heuristic(node) ==
    ~Annotated(node) /\ node.providerID = "aws" /\ node.eksNodeGroup = {}

(* Without a label, or with an empty one, a worker is one of "workers".    *)
sanitizeGroupName(label) ==
    IF label \in {{}, {""}} THEN "workers" ELSE CHOOSE s \in label : TRUE

groupName(node) ==
    IF classifyRole(node) = "ControlPlane" THEN "control-plane"
    ELSE CASE classifyProvider(node) = "AWSEKSManagedNodeGroup" ->
                sanitizeGroupName(node.eksNodeGroup)
           [] classifyProvider(node) = "LinodeLKE" -> sanitizeGroupName(node.lkePool)
           [] OTHER -> "workers"

-----------------------------------------------------------------------------
(* DiscoverGroups.                                                         *)

Members(nodes, name) ==
    {i \in DOMAIN nodes : nodes[i].inScope /\ groupName(nodes[i]) = name}

GroupNames(nodes) == {groupName(nodes[i]) : i \in {j \in DOMAIN nodes : nodes[j].inScope}}

First(nodes, name) ==
    CHOOSE i \in Members(nodes, name) : \A j \in Members(nodes, name) : i <= j

(* The first node listed decides on role and provider; one guess among the *)
(* nodes makes the group a guess.                                          *)
DiscoveredGroup(nodes, name) ==
    [role      |-> classifyRole(nodes[First(nodes, name)]),
     provider  |-> classifyProvider(nodes[First(nodes, name)]),
     heuristic |-> \E i \in Members(nodes, name) : Heuristic(nodes[i])]

-----------------------------------------------------------------------------
(* The strategy and the rest of the child.                                 *)

Override ==
    [strategy : Optional({"InPlace", "Replace"}), acknowledgeReplaceRisk : BOOLEAN,
     batchSize : Optional(Nat), maxUnavailable : Optional(Nat), pause : Optional(BOOLEAN)]

Defaults == [batchSize : Optional(Nat), maxUnavailable : Optional(Nat)]

(* No override is one that sets nothing.                                   *)
NoOverride ==
    [strategy |-> {}, acknowledgeReplaceRisk |-> FALSE,
     batchSize |-> {}, maxUnavailable |-> {}, pause |-> {}]

(* The first of the overrides, pairs of a group's name and what it says.   *)
findOverride(overrides, name) ==
    LET of == {i \in DOMAIN overrides : overrides[i][1] = name}
    IN  IF of = {} THEN NoOverride
        ELSE overrides[CHOOSE i \in of : \A j \in of : i <= j][2]

defaultStrategyForProvider(provider) ==
    IF provider \in {"AWSEKSManagedNodeGroup", "LinodeLKE", "AWSAutoScalingGroup"}
    THEN "Replace" ELSE "InPlace"

isStrategyAllowedForProvider(provider, strategy, acknowledged) ==
    /\ provider \in {"AWSEKSManagedNodeGroup", "LinodeLKE"} => strategy = "Replace"
    /\ provider = "Generic" /\ strategy = "Replace" => acknowledged

ResolveStrategy(group, override) ==
    IF group.role = "ControlPlane" THEN "InPlace"
    ELSE IF \E s \in override.strategy :
              isStrategyAllowedForProvider(group.provider, s, override.acknowledgeReplaceRisk)
    THEN CHOOSE s \in override.strategy : TRUE
    ELSE defaultStrategyForProvider(group.provider)

(* At most one of the two limits is passed on.                             *)
Limits(group, override, defaults) ==
    LET limits(b, m) == [batchSize |-> b, maxUnavailable |-> m]
    IN  IF group.role = "ControlPlane" THEN limits({1}, {})
        ELSE IF override.batchSize # {} THEN limits(override.batchSize, {})
        ELSE IF override.maxUnavailable # {} THEN limits({}, override.maxUnavailable)
        ELSE IF defaults.batchSize # {} THEN limits(defaults.batchSize, {})
        ELSE limits({}, defaults.maxUnavailable)

(* A guess that nobody has confirmed with a strategy is paused.            *)
ForcePause(group, override) == group.heuristic /\ override.strategy = {}

buildDesiredChild(group, override, defaults) ==
    [role     |-> group.role,
     provider |-> group.provider,
     strategy |-> ResolveStrategy(group, override),
     limits   |-> Limits(group, override, defaults),
     paused   |-> ForcePause(group, override) \/ TRUE \in override.pause]
=============================================================================
