-------------------------- MODULE DiscoveryProofs ---------------------------
(***************************************************************************)
(* What discovery and buildDesiredChild guarantee for every cluster, in    *)
(* whatever order its nodes are listed, and for every override.            *)
(***************************************************************************)
EXTENDS Discovery, K8sVersionProofs

(* The first node listed of a group is a node of the group.                *)
LEMMA FirstIsMember ==
    ASSUME NEW nodes \in Seq(NodeInfo), NEW name, Members(nodes, name) # {}
    PROVE  First(nodes, name) \in Members(nodes, name)
<1>1. Members(nodes, name) \in SUBSET Nat
  BY DEF Members
<1>2. \E i \in Members(nodes, name) : \A j \in Members(nodes, name) : i <= j
  BY <1>1, LeastNatural
<1>. QED BY <1>2 DEF First

LEMMA StrategyOverride ==
    ASSUME NEW override \in Override
    PROVE  \/ override.strategy = {}
           \/ \E s \in {"InPlace", "Replace"} : override.strategy = {s}
BY DEF Override, Optional

(* Whatever a user asks for, control-plane nodes are upgraded in place and *)
(* one at a time, as long as no cloud pool of workers is named like them.  *)
THEOREM ControlPlanePinned ==
    ASSUME NEW nodes \in Seq(NodeInfo),
           NEW i \in DOMAIN nodes, nodes[i].inScope, nodes[i].controlPlane,
           \A j \in Members(nodes, "control-plane") : nodes[j].controlPlane,
           NEW override \in Override, NEW defaults \in Defaults
    PROVE  LET child == buildDesiredChild(
                          DiscoveredGroup(nodes, groupName(nodes[i])), override, defaults)
           IN  child.strategy = "InPlace" /\ child.limits.batchSize = {1}
<1>1. groupName(nodes[i]) = "control-plane"
  BY DEF groupName, classifyRole
<1>2. i \in Members(nodes, "control-plane")
  BY <1>1 DEF Members
<1>3. nodes[First(nodes, "control-plane")].controlPlane
  BY <1>2, FirstIsMember
<1>4. DiscoveredGroup(nodes, groupName(nodes[i])).role = "ControlPlane"
  BY <1>1, <1>3 DEF DiscoveredGroup, classifyRole
<1>. QED BY <1>4 DEF buildDesiredChild, ResolveStrategy, Limits

(* A group fails closed: if the provider of any of its nodes is only       *)
(* guessed, and no strategy was asked for, its child is paused, also when  *)
(* another node decides on the provider.                                   *)
THEOREM GuessFailsClosed ==
    ASSUME NEW nodes \in Seq(NodeInfo),
           NEW i \in DOMAIN nodes, nodes[i].inScope, Heuristic(nodes[i]),
           NEW override \in Override, override.strategy = {}, NEW defaults \in Defaults
    PROVE  buildDesiredChild(DiscoveredGroup(nodes, groupName(nodes[i])),
                             override, defaults).paused
<1>1. i \in Members(nodes, groupName(nodes[i]))
  BY DEF Members
<1>2. DiscoveredGroup(nodes, groupName(nodes[i])).heuristic
  BY <1>1 DEF DiscoveredGroup
<1>. QED BY <1>2 DEF buildDesiredChild, ForcePause

(* Nodes are replaced only if a cloud's API replaces them or an override   *)
(* asks for it, which for generic nodes, where nobody can tell whether     *)
(* they come back, takes an acknowledgement.                               *)
THEOREM ReplaceNeedsCause ==
    ASSUME NEW group, group.provider \in KnownProvider,
           NEW override \in Override,
           ResolveStrategy(group, override) = "Replace"
    PROVE  /\ group.role # "ControlPlane"
           /\ \/ group.provider \in {"AWSEKSManagedNodeGroup", "LinodeLKE", "AWSAutoScalingGroup"}
              \/ /\ override.strategy = {"Replace"}
                 /\ group.provider = "Generic" => override.acknowledgeReplaceRisk
<1>1. group.role # "ControlPlane"
  BY DEF ResolveStrategy
<1>2. CASE override.strategy = {}
  BY <1>1, <1>2 DEF ResolveStrategy, defaultStrategyForProvider
<1>3. ASSUME NEW s \in {"InPlace", "Replace"}, override.strategy = {s}
      PROVE  \/ group.provider \in {"AWSEKSManagedNodeGroup", "LinodeLKE", "AWSAutoScalingGroup"}
             \/ /\ override.strategy = {"Replace"}
                /\ group.provider = "Generic" => override.acknowledgeReplaceRisk
  <2>1. (CHOOSE x \in override.strategy : TRUE) = s
    BY <1>3
  <2>2. CASE isStrategyAllowedForProvider(group.provider, s, override.acknowledgeReplaceRisk)
    <3>1. s = "Replace"
      BY <1>1, <1>3, <2>1, <2>2 DEF ResolveStrategy
    <3>. QED BY <1>3, <2>2, <3>1 DEF isStrategyAllowedForProvider
  <2>3. CASE ~isStrategyAllowedForProvider(group.provider, s, override.acknowledgeReplaceRisk)
    BY <1>1, <1>3, <2>3 DEF ResolveStrategy, defaultStrategyForProvider
  <2>. QED BY <2>2, <2>3
<1>. QED BY <1>1, <1>2, <1>3, StrategyOverride

(* What the clouds manage has no way in place, whatever is asked for.      *)
THEOREM ManagedAlwaysReplaced ==
    ASSUME NEW group, group.provider \in {"AWSEKSManagedNodeGroup", "LinodeLKE"},
           group.role # "ControlPlane", NEW override \in Override
    PROVE  ResolveStrategy(group, override) = "Replace"
<1>1. CASE override.strategy = {}
  BY <1>1 DEF ResolveStrategy, defaultStrategyForProvider
<1>2. ASSUME NEW s \in {"InPlace", "Replace"}, override.strategy = {s}
      PROVE  ResolveStrategy(group, override) = "Replace"
  <2>1. (CHOOSE x \in override.strategy : TRUE) = s
    BY <1>2
  <2>. QED BY <1>2, <2>1 DEF ResolveStrategy, defaultStrategyForProvider, isStrategyAllowedForProvider
<1>. QED BY <1>1, <1>2, StrategyOverride
=============================================================================
