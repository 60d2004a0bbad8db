------------------------- MODULE FleetUpgradeProofs -------------------------
(***************************************************************************)
(* The promise of FleetUpgrade for every fleet, every mix of starting      *)
(* versions and every target.                                              *)
(***************************************************************************)
EXTENDS FleetUpgrade, K8sVersionProofs

(* The inductive invariant: the plan climbs to the target; no node is      *)
(* behind the version the current hop starts from; and a node beyond the   *)
(* current hop is where it was at the start.                               *)
InStep ==
    plan # << >> =>
        /\ Climbs(plan, plan[1].from, TargetVersion)
        /\ \A n \in Node : AtLeast(version[n], plan[hop].from)
        /\ \A n \in Node : version[n] = start[n] \/ AtLeast(HopTarget, version[n])

Unplanned == plan = << >> => version = start

FleetInv == TypeOK /\ InStep /\ Unplanned /\ FinishedAtTarget

LEMMA InitFleetInv == Init => FleetInv
<1>. SUFFICES ASSUME Init PROVE FleetInv
  OBVIOUS
<1>1. version \in [Node -> Version] /\ plan = << >>
  BY FleetAssumption DEF Init
<1>2. plan \in Seq([from : Version, to : Version])
  BY <1>1
<1>. QED
  BY <1>1, <1>2 DEF Init, FleetInv, TypeOK, InStep, Unplanned, FinishedAtTarget

LEMMA ElementInSet ==
    \A S : \A s \in Seq(S) : \A i \in 1..Len(s) : s[i] \in S
OBVIOUS

(* The facts about a plan in force that every step uses. *)
LEMMA PlanFacts ==
    ASSUME FleetInv, plan # << >>
    PROVE  /\ hop \in 1..Len(plan)
           /\ plan[hop].from \in Version /\ HopTarget \in Version
           /\ WithinOneMinor(plan[hop].from, HopTarget)
           /\ plan[Len(plan)].to = TargetVersion
           /\ hop < Len(plan) => /\ hop + 1 \in 1..Len(plan)
                                 /\ plan[hop + 1].from = HopTarget
                                 /\ plan[hop + 1].to \in Version
                                 /\ Before(HopTarget, plan[hop + 1].to)
<1>1. plan \in Seq([from : Version, to : Version]) /\ hop \in 1..Len(plan)
  BY DEF FleetInv, TypeOK
<1>2. \A i \in 1..Len(plan) : plan[i].from \in Version /\ plan[i].to \in Version
  <2>. TAKE i \in 1..Len(plan)
  <2>1. plan[i] \in [from : Version, to : Version]
    BY <1>1, ElementInSet
  <2>. QED BY <2>1
<1>3. Climbs(plan, plan[1].from, TargetVersion)
  BY DEF FleetInv, InStep
<1>4. hop < Len(plan) => hop + 1 \in 1..Len(plan) /\ hop \in 1..(Len(plan) - 1)
  BY <1>1
<1>. QED BY <1>1, <1>2, <1>3, <1>4 DEF Climbs, HopTarget

LEMMA MakePlanInv == FleetInv /\ MakePlan => FleetInv'
<1>. SUFFICES ASSUME FleetInv, MakePlan PROVE FleetInv'
  OBVIOUS
<1>. DEFINE S   == {version[n] : n \in Node}
            old == OldestVersion(S)
            p   == ComputeStepPlan(old, TargetVersion, FALSE)
<1>1. S \in SUBSET Version /\ S # {}
  BY FleetAssumption DEF FleetInv, TypeOK
<1>2. old \in Version /\ \A n \in Node : AtLeast(version[n], old)
  BY <1>1, OldestVersionIsOldest
<1>3. /\ p.ok /\ plan' = p.steps /\ finished' = (p.steps = << >>)
      /\ version' = version /\ start' = start /\ hop' = hop /\ hop = 1
      /\ version = start
  BY DEF MakePlan, FleetInv, TypeOK, Unplanned
<1>. HIDE DEF S, old, p
<1>4. CASE old = TargetVersion
  <2>1. p.steps = << >>
    BY <1>4 DEF p, ComputeStepPlan, Plan
  <2>. QED BY <1>2, <1>3, <1>4, <2>1
           DEF FleetInv, TypeOK, InStep, Unplanned, FinishedAtTarget
<1>5. CASE old # TargetVersion
  <2>1. Climbs(p.steps, old, TargetVersion)
    BY <1>2, <1>3, <1>5, FleetAssumption, ComputeStepPlanClimbs DEF p
  <2>2. /\ plan' \in Seq([from : Version, to : Version]) /\ plan' # << >>
        /\ plan'[1].from = old /\ 1 \in 1..Len(plan')
    BY <2>1, <1>3 DEF Climbs
  <2>3. TypeOK'
    BY <1>3, <2>2 DEF FleetInv, TypeOK
  <2>4. InStep'
    BY <1>2, <1>3, <2>1, <2>2 DEF InStep
  <2>5. Unplanned' /\ FinishedAtTarget'
    BY <1>3, <2>2 DEF Unplanned, FinishedAtTarget
  <2>. QED BY <2>3, <2>4, <2>5 DEF FleetInv
<1>. QED BY <1>4, <1>5

LEMMA UpgradeNodeInv ==
    ASSUME FleetInv, NEW m \in Node, UpgradeNode(m)
    PROVE  FleetInv'
<1>1. PICK v \in {HopTarget, NextGroupTarget(version[m], HopTarget)} :
          WithinOneMinor(version[m], v) /\ version' = [version EXCEPT ![m] = v]
  BY DEF UpgradeNode
<1>2. /\ plan # << >> /\ Before(version[m], HopTarget) /\ ~finished
      /\ start' = start /\ plan' = plan /\ hop' = hop /\ finished' = finished
  BY DEF UpgradeNode
<1>3. /\ version \in [Node -> Version] /\ HopTarget \in Version
      /\ plan[hop].from \in Version
  BY <1>2, PlanFacts DEF FleetInv, TypeOK
<1>4. SameMajor(version[m], HopTarget)
  <2>1. AtLeast(version[m], plan[hop].from) /\ WithinOneMinor(plan[hop].from, HopTarget)
    BY <1>2, PlanFacts DEF FleetInv, InStep
  <2>. QED BY <2>1, <1>2, <1>3
           DEF SameMajor, WithinOneMinor, AtLeast, Before, Version
<1>5. v \in Version /\ AtLeast(HopTarget, v) /\ AtLeast(v, version[m])
  <2>1. CASE v = HopTarget
    BY <2>1, <1>2, <1>3, BeforeAtLeast DEF AtLeast, Before, Version
  <2>2. CASE v = NextGroupTarget(version[m], HopTarget)
    BY <2>2, <1>2, <1>3, <1>4, NextGroupTargetType, NextGroupTargetProgress,
       NextGroupTargetNeverBackward
  <2>. QED BY <1>1, <2>1, <2>2
<1>6. TypeOK'
  BY <1>1, <1>2, <1>3, <1>5 DEF FleetInv, TypeOK
<1>7. InStep'
  <2>1. AtLeast(v, plan[hop].from)
    <3>1. AtLeast(version[m], plan[hop].from)
      BY <1>2 DEF FleetInv, InStep
    <3>. QED BY <3>1, <1>3, <1>5, AtLeastTransitive
  <2>. QED BY <1>1, <1>2, <1>3, <1>5, <2>1 DEF FleetInv, InStep, HopTarget
<1>8. Unplanned' /\ FinishedAtTarget'
  BY <1>2 DEF Unplanned, FinishedAtTarget
<1>. QED BY <1>6, <1>7, <1>8 DEF FleetInv

LEMMA AdvanceHopInv == FleetInv /\ AdvanceHop => FleetInv'
<1>. SUFFICES ASSUME FleetInv, AdvanceHop PROVE FleetInv'
  OBVIOUS
<1>1. /\ plan # << >> /\ plan' = plan /\ version' = version /\ start' = start
      /\ \A n \in Node : AtLeast(version[n], HopTarget)
  BY DEF AdvanceHop, ReachedHop
<1>2. CASE hop < Len(plan)
  <2>1. hop' = hop + 1 /\ finished' = finished
    BY <1>2 DEF AdvanceHop, MoreHops
  <2>2. TypeOK'
    BY <1>1, <1>2, <2>1, PlanFacts DEF FleetInv, TypeOK
  <2>3. \A n \in Node : version'[n] = start'[n] \/ AtLeast(HopTarget', version'[n])
    <3>. SUFFICES ASSUME NEW n \in Node, version[n] # start[n]
                  PROVE  AtLeast(plan[hop + 1].to, version[n])
      BY <1>1, <2>1 DEF HopTarget
    <3>1. AtLeast(HopTarget, version[n]) /\ version[n] \in Version
      BY <1>1 DEF FleetInv, InStep, TypeOK
    <3>2. AtLeast(plan[hop + 1].to, HopTarget)
      BY <1>1, <1>2, PlanFacts, BeforeAtLeast
    <3>. QED BY <1>1, <1>2, <3>1, <3>2, PlanFacts, AtLeastTransitive
  <2>4. \A n \in Node : AtLeast(version'[n], plan'[hop'].from)
    BY <1>1, <1>2, <2>1, PlanFacts
  <2>5. InStep'
    BY <1>1, <2>3, <2>4 DEF FleetInv, InStep
  <2>6. Unplanned' /\ FinishedAtTarget'
    BY <1>1, <2>1 DEF AdvanceHop, Unplanned, FinishedAtTarget
  <2>. QED BY <2>2, <2>5, <2>6 DEF FleetInv
<1>3. CASE ~(hop < Len(plan))
  <2>1. hop' = hop /\ finished' = TRUE /\ hop = Len(plan)
    BY <1>1, <1>3, PlanFacts DEF AdvanceHop, MoreHops
  <2>2. \A n \in Node : AtLeast(version'[n], TargetVersion)
    BY <1>1, <2>1, PlanFacts DEF HopTarget
  <2>3. TypeOK' /\ Unplanned'
    BY <1>1, <2>1 DEF FleetInv, TypeOK, Unplanned
  <2>4. InStep'
    BY <1>1, <2>1 DEF FleetInv, InStep, HopTarget
  <2>. QED BY <2>2, <2>3, <2>4 DEF FleetInv, FinishedAtTarget
<1>. QED BY <1>2, <1>3

LEMMA NextFleetInv == FleetInv /\ [Next]_vars => FleetInv'
<1>. SUFFICES ASSUME FleetInv, [Next]_vars PROVE FleetInv'
  OBVIOUS
<1>1. CASE MakePlan
  BY <1>1, MakePlanInv
<1>2. CASE \E n \in Node : UpgradeNode(n)
  BY <1>2, UpgradeNodeInv
<1>3. CASE AdvanceHop
  BY <1>3, AdvanceHopInv
<1>4. CASE UNCHANGED vars
  BY <1>4 DEF vars, FleetInv, TypeOK, InStep, HopTarget, Unplanned, FinishedAtTarget
<1>. QED BY <1>1, <1>2, <1>3, <1>4 DEF Next

LEMMA FleetInvOneMinorApart == FleetInv => OneMinorApart
<1>. SUFFICES ASSUME FleetInv, NEW m \in Node, NEW n \in Node,
                     version[n] # start[n], Before(version[m], version[n])
              PROVE  WithinOneMinor(version[m], version[n])
  BY DEF OneMinorApart
<1>1. plan # << >>
  BY DEF FleetInv, Unplanned
<1>2. version[m] \in Version /\ version[n] \in Version
  BY DEF FleetInv, TypeOK
<1>3. AtLeast(version[m], plan[hop].from) /\ AtLeast(HopTarget, version[n])
  BY <1>1 DEF FleetInv, InStep
<1>. QED BY <1>1, <1>2, <1>3, PlanFacts, OneMinorRange

(* For every fleet: the types hold, and the hop index never leaves the     *)
(* plan that reconcilePostchecks and reconcileDiscovering index with it.   *)
THEOREM FleetTypeCorrect == Spec => []TypeOK
<1>1. FleetInv => TypeOK
  BY DEF FleetInv
<1>. QED BY <1>1, InitFleetInv, NextFleetInv, PTL DEF Spec

(* For every fleet: no node the upgrade has moved gets more than one minor *)
(* ahead of a node behind it.                                              *)
THEOREM FleetStaysTogether == Spec => []OneMinorApart
BY InitFleetInv, NextFleetInv, FleetInvOneMinorApart, PTL DEF Spec

(* For every fleet: Complete is reported only at the requested version.    *)
THEOREM FleetFinishesAtTarget == Spec => []FinishedAtTarget
<1>1. FleetInv => FinishedAtTarget
  BY DEF FleetInv
<1>. QED BY <1>1, InitFleetInv, NextFleetInv, PTL DEF Spec
=============================================================================
