----------------------- MODULE KubernetesUpgradeProofs ----------------------
(***************************************************************************)
(* The KubernetesUpgrade controller and its children together, for every   *)
(* cluster, plan and fault: types, the refinement of FleetUpgrade, and for *)
(* upgrades of one hop the order of control plane and workers and what     *)
(* Complete promises.                                                      *)
(***************************************************************************)
EXTENDS KubernetesUpgrade, NodeGroupProgressProofs

-----------------------------------------------------------------------------
(* The invariants of the parent.                                           *)

HopTarget == plan[stepIndex].to

(* The versions of the plan are known, and none is above the request. *)
PlanKnown ==
    \A i \in 1..Len(plan) :
        plan[i].to \in KnownVersion /\ plan[i].to.minor <= Wanted.minor

(* The plan climbs to the request, no node is behind the start of the      *)
(* current hop, and nothing is touched before there is a plan.             *)
OnPlan ==
    /\ plan # << >> => /\ Climbs(plan, plan[1].from, Wanted)
                       /\ \A n \in Node : AtLeast(version[n], plan[stepIndex].from)
    /\ plan = << >> => /\ child = {} /\ discovered = {}
                       /\ kuPhase \in {"", "Discovering", "Complete", "Failed"}
    /\ kuPhase = "Complete" /\ plan # << >> =>
          \A n \in Node : AtLeast(version[n], HopTarget)

(* A child is aimed at the current hop, unless nothing in it is behind its *)
(* target: a target left over from an earlier hop, or a group that was     *)
(* ahead.  So a Job only ever installs the version of the current hop.     *)
Aimed(g) ==
    Target(g) = HopTarget \/ \A n \in Member(g) : AtLeast(version[n], Target(g))

OnTarget ==
    /\ child \subseteq DiscoverGroups \ SkipGroup
    /\ \A g \in child : Aimed(g)

-----------------------------------------------------------------------------
(* Types.                                                                  *)

(* The oldest version of a group that has nodes. *)
LEMMA GroupVersionOldest ==
    ASSUME TypeOK, NEW g \in DiscoverGroups
    PROVE  /\ GroupCurrentVersion(g) \in KnownVersion
           /\ \E n \in LiveMember(g) : GroupCurrentVersion(g) = version[n]
           /\ \A n \in LiveMember(g) : AtLeast(version[n], GroupCurrentVersion(g))
<1>. DEFINE S == {version[n] : n \in LiveMember(g)}
<1>1. \A n \in LiveMember(g) : version[n] \in KnownVersion
  BY DEF TypeOK, LiveMember, Member
<1>2. S \in SUBSET KnownVersion /\ S # {} /\ S \in SUBSET Version
  BY <1>1, VersionAssumption DEF DiscoverGroups
<1>3. OldestVersion(S) \in S /\ \A w \in S : AtLeast(w, OldestVersion(S))
  <2>. HIDE DEF S
  <2>. QED BY <1>2, OldestVersionIsOldest
<1>4. GroupCurrentVersion(g) = OldestVersion(S)
  BY DEF GroupCurrentVersion
<1>. HIDE DEF S
<1>5. GroupCurrentVersion(g) \in S /\ \A w \in S : AtLeast(w, GroupCurrentVersion(g))
  BY <1>3, <1>4
<1>. QED BY <1>2, <1>5 DEF S

LEMMA FleetVersionOldest ==
    ASSUME TypeOK, DiscoverGroups # {}
    PROVE  /\ OldestVersionAcrossGroups \in KnownVersion
           /\ \E g \in DiscoverGroups : OldestVersionAcrossGroups = GroupCurrentVersion(g)
           /\ \A g \in DiscoverGroups :
                 AtLeast(GroupCurrentVersion(g), OldestVersionAcrossGroups)
<1>. DEFINE S == {GroupCurrentVersion(g) : g \in DiscoverGroups}
<1>1. S \in SUBSET KnownVersion /\ S # {} /\ S \in SUBSET Version
  BY GroupVersionOldest, VersionAssumption
<1>2. OldestVersion(S) \in S /\ \A w \in S : AtLeast(w, OldestVersion(S))
  <2>. HIDE DEF S
  <2>. QED BY <1>1, OldestVersionIsOldest
<1>3. OldestVersionAcrossGroups = OldestVersion(S)
  BY DEF OldestVersionAcrossGroups
<1>. HIDE DEF S
<1>4. /\ OldestVersionAcrossGroups \in S
      /\ \A w \in S : AtLeast(w, OldestVersionAcrossGroups)
  BY <1>2, <1>3
<1>. QED BY <1>1, <1>4 DEF S

(* A plan made from a known version. *)
LEMMA StepPlanKnown ==
    ASSUME NEW c \in KnownVersion, NEW s, s = ComputeStepPlan(c, Wanted, FALSE).steps,
           ComputeStepPlan(c, Wanted, FALSE).ok, NEW i \in 1..Len(s)
    PROVE  s[i].to \in KnownVersion /\ s[i].to.minor <= Wanted.minor
<1>1. c \in Version /\ Wanted \in Version /\ Wanted \in KnownVersion
  BY VersionAssumption, UpgradeAssumption
<1>2. Wanted.minor \in Nat /\ c.minor \in Nat /\ Wanted.minor <= Wanted.minor
  BY <1>1 DEF Version
<1>3. CASE c = Wanted
  <2>1. s = << >>
    BY <1>3 DEF ComputeStepPlan, Plan
  <2>2. Len(<< >>) = 0 /\ 1..0 = {}
    OBVIOUS
  <2>. QED BY <2>1, <2>2
<1>4. CASE c # Wanted
  <2>1. ~Before(Wanted, c) /\ SameMajor(c, Wanted)
    BY <1>4 DEF ComputeStepPlan, NoPlan
  <2>2. CASE MinorDiff(c, Wanted) = 0
    <3>1. s = <<Hop(c, Wanted)>>
      BY <1>4, <2>1, <2>2 DEF ComputeStepPlan, Plan
    <3>2. Len(<<Hop(c, Wanted)>>) = 1 /\ <<Hop(c, Wanted)>>[1] = Hop(c, Wanted)
      OBVIOUS
    <3>3. i = 1
      <4>1. i \in 1..Len(<<Hop(c, Wanted)>>)
        BY <3>1
      <4>. QED BY <4>1, <3>2
    <3>4. Hop(c, Wanted).to = Wanted
      BY DEF Hop
    <3>5. s[i].to = Wanted
      BY <3>1, <3>2, <3>3, <3>4
    <3>. QED BY <1>1, <1>2, <3>5
  <2>3. CASE MinorDiff(c, Wanted) # 0
    <3>. DEFINE d == MinorDiff(c, Wanted)
    <3>1. d \in Nat /\ d > 0 /\ d = Wanted.minor - c.minor
      BY <1>1, <2>1, <2>3 DEF MinorDiff, SameMajor, Before, Version
    <3>2. s = MinorHops(c, Wanted)
      BY <1>4, <2>1, <2>3 DEF ComputeStepPlan, Plan
    <3>3. i \in 1..d
      BY <1>1, <3>1, <3>2, MinorHopsLength
    <3>4. s[i].to = HopVersion(c, Wanted, i)
      <4>1. \A a, b : Hop(a, b).to = b
        BY DEF Hop
      <4>2. MinorHops(c, Wanted)[i]
               = Hop(IF i = 1 THEN c ELSE HopVersion(c, Wanted, i - 1),
                     HopVersion(c, Wanted, i))
        BY <3>3 DEF MinorHops
      <4>3. MinorHops(c, Wanted)[i].to = HopVersion(c, Wanted, i)
        BY <4>1, <4>2
      <4>. QED BY <3>2, <4>3
    <3>5. CASE i = d
      <4>1. HopVersion(c, Wanted, i) = Wanted
        BY <3>5 DEF HopVersion
      <4>. QED BY <1>1, <1>2, <3>4, <4>1
    <3>6. CASE i # d
      <4>1. HopVersion(c, Wanted, i) = V(c.major, c.minor + i, 0)
        BY <3>6 DEF HopVersion
      <4>2. /\ c.minor + i \in 0..Wanted.minor
            /\ c.minor < c.minor + i /\ c.minor + i < Wanted.minor
        <5>. HIDE DEF d
        <5>. QED BY <1>2, <3>1, <3>3, <3>6
      <4>3. V(c.major, c.minor + i, 0) \in KnownVersion
        BY <4>2, HopAssumption
      <4>4. s[i].to.minor = c.minor + i
        <5>1. V(c.major, c.minor + i, 0).minor = c.minor + i
          BY DEF V
        <5>. QED BY <3>4, <4>1, <5>1
      <4>5. s[i].to \in KnownVersion
        BY <3>4, <4>1, <4>3
      <4>6. c.minor + i <= Wanted.minor
        BY <1>2, <3>3, <4>2
      <4>. QED BY <4>4, <4>5, <4>6
    <3>. QED BY <3>5, <3>6
  <2>. QED BY <2>2, <2>3
<1>. QED BY <1>3, <1>4

LEMMA NextGroupTargetKnown ==
    ASSUME NEW c \in KnownVersion, NEW h \in KnownVersion, h.minor <= Wanted.minor
    PROVE  NextGroupTarget(c, h) \in KnownVersion
<1>1. c \in Version /\ h \in Version /\ Wanted \in Version
  BY VersionAssumption, UpgradeAssumption
<1>2. c.minor \in Nat /\ h.minor \in Nat /\ Wanted.minor \in Nat
  BY <1>1 DEF Version
<1>3. CASE Before(h, c) \/ MinorDiff(c, h) <= 1
  BY <1>3 DEF NextGroupTarget
<1>4. CASE ~Before(h, c) /\ ~(MinorDiff(c, h) <= 1)
  <2>1. NextGroupTarget(c, h) = V(c.major, c.minor + 1, 0)
    BY <1>4 DEF NextGroupTarget
  <2>2. /\ c.minor + 1 \in 0..Wanted.minor
        /\ c.minor < c.minor + 1 /\ c.minor + 1 < Wanted.minor
    BY <1>2, <1>4 DEF MinorDiff
  <2>. QED BY <2>1, <2>2, HopAssumption
<1>. QED BY <1>3, <1>4

(* The plan of a discovery pass: the one in force, or a new one. *)
LEMMA PlanNowKnown ==
    ASSUME KUTypeOK, PlanKnown, DiscoverGroups # {}
    PROVE  /\ PlanNow.steps \in Seq([from : Version, to : Version])
           /\ PlanNow.ok => \A i \in 1..Len(PlanNow.steps) :
                               /\ PlanNow.steps[i].to \in KnownVersion
                               /\ PlanNow.steps[i].to.minor <= Wanted.minor
           /\ plan # << >> => PlanNow.ok /\ PlanNow.steps = plan
           /\ ~PlanNow.ok => PlanNow.steps = << >>
<1>1. CASE plan # << >>
  <2>1. PlanNow.ok /\ PlanNow.steps = plan
    BY <1>1 DEF PlanNow, Plan
  <2>. QED BY <1>1, <2>1 DEF KUTypeOK, PlanKnown
<1>2. CASE plan = << >>
  <2>. DEFINE c == OldestVersionAcrossGroups
              p == ComputeStepPlan(c, Wanted, FALSE)
  <2>1. c \in KnownVersion /\ c \in Version /\ Wanted \in Version
    BY FleetVersionOldest, VersionAssumption, UpgradeAssumption DEF KUTypeOK
  <2>2. PlanNow = p
    BY <1>2 DEF PlanNow
  <2>3. p.ok => \A i \in 1..Len(p.steps) :
                   p.steps[i].to \in KnownVersion /\ p.steps[i].to.minor <= Wanted.minor
    BY <2>1, StepPlanKnown
  <2>4. ~p.ok => p.steps = << >>
    BY DEF ComputeStepPlan, Plan, NoPlan
  <2>5. c = Wanted => p.steps = << >>
    BY DEF ComputeStepPlan, Plan
  <2>6. p.ok /\ c # Wanted => p.steps \in Seq([from : Version, to : Version])
    BY <2>1, ComputeStepPlanClimbs DEF Climbs
  <2>7. << >> \in Seq([from : Version, to : Version])
    OBVIOUS
  <2>. HIDE DEF c, p
  <2>. QED BY <1>2, <2>2, <2>3, <2>4, <2>5, <2>6, <2>7
<1>. QED BY <1>1, <1>2

(* What a discovery pass does: it reports an upgrade that needs nothing or *)
(* cannot be planned, or it saves a plan and applies the children of S.    *)
NothingToApply ==
    /\ plan = << >> /\ plan' = << >>
    /\ PlanNow.steps = << >>
    /\ kuPhase' = IF PlanNow.ok THEN "Complete" ELSE "Failed"
    /\ UNCHANGED <<childVars, discovered>>

AppliesChildren(S, pruned) ==
    /\ plan' = PlanNow.steps /\ plan' # << >> /\ PlanNow.ok
    /\ S \subseteq DiscoverGroups \ SkipGroup /\ pruned \subseteq PruneCandidates
    /\ spec' = [g \in Group |->
                  IF g \in S THEN DesiredSpec(g, plan'[stepIndex].to) ELSE spec[g]]
    /\ child' = (child \cup S) \ pruned
    /\ status' = [g \in Group |-> IF g \in pruned THEN NoStatus ELSE status[g]]
    /\ \/ /\ kuPhase' = "Prechecks" /\ S = DiscoverGroups \ SkipGroup
          /\ discovered' = DiscoverGroups \ SkipGroup
       \/ kuPhase' = "Discovering" /\ discovered' = discovered

LEMMA DiscoveringEffect ==
    ASSUME KUTypeOK, PlanKnown, ReconcileDiscovering
    PROVE  /\ kuPhase = "Discovering" /\ DiscoverGroups # {}
           /\ UNCHANGED <<clusterVars, stepIndex, start>>
           /\ \/ NothingToApply
              \/ \E S, pruned \in SUBSET Group : AppliesChildren(S, pruned)
<1>. DEFINE p == PlanNow
            apply == DiscoverGroups \ SkipGroup
<1>1. /\ kuPhase = "Discovering" /\ DiscoverGroups # {}
      /\ UNCHANGED <<clusterVars, stepIndex, start>>
      /\ plan' = p.steps
  BY DEF ReconcileDiscovering
<1>2. /\ plan # << >> => p.ok /\ p.steps = plan
      /\ ~p.ok => p.steps = << >>
  BY <1>1, PlanNowKnown
<1>3. CASE ~p.ok \/ p.steps = << >>
  <2>1. /\ kuPhase' = IF p.ok THEN "Complete" ELSE "Failed"
        /\ UNCHANGED <<childVars, discovered>>
    BY <1>3 DEF ReconcileDiscovering
  <2>2. p.steps = << >> /\ plan = << >>
    BY <1>2, <1>3
  <2>. QED BY <1>1, <2>1, <2>2 DEF NothingToApply
<1>4. CASE p.ok /\ p.steps # << >>
  <2>1. PICK S \in {apply} \cup CutShort(apply), lost \in Losses,
             pruned \in SUBSET PruneCandidates :
          /\ spec' = [g \in Group |->
                        IF g \in S THEN DesiredSpec(g, p.steps[stepIndex].to) ELSE spec[g]]
          /\ child' = (child \cup S) \ pruned
          /\ status' = [g \in Group |-> IF g \in pruned THEN NoStatus ELSE status[g]]
          /\ IF S = apply /\ ~lost
             THEN kuPhase' = "Prechecks" /\ discovered' = apply
             ELSE UNCHANGED <<kuPhase, discovered>>
    BY <1>4 DEF ReconcileDiscovering
  <2>2. S \subseteq apply
    BY <2>1 DEF CutShort
  <2>3. apply \subseteq Group /\ PruneCandidates \subseteq Group
    BY DEF DiscoverGroups, PruneCandidates, KUTypeOK, TypeOK
  <2>4. AppliesChildren(S, pruned)
    BY <1>1, <1>4, <2>1, <2>2 DEF AppliesChildren
  <2>. QED BY <1>1, <2>1, <2>2, <2>3, <2>4
<1>. QED BY <1>3, <1>4

LEMMA NoStatusType == NoStatus \in Status
BY VersionAssumption DEF NoStatus, Status, NGPhase, NodePhase

LEMMA StepIndexInPlan ==
    ASSUME KUTypeOK, PlanKnown, DiscoverGroups # {}, PlanNow.ok, PlanNow.steps # << >>
    PROVE  /\ stepIndex \in 1..Len(PlanNow.steps)
           /\ PlanNow.steps[stepIndex].to \in KnownVersion
           /\ PlanNow.steps[stepIndex].to.minor <= Wanted.minor
<1>1. PlanNow.steps \in Seq([from : Version, to : Version])
  BY PlanNowKnown
<1>2. stepIndex \in 1..Len(PlanNow.steps)
  <2>1. CASE plan = << >>
    <3>1. stepIndex = 1
      BY <2>1 DEF KUTypeOK
    <3>2. Len(PlanNow.steps) \in Nat /\ Len(PlanNow.steps) # 0
      BY <1>1
    <3>. QED BY <3>1, <3>2
  <2>2. CASE plan # << >>
    BY <2>2, PlanNowKnown DEF KUTypeOK
  <2>. QED BY <2>1, <2>2
<1>. QED BY <1>2, PlanNowKnown

LEMMA DesiredSpecType ==
    ASSUME TypeOK, NEW g \in DiscoverGroups,
           NEW h \in KnownVersion, h.minor <= Wanted.minor
    PROVE  /\ DesiredSpec(g, h) \in ChildSpec
           /\ DesiredSpec(g, h).target = NextGroupTarget(GroupCurrentVersion(g), h)
           /\ DesiredSpec(g, h).hold
           /\ DesiredSpec(g, h).nodes = Member(g) \cap present
<1>1. NextGroupTarget(GroupCurrentVersion(g), h) \in KnownVersion
  BY GroupVersionOldest, NextGroupTargetKnown
<1>2. spec[g] \in ChildSpec
  BY DEF TypeOK, DiscoverGroups
<1>3. LiveMember(g) \subseteq Node
  BY DEF LiveMember, Member
<1>. QED BY <1>1, <1>2, <1>3 DEF DesiredSpec, ChildSpec, LiveMember

LEMMA DiscoveringType ==
    ASSUME KUTypeOK, PlanKnown, ReconcileDiscovering
    PROVE  KUTypeOK' /\ PlanKnown'
<1>1. /\ DiscoverGroups # {}
      /\ UNCHANGED <<clusterVars, stepIndex, start>>
      /\ \/ NothingToApply
         \/ \E S, pruned \in SUBSET Group : AppliesChildren(S, pruned)
  BY DiscoveringEffect
<1>2. CASE NothingToApply
  BY <1>1, <1>2 DEF NothingToApply, KUTypeOK, TypeOK, PlanKnown, KUPhase, childVars, clusterVars,
                    nodeVars, podVars, jobVars
<1>3. ASSUME NEW S \in SUBSET Group, NEW pruned \in SUBSET Group, AppliesChildren(S, pruned)
      PROVE  KUTypeOK' /\ PlanKnown'
  <2>. DEFINE h == plan'[stepIndex].to
  <2>1. /\ stepIndex \in 1..Len(plan') /\ h \in KnownVersion /\ h.minor <= Wanted.minor
        /\ plan' \in Seq([from : Version, to : Version]) /\ plan' # << >>
    BY <1>1, <1>3, PlanNowKnown, StepIndexInPlan DEF AppliesChildren
  <2>2. PlanKnown'
    BY <1>1, <1>3, PlanNowKnown DEF AppliesChildren, PlanKnown
  <2>3. \A g \in S : DesiredSpec(g, h) \in ChildSpec
    <3>1. S \subseteq DiscoverGroups
      BY <1>3 DEF AppliesChildren
    <3>. HIDE DEF h
    <3>. QED BY <2>1, <3>1, DesiredSpecType DEF KUTypeOK
  <2>4. spec' \in [Group -> ChildSpec]
    <3>1. spec' = [g \in Group |-> IF g \in S THEN DesiredSpec(g, h) ELSE spec[g]]
      BY <1>3 DEF AppliesChildren
    <3>2. \A g \in Group : spec[g] \in ChildSpec
      BY DEF KUTypeOK, TypeOK
    <3>. HIDE DEF h
    <3>. QED BY <2>3, <3>1, <3>2
  <2>5. status' \in [Group -> Status]
    <3>1. status' = [g \in Group |-> IF g \in pruned THEN NoStatus ELSE status[g]]
      BY <1>3 DEF AppliesChildren
    <3>2. \A g \in Group : status[g] \in Status
      BY DEF KUTypeOK, TypeOK
    <3>. QED BY <3>1, <3>2, NoStatusType
  <2>6. /\ child' \subseteq Group /\ discovered' \subseteq Group
        /\ kuPhase' \in KUPhase
    BY <1>3 DEF AppliesChildren, KUTypeOK, TypeOK, DiscoverGroups, KUPhase
  <2>7. TypeOK'
    BY <1>1, <2>4, <2>5, <2>6 DEF KUTypeOK, TypeOK, clusterVars, nodeVars, podVars, jobVars
  <2>. QED BY <1>1, <2>1, <2>2, <2>6, <2>7 DEF KUTypeOK
<1>. QED BY <1>1, <1>2, <1>3

(* The passes of the parent that release children. *)
LEMMA ReleasingEffect ==
    ASSUME KUTypeOK, ReconcileControlPlane \/ ReconcileWorkers
    PROVE  /\ \E S \in SUBSET child : ReleaseHolds(S)
           /\ UNCHANGED <<child, status, clusterVars, plan, stepIndex, discovered, start>>
           /\ kuPhase \in {"ControlPlaneUpgrade", "WorkersUpgrade"}
           /\ kuPhase' \in {"ControlPlaneUpgrade", "WorkersUpgrade", "Postchecks", "Failed"}
<1>1. CASE ReconcileControlPlane
  BY <1>1 DEF ReconcileControlPlane, Children
<1>2. CASE ReconcileWorkers
  <2>. DEFINE workers == Children("Worker")
              failed  == {g \in workers : status[g].phase = "Failed"}
  <2>1. workers \subseteq child
    BY DEF Children
  <2>2. /\ UNCHANGED <<child, status, clusterVars, plan, stepIndex, discovered, start>>
        /\ kuPhase = "WorkersUpgrade"
    BY <1>2 DEF ReconcileWorkers
  <2>3. CASE /\ ReleaseHolds(workers)
             /\ kuPhase' = IF AllComplete(workers) THEN "Postchecks" ELSE kuPhase
    BY <2>1, <2>2, <2>3
  <2>4. CASE /\ \E S \in SUBSET workers :
                   Cardinality(S \cap failed) = 1 /\ ReleaseHolds(S)
             /\ kuPhase' = "Failed"
    BY <2>1, <2>2, <2>4
  <2>5. CASE /\ \E S \in SUBSET (workers \ failed) : ReleaseHolds(S)
             /\ UNCHANGED kuPhase
    BY <2>1, <2>2, <2>5
  <2>. QED BY <1>2, <2>3, <2>4, <2>5 DEF ReconcileWorkers
<1>. QED BY <1>1, <1>2

(* Releasing changes nothing but the hold. *)
LEMMA ReleaseEffect ==
    ASSUME TypeOK, NEW S, ReleaseHolds(S)
    PROVE  /\ spec' \in [Group -> ChildSpec]
           /\ \A g \in Group : /\ spec'[g].target = spec[g].target
                               /\ spec'[g].nodes = spec[g].nodes
                               /\ spec'[g].paused = spec[g].paused
                               /\ g \notin S => spec'[g].hold = spec[g].hold
<1>1. \A g \in Group : spec[g] \in ChildSpec
  BY DEF TypeOK
<1>. QED BY <1>1 DEF ReleaseHolds, ChildSpec

(* The passes that leave the children alone. *)
LEMMA PhaseOnlyKU ==
    ASSUME ReconcilePendingKU \/ ReconcilePrechecks \/ ReconcilePostchecks
    PROVE  /\ UNCHANGED <<vars, plan, discovered, start>>
           /\ kuPhase \in {"", "Prechecks", "Postchecks"}
           /\ kuPhase' \in {"Discovering", "ControlPlaneUpgrade", "WorkersUpgrade", "Complete"}
           /\ stepIndex' = stepIndex \/ (MoreSteps /\ stepIndex' = stepIndex + 1)
<1>1. CASE ReconcilePendingKU
  BY <1>1 DEF ReconcilePendingKU
<1>2. CASE ReconcilePrechecks
  BY <1>2 DEF ReconcilePrechecks
<1>3. CASE ReconcilePostchecks
  BY <1>3 DEF ReconcilePostchecks
<1>. QED BY <1>1, <1>2, <1>3

(* A step that is not the parent's. *)
GroupStep == (\E g \in Group : ReconcileGroup(g) \/ TogglePause(g)) \/ Cluster

LEMMA GroupStepNext == GroupStep => Next
BY DEF GroupStep, Next, Parent

LEMMA NextKUType == KUTypeOK /\ PlanKnown /\ [KUNext]_allVars => KUTypeOK' /\ PlanKnown'
<1>. SUFFICES ASSUME KUTypeOK, PlanKnown, [KUNext]_allVars
              PROVE  KUTypeOK' /\ PlanKnown'
  OBVIOUS
<1>1. CASE ReconcileDiscovering
  BY <1>1, DiscoveringType
<1>2. CASE ReconcilePendingKU \/ ReconcilePrechecks \/ ReconcilePostchecks
  <2>1. TypeOK'
    BY <1>2, PhaseOnlyKU, NextType DEF KUTypeOK
  <2>2. IF plan = << >> THEN stepIndex' = 1 ELSE stepIndex' \in 1..Len(plan)
    <3>1. plan = << >> => Len(plan) = 0
      OBVIOUS
    <3>2. Len(plan) \in Nat
      BY DEF KUTypeOK
    <3>3. IF plan = << >> THEN stepIndex = 1 ELSE stepIndex \in 1..Len(plan)
      BY DEF KUTypeOK
    <3>4. stepIndex' = stepIndex \/ (stepIndex < Len(plan) /\ stepIndex' = stepIndex + 1)
      BY <1>2, PhaseOnlyKU DEF MoreSteps
    <3>. QED BY <3>1, <3>2, <3>3, <3>4
  <2>3. kuPhase' \in KUPhase
    BY <1>2, PhaseOnlyKU DEF KUPhase
  <2>. QED BY <1>2, <2>1, <2>2, <2>3, PhaseOnlyKU DEF KUTypeOK, PlanKnown
<1>3. CASE ReconcileControlPlane \/ ReconcileWorkers
  <2>1. /\ UNCHANGED <<child, status, clusterVars, plan, stepIndex, discovered, start>>
        /\ kuPhase' \in KUPhase
    BY <1>3, ReleasingEffect DEF KUPhase
  <2>2. spec' \in [Group -> ChildSpec]
    BY <1>3, ReleasingEffect, ReleaseEffect DEF KUTypeOK
  <2>3. TypeOK'
    BY <2>1, <2>2 DEF KUTypeOK, TypeOK, clusterVars, nodeVars, podVars, jobVars
  <2>. QED BY <2>1, <2>3 DEF KUTypeOK, PlanKnown
<1>4. CASE GroupStep /\ UNCHANGED kuVars
  <2>1. TypeOK'
    BY <1>4, GroupStepNext, NextType DEF KUTypeOK
  <2>. QED BY <1>4, <2>1 DEF KUTypeOK, PlanKnown, kuVars
<1>5. CASE UNCHANGED allVars
  <2>1. TypeOK'
    BY <1>5, NextType DEF KUTypeOK, allVars
  <2>. QED BY <1>5, <2>1 DEF KUTypeOK, PlanKnown, allVars, kuVars
<1>. QED BY <1>1, <1>2, <1>3, <1>4, <1>5 DEF KUNext, ReconcileKU, GroupStep

LEMMA InitKUType == KUInit => KUTypeOK /\ PlanKnown
<1>. SUFFICES ASSUME KUInit PROVE KUTypeOK /\ PlanKnown
  OBVIOUS
<1>1. TypeOK
  BY InitType DEF KUInit
<1>2. << >> \in Seq([from : Version, to : Version]) /\ Len(<< >>) = 0 /\ 1..0 = {}
  OBVIOUS
<1>3. PlanKnown
  BY <1>2 DEF PlanKnown, KUInit
<1>. QED BY <1>1, <1>2, <1>3 DEF KUInit, KUTypeOK, TypeOK, KUPhase

LEMMA KUTypeInvariant == KUSpec => [](KUTypeOK /\ PlanKnown)
BY InitKUType, NextKUType, PTL DEF KUSpec

(* Whatever the cluster, the versions and the faults, and also when nodes  *)
(* join, are replaced, or leave a group empty: the types hold, every       *)
(* target the parent writes is a version it knows, and currentStepIndex    *)
(* never leaves the plan that reconcileDiscovering and reconcilePostchecks *)
(* index with it.                                                          *)
THEOREM UpgradeTypeCorrect == KUSpec => []KUTypeOK
BY KUTypeInvariant, PTL

-----------------------------------------------------------------------------
(* The fleet is moved hop by hop.                                          *)

KUInv ==
    /\ KUTypeOK /\ PlanKnown
    /\ BatchInv /\ ProgressInv /\ LimitInv
    /\ OnPlan /\ OnTarget

LEMMA ClimbStep ==
    ASSUME NEW s, NEW a, NEW b, Climbs(s, a, b), NEW i \in 1..Len(s)
    PROVE  /\ s[i].from \in Version /\ s[i].to \in Version
           /\ Before(s[i].from, s[i].to) /\ WithinOneMinor(s[i].from, s[i].to)
           /\ i < Len(s) => i + 1 \in 1..Len(s) /\ s[i + 1].from = s[i].to
           /\ s[1].from = a /\ s[Len(s)].to = b
<1>1. s \in Seq([from : Version, to : Version])
  BY DEF Climbs
<1>2. s[i] \in [from : Version, to : Version] /\ Len(s) \in Nat
  <2>1. \A S : \A q \in Seq(S) : Len(q) \in Nat /\ \A j \in 1..Len(q) : q[j] \in S
    OBVIOUS
  <2>. QED BY <1>1, <2>1
<1>3. i < Len(s) => i + 1 \in 1..Len(s) /\ i \in 1..(Len(s) - 1)
  BY <1>2
<1>. QED BY <1>2, <1>3 DEF Climbs

(* In a fleet that stays as it is, discovery finds every group and node. *)
LEMMA WholeFleet ==
    ASSUME FleetComplete
    PROVE  /\ \A g : LiveMember(g) = Member(g)
           /\ \A n \in Node : GroupOf[n] \in DiscoverGroups /\ n \in Member(GroupOf[n])
           /\ \A g \in DiscoverGroups : Member(g) # {}
BY NodeAssumption DEF FleetComplete, LiveMember, Member, DiscoverGroups

(* The hop in force: within one minor of the version it starts from, which *)
(* no node is behind.                                                      *)
LEMMA HopFacts ==
    ASSUME KUTypeOK, OnPlan, plan # << >>
    PROVE  /\ stepIndex \in 1..Len(plan)
           /\ plan[stepIndex].from \in Version /\ HopTarget \in Version
           /\ WithinOneMinor(plan[stepIndex].from, HopTarget)
           /\ \A n \in Node : AtLeast(version[n], plan[stepIndex].from)
           /\ stepIndex < Len(plan) => /\ stepIndex + 1 \in 1..Len(plan)
                                       /\ plan[stepIndex + 1].from = HopTarget
           /\ plan[Len(plan)].to = Wanted
<1>1. stepIndex \in 1..Len(plan) /\ Climbs(plan, plan[1].from, Wanted)
      /\ \A n \in Node : AtLeast(version[n], plan[stepIndex].from)
  BY DEF KUTypeOK, OnPlan
<1>. QED BY <1>1, ClimbStep DEF HopTarget

(* A group no hop behind is never asked for anything but the hop, or for   *)
(* what it has.                                                            *)
LEMMA NextTargetInHop ==
    ASSUME NEW lo \in Version, NEW hi \in Version, NEW c \in Version,
           WithinOneMinor(lo, hi), AtLeast(c, lo)
    PROVE  NextGroupTarget(c, hi) = IF Before(hi, c) THEN c ELSE hi
BY DEF NextGroupTarget, WithinOneMinor, SameMajor, MinorDiff, AtLeast, Before, Version

LEMMA KnownIsVersion ==
    ASSUME TypeOK
    PROVE  /\ \A n \in Node : version[n] \in Version
           /\ \A g \in Group : Target(g) \in Version
           /\ Wanted \in Version
BY VersionAssumption, UpgradeAssumption DEF TypeOK, Target, ChildSpec

(* The plan a discovery pass leaves behind. *)
LEMMA DiscoveredPlan ==
    ASSUME KUInv, ReconcileDiscovering, plan' # << >>
    PROVE  /\ Climbs(plan', plan'[1].from, Wanted)
           /\ stepIndex' = stepIndex /\ stepIndex \in 1..Len(plan')
           /\ plan'[stepIndex].to \in KnownVersion
           /\ plan'[stepIndex].to.minor <= Wanted.minor
           /\ \A n \in Node : AtLeast(version[n], plan'[stepIndex].from)
           /\ plan # << >> => plan' = plan
           /\ PlanNow.ok /\ plan' = PlanNow.steps
           /\ \E S, pruned \in SUBSET Group : AppliesChildren(S, pruned)
<1>1. /\ DiscoverGroups # {} /\ stepIndex' = stepIndex
      /\ \E S, pruned \in SUBSET Group : AppliesChildren(S, pruned)
  BY DiscoveringEffect DEF KUInv, NothingToApply
<1>2. plan' = PlanNow.steps /\ PlanNow.ok
  BY <1>1 DEF AppliesChildren
<1>3. /\ stepIndex \in 1..Len(plan') /\ plan'[stepIndex].to \in KnownVersion
      /\ plan'[stepIndex].to.minor <= Wanted.minor
  BY <1>1, <1>2, StepIndexInPlan DEF KUInv
<1>4. plan # << >> => plan' = plan
  BY <1>1, <1>2, PlanNowKnown DEF KUInv
<1>5. CASE plan # << >>
  BY <1>1, <1>2, <1>3, <1>4, <1>5 DEF KUInv, OnPlan
<1>6. CASE plan = << >>
  <2>. DEFINE c == OldestVersionAcrossGroups
  <2>1. c \in KnownVersion /\ c \in Version /\ Wanted \in Version
    BY <1>1, FleetVersionOldest, VersionAssumption, UpgradeAssumption DEF KUInv, KUTypeOK
  <2>2. PlanNow = ComputeStepPlan(c, Wanted, FALSE)
    BY <1>6 DEF PlanNow
  <2>3. c # Wanted
    BY <1>2, <2>2 DEF ComputeStepPlan, Plan
  <2>4. Climbs(plan', c, Wanted)
    <3>. HIDE DEF c
    <3>. QED BY <1>2, <2>1, <2>2, <2>3, ComputeStepPlanClimbs
  <2>5. plan'[1].from = c /\ stepIndex = 1
    BY <1>6, <2>4 DEF Climbs, KUInv, KUTypeOK
  <2>6. ASSUME NEW n \in Node
        PROVE  AtLeast(version[n], c)
    <3>. DEFINE g == GroupOf[n]
    <3>1. g \in DiscoverGroups /\ n \in LiveMember(g)
      BY WholeFleet DEF KUInv, LimitInv
    <3>2. AtLeast(version[n], GroupCurrentVersion(g)) /\ GroupCurrentVersion(g) \in Version
      BY <3>1, GroupVersionOldest, VersionAssumption DEF KUInv, KUTypeOK
    <3>3. AtLeast(GroupCurrentVersion(g), c)
      BY <1>1, <3>1, FleetVersionOldest DEF KUInv, KUTypeOK
    <3>4. version[n] \in Version
      BY KnownIsVersion DEF KUInv, KUTypeOK
    <3>. HIDE DEF g, c
    <3>. QED BY <2>1, <3>2, <3>3, <3>4, AtLeastTransitive
  <2>. HIDE DEF c
  <2>. QED BY <1>1, <1>2, <1>3, <1>6, <2>4, <2>5, <2>6
<1>. QED BY <1>5, <1>6

(* A discovery pass prunes nothing here and is one of the writes to the    *)
(* children that NodeGroupProgressProofs allows a parent: a target is      *)
(* raised only past nodes that have reached it.                            *)
LEMMA DiscoveringTarget ==
    ASSUME KUInv, ReconcileDiscovering, plan' # << >>, NEW g \in DiscoverGroups
    PROVE  LET c == GroupCurrentVersion(g)
               h == plan'[stepIndex].to
           IN  /\ c \in Version /\ h \in Version
               /\ \A n \in Member(g) : AtLeast(version[n], c)
               /\ \E n \in Member(g) : version[n] = c
               /\ NextGroupTarget(c, h) = IF Before(h, c) THEN c ELSE h
<1>. DEFINE c == GroupCurrentVersion(g)
            h == plan'[stepIndex].to
            lo == plan'[stepIndex].from
<1>1. TypeOK /\ FleetComplete
  BY DEF KUInv, KUTypeOK, LimitInv
<1>2. LiveMember(g) = Member(g)
  BY <1>1, WholeFleet
<1>3. /\ c \in KnownVersion
      /\ \E n \in Member(g) : version[n] = c
      /\ \A n \in Member(g) : AtLeast(version[n], c)
  BY <1>1, <1>2, GroupVersionOldest
<1>4. c \in Version
  BY <1>3, VersionAssumption
<1>5. /\ lo \in Version /\ h \in Version /\ WithinOneMinor(lo, h)
      /\ \A n \in Node : AtLeast(version[n], lo)
  BY DiscoveredPlan, ClimbStep
<1>6. AtLeast(c, lo)
  BY <1>3, <1>5 DEF Member
<1>. HIDE DEF c, h, lo
<1>7. NextGroupTarget(c, h) = IF Before(h, c) THEN c ELSE h
  BY <1>4, <1>5, <1>6, NextTargetInHop
<1>8. /\ c \in Version /\ h \in Version
      /\ \A n \in Member(g) : AtLeast(version[n], c)
      /\ \E n \in Member(g) : version[n] = c
      /\ NextGroupTarget(c, h) = IF Before(h, c) THEN c ELSE h
  BY <1>3, <1>4, <1>5, <1>7
<1>. QED BY <1>8 DEF c, h

LEMMA DiscoveringSpecWrite ==
    ASSUME KUInv, ReconcileDiscovering
    PROVE  SpecWrite
<1>1. /\ UNCHANGED <<clusterVars, stepIndex, start>>
      /\ \/ NothingToApply
         \/ \E S, pruned \in SUBSET Group : AppliesChildren(S, pruned)
  BY DiscoveringEffect DEF KUInv
<1>2. TypeOK
  BY DEF KUInv, KUTypeOK
<1>3. CASE NothingToApply
  BY <1>1, <1>2, <1>3 DEF NothingToApply, SpecWrite, childVars, clusterVars, Target
<1>4. ASSUME NEW S \in SUBSET Group, NEW pruned \in SUBSET Group, AppliesChildren(S, pruned)
      PROVE  SpecWrite
  <2>. DEFINE h == plan'[stepIndex].to
  <2>1. pruned = {} /\ plan' # << >>
    BY <1>4 DEF AppliesChildren, KUInv, OnTarget, PruneCandidates
  <2>2. status' = status /\ child' = child \cup S
    <3>1. status' = [g \in Group |-> status[g]]
      BY <1>4, <2>1 DEF AppliesChildren
    <3>2. status = [g \in Group |-> status[g]]
      BY <1>2 DEF TypeOK
    <3>3. child' = (child \cup S) \ pruned
      BY <1>4 DEF AppliesChildren
    <3>. QED BY <2>1, <3>1, <3>2, <3>3
  <2>3. ASSUME NEW g \in S
        PROVE  /\ spec'[g].nodes = Member(g) \cap present
               /\ spec'[g].target = NextGroupTarget(GroupCurrentVersion(g), h)
               /\ g \in DiscoverGroups
    <3>1. g \in DiscoverGroups
      BY <1>4 DEF AppliesChildren
    <3>2. spec'[g] = DesiredSpec(g, h)
      BY <1>4 DEF AppliesChildren
    <3>3. h \in KnownVersion /\ h.minor <= Wanted.minor
      BY <2>1, DiscoveredPlan
    <3>. HIDE DEF h
    <3>. QED BY <1>2, <3>1, <3>2, <3>3, DesiredSpecType
  <2>4. \A g \in Group \ S : spec'[g] = spec[g]
    BY <1>4 DEF AppliesChildren
  <2>5. ASSUME NEW g \in S, g \in child, spec'[g].target # Target(g)
        PROVE  /\ Before(Target(g), spec'[g].target)
               /\ \A n \in Member(g) : AtLeast(version[n], Target(g))
    <3>. DEFINE c == GroupCurrentVersion(g)
    <3>1. /\ c \in Version /\ h \in Version
          /\ \A n \in Member(g) : AtLeast(version[n], c)
          /\ \E n \in Member(g) : version[n] = c
          /\ spec'[g].target = IF Before(h, c) THEN c ELSE h
      BY <2>1, <2>3, <2>5, DiscoveringTarget
    <3>2. h = HopTarget
      <4>1. plan # << >>
        BY <2>5 DEF KUInv, OnPlan
      <4>. QED BY <2>1, <4>1, DiscoveredPlan DEF HopTarget
    <3>3. Target(g) \in Version /\ \A n \in Member(g) : version[n] \in Version
      BY <1>2, KnownIsVersion DEF Member
    <3>4. Aimed(g)
      BY <2>5 DEF KUInv, OnTarget
    <3>. HIDE DEF c, h
    <3>5. CASE Target(g) = HopTarget
      <4>1. Before(Target(g), c) /\ spec'[g].target = c
        BY <2>5, <3>1, <3>2, <3>5
      <4>2. AtLeast(c, Target(g))
        BY <3>1, <3>3, <4>1, BeforeAtLeast
      <4>. QED BY <3>1, <3>3, <4>1, <4>2, AtLeastTransitive
    <3>6. CASE \A n \in Member(g) : AtLeast(version[n], Target(g))
      <4>1. AtLeast(c, Target(g))
        BY <3>1, <3>6
      <4>2. spec'[g].target \in Version /\ AtLeast(spec'[g].target, c)
        <5>1. AtLeast(c, c)
          BY <3>1 DEF AtLeast, Before, Version
        <5>. QED BY <3>1, <5>1 DEF AtLeast
      <4>3. AtLeast(spec'[g].target, Target(g))
        BY <3>1, <3>3, <4>1, <4>2, AtLeastTransitive
      <4>. QED BY <2>5, <3>3, <3>6, <4>2, <4>3, BeforeTotal DEF AtLeast
    <3>. QED BY <3>4, <3>5, <3>6 DEF Aimed
  <2>6. UNCHANGED <<status, nodeVars, podVars, jobVars>>
    BY <1>1, <2>2 DEF clusterVars
  <2>. QED BY <2>2, <2>3, <2>4, <2>5, <2>6 DEF SpecWrite, Target
<1>. QED BY <1>1, <1>3, <1>4

LEMMA ReleasingSpecWrite ==
    ASSUME KUTypeOK, ReconcileControlPlane \/ ReconcileWorkers
    PROVE  SpecWrite /\ \A g \in Group : spec'[g].target = Target(g)
<1>1. PICK S \in SUBSET child : ReleaseHolds(S)
  BY ReleasingEffect
<1>2. \A g \in Group : spec'[g].target = spec[g].target /\ spec'[g].nodes = spec[g].nodes
  BY <1>1, ReleaseEffect DEF KUTypeOK
<1>3. UNCHANGED <<child, status, nodeVars, podVars, jobVars>>
  BY ReleasingEffect DEF clusterVars
<1>. QED BY <1>2, <1>3 DEF SpecWrite, Target

LEMMA ParentWritesSpec ==
    ASSUME KUInv, ReconcileKU
    PROVE  SpecWrite
<1>1. CASE ReconcileDiscovering
  BY <1>1, DiscoveringSpecWrite
<1>2. CASE ReconcileControlPlane \/ ReconcileWorkers
  BY <1>2, ReleasingSpecWrite DEF KUInv
<1>3. CASE ReconcilePendingKU \/ ReconcilePrechecks \/ ReconcilePostchecks
  <2>1. UNCHANGED vars
    BY <1>3, PhaseOnlyKU
  <2>. QED BY <2>1 DEF SpecWrite, Target, vars, childVars
<1>. QED BY <1>1, <1>2, <1>3 DEF ReconcileKU

(* What the children and the cluster do in a fleet that stays as it is:    *)
(* nodes change only by a Job that installs a version.                     *)
LEMMA GroupStepEffect ==
    ASSUME TypeOK, FixedFleet, FleetComplete, GroupStep
    PROVE  /\ UNCHANGED <<child, present>>
           /\ \A g \in Group : spec'[g].target = Target(g)
           /\ UNCHANGED version \/ \E n \in Node, v \in KnownVersion : JobInstalls(n, v)
<1>1. ASSUME NEW g \in Group, ReconcileGroup(g)
      PROVE  UNCHANGED <<child, spec, present, version>>
  <2>. USE DEF nodeVars
  <2>1. CASE ReconcilePending(g) \/ Reset(g)
    BY <2>1, PendingEffect, ResetEffect
  <2>2. CASE CompleteGroup(g) \/ NothingActive(g) \/ NoAdapter(g) \/ HandleAdapterError(g)
    BY <2>2, PhaseOnlyEffect
  <2>3. CASE DrainPass(g)
    BY <2>3, DrainEffect
  <2>4. CASE UpgradePassInPlace(g) \/ UpgradePassReplace(g) \/ BeginBatchCutShort(g)
    BY <2>4, UpgradeEffect DEF FixedFleet
  <2>5. CASE VerifyPass(g)
    BY <2>5, VerifyEffect
  <2>. QED BY <1>1, <2>1, <2>2, <2>3, <2>4, <2>5 DEF ReconcileGroup
<1>2. ASSUME NEW g \in Group, TogglePause(g)
      PROVE  UNCHANGED <<child, present, version>>
             /\ \A h \in Group : spec'[h].target = Target(h)
  BY <1>2 DEF TogglePause, nodeVars, TypeOK, ChildSpec, Target
<1>3. CASE Cluster
  <2>1. ASSUME NEW n \in Node, NEW v \in KnownVersion,
               JobCompletes(n, v) \/ JobFails(n, v) \/ JobExpires(n, v)
        PROVE  UNCHANGED <<child, spec, present, version>>
    BY <2>1 DEF JobCompletes, JobFails, JobExpires, childVars, nodeVars
  <2>2. ASSUME NEW n \in Node, NEW v \in KnownVersion, JobInstalls(n, v)
        PROVE  UNCHANGED <<child, spec, present>>
    BY <2>2 DEF JobInstalls, childVars
  <2>3. ASSUME NEW n \in Node,
               NodeLosesReady(n) \/ NodeRecovers(n) \/ NodeJoins(n) \/ DrainTimesOut(n)
        PROVE  UNCHANGED <<child, spec, present, version>>
    BY <2>3 DEF NodeLosesReady, NodeRecovers, NodeJoins, DrainTimesOut, childVars, nodeVars,
                FleetComplete
  <2>4. ASSUME NEW p \in Pod, PodTerminates(p) \/ \E n \in Node : PodScheduled(p, n)
        PROVE  UNCHANGED <<child, spec, present, version>>
    BY <2>4 DEF PodTerminates, PodScheduled, childVars, nodeVars
  <2>. QED BY <1>3, <2>1, <2>2, <2>3, <2>4 DEF Cluster, Target
<1>. QED BY <1>1, <1>2, <1>3 DEF GroupStep, Target

(* A Job installs the version of the current hop, on a node behind it. *)
LEMMA InstallsHop ==
    ASSUME KUInv, NEW n \in Node, NEW v \in KnownVersion, JobInstalls(n, v)
    PROVE  /\ plan # << >> /\ v = HopTarget /\ Before(version[n], HopTarget)
           /\ WithinOneMinor(version[n], HopTarget)
           /\ version' = [version EXCEPT ![n] = HopTarget]
<1>. DEFINE g == GroupOf[n]
<1>1. job[n][v] = "running" /\ version' = [version EXCEPT ![n] = v]
  BY DEF JobInstalls
<1>2. g \in child /\ v = Target(g) /\ Before(version[n], v)
  BY <1>1 DEF KUInv, BatchInv, JobBehind
<1>3. plan # << >>
  BY <1>2 DEF KUInv, OnPlan
<1>4. v = HopTarget
  <2>1. Aimed(g) /\ n \in Member(g)
    BY <1>2 DEF KUInv, OnTarget, Member
  <2>. QED BY <1>2, <2>1 DEF Aimed, AtLeast
<1>5. WithinOneMinor(version[n], HopTarget)
  <2>1. version[n] \in Version
    BY KnownIsVersion DEF KUInv, KUTypeOK
  <2>2. /\ plan[stepIndex].from \in Version /\ HopTarget \in Version
        /\ WithinOneMinor(plan[stepIndex].from, HopTarget)
        /\ AtLeast(version[n], plan[stepIndex].from)
    BY <1>3, HopFacts DEF KUInv
  <2>3. AtLeast(HopTarget, HopTarget)
    BY <2>2 DEF AtLeast, Before, Version
  <2>. QED BY <1>2, <1>4, <2>1, <2>2, <2>3, OneMinorRange
<1>. QED BY <1>1, <1>2, <1>3, <1>4, <1>5

LEMMA AtLeastItself == \A v \in Version : AtLeast(v, v)
BY DEF AtLeast, Before, Version

LEMMA GroupStepVersions ==
    ASSUME KUInv, GroupStep
    PROVE  \A n \in Node : version'[n] \in Version /\ AtLeast(version'[n], version[n])
<1>1. \A n \in Node : version[n] \in Version /\ AtLeast(version[n], version[n])
  BY KnownIsVersion, AtLeastItself DEF KUInv, KUTypeOK
<1>2. UNCHANGED version \/ \E n \in Node, v \in KnownVersion : JobInstalls(n, v)
  BY GroupStepEffect DEF KUInv, KUTypeOK, LimitInv
<1>3. ASSUME NEW n \in Node, NEW v \in KnownVersion, JobInstalls(n, v), NEW m \in Node
      PROVE  version'[m] \in Version /\ AtLeast(version'[m], version[m])
  <2>1. /\ Before(version[n], HopTarget) /\ v = HopTarget
        /\ version' = [version EXCEPT ![n] = HopTarget]
    BY <1>3, InstallsHop
  <2>2. version'[m] = IF m = n THEN HopTarget ELSE version[m]
    BY <2>1 DEF KUInv, KUTypeOK, TypeOK
  <2>3. HopTarget \in Version
    BY <2>1, VersionAssumption
  <2>4. AtLeast(HopTarget, version[n])
    BY <1>1, <2>1, <2>3, BeforeAtLeast
  <2>. QED BY <1>1, <2>2, <2>3, <2>4
<1>. QED BY <1>1, <1>2, <1>3

LEMMA GroupStepPlan ==
    ASSUME KUInv, GroupStep, UNCHANGED kuVars
    PROVE  OnPlan' /\ OnTarget'
<1>1. /\ UNCHANGED <<child, present>>
      /\ \A g \in Group : spec'[g].target = Target(g)
  BY GroupStepEffect DEF KUInv, KUTypeOK, LimitInv
<1>2. \A n \in Node : /\ version[n] \in Version /\ version'[n] \in Version
                      /\ AtLeast(version'[n], version[n])
  BY GroupStepVersions, KnownIsVersion DEF KUInv, KUTypeOK
<1>3. UNCHANGED <<plan, stepIndex, kuPhase, discovered>>
  BY DEF kuVars
<1>4. OnPlan'
  <2>1. ASSUME plan # << >>, NEW n \in Node
        PROVE  /\ AtLeast(version'[n], plan[stepIndex].from)
               /\ AtLeast(version[n], HopTarget) => AtLeast(version'[n], HopTarget)
    <3>1. /\ plan[stepIndex].from \in Version /\ HopTarget \in Version
          /\ AtLeast(version[n], plan[stepIndex].from)
      BY <2>1, HopFacts DEF KUInv
    <3>. QED BY <1>2, <3>1, AtLeastTransitive
  <2>. QED BY <1>1, <1>3, <2>1 DEF KUInv, OnPlan, HopTarget
<1>5. OnTarget'
  <2>1. DiscoverGroups' = DiscoverGroups
    BY <1>1 DEF DiscoverGroups, LiveMember, Member
  <2>2. ASSUME NEW g \in child PROVE Aimed(g)'
    <3>1. g \in Group
      BY DEF KUInv, KUTypeOK, TypeOK
    <3>2. Target(g)' = Target(g) /\ HopTarget' = HopTarget /\ Member(g)' = Member(g)
      BY <1>1, <1>3, <3>1 DEF Target, HopTarget, Member
    <3>3. ASSUME NEW n \in Member(g), AtLeast(version[n], Target(g))
          PROVE  AtLeast(version'[n], Target(g))
      <4>1. n \in Node /\ Target(g) \in Version
        BY <3>1, KnownIsVersion DEF KUInv, KUTypeOK, Member
      <4>. QED BY <1>2, <3>3, <4>1, AtLeastTransitive
    <3>4. Aimed(g)
      BY DEF KUInv, OnTarget
    <3>. QED BY <3>2, <3>3, <3>4 DEF Aimed
  <2>. QED BY <1>1, <2>1, <2>2 DEF KUInv, OnTarget
<1>. QED BY <1>4, <1>5

LEMMA DiscoveringPlan ==
    ASSUME KUInv, ReconcileDiscovering
    PROVE  OnPlan' /\ OnTarget'
<1>1. /\ kuPhase = "Discovering"
      /\ UNCHANGED <<clusterVars, stepIndex, start>>
      /\ \/ NothingToApply
         \/ \E S, pruned \in SUBSET Group : AppliesChildren(S, pruned)
  BY DiscoveringEffect DEF KUInv
<1>2. DiscoverGroups' = DiscoverGroups /\ version' = version
  BY <1>1 DEF DiscoverGroups, LiveMember, Member, clusterVars, nodeVars
<1>3. CASE NothingToApply
  <2>1. plan' = << >> /\ child' = child /\ discovered' = discovered /\ plan = << >>
        /\ kuPhase' \in {"Complete", "Failed"}
    BY <1>3 DEF NothingToApply, childVars
  <2>2. child' = {} /\ discovered' = {}
    BY <2>1 DEF KUInv, OnPlan
  <2>. QED BY <2>1, <2>2 DEF OnPlan, OnTarget
<1>4. ASSUME NEW S \in SUBSET Group, NEW pruned \in SUBSET Group, AppliesChildren(S, pruned)
      PROVE  OnPlan' /\ OnTarget'
  <2>. DEFINE h == plan'[stepIndex].to
  <2>1. /\ plan' # << >> /\ kuPhase' \in {"Prechecks", "Discovering"}
        /\ child' \subseteq child \cup S /\ S \subseteq DiscoverGroups \ SkipGroup
        /\ spec' = [g \in Group |-> IF g \in S THEN DesiredSpec(g, h) ELSE spec[g]]
    BY <1>4 DEF AppliesChildren
  <2>2. /\ Climbs(plan', plan'[1].from, Wanted)
        /\ h \in KnownVersion /\ h.minor <= Wanted.minor
        /\ \A n \in Node : AtLeast(version[n], plan'[stepIndex].from)
        /\ plan # << >> => plan' = plan
    BY <2>1, DiscoveredPlan
  <2>3. OnPlan'
    BY <1>1, <1>2, <2>1, <2>2 DEF OnPlan
  <2>4. HopTarget' = h
    BY <1>1 DEF HopTarget
  <2>5. ASSUME NEW g \in S PROVE Aimed(g)'
    <3>. DEFINE c == GroupCurrentVersion(g)
    <3>1. g \in DiscoverGroups
      BY <2>1
    <3>2. /\ \A n \in Member(g) : AtLeast(version[n], c)
          /\ NextGroupTarget(c, h) = IF Before(h, c) THEN c ELSE h
      BY <2>1, <3>1, DiscoveringTarget
    <3>3. spec'[g].target = NextGroupTarget(c, h)
      <4>1. spec'[g] = DesiredSpec(g, h)
        BY <2>1
      <4>. HIDE DEF h
      <4>. QED BY <2>2, <3>1, <4>1, DesiredSpecType DEF KUInv, KUTypeOK
    <3>. HIDE DEF c, h
    <3>. QED BY <1>2, <2>4, <3>2, <3>3 DEF Aimed, Target, Member
  <2>6. ASSUME NEW g \in child \ S PROVE Aimed(g)'
    <3>1. g \in Group /\ plan # << >> /\ Aimed(g)
      BY DEF KUInv, KUTypeOK, TypeOK, OnPlan, OnTarget
    <3>2. spec'[g] = spec[g] /\ HopTarget' = HopTarget
      BY <1>1, <2>1, <2>2, <3>1 DEF HopTarget
    <3>. QED BY <1>2, <3>1, <3>2 DEF Aimed, Target, Member
  <2>. HIDE DEF h
  <2>7. OnTarget'
    BY <1>2, <2>1, <2>5, <2>6 DEF KUInv, OnTarget
  <2>. QED BY <2>3, <2>7
<1>. QED BY <1>1, <1>3, <1>4

LEMMA ReleasingPlan ==
    ASSUME KUInv, ReconcileControlPlane \/ ReconcileWorkers
    PROVE  OnPlan' /\ OnTarget'
<1>1. /\ UNCHANGED <<child, status, clusterVars, plan, stepIndex, discovered, start>>
      /\ kuPhase \in {"ControlPlaneUpgrade", "WorkersUpgrade"}
      /\ kuPhase' \in {"ControlPlaneUpgrade", "WorkersUpgrade", "Postchecks", "Failed"}
  BY ReleasingEffect DEF KUInv
<1>2. \A g \in Group : spec'[g].target = Target(g)
  BY ReleasingSpecWrite DEF KUInv
<1>3. UNCHANGED <<version, present>>
  BY <1>1 DEF clusterVars, nodeVars
<1>4. OnPlan'
  BY <1>1, <1>3 DEF KUInv, OnPlan
<1>5. OnTarget'
  <2>1. DiscoverGroups' = DiscoverGroups /\ child \subseteq Group
    BY <1>3 DEF DiscoverGroups, LiveMember, Member, KUInv, KUTypeOK, TypeOK
  <2>2. ASSUME NEW g \in child PROVE Aimed(g)'
    BY <1>1, <1>2, <1>3, <2>1 DEF KUInv, OnTarget, Aimed, Target, HopTarget, Member
  <2>. QED BY <1>1, <2>1, <2>2 DEF KUInv, OnTarget
<1>. QED BY <1>4, <1>5

(* The gate of reconcilePostchecks: the hop advances, or the upgrade is    *)
(* Complete, only when the whole fleet has reached the hop.                *)
LEMMA PostchecksEffect ==
    ASSUME KUInv, ReconcilePostchecks
    PROVE  /\ plan # << >>
           /\ \/ /\ kuPhase' = "Discovering" /\ stepIndex' = stepIndex
              \/ /\ kuPhase' = "Discovering" /\ MoreSteps /\ stepIndex' = stepIndex + 1
                 /\ \A n \in Node : AtLeast(version[n], HopTarget)
              \/ /\ kuPhase' = "Complete" /\ ~MoreSteps /\ stepIndex' = stepIndex
                 /\ \A n \in Node : AtLeast(version[n], HopTarget)
<1>1. kuPhase = "Postchecks"
  BY DEF ReconcilePostchecks
<1>2. plan # << >>
  BY <1>1 DEF KUInv, OnPlan
<1>3. ASSUME \A g \in DiscoverGroups : CaughtUp(g), NEW n \in Node
      PROVE  AtLeast(version[n], HopTarget)
  <2>. DEFINE g == GroupOf[n]
  <2>1. g \in DiscoverGroups /\ n \in LiveMember(g)
    BY WholeFleet DEF KUInv, LimitInv
  <2>2. /\ GroupCurrentVersion(g) \in KnownVersion
        /\ AtLeast(version[n], GroupCurrentVersion(g))
    BY <2>1, GroupVersionOldest DEF KUInv, KUTypeOK
  <2>3. AtLeast(GroupCurrentVersion(g), HopTarget)
    BY <1>3, <2>1 DEF CaughtUp, HopTarget
  <2>4. /\ version[n] \in Version /\ HopTarget \in Version
        /\ GroupCurrentVersion(g) \in Version
    BY <1>2, <2>2, KnownIsVersion, HopFacts, VersionAssumption DEF KUInv, KUTypeOK
  <2>. HIDE DEF g
  <2>. QED BY <2>2, <2>3, <2>4, AtLeastTransitive
<1>. QED BY <1>2, <1>3 DEF ReconcilePostchecks

LEMMA PhaseOnlyPlan ==
    ASSUME KUInv, ReconcilePendingKU \/ ReconcilePrechecks \/ ReconcilePostchecks
    PROVE  OnPlan' /\ OnTarget'
<1>1. UNCHANGED <<vars, plan, discovered, start>>
  BY PhaseOnlyKU
<1>2. UNCHANGED <<child, spec, version, present>>
  BY <1>1 DEF vars, childVars, nodeVars
<1>3. DiscoverGroups' = DiscoverGroups
  BY <1>2 DEF DiscoverGroups, LiveMember, Member
<1>4. CASE ReconcilePendingKU \/ ReconcilePrechecks
  <2>1. /\ stepIndex' = stepIndex
        /\ kuPhase' \in {"Discovering", "ControlPlaneUpgrade", "WorkersUpgrade"}
        /\ kuPhase = "" => kuPhase' = "Discovering"
        /\ kuPhase \in {"", "Prechecks"}
    BY <1>4 DEF ReconcilePendingKU, ReconcilePrechecks
  <2>2. OnPlan'
    BY <1>1, <1>2, <2>1 DEF KUInv, OnPlan, HopTarget
  <2>3. OnTarget'
    BY <1>1, <1>2, <1>3, <2>1 DEF KUInv, OnTarget, Aimed, Target, HopTarget, Member
  <2>. QED BY <2>2, <2>3
<1>5. CASE ReconcilePostchecks
  <2>1. plan # << >> /\ Climbs(plan, plan[1].from, Wanted)
    BY <1>5, PostchecksEffect DEF KUInv, OnPlan
  <2>2. CASE stepIndex' = stepIndex
    <3>1. kuPhase' = "Complete" => \A n \in Node : AtLeast(version[n], HopTarget)
      BY <1>5, <2>2, PostchecksEffect
    <3>2. OnPlan'
      BY <1>1, <1>2, <2>1, <2>2, <3>1 DEF KUInv, OnPlan, HopTarget
    <3>3. OnTarget'
      BY <1>1, <1>2, <1>3, <2>2 DEF KUInv, OnTarget, Aimed, Target, HopTarget, Member
    <3>. QED BY <3>2, <3>3
  <2>3. CASE stepIndex' # stepIndex
    <3>1. /\ kuPhase' = "Discovering" /\ MoreSteps /\ stepIndex' = stepIndex + 1
          /\ \A n \in Node : AtLeast(version[n], HopTarget)
      BY <1>5, <2>3, PostchecksEffect
    <3>2. plan[stepIndex + 1].from = HopTarget
      BY <2>1, <3>1, HopFacts DEF KUInv, MoreSteps
    <3>3. OnPlan'
      BY <1>1, <1>2, <2>1, <3>1, <3>2 DEF OnPlan
    <3>4. ASSUME NEW g \in child PROVE Aimed(g)'
      <4>1. Aimed(g) /\ Member(g) \subseteq Node
        BY DEF KUInv, OnTarget, Member
      <4>2. \A n \in Member(g) : AtLeast(version[n], Target(g))
        BY <3>1, <4>1 DEF Aimed
      <4>. QED BY <1>2, <4>2 DEF Aimed, Target, Member
    <3>5. OnTarget'
      BY <1>2, <1>3, <3>4 DEF KUInv, OnTarget
    <3>. QED BY <3>3, <3>5
  <2>. QED BY <2>2, <2>3
<1>. QED BY <1>4, <1>5

LEMMA InitKUInv == FixedFleet /\ KUInit => KUInv
<1>. SUFFICES ASSUME FixedFleet, KUInit PROVE KUInv
  OBVIOUS
<1>1. KUTypeOK /\ PlanKnown
  BY InitKUType
<1>2. BatchInv /\ ProgressInv /\ LimitInv
  BY InitBatchInv, InitProgress, InitLimit DEF KUInit
<1>3. OnPlan /\ OnTarget
  BY DEF KUInit, Init, OnPlan, OnTarget
<1>. QED BY <1>1, <1>2, <1>3 DEF KUInv

LEMMA NextKUInv == KUInv /\ [KUNext]_allVars => KUInv'
<1>. SUFFICES ASSUME KUInv, [KUNext]_allVars PROVE KUInv'
  OBVIOUS
<1>1. KUTypeOK' /\ PlanKnown'
  BY NextKUType DEF KUInv
<1>2. TypeOK /\ TypeOK'
  BY <1>1 DEF KUInv, KUTypeOK
<1>3. CASE ReconcileKU
  <2>1. SpecWrite
    BY <1>3, ParentWritesSpec
  <2>2. BatchInv' /\ ProgressInv' /\ LimitInv'
    BY <1>2, <2>1, SpecWriteBatchInv, SpecWriteProgress, SpecWriteLimit DEF KUInv
  <2>3. OnPlan' /\ OnTarget'
    BY <1>3, DiscoveringPlan, ReleasingPlan, PhaseOnlyPlan DEF ReconcileKU
  <2>. QED BY <1>1, <2>2, <2>3 DEF KUInv
<1>4. CASE GroupStep /\ UNCHANGED kuVars
  <2>1. BatchInv' /\ ProgressInv' /\ LimitInv'
    BY <1>2, <1>4, GroupStepNext, NextBatchInv, NextProgress, NextLimit DEF KUInv
  <2>2. OnPlan' /\ OnTarget'
    BY <1>4, GroupStepPlan
  <2>. QED BY <1>1, <2>1, <2>2 DEF KUInv
<1>5. CASE UNCHANGED allVars
  <2>1. UNCHANGED vars /\ UNCHANGED kuVars
    BY <1>5 DEF allVars
  <2>2. BatchInv' /\ ProgressInv' /\ LimitInv'
    BY <1>2, <2>1, NextBatchInv, NextProgress, NextLimit DEF KUInv
  <2>3. OnPlan' /\ OnTarget'
    BY <2>1 DEF KUInv, OnPlan, OnTarget, Aimed, Target, HopTarget, Member, DiscoverGroups,
                LiveMember, vars, childVars, nodeVars, kuVars
  <2>. QED BY <1>1, <2>2, <2>3 DEF KUInv
<1>. QED BY <1>3, <1>4, <1>5 DEF KUNext, GroupStep

LEMMA KUInvariant == FixedFleet /\ KUSpec => []KUInv
BY InitKUInv, NextKUInv, PTL DEF KUSpec

-----------------------------------------------------------------------------
(* The refinement of FleetUpgrade.                                         *)

(* The plan is made from the oldest version of the fleet. *)
LEMMA OldestOfFleet ==
    ASSUME KUInv, DiscoverGroups # {}
    PROVE  OldestVersion({version[n] : n \in Node}) = OldestVersionAcrossGroups
<1>. DEFINE S == {version[n] : n \in Node}
            o == OldestVersion(S)
            c == OldestVersionAcrossGroups
<1>1. TypeOK /\ FleetComplete
  BY DEF KUInv, KUTypeOK, LimitInv
<1>2. PICK g \in DiscoverGroups : c = GroupCurrentVersion(g)
  BY <1>1, FleetVersionOldest
<1>3. PICK n \in LiveMember(g) : GroupCurrentVersion(g) = version[n]
  BY <1>1, GroupVersionOldest
<1>4. n \in Node /\ c = version[n]
  BY <1>2, <1>3 DEF LiveMember, Member
<1>5. S \in SUBSET Version /\ S # {}
  BY <1>1, <1>4, KnownIsVersion
<1>6. o \in S /\ \A w \in S : AtLeast(w, o)
  <2>. HIDE DEF S
  <2>. QED BY <1>5, OldestVersionIsOldest
<1>7. AtLeast(c, o)
  <2>. HIDE DEF c, o
  <2>. QED BY <1>4, <1>6
<1>8. AtLeast(o, c)
  <2>1. PICK m \in Node : o = version[m]
    BY <1>6
  <2>. DEFINE h == GroupOf[m]
  <2>2. h \in DiscoverGroups /\ m \in LiveMember(h)
    BY <1>1, WholeFleet
  <2>3. AtLeast(version[m], GroupCurrentVersion(h)) /\ GroupCurrentVersion(h) \in Version
    BY <1>1, <2>2, GroupVersionOldest, VersionAssumption
  <2>4. AtLeast(GroupCurrentVersion(h), c)
    BY <1>1, <2>2, FleetVersionOldest
  <2>5. version[m] \in Version /\ c \in Version
    BY <1>1, <1>4, KnownIsVersion
  <2>. HIDE DEF c, o, h
  <2>. QED BY <2>1, <2>3, <2>4, <2>5, AtLeastTransitive
<1>9. o \in Version /\ c \in Version
  BY <1>1, <1>4, <1>5, <1>6, KnownIsVersion
<1>. HIDE DEF c, o
<1>10. o = c
  BY <1>7, <1>8, <1>9, BeforeTotal DEF AtLeast
<1>. QED BY <1>10 DEF o, c, S

(* FleetUpgrade has the version arithmetic of this specification. *)
LEMMA SameArithmetic ==
    /\ \A a, b : Fleet!Before(a, b) = Before(a, b)
    /\ \A a, b : Fleet!AtLeast(a, b) = AtLeast(a, b)
    /\ \A a, b : Fleet!WithinOneMinor(a, b) = WithinOneMinor(a, b)
    /\ \A S : Fleet!OldestVersion(S) = OldestVersion(S)
    /\ \A c, t : Fleet!ComputeStepPlan(c, t, FALSE) = ComputeStepPlan(c, t, FALSE)
<1>1. \A a, b : Fleet!Before(a, b) = Before(a, b)
  BY DEF Fleet!Before, Before
<1>2. \A a, b : Fleet!AtLeast(a, b) = AtLeast(a, b)
  BY <1>1 DEF Fleet!AtLeast, AtLeast
<1>3. /\ \A a, b : Fleet!SameMajor(a, b) = SameMajor(a, b)
      /\ \A a, b : Fleet!MinorDiff(a, b) = MinorDiff(a, b)
  BY DEF Fleet!SameMajor, SameMajor, Fleet!MinorDiff, MinorDiff
<1>4. \A a, b : Fleet!WithinOneMinor(a, b) = WithinOneMinor(a, b)
  BY <1>3 DEF Fleet!WithinOneMinor, WithinOneMinor
<1>5. \A S : Fleet!OldestVersion(S) = OldestVersion(S)
  BY <1>2 DEF Fleet!OldestVersion, OldestVersion
<1>6. \A c, t : Fleet!MinorHops(c, t) = MinorHops(c, t)
  BY <1>3 DEF Fleet!MinorHops, MinorHops, Fleet!HopVersion, HopVersion, Fleet!Hop, Hop, Fleet!V, V
<1>7. \A c, t : Fleet!ComputeStepPlan(c, t, FALSE) = ComputeStepPlan(c, t, FALSE)
  BY <1>1, <1>3, <1>6
     DEF Fleet!ComputeStepPlan, ComputeStepPlan, Fleet!Plan, Plan, Fleet!NoPlan, NoPlan,
         Fleet!Hop, Hop
<1>. QED BY <1>1, <1>2, <1>4, <1>5, <1>7

LEMMA FleetInitial == KUInit => Fleet!Init
BY DEF KUInit, Init, Fleet!Init

LEMMA DiscoveringFleet ==
    ASSUME KUInv, ReconcileDiscovering
    PROVE  [Fleet!Next]_(Fleet!vars)
<1>1. /\ kuPhase = "Discovering" /\ DiscoverGroups # {}
      /\ UNCHANGED <<clusterVars, stepIndex, start>>
      /\ \/ NothingToApply
         \/ \E S, pruned \in SUBSET Group : AppliesChildren(S, pruned)
  BY DiscoveringEffect DEF KUInv
<1>2. UNCHANGED <<version, start, stepIndex>>
  BY <1>1 DEF clusterVars, nodeVars
<1>. DEFINE p == ComputeStepPlan(OldestVersion({version[n] : n \in Node}), Wanted, FALSE)
<1>3. plan = << >> => PlanNow = p
  BY <1>1, OldestOfFleet DEF PlanNow
<1>4. ASSUME plan = << >>, PlanNow.ok, plan' = PlanNow.steps,
             kuPhase' = "Complete" <=> plan' = << >>
      PROVE  Fleet!MakePlan
  <2>1. p.ok /\ plan' = p.steps
    BY <1>3, <1>4
  <2>2. (kuPhase' = "Complete") = (p.steps = << >>)
    BY <1>4, <2>1
  <2>3. p = Fleet!ComputeStepPlan(Fleet!OldestVersion({version[n] : n \in Node}), Wanted, FALSE)
    BY SameArithmetic
  <2>. HIDE DEF p
  <2>. QED BY <1>1, <1>2, <1>4, <2>1, <2>2, <2>3 DEF Fleet!MakePlan
<1>5. CASE NothingToApply
  <2>1. /\ plan = << >> /\ plan' = << >> /\ PlanNow.steps = << >>
        /\ kuPhase' = IF PlanNow.ok THEN "Complete" ELSE "Failed"
    BY <1>5 DEF NothingToApply
  <2>2. CASE PlanNow.ok
    BY <1>4, <2>1, <2>2 DEF Fleet!Next
  <2>3. CASE ~PlanNow.ok
    BY <1>1, <1>2, <2>1, <2>3 DEF Fleet!vars
  <2>. QED BY <2>2, <2>3
<1>6. ASSUME NEW S \in SUBSET Group, NEW pruned \in SUBSET Group, AppliesChildren(S, pruned)
      PROVE  [Fleet!Next]_(Fleet!vars)
  <2>1. /\ plan' = PlanNow.steps /\ plan' # << >> /\ PlanNow.ok
        /\ kuPhase' \in {"Prechecks", "Discovering"}
    BY <1>6 DEF AppliesChildren
  <2>2. CASE plan = << >>
    BY <1>4, <2>1, <2>2 DEF Fleet!Next
  <2>3. CASE plan # << >>
    <3>1. plan' = plan
      BY <1>1, <2>1, <2>3, PlanNowKnown DEF KUInv
    <3>. QED BY <1>1, <1>2, <2>1, <3>1 DEF Fleet!vars
  <2>. QED BY <2>2, <2>3
<1>. QED BY <1>1, <1>5, <1>6

LEMMA PostchecksFleet ==
    ASSUME KUInv, ReconcilePostchecks
    PROVE  [Fleet!Next]_(Fleet!vars)
<1>1. UNCHANGED <<version, plan, start>> /\ kuPhase = "Postchecks"
  BY PhaseOnlyKU DEF ReconcilePostchecks, vars, nodeVars
<1>2. CASE kuPhase' = "Discovering" /\ stepIndex' = stepIndex
  BY <1>1, <1>2 DEF Fleet!vars
<1>3. CASE /\ kuPhase' = "Discovering" /\ MoreSteps /\ stepIndex' = stepIndex + 1
           /\ \A n \in Node : AtLeast(version[n], HopTarget)
  <2>1. Fleet!AdvanceHop
    BY <1>1, <1>3, PostchecksEffect, SameArithmetic
       DEF Fleet!AdvanceHop, Fleet!ReachedHop, Fleet!HopTarget, Fleet!MoreHops, MoreSteps, HopTarget
  <2>. QED BY <2>1 DEF Fleet!Next
<1>4. CASE /\ kuPhase' = "Complete" /\ ~MoreSteps /\ stepIndex' = stepIndex
           /\ \A n \in Node : AtLeast(version[n], HopTarget)
  <2>1. Fleet!AdvanceHop
    BY <1>1, <1>4, PostchecksEffect, SameArithmetic
       DEF Fleet!AdvanceHop, Fleet!ReachedHop, Fleet!HopTarget, Fleet!MoreHops, MoreSteps, HopTarget
  <2>. QED BY <2>1 DEF Fleet!Next
<1>. QED BY <1>2, <1>3, <1>4, PostchecksEffect

LEMMA GroupStepFleet ==
    ASSUME KUInv, GroupStep, UNCHANGED kuVars
    PROVE  [Fleet!Next]_(Fleet!vars)
<1>1. UNCHANGED <<plan, stepIndex, start, kuPhase>>
  BY DEF kuVars
<1>2. CASE UNCHANGED version
  BY <1>1, <1>2 DEF Fleet!vars
<1>3. ASSUME NEW n \in Node, NEW v \in KnownVersion, JobInstalls(n, v)
      PROVE  Fleet!UpgradeNode(n)
  <2>1. /\ plan # << >> /\ Before(version[n], HopTarget)
        /\ WithinOneMinor(version[n], HopTarget)
        /\ version' = [version EXCEPT ![n] = HopTarget]
    BY <1>3, InstallsHop
  <2>2. kuPhase # "Complete"
    BY <2>1 DEF KUInv, OnPlan, AtLeast
  <2>3. Fleet!HopTarget = HopTarget
    BY DEF Fleet!HopTarget, HopTarget
  <2>. QED BY <1>1, <2>1, <2>2, <2>3, SameArithmetic DEF Fleet!UpgradeNode
<1>4. UNCHANGED version \/ \E n \in Node, v \in KnownVersion : JobInstalls(n, v)
  BY GroupStepEffect DEF KUInv, KUTypeOK, LimitInv
<1>. QED BY <1>2, <1>3, <1>4 DEF Fleet!Next

LEMMA FleetStep == KUInv /\ [KUNext]_allVars => [Fleet!Next]_(Fleet!vars)
<1>. SUFFICES ASSUME KUInv, [KUNext]_allVars PROVE [Fleet!Next]_(Fleet!vars)
  OBVIOUS
<1>1. CASE ReconcilePendingKU \/ ReconcilePrechecks
  <2>1. /\ UNCHANGED <<version, plan, start, stepIndex>>
        /\ kuPhase # "Complete" /\ kuPhase' # "Complete"
    BY <1>1 DEF ReconcilePendingKU, ReconcilePrechecks, vars, nodeVars
  <2>. QED BY <2>1 DEF Fleet!vars
<1>2. CASE ReconcileControlPlane \/ ReconcileWorkers
  <2>1. /\ UNCHANGED <<version, plan, start, stepIndex>>
        /\ kuPhase # "Complete" /\ kuPhase' # "Complete"
    BY <1>2, ReleasingEffect DEF KUInv, clusterVars, nodeVars
  <2>. QED BY <2>1 DEF Fleet!vars
<1>3. CASE UNCHANGED allVars
  BY <1>3 DEF allVars, vars, nodeVars, kuVars, Fleet!vars
<1>. QED BY <1>1, <1>2, <1>3, DiscoveringFleet, PostchecksFleet, GroupStepFleet
         DEF KUNext, ReconcileKU, GroupStep

(* For every fleet no node joins or leaves, every mix of starting          *)
(* versions, every plan and every fault: the two controllers, their Jobs   *)
(* and the cluster move the fleet as FleetUpgrade says, up, one minor at a *)
(* time, a hop only after the whole fleet has reached the one before.      *)
THEOREM UpgradeImplementsFleet == FixedFleet /\ KUSpec => ImplementsFleet
BY KUInvariant, FleetInitial, FleetStep, PTL DEF KUSpec, ImplementsFleet, Fleet!Spec

(* The promises of a node group hold as well when the parent is the        *)
(* KubernetesUpgrade controller, which holds, releases and re-aims its     *)
(* children over any number of hops.                                       *)
THEOREM UpgradeKeepsGroups ==
    FixedFleet /\ KUSpec => [](DrainedBeforeUpgrade /\ CordonBound /\ CompleteMeansDone)
<1>1. BatchInv => DrainedBeforeUpgrade
  BY DEF BatchInv, JobBehind, DrainedBeforeUpgrade, Drained
<1>2. KUInv => CordonBound
  BY LimitKept DEF KUInv, KUTypeOK
<1>3. KUInv => CompleteMeansDone
  BY DEF KUInv, ProgressInv, Progress, Entries, CompletedDone, CompleteMeansDone
<1>4. KUInv => DrainedBeforeUpgrade /\ CordonBound /\ CompleteMeansDone
  BY <1>1, <1>2, <1>3 DEF KUInv
<1>. QED BY <1>4, KUInvariant, PTL

(* No step of the controllers, the Jobs or the cluster makes a kubelet     *)
(* older, over any number of hops and with groups that start ahead.        *)
THEOREM UpgradeNeverDowngrades == FixedFleet /\ KUSpec => NeverDowngrade
<1>1. KUInv /\ [KUNext]_allVars =>
         [\A n \in present : AtLeast(version'[n], version[n])]_vars
  <2>. SUFFICES ASSUME KUInv, [KUNext]_allVars, NEW n \in present
                PROVE  AtLeast(version'[n], version[n])
    OBVIOUS
  <2>1. n \in Node /\ AtLeast(version[n], version[n])
    BY KnownIsVersion, AtLeastItself DEF KUInv, KUTypeOK, TypeOK
  <2>2. CASE ReconcileKU
    <3>1. UNCHANGED version
      BY <2>2, ParentWritesSpec DEF SpecWrite, nodeVars
    <3>. QED BY <2>1, <3>1
  <2>3. CASE GroupStep
    BY <2>1, <2>3, GroupStepVersions
  <2>4. CASE UNCHANGED allVars
    BY <2>1, <2>4 DEF allVars, vars, nodeVars
  <2>. QED BY <2>2, <2>3, <2>4 DEF KUNext, GroupStep
<1>. QED BY <1>1, KUInvariant, PTL DEF KUSpec, NeverDowngrade

(* A node the upgrade has moved is not beyond the current hop, and         *)
(* Complete is reported at the end of the plan.                            *)
MovedInHop ==
    /\ plan = << >> => version = start
    /\ plan # << >> =>
         \A n \in Node : version[n] = start[n] \/ AtLeast(HopTarget, version[n])

DoneAtWanted ==
    kuPhase = "Complete" => \A n \in Node : AtLeast(version[n], Wanted)

LEMMA InitMoved == KUInit => MovedInHop /\ DoneAtWanted
BY DEF KUInit, MovedInHop, DoneAtWanted

LEMMA DiscoveringMoved ==
    ASSUME KUInv, MovedInHop, DoneAtWanted, ReconcileDiscovering
    PROVE  MovedInHop' /\ DoneAtWanted'
<1>1. /\ kuPhase = "Discovering" /\ DiscoverGroups # {}
      /\ UNCHANGED <<version, start, stepIndex>>
      /\ \/ NothingToApply
         \/ \E S, pruned \in SUBSET Group : AppliesChildren(S, pruned)
  BY DiscoveringEffect DEF KUInv, clusterVars, nodeVars
<1>2. CASE NothingToApply
  <2>. DEFINE c == OldestVersion({version[n] : n \in Node})
  <2>1. /\ plan = << >> /\ plan' = << >> /\ PlanNow.steps = << >>
        /\ kuPhase' = IF PlanNow.ok THEN "Complete" ELSE "Failed"
    BY <1>2 DEF NothingToApply
  <2>2. PlanNow = ComputeStepPlan(c, Wanted, FALSE)
    BY <1>1, <2>1, OldestOfFleet DEF PlanNow
  <2>3. ASSUME PlanNow.ok, NEW n \in Node PROVE AtLeast(version[n], Wanted)
    <3>. DEFINE S == {version[m] : m \in Node}
    <3>1. S \in SUBSET Version /\ S # {} /\ version[n] \in S
      BY KnownIsVersion DEF KUInv, KUTypeOK
    <3>2. OldestVersion(S) \in S /\ \A w \in S : AtLeast(w, OldestVersion(S))
      <4>. HIDE DEF S
      <4>. QED BY <3>1, OldestVersionIsOldest
    <3>3. c \in Version /\ AtLeast(version[n], c)
      BY <3>1, <3>2
    <3>4. c = Wanted
      <4>1. Wanted \in Version
        BY VersionAssumption, UpgradeAssumption
      <4>. HIDE DEF c
      <4>. QED BY <2>1, <2>2, <2>3, <3>3, <4>1, ComputeStepPlanClimbs DEF Climbs
    <3>. QED BY <3>3, <3>4
  <2>. HIDE DEF c
  <2>. QED BY <1>1, <2>1, <2>3 DEF MovedInHop, DoneAtWanted
<1>3. ASSUME NEW S \in SUBSET Group, NEW pruned \in SUBSET Group, AppliesChildren(S, pruned)
      PROVE  MovedInHop' /\ DoneAtWanted'
  <2>1. plan' # << >> /\ kuPhase' \in {"Prechecks", "Discovering"}
    BY <1>3 DEF AppliesChildren
  <2>2. plan # << >> => plan' = plan
    BY <2>1, DiscoveredPlan
  <2>. QED BY <1>1, <2>1, <2>2 DEF MovedInHop, DoneAtWanted, HopTarget
<1>. QED BY <1>1, <1>2, <1>3

LEMMA PostchecksMoved ==
    ASSUME KUInv, MovedInHop, DoneAtWanted, ReconcilePostchecks
    PROVE  MovedInHop' /\ DoneAtWanted'
<1>1. UNCHANGED <<version, plan, start>> /\ plan # << >>
  BY PhaseOnlyKU, PostchecksEffect DEF vars, nodeVars
<1>2. /\ stepIndex \in 1..Len(plan) /\ HopTarget \in Version
      /\ plan[Len(plan)].to = Wanted /\ Len(plan) \in Nat
      /\ stepIndex < Len(plan) => /\ stepIndex + 1 \in 1..Len(plan)
                                  /\ plan[stepIndex + 1].from = HopTarget
  BY <1>1, HopFacts DEF KUInv, KUTypeOK
<1>3. CASE kuPhase' = "Discovering" /\ stepIndex' = stepIndex
  BY <1>1, <1>3 DEF MovedInHop, DoneAtWanted, HopTarget
<1>4. CASE kuPhase' = "Discovering" /\ MoreSteps /\ stepIndex' = stepIndex + 1
  <2>1. /\ plan[stepIndex + 1].to \in Version
        /\ Before(HopTarget, plan[stepIndex + 1].to)
    <3>1. Climbs(plan, plan[1].from, Wanted)
      BY <1>1 DEF KUInv, OnPlan
    <3>. QED BY <1>2, <1>4, <3>1, ClimbStep DEF MoreSteps
  <2>2. AtLeast(plan[stepIndex + 1].to, HopTarget)
    BY <1>2, <2>1, BeforeAtLeast
  <2>3. \A n \in Node : version[n] \in Version
    BY KnownIsVersion DEF KUInv, KUTypeOK
  <2>4. \A n \in Node :
           AtLeast(HopTarget, version[n]) => AtLeast(plan[stepIndex + 1].to, version[n])
    BY <1>2, <2>1, <2>2, <2>3, AtLeastTransitive
  <2>5. HopTarget' = plan[stepIndex + 1].to
    BY <1>1, <1>4 DEF HopTarget
  <2>. QED BY <1>1, <1>4, <2>4, <2>5 DEF MovedInHop, DoneAtWanted
<1>5. CASE /\ kuPhase' = "Complete" /\ ~MoreSteps /\ stepIndex' = stepIndex
           /\ \A n \in Node : AtLeast(version[n], HopTarget)
  <2>1. stepIndex = Len(plan)
    BY <1>2, <1>5 DEF MoreSteps
  <2>2. HopTarget = Wanted
    BY <1>2, <2>1 DEF HopTarget
  <2>. QED BY <1>1, <1>5, <2>2 DEF MovedInHop, DoneAtWanted, HopTarget
<1>. QED BY <1>3, <1>4, <1>5, PostchecksEffect

LEMMA NextMoved ==
    KUInv /\ MovedInHop /\ DoneAtWanted /\ [KUNext]_allVars => MovedInHop' /\ DoneAtWanted'
<1>. SUFFICES ASSUME KUInv, MovedInHop, DoneAtWanted, [KUNext]_allVars
              PROVE  MovedInHop' /\ DoneAtWanted'
  OBVIOUS
<1>1. CASE \/ ReconcilePendingKU \/ ReconcilePrechecks \/ ReconcileControlPlane
           \/ ReconcileWorkers
  <2>1. /\ UNCHANGED <<version, plan, start, stepIndex>>
        /\ kuPhase' # "Complete"
    <3>1. CASE ReconcilePendingKU \/ ReconcilePrechecks
      BY <3>1 DEF ReconcilePendingKU, ReconcilePrechecks, vars, nodeVars
    <3>2. CASE ReconcileControlPlane \/ ReconcileWorkers
      BY <3>2, ReleasingEffect DEF KUInv, clusterVars, nodeVars
    <3>. QED BY <1>1, <3>1, <3>2
  <2>. QED BY <2>1 DEF MovedInHop, DoneAtWanted, HopTarget
<1>2. CASE GroupStep /\ UNCHANGED kuVars
  <2>1. UNCHANGED <<plan, stepIndex, start, kuPhase>>
    BY <1>2 DEF kuVars
  <2>2. UNCHANGED version \/ \E n \in Node, v \in KnownVersion : JobInstalls(n, v)
    BY <1>2, GroupStepEffect DEF KUInv, KUTypeOK, LimitInv
  <2>3. CASE UNCHANGED version
    BY <2>1, <2>3 DEF MovedInHop, DoneAtWanted, HopTarget
  <2>4. ASSUME NEW n \in Node, NEW v \in KnownVersion, JobInstalls(n, v)
        PROVE  MovedInHop' /\ DoneAtWanted'
    <3>1. /\ plan # << >> /\ Before(version[n], HopTarget)
          /\ version' = [version EXCEPT ![n] = HopTarget]
      BY <2>4, InstallsHop
    <3>2. \A m \in Node : version'[m] = IF m = n THEN HopTarget ELSE version[m]
      BY <3>1 DEF KUInv, KUTypeOK, TypeOK
    <3>3. AtLeast(HopTarget, HopTarget)
      BY <3>1, HopFacts, AtLeastItself DEF KUInv
    <3>4. kuPhase # "Complete"
      BY <3>1 DEF KUInv, OnPlan, AtLeast
    <3>. QED BY <2>1, <3>1, <3>2, <3>3, <3>4 DEF MovedInHop, DoneAtWanted, HopTarget
  <2>. QED BY <2>2, <2>3, <2>4
<1>3. CASE UNCHANGED allVars
  BY <1>3 DEF allVars, vars, nodeVars, kuVars, MovedInHop, DoneAtWanted, HopTarget
<1>. QED BY <1>1, <1>2, <1>3, DiscoveringMoved, PostchecksMoved DEF KUNext, ReconcileKU, GroupStep

(* What FleetUpgrade promises of a fleet, of the controllers themselves: a *)
(* node they have moved is never more than one minor ahead of a node       *)
(* behind it, and Complete is reported only when every node is at the      *)
(* requested version or was beyond it.                                     *)
THEOREM UpgradeKeepsFleetTogether ==
    FixedFleet /\ KUSpec => [](Fleet!OneMinorApart /\ Fleet!FinishedAtTarget)
<1>1. KUInv /\ MovedInHop => Fleet!OneMinorApart
  <2>. SUFFICES ASSUME KUInv, MovedInHop, NEW m \in Node, NEW n \in Node,
                       version[n] # start[n], Before(version[m], version[n])
                PROVE  WithinOneMinor(version[m], version[n])
    BY SameArithmetic DEF Fleet!OneMinorApart
  <2>1. plan # << >> /\ AtLeast(HopTarget, version[n])
    BY DEF MovedInHop
  <2>2. /\ plan[stepIndex].from \in Version /\ HopTarget \in Version
        /\ WithinOneMinor(plan[stepIndex].from, HopTarget)
        /\ AtLeast(version[m], plan[stepIndex].from)
    BY <2>1, HopFacts DEF KUInv
  <2>3. version[m] \in Version /\ version[n] \in Version
    BY KnownIsVersion DEF KUInv, KUTypeOK
  <2>. QED BY <2>1, <2>2, <2>3, OneMinorRange
<1>2. DoneAtWanted => Fleet!FinishedAtTarget
  BY SameArithmetic DEF DoneAtWanted, Fleet!FinishedAtTarget
<1>. QED BY <1>1, <1>2, KUInvariant, InitMoved, NextMoved, PTL DEF KUSpec

-----------------------------------------------------------------------------
(* Upgrades of one hop.                                                    *)

(* Every node starts within one minor version of the request.  With more   *)
(* hops a child is read as Complete for the hop before, until it resets,   *)
(* and what follows does not hold.                                         *)
OneHop ==
    \A f \in InitVersions, n \in Node :
        SameMajor(f[n], Wanted) /\ MinorDiff(f[n], Wanted) <= 1

AtWanted == plan # << >> => HopTarget = Wanted /\ stepIndex = Len(plan)

(* What NextGroupTarget answers for a child does not change any more. *)
Settled(g) ==
    \/ Target(g) = Wanted /\ \E n \in Member(g) : AtLeast(Wanted, version[n])
    \/ /\ Before(Wanted, Target(g))
       /\ \A n \in Member(g) : AtLeast(version[n], Target(g))
       /\ \E n \in Member(g) : version[n] = Target(g)

SteadyKU ==
    /\ KUInv /\ MovedInHop
    /\ OneHop /\ start \in InitVersions
    /\ AtWanted /\ \A g \in child : Settled(g)
    /\ OneAtATime /\ AimKept /\ Appliers

LEMMA OldestSettles ==
    ASSUME NEW c \in Version, NEW t \in Version, NEW h \in Version,
           AtLeast(h, c), AtLeast(t, h)
    PROVE  ~Before(t, c)
<1>1. AtLeast(t, c)
  BY AtLeastTransitive
<1>. QED BY <1>1 DEF AtLeast

LEMMA DiscoveringAtWanted ==
    ASSUME SteadyKU, ReconcileDiscovering
    PROVE  AtWanted'
<1>. SUFFICES ASSUME plan' # << >>
              PROVE  HopTarget' = Wanted /\ stepIndex' = Len(plan')
  BY DEF AtWanted
<1>1. /\ Climbs(plan', plan'[1].from, Wanted)
      /\ stepIndex' = stepIndex /\ PlanNow.ok /\ plan' = PlanNow.steps
      /\ plan # << >> => plan' = plan
  BY DiscoveredPlan DEF SteadyKU
<1>2. CASE plan # << >>
  BY <1>1, <1>2 DEF SteadyKU, AtWanted, HopTarget
<1>3. CASE plan = << >>
  <2>. DEFINE c == OldestVersion({version[n] : n \in Node})
              S == {version[n] : n \in Node}
  <2>1. DiscoverGroups # {}
    BY DEF ReconcileDiscovering
  <2>2. PICK g \in DiscoverGroups : OldestVersionAcrossGroups = GroupCurrentVersion(g)
    BY <2>1, FleetVersionOldest DEF SteadyKU, KUInv, KUTypeOK
  <2>3. PICK n \in LiveMember(g) : GroupCurrentVersion(g) = version[n]
    BY GroupVersionOldest DEF SteadyKU, KUInv, KUTypeOK
  <2>4. n \in Node /\ c = start[n]
    BY <1>3, <2>1, <2>2, <2>3, OldestOfFleet DEF SteadyKU, MovedInHop, LiveMember, Member
  <2>5. /\ SameMajor(c, Wanted) /\ MinorDiff(c, Wanted) <= 1
        /\ c \in Version /\ Wanted \in Version
    <3>1. version[n] = start[n] /\ version[n] \in Version /\ Wanted \in Version
      BY <1>3, <2>4, KnownIsVersion DEF SteadyKU, MovedInHop, KUInv, KUTypeOK
    <3>2. SameMajor(start[n], Wanted) /\ MinorDiff(start[n], Wanted) <= 1
      BY <2>4 DEF SteadyKU, OneHop
    <3>. HIDE DEF c
    <3>. QED BY <2>4, <3>1, <3>2
  <2>6. PlanNow = ComputeStepPlan(c, Wanted, FALSE)
    BY <1>3, <2>1, OldestOfFleet DEF PlanNow, SteadyKU
  <2>. HIDE DEF c
  <2>7. c # Wanted /\ ~Before(Wanted, c)
    BY <1>1, <2>6 DEF ComputeStepPlan, Plan, NoPlan
  <2>8. Len(plan') = 1
    <3>1. CASE MinorDiff(c, Wanted) = 0
      <4>1. plan' = <<Hop(c, Wanted)>>
        BY <1>1, <2>5, <2>6, <2>7, <3>1 DEF ComputeStepPlan, Plan
      <4>2. Len(<<Hop(c, Wanted)>>) = 1
        OBVIOUS
      <4>. QED BY <4>1, <4>2
    <3>2. CASE MinorDiff(c, Wanted) # 0
      <4>1. plan' = MinorHops(c, Wanted)
        BY <1>1, <2>5, <2>6, <2>7, <3>2 DEF ComputeStepPlan, Plan
      <4>2. MinorDiff(c, Wanted) = 1
        BY <2>5, <2>7, <3>2 DEF MinorDiff, SameMajor, Before, Version
      <4>3. MinorDiff(c, Wanted) > 0
        BY <4>2
      <4>4. Len(MinorHops(c, Wanted)) = MinorDiff(c, Wanted)
        BY <2>5, <4>3, MinorHopsLength
      <4>. QED BY <4>1, <4>2, <4>4
    <3>. QED BY <3>1, <3>2
  <2>9. stepIndex = 1
    BY <1>3 DEF SteadyKU, KUInv, KUTypeOK
  <2>10. plan'[Len(plan')].to = Wanted
    BY <1>1 DEF Climbs
  <2>. QED BY <1>1, <2>8, <2>9, <2>10 DEF HopTarget
<1>. QED BY <1>2, <1>3

(* A discovery pass leaves the targets of the children it finds.  *)
LEMMA DiscoveringSettled ==
    ASSUME SteadyKU, ReconcileDiscovering
    PROVE  SteadyWrite /\ \A g \in child' : Settled(g)'
<1>1. /\ UNCHANGED <<clusterVars, stepIndex, start>>
      /\ \/ NothingToApply
         \/ \E S, pruned \in SUBSET Group : AppliesChildren(S, pruned)
  BY DiscoveringEffect DEF SteadyKU, KUInv
<1>2. SpecWrite
  BY DiscoveringSpecWrite DEF SteadyKU
<1>3. UNCHANGED version
  BY <1>1 DEF clusterVars, nodeVars
<1>4. ASSUME NEW g \in child, spec'[g].target = Target(g)
      PROVE  Settled(g)'
  BY <1>3, <1>4 DEF SteadyKU, Settled, Target, Member
<1>5. CASE NothingToApply
  <2>1. child' = child /\ spec' = spec
    BY <1>5 DEF NothingToApply, childVars
  <2>. QED BY <1>2, <1>4, <2>1 DEF SteadyWrite, Target
<1>6. ASSUME NEW S \in SUBSET Group, NEW pruned \in SUBSET Group, AppliesChildren(S, pruned)
      PROVE  SteadyWrite /\ \A g \in child' : Settled(g)'
  <2>1. /\ plan' # << >>
        /\ child' \subseteq child \cup S /\ S \subseteq DiscoverGroups
        /\ spec' = [g \in Group |->
                      IF g \in S THEN DesiredSpec(g, plan'[stepIndex].to) ELSE spec[g]]
    BY <1>6 DEF AppliesChildren
  <2>2. plan'[stepIndex].to = Wanted
    BY <1>1, <2>1, DiscoveringAtWanted DEF AtWanted, HopTarget
  <2>3. ASSUME NEW g \in S
        PROVE  /\ Wanted \in Version /\ GroupCurrentVersion(g) \in Version
               /\ \A n \in Member(g) : AtLeast(version[n], GroupCurrentVersion(g))
               /\ \E n \in Member(g) : version[n] = GroupCurrentVersion(g)
               /\ spec'[g].target = IF Before(Wanted, GroupCurrentVersion(g))
                                    THEN GroupCurrentVersion(g) ELSE Wanted
    <3>1. g \in DiscoverGroups /\ spec'[g] = DesiredSpec(g, Wanted)
      BY <2>1, <2>2
    <3>2. Wanted \in KnownVersion /\ Wanted.minor <= Wanted.minor
      BY <2>1, <2>2, DiscoveredPlan DEF SteadyKU
    <3>3. spec'[g].target = NextGroupTarget(GroupCurrentVersion(g), Wanted)
      BY <3>1, <3>2, DesiredSpecType DEF SteadyKU, KUInv, KUTypeOK
    <3>. QED BY <2>1, <2>2, <3>1, <3>3, DiscoveringTarget DEF SteadyKU
  <2>4. ASSUME NEW g \in S, g \in child
        PROVE  spec'[g].target = Target(g)
    <3>. DEFINE c == GroupCurrentVersion(g)
    <3>1. /\ Wanted \in Version /\ c \in Version
          /\ \A n \in Member(g) : AtLeast(version[n], c)
          /\ \E n \in Member(g) : version[n] = c
          /\ spec'[g].target = IF Before(Wanted, c) THEN c ELSE Wanted
      BY <2>3
    <3>2. /\ Target(g) \in Version
          /\ \A n \in Member(g) : version[n] \in Version
      BY KnownIsVersion DEF SteadyKU, KUInv, KUTypeOK, Member
    <3>. HIDE DEF c
    <3>3. CASE Target(g) = Wanted /\ \E n \in Member(g) : AtLeast(Wanted, version[n])
      <4>1. ~Before(Wanted, c)
        BY <3>1, <3>2, <3>3, OldestSettles
      <4>. QED BY <3>1, <3>3, <4>1
    <3>4. CASE /\ Before(Wanted, Target(g))
               /\ \A n \in Member(g) : AtLeast(version[n], Target(g))
               /\ \E n \in Member(g) : version[n] = Target(g)
      <4>1. AtLeast(c, Target(g)) /\ AtLeast(Target(g), c)
        BY <3>1, <3>4
      <4>2. c = Target(g)
        BY <3>1, <3>2, <4>1, BeforeTotal DEF AtLeast
      <4>. QED BY <3>1, <3>4, <4>2
    <3>5. Settled(g)
      BY <2>4 DEF SteadyKU
    <3>. QED BY <3>3, <3>4, <3>5 DEF Settled
  <2>5. ASSUME NEW g \in child \ S PROVE spec'[g].target = Target(g)
    <3>1. g \in Group
      BY DEF SteadyKU, KUInv, KUTypeOK, TypeOK
    <3>. QED BY <2>1, <3>1 DEF Target
  <2>6. ASSUME NEW g \in S PROVE Settled(g)'
    <3>. DEFINE c == GroupCurrentVersion(g)
    <3>1. /\ Wanted \in Version /\ c \in Version
          /\ \A n \in Member(g) : AtLeast(version[n], c)
          /\ \E n \in Member(g) : version[n] = c
          /\ Target(g)' = IF Before(Wanted, c) THEN c ELSE Wanted
      BY <2>3 DEF Target
    <3>2. Member(g)' = Member(g)
      BY DEF Member
    <3>. HIDE DEF c
    <3>. QED BY <1>3, <3>1, <3>2 DEF Settled, AtLeast
  <2>7. \A g \in child : spec'[g].target = Target(g)
    BY <2>4, <2>5
  <2>. QED BY <1>2, <1>4, <2>1, <2>6, <2>7 DEF SteadyWrite
<1>. QED BY <1>1, <1>5, <1>6

LEMMA GroupStepSettled ==
    ASSUME SteadyKU, GroupStep, UNCHANGED kuVars
    PROVE  AtWanted' /\ \A g \in child' : Settled(g)'
<1>1. /\ UNCHANGED <<child, present>>
      /\ \A g \in Group : spec'[g].target = Target(g)
      /\ UNCHANGED version \/ \E n \in Node, v \in KnownVersion : JobInstalls(n, v)
  BY GroupStepEffect DEF SteadyKU, KUInv, KUTypeOK, LimitInv
<1>2. UNCHANGED <<plan, stepIndex>>
  BY DEF kuVars
<1>3. AtWanted'
  BY <1>2 DEF SteadyKU, AtWanted, HopTarget
<1>4. ASSUME NEW g \in child PROVE Settled(g)'
  <2>1. g \in Group /\ Settled(g)
    BY DEF SteadyKU, KUInv, KUTypeOK, TypeOK
  <2>2. Target(g)' = Target(g) /\ Member(g)' = Member(g)
    BY <1>1, <2>1 DEF Target, Member
  <2>3. CASE UNCHANGED version
    BY <2>1, <2>2, <2>3 DEF Settled
  <2>4. ASSUME NEW n \in Node, NEW v \in KnownVersion, JobInstalls(n, v)
        PROVE  Settled(g)'
    <3>1. /\ plan # << >> /\ v = HopTarget
          /\ version' = [version EXCEPT ![n] = HopTarget]
      BY <2>4, InstallsHop DEF SteadyKU
    <3>2. v = Wanted /\ Wanted \in Version /\ AtLeast(Wanted, Wanted)
      BY <3>1, KnownIsVersion, AtLeastItself DEF SteadyKU, AtWanted, KUInv, KUTypeOK
    <3>3. \A m \in Node : version'[m] = IF m = n THEN Wanted ELSE version[m]
      BY <3>1, <3>2 DEF SteadyKU, KUInv, KUTypeOK, TypeOK
    <3>4. v = Target(GroupOf[n]) /\ Before(version[n], v)
      BY <2>4 DEF JobInstalls, SteadyKU, KUInv, BatchInv, JobBehind
    <3>5. CASE Target(g) = Wanted /\ \E m \in Member(g) : AtLeast(Wanted, version[m])
      BY <2>2, <3>2, <3>3, <3>5 DEF Settled, Member
    <3>6. CASE /\ Before(Wanted, Target(g))
               /\ \A m \in Member(g) : AtLeast(version[m], Target(g))
               /\ \E m \in Member(g) : version[m] = Target(g)
      <4>1. n \notin Member(g)
        BY <3>4, <3>6 DEF Member, AtLeast
      <4>2. \A m \in Member(g) : version'[m] = version[m]
        BY <3>3, <4>1 DEF Member
      <4>. QED BY <2>2, <3>6, <4>2 DEF Settled
    <3>. QED BY <2>1, <3>5, <3>6 DEF Settled
  <2>. QED BY <1>1, <2>3, <2>4
<1>. QED BY <1>1, <1>3, <1>4

LEMMA ParentSteadyKU ==
    ASSUME SteadyKU, ReconcileKU
    PROVE  SteadyWrite /\ AtWanted' /\ \A g \in child' : Settled(g)'
<1>1. CASE ReconcileDiscovering
  BY <1>1, DiscoveringAtWanted, DiscoveringSettled
<1>2. SpecWrite
  BY ParentWritesSpec DEF SteadyKU
<1>3. ASSUME UNCHANGED <<child, version, plan, stepIndex>>,
             \A g \in Group : spec'[g].target = Target(g)
      PROVE  SteadyWrite /\ AtWanted' /\ \A g \in child' : Settled(g)'
  <2>1. child \subseteq Group
    BY DEF SteadyKU, KUInv, KUTypeOK, TypeOK
  <2>2. AtWanted'
    BY <1>3 DEF SteadyKU, AtWanted, HopTarget
  <2>3. ASSUME NEW g \in child PROVE Settled(g)'
    BY <1>3, <2>1 DEF SteadyKU, Settled, Target, Member
  <2>. QED BY <1>2, <1>3, <2>1, <2>2, <2>3 DEF SteadyWrite
<1>4. CASE ReconcileControlPlane \/ ReconcileWorkers
  <2>1. UNCHANGED <<child, version, plan, stepIndex>>
    BY <1>4, ReleasingEffect DEF SteadyKU, KUInv, clusterVars, nodeVars
  <2>. QED BY <1>3, <1>4, <2>1, ReleasingSpecWrite DEF SteadyKU, KUInv
<1>5. CASE ReconcilePendingKU \/ ReconcilePrechecks \/ ReconcilePostchecks
  <2>1. /\ UNCHANGED <<child, spec, version, plan>>
        /\ stepIndex' = stepIndex \/ MoreSteps
    BY <1>5, PhaseOnlyKU DEF vars, childVars, nodeVars
  <2>2. stepIndex' = stepIndex
    <3>1. CASE ReconcilePostchecks
      <4>1. plan # << >> /\ stepIndex = Len(plan) /\ Len(plan) \in Nat
        BY <3>1, PostchecksEffect DEF SteadyKU, AtWanted, KUInv, KUTypeOK
      <4>. QED BY <2>1, <4>1 DEF MoreSteps
    <3>2. CASE ReconcilePendingKU \/ ReconcilePrechecks
      BY <3>2 DEF ReconcilePendingKU, ReconcilePrechecks
    <3>. QED BY <1>5, <3>1, <3>2
  <2>. QED BY <1>3, <2>1, <2>2 DEF Target
<1>. QED BY <1>1, <1>4, <1>5 DEF ReconcileKU

LEMMA NextSteadyKU == SteadyKU /\ DoneAtWanted /\ [KUNext]_allVars => SteadyKU' /\ DoneAtWanted'
<1>. SUFFICES ASSUME SteadyKU, DoneAtWanted, [KUNext]_allVars PROVE SteadyKU' /\ DoneAtWanted'
  OBVIOUS
<1>1. KUInv' /\ MovedInHop' /\ DoneAtWanted'
  BY NextKUInv, NextMoved DEF SteadyKU
<1>2. TypeOK /\ BatchInv /\ ProgressInv
  BY DEF SteadyKU, KUInv, KUTypeOK
<1>3. OneHop' /\ start' \in InitVersions
  <2>1. UNCHANGED start
    <3>1. CASE ReconcileDiscovering
      BY <3>1 DEF ReconcileDiscovering
    <3>2. CASE ReconcilePendingKU \/ ReconcilePrechecks \/ ReconcilePostchecks
      BY <3>2, PhaseOnlyKU
    <3>3. CASE ReconcileControlPlane \/ ReconcileWorkers
      BY <3>3, ReleasingEffect DEF SteadyKU, KUInv
    <3>. QED BY <3>1, <3>2, <3>3 DEF KUNext, ReconcileKU, kuVars, allVars
  <2>. QED BY <2>1 DEF SteadyKU, OneHop
<1>4. CASE ReconcileKU
  <2>1. OneAtATime' /\ AimKept' /\ Appliers'
    BY <1>2, <1>4, ParentSteadyKU, WriteSteady DEF SteadyKU
  <2>. QED BY <1>1, <1>3, <1>4, <2>1, ParentSteadyKU DEF SteadyKU
<1>5. CASE GroupStep /\ UNCHANGED kuVars
  <2>1. ASSUME NEW g \in Group, ReconcileGroup(g)
        PROVE  OneAtATime' /\ AimKept' /\ Appliers'
    BY <1>2, <2>1, ReconcileOneAtATime, ReconcileAimKept, ReconcileAppliers DEF SteadyKU
  <2>2. ASSUME NEW g \in Group, TogglePause(g)
        PROVE  OneAtATime' /\ AimKept' /\ Appliers'
    <3>1. SpecWrite
      BY <1>2, <2>2, ParentSpecWrite DEF Parent
    <3>2. \A h \in child : spec'[h].target = Target(h)
      BY <1>2, <2>2 DEF TogglePause, TypeOK, ChildSpec, Target
    <3>. QED BY <1>2, <3>1, <3>2, WriteSteady DEF SteadyKU, SteadyWrite
  <2>3. OneAtATime' /\ AimKept' /\ Appliers'
    BY <1>2, <1>5, <2>1, <2>2, ClusterSteady DEF GroupStep, SteadyKU
  <2>. QED BY <1>1, <1>3, <1>5, <2>3, GroupStepSettled DEF SteadyKU
<1>6. CASE UNCHANGED allVars
  <2>1. UNCHANGED <<child, spec, status, version, applied, plan, stepIndex>>
    BY <1>6 DEF allVars, vars, childVars, nodeVars, jobVars, kuVars
  <2>2. AtWanted' /\ (\A g \in child' : Settled(g)')
    BY <2>1 DEF SteadyKU, AtWanted, HopTarget, Settled, Target, Member
  <2>3. OneAtATime' /\ AimKept' /\ Appliers'
    BY <2>1 DEF SteadyKU, OneAtATime, AimKept, Appliers, Active, Target
  <2>. QED BY <1>1, <1>3, <2>2, <2>3 DEF SteadyKU
<1>. QED BY <1>4, <1>5, <1>6 DEF KUNext, GroupStep

LEMMA InitSteadyKU == FixedFleet /\ OneHop /\ KUInit => SteadyKU /\ DoneAtWanted
<1>. SUFFICES ASSUME FixedFleet, OneHop, KUInit PROVE SteadyKU /\ DoneAtWanted
  OBVIOUS
<1>1. KUInv /\ MovedInHop /\ DoneAtWanted
  BY InitKUInv, InitMoved
<1>2. OneAtATime /\ AimKept /\ Appliers
  BY InitSteady DEF KUInit
<1>3. AtWanted /\ child = {} /\ start \in InitVersions
  BY DEF KUInit, Init, AtWanted
<1>. QED BY <1>1, <1>2, <1>3 DEF SteadyKU

(* One hop, one control-plane group: while the parent holds, releases and  *)
(* applies the control plane again and again, one node at most is told to  *)
(* run "kubeadm upgrade apply" for a version.                              *)
THEOREM UpgradeAppliesOnce ==
    FixedFleet /\ OneHop /\ OneControlPlane /\ KUSpec => []ApplyOnce
<1>1. OneControlPlane /\ SteadyKU => ApplyOnce
  BY SteadyApplyOnce DEF SteadyKU, KUInv, KUTypeOK
<1>2. OneControlPlane => OneControlPlane'
  BY DEF OneControlPlane
<1>. QED BY <1>1, <1>2, InitSteadyKU, NextSteadyKU, PTL DEF KUSpec

(* One hop, and a cache that is never behind the Jobs just created: a node *)
(* is recorded as failed only if its Job has failed or is gone, also when  *)
(* the parent holds the group again in between.                            *)
THEOREM UpgradeFailuresAreReal ==
    FixedFleet /\ OneHop /\ "cache" \notin Faults /\ KUSpec => []FailedMeansJobGone
<1>. DEFINE NoStaleCache == "cache" \notin Faults
<1>1. KUInit => FailedInv
  BY InitSteady DEF KUInit
<1>2. FailedInv => FailedMeansJobGone
  BY DEF FailedInv, FailedMeansJobGone
<1>3. NoStaleCache => NoStaleCache'
  OBVIOUS
<1>4. NoStaleCache /\ SteadyKU /\ FailedInv /\ [KUNext]_allVars => FailedInv'
  <2>. SUFFICES ASSUME NoStaleCache, SteadyKU, FailedInv, [KUNext]_allVars
                PROVE  FailedInv'
    OBVIOUS
  <2>1. ASSUME UNCHANGED <<status, job>> PROVE FailedInv'
    BY <2>1 DEF FailedInv, Member
  <2>2. TypeOK /\ BatchInv /\ AimKept
    BY DEF SteadyKU, KUInv, KUTypeOK
  <2>3. CASE ReconcileKU
    BY <2>1, <2>3, ParentSteadyKU DEF SteadyWrite, SpecWrite, jobVars
  <2>4. ASSUME NEW g \in Group, TogglePause(g) PROVE FailedInv'
    BY <2>1, <2>4 DEF TogglePause, jobVars
  <2>5. ASSUME NEW g \in Group, ReconcileGroup(g) PROVE FailedInv'
    BY <2>2, <2>5, ReconcileFailed
  <2>6. CASE Cluster
    BY <2>2, <2>6, ClusterFailed
  <2>7. CASE UNCHANGED allVars
    BY <2>1, <2>7 DEF allVars, vars, childVars, jobVars
  <2>. QED BY <2>3, <2>4, <2>5, <2>6, <2>7 DEF KUNext
<1>. HIDE DEF NoStaleCache
<1>5. FixedFleet /\ OneHop /\ NoStaleCache /\ KUSpec => []FailedMeansJobGone
  BY <1>1, <1>2, <1>3, <1>4, InitSteadyKU, NextSteadyKU, PTL DEF KUSpec
<1>. QED BY <1>5 DEF NoStaleCache

-----------------------------------------------------------------------------
(* The order of a hop, and its end.                                        *)

(* Every group that counts has a child, from the end of Discovering on. *)
AfterDiscovering ==
    \/ kuPhase \in {"Prechecks", "ControlPlaneUpgrade", "WorkersUpgrade", "Postchecks"}
    \/ kuPhase = "Complete" /\ plan # << >>

AllDiscovered ==
    AfterDiscovering => discovered = DiscoverGroups \ SkipGroup /\ child = discovered

(* What each phase of the parent has seen complete. *)
PhaseOrder ==
    /\ kuPhase \in {"WorkersUpgrade", "Postchecks"} => AllComplete(Children("ControlPlane"))
    /\ kuPhase = "Postchecks" => AllComplete(Children("Worker"))
    /\ kuPhase = "Complete" => AllComplete(child)

PhaseInv == AllDiscovered /\ PhaseOrder

LEMMA InitPhase == KUInit => PhaseInv
BY DEF KUInit, Init, PhaseInv, AllDiscovered, AfterDiscovering, PhaseOrder

(* In one hop a group that is Complete stays Complete, and a group that    *)
(* has begun is not put back.                                              *)
LEMMA GroupStepPhases ==
    ASSUME SteadyKU, GroupStep
    PROVE  \A h \in Group : /\ status[h].phase = "Complete" => status'[h].phase = "Complete"
                            /\ status[h].phase # "" => status'[h].phase # ""
<1>1. TypeOK /\ AimKept
  BY DEF SteadyKU, KUInv, KUTypeOK
<1>2. ASSUME UNCHANGED status
      PROVE  \A h \in Group : /\ status[h].phase = "Complete" => status'[h].phase = "Complete"
                              /\ status[h].phase # "" => status'[h].phase # ""
  BY <1>2
<1>3. ASSUME NEW g \in Group, ReconcileGroup(g)
      PROVE  \A h \in Group : /\ status[h].phase = "Complete" => status'[h].phase = "Complete"
                              /\ status[h].phase # "" => status'[h].phase # ""
  <2>1. ~Reset(g)
    BY <1>1, <1>3, ReconcileAimKept
  <2>2. ASSUME OthersKept(g), status[g].phase # "Complete", status'[g].phase # ""
        PROVE  \A h \in Group : /\ status[h].phase = "Complete" => status'[h].phase = "Complete"
                                /\ status[h].phase # "" => status'[h].phase # ""
    BY <2>2 DEF OthersKept
  <2>3. CASE ReconcilePending(g)
    BY <1>1, <2>2, <2>3, PendingEffect
  <2>4. CASE CompleteGroup(g) \/ NothingActive(g) \/ NoAdapter(g) \/ HandleAdapterError(g)
    BY <1>1, <2>2, <2>4, PhaseOnlyEffect
  <2>5. CASE DrainPass(g)
    BY <1>1, <2>2, <2>5, DrainEffect
  <2>6. CASE UpgradePassInPlace(g) \/ UpgradePassReplace(g) \/ BeginBatchCutShort(g)
    BY <1>1, <2>2, <2>6, UpgradeEffect
  <2>7. CASE VerifyPass(g)
    BY <1>1, <1>2, <2>2, <2>7, VerifyEffect
  <2>. QED BY <1>3, <2>1, <2>3, <2>4, <2>5, <2>6, <2>7 DEF ReconcileGroup
<1>4. ASSUME NEW g \in Group, TogglePause(g) PROVE UNCHANGED status
  BY <1>4 DEF TogglePause
<1>5. CASE Cluster
  <2>1. UNCHANGED status
    BY <1>5 DEF Cluster, JobInstalls, JobCompletes, JobFails, JobExpires, NodeLosesReady,
       NodeRecovers, NodeJoins, DrainTimesOut, PodTerminates, PodScheduled, childVars
  <2>. QED BY <1>2, <2>1
<1>. QED BY <1>2, <1>3, <1>4, <1>5 DEF GroupStep

LEMMA NextPhase == SteadyKU /\ PhaseInv /\ [KUNext]_allVars => PhaseInv'
<1>. SUFFICES ASSUME SteadyKU, PhaseInv, [KUNext]_allVars PROVE PhaseInv'
  OBVIOUS
<1>1. TypeOK /\ child \subseteq Group
  BY DEF SteadyKU, KUInv, KUTypeOK, TypeOK
<1>2. CASE ReconcileDiscovering
  <2>1. /\ UNCHANGED <<clusterVars, stepIndex, start>>
        /\ \/ NothingToApply
           \/ \E S, pruned \in SUBSET Group : AppliesChildren(S, pruned)
    BY <1>2, DiscoveringEffect DEF SteadyKU, KUInv
  <2>2. CASE NothingToApply
    <3>1. plan' = << >> /\ kuPhase' \in {"Complete", "Failed"} /\ child' = child /\ plan = << >>
      BY <2>2 DEF NothingToApply, childVars
    <3>2. child' = {}
      BY <3>1 DEF SteadyKU, KUInv, OnPlan
    <3>. QED BY <3>1, <3>2 DEF PhaseInv, AllDiscovered, AfterDiscovering, PhaseOrder, AllComplete
  <2>3. ASSUME NEW S \in SUBSET Group, NEW pruned \in SUBSET Group, AppliesChildren(S, pruned)
        PROVE  PhaseInv'
    <3>1. /\ child' = (child \cup S) \ pruned /\ pruned \subseteq PruneCandidates
          /\ \/ /\ kuPhase' = "Prechecks" /\ S = DiscoverGroups \ SkipGroup
                /\ discovered' = DiscoverGroups \ SkipGroup
             \/ kuPhase' = "Discovering"
      BY <2>3 DEF AppliesChildren
    <3>2. child \subseteq DiscoverGroups \ SkipGroup /\ PruneCandidates = {}
      BY DEF SteadyKU, KUInv, OnTarget, PruneCandidates
    <3>3. DiscoverGroups' = DiscoverGroups
      BY <2>1 DEF DiscoverGroups, LiveMember, Member, clusterVars, nodeVars
    <3>. QED BY <3>1, <3>2, <3>3 DEF PhaseInv, AllDiscovered, AfterDiscovering, PhaseOrder
  <2>. QED BY <2>1, <2>2, <2>3
<1>3. ASSUME UNCHANGED <<child, present, discovered, plan>>
      PROVE  /\ DiscoverGroups' = DiscoverGroups
             /\ \A role : Children(role)' = Children(role)
  BY <1>3 DEF DiscoverGroups, LiveMember, Member, Children
<1>4. CASE ReconcilePendingKU \/ ReconcilePrechecks \/ ReconcilePostchecks
  <2>1. UNCHANGED <<child, status, present, discovered, plan>>
    BY <1>4, PhaseOnlyKU DEF vars, childVars, nodeVars
  <2>2. CASE ReconcilePendingKU
    <3>1. kuPhase' = "Discovering"
      BY <2>2 DEF ReconcilePendingKU
    <3>. QED BY <3>1 DEF PhaseInv, AllDiscovered, AfterDiscovering, PhaseOrder
  <2>3. CASE ReconcilePrechecks
    <3>1. /\ kuPhase = "Prechecks"
          /\ kuPhase' = IF \E g \in discovered : Role[g] = "ControlPlane"
                        THEN "ControlPlaneUpgrade" ELSE "WorkersUpgrade"
      BY <2>3 DEF ReconcilePrechecks
    <3>2. discovered = DiscoverGroups \ SkipGroup /\ child = discovered
      BY <3>1 DEF PhaseInv, AllDiscovered, AfterDiscovering
    <3>3. kuPhase' = "WorkersUpgrade" => Children("ControlPlane")' = {}
      BY <2>1, <3>1, <3>2 DEF Children
    <3>. QED BY <1>3, <2>1, <3>1, <3>2, <3>3
             DEF PhaseInv, AllDiscovered, AfterDiscovering, PhaseOrder, AllComplete
  <2>4. CASE ReconcilePostchecks
    <3>1. kuPhase = "Postchecks" /\ kuPhase' \in {"Discovering", "Complete"} /\ plan # << >>
      BY <2>4, PostchecksEffect DEF ReconcilePostchecks, SteadyKU
    <3>2. child = Children("ControlPlane") \cup Children("Worker")
      BY <1>1, NodeAssumption DEF Children
    <3>3. AllComplete(child)
      BY <3>1, <3>2 DEF PhaseInv, PhaseOrder, AllComplete
    <3>. QED BY <1>3, <2>1, <3>1, <3>3
             DEF PhaseInv, AllDiscovered, AfterDiscovering, PhaseOrder, AllComplete
  <2>. QED BY <1>4, <2>2, <2>3, <2>4
<1>5. CASE ReconcileControlPlane \/ ReconcileWorkers
  <2>1. UNCHANGED <<child, status, present, discovered, plan>>
    BY <1>5, ReleasingEffect DEF SteadyKU, KUInv, clusterVars, nodeVars
  <2>2. /\ AfterDiscovering /\ kuPhase' # "Complete"
        /\ kuPhase' = "WorkersUpgrade" =>
              kuPhase = "WorkersUpgrade" \/ AllComplete(Children("ControlPlane"))
        /\ kuPhase' = "Postchecks" =>
              kuPhase = "WorkersUpgrade" /\ AllComplete(Children("Worker"))
    <3>1. CASE ReconcileControlPlane
      BY <3>1 DEF ReconcileControlPlane, AfterDiscovering
    <3>2. CASE ReconcileWorkers
      BY <3>2 DEF ReconcileWorkers, AfterDiscovering
    <3>. QED BY <1>5, <3>1, <3>2
  <2>3. AllDiscovered'
    BY <1>3, <2>1, <2>2 DEF PhaseInv, AllDiscovered
  <2>4. PhaseOrder'
    BY <1>3, <2>1, <2>2 DEF PhaseInv, PhaseOrder, AllComplete
  <2>. QED BY <2>3, <2>4 DEF PhaseInv
<1>6. CASE GroupStep /\ UNCHANGED kuVars
  <2>1. UNCHANGED <<child, present>>
    BY <1>6, GroupStepEffect DEF SteadyKU, KUInv, KUTypeOK, LimitInv
  <2>2. UNCHANGED <<kuPhase, discovered, plan>>
    BY <1>6 DEF kuVars
  <2>3. \A S \in SUBSET Group : AllComplete(S) => AllComplete(S)'
    BY <1>6, GroupStepPhases DEF AllComplete
  <2>4. \A role : Children(role) \in SUBSET Group
    BY <1>1 DEF Children
  <2>5. AllDiscovered'
    BY <1>3, <2>1, <2>2 DEF PhaseInv, AllDiscovered, AfterDiscovering
  <2>6. PhaseOrder'
    BY <1>1, <1>3, <2>1, <2>2, <2>3, <2>4 DEF PhaseInv, PhaseOrder, AllComplete
  <2>. QED BY <2>5, <2>6 DEF PhaseInv
<1>7. CASE UNCHANGED allVars
  <2>1. UNCHANGED <<child, status, present, kuPhase, discovered, plan>>
    BY <1>7 DEF allVars, vars, childVars, nodeVars, kuVars
  <2>. QED BY <1>3, <2>1 DEF PhaseInv, AllDiscovered, AfterDiscovering, PhaseOrder, AllComplete
<1>. QED BY <1>2, <1>4, <1>5, <1>6, <1>7 DEF KUNext, ReconcileKU, GroupStep

(* A group without an object has not begun, and one that is Complete has   *)
(* finished every node: neither has a node in progress.                    *)
LEMMA NothingInProgress ==
    ASSUME ProgressInv, NEW g \in Group, g \in child => status[g].phase = "Complete"
    PROVE  Active(g) = {}
<1>1. CASE g \in child
  BY <1>1 DEF ProgressInv, Progress, Entries, Active
<1>2. CASE g \notin child
  BY <1>2 DEF ProgressInv, Progress, Entries, Active
<1>. QED BY <1>1, <1>2

(* One hop, for every fleet, limit and fault: when the upgrade is reported *)
(* Complete every child has finished and no node is left cordoned.         *)
THEOREM UpgradeLeavesNothingBehind ==
    FixedFleet /\ OneHop /\ KUSpec => []CompleteLeavesNothingBehind
<1>1. SteadyKU /\ PhaseInv => CompleteLeavesNothingBehind
  <2>. SUFFICES ASSUME SteadyKU, PhaseInv, kuPhase = "Complete"
                PROVE  AllComplete(discovered) /\ cordoned = {}
    BY DEF CompleteLeavesNothingBehind
  <2>1. discovered = child
    <3>1. CASE plan = << >>
      BY <3>1 DEF SteadyKU, KUInv, OnPlan
    <3>2. CASE plan # << >>
      BY <3>2 DEF PhaseInv, AllDiscovered, AfterDiscovering
    <3>. QED BY <3>1, <3>2
  <2>2. AllComplete(child)
    BY DEF PhaseInv, PhaseOrder
  <2>3. ASSUME NEW n \in cordoned PROVE FALSE
    <3>. DEFINE g == GroupOf[n]
    <3>1. n \in Node /\ g \in Group /\ n \in Member(g)
      BY NodeAssumption DEF SteadyKU, KUInv, KUTypeOK, TypeOK, Member
    <3>2. n \in Active(g)
      BY <3>1 DEF SteadyKU, KUInv, LimitInv, WholeGroup
    <3>3. Active(g) = {}
      <4>1. ProgressInv
        BY DEF SteadyKU, KUInv
      <4>2. g \in child => status[g].phase = "Complete"
        BY <2>2 DEF AllComplete
      <4>. HIDE DEF g
      <4>. QED BY <3>1, <4>1, <4>2, NothingInProgress
    <3>. QED BY <3>2, <3>3
  <2>. QED BY <2>1, <2>2, <2>3
<1>. QED BY <1>1, InitSteadyKU, NextSteadyKU, InitPhase, NextPhase, PTL DEF KUSpec

(* The control plane is part of the upgrade. *)
ControlPlaneIncluded == \A g \in SkipGroup : Role[g] # "ControlPlane"

ControlPlaneDone == \A c \in ControlPlaneNode : AtLeast(version[c], Wanted)

(* Until the control plane is at the requested version the workers are     *)
(* held and have not begun; and a Job belongs to a group that has.         *)
WorkersWait ==
    \/ ControlPlaneDone
    \/ \A g \in Children("Worker") : spec[g].hold /\ status[g].phase = ""

JobsStarted ==
    \A n \in Node, v \in KnownVersion :
        job[n][v] = "running" => status[GroupOf[n]].phase # ""

LEMMA CompleteControlPlane ==
    ASSUME SteadyKU, PhaseInv, ControlPlaneIncluded, kuPhase = "WorkersUpgrade"
    PROVE  ControlPlaneDone
<1>. SUFFICES ASSUME NEW c \in ControlPlaneNode PROVE AtLeast(version[c], Wanted)
  BY DEF ControlPlaneDone
<1>. DEFINE g == GroupOf[c]
<1>1. TypeOK /\ FleetComplete /\ ProgressInv
  BY DEF SteadyKU, KUInv, KUTypeOK, LimitInv
<1>2. c \in Node /\ g \in Group /\ Role[g] = "ControlPlane" /\ c \in Member(g)
  BY <1>1, NodeAssumption DEF ControlPlaneNode, TypeOK, Member
<1>3. g \in child
  <2>1. g \in DiscoverGroups /\ g \notin SkipGroup
    BY <1>1, <1>2, WholeFleet DEF ControlPlaneIncluded
  <2>. QED BY <2>1 DEF PhaseInv, AllDiscovered, AfterDiscovering
<1>4. status[g].phase = "Complete"
  BY <1>2, <1>3 DEF PhaseInv, PhaseOrder, AllComplete, Children
<1>5. c \in status[g].completed
  <2>1. status[g].seeded = Member(g)
    BY <1>2, <1>4 DEF SteadyKU, KUInv, LimitInv, WholeGroup
  <2>2. status[g].seeded \subseteq status[g].completed
    BY <1>1, <1>2, <1>4 DEF ProgressInv, Progress, Entries
  <2>. QED BY <1>2, <2>1, <2>2
<1>6. AtLeast(version[c], Target(g))
  <2>1. status[g].to = Target(g)
    BY <1>2, <1>4 DEF SteadyKU, AimKept
  <2>. QED BY <1>1, <1>2, <1>5, <2>1 DEF ProgressInv, Progress, CompletedDone
<1>7. version[c] \in Version /\ Target(g) \in Version /\ Wanted \in Version
  BY <1>1, <1>2, KnownIsVersion
<1>8. AtLeast(Target(g), Wanted)
  <2>1. Target(g) = Wanted \/ Before(Wanted, Target(g))
    BY <1>3 DEF SteadyKU, Settled
  <2>. HIDE DEF g
  <2>. QED BY <1>7, <2>1, AtLeastItself, BeforeAtLeast
<1>. HIDE DEF g
<1>. QED BY <1>6, <1>7, <1>8, AtLeastTransitive

LEMMA NextJobsStarted == SteadyKU /\ JobsStarted /\ [KUNext]_allVars => JobsStarted'
<1>. SUFFICES ASSUME SteadyKU, JobsStarted, [KUNext]_allVars,
                     NEW n \in Node, NEW v \in KnownVersion, job'[n][v] = "running"
              PROVE  status'[GroupOf[n]].phase # ""
  BY DEF JobsStarted
<1>1. GroupOf[n] \in Group
  BY NodeAssumption
<1>2. CASE ReconcileKU
  <2>1. UNCHANGED <<status, job>>
    BY <1>2, ParentSteadyKU DEF SteadyWrite, SpecWrite, jobVars
  <2>. QED BY <2>1 DEF JobsStarted
<1>3. CASE GroupStep
  <2>1. status[GroupOf[n]].phase # "" => status'[GroupOf[n]].phase # ""
    BY <1>1, <1>3, GroupStepPhases
  <2>2. ASSUME NEW g \in Group, ReconcileGroup(g)
        PROVE  status[GroupOf[n]].phase # ""
    <3>1. CASE n \in Active(g)
      <4>1. GroupOf[n] = g
        BY <3>1, BatchOwn DEF SteadyKU, KUInv, KUTypeOK, Member
      <4>2. status[g].phase # ""
        BY <3>1 DEF SteadyKU, KUInv, ProgressInv, Progress, Entries, Active
      <4>. QED BY <4>1, <4>2
    <3>2. CASE n \notin Active(g)
      <4>1. job'[n] = job[n]
        BY <2>2, <3>2, ReconcileJobs DEF SteadyKU, KUInv, KUTypeOK
      <4>. QED BY <4>1 DEF JobsStarted
    <3>. QED BY <3>1, <3>2
  <2>3. ASSUME NEW g \in Group, TogglePause(g) PROVE status[GroupOf[n]].phase # ""
    <3>1. UNCHANGED job
      BY <2>3 DEF TogglePause, jobVars
    <3>. QED BY <3>1 DEF JobsStarted
  <2>4. CASE Cluster
    <3>1. job[n][v] = "running"
      <4>1. job \in [Node -> [KnownVersion -> JobState]]
        BY DEF SteadyKU, KUInv, KUTypeOK, TypeOK
      <4>2. ASSUME NEW m \in Node, NEW w \in KnownVersion, NEW s,
                   SetJob(m, w, s), s # "running"
            PROVE  job[n][v] = "running"
        BY <4>1, <4>2 DEF SetJob
      <4>3. CASE \E m \in Node, w \in KnownVersion :
                    \/ JobInstalls(m, w) \/ JobCompletes(m, w)
                    \/ JobFails(m, w) \/ JobExpires(m, w)
        BY <4>2, <4>3 DEF JobInstalls, JobCompletes, JobFails, JobExpires
      <4>4. CASE UNCHANGED job
        BY <4>4
      <4>. QED BY <2>4, <4>3, <4>4
               DEF Cluster, NodeLosesReady, NodeRecovers, NodeJoins, DrainTimesOut,
                   PodTerminates, PodScheduled, jobVars
    <3>. QED BY <2>1, <3>1 DEF JobsStarted
  <2>. QED BY <1>3, <2>1, <2>2, <2>3, <2>4 DEF GroupStep
<1>4. CASE UNCHANGED allVars
  BY <1>4 DEF JobsStarted, allVars, vars, childVars, jobVars
<1>. QED BY <1>2, <1>3, <1>4 DEF KUNext, GroupStep

LEMMA ControlPlaneDoneStable ==
    ASSUME SteadyKU, ControlPlaneDone, [KUNext]_allVars
    PROVE  ControlPlaneDone'
<1>1. TypeOK /\ FixedFleet /\ FleetComplete
  BY DEF SteadyKU, KUInv, KUTypeOK, LimitInv
<1>2. ASSUME UNCHANGED <<present, version>> PROVE ControlPlaneDone'
  BY <1>2 DEF ControlPlaneDone, ControlPlaneNode
<1>3. CASE ReconcileKU
  BY <1>2, <1>3, ParentSteadyKU DEF SteadyWrite, SpecWrite, nodeVars
<1>4. CASE GroupStep
  <2>1. UNCHANGED present
    BY <1>1, <1>4, GroupStepEffect
  <2>2. ASSUME NEW c \in ControlPlaneNode PROVE AtLeast(version'[c], Wanted)
    <3>1. c \in Node /\ AtLeast(version[c], Wanted)
      BY <1>1, <2>2 DEF ControlPlaneDone, ControlPlaneNode, TypeOK
    <3>2. version'[c] \in Version /\ AtLeast(version'[c], version[c])
      BY <1>4, <3>1, GroupStepVersions DEF SteadyKU
    <3>3. version[c] \in Version /\ Wanted \in Version
      BY <1>1, <3>1, KnownIsVersion
    <3>. QED BY <3>1, <3>2, <3>3, AtLeastTransitive
  <2>. QED BY <2>1, <2>2 DEF ControlPlaneDone, ControlPlaneNode
<1>5. CASE UNCHANGED allVars
  BY <1>2, <1>5 DEF allVars, vars, nodeVars
<1>. QED BY <1>3, <1>4, <1>5 DEF KUNext, GroupStep

(* A held group is left alone by its own controller. *)
LEMMA HeldWaits == \A g : ReconcileGroup(g) => ~spec[g].hold
<1>. SUFFICES ASSUME NEW g, ReconcileGroup(g) PROVE ~spec[g].hold
  OBVIOUS
<1>1. \E ph : Reconciling(g, ph)
  BY DEF ReconcileGroup, ReconcilePending, Reset, DrainPass, CompleteGroup, NothingActive,
     NoAdapter, HandleAdapterError, AtAdapter, UpgradePassInPlace, UpgradePassReplace,
     BeginBatchCutShort, UpgradePassEnabled, VerifyPass
<1>. QED BY <1>1 DEF Reconciling

LEMMA NextWorkersWait ==
    ControlPlaneIncluded /\ SteadyKU /\ PhaseInv /\ WorkersWait /\ [KUNext]_allVars
        => WorkersWait'
<1>. SUFFICES ASSUME ControlPlaneIncluded, SteadyKU, PhaseInv, WorkersWait, [KUNext]_allVars,
                     ~ControlPlaneDone, NEW g \in Children("Worker")'
              PROVE  spec'[g].hold /\ status'[g].phase = ""
  BY ControlPlaneDoneStable DEF WorkersWait
<1>1. TypeOK /\ FixedFleet /\ FleetComplete /\ ProgressInv
  BY DEF SteadyKU, KUInv, KUTypeOK, LimitInv
<1>2. \A h \in Children("Worker") : spec[h].hold /\ status[h].phase = ""
  BY DEF WorkersWait
<1>3. g \in child' /\ Role[g] = "Worker"
  BY DEF Children
<1>4. g \in child => spec[g].hold /\ status[g].phase = "" /\ g \in Group
  BY <1>1, <1>2, <1>3 DEF Children, TypeOK
<1>5. CASE ReconcileDiscovering
  <2>1. status' = status
    BY <1>5, DiscoveringSpecWrite DEF SteadyKU, SpecWrite
  <2>2. \/ NothingToApply
        \/ \E S, pruned \in SUBSET Group : AppliesChildren(S, pruned)
    BY <1>5, DiscoveringEffect DEF SteadyKU, KUInv
  <2>3. CASE NothingToApply
    BY <1>3, <1>4, <2>3 DEF NothingToApply, childVars
  <2>4. ASSUME NEW S \in SUBSET Group, NEW pruned \in SUBSET Group, AppliesChildren(S, pruned)
        PROVE  spec'[g].hold /\ status'[g].phase = ""
    <3>1. /\ child' \subseteq child \cup S /\ S \subseteq DiscoverGroups /\ plan' # << >>
          /\ spec' = [h \in Group |->
                        IF h \in S THEN DesiredSpec(h, plan'[stepIndex].to) ELSE spec[h]]
      BY <2>4 DEF AppliesChildren
    <3>2. g \in Group /\ g \in child \cup S
      BY <1>3, <1>4, <3>1
    <3>3. status[g].phase = ""
      BY <1>1, <1>4, <3>2 DEF ProgressInv, Progress, Entries
    <3>4. CASE g \in S
      <4>1. /\ plan'[stepIndex].to \in KnownVersion
            /\ plan'[stepIndex].to.minor <= Wanted.minor
        BY <1>5, <3>1, DiscoveredPlan DEF SteadyKU
      <4>2. spec'[g] = DesiredSpec(g, plan'[stepIndex].to) /\ g \in DiscoverGroups
        BY <3>1, <3>2, <3>4
      <4>3. spec'[g].hold
        BY <1>1, <4>1, <4>2, DesiredSpecType
      <4>. QED BY <2>1, <3>3, <4>3
    <3>5. CASE g \notin S
      <4>1. spec'[g] = spec[g]
        BY <3>1, <3>2, <3>5
      <4>. QED BY <1>4, <2>1, <3>2, <3>3, <3>5, <4>1
    <3>. QED BY <3>4, <3>5
  <2>. QED BY <2>2, <2>3, <2>4
<1>6. CASE ReconcilePendingKU \/ ReconcilePrechecks \/ ReconcilePostchecks
  BY <1>3, <1>4, <1>6, PhaseOnlyKU DEF vars, childVars
<1>7. CASE ReconcileControlPlane
  <2>1. ReleaseHolds(Children("ControlPlane")) /\ UNCHANGED <<child, status>>
    BY <1>7 DEF ReconcileControlPlane
  <2>2. g \notin Children("ControlPlane")
    BY <1>3 DEF Children
  <2>. QED BY <1>1, <1>3, <1>4, <2>1, <2>2, ReleaseEffect
<1>8. ~ReconcileWorkers
  BY CompleteControlPlane DEF ReconcileWorkers
<1>9. ASSUME NEW h \in Group, ReconcileGroup(h)
      PROVE  spec'[g].hold /\ status'[g].phase = ""
  <2>1. UNCHANGED <<child, spec>> /\ OthersKept(h)
    <3>1. CASE ReconcilePending(h) \/ Reset(h)
      BY <1>1, <3>1, PendingEffect, ResetEffect
    <3>2. CASE CompleteGroup(h) \/ NothingActive(h) \/ NoAdapter(h) \/ HandleAdapterError(h)
      BY <1>1, <3>2, PhaseOnlyEffect
    <3>3. CASE DrainPass(h)
      BY <1>1, <3>3, DrainEffect
    <3>4. CASE UpgradePassInPlace(h) \/ UpgradePassReplace(h) \/ BeginBatchCutShort(h)
      BY <1>1, <3>4, UpgradeEffect
    <3>5. CASE VerifyPass(h)
      BY <1>1, <3>5, VerifyEffect
    <3>. QED BY <1>9, <3>1, <3>2, <3>3, <3>4, <3>5 DEF ReconcileGroup
  <2>2. g \in child /\ g # h
    BY <1>3, <1>4, <1>9, <2>1, HeldWaits
  <2>. QED BY <1>4, <2>1, <2>2 DEF OthersKept
<1>10. ASSUME NEW h \in Group, TogglePause(h)
       PROVE  spec'[g].hold /\ status'[g].phase = ""
  <2>1. UNCHANGED <<child, status>> /\ spec' = [spec EXCEPT ![h].paused = ~@]
    BY <1>10 DEF TogglePause
  <2>2. spec'[g].hold = spec[g].hold
    BY <1>1, <1>3, <1>4, <2>1 DEF TypeOK, ChildSpec
  <2>. QED BY <1>3, <1>4, <2>1, <2>2
<1>11. CASE Cluster
  <2>1. UNCHANGED childVars
    BY <1>11 DEF Cluster, JobInstalls, JobCompletes, JobFails, JobExpires, NodeLosesReady,
       NodeRecovers, NodeJoins, DrainTimesOut, PodTerminates, PodScheduled
  <2>. QED BY <1>3, <1>4, <2>1 DEF childVars
<1>12. CASE UNCHANGED allVars
  BY <1>3, <1>4, <1>12 DEF allVars, vars, childVars
<1>. QED BY <1>5, <1>6, <1>7, <1>8, <1>9, <1>10, <1>11, <1>12 DEF KUNext, ReconcileKU

(* One hop, with the control plane in scope: however the passes of parent  *)
(* and children interleave, and whichever are cut short, no executor runs  *)
(* on a worker for a version some control-plane node has not reached.      *)
THEOREM ControlPlaneGoesFirst ==
    FixedFleet /\ OneHop /\ ControlPlaneIncluded /\ KUSpec => []ControlPlaneFirst
<1>1. KUInit => WorkersWait /\ JobsStarted
  <2>. SUFFICES ASSUME KUInit PROVE WorkersWait /\ JobsStarted
    OBVIOUS
  <2>1. child = {} /\ job = [n \in Node |-> [v \in KnownVersion |-> "none"]]
    BY DEF KUInit, Init
  <2>. QED BY <2>1 DEF WorkersWait, Children, JobsStarted
<1>2. SteadyKU /\ WorkersWait /\ JobsStarted => ControlPlaneFirst
  <2>. SUFFICES ASSUME SteadyKU, WorkersWait, JobsStarted,
                       NEW n \in Node \ ControlPlaneNode, NEW v \in KnownVersion,
                       job[n][v] = "running"
                PROVE  \A c \in ControlPlaneNode : AtLeast(version[c], v)
    BY DEF ControlPlaneFirst
  <2>. DEFINE g == GroupOf[n]
  <2>1. /\ g \in child /\ v = Target(g) /\ Before(version[n], v) /\ n \in Member(g)
    BY DEF SteadyKU, KUInv, BatchInv, JobBehind, Member
  <2>2. v = Wanted
    <3>1. Aimed(g) /\ plan # << >>
      BY <2>1 DEF SteadyKU, KUInv, OnTarget, OnPlan
    <3>2. v = HopTarget
      BY <2>1, <3>1 DEF Aimed, AtLeast
    <3>. QED BY <3>1, <3>2 DEF SteadyKU, AtWanted
  <2>3. g \in Children("Worker")
    <3>1. n \in present /\ g \in Group
      BY NodeAssumption DEF SteadyKU, KUInv, LimitInv, FleetComplete
    <3>2. Role[g] # "ControlPlane"
      BY <3>1 DEF ControlPlaneNode
    <3>. QED BY <2>1, <3>1, <3>2, NodeAssumption DEF Children
  <2>4. status[g].phase # ""
    BY DEF JobsStarted
  <2>. QED BY <2>2, <2>3, <2>4 DEF WorkersWait, ControlPlaneDone
<1>3. ControlPlaneIncluded => ControlPlaneIncluded'
  BY DEF ControlPlaneIncluded
<1>. QED BY <1>1, <1>2, <1>3, InitSteadyKU, NextSteadyKU, InitPhase, NextPhase, NextJobsStarted,
         NextWorkersWait, PTL DEF KUSpec
=============================================================================
