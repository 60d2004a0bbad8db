-------------------------- MODULE K8sVersionProofs --------------------------
(***************************************************************************)
(* What CompareVersions, NextGroupTarget and ComputeStepPlan guarantee for *)
(* every version, not only those of a model-checked instance.              *)
(***************************************************************************)
EXTENDS K8sVersion, WellFoundedInduction, TLAPS

(* CompareVersions orders versions totally. *)
LEMMA BeforeTotal ==
    ASSUME NEW a \in Version, NEW b \in Version
    PROVE  Before(a, b) \/ Before(b, a) \/ a = b
<1>1. /\ a = [major |-> a.major, minor |-> a.minor, patch |-> a.patch]
      /\ b = [major |-> b.major, minor |-> b.minor, patch |-> b.patch]
  BY DEF Version
<1>2. /\ a.major \in Nat /\ a.minor \in Nat /\ a.patch \in Nat
      /\ b.major \in Nat /\ b.minor \in Nat /\ b.patch \in Nat
  BY DEF Version
<1>. QED BY <1>1, <1>2 DEF Before

(* AtLeast is transitive, alone and after a strict step. *)
LEMMA AtLeastTransitive ==
    ASSUME NEW a \in Version, NEW b \in Version, NEW c \in Version,
           AtLeast(a, b), AtLeast(b, c)
    PROVE  AtLeast(a, c)
BY DEF AtLeast, Before, Version

LEMMA BeforeAtLeast ==
    ASSUME NEW a \in Version, NEW b \in Version, Before(a, b)
    PROVE  AtLeast(b, a) /\ a # b
BY DEF AtLeast, Before, Version

LEMMA BeforeThenAtLeast ==
    ASSUME NEW a \in Version, NEW b \in Version, NEW c \in Version,
           Before(a, b), AtLeast(c, b)
    PROVE  Before(a, c)
BY DEF AtLeast, Before, Version

(* A range of versions whose ends are within one minor of each other lies  *)
(* within one minor.                                                       *)
LEMMA OneMinorRange ==
    ASSUME NEW lo \in Version, NEW hi \in Version, WithinOneMinor(lo, hi),
           NEW a \in Version, NEW b \in Version,
           AtLeast(a, lo), AtLeast(hi, b), Before(a, b)
    PROVE  WithinOneMinor(a, b)
BY DEF WithinOneMinor, SameMajor, MinorDiff, AtLeast, Before, Version

LEMMA LeastNatural ==
    ASSUME NEW S \in SUBSET Nat, S # {}
    PROVE  \E x \in S : \A y \in S : x <= y
<1>1. PICK x \in S : \A y \in S : ~(<<y, x>> \in OpToRel(<, Nat))
  BY NatLessThanWellFounded, WFMin, Zenon
<1>2. \A y \in S : ~(y < x)
  BY <1>1 DEF OpToRel
<1>. QED BY <1>2

(* GroupCurrentVersion and OldestVersionAcrossGroups return a version of   *)
(* the set that no other is older than, however large the set.             *)
LEMMA OldestVersionIsOldest ==
    ASSUME NEW S \in SUBSET Version, S # {}
    PROVE  /\ OldestVersion(S) \in S
           /\ \A w \in S : AtLeast(w, OldestVersion(S))
<1>1. PICK a \in S : \A w \in S : a.major <= w.major
  <2>. DEFINE M == {w.major : w \in S}
  <2>1. M \in SUBSET Nat /\ M # {}
    BY DEF Version
  <2>2. PICK x \in M : \A y \in M : x <= y
    BY <2>1, LeastNatural
  <2>. QED BY <2>2
<1>2. PICK b \in S : /\ b.major = a.major
                     /\ \A w \in S : w.major = a.major => b.minor <= w.minor
  <2>. DEFINE M == {w.minor : w \in {u \in S : u.major = a.major}}
  <2>1. M \in SUBSET Nat /\ M # {}
    BY DEF Version
  <2>2. PICK x \in M : \A y \in M : x <= y
    BY <2>1, LeastNatural
  <2>. QED BY <2>2
<1>3. PICK c \in S : /\ c.major = a.major /\ c.minor = b.minor
                     /\ \A w \in S : w.major = a.major /\ w.minor = b.minor
                                     => c.patch <= w.patch
  <2>. DEFINE M == {w.patch : w \in {u \in S : u.major = a.major /\ u.minor = b.minor}}
  <2>1. M \in SUBSET Nat /\ M # {}
    BY <1>2 DEF Version
  <2>2. PICK x \in M : \A y \in M : x <= y
    BY <2>1, LeastNatural
  <2>. QED BY <2>2
<1>4. \A w \in S : AtLeast(w, c)
  BY <1>1, <1>2, <1>3 DEF AtLeast, Before, Version
<1>. QED BY <1>4 DEF OldestVersion

-----------------------------------------------------------------------------

LEMMA NextGroupTargetType ==
    ASSUME NEW c \in Version, NEW h \in Version
    PROVE  NextGroupTarget(c, h) \in Version
BY DEF NextGroupTarget, V, Version

(* NextGroupTarget never moves a group backward, whatever hop it is given: *)
(* the regression its doc comment warns of cannot happen.                  *)
THEOREM NextGroupTargetNeverBackward ==
    ASSUME NEW c \in Version, NEW h \in Version
    PROVE  AtLeast(NextGroupTarget(c, h), c)
<1>1. CASE Before(h, c)
  BY <1>1 DEF NextGroupTarget, AtLeast, Before, Version
<1>2. CASE ~Before(h, c) /\ MinorDiff(c, h) <= 1
  BY <1>2 DEF NextGroupTarget, AtLeast
<1>3. CASE ~Before(h, c) /\ ~(MinorDiff(c, h) <= 1)
  BY <1>3 DEF NextGroupTarget, AtLeast, Before, V, Version
<1>. QED BY <1>1, <1>2, <1>3

(* NextGroupTarget never asks a group to skip a minor version. *)
THEOREM NextGroupTargetOneMinor ==
    ASSUME NEW c \in Version, NEW h \in Version, SameMajor(c, h)
    PROVE  WithinOneMinor(c, NextGroupTarget(c, h))
BY DEF NextGroupTarget, WithinOneMinor, SameMajor, MinorDiff, Before, V, Version

(* A group behind the hop gets a target strictly above it and not above    *)
(* the hop: every pass of reconcileDiscovering brings it closer.           *)
THEOREM NextGroupTargetProgress ==
    ASSUME NEW c \in Version, NEW h \in Version, SameMajor(c, h), Before(c, h)
    PROVE  /\ Before(c, NextGroupTarget(c, h))
           /\ AtLeast(h, NextGroupTarget(c, h))
<1>1. ~Before(h, c)
  BY DEF Before, Version
<1>2. CASE MinorDiff(c, h) <= 1
  BY <1>1, <1>2 DEF NextGroupTarget, AtLeast, Before, Version
<1>3. CASE ~(MinorDiff(c, h) <= 1)
  BY <1>1, <1>3 DEF NextGroupTarget, MinorDiff, SameMajor, AtLeast, Before, V, Version
<1>. QED BY <1>2, <1>3

-----------------------------------------------------------------------------
(* Step plans.                                                             *)

(* A plan climbs from a to b: hops of at most one minor, each strictly up, *)
(* each starting where the one before it ends.                             *)
Climbs(steps, a, b) ==
    /\ steps \in Seq([from : Version, to : Version])
    /\ steps # << >>
    /\ steps[1].from = a
    /\ steps[Len(steps)].to = b
    /\ \A i \in 1..Len(steps) : /\ Before(steps[i].from, steps[i].to)
                                /\ WithinOneMinor(steps[i].from, steps[i].to)
    /\ \A i \in 1..(Len(steps) - 1) : steps[i + 1].from = steps[i].to

(* A function on 1..d is a sequence of length d. *)
LEMMA FunctionIsSequence ==
    ASSUME NEW T, NEW d \in Nat, NEW f \in [1..d -> T]
    PROVE  f \in Seq(T) /\ Len(f) = d
OBVIOUS

LEMMA HopVersionType ==
    ASSUME NEW c \in Version, NEW t \in Version, NEW i \in Nat
    PROVE  HopVersion(c, t, i) \in Version
BY DEF HopVersion, V, Version

LEMMA MinorHopsClimb ==
    ASSUME NEW c \in Version, NEW t \in Version,
           SameMajor(c, t), MinorDiff(c, t) > 0
    PROVE  Climbs(MinorHops(c, t), c, t)
<1>. DEFINE d == MinorDiff(c, t)
            s == MinorHops(c, t)
            H(i) == HopVersion(c, t, i)
            F(i) == IF i = 1 THEN c ELSE H(i - 1)
<1>1. d \in Nat /\ d > 0
  BY DEF MinorDiff, Version
<1>2. \A i \in 1..d : F(i) \in Version /\ H(i) \in Version
  BY <1>1, HopVersionType
<1>. HIDE DEF d
<1>3. s = [i \in 1..d |-> [from |-> F(i), to |-> H(i)]]
  BY DEF MinorHops, Hop, d
<1>4. s \in Seq([from : Version, to : Version]) /\ Len(s) = d
  <2>1. s \in [1..d -> [from : Version, to : Version]]
    BY <1>2, <1>3
  <2>. QED BY <2>1, <1>1, FunctionIsSequence
<1>5. \A i \in 1..d : s[i].from = F(i) /\ s[i].to = H(i)
  BY <1>3
<1>6. H(d) = t
  BY DEF HopVersion, d
<1>7. ASSUME NEW i \in 1..d
      PROVE  Before(F(i), H(i)) /\ WithinOneMinor(F(i), H(i))
  <2>1. F(i).major = c.major /\ F(i).minor = c.minor + i - 1 /\ F(i).patch \in Nat
    BY <1>1 DEF HopVersion, V, Version, d
  <2>2. H(i).major = c.major /\ H(i).minor = c.minor + i
    BY <1>1 DEF HopVersion, V, Version, d, MinorDiff, SameMajor
  <2>. QED BY <2>1, <2>2, <1>1 DEF Before, WithinOneMinor, SameMajor, MinorDiff, Version
<1>8. \A i \in 1..(d - 1) : s[i + 1].from = s[i].to
  BY <1>1, <1>5
<1>9. s # << >>
  BY <1>1, <1>4
<1>10. \A i \in 1..d : Before(F(i), H(i)) /\ WithinOneMinor(F(i), H(i))
  BY <1>7
<1>11. F(1) = c /\ 1 \in 1..d /\ d \in 1..d
  BY <1>1
<1>. HIDE DEF s, F, H
<1>. SUFFICES Climbs(s, c, t)
  BY DEF s
<1>. QED
  BY <1>1, <1>4, <1>5, <1>6, <1>8, <1>9, <1>10, <1>11 DEF Climbs

(* ComputeStepPlan, when it returns steps for an upgrade, returns a plan   *)
(* that climbs from current to target: no hop skips a minor version, no    *)
(* hop goes down, and the last one lands exactly on the requested version. *)
THEOREM ComputeStepPlanClimbs ==
    ASSUME NEW c \in Version, NEW t \in Version,
           ComputeStepPlan(c, t, FALSE).ok, c # t
    PROVE  Climbs(ComputeStepPlan(c, t, FALSE).steps, c, t)
<1>1. ~Before(t, c) /\ SameMajor(c, t)
  BY DEF ComputeStepPlan, NoPlan
<1>2. Before(c, t)
  BY <1>1, BeforeTotal
<1>3. CASE MinorDiff(c, t) = 0
  <2>1. ComputeStepPlan(c, t, FALSE).steps = <<Hop(c, t)>>
    BY <1>1, <1>3 DEF ComputeStepPlan, Plan
  <2>2. WithinOneMinor(c, t)
    BY <1>1, <1>3 DEF WithinOneMinor
  <2>3. /\ <<Hop(c, t)>> \in Seq([from : Version, to : Version])
        /\ Len(<<Hop(c, t)>>) = 1 /\ <<Hop(c, t)>>[1] = Hop(c, t)
        /\ <<Hop(c, t)>> # << >>
    BY DEF Hop
  <2>4. Hop(c, t).from = c /\ Hop(c, t).to = t
    BY DEF Hop
  <2>. DEFINE s == <<Hop(c, t)>>
  <2>5. \A i \in 1..Len(s) : s[i].from = c /\ s[i].to = t
    BY <2>3, <2>4
  <2>6. 1..(Len(s) - 1) = {}
    BY <2>3
  <2>7. s \in Seq([from : Version, to : Version]) /\ s # << >>
        /\ s[1].from = c /\ s[Len(s)].to = t
    BY <2>3, <2>4
  <2>. HIDE DEF s
  <2>8. Climbs(s, c, t)
    BY <2>2, <2>5, <2>6, <2>7, <1>2 DEF Climbs
  <2>. QED BY <2>1, <2>8 DEF s
<1>4. CASE MinorDiff(c, t) # 0
  <2>1. MinorDiff(c, t) > 0
    BY <1>1, <1>2, <1>4 DEF MinorDiff, SameMajor, Before, Version
  <2>2. ComputeStepPlan(c, t, FALSE).steps = MinorHops(c, t)
    BY <1>1, <1>4 DEF ComputeStepPlan, Plan
  <2>. QED BY <1>1, <2>1, <2>2, MinorHopsClimb
<1>. QED BY <1>3, <1>4

LEMMA MinorHopsLength ==
    ASSUME NEW current \in Version, NEW target \in Version,
           MinorDiff(current, target) > 0
    PROVE  Len(MinorHops(current, target)) = MinorDiff(current, target)
<1>1. MinorDiff(current, target) \in Nat
  BY DEF MinorDiff, Version
<1>2. MinorHops(current, target) \in Seq({Hop(v, w) : v, w \in Version})
  <2>1. \A i \in 1..MinorDiff(current, target) :
            HopVersion(current, target, i) \in Version
    BY HopVersionType
  <2>2. \A i \in 1..MinorDiff(current, target) :
            i # 1 => i - 1 \in 1..MinorDiff(current, target)
    BY <1>1
  <2>3. \A i \in 1..MinorDiff(current, target) :
            MinorHops(current, target)[i] \in {Hop(v, w) : v, w \in Version}
    BY <2>1, <2>2 DEF MinorHops
  <2>. QED BY <1>1, <2>3, FunctionIsSequence DEF MinorHops
<1>3. DOMAIN MinorHops(current, target) = 1..MinorDiff(current, target)
  BY DEF MinorHops
<1>. QED BY <1>1, <1>2, <1>3

(* The webhook and the plan agree: a target the webhook lets through has a *)
(* plan from the oldest version of the fleet, which is at most skew minors *)
(* behind the API server, and the plan has at most maxHopCount hops more   *)
(* than that.  So an admitted upgrade never fails for want of a plan.      *)
THEOREM AdmittedHasPlan ==
    ASSUME NEW server \in Version, NEW target \in Version, NEW oldest \in Version,
           NEW allowDowngrade \in BOOLEAN, NEW skew \in Nat,
           Admitted(server, target, allowDowngrade),
           SameMajor(oldest, server), AtLeast(server, oldest),
           MinorDiff(oldest, server) <= skew
    PROVE  LET plan == ComputeStepPlan(oldest, target, allowDowngrade)
           IN  plan.ok /\ Len(plan.steps) <= maxHopCount + skew
<1>1. CASE oldest = target
  BY <1>1 DEF ComputeStepPlan, Plan, maxHopCount
<1>2. CASE oldest # target /\ Before(target, oldest)
  <2>1. Before(target, server)
    BY <1>2, BeforeThenAtLeast
  <2>. QED BY <1>2, <2>1 DEF Admitted, ComputeStepPlan, Plan, maxHopCount
<1>3. CASE oldest # target /\ ~Before(target, oldest)
  <2>1. SameMajor(oldest, target) /\ MinorDiff(oldest, target) <= maxHopCount + skew
    <3>1. CASE Before(server, target)
      BY <3>1 DEF Admitted, SameMajor, MinorDiff, Version, maxHopCount
    <3>2. CASE ~Before(server, target)
      BY <1>3, <3>2 DEF SameMajor, AtLeast, Before, MinorDiff, Version, maxHopCount
    <3>. QED BY <3>1, <3>2
  <2>2. CASE MinorDiff(oldest, target) = 0
    BY <1>3, <2>1, <2>2 DEF ComputeStepPlan, Plan, maxHopCount
  <2>3. CASE MinorDiff(oldest, target) # 0
    <3>1. MinorDiff(oldest, target) > 0
      BY <1>3, <2>1, <2>3 DEF SameMajor, Before, MinorDiff, Version
    <3>2. ComputeStepPlan(oldest, target, allowDowngrade) = Plan(MinorHops(oldest, target))
      BY <1>3, <2>1, <2>3 DEF ComputeStepPlan
    <3>. QED BY <2>1, <3>1, <3>2, MinorHopsLength DEF Plan
  <2>. QED BY <2>2, <2>3
<1>. QED BY <1>1, <1>2, <1>3
=============================================================================
