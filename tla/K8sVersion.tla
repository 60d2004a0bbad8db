----------------------------- MODULE K8sVersion -----------------------------
(***************************************************************************)
(* Kubernetes versions and the arithmetic the operator does on them:       *)
(* pkg/k8sutil/version.go and pkg/upgrade/stepplan.go.                     *)
(*                                                                         *)
(* A version is what ParseVersion returns for a release: major, minor and  *)
(* patch.  Prereleases are left out: neither the plan nor the hop targets  *)
(* ever build one.  An operation that returns an error in the code returns *)
(* a record whose field ok is FALSE here.                                  *)
(***************************************************************************)
EXTENDS Integers, Sequences, FiniteSets

Version == [major : Nat, minor : Nat, patch : Nat]

V(major, minor, patch) == [major |-> major, minor |-> minor, patch |-> patch]

(* semver order, CompareVersions(a, b) < 0. *)
Before(a, b) ==
    \/ a.major < b.major
    \/ a.major = b.major /\ a.minor < b.minor
    \/ a.major = b.major /\ a.minor = b.minor /\ a.patch < b.patch

(* CompareVersions(a, b) >= 0. *)
AtLeast(a, b) == ~Before(a, b)

(* MinorDiff refuses to subtract across a major version. *)
SameMajor(a, b) == a.major = b.major

MinorDiff(current, target) == target.minor - current.minor

(* At most one minor version up: what kubeadm and the skew policy allow. *)
WithinOneMinor(a, b) == SameMajor(a, b) /\ MinorDiff(a, b) <= 1

(***************************************************************************)
(* ComputeStepPlan: the hops from current to target.  Every hop but the    *)
(* last lands on the .0 patch of the next minor version, the last one      *)
(* exactly on target.                                                      *)
(***************************************************************************)
Hop(from, to) == [from |-> from, to |-> to]

(* Mutants: a hop that counts minors from one too far; a last hop that     *)
(* loses the requested patch.                                              *)
HopVersionSkipsMinor(current, target, i) ==
    IF i = MinorDiff(current, target)
    THEN target
    ELSE V(current.major, current.minor + i + 1, 0)

HopVersionLosesPatch(current, target, i) ==
    V(current.major, current.minor + i, 0)

HopVersion(current, target, i) ==
    IF i = MinorDiff(current, target)
    THEN target
    ELSE V(current.major, current.minor + i, 0)

MinorHops(current, target) ==
    [i \in 1..MinorDiff(current, target) |->
        Hop(IF i = 1 THEN current ELSE HopVersion(current, target, i - 1),
            HopVersion(current, target, i))]

Plan(steps) == [ok |-> TRUE, steps |-> steps]

NoPlan == [ok |-> FALSE, steps |-> << >>]

ComputeStepPlan(current, target, allowDowngrade) ==
    IF current = target
    THEN Plan(<< >>)
    ELSE IF Before(target, current)
    THEN IF allowDowngrade THEN Plan(<<Hop(current, target)>>) ELSE NoPlan
    ELSE IF ~SameMajor(current, target)
    THEN NoPlan
    ELSE IF MinorDiff(current, target) = 0
    THEN Plan(<<Hop(current, target)>>)
    ELSE Plan(MinorHops(current, target))

(***************************************************************************)
(* NextGroupTarget: where one group moves in this pass.  A group ahead of  *)
(* the hop stays where it is, a group within one minor goes to the hop, a  *)
(* group further behind goes to the next minor only.  The error path (a    *)
(* group of another major version) has no plan to begin with.              *)
(***************************************************************************)
NextGroupTarget(groupCurrent, hopTarget) ==
    IF Before(hopTarget, groupCurrent)
    THEN groupCurrent
    ELSE IF MinorDiff(groupCurrent, hopTarget) <= 1
    THEN hopTarget
    ELSE V(groupCurrent.major, groupCurrent.minor + 1, 0)

(***************************************************************************)
(* The admission webhook, on every create and update of an upgrade: the    *)
(* target is not below the version of the API server, unless a downgrade   *)
(* is allowed, and not more than maxHopCount minor versions above it.  The *)
(* mutant knows no allowance.                                              *)
(***************************************************************************)
maxHopCount == 5

AdmittedUpwards(server, target, allowDowngrade) ==
    /\ ~Before(target, server)
    /\ Before(server, target) =>
         SameMajor(server, target) /\ MinorDiff(server, target) <= maxHopCount

Admitted(server, target, allowDowngrade) ==
    /\ Before(target, server) => allowDowngrade
    /\ Before(server, target) =>
         SameMajor(server, target) /\ MinorDiff(server, target) <= maxHopCount

(* GroupCurrentVersion and OldestVersionAcrossGroups: the oldest of S.     *)
OldestVersion(S) == CHOOSE v \in S : \A w \in S : AtLeast(w, v)
=============================================================================
