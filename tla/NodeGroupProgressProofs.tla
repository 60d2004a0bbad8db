----------------------- MODULE NodeGroupProgressProofs ----------------------
(***************************************************************************)
(* What status.nodeProgress is worth, for every cluster and every fault: a *)
(* group that reports Complete has left no node behind; the concurrency    *)
(* limit of ResolveConcurrency is kept; "kubeadm upgrade apply" is run     *)
(* once; and a node is recorded as failed only with its Job.               *)
(***************************************************************************)
EXTENDS NodeGroupUpgradeProofs, FiniteSetTheorems

-----------------------------------------------------------------------------
(* Batches and limits.                                                     *)

LEMMA FiniteNodes == \A S \in SUBSET Node : IsFiniteSet(S) /\ Cardinality(S) \in Nat
BY NodeAssumption, FS_Subset, FS_CardinalityType

(* NextBatch never takes more nodes than it is asked for: the number of    *)
(* nodes before a node tells the nodes of a batch apart.                   *)
LEMMA FirstOfBound ==
    ASSUME NEW S \in SUBSET Node, NEW k \in Nat
    PROVE  Cardinality(FirstOf(S, k)) <= k
<1>. DEFINE F == FirstOf(S, k)
            below(n) == {m \in S : m < n}
            rank == [n \in F |-> Cardinality(below(n))]
<1>1. F \subseteq S /\ S \subseteq Nat
  BY FirstOfSubset, NodeAssumption
<1>2. \A n \in F : Cardinality(below(n)) \in 0..(k - 1)
  <2>. TAKE n \in F
  <2>1. Cardinality(below(n)) \in Nat
    BY FiniteNodes
  <2>2. Cardinality(below(n)) < k
    BY DEF FirstOf
  <2>. QED BY <2>1, <2>2
<1>3. \A n, m \in F : n < m => Cardinality(below(n)) < Cardinality(below(m))
  <2>. SUFFICES ASSUME NEW n \in F, NEW m \in F, n < m
                PROVE  Cardinality(below(n)) < Cardinality(below(m))
    OBVIOUS
  <2>1. below(n) \subseteq below(m) /\ n \in below(m) /\ n \notin below(n)
    <3>1. \A x, y, z \in Nat : (x < y /\ y < z => x < z) /\ ~(x < x)
      OBVIOUS
    <3>. QED BY <1>1, <3>1
  <2>2. /\ IsFiniteSet(below(m)) /\ Cardinality(below(m)) \in Nat
        /\ Cardinality(below(n)) \in Nat
    BY FiniteNodes
  <2>. HIDE DEF below
  <2>3. Cardinality(below(n)) <= Cardinality(below(m))
    BY <2>1, <2>2, FS_Subset
  <2>4. Cardinality(below(m)) = Cardinality(below(n)) => below(m) = below(n)
    BY <2>1, <2>2, FS_Subset
  <2>. QED BY <2>1, <2>2, <2>3, <2>4
<1>4. rank \in Injection(F, 0..(k - 1))
  <2>1. rank \in [F -> 0..(k - 1)]
    BY <1>2
  <2>2. ASSUME NEW n \in F, NEW m \in F, rank[n] = rank[m]
        PROVE  n = m
    <3>1. Cardinality(below(n)) = Cardinality(below(m))
      BY <2>2
    <3>2. n \in Nat /\ m \in Nat
      BY <1>1
    <3>3. Cardinality(below(n)) \in Nat /\ Cardinality(below(m)) \in Nat
      BY <1>2
    <3>4. ~(n < m) /\ ~(m < n)
      <4>. HIDE DEF below
      <4>. QED BY <1>3, <3>1, <3>3
    <3>. QED BY <3>2, <3>4
  <2>. QED BY <2>1, <2>2 DEF Injection, IsInjective
<1>5. IsFiniteSet(0..(k - 1)) /\ Cardinality(0..(k - 1)) = k
  BY FS_Interval
<1>. HIDE DEF rank, F
<1>6. Cardinality(F) <= Cardinality(0..(k - 1))
  BY <1>4, <1>5, FS_Injection
<1>. QED BY <1>5, <1>6 DEF F

(* A batch is empty only when nothing is left to take. *)
LEMMA FirstOfEmpty ==
    ASSUME NEW S \in SUBSET Node, NEW k \in Nat, k > 0, FirstOf(S, k) = {}
    PROVE  S = {}
<1>. SUFFICES ASSUME S # {} PROVE FALSE
  OBVIOUS
<1>1. S \in SUBSET Nat
  BY NodeAssumption
<1>2. PICK n \in S : \A m \in S : n <= m
  BY <1>1, LeastNatural
<1>3. {m \in S : m < n} = {}
  <2>1. \A x, y \in Nat : x <= y => ~(y < x)
    OBVIOUS
  <2>. QED BY <1>1, <1>2, <2>1
<1>4. Cardinality({m \in S : m < n}) = 0
  BY <1>3, FS_EmptySet
<1>. QED BY <1>4 DEF FirstOf

(* ResolveConcurrency answers between one and the number of nodes. *)
LEMMA ResolveConcurrencyRange ==
    ASSUME NEW total \in Nat, NEW b \in Int,
           NEW u \in [kind : {"unset", "count", "percent"}, value : Nat]
    PROVE  /\ ResolveConcurrency(total, b, u) \in Nat
           /\ total > 0 => ResolveConcurrency(total, b, u) \in 1..total
           /\ b = 1 => ResolveConcurrency(total, b, u) <= 1
<1>1. RequestedLimit(total, b, u) \in Int /\ (b = 1 => RequestedLimit(total, b, u) = 1)
  <2>1. u.value \in Nat
    OBVIOUS
  <2>2. u.value * total \in Nat
    BY <2>1
  <2>3. (u.value * total) \div 100 \in Int
    BY <2>2
  <2>. QED BY <2>1, <2>3 DEF RequestedLimit
<1>. QED BY <1>1 DEF ResolveConcurrency, Clamp

LEMMA LimitRange ==
    ASSUME TypeOK, NEW g \in Group
    PROVE  /\ Limit(g) \in Nat
           /\ spec[g].nodes # {} => Limit(g) > 0
           /\ Role[g] = "ControlPlane" => Limit(g) <= 1
<1>. DEFINE total == Cardinality(spec[g].nodes)
            b == IF Role[g] = "ControlPlane" THEN 1 ELSE BatchSize[g]
<1>1. spec[g].nodes \in SUBSET Node
  BY DEF TypeOK, ChildSpec
<1>2. total \in Nat /\ (spec[g].nodes # {} => total > 0)
  BY <1>1, FiniteNodes, FS_EmptySet
<1>3. /\ b \in Int
      /\ MaxUnavailable[g] \in [kind : {"unset", "count", "percent"}, value : Nat]
  BY LimitAssumption
<1>4. Limit(g) = ResolveConcurrency(total, b, MaxUnavailable[g])
  BY DEF Limit
<1>. HIDE DEF total, b
<1>5. /\ ResolveConcurrency(total, b, MaxUnavailable[g]) \in Nat
      /\ total > 0 => ResolveConcurrency(total, b, MaxUnavailable[g]) \in 1..total
      /\ b = 1 => ResolveConcurrency(total, b, MaxUnavailable[g]) <= 1
  BY <1>2, <1>3, ResolveConcurrencyRange
<1>6. Role[g] = "ControlPlane" => b = 1
  BY DEF b
<1>. QED BY <1>2, <1>4, <1>5, <1>6

(* The group has nothing left to start when NextBatch is empty. *)
LEMMA NextBatchEmpty ==
    ASSUME TypeOK, NEW g \in Group, NextBatch(g) = {}
    PROVE  spec[g].nodes \subseteq status[g].completed
<1>. DEFINE rest == spec[g].nodes \ status[g].completed
<1>1. rest \in SUBSET Node
  BY DEF TypeOK, ChildSpec
<1>2. CASE spec[g].nodes = {}
  BY <1>2
<1>3. CASE spec[g].nodes # {}
  <2>1. FirstOf(rest, Limit(g)) = {}
    BY DEF NextBatch
  <2>2. Limit(g) \in Nat /\ Limit(g) > 0
    BY <1>3, LimitRange
  <2>3. rest = {}
    <3>. HIDE DEF rest
    <3>. QED BY <1>1, <2>1, <2>2, FirstOfEmpty
  <2>. QED BY <2>3
<1>. QED BY <1>2, <1>3

-----------------------------------------------------------------------------
(* What a pass does to nodeProgress, action by action.                     *)

OthersKept(g) == \A h \in Group \ {g} : status'[h] = status[h]

KeepsEntries(g) ==
    /\ status'[g].seeded = status[g].seeded
    /\ status'[g].started = status[g].started
    /\ status'[g].completed = status[g].completed
    /\ status'[g].to = status[g].to

(* The nodes of a drain pass. *)
Batch(g) == IF Active(g) # {} THEN Active(g) ELSE NextBatch(g)

LEMMA PendingEffect ==
    ASSUME TypeOK, NEW g \in Group, ReconcilePending(g)
    PROVE  /\ UNCHANGED <<child, spec, nodeVars, podVars, jobVars>>
           /\ OthersKept(g) /\ g \in child
           /\ status[g].phase = "" /\ status'[g].phase = "Draining"
           /\ status'[g].seeded = spec[g].nodes
           /\ status'[g].started = status[g].started
           /\ status'[g].completed = status[g].completed
           /\ status'[g].to = Target(g)
           /\ status'[g].nodePhase = status[g].nodePhase
BY DEF TypeOK, Status, ReconcilePending, Reconciling, OthersKept

LEMMA ResetEffect ==
    ASSUME TypeOK, NEW g \in Group, Reset(g)
    PROVE  /\ UNCHANGED <<child, spec, nodeVars, podVars, jobVars>>
           /\ OthersKept(g) /\ NeedsReset(g)
           /\ status[g].phase = "Complete" /\ status'[g].phase = ""
           /\ status'[g].seeded = {} /\ status'[g].started = {}
           /\ status'[g].completed = {}
           /\ status'[g].nodePhase = [n \in Node |-> ""]
BY DEF TypeOK, Status, Reset, Reconciling, OthersKept

LEMMA SetPhaseEffect ==
    ASSUME TypeOK, NEW g \in Group, NEW ph, SetPhase(g, ph)
    PROVE  /\ OthersKept(g) /\ KeepsEntries(g)
           /\ status'[g].phase = ph
           /\ status'[g].nodePhase = status[g].nodePhase
BY DEF TypeOK, Status, SetPhase, OthersKept, KeepsEntries

LEMMA PhaseOnlyEffect ==
    ASSUME TypeOK, NEW g \in Group,
           CompleteGroup(g) \/ NothingActive(g) \/ NoAdapter(g) \/ HandleAdapterError(g)
    PROVE  /\ UNCHANGED <<child, spec, nodeVars, podVars, jobVars>>
           /\ OthersKept(g) /\ KeepsEntries(g)
           /\ status[g].phase \in {"Draining", "Upgrading", "Verifying"}
           /\ status'[g].phase \in {"Draining", "Complete", "Failed", "Paused"}
           /\ status'[g].phase = "Complete" => Active(g) = {} /\ NextBatch(g) = {}
           /\ status'[g].nodePhase = status[g].nodePhase
<1>1. PICK ph \in {"Draining", "Complete", "Failed", "Paused"} :
         SetPhase(g, ph) /\ (ph = "Complete" => Active(g) = {} /\ NextBatch(g) = {})
  BY DEF CompleteGroup, NothingActive, NoAdapter, HandleAdapterError
<1>2. status[g].phase \in {"Draining", "Upgrading", "Verifying"}
  BY DEF CompleteGroup, NothingActive, NoAdapter, HandleAdapterError, AtAdapter, Reconciling
<1>3. UNCHANGED <<child, spec, nodeVars, podVars, jobVars>>
  BY DEF CompleteGroup, NothingActive, NoAdapter, HandleAdapterError
<1>. QED BY <1>1, <1>2, <1>3, SetPhaseEffect

LEMMA DrainEffect ==
    ASSUME TypeOK, NEW g \in Group, DrainPass(g)
    PROVE  /\ UNCHANGED <<child, spec, present, version, jobVars>>
           /\ OthersKept(g)
           /\ status[g].phase = "Draining"
           /\ status'[g].phase \in {"Draining", "Upgrading"}
           /\ status'[g].seeded = status[g].seeded
           /\ status'[g].completed = status[g].completed
           /\ status'[g].to = status[g].to
           /\ status'[g].started =
                 status[g].started \cup ((Batch(g) \cap status[g].seeded) \ Active(g))
           /\ cordoned \subseteq cordoned' /\ cordoned' \subseteq cordoned \cup Batch(g)
           /\ \A n \in Node : status'[g].nodePhase[n] = "Failed" =>
                                 status[g].nodePhase[n] = "Failed"
<1>. DEFINE batch   == IF Active(g) # {} THEN Active(g) ELSE NextBatch(g)
            fresh   == (batch \cap status[g].seeded) \ Active(g)
            reach   == {n \in batch : \A m \in batch : m <= n => m \in present}
            drained == {n \in batch : Drained(n)}
<1>1. PICK handled \in {reach} \cup CutShort(reach), lost \in Losses :
        LET saved == handled = batch /\ ~lost IN
        /\ cordoned' = cordoned \cup handled
        /\ terminating' = terminating \cup UNION {Deleted(Active(g), n) : n \in handled}
        /\ status' = [status EXCEPT
             ![g].started = @ \cup fresh,
             ![g].nodePhase =
                [n \in Node |->
                   IF saved /\ n \in drained \cap (Active(g) \cup fresh) THEN "Drained"
                   ELSE IF n \in fresh THEN "Draining" ELSE @[n]],
             ![g].phase = IF saved /\ drained = batch THEN "Upgrading" ELSE @]
  BY DEF DrainPass
<1>2. /\ UNCHANGED <<child, spec, present, version, jobVars>>
      /\ status[g].phase = "Draining"
  BY DEF DrainPass, Reconciling
<1>3. status[g] \in Status /\ status \in [Group -> Status]
  BY DEF TypeOK
<1>4. handled \subseteq batch
  BY <1>1 DEF CutShort
<1>. HIDE DEF batch, fresh, reach, drained
<1>5. /\ OthersKept(g)
      /\ status'[g].phase \in {"Draining", "Upgrading"}
      /\ status'[g].seeded = status[g].seeded
      /\ status'[g].completed = status[g].completed
      /\ status'[g].to = status[g].to
      /\ status'[g].started = status[g].started \cup fresh
  BY <1>1, <1>2, <1>3 DEF Status, OthersKept
<1>6. \A n \in Node : status'[g].nodePhase[n] = "Failed" => status[g].nodePhase[n] = "Failed"
  BY <1>1, <1>3 DEF Status
<1>. QED BY <1>1, <1>2, <1>4, <1>5, <1>6 DEF batch, fresh, Batch

(* Nodes are deleted only from a batch that is replaced. *)
LEMMA UpgradeEffect ==
    ASSUME TypeOK, NEW g \in Group,
           UpgradePassInPlace(g) \/ UpgradePassReplace(g) \/ BeginBatchCutShort(g)
    PROVE  /\ UNCHANGED <<child, spec, version, cordoned>>
           /\ OthersKept(g) /\ KeepsEntries(g)
           /\ status[g].phase = "Upgrading" /\ g \in child
           /\ status'[g].phase \in {"Upgrading", "Verifying", "Failed"}
           /\ present' \subseteq present /\ present \ present' \subseteq Active(g)
           /\ InPlace(g) => present' = present
<1>1. /\ status[g] \in Status /\ status \in [Group -> Status]
      /\ status[g].phase = "Upgrading" /\ g \in child
  BY DEF TypeOK, UpgradePassInPlace, UpgradePassReplace, BeginBatchCutShort,
         UpgradePassEnabled, Reconciling
<1>2. /\ UNCHANGED <<child, spec, version, cordoned>>
      /\ present' \subseteq present /\ present \ present' \subseteq Active(g)
      /\ InPlace(g) => present' = present
  BY DEF UpgradePassInPlace, UpgradePassReplace, BeginBatchCutShort, ToUpgrade, nodeVars
<1>3. PICK ph \in {"Upgrading", "Verifying", "Failed"} :
         \/ \E np : status' = [status EXCEPT ![g].nodePhase = np, ![g].phase = ph]
         \/ status' = [status EXCEPT ![g].phase = ph]
         \/ UNCHANGED status
  <2>1. CASE UpgradePassInPlace(g)
    <3>1. PICK unseen \in Unseen(g) : ApplyResults(g, unseen)
      BY <2>1 DEF UpgradePassInPlace
    <3>. DEFINE failed  == FirstOf(PolledFailed(g, unseen), 1)
                applies == {n \in ToUpgrade(g) : \A f \in failed : n < f}
                done    == (Active(g) \ ToUpgrade(g)) \cup (PolledUpgraded(g) \cap applies)
                nph == [n \in Node |->
                         IF n \in failed THEN "Failed"
                         ELSE IF n \in done THEN "Upgraded"
                         ELSE IF n \in ToUpgrade(g) /\ NeedsBegin(g) THEN "Upgrading"
                         ELSE status[g].nodePhase[n]]
                gph == IF failed # {} THEN "Failed"
                       ELSE IF done = Active(g) THEN "Verifying" ELSE status[g].phase
    <3>2. status' = [status EXCEPT ![g].nodePhase = nph, ![g].phase = gph]
      BY <1>1, <3>1 DEF ApplyResults, Status
    <3>. HIDE DEF failed, done
    <3>3. gph \in {"Upgrading", "Verifying", "Failed"}
      BY <1>1
    <3>. HIDE DEF nph, gph
    <3>. QED BY <3>2, <3>3
  <2>2. CASE UpgradePassReplace(g)
    <3>1. PICK gone \in BOOLEAN :
            status' = [status EXCEPT
              ![g].nodePhase = [n \in Node |->
                  IF n \in Active(g)
                  THEN IF gone \/ n \notin ToUpgrade(g) THEN "Upgraded" ELSE "Upgrading"
                  ELSE @[n]],
              ![g].phase = IF gone THEN "Verifying" ELSE @]
      BY <2>2 DEF UpgradePassReplace
    <3>. DEFINE nph == [n \in Node |->
                         IF n \in Active(g)
                         THEN IF gone \/ n \notin ToUpgrade(g) THEN "Upgraded" ELSE "Upgrading"
                         ELSE status[g].nodePhase[n]]
                gph == IF gone THEN "Verifying" ELSE status[g].phase
    <3>2. status' = [status EXCEPT ![g].nodePhase = nph, ![g].phase = gph]
      BY <1>1, <3>1 DEF Status
    <3>3. gph \in {"Upgrading", "Verifying", "Failed"}
      BY <1>1
    <3>. HIDE DEF nph, gph
    <3>. QED BY <3>2, <3>3
  <2>3. CASE BeginBatchCutShort(g)
    BY <2>3 DEF BeginBatchCutShort, SetPhase
  <2>. QED BY <2>1, <2>2, <2>3
<1>4. /\ OthersKept(g) /\ KeepsEntries(g)
      /\ status'[g].phase \in {"Upgrading", "Verifying", "Failed"}
  <2>1. CASE \E np : status' = [status EXCEPT ![g].nodePhase = np, ![g].phase = ph]
    <3>1. PICK np : status' = [status EXCEPT ![g].nodePhase = np, ![g].phase = ph]
      BY <2>1
    <3>. QED BY <1>1, <3>1 DEF Status, OthersKept, KeepsEntries
  <2>2. CASE status' = [status EXCEPT ![g].phase = ph]
    BY <1>1, <2>2 DEF Status, OthersKept, KeepsEntries
  <2>3. CASE UNCHANGED status
    BY <1>1, <2>3 DEF OthersKept, KeepsEntries
  <2>. QED BY <1>3, <2>1, <2>2, <2>3
<1>. QED BY <1>1, <1>2, <1>4

LEMMA VerifyEffect ==
    ASSUME TypeOK, NEW g \in Group, VerifyPass(g)
    PROVE  /\ UNCHANGED <<child, spec, present, version, jobVars>>
           /\ OthersKept(g)
           /\ status[g].phase = "Verifying" /\ NodesVerified(g) /\ g \in child
           /\ cordoned' \subseteq cordoned /\ cordoned \ cordoned' \subseteq Active(g)
           /\ \/ UNCHANGED status
              \/ /\ status'[g].phase = "Draining"
                 /\ status'[g].seeded = status[g].seeded
                 /\ status'[g].started = status[g].started
                 /\ status'[g].completed = status[g].completed \cup Active(g)
                 /\ status'[g].to = status[g].to
                 /\ cordoned' = cordoned \ Active(g)
                 /\ \A n \in Node : status'[g].nodePhase[n] = "Failed" =>
                                       status[g].nodePhase[n] = "Failed"
<1>1. /\ status[g] \in Status /\ status \in [Group -> Status]
      /\ UNCHANGED <<child, spec, present, version, jobVars>>
      /\ status[g].phase = "Verifying" /\ NodesVerified(g) /\ g \in child
  BY DEF TypeOK, VerifyPass, Reconciling
<1>2. PICK handled \in {Active(g)} \cup CutShort(Active(g)), lost \in Losses :
         /\ Uncordon(handled)
         /\ IF handled = Active(g) /\ ~lost
            THEN status' = [status EXCEPT
                   ![g].completed = @ \cup Active(g),
                   ![g].nodePhase = Mark(g, Active(g), "Ready"),
                   ![g].phase = "Draining"]
            ELSE UNCHANGED status
  BY DEF VerifyPass
<1>3. handled \subseteq Active(g) /\ cordoned' = cordoned \ handled
  BY <1>2 DEF CutShort, Uncordon
<1>4. CASE UNCHANGED status
  BY <1>1, <1>3, <1>4 DEF OthersKept
<1>5. CASE /\ handled = Active(g)
           /\ status' = [status EXCEPT
                   ![g].completed = @ \cup Active(g),
                   ![g].nodePhase = Mark(g, Active(g), "Ready"),
                   ![g].phase = "Draining"]
  BY <1>1, <1>3, <1>5 DEF Status, OthersKept, Mark
<1>. QED BY <1>2, <1>4, <1>5

-----------------------------------------------------------------------------
(* Complete means done.                                                    *)

(* The life of a progress entry: seeded from spec.nodes, then started,     *)
(* then completed.  A node that is missing is one the group is replacing,  *)
(* which is why a refresh of spec.nodes cannot drop an unstarted entry.    *)
Entries(g) ==
    /\ status[g].completed \subseteq status[g].started
    /\ status[g].started \subseteq status[g].seeded
    /\ status[g].seeded \subseteq spec[g].nodes \cup status[g].started
    /\ status[g].phase = "" => status[g].seeded = {}
    /\ status[g].phase # "" => g \in child /\ AtLeast(Target(g), status[g].to)
    /\ status[g].phase = "Complete" => status[g].seeded \subseteq status[g].completed
    /\ g \in child => \A n \in spec[g].nodes \cup status[g].seeded :
                         n \notin present => n \in Active(g)

(* A completed node is back in service, and at the target its entry names. *)
CompletedDone(g) ==
    \A n \in status[g].completed :
        /\ n \in present /\ n \notin cordoned
        /\ status[g].to = Target(g) => AtLeast(version[n], Target(g))

Progress(g) == Entries(g) /\ CompletedDone(g)

ProgressInv == \A g \in Group : Progress(g)

LEMMA InitProgress == Init => ProgressInv
<1>. SUFFICES ASSUME Init, NEW g \in Group PROVE Progress(g)
  BY DEF ProgressInv
<1>1. /\ status[g].phase = "" /\ status[g].seeded = {} /\ status[g].started = {}
      /\ status[g].completed = {} /\ child = {}
  BY DEF Init, NoStatus
<1>. QED BY <1>1 DEF Progress, Entries, CompletedDone

(* A pass over the nodes of g does not disturb another group. *)
LEMMA OtherGroupsProgress ==
    ASSUME TypeOK, BatchInv, NEW g \in Group, NEW h \in Group \ {g}, Progress(h),
           OthersKept(g), UNCHANGED <<child, spec, version>>,
           present \ present' \subseteq Member(g), cordoned' \ cordoned \subseteq Member(g)
    PROVE  Progress(h)'
<1>1. status'[h] = status[h]
  BY DEF OthersKept
<1>2. spec[h].nodes \subseteq Member(h) /\ status[h].seeded \subseteq Member(h)
  BY DEF BatchInv, OwnNodes
<1>3. \A n \in Member(h) : n \notin Member(g)
  BY DEF Member
<1>4. Entries(h)'
  BY <1>1, <1>2, <1>3 DEF Progress, Entries, Active, Target
<1>5. CompletedDone(h)'
  <2>1. status[h].completed \subseteq Member(h)
    BY <1>2 DEF Progress, Entries
  <2>. QED BY <1>1, <1>3, <2>1 DEF Progress, CompletedDone, Target
<1>. QED BY <1>4, <1>5 DEF Progress

LEMMA TargetType == ASSUME TypeOK, NEW g \in Group
                    PROVE  /\ Target(g) \in Version /\ status[g].to \in Version
                           /\ AtLeast(Target(g), Target(g))
<1>1. Target(g) \in Version /\ status[g].to \in Version
  BY VersionAssumption DEF TypeOK, ChildSpec, Status, Target
<1>. QED BY <1>1 DEF AtLeast, Before, Version

LEMMA BatchOwn ==
    ASSUME TypeOK, BatchInv, NEW g \in Group
    PROVE  /\ Active(g) \subseteq Member(g) /\ Batch(g) \subseteq Member(g)
           /\ Active(g) = {} => Batch(g) \subseteq spec[g].nodes \ status[g].completed
           /\ Batch(g) \cap status[g].completed = {}
<1>1. Active(g) \subseteq Member(g) /\ spec[g].nodes \subseteq Member(g)
  BY DEF BatchInv, OwnNodes, Active
<1>2. NextBatch(g) \subseteq spec[g].nodes \ status[g].completed
  BY FirstOfSubset DEF NextBatch
<1>. QED BY <1>1, <1>2 DEF Batch, Active

LEMMA ReconcileProgress ==
    ASSUME TypeOK, BatchInv, ProgressInv, NEW g \in Group, ReconcileGroup(g)
    PROVE  ProgressInv'
<1>1. Progress(g)
  BY DEF ProgressInv
<1>. USE DEF nodeVars, Target
<1>2. SUFFICES /\ Progress(g)' /\ OthersKept(g) /\ UNCHANGED <<child, spec, version>>
               /\ present \ present' \subseteq Member(g)
               /\ cordoned' \ cordoned \subseteq Member(g)
  BY OtherGroupsProgress DEF ProgressInv
<1>3. CASE ReconcilePending(g)
  <2>1. Entries(g)'
    BY <1>1, <1>3, PendingEffect, TargetType DEF Progress, Entries, Active
  <2>2. CompletedDone(g)'
    BY <1>1, <1>3, PendingEffect DEF Progress, Entries, CompletedDone
  <2>. QED BY <1>3, <2>1, <2>2, PendingEffect DEF Progress
<1>4. CASE Reset(g)
  <2>1. Active(g) = {}
    BY <1>1, <1>4, ResetEffect DEF Progress, Entries, Active
  <2>2. Entries(g)' /\ CompletedDone(g)'
    BY <1>1, <1>4, <2>1, ResetEffect DEF Progress, Entries, CompletedDone
  <2>. QED BY <1>4, <2>2, ResetEffect DEF Progress
<1>5. CASE CompleteGroup(g) \/ NothingActive(g) \/ NoAdapter(g) \/ HandleAdapterError(g)
  <2>1. status'[g].phase = "Complete" => status[g].seeded \subseteq status[g].completed
    <3>1. SUFFICES ASSUME Active(g) = {}, NextBatch(g) = {}
                   PROVE  status[g].seeded \subseteq status[g].completed
      BY <1>5, PhaseOnlyEffect
    <3>2. spec[g].nodes \subseteq status[g].completed
      BY <3>1, NextBatchEmpty
    <3>. QED BY <1>1, <3>1, <3>2 DEF Progress, Entries, Active
  <2>2. Entries(g)' /\ CompletedDone(g)'
    BY <1>1, <1>5, <2>1, PhaseOnlyEffect
    DEF Progress, Entries, CompletedDone, KeepsEntries, Active
  <2>. QED BY <1>5, <2>2, PhaseOnlyEffect DEF Progress
<1>6. CASE DrainPass(g)
  <2>1. Entries(g)'
    BY <1>1, <1>6, DrainEffect DEF Progress, Entries, Active
  <2>2. CompletedDone(g)'
    BY <1>1, <1>6, DrainEffect, BatchOwn DEF Progress, CompletedDone
  <2>. QED BY <1>6, <2>1, <2>2, DrainEffect, BatchOwn DEF Progress
<1>7. CASE UpgradePassInPlace(g) \/ UpgradePassReplace(g) \/ BeginBatchCutShort(g)
  <2>1. Entries(g)'
    BY <1>1, <1>7, UpgradeEffect DEF Progress, Entries, KeepsEntries, Active
  <2>2. CompletedDone(g)'
    BY <1>1, <1>7, UpgradeEffect DEF Progress, CompletedDone, KeepsEntries, Active
  <2>. QED BY <1>7, <2>1, <2>2, UpgradeEffect, BatchOwn DEF Progress
<1>8. CASE VerifyPass(g)
  <2>1. CASE UNCHANGED status
    BY <1>1, <1>8, <2>1, VerifyEffect DEF Progress, Entries, CompletedDone, Active
  <2>2. CASE ~UNCHANGED status
    <3>1. \A n \in Active(g) : n \in present /\ version[n] = Target(g)
      BY <1>8, VerifyEffect DEF NodesVerified
    <3>2. Entries(g)'
      BY <1>1, <1>8, <2>2, <3>1, VerifyEffect DEF Progress, Entries, Active
    <3>3. CompletedDone(g)'
      BY <1>1, <1>8, <2>2, <3>1, VerifyEffect, TargetType DEF Progress, CompletedDone
    <3>. QED BY <1>8, <3>2, <3>3, VerifyEffect DEF Progress
  <2>. QED BY <2>1, <2>2
<1>. QED BY <1>3, <1>4, <1>5, <1>6, <1>7, <1>8 DEF ReconcileGroup

LEMMA ClusterProgress ==
    ASSUME TypeOK, BatchInv, ProgressInv, Cluster
    PROVE  ProgressInv'
<1>. USE DEF childVars, nodeVars, podVars, jobVars
<1>1. /\ UNCHANGED childVars /\ present \subseteq present'
      /\ \A n \in present : n \notin cordoned => n \notin cordoned'
  BY DEF Cluster, JobInstalls, JobCompletes, JobFails, JobExpires, NodeLosesReady,
     NodeRecovers, NodeJoins, DrainTimesOut, PodTerminates, PodScheduled
<1>2. \A n \in present \ cordoned : version'[n] = version[n]
  <2>1. ASSUME NEW n \in Node, NEW v \in KnownVersion, JobInstalls(n, v)
        PROVE  n \in cordoned /\ version' = [version EXCEPT ![n] = v]
    BY <2>1 DEF JobInstalls, BatchInv, JobBehind
  <2>2. ASSUME NEW n \in Node, NodeJoins(n)
        PROVE  \A m \in present : version'[m] = version[m]
    BY <2>2 DEF NodeJoins, TypeOK
  <2>3. \/ UNCHANGED version
        \/ \E n \in Node, v \in KnownVersion : JobInstalls(n, v)
        \/ \E n \in Node : NodeJoins(n)
    BY DEF Cluster, JobCompletes, JobFails, JobExpires, NodeLosesReady,
       NodeRecovers, DrainTimesOut, PodTerminates, PodScheduled
  <2>. QED BY <2>1, <2>2, <2>3 DEF TypeOK
<1>. SUFFICES ASSUME NEW g \in Group PROVE Progress(g)'
  BY DEF ProgressInv
<1>3. Entries(g)'
  BY <1>1 DEF ProgressInv, Progress, Entries, Active, Target
<1>4. CompletedDone(g)'
  BY <1>1, <1>2 DEF ProgressInv, Progress, CompletedDone, Target
<1>. QED BY <1>3, <1>4 DEF Progress

LEMMA SpecWriteProgress ==
    ASSUME TypeOK, TypeOK', BatchInv, ProgressInv, SpecWrite
    PROVE  ProgressInv'
<1>. USE DEF nodeVars
<1>1. UNCHANGED <<status, nodeVars>> /\ child \subseteq child'
  BY DEF SpecWrite
<1>. SUFFICES ASSUME NEW g \in Group PROVE Progress(g)'
  BY DEF ProgressInv
<1>2. Progress(g)
  BY DEF ProgressInv
<1>3. /\ spec'[g].nodes \in {spec[g].nodes, Member(g) \cap present}
      /\ g \in child' \ child => spec'[g].nodes = Member(g) \cap present
      /\ Target(g)' # Target(g) => g \notin child \/ Before(Target(g), Target(g)')
  BY DEF SpecWrite, Target
<1>4. Target(g) \in Version /\ Target(g)' \in Version /\ status[g].to \in Version
  BY TargetType, VersionAssumption DEF TypeOK, Target, ChildSpec
<1>5. g \in child => AtLeast(Target(g)', Target(g))
  BY <1>3, <1>4, TargetType, BeforeAtLeast
<1>6. Entries(g)'
  <2>1. status[g].seeded \subseteq spec'[g].nodes \cup status[g].started
    <3>1. status[g].phase # "" \/ status[g].seeded = {}
      BY <1>2 DEF Progress, Entries
    <3>2. status[g].seeded \subseteq Member(g)
      BY DEF BatchInv, OwnNodes
    <3>. QED BY <1>2, <1>3, <3>1, <3>2 DEF Progress, Entries, Active
  <2>2. status[g].phase # "" => AtLeast(Target(g)', status[g].to)
    BY <1>2, <1>4, <1>5, AtLeastTransitive DEF Progress, Entries
  <2>3. g \in child' => \A n \in spec'[g].nodes \cup status[g].seeded :
                           n \notin present => n \in Active(g)
    <3>1. g \notin child => status[g].seeded = {}
      BY <1>2 DEF Progress, Entries
    <3>. QED BY <1>2, <1>3, <3>1 DEF Progress, Entries
  <2>. QED BY <1>1, <1>2, <2>1, <2>2, <2>3 DEF Progress, Entries, Active, Target
<1>7. CompletedDone(g)'
  <2>. SUFFICES ASSUME NEW n \in status[g].completed, status[g].to = Target(g)'
                PROVE  AtLeast(version[n], Target(g)')
    BY <1>1, <1>2 DEF Progress, CompletedDone, Target
  <2>1. g \in child /\ AtLeast(Target(g), status[g].to)
    BY <1>2 DEF Progress, Entries
  <2>2. Target(g)' = Target(g)
    BY <1>3, <2>1 DEF AtLeast
  <2>. QED BY <1>2, <2>2 DEF Progress, CompletedDone
<1>. QED BY <1>6, <1>7 DEF Progress

LEMMA NextProgress ==
    TypeOK /\ TypeOK' /\ BatchInv /\ ProgressInv /\ [Next]_vars => ProgressInv'
<1>. SUFFICES ASSUME TypeOK, TypeOK', BatchInv, ProgressInv, [Next]_vars
              PROVE  ProgressInv'
  OBVIOUS
<1>1. CASE UNCHANGED vars
  BY <1>1 DEF ProgressInv, Progress, Entries, CompletedDone, Active, Target, vars,
     childVars, nodeVars
<1>. QED BY <1>1, ReconcileProgress, ParentSpecWrite, SpecWriteProgress, ClusterProgress
         DEF Next

LEMMA GroupProgress == Spec => [](TypeOK /\ BatchInv /\ ProgressInv)
BY InitType, NextType, InitBatchInv, NextBatchInv, InitProgress, NextProgress, PTL DEF Spec

(* For every cluster, limit, provider and fault, and whatever joins or is  *)
(* replaced meanwhile: a group that reports Complete for its target has    *)
(* left none of the nodes it set out to upgrade cordoned or behind.        *)
THEOREM CompleteGroupsAreDone == Spec => []CompleteMeansDone
<1>1. ProgressInv => CompleteMeansDone
  BY DEF ProgressInv, Progress, Entries, CompletedDone, CompleteMeansDone
<1>. QED BY <1>1, GroupProgress, PTL

-----------------------------------------------------------------------------
(* The concurrency limit.                                                  *)

(* No node joins or is replaced during the upgrade.  Without this the      *)
(* limit can be exceeded: a node that joined after its group was seeded is *)
(* cordoned in a batch of its own, never completes, and stays cordoned     *)
(* when a node that joins after it comes first in spec.nodes.              *)
FixedFleet == LateNode = {} /\ \A g \in Group : InPlace(g)

FleetComplete == present = Node

(* spec.nodes and nodeProgress both cover the group, and a node that is    *)
(* cordoned is in the active batch: what a lost write or a partial         *)
(* uncordon leaves behind is taken up again, not added to.                 *)
WholeGroup(g) ==
    /\ spec[g].nodes = IF g \in child THEN Member(g) ELSE {}
    /\ status[g].phase # "" => status[g].seeded = Member(g)
    /\ cordoned \cap Member(g) \subseteq Active(g)
    /\ Cardinality(Active(g)) <= Limit(g)

LimitInv == FixedFleet /\ FleetComplete /\ \A g \in Group : WholeGroup(g)

LEMMA LimitSame ==
    ASSUME NEW g \in Group, spec'[g].nodes = spec[g].nodes
    PROVE  Limit(g)' = Limit(g)
BY DEF Limit

LEMMA InitLimit == FixedFleet /\ Init => LimitInv
<1>. SUFFICES ASSUME FixedFleet, Init PROVE LimitInv
  OBVIOUS
<1>1. FleetComplete
  BY DEF FixedFleet, Init, FleetComplete
<1>. SUFFICES ASSUME NEW g \in Group PROVE WholeGroup(g)
  BY <1>1 DEF LimitInv
<1>2. /\ spec[g].nodes = {} /\ status[g].phase = "" /\ status[g].started = {}
      /\ child = {} /\ cordoned = {}
  BY DEF Init, NoSpec, NoStatus
<1>3. Limit(g) \in Nat
  BY InitType, LimitRange
<1>4. Active(g) = {} /\ Cardinality(Active(g)) = 0
  BY <1>2, FS_EmptySet DEF Active
<1>5. Cardinality(Active(g)) <= Limit(g)
  BY <1>3, <1>4
<1>. QED BY <1>2, <1>5 DEF WholeGroup

LEMMA OtherGroupsLimit ==
    ASSUME NEW g \in Group, NEW h \in Group \ {g}, WholeGroup(h),
           OthersKept(g), UNCHANGED <<child, spec>>, cordoned' \ cordoned \subseteq Member(g)
    PROVE  WholeGroup(h)'
<1>1. status'[h] = status[h]
  BY DEF OthersKept
<1>2. \A n \in Member(h) : n \notin Member(g)
  BY DEF Member
<1>3. Limit(h)' = Limit(h)
  BY LimitSame
<1>. QED BY <1>1, <1>2, <1>3 DEF WholeGroup, Active, Member

(* The nodes a drain pass makes active: the active batch, or the next one. *)
LEMMA DrainStarts ==
    ASSUME TypeOK, BatchInv, ProgressInv, NEW g \in Group, WholeGroup(g), DrainPass(g)
    PROVE  Active(g)' = Batch(g)
<1>1. Entries(g)
  BY DEF ProgressInv, Progress
<1>2. status[g].seeded = Member(g)
  BY DrainEffect DEF WholeGroup
<1>3. Batch(g) \subseteq Member(g) /\ Batch(g) \cap status[g].completed = {}
  BY BatchOwn
<1>4. status'[g].started = status[g].started \cup (Batch(g) \ Active(g))
  BY <1>2, <1>3, DrainEffect
<1>5. status'[g].completed = status[g].completed
  BY DrainEffect
<1>6. Active(g) \subseteq Batch(g)
  BY DEF Batch
<1>. QED BY <1>3, <1>4, <1>5, <1>6 DEF Active

LEMMA BatchWithinLimit ==
    ASSUME TypeOK, NEW g \in Group, Cardinality(Active(g)) <= Limit(g)
    PROVE  Cardinality(Batch(g)) <= Limit(g)
<1>1. Limit(g) \in Nat
  BY LimitRange
<1>2. spec[g].nodes \ status[g].completed \in SUBSET Node
  BY DEF TypeOK, ChildSpec
<1>3. Cardinality(NextBatch(g)) <= Limit(g)
  BY <1>1, <1>2, FirstOfBound DEF NextBatch
<1>. QED BY <1>3 DEF Batch

LEMMA ReconcileLimit ==
    ASSUME TypeOK, BatchInv, ProgressInv, LimitInv, NEW g \in Group, ReconcileGroup(g)
    PROVE  LimitInv'
<1>. USE DEF nodeVars
<1>1. WholeGroup(g) /\ Entries(g) /\ InPlace(g) /\ status[g].phase \in NGPhase
  BY DEF LimitInv, FixedFleet, ProgressInv, Progress, TypeOK, Status
<1>2. SUFFICES /\ WholeGroup(g)' /\ OthersKept(g) /\ UNCHANGED <<child, spec, present>>
               /\ cordoned' \ cordoned \subseteq Member(g)
  BY OtherGroupsLimit DEF LimitInv, FixedFleet, FleetComplete, InPlace
<1>3. ASSUME UNCHANGED spec PROVE Limit(g)' = Limit(g)
  BY <1>3, LimitSame
<1>4. CASE ReconcilePending(g)
  BY <1>1, <1>3, <1>4, PendingEffect DEF WholeGroup, Active, Member
<1>5. CASE Reset(g)
  <2>1. Active(g) = {}
    BY <1>1, <1>5, ResetEffect DEF Entries, Active
  <2>2. Active(g)' = {}
    BY <1>5, ResetEffect DEF Active
  <2>. QED BY <1>1, <1>3, <1>5, <2>1, <2>2, ResetEffect DEF WholeGroup, Member
<1>6. CASE CompleteGroup(g) \/ NothingActive(g) \/ NoAdapter(g) \/ HandleAdapterError(g)
  BY <1>1, <1>3, <1>6, PhaseOnlyEffect DEF WholeGroup, Active, Member, KeepsEntries
<1>7. CASE DrainPass(g)
  <2>1. Active(g)' = Batch(g)
    BY <1>1, <1>7, DrainStarts DEF LimitInv
  <2>2. Cardinality(Batch(g)) <= Limit(g)
    BY <1>1, BatchWithinLimit DEF WholeGroup
  <2>3. cordoned' \subseteq cordoned \cup Batch(g) /\ Active(g) \subseteq Batch(g)
    BY <1>7, DrainEffect DEF Batch
  <2>4. /\ status'[g].seeded = status[g].seeded /\ status[g].phase = "Draining"
        /\ UNCHANGED <<child, spec, present>> /\ OthersKept(g)
    BY <1>7, DrainEffect
  <2>5. WholeGroup(g)'
    BY <1>1, <1>3, <2>1, <2>2, <2>3, <2>4 DEF WholeGroup, Member
  <2>. QED BY <2>3, <2>4, <2>5, BatchOwn
<1>8. CASE UpgradePassInPlace(g) \/ UpgradePassReplace(g) \/ BeginBatchCutShort(g)
  BY <1>1, <1>3, <1>8, UpgradeEffect DEF WholeGroup, Active, Member, KeepsEntries
<1>9. CASE VerifyPass(g)
  <2>1. CASE UNCHANGED status
    BY <1>1, <1>3, <1>9, <2>1, VerifyEffect DEF WholeGroup, Active, Member
  <2>2. CASE ~UNCHANGED status
    <3>1. Active(g)' = {}
      BY <1>9, <2>2, VerifyEffect DEF Active
    <3>2. Cardinality(Active(g)') = 0 /\ Limit(g) \in Nat
      BY <3>1, FS_EmptySet, LimitRange
    <3>3. /\ cordoned' = cordoned \ Active(g) /\ status'[g].seeded = status[g].seeded
          /\ status[g].phase # "" /\ UNCHANGED <<child, spec, present>> /\ OthersKept(g)
      BY <1>9, <2>2, VerifyEffect
    <3>4. cordoned' \cap Member(g) = {}
      BY <1>1, <3>3 DEF WholeGroup
    <3>5. Cardinality(Active(g)') <= Limit(g)'
      <4>1. Limit(g)' = Limit(g)
        BY <1>3, <3>3
      <4>2. Limit(g)' \in Nat
        BY <3>2, <4>1
      <4>. QED BY <3>2, <4>2
    <3>. QED BY <1>1, <3>3, <3>4, <3>5 DEF WholeGroup, Member
  <2>. QED BY <2>1, <2>2
<1>. QED BY <1>4, <1>5, <1>6, <1>7, <1>8, <1>9 DEF ReconcileGroup

LEMMA ClusterLimit ==
    ASSUME TypeOK, LimitInv, Cluster
    PROVE  LimitInv'
<1>. USE DEF childVars, nodeVars, podVars, jobVars
<1>1. UNCHANGED childVars /\ present' = present /\ cordoned' = cordoned
  BY DEF LimitInv, FleetComplete, Cluster, JobInstalls, JobCompletes, JobFails, JobExpires,
     NodeLosesReady, NodeRecovers, NodeJoins, DrainTimesOut, PodTerminates, PodScheduled
<1>. QED BY <1>1, LimitSame
         DEF LimitInv, FixedFleet, FleetComplete, WholeGroup, Active, Member, InPlace

LEMMA SpecWriteLimit ==
    ASSUME TypeOK, ProgressInv, LimitInv, SpecWrite
    PROVE  LimitInv'
<1>1. UNCHANGED <<status, present, cordoned>> /\ child \subseteq child'
  BY DEF SpecWrite, nodeVars
<1>. SUFFICES ASSUME NEW g \in Group PROVE WholeGroup(g)'
  BY <1>1 DEF LimitInv, FixedFleet, FleetComplete, InPlace
<1>2. WholeGroup(g) /\ Member(g) \cap present = Member(g)
  BY DEF LimitInv, FleetComplete, Member
<1>3. spec'[g].nodes = IF g \in child' THEN Member(g) ELSE {}
  BY <1>1, <1>2 DEF SpecWrite, WholeGroup
<1>4. CASE g \in child
  BY <1>1, <1>2, <1>3, <1>4, LimitSame DEF WholeGroup, Active, Member
<1>5. CASE g \notin child /\ g \in child'
  <2>1. Active(g) = {} /\ Active(g)' = {}
    BY <1>1, <1>5 DEF ProgressInv, Progress, Entries, Active
  <2>2. Limit(g)' \in Nat
    <3>1. Member(g) \in SUBSET Node
      BY DEF Member
    <3>2. Cardinality(Member(g)) \in Nat
      BY <3>1, FiniteNodes
    <3>3. Limit(g)' = ResolveConcurrency(Cardinality(Member(g)),
                         IF Role[g] = "ControlPlane" THEN 1 ELSE BatchSize[g],
                         MaxUnavailable[g])
      BY <1>3, <1>5 DEF Limit
    <3>4. (IF Role[g] = "ControlPlane" THEN 1 ELSE BatchSize[g]) \in Int
      BY LimitAssumption
    <3>5. MaxUnavailable[g] \in [kind : {"unset", "count", "percent"}, value : Nat]
      BY LimitAssumption
    <3>. QED BY <3>2, <3>3, <3>4, <3>5, ResolveConcurrencyRange
  <2>3. Cardinality(Active(g)') = 0
    BY <2>1, FS_EmptySet
  <2>4. Cardinality(Active(g)') <= Limit(g)'
    BY <2>2, <2>3
  <2>. QED BY <1>1, <1>2, <1>3, <2>1, <2>4 DEF WholeGroup, Member
<1>6. CASE g \notin child'
  BY <1>1, <1>2, <1>3, <1>6, LimitSame DEF WholeGroup, Active, Member
<1>. QED BY <1>4, <1>5, <1>6

LEMMA NextLimit ==
    TypeOK /\ BatchInv /\ ProgressInv /\ LimitInv /\ [Next]_vars => LimitInv'
<1>. SUFFICES ASSUME TypeOK, BatchInv, ProgressInv, LimitInv, [Next]_vars
              PROVE  LimitInv'
  OBVIOUS
<1>1. CASE UNCHANGED vars
  BY <1>1, LimitSame DEF LimitInv, FixedFleet, FleetComplete, WholeGroup, Active, Member,
     InPlace, vars, childVars, nodeVars
<1>. QED BY <1>1, ReconcileLimit, ParentSpecWrite, SpecWriteLimit, ClusterLimit DEF Next

LEMMA LimitKept == TypeOK /\ LimitInv => CordonBound
<1>. SUFFICES ASSUME TypeOK, LimitInv, NEW g \in Group
              PROVE  Cardinality({n \in spec[g].nodes : n \in cordoned \/ n \notin present})
                        <= Limit(g)
  BY DEF CordonBound
<1>. DEFINE down == {n \in spec[g].nodes : n \in cordoned \/ n \notin present}
<1>1. WholeGroup(g) /\ spec[g].nodes \subseteq Node
  BY DEF LimitInv, TypeOK, ChildSpec
<1>2. down \subseteq Active(g)
  BY <1>1 DEF LimitInv, FleetComplete, WholeGroup
<1>3. Active(g) \in SUBSET Node /\ down \in SUBSET Node
  BY <1>1 DEF TypeOK, Status, Active
<1>4. /\ Cardinality(down) \in Nat /\ Cardinality(Active(g)) \in Nat
      /\ IsFiniteSet(Active(g)) /\ Limit(g) \in Nat
  BY <1>3, FiniteNodes, LimitRange
<1>5. Cardinality(down) <= Cardinality(Active(g))
  BY <1>2, <1>4, FS_Subset
<1>6. Cardinality(Active(g)) <= Limit(g)
  BY <1>1 DEF WholeGroup
<1>. HIDE DEF down
<1>7. Cardinality(down) <= Limit(g)
  BY <1>4, <1>5, <1>6
<1>. QED BY <1>7 DEF down

(* For a fleet no node joins or leaves, of any size, with any limits and   *)
(* faults: no group ever has more nodes out of service than                *)
(* ResolveConcurrency allows.                                              *)
THEOREM LimitIsKept == FixedFleet /\ Spec => []CordonBound
BY InitType, NextType, InitBatchInv, NextBatchInv, InitProgress, NextProgress, InitLimit,
   NextLimit, LimitKept, PTL DEF Spec

-----------------------------------------------------------------------------
(* One target: "apply" and failed nodes.                                   *)

(* The parent asks each group for one version only, which is the case of   *)
(* an upgrade of one hop. *)
OneTarget == \A v, w \in TargetVersions : v = w

(* DiscoverGroups puts every control-plane node into one group. *)
OneControlPlane ==
    \A g, h \in Group :
        Role[g] = "ControlPlane" /\ Role[h] = "ControlPlane" => g = h

(* A parent that leaves the targets of its children as they are. *)
SteadyWrite == SpecWrite /\ \A h \in child : spec'[h].target = Target(h)

(* A control plane works on one node at a time. *)
OneAtATime ==
    \A g \in Group :
        Role[g] = "ControlPlane" => \A n, m \in Active(g) : n = m

AimKept == \A g \in Group : status[g].phase # "" => status[g].to = Target(g)

(* A node told to run "apply" was started, and it alone in its group. *)
Appliers ==
    /\ \A n \in Node, v \in KnownVersion :
         <<n, v>> \in applied =>
            /\ Role[GroupOf[n]] = "ControlPlane"
            /\ n \in status[GroupOf[n]].started
    /\ \A n, m \in Node, v, w \in KnownVersion :
         <<n, v>> \in applied /\ <<m, w>> \in applied /\ GroupOf[n] = GroupOf[m] => n = m

(* A node is recorded as failed together with its group, which never moves *)
(* again, so that nobody creates the node another Job.                     *)
FailedInv ==
    \A g \in Group, n \in Node :
        status[g].nodePhase[n] = "Failed" =>
            /\ status[g].phase = "Failed" /\ n \in Member(g)
            /\ job[n][status[g].to] \in {"failed", "none"}

LEMMA InitSteady == Init => OneAtATime /\ AimKept /\ Appliers /\ FailedInv
<1>. SUFFICES ASSUME Init PROVE OneAtATime /\ AimKept /\ Appliers /\ FailedInv
  OBVIOUS
<1>1. /\ applied = {}
      /\ \A g \in Group : /\ status[g].phase = "" /\ status[g].started = {}
                          /\ status[g].nodePhase = [n \in Node |-> ""]
  BY DEF Init, NoStatus
<1>. QED BY <1>1 DEF OneAtATime, AimKept, Appliers, FailedInv, Active

LEMMA FirstOfOne ==
    ASSUME NEW S \in SUBSET Node, NEW k \in Nat, k <= 1,
           NEW n \in FirstOf(S, k), NEW m \in FirstOf(S, k)
    PROVE  n = m
<1>1. n \in S /\ m \in S /\ n \in Nat /\ m \in Nat
  BY FirstOfSubset, NodeAssumption
<1>2. ASSUME NEW x \in FirstOf(S, k) PROVE {y \in S : y < x} = {}
  <2>. DEFINE B == {y \in S : y < x}
  <2>1. IsFiniteSet(B) /\ Cardinality(B) \in Nat
    BY FiniteNodes
  <2>2. Cardinality(B) < k
    BY <1>2 DEF FirstOf
  <2>. HIDE DEF B
  <2>3. Cardinality(B) = 0
    BY <2>1, <2>2
  <2>4. B = {}
    BY <2>1, <2>3, FS_EmptySet
  <2>. QED BY <2>4 DEF B
<1>3. ~(n < m) /\ ~(m < n)
  BY <1>1, <1>2
<1>. QED BY <1>1, <1>3

LEMMA ReconcileOneAtATime ==
    ASSUME TypeOK, BatchInv, OneAtATime, NEW g \in Group, ReconcileGroup(g)
    PROVE  OneAtATime'
<1>1. SUFFICES ASSUME OthersKept(g), Role[g] = "ControlPlane",
                      NEW n \in Active(g)', NEW m \in Active(g)'
               PROVE  n = m
  <2>1. OthersKept(g)
    BY PendingEffect, ResetEffect, PhaseOnlyEffect, DrainEffect, UpgradeEffect, VerifyEffect
    DEF ReconcileGroup
  <2>. QED BY <1>1, <2>1 DEF OneAtATime, Active, OthersKept
<1>2. \A x, y \in Active(g) : x = y
  BY <1>1 DEF OneAtATime
<1>3. CASE DrainPass(g)
  <2>1. CASE Active(g) # {}
    <3>1. Active(g)' = Active(g)
      BY <1>3, <2>1, DrainEffect DEF Batch, Active
    <3>. QED BY <1>1, <1>2, <3>1
  <2>2. CASE Active(g) = {}
    <3>1. Active(g)' \subseteq NextBatch(g)
      BY <1>3, <2>2, DrainEffect DEF Batch, Active
    <3>2. Limit(g) \in Nat /\ Limit(g) <= 1
      BY <1>1, LimitRange
    <3>3. spec[g].nodes \ status[g].completed \in SUBSET Node
      BY DEF TypeOK, ChildSpec
    <3>. QED BY <1>1, <3>1, <3>2, <3>3, FirstOfOne DEF NextBatch
  <2>. QED BY <2>1, <2>2
<1>4. CASE ~DrainPass(g)
  <2>1. Active(g)' \subseteq Active(g)
    BY <1>4, PendingEffect, ResetEffect, PhaseOnlyEffect, UpgradeEffect, VerifyEffect
    DEF ReconcileGroup, KeepsEntries, Active
  <2>. QED BY <1>1, <1>2, <2>1
<1>. QED BY <1>3, <1>4

LEMMA ReconcileAimKept ==
    ASSUME TypeOK, AimKept, NEW g \in Group, ReconcileGroup(g)
    PROVE  AimKept' /\ ~Reset(g)
<1>1. ~Reset(g)
  BY ResetEffect DEF AimKept, NeedsReset
<1>2. OthersKept(g) /\ UNCHANGED spec /\ status'[g].to \in {status[g].to, Target(g)}
  BY <1>1, PendingEffect, PhaseOnlyEffect, DrainEffect, UpgradeEffect, VerifyEffect
  DEF ReconcileGroup, KeepsEntries
<1>3. status[g].phase = "" => status'[g].to = Target(g) \/ status'[g].phase = ""
  BY <1>1, PendingEffect, PhaseOnlyEffect, DrainEffect, UpgradeEffect, VerifyEffect
  DEF ReconcileGroup
<1>. QED BY <1>1, <1>2, <1>3 DEF AimKept, OthersKept, Target

(* What a pass does to the Jobs: it creates some for its own batch, and    *)
(* "apply" only while no node of the group has completed the target.       *)
LEMMA ReconcileJobs ==
    ASSUME TypeOK, NEW g \in Group, ReconcileGroup(g)
    PROVE  /\ \A n \in Node \ Active(g) : job'[n] = job[n]
           /\ \A n, v : <<n, v>> \in applied' \ applied =>
                 /\ n \in Active(g) /\ Role[g] = "ControlPlane"
                 /\ IsFirstControlPlaneUpgrade(g)
           /\ applied' # applied =>
                 UpgradePassInPlace(g) \/ UpgradePassReplace(g) \/ BeginBatchCutShort(g)
<1>1. CASE UNCHANGED jobVars
  BY <1>1 DEF jobVars
<1>2. ASSUME NEW S \in SUBSET ToUpgrade(g), CreateJobs(g, S)
      PROVE  /\ \A n \in Node \ Active(g) : job'[n] = job[n]
             /\ \A n, v : <<n, v>> \in applied' \ applied =>
                  /\ n \in Active(g) /\ Role[g] = "ControlPlane"
                  /\ IsFirstControlPlaneUpgrade(g)
  <2>1. S \subseteq Active(g)
    BY DEF ToUpgrade
  <2>. QED BY <1>2, <2>1 DEF CreateJobs
<1>3. \/ UNCHANGED jobVars
      \/ /\ UpgradePassInPlace(g) \/ BeginBatchCutShort(g)
         /\ \E S \in SUBSET ToUpgrade(g) : CreateJobs(g, S)
  <2>1. CASE UpgradePassInPlace(g)
    BY <2>1 DEF UpgradePassInPlace
  <2>2. CASE BeginBatchCutShort(g)
    <3>1. PICK S \in SUBSET ToUpgrade(g) : CreateJobs(g, S) \/ UNCHANGED jobVars
      BY <2>2 DEF BeginBatchCutShort
    <3>. QED BY <2>2, <3>1
  <2>3. CASE ~UpgradePassInPlace(g) /\ ~BeginBatchCutShort(g)
    <3>1. UpgradePassReplace(g) => UNCHANGED jobVars
      BY DEF UpgradePassReplace
    <3>. QED BY <2>3, <3>1, PendingEffect, ResetEffect, PhaseOnlyEffect, DrainEffect,
             VerifyEffect DEF ReconcileGroup
  <2>. QED BY <2>1, <2>2, <2>3
<1>. QED BY <1>1, <1>2, <1>3

LEMMA ReconcileAppliers ==
    ASSUME TypeOK, BatchInv, OneAtATime, AimKept, Appliers, NEW g \in Group,
           ReconcileGroup(g)
    PROVE  Appliers'
<1>1. ~Reset(g)
  BY ReconcileAimKept
<1>2. \A h \in Group : status[h].started \subseteq status'[h].started
  <2>1. CASE DrainPass(g)
    BY <2>1, DrainEffect DEF OthersKept
  <2>2. CASE VerifyPass(g)
    BY <2>2, VerifyEffect DEF OthersKept
  <2>3. CASE ~DrainPass(g) /\ ~VerifyPass(g)
    <3>1. OthersKept(g) /\ status'[g].started = status[g].started
      BY <1>1, <2>3, PendingEffect, PhaseOnlyEffect, UpgradeEffect
      DEF ReconcileGroup, KeepsEntries
    <3>. QED BY <3>1 DEF OthersKept
  <2>. QED BY <2>1, <2>2, <2>3
<1>3. \A n \in Node : GroupOf[n] \in Group
  BY NodeAssumption
<1>4. ASSUME NEW n, NEW v, <<n, v>> \in applied' \ applied
      PROVE  /\ n \in Active(g) /\ GroupOf[n] = g /\ Role[g] = "ControlPlane"
             /\ status[g].started \subseteq Active(g)
  <2>1. /\ n \in Active(g) /\ Role[g] = "ControlPlane" /\ IsFirstControlPlaneUpgrade(g)
        /\ status[g].phase = "Upgrading"
    BY <1>4, ReconcileJobs, UpgradeEffect
  <2>2. status[g].completed = {}
    BY <2>1 DEF IsFirstControlPlaneUpgrade, AimKept
  <2>. QED BY <2>1, <2>2 DEF BatchInv, OwnNodes, Active, Member
<1>5. \A n, m \in Active(g) : Role[g] = "ControlPlane" => n = m
  BY DEF OneAtATime
<1>6. ASSUME NEW n \in Node, NEW v \in KnownVersion, <<n, v>> \in applied'
      PROVE  Role[GroupOf[n]] = "ControlPlane" /\ n \in status'[GroupOf[n]].started
  BY <1>2, <1>3, <1>4, <1>6 DEF Appliers, Active
<1>7. ASSUME NEW n \in Node, NEW m \in Node, NEW v \in KnownVersion, NEW w \in KnownVersion,
             <<n, v>> \in applied', <<m, w>> \in applied', GroupOf[n] = GroupOf[m]
      PROVE  n = m
  <2>1. CASE <<n, v>> \in applied /\ <<m, w>> \in applied
    BY <1>7, <2>1 DEF Appliers
  <2>2. CASE <<n, v>> \notin applied
    <3>1. m \in Active(g)
      BY <1>4, <1>7, <2>2 DEF Appliers
    <3>. QED BY <1>4, <1>5, <1>7, <2>2, <3>1
  <2>3. CASE <<m, w>> \notin applied
    <3>1. n \in Active(g)
      BY <1>4, <1>7, <2>3 DEF Appliers
    <3>. QED BY <1>4, <1>5, <1>7, <2>3, <3>1
  <2>. QED BY <2>1, <2>2, <2>3
<1>. QED BY <1>6, <1>7 DEF Appliers

(* A pass of reconcileUpgrading that sees the Jobs as they are records a   *)
(* node as failed only with its group and with a Job that failed or is     *)
(* missing; no other pass records a failure.                               *)
LEMMA FailureEffect ==
    ASSUME TypeOK, "cache" \notin Faults, NEW g \in Group, UpgradePassInPlace(g),
           NEW n \in Node, status'[g].nodePhase[n] = "Failed"
    PROVE  \/ status[g].nodePhase[n] = "Failed"
           \/ /\ status'[g].phase = "Failed" /\ n \in Active(g)
              /\ job'[n][Target(g)] \in {"none", "failed"}
<1>1. PICK unseen \in Unseen(g) : ApplyResults(g, unseen)
  BY DEF UpgradePassInPlace
<1>2. unseen = {}
  BY <1>1 DEF Unseen
<1>. DEFINE failed  == FirstOf(PolledFailed(g, unseen), 1)
            applies == {m \in ToUpgrade(g) : \A f \in failed : m < f}
            done    == (Active(g) \ ToUpgrade(g)) \cup (PolledUpgraded(g) \cap applies)
            nph == [m \in Node |->
                     IF m \in failed THEN "Failed"
                     ELSE IF m \in done THEN "Upgraded"
                     ELSE IF m \in ToUpgrade(g) /\ NeedsBegin(g) THEN "Upgrading"
                     ELSE status[g].nodePhase[m]]
            gph == IF failed # {} THEN "Failed"
                   ELSE IF done = Active(g) THEN "Verifying" ELSE status[g].phase
<1>3. status[g] \in Status /\ status \in [Group -> Status]
  BY DEF TypeOK
<1>4. status' = [status EXCEPT ![g].nodePhase = nph, ![g].phase = gph]
  BY <1>1, <1>3 DEF ApplyResults, Status
<1>5. failed \subseteq PolledFailed(g, unseen)
  BY FirstOfSubset
<1>. HIDE DEF failed, done
<1>6. status'[g].nodePhase = nph /\ status'[g].phase = gph
  <2>. HIDE DEF nph, gph
  <2>. QED BY <1>3, <1>4 DEF Status
<1>7. n \in failed \/ status[g].nodePhase[n] = "Failed"
  BY <1>6
<1>8. n \in failed => gph = "Failed"
  OBVIOUS
<1>9. n \in failed => n \in Active(g) /\ job'[n][Target(g)] \in {"none", "failed"}
  BY <1>2, <1>5 DEF PolledFailed, ToUpgrade
<1>. QED BY <1>6, <1>7, <1>8, <1>9

LEMMA QuietFailures ==
    ASSUME TypeOK, NEW g \in Group, ReconcileGroup(g), ~UpgradePassInPlace(g),
           NEW n \in Node, status'[g].nodePhase[n] = "Failed"
    PROVE  status[g].nodePhase[n] = "Failed"
<1>1. status[g] \in Status /\ status \in [Group -> Status]
  BY DEF TypeOK
<1>2. CASE UpgradePassReplace(g)
  <2>1. PICK gone \in BOOLEAN :
            status' = [status EXCEPT
              ![g].nodePhase = [m \in Node |->
                  IF m \in Active(g)
                  THEN IF gone \/ m \notin ToUpgrade(g) THEN "Upgraded" ELSE "Upgrading"
                  ELSE @[m]],
              ![g].phase = IF gone THEN "Verifying" ELSE @]
    BY <1>2 DEF UpgradePassReplace
  <2>. QED BY <1>1, <2>1 DEF Status
<1>3. CASE BeginBatchCutShort(g)
  <2>1. UNCHANGED status \/ SetPhase(g, "Failed")
    BY <1>3 DEF BeginBatchCutShort
  <2>. QED BY <2>1, SetPhaseEffect
<1>4. CASE VerifyPass(g)
  BY <1>4, VerifyEffect
<1>5. CASE DrainPass(g)
  BY <1>5, DrainEffect
<1>6. CASE Reset(g)
  BY <1>6, ResetEffect
<1>. QED BY <1>2, <1>3, <1>4, <1>5, <1>6, PendingEffect, PhaseOnlyEffect DEF ReconcileGroup

LEMMA ReconcileFailed ==
    ASSUME TypeOK, BatchInv, AimKept, FailedInv, "cache" \notin Faults,
           NEW g \in Group, ReconcileGroup(g)
    PROVE  FailedInv'
<1>1. OthersKept(g) /\ status[g].phase # "Failed"
  BY PendingEffect, ResetEffect, PhaseOnlyEffect, DrainEffect, UpgradeEffect, VerifyEffect
  DEF ReconcileGroup
<1>2. \A n \in Node : status[g].nodePhase[n] # "Failed"
  BY <1>1 DEF FailedInv
<1>3. ASSUME NEW h \in Group \ {g}, NEW n \in Node, status'[h].nodePhase[n] = "Failed"
      PROVE  /\ status'[h].phase = "Failed" /\ n \in Member(h)
             /\ job'[n][status'[h].to] \in {"failed", "none"}
  <2>1. status'[h] = status[h]
    BY <1>1 DEF OthersKept
  <2>2. n \in Member(h) /\ n \notin Active(g)
    BY <1>3, <2>1, BatchOwn DEF FailedInv, Member
  <2>. QED BY <1>3, <2>1, <2>2, ReconcileJobs DEF FailedInv
<1>4. ASSUME NEW n \in Node, status'[g].nodePhase[n] = "Failed"
      PROVE  /\ status'[g].phase = "Failed" /\ n \in Member(g)
             /\ job'[n][status'[g].to] \in {"failed", "none"}
  <2>1. UpgradePassInPlace(g)
    BY <1>2, <1>4, QuietFailures
  <2>2. status'[g].to = Target(g)
    BY <2>1, UpgradeEffect DEF AimKept, KeepsEntries
  <2>3. /\ status'[g].phase = "Failed" /\ n \in Active(g)
        /\ job'[n][Target(g)] \in {"none", "failed"}
    BY <1>2, <1>4, <2>1, FailureEffect
  <2>. QED BY <2>2, <2>3, BatchOwn
<1>5. ASSUME NEW h \in Group, NEW n \in Node, status'[h].nodePhase[n] = "Failed"
      PROVE  /\ status'[h].phase = "Failed" /\ n \in Member(h)
             /\ job'[n][status'[h].to] \in {"failed", "none"}
  BY <1>3, <1>4, <1>5
<1>. QED BY <1>5 DEF FailedInv, Member

LEMMA ClusterSteady ==
    ASSUME TypeOK, OneAtATime, AimKept, Appliers, Cluster
    PROVE  OneAtATime' /\ AimKept' /\ Appliers'
<1>1. UNCHANGED <<child, spec, status, applied>>
  BY DEF childVars, jobVars, Cluster, JobInstalls, JobCompletes, JobFails, JobExpires,
     NodeLosesReady, NodeRecovers, NodeJoins, DrainTimesOut, PodTerminates, PodScheduled
<1>. QED BY <1>1 DEF OneAtATime, AimKept, Appliers, Active, Target

(* A Job that has failed or is missing stays so, whatever the cluster does.*)
LEMMA ClusterFailed ==
    ASSUME TypeOK, FailedInv, Cluster
    PROVE  FailedInv'
<1>1. UNCHANGED status
  BY DEF childVars, Cluster, JobInstalls, JobCompletes, JobFails, JobExpires,
     NodeLosesReady, NodeRecovers, NodeJoins, DrainTimesOut, PodTerminates, PodScheduled
<1>2. \A n \in Node, v \in KnownVersion :
         job[n][v] \in {"failed", "none"} => job'[n][v] \in {"failed", "none"}
  <2>1. \/ UNCHANGED job
        \/ \E m \in Node, w \in KnownVersion : \E st \in JobState :
              /\ SetJob(m, w, st)
              /\ job[m][w] \notin {"failed", "none"} \/ st \in {"failed", "none"}
    BY DEF Cluster, JobInstalls, JobCompletes, JobFails, JobExpires, JobState,
     NodeLosesReady, NodeRecovers, NodeJoins, DrainTimesOut, PodTerminates, PodScheduled,
     jobVars
  <2>2. job \in [Node -> [KnownVersion -> JobState]]
    BY DEF TypeOK
  <2>. QED BY <2>1, <2>2 DEF SetJob
<1>3. \A g \in Group : status[g].to \in KnownVersion
  BY DEF TypeOK, Status
<1>. QED BY <1>1, <1>2, <1>3 DEF FailedInv, Member

LEMMA WriteSteady ==
    ASSUME TypeOK, ProgressInv, OneAtATime, AimKept, Appliers, SteadyWrite
    PROVE  OneAtATime' /\ AimKept' /\ Appliers'
<1>1. UNCHANGED <<status, applied>>
  BY DEF SteadyWrite, SpecWrite, jobVars
<1>2. \A g \in Group : status[g].phase # "" => spec'[g].target = Target(g)
  BY DEF SteadyWrite, ProgressInv, Progress, Entries
<1>. QED BY <1>1, <1>2 DEF OneAtATime, AimKept, Appliers, Active, Target

(* The steps of Spec, when there is one target to ask for. *)
SameAim == OneTarget /\ \A g \in child : Target(g) \in TargetVersions

LEMMA InitSameAim == OneTarget /\ Init => SameAim
BY DEF Init, SameAim

LEMMA ParentSteady ==
    ASSUME TypeOK, SameAim, NEW g \in Group, Parent(g)
    PROVE  SteadyWrite /\ SameAim'
<1>1. spec[g] \in ChildSpec /\ spec \in [Group -> ChildSpec]
  BY DEF TypeOK
<1>2. /\ \A h \in Group \ {g} : Target(h)' = Target(h)
      /\ Target(g)' = Target(g) \/ Target(g)' \in TargetVersions
      /\ g \in child' => g \in child \/ Target(g)' \in TargetVersions
      /\ child' \subseteq child \cup {g}
  <2>1. CASE \E v \in TargetVersions : ParentApplies(g, v)
    BY <1>1, <2>1 DEF ParentApplies, ApplySpec, ChildSpec, Target
  <2>2. CASE ParentReleases(g)
    BY <1>1, <2>2 DEF ParentReleases, ClearHold, ChildSpec, Target
  <2>3. CASE TogglePause(g)
    BY <1>1, <2>3 DEF TogglePause, ChildSpec, Target
  <2>. QED BY <2>1, <2>2, <2>3 DEF Parent
<1>3. child \subseteq Group
  BY DEF TypeOK
<1>4. \A h \in child : Target(h)' = Target(h)
  BY <1>2, <1>3 DEF SameAim, OneTarget
<1>5. SameAim'
  BY <1>2, <1>3, <1>4 DEF SameAim, OneTarget
<1>. QED BY <1>4, <1>5, ParentSpecWrite DEF SteadyWrite, Target

LEMMA NextSameAim == TypeOK /\ SameAim /\ [Next]_vars => SameAim'
<1>. SUFFICES ASSUME TypeOK, SameAim, [Next]_vars PROVE SameAim'
  OBVIOUS
<1>1. ASSUME UNCHANGED <<child, spec>> PROVE SameAim'
  BY <1>1 DEF SameAim, OneTarget, Target
<1>2. ASSUME NEW g \in Group, ReconcileGroup(g) PROVE UNCHANGED <<child, spec>>
  BY <1>2, PendingEffect, ResetEffect, PhaseOnlyEffect, DrainEffect, UpgradeEffect,
     VerifyEffect DEF ReconcileGroup
<1>3. ASSUME Cluster PROVE UNCHANGED <<child, spec>>
  BY <1>3 DEF childVars, Cluster, JobInstalls, JobCompletes, JobFails, JobExpires,
     NodeLosesReady, NodeRecovers, NodeJoins, DrainTimesOut, PodTerminates, PodScheduled
<1>4. CASE UNCHANGED vars
  BY <1>1, <1>4 DEF vars, childVars
<1>. QED BY <1>1, <1>2, <1>3, <1>4, ParentSteady DEF Next

SteadyInv == SameAim /\ OneAtATime /\ AimKept /\ Appliers

LEMMA NextSteady ==
    TypeOK /\ BatchInv /\ ProgressInv /\ SteadyInv /\ [Next]_vars => SteadyInv'
<1>. SUFFICES ASSUME TypeOK, BatchInv, ProgressInv, SteadyInv, [Next]_vars
              PROVE  SteadyInv'
  OBVIOUS
<1>1. CASE UNCHANGED vars
  BY <1>1 DEF SteadyInv, SameAim, OneTarget, OneAtATime, AimKept, Appliers, Active, Target,
     vars, childVars, jobVars
<1>2. ASSUME NEW g \in Group, ReconcileGroup(g)
      PROVE  OneAtATime' /\ AimKept' /\ Appliers'
  BY <1>2, ReconcileOneAtATime, ReconcileAimKept, ReconcileAppliers DEF SteadyInv
<1>3. ASSUME NEW g \in Group, Parent(g)
      PROVE  OneAtATime' /\ AimKept' /\ Appliers'
  BY <1>3, ParentSteady, WriteSteady DEF SteadyInv
<1>. QED BY <1>1, <1>2, <1>3, ClusterSteady, NextSameAim DEF Next, SteadyInv

LEMMA SteadyApplyOnce ==
    ASSUME TypeOK, Appliers, OneControlPlane
    PROVE  ApplyOnce
<1>. SUFFICES ASSUME NEW v \in KnownVersion
              PROVE  Cardinality({n \in Node : <<n, v>> \in applied}) <= 1
  BY DEF ApplyOnce
<1>. DEFINE A == {n \in Node : <<n, v>> \in applied}
<1>1. \A n, m \in A : n = m
  BY NodeAssumption DEF Appliers, OneControlPlane
<1>2. A = {} \/ \E n \in A : A = {n}
  BY <1>1
<1>. HIDE DEF A
<1>3. Cardinality(A) \in {0, 1}
  BY <1>2, FS_EmptySet, FS_Singleton
<1>4. Cardinality(A) <= 1
  BY <1>3
<1>. QED BY <1>4 DEF A

(* One hop, one control-plane group: over any number of batches, restarts, *)
(* failed and expired Jobs, one node at most is told to run "kubeadm       *)
(* upgrade apply" for a version.                                           *)
THEOREM AppliesOnce == OneTarget /\ OneControlPlane /\ Spec => []ApplyOnce
<1>1. OneTarget /\ Init => SteadyInv
  BY InitSteady, InitSameAim DEF SteadyInv
<1>2. OneControlPlane /\ TypeOK /\ SteadyInv => ApplyOnce
  BY SteadyApplyOnce DEF SteadyInv
<1>3. OneControlPlane => OneControlPlane'
  BY DEF OneControlPlane
<1>. QED BY <1>1, <1>2, <1>3, InitType, NextType, InitBatchInv, NextBatchInv, InitProgress,
         NextProgress, NextSteady, PTL DEF Spec

(* One hop, and a cache that is never behind the Jobs just created: a node *)
(* is recorded as failed only if its Job has failed or is gone.  The       *)
(* premise is needed: the fault "cache" breaks the property.               *)
THEOREM FailuresAreReal ==
    OneTarget /\ "cache" \notin Faults /\ Spec => []FailedMeansJobGone
<1>. DEFINE NoStaleCache == "cache" \notin Faults
<1>1. OneTarget /\ Init => SteadyInv /\ FailedInv
  BY InitSteady, InitSameAim DEF SteadyInv
<1>2. FailedInv => FailedMeansJobGone
  BY DEF FailedInv, FailedMeansJobGone
<1>3. NoStaleCache => NoStaleCache'
  OBVIOUS
<1>4. NoStaleCache /\ TypeOK /\ BatchInv /\ ProgressInv /\ SteadyInv /\ FailedInv
         /\ [Next]_vars => FailedInv'
  <2>. SUFFICES ASSUME NoStaleCache, TypeOK, BatchInv, ProgressInv, SteadyInv, FailedInv,
                       [Next]_vars
                PROVE  FailedInv'
    OBVIOUS
  <2>1. ASSUME UNCHANGED <<status, job>> PROVE FailedInv'
    BY <2>1 DEF FailedInv, Member
  <2>2. ASSUME NEW g \in Group, Parent(g) PROVE UNCHANGED <<status, job>>
    BY <2>2, ParentSpecWrite DEF SpecWrite, jobVars
  <2>3. CASE UNCHANGED vars
    BY <2>1, <2>3 DEF vars, childVars, jobVars
  <2>. QED BY <2>1, <2>2, <2>3, ReconcileFailed, ClusterFailed DEF Next, SteadyInv
<1>. HIDE DEF NoStaleCache
<1>5. NoStaleCache /\ OneTarget /\ Spec => []FailedMeansJobGone
  BY <1>1, <1>2, <1>3, <1>4, InitType, NextType, InitBatchInv, NextBatchInv, InitProgress,
     NextProgress, NextSteady, PTL DEF Spec
<1>. QED BY <1>5 DEF NoStaleCache

=============================================================================
