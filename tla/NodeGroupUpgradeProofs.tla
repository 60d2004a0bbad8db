----------------------- MODULE NodeGroupUpgradeProofs -----------------------
(***************************************************************************)
(* Safety of the NodeGroupUpgrade controller for every cluster, every      *)
(* concurrency limit and every fault: types, a node is drained and         *)
(* cordoned while its executor has yet to replace the kubelet, no kubelet  *)
(* is made older, and a disruption budget is overridden only after the     *)
(* drain timeout.                                                          *)
(***************************************************************************)
EXTENDS NodeGroupUpgrade, K8sVersionProofs

(* The progress entries of a group are about its own nodes. *)
OwnNodes ==
    \A g \in Group :
        /\ spec[g].nodes \subseteq Member(g)
        /\ status[g].seeded \subseteq Member(g)
        /\ status[g].started \subseteq Member(g)

(* The batch that reconcileDraining hands to reconcileUpgrading. *)
BatchDrained ==
    \A g \in Group :
        InPlace(g) /\ status[g].phase = "Upgrading" =>
            \A n \in Active(g) : n \in present \cap cordoned /\ Drained(n)

(* A Job that has not yet installed the kubelet is one for the current     *)
(* target, of a node that is still behind it: what keeps the parent from   *)
(* raising the target, and reconcileVerifying from uncordoning the node.   *)
JobBehind ==
    \A n \in Node, v \in KnownVersion :
        job[n][v] = "running" =>
            /\ GroupOf[n] \in child /\ InPlace(GroupOf[n])
            /\ v = Target(GroupOf[n]) /\ Before(version[n], v)
            /\ n \in present \cap cordoned /\ Drained(n)

BatchInv == OwnNodes /\ BatchDrained /\ JobBehind

-----------------------------------------------------------------------------
(* Types.                                                                  *)

LEMMA FirstOfSubset == \A S, k : FirstOf(S, k) \subseteq S
BY DEF FirstOf

LEMMA NextBatchSubset == \A g : NextBatch(g) \subseteq spec[g].nodes
BY FirstOfSubset DEF NextBatch

LEMMA InitType == Init => TypeOK
<1>. SUFFICES ASSUME Init PROVE TypeOK
  OBVIOUS
<1>1. (CHOOSE v \in KnownVersion : TRUE) \in KnownVersion
  BY VersionAssumption
<1>2. NoSpec \in ChildSpec
  BY <1>1 DEF NoSpec, ChildSpec
<1>3. NoStatus \in Status
  BY <1>1 DEF NoStatus, Status, NGPhase, NodePhase
<1>4. job \in [Node -> [KnownVersion -> JobState]]
  BY DEF Init, JobState
<1>. QED
  BY <1>2, <1>3, <1>4, NodeAssumption, LimitAssumption, VersionAssumption, PodAssumption
  DEF Init, TypeOK

LEMMA SetPhaseType ==
    ASSUME TypeOK, NEW g \in Group, NEW ph \in NGPhase, SetPhase(g, ph)
    PROVE  status' \in [Group -> Status]
<1>1. status[g] \in Status
  BY DEF TypeOK
<1>2. [status[g] EXCEPT !.phase = ph] \in Status
  BY <1>1 DEF Status
<1>. QED BY <1>2 DEF TypeOK, SetPhase

LEMMA PendingResetType ==
    ASSUME TypeOK, NEW g \in Group, ReconcilePending(g) \/ Reset(g)
    PROVE  TypeOK'
<1>1. spec[g] \in ChildSpec /\ status[g] \in Status
  BY DEF TypeOK
<1>2. spec[g].nodes \in SUBSET Node /\ Target(g) \in KnownVersion
  BY <1>1 DEF ChildSpec, Target
<1>3. CASE ReconcilePending(g)
  BY <1>1, <1>2, <1>3
  DEF TypeOK, ReconcilePending, Status, NGPhase, nodeVars, podVars, jobVars
<1>4. CASE Reset(g)
  BY <1>1, <1>4
  DEF TypeOK, Reset, Status, NGPhase, NodePhase, nodeVars, podVars, jobVars
<1>. QED BY <1>3, <1>4

LEMMA PhaseOnlyType ==
    ASSUME TypeOK, NEW g \in Group,
           CompleteGroup(g) \/ NothingActive(g) \/ NoAdapter(g) \/ HandleAdapterError(g)
    PROVE  TypeOK'
<1>1. PICK ph \in NGPhase : SetPhase(g, ph)
  BY DEF CompleteGroup, NothingActive, NoAdapter, HandleAdapterError, NGPhase
<1>2. UNCHANGED <<child, spec, nodeVars, podVars, jobVars>>
  BY DEF CompleteGroup, NothingActive, NoAdapter, HandleAdapterError
<1>. QED BY <1>1, <1>2, SetPhaseType DEF TypeOK, nodeVars, podVars, jobVars

LEMMA DrainPassType ==
    ASSUME TypeOK, NEW g \in Group, DrainPass(g)
    PROVE  TypeOK'
<1>. DEFINE batch   == IF Active(g) # {} THEN Active(g) ELSE NextBatch(g)
            fresh   == (batch \cap status[g].seeded) \ Active(g)
            reach   == {n \in batch : \A m \in batch : m <= n => m \in present}
            drained == {n \in batch : Drained(n)}
<1>1. PICK handled \in {reach} \cup CutShort(reach), lost \in Losses :
        LET saved == handled = batch /\ ~lost IN
        /\ cordoned' = cordoned \cup handled
        /\ terminating' = terminating \cup UNION {Deleted(Active(g), n) : n \in handled}
        /\ status' = [status EXCEPT
             ![g].started = @ \cup fresh,
             ![g].nodePhase =
                [n \in Node |->
                   IF saved /\ n \in drained \cap (Active(g) \cup fresh) THEN "Drained"
                   ELSE IF n \in fresh THEN "Draining" ELSE @[n]],
             ![g].phase = IF saved /\ drained = batch THEN "Upgrading" ELSE @]
  BY DEF DrainPass
<1>2. /\ overdue' = overdue \ fresh
      /\ UNCHANGED <<child, spec, present, version, ready, flaps, pods, jobVars>>
  BY DEF DrainPass
<1>3. status[g] \in Status /\ spec[g] \in ChildSpec
  BY DEF TypeOK
<1>4. batch \subseteq Node /\ fresh \subseteq Node /\ reach \subseteq Node
  <2>1. Active(g) \subseteq Node
    BY <1>3 DEF Active, Status
  <2>2. NextBatch(g) \subseteq Node
    BY <1>3, NextBatchSubset DEF ChildSpec
  <2>. QED BY <2>1, <2>2
<1>5. handled \subseteq reach
  BY <1>1 DEF CutShort
<1>6. UNION {Deleted(Active(g), n) : n \in handled} \subseteq Pod
  BY <1>4, <1>5 DEF TypeOK, Deleted, Evictable
<1>7. status' \in [Group -> Status]
  <2>. DEFINE saved == handled = batch /\ ~lost
              np == [n \in Node |->
                       IF saved /\ n \in drained \cap (Active(g) \cup fresh) THEN "Drained"
                       ELSE IF n \in fresh THEN "Draining" ELSE status[g].nodePhase[n]]
              ph == IF saved /\ drained = batch THEN "Upgrading" ELSE status[g].phase
              r  == [status[g] EXCEPT !.started = @ \cup fresh,
                                      !.nodePhase = np, !.phase = ph]
  <2>1. status' = [status EXCEPT ![g] = r]
    BY <1>1, <1>3 DEF TypeOK, Status
  <2>2. np \in [Node -> NodePhase] /\ ph \in NGPhase
    BY <1>3 DEF Status, NodePhase, NGPhase
  <2>. HIDE DEF saved, np, ph, fresh
  <2>3. r \in Status
    BY <1>3, <1>4, <2>2 DEF Status
  <2>. HIDE DEF r
  <2>. QED BY <2>1, <2>3 DEF TypeOK
<1>. QED BY <1>1, <1>2, <1>4, <1>5, <1>6, <1>7 DEF TypeOK, jobVars

LEMMA CreateJobsType ==
    ASSUME TypeOK, NEW g \in Group, NEW S \in SUBSET ToUpgrade(g), CreateJobs(g, S)
    PROVE  /\ job' \in [Node -> [KnownVersion -> JobState]]
           /\ applied' \subseteq Node \X KnownVersion
<1>1. Target(g) \in KnownVersion
  BY DEF TypeOK, ChildSpec, Target
<1>2. S \subseteq Node
  BY DEF TypeOK, Status, ToUpgrade, Active
<1>3. job' \in [Node -> [KnownVersion -> JobState]]
  BY <1>1 DEF CreateJobs, TypeOK, JobState
<1>4. applied' \subseteq Node \X KnownVersion
  BY <1>1, <1>2 DEF CreateJobs, TypeOK
<1>. QED BY <1>3, <1>4

(* A pass of reconcileUpgrading writes only phases. *)
LEMMA PhasesType ==
    ASSUME TypeOK, NEW g \in Group, NEW np \in [Node -> NodePhase], NEW ph \in NGPhase,
           status' = [status EXCEPT ![g].nodePhase = np, ![g].phase = ph]
    PROVE  status' \in [Group -> Status]
<1>1. status[g] \in Status
  BY DEF TypeOK
<1>2. [status[g] EXCEPT !.nodePhase = np, !.phase = ph] \in Status
  BY <1>1 DEF Status
<1>. QED BY <1>2 DEF TypeOK

LEMMA UpgradeInPlaceType ==
    ASSUME TypeOK, NEW g \in Group, UpgradePassInPlace(g)
    PROVE  TypeOK'
<1>1. /\ job' \in [Node -> [KnownVersion -> JobState]]
      /\ applied' \subseteq Node \X KnownVersion
  BY CreateJobsType DEF UpgradePassInPlace, TypeOK, jobVars
<1>2. status' \in [Group -> Status]
  <2>0. PICK unseen \in Unseen(g) : ApplyResults(g, unseen)
    BY DEF UpgradePassInPlace
  <2>. DEFINE failed  == FirstOf(PolledFailed(g, unseen), 1)
              applies == {n \in ToUpgrade(g) : \A f \in failed : n < f}
              done    == (Active(g) \ ToUpgrade(g)) \cup (PolledUpgraded(g) \cap applies)
              np == [n \in Node |->
                       IF n \in failed THEN "Failed"
                       ELSE IF n \in done THEN "Upgraded"
                       ELSE IF n \in ToUpgrade(g) /\ NeedsBegin(g) THEN "Upgrading"
                       ELSE status[g].nodePhase[n]]
              ph == IF failed # {} THEN "Failed"
                    ELSE IF done = Active(g) THEN "Verifying" ELSE status[g].phase
  <2>1. status' = [status EXCEPT ![g].nodePhase = np, ![g].phase = ph]
    BY <2>0 DEF ApplyResults, TypeOK, Status
  <2>. HIDE DEF failed, done
  <2>2. status[g].nodePhase \in [Node -> NodePhase] /\ status[g].phase \in NGPhase
    BY DEF TypeOK, Status
  <2>3. np \in [Node -> NodePhase]
    BY <2>2 DEF NodePhase
  <2>4. ph \in NGPhase
    BY <2>2 DEF NGPhase
  <2>. HIDE DEF np, ph
  <2>. QED BY <2>1, <2>3, <2>4, PhasesType
<1>. QED BY <1>1, <1>2 DEF UpgradePassInPlace, TypeOK, nodeVars, podVars

LEMMA UpgradeReplaceType ==
    ASSUME TypeOK, NEW g \in Group, UpgradePassReplace(g)
    PROVE  TypeOK'
<1>1. status' \in [Group -> Status]
  <2>1. PICK gone \in BOOLEAN :
          status' = [status EXCEPT
              ![g].nodePhase = [n \in Node |->
                  IF n \in Active(g)
                  THEN IF gone \/ n \notin ToUpgrade(g) THEN "Upgraded" ELSE "Upgrading"
                  ELSE @[n]],
              ![g].phase = IF gone THEN "Verifying" ELSE @]
    BY DEF UpgradePassReplace
  <2>. DEFINE np == [n \in Node |->
                       IF n \in Active(g)
                       THEN IF gone \/ n \notin ToUpgrade(g) THEN "Upgraded" ELSE "Upgrading"
                       ELSE status[g].nodePhase[n]]
              ph == IF gone THEN "Verifying" ELSE status[g].phase
  <2>2. status' = [status EXCEPT ![g].nodePhase = np, ![g].phase = ph]
    BY <2>1 DEF TypeOK, Status
  <2>3. np \in [Node -> NodePhase] /\ ph \in NGPhase
    BY DEF TypeOK, Status, NodePhase, NGPhase
  <2>. HIDE DEF np, ph
  <2>. QED BY <2>2, <2>3, PhasesType
<1>. QED BY <1>1 DEF UpgradePassReplace, TypeOK, podVars, jobVars

LEMMA BeginCutShortType ==
    ASSUME TypeOK, NEW g \in Group, BeginBatchCutShort(g)
    PROVE  TypeOK'
<1>1. PICK S \in SUBSET ToUpgrade(g) :
        /\ IF InPlace(g)
           THEN CreateJobs(g, S) /\ UNCHANGED present
           ELSE present' = present \ S /\ UNCHANGED jobVars
        /\ UNCHANGED status \/ SetPhase(g, "Failed")
  BY DEF BeginBatchCutShort
<1>2. status' \in [Group -> Status]
  BY <1>1, SetPhaseType DEF TypeOK, NGPhase
<1>3. /\ job' \in [Node -> [KnownVersion -> JobState]]
      /\ applied' \subseteq Node \X KnownVersion
      /\ present' \subseteq Node
  BY <1>1, CreateJobsType DEF TypeOK, jobVars
<1>. QED BY <1>2, <1>3 DEF BeginBatchCutShort, TypeOK, podVars

LEMMA VerifyPassType ==
    ASSUME TypeOK, NEW g \in Group, VerifyPass(g)
    PROVE  TypeOK'
<1>1. status[g] \in Status
  BY DEF TypeOK
<1>2. Active(g) \subseteq Node /\ Mark(g, Active(g), "Ready") \in [Node -> NodePhase]
  BY <1>1 DEF Status, Active, Mark, NodePhase
<1>. DEFINE r == [status[g] EXCEPT !.completed = @ \cup Active(g),
                                   !.nodePhase = Mark(g, Active(g), "Ready"),
                                   !.phase = "Draining"]
<1>3. r \in Status
  BY <1>1, <1>2 DEF Status, NGPhase
<1>4. UNCHANGED status \/ status' = [status EXCEPT ![g] = r]
  BY <1>1 DEF VerifyPass, TypeOK, Status
<1>5. status' \in [Group -> Status]
  BY <1>3, <1>4 DEF TypeOK
<1>6. cordoned' \subseteq Node
  BY DEF VerifyPass, Uncordon, TypeOK
<1>. QED BY <1>5, <1>6 DEF VerifyPass, TypeOK, podVars, jobVars

LEMMA ClusterType ==
    ASSUME TypeOK, Cluster
    PROVE  TypeOK'
<1>. USE DEF childVars, nodeVars, podVars, jobVars
<1>1. ASSUME NEW n \in Node, NEW v \in KnownVersion, NEW st \in JobState, SetJob(n, v, st)
      PROVE  job' \in [Node -> [KnownVersion -> JobState]]
  <2>1. job[n] \in [KnownVersion -> JobState]
    BY DEF TypeOK
  <2>2. [job[n] EXCEPT ![v] = st] \in [KnownVersion -> JobState]
    BY <2>1
  <2>3. job' = [job EXCEPT ![n] = [job[n] EXCEPT ![v] = st]]
    BY <1>1 DEF SetJob, TypeOK
  <2>. QED BY <2>2, <2>3 DEF TypeOK
<1>2. ASSUME NEW n \in Node, NEW v \in KnownVersion,
             JobInstalls(n, v) \/ JobCompletes(n, v) \/ JobFails(n, v) \/ JobExpires(n, v)
      PROVE  TypeOK'
  <2>1. PICK st \in JobState : SetJob(n, v, st)
    BY <1>2 DEF JobInstalls, JobCompletes, JobFails, JobExpires, JobState
  <2>2. job' \in [Node -> [KnownVersion -> JobState]]
    BY <1>1, <2>1
  <2>3. version' \in [Node -> KnownVersion]
    BY <1>2 DEF TypeOK, JobInstalls, JobCompletes, JobFails, JobExpires
  <2>. QED BY <1>2, <2>2, <2>3
           DEF TypeOK, JobInstalls, JobCompletes, JobFails, JobExpires
<1>3. ASSUME NEW n \in Node,
             NodeLosesReady(n) \/ NodeRecovers(n) \/ NodeJoins(n) \/ DrainTimesOut(n)
      PROVE  TypeOK'
  <2>1. flaps' \in 0..MaxFlaps
    BY <1>3, LimitAssumption
    DEF TypeOK, NodeLosesReady, NodeRecovers, NodeJoins, DrainTimesOut
  <2>2. version' \in [Node -> KnownVersion]
    BY <1>3, VersionAssumption
    DEF TypeOK, NodeLosesReady, NodeRecovers, NodeJoins, DrainTimesOut
  <2>. QED BY <1>3, <2>1, <2>2
           DEF TypeOK, NodeLosesReady, NodeRecovers, NodeJoins, DrainTimesOut
<1>4. ASSUME NEW p \in Pod, PodTerminates(p)
      PROVE  TypeOK'
  BY <1>4 DEF TypeOK, PodTerminates
<1>5. ASSUME NEW p \in Pod, NEW n \in Node, PodScheduled(p, n)
      PROVE  TypeOK'
  BY <1>5 DEF TypeOK, PodScheduled
<1>. QED BY <1>2, <1>3, <1>4, <1>5 DEF Cluster

LEMMA ParentType ==
    ASSUME TypeOK, NEW g \in Group, Parent(g)
    PROVE  TypeOK'
<1>. USE DEF nodeVars, podVars, jobVars
<1>1. spec[g] \in ChildSpec
  BY DEF TypeOK
<1>2. ASSUME NEW v \in TargetVersions, ParentApplies(g, v)
      PROVE  TypeOK'
  <2>. DEFINE r == [spec[g] EXCEPT !.target = v, !.hold = TRUE,
                                   !.nodes = Member(g) \cap present]
  <2>1. r \in ChildSpec
    BY <1>1, VersionAssumption DEF ChildSpec, Member
  <2>2. spec' = [spec EXCEPT ![g] = r]
    BY <1>1, <1>2 DEF ParentApplies, ApplySpec, TypeOK, ChildSpec
  <2>. QED BY <1>2, <2>1, <2>2 DEF ParentApplies, ApplySpec, TypeOK
<1>3. CASE ParentReleases(g)
  <2>1. [spec[g] EXCEPT !.hold = FALSE] \in ChildSpec
    BY <1>1 DEF ChildSpec
  <2>. QED BY <1>3, <2>1 DEF ParentReleases, ClearHold, TypeOK
<1>4. CASE TogglePause(g)
  <2>1. [spec[g] EXCEPT !.paused = ~@] \in ChildSpec
    BY <1>1 DEF ChildSpec
  <2>. QED BY <1>4, <2>1 DEF TogglePause, TypeOK
<1>. QED BY <1>2, <1>3, <1>4 DEF Parent

LEMMA NextType == TypeOK /\ [Next]_vars => TypeOK'
<1>. SUFFICES ASSUME TypeOK, [Next]_vars PROVE TypeOK'
  OBVIOUS
<1>1. ASSUME NEW g \in Group, ReconcileGroup(g) PROVE TypeOK'
  BY <1>1, PendingResetType, PhaseOnlyType, DrainPassType, UpgradeInPlaceType,
     UpgradeReplaceType, BeginCutShortType, VerifyPassType
  DEF ReconcileGroup
<1>2. CASE UNCHANGED vars
  BY <1>2 DEF TypeOK, vars, childVars, nodeVars, podVars, jobVars
<1>. QED BY <1>1, <1>2, ParentType, ClusterType DEF Next

(* TypeOK holds whatever the cluster, the limits and the faults: no pass,  *)
(* complete or cut short, writes a status outside the CRD's enumerations.  *)
THEOREM GroupTypeCorrect == Spec => []TypeOK
BY InitType, NextType, PTL DEF Spec

-----------------------------------------------------------------------------
(* The inductive invariant.                                                *)

LEMMA InitBatchInv == Init => BatchInv
<1>. SUFFICES ASSUME Init PROVE BatchInv
  OBVIOUS
<1>1. OwnNodes
  BY DEF Init, OwnNodes, NoSpec, NoStatus
<1>2. BatchDrained
  BY DEF Init, BatchDrained, NoStatus
<1>3. JobBehind
  BY DEF Init, JobBehind
<1>. QED BY <1>1, <1>2, <1>3 DEF BatchInv

(* A write to the status of g that keeps the progress entries about nodes  *)
(* of g, and does not enter Upgrading.                                     *)
LEMMA QuietStatusWrite ==
    ASSUME TypeOK, BatchInv, NEW g \in Group,
           UNCHANGED <<child, spec, nodeVars, podVars, jobVars>>,
           \A h \in Group \ {g} : status'[h] = status[h],
           status'[g].phase # "Upgrading",
           status'[g].seeded \subseteq Member(g),
           status'[g].started \subseteq Member(g)
    PROVE  BatchInv'
<1>. USE DEF nodeVars, podVars, jobVars
<1>1. OwnNodes'
  BY DEF BatchInv, OwnNodes, Member
<1>2. BatchDrained'
  BY DEF BatchInv, BatchDrained, Active, Drained, Evictable, InPlace
<1>3. JobBehind'
  BY DEF BatchInv, JobBehind, Target, Drained, Evictable, InPlace
<1>. QED BY <1>1, <1>2, <1>3 DEF BatchInv

LEMMA PendingResetBatchInv ==
    ASSUME TypeOK, BatchInv, NEW g \in Group, ReconcilePending(g) \/ Reset(g)
    PROVE  BatchInv'
<1>1. status[g] \in Status
  BY DEF TypeOK
<1>2. /\ \A h \in Group \ {g} : status'[h] = status[h]
      /\ status'[g].phase # "Upgrading"
      /\ status'[g].seeded \in {spec[g].nodes, {}}
      /\ status'[g].started \in {status[g].started, {}}
  <2>1. CASE ReconcilePending(g)
    BY <1>1, <2>1 DEF ReconcilePending, TypeOK, Status
  <2>2. CASE Reset(g)
    BY <1>1, <2>2 DEF Reset, TypeOK, Status
  <2>. QED BY <2>1, <2>2
<1>3. UNCHANGED <<child, spec, nodeVars, podVars, jobVars>>
  BY DEF ReconcilePending, Reset
<1>4. status'[g].seeded \subseteq Member(g) /\ status'[g].started \subseteq Member(g)
  BY <1>2 DEF BatchInv, OwnNodes
<1>. QED BY <1>2, <1>3, <1>4, QuietStatusWrite

LEMMA PhaseOnlyBatchInv ==
    ASSUME TypeOK, BatchInv, NEW g \in Group,
           CompleteGroup(g) \/ NothingActive(g) \/ NoAdapter(g) \/ HandleAdapterError(g)
    PROVE  BatchInv'
<1>1. PICK ph \in NGPhase : SetPhase(g, ph) /\ ph # "Upgrading"
  BY DEF CompleteGroup, NothingActive, NoAdapter, HandleAdapterError, NGPhase
<1>2. UNCHANGED <<child, spec, nodeVars, podVars, jobVars>>
  BY DEF CompleteGroup, NothingActive, NoAdapter, HandleAdapterError
<1>3. /\ \A h \in Group \ {g} : status'[h] = status[h]
      /\ status'[g].phase # "Upgrading"
      /\ status'[g].seeded = status[g].seeded
      /\ status'[g].started = status[g].started
  <2>1. status[g] \in Status /\ status \in [Group -> Status]
    BY DEF TypeOK
  <2>2. status' = [status EXCEPT ![g] = [status[g] EXCEPT !.phase = ph]]
    BY <1>1, <2>1 DEF SetPhase
  <2>. QED BY <1>1, <2>1, <2>2 DEF Status
<1>4. status'[g].seeded \subseteq Member(g) /\ status'[g].started \subseteq Member(g)
  BY <1>3 DEF BatchInv, OwnNodes
<1>. QED BY <1>2, <1>3, <1>4, QuietStatusWrite

(* What a drain pass does: it hands a batch over only when it is cordoned, *)
(* present and drained.                                                    *)
LEMMA DrainPassEffect ==
    ASSUME TypeOK, NEW g \in Group, DrainPass(g)
    PROVE  /\ cordoned \subseteq cordoned'
           /\ UNCHANGED <<child, spec, present, version, pods, jobVars>>
           /\ \A h \in Group \ {g} : status'[h] = status[h]
           /\ status'[g].seeded = status[g].seeded
           /\ status'[g].completed = status[g].completed
           /\ status'[g].started \subseteq status[g].started \cup status[g].seeded
           /\ status'[g].phase = "Upgrading" =>
                 \A n \in status'[g].started \ status'[g].completed :
                    n \in present \cap cordoned' /\ Drained(n)
<1>. DEFINE batch   == IF Active(g) # {} THEN Active(g) ELSE NextBatch(g)
            fresh   == (batch \cap status[g].seeded) \ Active(g)
            reach   == {n \in batch : \A m \in batch : m <= n => m \in present}
            drained == {n \in batch : Drained(n)}
<1>1. PICK handled \in {reach} \cup CutShort(reach), lost \in Losses :
        LET saved == handled = batch /\ ~lost IN
        /\ cordoned' = cordoned \cup handled
        /\ terminating' = terminating \cup UNION {Deleted(Active(g), n) : n \in handled}
        /\ status' = [status EXCEPT
             ![g].started = @ \cup fresh,
             ![g].nodePhase =
                [n \in Node |->
                   IF saved /\ n \in drained \cap (Active(g) \cup fresh) THEN "Drained"
                   ELSE IF n \in fresh THEN "Draining" ELSE @[n]],
             ![g].phase = IF saved /\ drained = batch THEN "Upgrading" ELSE @]
  BY DEF DrainPass
<1>2. /\ UNCHANGED <<child, spec, present, version, pods, jobVars>>
      /\ status[g].phase = "Draining"
  BY DEF DrainPass, Reconciling
<1>3. status[g] \in Status /\ spec[g] \in ChildSpec
  BY DEF TypeOK
<1>4. /\ \A h \in Group \ {g} : status'[h] = status[h]
      /\ status'[g].seeded = status[g].seeded
      /\ status'[g].completed = status[g].completed
      /\ status'[g].started = status[g].started \cup fresh
      /\ status'[g].phase = "Upgrading" => handled = batch /\ drained = batch
  BY <1>1, <1>2, <1>3 DEF TypeOK, Status
<1>5. status'[g].started \ status'[g].completed \subseteq batch
  <2>1. CASE Active(g) # {}
    BY <1>4, <2>1 DEF Active
  <2>2. CASE Active(g) = {}
    BY <1>4, <2>2 DEF Active
  <2>. QED BY <2>1, <2>2
<1>6. batch \subseteq Node
  BY <1>3, NextBatchSubset DEF Active, Status, ChildSpec
<1>7. handled \subseteq reach
  BY <1>1 DEF CutShort
<1>8. reach \subseteq present
  <2>1. \A n \in Node : n <= n
    <3>1. \A n \in Nat : n <= n
      OBVIOUS
    <3>. QED BY <3>1, NodeAssumption
  <2>. QED BY <1>6, <2>1
<1>. QED BY <1>1, <1>2, <1>4, <1>5, <1>7, <1>8

LEMMA DrainPassBatchInv ==
    ASSUME TypeOK, BatchInv, NEW g \in Group, DrainPass(g)
    PROVE  BatchInv'
<1>1. OwnNodes'
  BY DrainPassEffect DEF BatchInv, OwnNodes, Member
<1>2. BatchDrained'
  BY DrainPassEffect DEF BatchInv, BatchDrained, Active, Drained, Evictable, InPlace
<1>3. JobBehind'
  BY DrainPassEffect DEF BatchInv, JobBehind, Target, Drained, Evictable, InPlace, jobVars
<1>. QED BY <1>1, <1>2, <1>3 DEF BatchInv

(* A pass of reconcileUpgrading changes only the phases of its own group.  *)
LEMMA UpgradePassEffect ==
    ASSUME TypeOK, NEW g \in Group,
           UpgradePassInPlace(g) \/ UpgradePassReplace(g) \/ BeginBatchCutShort(g)
    PROVE  \A h \in Group :
              /\ status'[h].seeded = status[h].seeded
              /\ status'[h].started = status[h].started
              /\ status'[h].completed = status[h].completed
              /\ status'[h].phase = "Upgrading" => status[h].phase = "Upgrading"
<1>1. status[g] \in Status /\ status \in [Group -> Status] /\ status[g].phase = "Upgrading"
  BY DEF TypeOK, UpgradePassInPlace, UpgradePassReplace, BeginBatchCutShort,
         UpgradePassEnabled, Reconciling
<1>2. CASE UpgradePassInPlace(g)
  <2>1. PICK np, ph : status' = [status EXCEPT ![g].nodePhase = np, ![g].phase = ph]
    <3>1. PICK unseen \in Unseen(g) : ApplyResults(g, unseen)
      BY <1>2 DEF UpgradePassInPlace
    <3>. QED BY <1>1, <3>1 DEF ApplyResults, Status
  <2>. QED BY <1>1, <2>1 DEF Status
<1>3. CASE UpgradePassReplace(g)
  <2>1. PICK np, ph : status' = [status EXCEPT ![g].nodePhase = np, ![g].phase = ph]
    BY <1>1, <1>3 DEF UpgradePassReplace, Status
  <2>. QED BY <1>1, <2>1 DEF Status
<1>4. CASE BeginBatchCutShort(g)
  <2>1. CASE UNCHANGED status
    BY <2>1
  <2>2. CASE status' = [status EXCEPT ![g].phase = "Failed"]
    BY <1>1, <2>2 DEF Status
  <2>. QED BY <1>4, <2>1, <2>2 DEF BeginBatchCutShort, SetPhase
<1>. QED BY <1>2, <1>3, <1>4

(* The Jobs a pass creates are for nodes of a drained batch that are       *)
(* behind the target.                                                      *)
LEMMA CreateJobsBehind ==
    ASSUME TypeOK, BatchInv, NEW g \in Group, NEW S \in SUBSET ToUpgrade(g),
           UpgradePassEnabled(g), InPlace(g), CreateJobs(g, S) \/ UNCHANGED job,
           UNCHANGED <<child, spec, nodeVars, podVars>>
    PROVE  JobBehind'
<1>. SUFFICES ASSUME NEW n \in Node, NEW v \in KnownVersion, job'[n][v] = "running"
              PROVE  /\ GroupOf[n] \in child /\ InPlace(GroupOf[n])
                     /\ v = Target(GroupOf[n]) /\ Before(version[n], v)
                     /\ n \in present \cap cordoned /\ Drained(n)
  BY DEF JobBehind, Target, Drained, Evictable, InPlace, nodeVars, podVars
<1>1. CASE job[n][v] = "running"
  BY <1>1 DEF BatchInv, JobBehind
<1>2. CASE job[n][v] # "running"
  <2>1. n \in S /\ v = Target(g)
    BY <1>2 DEF CreateJobs, TypeOK
  <2>2. n \in Active(g) /\ Before(version[n], v)
    BY <2>1 DEF ToUpgrade, NeedsUpgrade
  <2>3. GroupOf[n] = g
    BY <2>2 DEF BatchInv, OwnNodes, Active, Member
  <2>4. g \in child /\ status[g].phase = "Upgrading"
    BY DEF UpgradePassEnabled, Reconciling
  <2>. QED BY <2>1, <2>2, <2>3, <2>4 DEF BatchInv, BatchDrained
<1>. QED BY <1>1, <1>2

LEMMA UpgradeInPlaceBatchInv ==
    ASSUME TypeOK, BatchInv, NEW g \in Group, UpgradePassInPlace(g)
    PROVE  BatchInv'
<1>1. UNCHANGED <<child, spec, nodeVars, podVars>>
  BY DEF UpgradePassInPlace
<1>2. OwnNodes'
  BY <1>1, UpgradePassEffect DEF BatchInv, OwnNodes, Member
<1>3. BatchDrained'
  BY <1>1, UpgradePassEffect
  DEF BatchInv, BatchDrained, Active, Drained, Evictable, InPlace, nodeVars, podVars
<1>4. JobBehind'
  <2>1. CreateJobs(g, ToUpgrade(g)) \/ UNCHANGED job
    BY DEF UpgradePassInPlace, jobVars
  <2>2. UpgradePassEnabled(g) /\ InPlace(g)
    BY DEF UpgradePassInPlace
  <2>. QED BY <1>1, <2>1, <2>2, CreateJobsBehind
<1>. QED BY <1>2, <1>3, <1>4 DEF BatchInv

(* Node objects are deleted only in a group that replaces its nodes. *)
LEMMA NodesDeletedBatchInv ==
    ASSUME TypeOK, BatchInv, NEW g \in Group, ~InPlace(g), NEW S \in SUBSET ToUpgrade(g),
           UpgradePassReplace(g) \/ BeginBatchCutShort(g), present' = present \ S,
           UNCHANGED <<child, spec, version, cordoned, podVars, jobVars>>
    PROVE  BatchInv'
<1>1. \A n \in S : GroupOf[n] = g
  BY DEF BatchInv, OwnNodes, ToUpgrade, Active, Member
<1>2. OwnNodes'
  BY UpgradePassEffect DEF BatchInv, OwnNodes, Member
<1>3. BatchDrained'
  <2>. SUFFICES ASSUME NEW h \in Group, InPlace(h), status'[h].phase = "Upgrading",
                       NEW n \in Active(h)'
                PROVE  n \in present' \cap cordoned /\ Drained(n)
    BY DEF BatchDrained, Drained, Evictable, InPlace, podVars
  <2>1. n \in Active(h) /\ status[h].phase = "Upgrading"
    BY UpgradePassEffect DEF Active
  <2>2. GroupOf[n] = h
    BY <2>1 DEF BatchInv, OwnNodes, Active, Member
  <2>. QED BY <1>1, <2>1, <2>2 DEF BatchInv, BatchDrained
<1>4. JobBehind'
  BY <1>1 DEF BatchInv, JobBehind, Target, Drained, Evictable, InPlace, podVars, jobVars
<1>. QED BY <1>2, <1>3, <1>4 DEF BatchInv

LEMMA UpgradeReplaceBatchInv ==
    ASSUME TypeOK, BatchInv, NEW g \in Group, UpgradePassReplace(g)
    PROVE  BatchInv'
<1>1. ~InPlace(g) /\ present' = present \ ToUpgrade(g)
  BY DEF UpgradePassReplace
<1>2. UNCHANGED <<child, spec, version, cordoned, podVars, jobVars>>
  BY DEF UpgradePassReplace
<1>. QED BY <1>1, <1>2, NodesDeletedBatchInv

LEMMA BeginCutShortBatchInv ==
    ASSUME TypeOK, BatchInv, NEW g \in Group, BeginBatchCutShort(g)
    PROVE  BatchInv'
<1>1. PICK S \in SUBSET ToUpgrade(g) :
        IF InPlace(g)
        THEN CreateJobs(g, S) /\ UNCHANGED present
        ELSE present' = present \ S /\ UNCHANGED jobVars
  BY DEF BeginBatchCutShort
<1>2. /\ UNCHANGED <<child, spec, version, ready, cordoned, flaps, podVars>>
      /\ UpgradePassEnabled(g)
  BY DEF BeginBatchCutShort
<1>3. CASE InPlace(g)
  <2>1. CreateJobs(g, S) /\ UNCHANGED <<child, spec, nodeVars, podVars>>
    BY <1>1, <1>2, <1>3 DEF nodeVars
  <2>2. OwnNodes'
    BY <2>1, UpgradePassEffect DEF BatchInv, OwnNodes, Member
  <2>3. BatchDrained'
    BY <2>1, UpgradePassEffect
    DEF BatchInv, BatchDrained, Active, Drained, Evictable, InPlace, nodeVars, podVars
  <2>4. JobBehind'
    BY <1>2, <1>3, <2>1, CreateJobsBehind
  <2>. QED BY <2>2, <2>3, <2>4 DEF BatchInv
<1>4. CASE ~InPlace(g)
  BY <1>1, <1>2, <1>4, NodesDeletedBatchInv
<1>. QED BY <1>3, <1>4

(* Verifying uncordons only nodes that have reached the target, none of    *)
(* which still has a Job about to install it.                              *)
LEMMA VerifyPassBatchInv ==
    ASSUME TypeOK, BatchInv, NEW g \in Group, VerifyPass(g)
    PROVE  BatchInv'
<1>1. /\ UNCHANGED <<child, spec, present, version, podVars, jobVars>>
      /\ status[g].phase = "Verifying" /\ NodesVerified(g)
  BY DEF VerifyPass, Reconciling
<1>2. PICK S : S \subseteq Active(g) /\ cordoned' = cordoned \ S
  <2>1. PICK handled \in {Active(g)} \cup CutShort(Active(g)) : Uncordon(handled)
    BY DEF VerifyPass
  <2>. QED BY <2>1 DEF CutShort, Uncordon
<1>3. /\ \A h \in Group \ {g} : status'[h] = status[h]
      /\ status'[g].seeded = status[g].seeded
      /\ status'[g].started = status[g].started
      /\ status'[g].phase # "Upgrading"
  <2>1. status[g] \in Status /\ status \in [Group -> Status]
    BY DEF TypeOK
  <2>2. CASE UNCHANGED status
    BY <1>1, <2>2
  <2>3. CASE status' = [status EXCEPT
                   ![g].completed = @ \cup Active(g),
                   ![g].nodePhase = Mark(g, Active(g), "Ready"),
                   ![g].phase = "Draining"]
    BY <2>1, <2>3 DEF Status
  <2>. QED BY <2>2, <2>3 DEF VerifyPass
<1>4. \A n \in S : GroupOf[n] = g /\ version[n] = Target(g) /\ n \in Node
  BY <1>1, <1>2 DEF BatchInv, OwnNodes, Active, Member, NodesVerified
<1>5. OwnNodes'
  BY <1>1, <1>3 DEF BatchInv, OwnNodes, Member
<1>6. BatchDrained'
  <2>. SUFFICES ASSUME NEW h \in Group, InPlace(h), status'[h].phase = "Upgrading",
                       NEW n \in Active(h)'
                PROVE  n \in present \cap cordoned' /\ Drained(n)
    BY <1>1 DEF BatchDrained, Drained, Evictable, InPlace, podVars
  <2>1. h # g /\ n \in Active(h) /\ status[h].phase = "Upgrading"
    BY <1>3 DEF Active
  <2>2. GroupOf[n] = h
    BY <2>1 DEF BatchInv, OwnNodes, Active, Member
  <2>. QED BY <1>2, <1>4, <2>1, <2>2 DEF BatchInv, BatchDrained
<1>7. JobBehind'
  <2>. SUFFICES ASSUME NEW n \in Node, NEW v \in KnownVersion, job[n][v] = "running"
                PROVE  n \notin S
    BY <1>1, <1>2 DEF BatchInv, JobBehind, Target, Drained, Evictable, InPlace, podVars, jobVars
  <2>1. v = Target(GroupOf[n]) /\ Before(version[n], v)
    BY DEF BatchInv, JobBehind
  <2>2. version[n] \in Version /\ v \in Version
    BY VersionAssumption DEF TypeOK
  <2>. QED BY <1>4, <2>1, <2>2, BeforeAtLeast
<1>. QED BY <1>5, <1>6, <1>7 DEF BatchInv

LEMMA ReconcileBatchInv ==
    ASSUME TypeOK, BatchInv, NEW g \in Group, ReconcileGroup(g)
    PROVE  BatchInv'
BY PendingResetBatchInv, PhaseOnlyBatchInv, DrainPassBatchInv, UpgradeInPlaceBatchInv,
   UpgradeReplaceBatchInv, BeginCutShortBatchInv, VerifyPassBatchInv
DEF ReconcileGroup

(* Steps that leave the batches, the nodes and the pods alone. *)
LEMMA JobStepBatchInv ==
    ASSUME TypeOK, BatchInv, NEW m \in Node, NEW w \in KnownVersion,
           JobInstalls(m, w) \/ JobCompletes(m, w) \/ JobFails(m, w) \/ JobExpires(m, w)
    PROVE  BatchInv'
<1>. USE DEF childVars, nodeVars, podVars, jobVars
<1>1. UNCHANGED <<childVars, present, cordoned, podVars>>
  BY DEF JobInstalls, JobCompletes, JobFails, JobExpires
<1>2. OwnNodes' /\ BatchDrained'
  BY <1>1 DEF BatchInv, OwnNodes, BatchDrained, Member, Active, Drained, Evictable, InPlace
<1>3. \A n \in Node, v \in KnownVersion :
         job'[n][v] = "running" => job[n][v] = "running" /\ <<n, v>> # <<m, w>>
  <2>1. PICK st \in JobState : SetJob(m, w, st) /\ st # "running"
    BY DEF JobInstalls, JobCompletes, JobFails, JobExpires, JobState
  <2>2. job \in [Node -> [KnownVersion -> JobState]]
    BY DEF TypeOK
  <2>. QED BY <2>1, <2>2 DEF SetJob
<1>4. JobBehind'
  <2>. SUFFICES ASSUME NEW n \in Node, NEW v \in KnownVersion, job'[n][v] = "running"
                PROVE  version'[n] = version[n] /\ job[n][v] = "running"
    BY <1>1 DEF BatchInv, JobBehind, Target, Drained, Evictable, InPlace
  <2>1. job[n][v] = "running" /\ <<n, v>> # <<m, w>>
    BY <1>3
  <2>2. CASE JobInstalls(m, w)
    <3>1. w = Target(GroupOf[m]) /\ (n = m => v = Target(GroupOf[m]))
      BY <2>1, <2>2 DEF BatchInv, JobBehind, JobInstalls
    <3>. QED BY <2>1, <2>2, <3>1 DEF JobInstalls, TypeOK
  <2>3. CASE ~JobInstalls(m, w)
    BY <2>1, <2>3 DEF JobCompletes, JobFails, JobExpires
  <2>. QED BY <2>2, <2>3
<1>. QED BY <1>2, <1>4 DEF BatchInv

LEMMA NodeStepBatchInv ==
    ASSUME TypeOK, BatchInv, NEW m \in Node,
           NodeLosesReady(m) \/ NodeRecovers(m) \/ NodeJoins(m) \/ DrainTimesOut(m)
    PROVE  BatchInv'
<1>. USE DEF childVars, nodeVars, podVars, jobVars
<1>1. /\ UNCHANGED <<childVars, pods, jobVars>>
      /\ present \subseteq present'
      /\ \A n \in present : version'[n] = version[n] /\ (n \in cordoned => n \in cordoned')
  BY DEF NodeLosesReady, NodeRecovers, NodeJoins, DrainTimesOut, TypeOK
<1>2. OwnNodes'
  BY <1>1 DEF BatchInv, OwnNodes, Member
<1>3. BatchDrained'
  BY <1>1 DEF BatchInv, BatchDrained, Active, Drained, Evictable, InPlace
<1>4. JobBehind'
  BY <1>1 DEF BatchInv, JobBehind, Target, Drained, Evictable, InPlace
<1>. QED BY <1>2, <1>3, <1>4 DEF BatchInv

LEMMA PodStepBatchInv ==
    ASSUME TypeOK, BatchInv, NEW p \in Pod,
           PodTerminates(p) \/ \E n \in Node : PodScheduled(p, n)
    PROVE  BatchInv'
<1>. USE DEF childVars, nodeVars, podVars, jobVars
<1>1. /\ UNCHANGED <<childVars, nodeVars, jobVars>>
      /\ \A n \in cordoned : Drained(n) => Drained(n)'
  BY DEF PodTerminates, PodScheduled, Drained, Evictable, TypeOK
<1>2. OwnNodes'
  BY <1>1 DEF BatchInv, OwnNodes, Member
<1>3. BatchDrained'
  BY <1>1 DEF BatchInv, BatchDrained, Active, InPlace
<1>4. JobBehind'
  BY <1>1 DEF BatchInv, JobBehind, Target, InPlace
<1>. QED BY <1>2, <1>3, <1>4 DEF BatchInv

LEMMA ClusterBatchInv ==
    ASSUME TypeOK, BatchInv, Cluster
    PROVE  BatchInv'
BY JobStepBatchInv, NodeStepBatchInv, PodStepBatchInv DEF Cluster

(* What a parent may do to the specs of its children, whoever plays it:    *)
(* create them, refresh their nodes, hold, release and pause them, and     *)
(* raise a target, but only past nodes that have reached it.               *)
SpecWrite ==
    /\ UNCHANGED <<status, nodeVars, podVars, jobVars>>
    /\ child \subseteq child'
    /\ \A h \in Group :
         /\ spec'[h].nodes \in {spec[h].nodes, Member(h) \cap present}
         /\ h \in child' \ child => spec'[h].nodes = Member(h) \cap present
         /\ h \notin child' => spec'[h].nodes = spec[h].nodes
         /\ spec'[h].target # Target(h) =>
              \/ h \notin child
              \/ /\ Before(Target(h), spec'[h].target)
                 /\ \A n \in Member(h) \cap present : AtLeast(version[n], Target(h))

LEMMA ParentSpecWrite ==
    ASSUME TypeOK, NEW g \in Group, Parent(g)
    PROVE  SpecWrite
<1>1. spec[g] \in ChildSpec /\ spec \in [Group -> ChildSpec]
  BY DEF TypeOK
<1>2. CASE \E v \in TargetVersions : ParentApplies(g, v)
  <2>1. PICK v \in TargetVersions : ParentApplies(g, v)
    BY <1>2
  <2>2. /\ spec'[g].target = v /\ spec'[g].nodes = Member(g) \cap present
        /\ \A h \in Group \ {g} : spec'[h] = spec[h]
        /\ child' = child \cup {g}
        /\ UNCHANGED <<status, nodeVars, podVars, jobVars>>
    BY <1>1, <2>1 DEF ParentApplies, ApplySpec, ChildSpec
  <2>3. \/ g \notin child
        \/ v = Target(g)
        \/ /\ Before(Target(g), v)
           /\ \A n \in Member(g) \cap present : AtLeast(version[n], Target(g))
    BY <2>1 DEF ParentApplies
  <2>. QED BY <2>2, <2>3 DEF SpecWrite, Target
<1>3. CASE ParentReleases(g)
  BY <1>1, <1>3 DEF ParentReleases, ClearHold, ChildSpec, SpecWrite, Target
<1>4. CASE TogglePause(g)
  BY <1>1, <1>4 DEF TogglePause, ChildSpec, SpecWrite, Target
<1>. QED BY <1>2, <1>3, <1>4 DEF Parent

LEMMA SpecWriteBatchInv ==
    ASSUME TypeOK, BatchInv, SpecWrite
    PROVE  BatchInv'
<1>. USE DEF nodeVars, podVars, jobVars
<1>1. UNCHANGED <<status, nodeVars, podVars, jobVars>> /\ child \subseteq child'
  BY DEF SpecWrite
<1>2. OwnNodes'
  BY <1>1 DEF SpecWrite, BatchInv, OwnNodes, Member
<1>3. BatchDrained'
  BY <1>1 DEF BatchInv, BatchDrained, Active, Drained, Evictable, InPlace
<1>4. JobBehind'
  <2>. SUFFICES ASSUME NEW n \in Node, NEW v \in KnownVersion, job[n][v] = "running"
                PROVE  spec'[GroupOf[n]].target = spec[GroupOf[n]].target
    BY <1>1 DEF BatchInv, JobBehind, Target, Drained, Evictable, InPlace
  <2>1. /\ GroupOf[n] \in child /\ n \in Member(GroupOf[n]) \cap present
        /\ Before(version[n], Target(GroupOf[n]))
    BY DEF BatchInv, JobBehind, Member
  <2>2. GroupOf[n] \in Group
    BY NodeAssumption
  <2>. QED BY <2>1, <2>2 DEF SpecWrite, AtLeast, Target
<1>. QED BY <1>2, <1>3, <1>4 DEF BatchInv

LEMMA NextBatchInv == TypeOK /\ BatchInv /\ [Next]_vars => BatchInv'
<1>. SUFFICES ASSUME TypeOK, BatchInv, [Next]_vars PROVE BatchInv'
  OBVIOUS
<1>1. CASE UNCHANGED vars
  BY <1>1 DEF BatchInv, OwnNodes, BatchDrained, JobBehind, Member, Active, Target, Drained,
     Evictable, InPlace, vars, childVars, nodeVars, podVars, jobVars
<1>. QED BY <1>1, ReconcileBatchInv, ParentSpecWrite, SpecWriteBatchInv, ClusterBatchInv
         DEF Next

LEMMA GroupInvariant == Spec => [](TypeOK /\ BatchInv)
BY InitType, NextType, InitBatchInv, NextBatchInv, PTL DEF Spec

-----------------------------------------------------------------------------
(* Whatever the interleaving of passes, lost writes, Job failures, nodes   *)
(* that flap or join and pods that are rescheduled: a node whose executor  *)
(* has yet to replace the kubelet is cordoned and drained.                 *)
THEOREM UpgradesOnlyDrainedNodes == Spec => []DrainedBeforeUpgrade
<1>1. BatchInv => DrainedBeforeUpgrade
  BY DEF BatchInv, JobBehind, DrainedBeforeUpgrade, Drained
<1>. QED BY <1>1, GroupInvariant, PTL

(* No step makes the kubelet of a node older, also when the parent raises  *)
(* the target while Jobs of an earlier batch are around.                   *)
THEOREM KubeletsNeverGoBack == Spec => NeverDowngrade
<1>1. TypeOK /\ BatchInv /\ [Next]_vars =>
         [\A n \in present : AtLeast(version'[n], version[n])]_vars
  <2>. SUFFICES ASSUME TypeOK, BatchInv, [Next]_vars, NEW n \in present
                PROVE  AtLeast(version'[n], version[n])
    OBVIOUS
  <2>1. n \in Node /\ version[n] \in Version
    BY VersionAssumption DEF TypeOK
  <2>2. AtLeast(version[n], version[n])
    BY <2>1 DEF AtLeast, Before, Version
  <2>3. CASE version' = version
    BY <2>2, <2>3
  <2>4. ASSUME NEW m \in Node, NEW v \in KnownVersion, JobInstalls(m, v)
        PROVE  AtLeast(version'[n], version[n])
    <3>1. Before(version[m], v) /\ v \in Version
      BY <2>4, VersionAssumption DEF JobInstalls, BatchInv, JobBehind
    <3>. QED BY <2>1, <2>2, <2>4, <3>1, BeforeAtLeast DEF JobInstalls, TypeOK
  <2>5. ASSUME NEW m \in Node, NodeJoins(m)
        PROVE  AtLeast(version'[n], version[n])
    BY <2>1, <2>2, <2>5 DEF NodeJoins, TypeOK
  <2>6. version' = version \/ (\E m \in Node : NodeJoins(m))
           \/ (\E m \in Node, v \in KnownVersion : JobInstalls(m, v))
    BY DEF Next, ReconcileGroup, Parent, Cluster, ReconcilePending, Reset, DrainPass,
       CompleteGroup, NothingActive, NoAdapter, HandleAdapterError, UpgradePassInPlace,
       UpgradePassReplace, BeginBatchCutShort, VerifyPass, ParentApplies, ApplySpec,
       ParentReleases, TogglePause, JobCompletes, JobFails, JobExpires, NodeLosesReady,
       NodeRecovers, DrainTimesOut, PodTerminates, PodScheduled, vars, nodeVars
  <2>. QED BY <2>3, <2>4, <2>5, <2>6
<1>. QED BY <1>1, GroupInvariant, PTL DEF Spec, NeverDowngrade

(* A pod behind a disruption budget gets a deletion timestamp only under   *)
(* drain.force and after its node's drain has timed out, also in a pass    *)
(* that is cut short or repeated after a lost write.                       *)
THEOREM BudgetsOutlastTheTimeout == Spec => ForceOnlyAfterTimeout
<1>1. TypeOK /\ [Next]_vars =>
        [\A p \in BlockedPod :
            p \in terminating' \ terminating =>
                DrainForce /\ \E n \in overdue : p \in pods[n]]_vars
  <2>. SUFFICES ASSUME TypeOK, [Next]_vars, NEW p \in BlockedPod,
                       p \in terminating' \ terminating
                PROVE  DrainForce /\ \E n \in overdue : p \in pods[n]
    OBVIOUS
  <2>1. PICK g \in Group : DrainPass(g)
    BY DEF Next, ReconcileGroup, Parent, Cluster, ReconcilePending, Reset,
       CompleteGroup, NothingActive, NoAdapter, HandleAdapterError, UpgradePassInPlace,
       UpgradePassReplace, BeginBatchCutShort, VerifyPass, ParentApplies, ApplySpec,
       ParentReleases, TogglePause, JobInstalls, JobCompletes, JobFails, JobExpires,
       NodeLosesReady, NodeRecovers, NodeJoins, DrainTimesOut, PodTerminates,
       PodScheduled, vars, podVars
  <2>2. PICK n : p \in Deleted(Active(g), n)
    <3>1. PICK handled :
            terminating' = terminating \cup UNION {Deleted(Active(g), n) : n \in handled}
      BY <2>1 DEF DrainPass
    <3>. QED BY <3>1
  <2>. QED BY <2>2 DEF Deleted, MayForceDelete, Evictable
<1>. QED BY <1>1, GroupTypeCorrect, PTL DEF Spec, ForceOnlyAfterTimeout

=============================================================================
