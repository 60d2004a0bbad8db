------------------------- MODULE UpgradeLeaseProofs -------------------------
(***************************************************************************)
(* The lease for any number of upgrades, any duration and a cache that may *)
(* be arbitrarily far behind: no live lease changes hands, and two         *)
(* upgrades run at once only after one's lease was deleted by another.     *)
(***************************************************************************)
EXTENDS UpgradeLease, TLAPS

-----------------------------------------------------------------------------
(* Types.                                                                  *)

LEMMA LeaseTypes ==
    /\ NoLease \in Lease
    /\ \A u \in Upgrade : LeaseOf(u) \in Lease
    /\ \A l \in Lease : Older(l) \in Lease
<1>. USE LeaseAssumption DEF Age, Expired
<1>1. NoLease \in Lease
  BY DEF Lease
<1>2. \A u \in Upgrade : LeaseOf(u) \in Lease
  BY DEF Lease, LeaseOf
<1>3. ASSUME NEW l \in Lease PROVE Older(l) \in Lease
  <2>1. CASE l = NoLease \/ l.age = Expired
    BY <2>1 DEF Older
  <2>2. CASE l # NoLease /\ l.age # Expired
    <3>1. l \in [holder : {{u} : u \in Upgrade}, age : Age]
      BY <2>2 DEF Lease
    <3>2. Older(l) \in [holder : {{u} : u \in Upgrade}, age : Age]
      BY <2>2, <3>1 DEF Older
    <3>. QED BY <3>2 DEF Lease
  <2>. QED BY <2>1, <2>2
<1>. QED BY <1>1, <1>2, <1>3

(* A lease somebody holds has one holder, and no lease has none.           *)
LEMMA HolderType ==
    ASSUME NEW l \in Lease
    PROVE  /\ l = NoLease => l.holder = {}
           /\ l # NoLease => /\ l.age \in Age
                             /\ \E u \in Upgrade : l.holder = {u}
           /\ Older(l).holder = l.holder
           /\ l # NoLease /\ l.age # Expired => Older(l).age = l.age + 1
BY DEF Lease, NoLease, Older

LEMMA WriteType ==
    ASSUME LeaseTypeOK, NEW l \in Lease, Write(l)
    PROVE  lease' \in Lease /\ cached' \in Lease /\ synced' \in BOOLEAN
BY DEF LeaseTypeOK, Write

LEMMA ReleaseType ==
    ASSUME LeaseTypeOK, NEW u \in Upgrade, Release(u)
    PROVE  /\ lease' \in Lease /\ cached' \in Lease /\ synced' \in BOOLEAN
           /\ Disowned(u) \subseteq Upgrade
<1>1. lease' \in Lease /\ cached' \in Lease /\ synced' \in BOOLEAN
  BY LeaseTypes, WriteType DEF Release, leaseVars, LeaseTypeOK
<1>2. lease.holder \subseteq Upgrade
  BY HolderType DEF LeaseTypeOK
<1>. QED BY <1>1, <1>2 DEF Disowned

LEMMA AcquireType ==
    ASSUME LeaseTypeOK, NEW u \in Upgrade, Acquire(u)
    PROVE  lease' \in Lease /\ cached' \in Lease /\ synced' \in BOOLEAN
BY LeaseTypes, WriteType DEF Acquire

LEMMA HandleType ==
    ASSUME LeaseTypeOK, NEW u \in Upgrade, Handle(u)
    PROVE  /\ phase' \in [Upgrade -> {"Pending", "Running", "Complete", "Failed"}]
           /\ working' \subseteq Upgrade
BY DEF LeaseTypeOK, Handle

LEMMA HistoryType ==
    ASSUME LeaseTypeOK, NEW u \in Upgrade
    PROVE  /\ Confirmed(u) => silence' \in [Upgrade -> Age] /\ disowned' \subseteq Upgrade
           /\ NoLongerRuns(u) => silence' \in [Upgrade -> Age]
BY LeaseAssumption DEF LeaseTypeOK, Confirmed, NoLongerRuns, Age, Expired

LEMMA RemovedType ==
    ASSUME LeaseTypeOK, NEW u \in Upgrade, Removed(u)
    PROVE  /\ object' \in [Upgrade -> {"live", "deleting", "gone"}]
           /\ phase' \in [Upgrade -> {"Pending", "Running", "Complete", "Failed"}]
           /\ finalizer' \subseteq Upgrade /\ paused' \subseteq Upgrade
           /\ queued' \subseteq Upgrade /\ broken' \subseteq Upgrade
BY DEF LeaseTypeOK, Removed, Forget

LEMMA PassKeepsTypes ==
    ASSUME LeaseTypeOK, NEW u \in Upgrade,
           Reconcile(u) \/ ReconcileDeletedLost(u) \/ ReconcileCutShort(u)
    PROVE  LeaseTypeOK'
<1>. USE DEF upgradeVars, childVars
<1>1. CASE ReconcileDeleted(u)
  BY <1>1, ReleaseType, RemovedType DEF ReconcileDeleted, LeaseTypeOK
<1>2. CASE ReconcileDeletedLost(u)
  BY <1>2, ReleaseType DEF ReconcileDeletedLost, LeaseTypeOK
<1>3. CASE AddFinalizer(u) \/ ReconcilePaused(u)
  BY <1>3 DEF AddFinalizer, ReconcilePaused, Forget, LeaseTypeOK, leaseVars, historyVars
<1>4. CASE ReconcileTerminal(u)
  BY <1>4, ReleaseType DEF ReconcileTerminal, Forget, LeaseTypeOK
<1>5. CASE ReconcileActive(u)
  <2>1. CASE Acquire(u) /\ Handle(u)
    <3>1. silence' \in [Upgrade -> Age] /\ disowned' \subseteq Upgrade
      BY <1>5, <2>1, HistoryType DEF ReconcileActive, AcquireRefused, LeaseTypeOK
    <3>. QED BY <1>5, <2>1, <3>1, AcquireType, HandleType DEF ReconcileActive, LeaseTypeOK
  <2>2. CASE AcquireRefused(u) /\ UNCHANGED <<silence, disowned, phase, working>>
    BY <1>5, <2>2 DEF ReconcileActive, AcquireRefused, leaseVars, LeaseTypeOK
  <2>. QED BY <1>5, <2>1, <2>2 DEF ReconcileActive
<1>6. CASE ReconcileCutShort(u)
  BY <1>6, AcquireType, HistoryType DEF ReconcileCutShort, LeaseTypeOK
<1>. QED BY <1>1, <1>2, <1>3, <1>4, <1>5, <1>6 DEF Reconcile

LEMMA OthersKeepTypes ==
    ASSUME LeaseTypeOK, NEW u \in Upgrade,
           \/ TogglePause(u) \/ DeleteUpgrade(u) \/ RecreateUpgrade(u)
           \/ ChildFails(u) \/ ChildrenEnd(u)
    PROVE  LeaseTypeOK'
<1>. USE DEF childVars, leaseVars, historyVars, Enqueue
<1>1. CASE TogglePause(u)
  BY <1>1 DEF TogglePause, LeaseTypeOK
<1>2. CASE DeleteUpgrade(u)
  <2>1. silence' \in [Upgrade -> Age] /\ disowned' \subseteq Upgrade
    BY <1>2, HistoryType DEF DeleteUpgrade, LeaseTypeOK
  <2>2. CASE u \in finalizer
    BY <1>2, <2>1, <2>2 DEF DeleteUpgrade, LeaseTypeOK
  <2>3. CASE u \notin finalizer
    BY <1>2, <2>1, <2>3, RemovedType DEF DeleteUpgrade, LeaseTypeOK
  <2>. QED BY <2>2, <2>3
<1>3. CASE RecreateUpgrade(u)
  BY <1>3, LeaseAssumption DEF RecreateUpgrade, LeaseTypeOK
<1>4. CASE ChildFails(u)
  BY <1>4 DEF ChildFails, LeaseTypeOK
<1>5. CASE ChildrenEnd(u)
  BY <1>5, LeaseAssumption DEF ChildrenEnd, LeaseTypeOK
<1>. QED BY <1>1, <1>2, <1>3, <1>4, <1>5

(* Type correctness: the Lease has at most one holder, ages stay in range. *)
THEOREM LeaseTypeCorrect == Spec => []LeaseTypeOK
<1>1. Init => LeaseTypeOK
  BY LeaseAssumption, LeaseTypes DEF Init, LeaseTypeOK, Age, Expired
<1>2. LeaseTypeOK /\ [Next]_vars => LeaseTypeOK'
  <2>. SUFFICES ASSUME LeaseTypeOK, [Next]_vars PROVE LeaseTypeOK'
    OBVIOUS
  <2>1. CASE Tick
    <3>1. lease' \in Lease /\ cached' \in Lease
      BY <2>1, LeaseTypes DEF Tick, LeaseTypeOK
    <3>2. silence' \in [Upgrade -> Age]
      BY <2>1, LeaseAssumption DEF Tick, LeaseTypeOK, Age, Expired
    <3>. QED BY <2>1, <3>1, <3>2 DEF Tick, LeaseTypeOK, upgradeVars, childVars
  <2>2. CASE CacheSync
    BY <2>2 DEF CacheSync, LeaseTypeOK, upgradeVars, childVars, historyVars
  <2>3. CASE Restart
    BY <2>3 DEF Restart, LeaseTypeOK, childVars, historyVars
  <2>4. CASE UNCHANGED vars
    BY <2>4 DEF vars, upgradeVars, childVars, leaseVars, historyVars, LeaseTypeOK
  <2>. QED BY <2>1, <2>2, <2>3, <2>4, PassKeepsTypes, OthersKeepTypes DEF Next
<1>. QED BY <1>1, <1>2, PTL DEF Spec

-----------------------------------------------------------------------------
(* The inductive invariant.                                                *)

(* What the cache believes to be the last version is the last version.     *)
CacheSound == synced => cached = lease

(* An upgrade that is over, deleted or gone does not run any more, so the  *)
(* release of its lease takes nothing from it.                             *)
OverIsQuiet == \A u \in Upgrade : object[u] # "live" \/ Terminal(u) => silence[u] = Expired

(* Who runs holds the Lease, renewed when it last ran, unless another      *)
(* upgrade's release deleted it.                                           *)
RunnerHolds ==
    \A u \in Upgrade : Running(u) /\ u \notin disowned =>
        lease.holder = {u} /\ lease.age = silence[u]

LeaseInv == CacheSound /\ OverIsQuiet /\ RunnerHolds

LEMMA WriteSound ==
    ASSUME NEW l, Write(l)
    PROVE  CacheSound' /\ lease' = l
BY DEF Write, CacheSound

(* acquireLease succeeds only if nobody else's lease is live, also when    *)
(* the decision was taken on an old copy: such a write is refused.         *)
LEMMA AcquireSafe ==
    ASSUME LeaseTypeOK, CacheSound, NEW u \in Upgrade, Acquire(u)
    PROVE  /\ lease' = LeaseOf(u) /\ CacheSound'
           /\ lease = NoLease \/ lease.holder = {u} \/ Stale(lease)
<1>1. lease' = LeaseOf(u) /\ CacheSound'
  BY WriteSound DEF Acquire
<1>2. CASE cached = NoLease
  BY <1>1, <1>2 DEF Acquire
<1>3. CASE cached # NoLease
  <2>1. cached = lease /\ ~HeldByOther(u, lease)
    BY <1>3 DEF Acquire, UpdateAccepted, CacheSound
  <2>2. lease.holder # {}
    BY <1>3, <2>1, HolderType DEF LeaseTypeOK
  <2>. QED BY <1>1, <2>1, <2>2 DEF HeldByOther
<1>. QED BY <1>2, <1>3

(* So nobody else runs at that moment but upgrades that were disowned.     *)
LEMMA AcquireExcludes ==
    ASSUME LeaseTypeOK, LeaseInv, NEW u \in Upgrade, Acquire(u),
           NEW w \in Upgrade, w # u, w \notin disowned
    PROVE  ~Running(w)
<1>. SUFFICES ASSUME Running(w) PROVE FALSE
  OBVIOUS
<1>1. lease.holder = {w} /\ lease.age = silence[w]
  BY DEF LeaseInv, RunnerHolds
<1>2. lease # NoLease
  BY <1>1 DEF NoLease
<1>3. ~Stale(lease)
  BY <1>1, LeaseAssumption DEF Running, Stale, LeaseTypeOK, Age, Expired
<1>. QED BY <1>1, <1>2, <1>3, AcquireSafe DEF LeaseInv

(* A release by an upgrade that does not run leaves every runner with its  *)
(* lease, or disowned.                                                     *)
LEMMA ReleaseKeepsInv ==
    ASSUME LeaseTypeOK, LeaseInv, NEW u \in Upgrade, Release(u), ~Running(u),
           disowned' = disowned \cup Disowned(u), UNCHANGED silence
    PROVE  CacheSound' /\ RunnerHolds'
<1>1. CASE cached.holder # {u}
  <2>1. UNCHANGED leaseVars
    BY <1>1 DEF Release
  <2>2. disowned \subseteq disowned'
    OBVIOUS
  <2>. QED BY <2>1, <2>2 DEF LeaseInv, CacheSound, RunnerHolds, Running, leaseVars
<1>2. CASE cached.holder = {u}
  <2>1. lease' = NoLease /\ CacheSound'
    BY <1>2, WriteSound DEF Release
  <2>2. ASSUME NEW w \in Upgrade, Running(w)', w \notin disowned'
        PROVE  FALSE
    <3>1. Running(w) /\ w \notin disowned /\ w # u
      BY <2>2 DEF Running
    <3>2. lease.holder = {w}
      BY <3>1 DEF LeaseInv, RunnerHolds
    <3>3. w \in Disowned(u)
      BY <2>1, <3>1, <3>2 DEF Disowned, Running
    <3>. QED BY <2>2, <3>3
  <2>. QED BY <2>1, <2>2 DEF RunnerHolds
<1>. QED BY <1>1, <1>2

LEMMA NotRunning ==
    ASSUME LeaseTypeOK, LeaseInv, NEW u \in Upgrade, object[u] # "live" \/ Terminal(u)
    PROVE  ~Running(u)
BY LeaseAssumption DEF LeaseInv, OverIsQuiet, Running, Expired

LEMMA AcquireKeepsRunners ==
    ASSUME LeaseTypeOK, LeaseInv, NEW u \in Upgrade, Acquire(u),
           Confirmed(u) \/ (NoLongerRuns(u) /\ disowned' = disowned \ {u})
    PROVE  CacheSound' /\ RunnerHolds'
<1>1. CacheSound' /\ lease' = LeaseOf(u)
  BY AcquireSafe DEF LeaseInv
<1>2. ASSUME NEW w \in Upgrade, Running(w)', w \notin disowned'
      PROVE  lease'.holder = {w} /\ lease'.age = silence'[w]
  <2>1. CASE w = u
    <3>1. silence'[u] = 0
      BY <1>2, <2>1, LeaseAssumption
         DEF Confirmed, NoLongerRuns, Running, Expired, LeaseTypeOK
    <3>. QED BY <1>1, <2>1, <3>1 DEF LeaseOf
  <2>2. CASE w # u
    <3>1. silence'[w] = silence[w] /\ w \notin disowned
      BY <1>2, <2>2 DEF Confirmed, NoLongerRuns, LeaseTypeOK
    <3>. QED BY <1>2, <2>2, <3>1, AcquireExcludes DEF Running
  <2>. QED BY <2>1, <2>2
<1>. QED BY <1>1, <1>2 DEF RunnerHolds

LEMMA PassKeepsInv ==
    ASSUME LeaseTypeOK, LeaseInv, NEW u \in Upgrade,
           Reconcile(u) \/ ReconcileDeletedLost(u) \/ ReconcileCutShort(u)
    PROVE  LeaseInv'
<1>1. CASE ReconcileDeleted(u)
  <2>1. CacheSound' /\ RunnerHolds'
    BY <1>1, NotRunning, ReleaseKeepsInv DEF ReconcileDeleted
  <2>2. OverIsQuiet'
    BY <1>1 DEF ReconcileDeleted, Removed, LeaseInv, OverIsQuiet, Terminal, LeaseTypeOK,
                upgradeVars
  <2>. QED BY <2>1, <2>2 DEF LeaseInv
<1>2. CASE ReconcileDeletedLost(u)
  <2>1. CacheSound' /\ RunnerHolds'
    BY <1>2, NotRunning, ReleaseKeepsInv DEF ReconcileDeletedLost
  <2>2. OverIsQuiet'
    BY <1>2 DEF ReconcileDeletedLost, upgradeVars, LeaseInv,
                OverIsQuiet, Terminal
  <2>. QED BY <2>1, <2>2 DEF LeaseInv
<1>3. CASE AddFinalizer(u) \/ ReconcilePaused(u)
  BY <1>3 DEF AddFinalizer, ReconcilePaused, leaseVars, historyVars, LeaseInv,
              CacheSound, OverIsQuiet, RunnerHolds, Running, Terminal
<1>4. CASE ReconcileTerminal(u)
  <2>1. CacheSound' /\ RunnerHolds'
    BY <1>4, NotRunning, ReleaseKeepsInv DEF ReconcileTerminal
  <2>2. OverIsQuiet'
    BY <1>4 DEF ReconcileTerminal, LeaseInv, OverIsQuiet, Terminal
  <2>. QED BY <2>1, <2>2 DEF LeaseInv
<1>5. CASE ReconcileActive(u) /\ Acquire(u) /\ Handle(u)
           /\ IF phase'[u] = "Running"
              THEN Confirmed(u)
              ELSE NoLongerRuns(u) /\ disowned' = disowned \ {u}
  <2>1. CacheSound' /\ RunnerHolds'
    BY <1>5, AcquireKeepsRunners
  <2>2. ASSUME NEW w \in Upgrade, (object[w] # "live" \/ Terminal(w))'
        PROVE  silence'[w] = Expired
    <3>1. CASE w = u
      <4>1. phase'[u] # "Running"
        BY <1>5, <2>2, <3>1 DEF ReconcileActive, Reconciling, Terminal
      <4>. QED BY <1>5, <3>1, <4>1 DEF NoLongerRuns, LeaseTypeOK
    <3>2. CASE w # u
      <4>1. silence'[w] = silence[w]
        BY <1>5, <3>2 DEF Confirmed, NoLongerRuns, LeaseTypeOK
      <4>2. phase'[w] = phase[w]
        BY <1>5, <3>2 DEF Handle, LeaseTypeOK
      <4>. QED BY <1>5, <2>2, <4>1, <4>2 DEF ReconcileActive, LeaseInv, OverIsQuiet, Terminal
    <3>. QED BY <3>1, <3>2
  <2>. QED BY <2>1, <2>2 DEF LeaseInv, OverIsQuiet
<1>6. CASE ReconcileActive(u) /\ AcquireRefused(u) /\ UNCHANGED <<silence, disowned, phase, working>>
  BY <1>6 DEF ReconcileActive, AcquireRefused, leaseVars, LeaseInv,
              CacheSound, OverIsQuiet, RunnerHolds, Running, Terminal
<1>7. CASE ReconcileCutShort(u)
  <2>1. CacheSound' /\ RunnerHolds'
    BY <1>7, AcquireKeepsRunners DEF ReconcileCutShort
  <2>2. OverIsQuiet'
    BY <1>7 DEF ReconcileCutShort, Reconciling, Confirmed, upgradeVars, LeaseInv,
                OverIsQuiet, Terminal, LeaseTypeOK
  <2>. QED BY <2>1, <2>2 DEF LeaseInv
<1>8. ReconcileActive(u) => LeaseInv'
  BY <1>5, <1>6 DEF ReconcileActive
<1>. QED BY <1>1, <1>2, <1>3, <1>4, <1>7, <1>8 DEF Reconcile

LEMMA OthersKeepInv ==
    ASSUME LeaseTypeOK, LeaseInv, NEW u \in Upgrade,
           \/ TogglePause(u) \/ DeleteUpgrade(u) \/ RecreateUpgrade(u)
           \/ ChildFails(u) \/ ChildrenEnd(u)
    PROVE  LeaseInv'
<1>. USE DEF leaseVars, historyVars, LeaseInv, CacheSound, OverIsQuiet, RunnerHolds, Running, Terminal
<1>1. CASE TogglePause(u) \/ ChildFails(u) \/ ChildrenEnd(u)
  BY <1>1 DEF TogglePause, ChildFails, ChildrenEnd
<1>2. CASE RecreateUpgrade(u)
  BY <1>2 DEF RecreateUpgrade, LeaseTypeOK
<1>3. CASE DeleteUpgrade(u)
  <2>1. \A w \in Upgrade : w # u => /\ silence'[w] = silence[w]
                                    /\ object'[w] = object[w]
                                    /\ phase'[w] = phase[w]
    BY <1>3 DEF DeleteUpgrade, Removed, NoLongerRuns, LeaseTypeOK
  <2>2. silence'[u] = Expired /\ ~(Expired <= Duration) /\ disowned' = disowned \ {u}
    BY <1>3, LeaseAssumption DEF DeleteUpgrade, NoLongerRuns, LeaseTypeOK, Expired
  <2>3. UNCHANGED leaseVars
    BY <1>3 DEF DeleteUpgrade
  <2>. HIDE DEF Expired
  <2>. QED BY <2>1, <2>2, <2>3
<1>. QED BY <1>1, <1>2, <1>3

LEMMA TickKeepsInv ==
    ASSUME LeaseTypeOK, LeaseInv, Tick
    PROVE  LeaseInv'
<1>1. CacheSound'
  BY DEF Tick, LeaseInv, CacheSound
<1>2. OverIsQuiet'
  BY DEF Tick, upgradeVars, LeaseInv, OverIsQuiet, Terminal
<1>3. ASSUME NEW w \in Upgrade, Running(w)', w \notin disowned'
      PROVE  lease'.holder = {w} /\ lease'.age = silence'[w]
  <2>1. Running(w) /\ w \notin disowned /\ silence[w] # Expired /\ silence'[w] = silence[w] + 1
    BY <1>3, LeaseAssumption DEF Tick, Running, LeaseTypeOK, Age, Expired
  <2>2. lease.holder = {w} /\ lease.age = silence[w]
    BY <2>1 DEF LeaseInv, RunnerHolds
  <2>3. lease # NoLease
    BY <2>2 DEF NoLease
  <2>. QED BY <2>1, <2>2, <2>3, HolderType DEF Tick, LeaseTypeOK
<1>. QED BY <1>1, <1>2, <1>3 DEF LeaseInv, RunnerHolds

LEMMA LeaseInvariant == Spec => []LeaseInv
<1>1. Init => LeaseInv
  BY LeaseAssumption DEF Init, LeaseInv, CacheSound, OverIsQuiet, RunnerHolds, Running, Expired
<1>2. LeaseTypeOK /\ LeaseInv /\ [Next]_vars => LeaseInv'
  <2>. SUFFICES ASSUME LeaseTypeOK, LeaseInv, [Next]_vars PROVE LeaseInv'
    OBVIOUS
  <2>1. CASE CacheSync \/ Restart
    BY <2>1 DEF CacheSync, Restart, upgradeVars, historyVars, LeaseInv,
                CacheSound, OverIsQuiet, RunnerHolds, Running, Terminal
  <2>2. CASE UNCHANGED vars
    BY <2>2 DEF vars, upgradeVars, leaseVars, historyVars, LeaseInv,
                CacheSound, OverIsQuiet, RunnerHolds, Running, Terminal
  <2>. QED BY <2>1, <2>2, PassKeepsInv, OthersKeepInv, TickKeepsInv DEF Next
<1>. QED BY <1>1, <1>2, LeaseTypeCorrect, PTL DEF Spec

(* Mutual exclusion: as long as no release deletes another's lease, at     *)
(* most one upgrade passes the lease within one duration.                  *)
THEOREM OneRunsAtATime == Spec => []SoleRunner
<1>1. LeaseInv => SoleRunner
  BY DEF LeaseInv, RunnerHolds, SoleRunner
<1>. QED BY <1>1, LeaseInvariant, PTL

(* The Lease is taken from its holder only when the duration is over.      *)
THEOREM LiveLeaseIsSafe == Spec => NoLiveLeaseStolen
<1>1. ASSUME LeaseTypeOK, LeaseInv, [Next]_vars,
             lease' # NoLease, lease # NoLease, lease'.holder # lease.holder
      PROVE  Stale(lease)
  <2>1. \A u \in Upgrade : Acquire(u) => Stale(lease)
    BY <1>1, AcquireSafe DEF LeaseInv, LeaseOf
  <2>2. \A u \in Upgrade : Release(u) => FALSE
    BY <1>1 DEF Release, Write, leaseVars
  <2>3. UNCHANGED lease => FALSE
    BY <1>1
  <2>4. ~Tick
    BY <1>1, HolderType DEF Tick, LeaseTypeOK
  <2>5. ~CacheSync /\ ~Restart /\ ~UNCHANGED vars
    BY <2>3 DEF CacheSync, Restart, vars, leaseVars
  <2>6. PICK u \in Upgrade :
            \/ Reconcile(u) \/ ReconcileDeletedLost(u) \/ ReconcileCutShort(u)
            \/ TogglePause(u) \/ DeleteUpgrade(u) \/ RecreateUpgrade(u)
            \/ ChildFails(u) \/ ChildrenEnd(u)
    BY <1>1, <2>4, <2>5 DEF Next
  <2>7. Acquire(u) \/ Release(u) \/ UNCHANGED lease
    BY <2>6 DEF Reconcile, ReconcileDeleted, ReconcileDeletedLost,
                AddFinalizer, ReconcilePaused, ReconcileTerminal, ReconcileActive, AcquireRefused,
                ReconcileCutShort, TogglePause, DeleteUpgrade, RecreateUpgrade, ChildFails,
                ChildrenEnd, leaseVars
  <2>. QED BY <2>1, <2>2, <2>3, <2>7
<1>2. LeaseTypeOK /\ LeaseInv /\ [Next]_vars =>
        [ lease' # NoLease /\ lease # NoLease /\ lease'.holder # lease.holder
          => Stale(lease) ]_vars
  BY <1>1
<1>. QED BY <1>2, LeaseTypeCorrect, LeaseInvariant, PTL DEF Spec, NoLiveLeaseStolen
=============================================================================
