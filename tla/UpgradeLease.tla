--------------------------- MODULE UpgradeLease -----------------------------
(***************************************************************************)
(* Several KubernetesUpgrades and the one Lease that is to keep them apart *)
(* (kubernetesupgrade_prechecks.go: acquireLease, releaseLease), with the  *)
(* part of Reconcile that comes before and around the phase handlers:      *)
(* finalizer, pause, deletion and terminal phases, and the webhook that is *)
(* asked about every write to an upgrade but those to its status.  What    *)
(* the handlers do is KubernetesUpgrade; here an upgrade is pending,       *)
(* running or over.                                                        *)
(*                                                                         *)
(* One worker runs Reconcile, so a pass is one action, but it reads the    *)
(* Lease from the informer cache, which may be behind the API server.  A   *)
(* request is in the work queue or not: a pass that returns an empty       *)
(* result is not repeated until something happens to the upgrade.          *)
(***************************************************************************)
EXTENDS K8sVersion

CONSTANTS
    Upgrade,       \* names of KubernetesUpgrades, the holders' identities
    Duration,      \* leaseDuration, in ticks of the clock
    Touched,       \* upgrades somebody pauses, resumes, deletes and creates again
    Target,        \* spec.targetVersion of each upgrade
    AllowDowngrade,\* upgrades with spec.safety.allowDowngrade
    FirstServer,   \* the version of the API server to begin with
    MaxRecreated,  \* bound: how often a deleted upgrade is created again
    CacheLag       \* whether the cache of Leases may be behind

ASSUME LeaseAssumption ==
    /\ Duration \in Nat
    /\ MaxRecreated \in Nat
    /\ Touched \subseteq Upgrade
    /\ AllowDowngrade \subseteq Upgrade
    /\ Target \in [Upgrade -> Version]
    /\ FirstServer \in Version
    /\ CacheLag \in BOOLEAN

VARIABLES
    object,        \* the KubernetesUpgrade: live, deleting (its finalizer keeps it) or gone
    finalizer,     \* upgrades that carry the finalizer
    paused,        \* upgrades with spec.paused
    phase,         \* status.phase, the phases between Pending and the end as one
    queued,        \* upgrades in the work queue
    working,       \* upgrades some child of which is at work
    broken,        \* upgrades some child of which has failed
    server,        \* version of the API server
    lease,         \* the Lease in the API server, NoLease if there is none
    cached,        \* the Lease in the informer cache
    synced,        \* whether the cache has the last version of the Lease
    silence,       \* history: ticks since a running upgrade last had the lease confirmed
    disowned,      \* history: upgrades whose Lease another upgrade deleted
    recreated      \* number of upgrades created again

upgradeVars == <<object, finalizer, paused, phase, queued, recreated>>
childVars   == <<working, broken, server>>
leaseVars   == <<lease, cached, synced>>
historyVars == <<silence, disowned>>
vars        == <<upgradeVars, childVars, leaseVars, historyVars>>

(* Time beyond the duration makes no difference: ages stop at Expired.     *)
Expired == Duration + 1
Age     == 0..Expired

NoLease    == [holder |-> {}, age |-> 0]
LeaseOf(u) == [holder |-> {u}, age |-> 0]
Lease      == {NoLease} \cup [holder : {{u} : u \in Upgrade}, age : Age]

(* Types; the age of a Lease is the time since its renewTime. *)
LeaseTypeOK ==
    /\ object \in [Upgrade -> {"live", "deleting", "gone"}]
    /\ finalizer \subseteq Upgrade
    /\ paused \subseteq Upgrade
    /\ phase \in [Upgrade -> {"Pending", "Running", "Complete", "Failed"}]
    /\ queued \subseteq Upgrade
    /\ working \subseteq Upgrade
    /\ broken \subseteq Upgrade
    /\ server \in Version
    /\ lease \in Lease
    /\ cached \in Lease
    /\ synced \in BOOLEAN
    /\ silence \in [Upgrade -> Age]
    /\ disowned \subseteq Upgrade
    /\ recreated \in 0..MaxRecreated

(* Nothing sets the phase Paused, which would be one of these.             *)
Terminal(u) == phase[u] \in {"Complete", "Failed"}

(* The webhook lets a create or an update of u through. *)
Validate(u) == Admitted(server, Target[u], u \in AllowDowngrade)

-----------------------------------------------------------------------------
(* The Lease. *)

(* A write to the API server; the cache follows at once or later. *)
Write(l) ==
    /\ lease' = l
    /\ IF CacheLag THEN synced' = FALSE /\ UNCHANGED cached
                   ELSE synced' = TRUE /\ cached' = l

(* Mutant: a Lease never expires. *)
StaleNever(l) == FALSE

Stale(l) == l.age > Duration

HeldByOther(u, l) == l.holder # {} /\ l.holder # {u} /\ ~Stale(l)

(* The Update of a Lease carries the resource version of the copy it was   *)
(* made from: it is refused when that is not the last one, or the Lease is *)
(* gone.  The mutant forces the write.                                     *)
UpdateForced == lease # NoLease

UpdateAccepted == synced /\ lease # NoLease

(* acquireLease: TRUE, with the Lease written.  The mutant takes a Lease   *)
(* somebody else has just created for its own.                             *)
AcquireUnchecked(u) ==
    IF cached = NoLease
    THEN Write(LeaseOf(u))
    ELSE ~HeldByOther(u, cached) /\ UpdateAccepted /\ Write(LeaseOf(u))

Acquire(u) ==
    IF cached = NoLease
    THEN lease = NoLease /\ Write(LeaseOf(u))
    ELSE ~HeldByOther(u, cached) /\ UpdateAccepted /\ Write(LeaseOf(u))

(* acquireLease: FALSE or an error, with nothing written.                  *)
AcquireRefused(u) ==
    /\ IF cached = NoLease
       THEN lease # NoLease
       ELSE HeldByOther(u, cached) \/ ~UpdateAccepted
    /\ UNCHANGED leaseVars

(* releaseLease without an error.  The Lease to delete is found in the     *)
(* cache and deleted by name, whatever version the API server has.  If it  *)
(* is not there any more, that is an error, and the pass will be repeated. *)
Release(u) ==
    IF cached.holder # {u}
    THEN UNCHANGED leaseVars
    ELSE lease # NoLease /\ Write(NoLease)

(* Whose Lease a release by u deletes although it is not u's.              *)
Disowned(u) ==
    IF lease' = NoLease THEN {w \in lease.holder \ {u} : silence[w] <= Duration} ELSE {}

-----------------------------------------------------------------------------
(* Reconcile, one pass of upgrade u. *)

Forget(u) == queued' = queued \ {u}

(* The API server removes the object, and its status with it.              *)
Removed(u) ==
    /\ object' = [object EXCEPT ![u] = "gone"]
    /\ finalizer' = finalizer \ {u}
    /\ paused' = paused \ {u}
    /\ phase' = [phase EXCEPT ![u] = "Pending"]
    /\ broken' = broken \ {u}
    /\ Forget(u)

NoLongerRuns(u) == silence' = [silence EXCEPT ![u] = Expired]

(* DeletionTimestamp is set: release, and take the finalizer off, which    *)
(* lets the API server remove the upgrade, unless the webhook refuses the  *)
(* write.  The write may also fail.                                        *)
ReconcileDeleted(u) ==
    /\ u \in queued /\ object[u] = "deleting"
    /\ Release(u)
    /\ IF Validate(u) THEN Removed(u) /\ UNCHANGED <<recreated, working, server>>
                      ELSE UNCHANGED <<upgradeVars, childVars>>
    /\ disowned' = disowned \cup Disowned(u)
    /\ UNCHANGED silence

ReconcileDeletedLost(u) ==
    /\ u \in queued /\ object[u] = "deleting"
    /\ Release(u)
    /\ disowned' = disowned \cup Disowned(u)
    /\ UNCHANGED <<upgradeVars, childVars, silence>>

AddFinalizer(u) ==
    /\ u \in queued /\ object[u] = "live" /\ u \notin finalizer
    /\ Validate(u)
    /\ finalizer' = finalizer \cup {u}
    /\ UNCHANGED <<object, paused, phase, queued, recreated, childVars, leaseVars, historyVars>>

Reconciling(u) == u \in queued /\ object[u] = "live" /\ u \in finalizer

(* Paused comes before everything else: neither renewal nor release.       *)
ReconcilePaused(u) ==
    /\ Reconciling(u) /\ u \in paused
    /\ Forget(u)
    /\ UNCHANGED <<object, finalizer, paused, phase, recreated, childVars, leaseVars, historyVars>>

ReconcileTerminal(u) ==
    /\ Reconciling(u) /\ u \notin paused /\ Terminal(u)
    /\ Release(u)
    /\ Forget(u)
    /\ disowned' = disowned \cup Disowned(u)
    /\ UNCHANGED <<object, finalizer, paused, phase, recreated, childVars, silence>>

(* The phase handlers: children are created and released, and their        *)
(* phases read; the first failed child fails the upgrade.  Without a hop   *)
(* to make, or with a target the fleet is past, the upgrade is over.       *)
Handle(u) ==
    \/ /\ phase[u] = "Pending"
       /\ phase' = [phase EXCEPT ![u] = "Running"]
       /\ working' = working \cup {u}
    \/ /\ phase[u] = "Pending" /\ AtLeast(server, Target[u])
       /\ \E p \in {"Complete", "Failed"} : phase' = [phase EXCEPT ![u] = p]
       /\ UNCHANGED working
    \/ /\ phase[u] = "Running"
       /\ phase' = [phase EXCEPT ![u] = IF u \in broken THEN "Failed"
                                        ELSE IF u \in working THEN "Running"
                                        ELSE "Complete"]
       /\ UNCHANGED working

Confirmed(u) ==
    /\ silence' = [silence EXCEPT ![u] = 0]
    /\ disowned' = disowned \ {u}

(* An active upgrade renews or takes the Lease and goes on.                *)
ReconcileActive(u) ==
    /\ Reconciling(u) /\ u \notin paused /\ ~Terminal(u)
    /\ \/ /\ Acquire(u)
          /\ Handle(u)
          /\ IF phase'[u] = "Running"
             THEN Confirmed(u)
             ELSE NoLongerRuns(u) /\ disowned' = disowned \ {u}
       \/ AcquireRefused(u) /\ UNCHANGED <<silence, disowned, phase, working>>
    /\ UNCHANGED <<object, finalizer, paused, queued, recreated, broken, server>>

(* The Lease is taken and the pass dies, or the write of its status fails. *)
ReconcileCutShort(u) ==
    /\ Reconciling(u) /\ u \notin paused /\ ~Terminal(u)
    /\ Acquire(u)
    /\ Confirmed(u)
    /\ UNCHANGED <<upgradeVars, childVars>>

Reconcile(u) ==
    \/ ReconcileDeleted(u) \/ AddFinalizer(u) \/ ReconcilePaused(u)
    \/ ReconcileTerminal(u) \/ ReconcileActive(u)

-----------------------------------------------------------------------------
(* Users, the children's controller, and the world. *)

Enqueue(u) == queued' = queued \cup {u}

TogglePause(u) ==
    /\ u \in Touched /\ object[u] = "live" /\ Validate(u)
    /\ paused' = IF u \in paused THEN paused \ {u} ELSE paused \cup {u}
    /\ Enqueue(u)
    /\ UNCHANGED <<object, finalizer, phase, recreated, childVars, leaseVars, historyVars>>

DeleteUpgrade(u) ==
    /\ u \in Touched /\ object[u] = "live"
    /\ IF u \in finalizer
       THEN /\ object' = [object EXCEPT ![u] = "deleting"]
            /\ Enqueue(u)
            /\ UNCHANGED <<finalizer, paused, phase, broken>>
       ELSE Removed(u)
    /\ NoLongerRuns(u)
    /\ disowned' = disowned \ {u}
    /\ UNCHANGED <<recreated, working, server, leaseVars>>

(* The children of the old one have been garbage collected by then.        *)
RecreateUpgrade(u) ==
    /\ object[u] = "gone" /\ u \notin working /\ recreated < MaxRecreated
    /\ Validate(u)
    /\ object' = [object EXCEPT ![u] = "live"]
    /\ recreated' = recreated + 1
    /\ Enqueue(u)
    /\ UNCHANGED <<finalizer, paused, phase, childVars, leaseVars, historyVars>>

(* The NodeGroupUpgrade controller works on, whether the parent is paused, *)
(* failed or without the Lease: a child fails, which no pass asks about    *)
(* once the upgrade is over, or the last one ends and has, perhaps, moved  *)
(* the API server on.                                                      *)
ChildFails(u) ==
    /\ u \in working /\ u \notin broken
    /\ object[u] # "gone" /\ phase[u] = "Running"
    /\ broken' = broken \cup {u}
    /\ Enqueue(u)
    /\ UNCHANGED <<object, finalizer, paused, phase, recreated, working, server, leaseVars, historyVars>>

ChildrenEnd(u) ==
    /\ u \in working
    /\ working' = working \ {u}
    /\ server' \in {server} \cup {v \in {Target[u]} : Before(server, v)}
    /\ Enqueue(u)
    /\ UNCHANGED <<object, finalizer, paused, phase, recreated, broken, leaseVars, historyVars>>

Older(l) == IF l = NoLease \/ l.age = Expired THEN l ELSE [l EXCEPT !.age = @ + 1]

Tick ==
    /\ lease' = Older(lease)
    /\ cached' = Older(cached)
    /\ silence' = [u \in Upgrade |->
                     IF silence[u] = Expired THEN Expired ELSE silence[u] + 1]
    /\ UNCHANGED <<upgradeVars, childVars, synced, disowned>>

CacheSync ==
    /\ ~synced
    /\ cached' = lease
    /\ synced' = TRUE
    /\ UNCHANGED <<upgradeVars, childVars, lease, historyVars>>

(* The operator restarts: caches are filled and every upgrade is queued.   *)
Restart ==
    /\ cached' = lease
    /\ synced' = TRUE
    /\ queued' = {u \in Upgrade : object[u] # "gone"}
    /\ UNCHANGED <<object, finalizer, paused, phase, recreated, childVars, lease, historyVars>>

-----------------------------------------------------------------------------

Init ==
    /\ object = [u \in Upgrade |-> "live"]
    /\ finalizer = {}
    /\ paused = {}
    /\ phase = [u \in Upgrade |-> "Pending"]
    /\ queued = Upgrade
    /\ working = {}
    /\ broken = {}
    /\ server = FirstServer
    /\ lease = NoLease /\ cached = NoLease /\ synced = TRUE
    /\ silence = [u \in Upgrade |-> Expired]
    /\ disowned = {}
    /\ recreated = 0

Next ==
    \/ \E u \in Upgrade :
         \/ Reconcile(u) \/ ReconcileDeletedLost(u) \/ ReconcileCutShort(u)
         \/ TogglePause(u) \/ DeleteUpgrade(u) \/ RecreateUpgrade(u)
         \/ ChildFails(u) \/ ChildrenEnd(u)
    \/ Tick \/ CacheSync \/ Restart

Spec == Init /\ [][Next]_vars

(* The work queue hands out every request and retries errors.  A pass can  *)
(* get on only when the cache is up to date, which each renewal undoes for *)
(* a moment: that some pass does is strong fairness, justified by requeues *)
(* of seconds against a cache that follows in milliseconds, and by faults  *)
(* that do not go on for ever.  Children end; clock and cache advance.     *)
Fairness ==
    /\ \A u \in Upgrade :
         /\ WF_vars(Reconcile(u))
         /\ SF_vars(ReconcileActive(u))
         /\ WF_vars(ChildrenEnd(u))
    /\ WF_vars(Tick)
    /\ WF_vars(CacheSync)

FairSpec == Spec /\ Fairness

-----------------------------------------------------------------------------
(* Properties.                                                             *)

(* acquireLease ("a lease not renewed within leaseDuration is treated as   *)
(* abandoned"): a Lease changes hands only when its holder has not renewed *)
(* it for longer than the duration, however far the cache is behind.       *)
NoLiveLeaseStolen ==
    [][ lease' # NoLease /\ lease # NoLease /\ lease'.holder # lease.holder
        => Stale(lease) ]_vars

(* An upgrade that is on its way and had the lease confirmed a short time  *)
(* ago, and so goes on with its handlers.                                  *)
Running(u) == silence[u] <= Duration

(* Mutual exclusion of the passes: two upgrades run within one duration    *)
(* only if the Lease of one of them was deleted by another's releaseLease. *)
SoleRunner ==
    \A u, w \in Upgrade :
        u # w /\ Running(u) /\ Running(w) => {u, w} \cap disowned # {}

(* An upgrade that is neither deleted nor paused comes to its end: no      *)
(* Lease that was leaked, kept by a paused upgrade or deleted by mistake   *)
(* blocks it for ever.                                                     *)
EveryUpgradeServed ==
    \A u \in Upgrade : []<>(object[u] # "live" \/ u \in paused \/ Terminal(u))

(* The finalizer ("one last chance to release the mutual-exclusion lease   *)
(* before a KubernetesUpgrade is actually removed") never keeps a deleted  *)
(* upgrade for ever.                                                       *)
DeletionEnds ==
    \A u \in Upgrade : object[u] = "deleting" ~> object[u] = "gone"
=============================================================================
