---------------------------- MODULE EtcdQuorum ------------------------------
(***************************************************************************)
(* The gate in front of every control-plane node: Precheck of the kubeadm  *)
(* adapter (pkg/provider/kubeadm/adapter.go), with the three majorities it *)
(* asks for, and the etcdctl check among them (etcdquorum.go), which runs  *)
(* one Job per node over several passes.  One pass, at least every 15      *)
(* seconds while the gate is closed, is one action.                        *)
(***************************************************************************)
EXTENDS Integers, FiniteSets

CONSTANTS
    Node,          \* the control-plane nodes
    Addressable,   \* those with an InternalIP
    TTL,           \* ttlSecondsAfterFinished of a check Job, in ticks
    MaxIrregular,  \* bound on what goes wrong within one check, see irregular
    Flaky,         \* nodes that may lose and regain what the checks ask for
    Faults         \* what else can go wrong: "fetch", "ttl", "api"

ASSUME EtcdAssumption ==
    /\ IsFiniteSet(Node)
    /\ Addressable \subseteq Node
    /\ TTL \in Nat
    /\ MaxIrregular \in Nat
    /\ Flaky \subseteq Node
    /\ Faults \subseteq {"fetch", "ttl", "api"}

VARIABLES
    ready,         \* nodes that are Ready
    serving,       \* nodes whose apiserver answers /healthz/etcd with 200
    member,        \* nodes whose etcd member answers "etcdctl endpoint health"
    job,           \* the check Job of a node
    age,           \* ticks since that Job finished
    verdict,       \* what the last step, if it was a pass, has found out
    downFor,       \* history: ticks since a member was last up
    irregular      \* history: Jobs a pass found running, and Jobs and passes
                   \* that were lost, since the last verdict

nodeVars == <<ready, serving, member, downFor>>
vars     == <<nodeVars, job, age, verdict, irregular>>

JobState == {"none", "running", "complete", "failed"}

(* Types. *)
EtcdTypeOK ==
    /\ ready \subseteq Node
    /\ serving \subseteq Node
    /\ member \subseteq Node
    /\ job \in [Node -> JobState]
    /\ age \in [Node -> 0..TTL]
    /\ verdict \in {"none", "healthy", "unhealthy"}
    /\ downFor \in [Node -> 0..(TTL + 1)]
    /\ irregular \in 0..MaxIrregular

-----------------------------------------------------------------------------
(* Precheck. *)

(* Mutant: half of the members. *)
HalfOf(S, all) == Cardinality(S) >= Cardinality(all) \div 2

QuorumOf(S, all) == Cardinality(S) >= Cardinality(all) \div 2 + 1

CheckControlPlaneHealth == Node = {} \/ QuorumOf(ready, Node)

(* Nodes without an InternalIP are not asked and not counted. *)
CheckEtcdQuorumViaAPIServers ==
    Addressable = {} \/ QuorumOf(serving \cap Addressable, Addressable)

Gate == CheckControlPlaneHealth /\ CheckEtcdQuorumViaAPIServers

(* jobConditionState.  The mutant knows only the Complete condition. *)
IsComplete(n) == job[n] = "complete"

IsFinished(n) == job[n] \in {"complete", "failed"}

Finished == {n \in Node : IsFinished(n)}
Healthy  == {n \in Node : job[n] = "complete"}
Running  == {n \in Node : job[n] = "running"}

(* The nodes of S are looked at: a missing Job is created, a finished one  *)
(* deleted, unless the Delete, whose error is ignored, fails (kept).       *)
LookAt(S, kept) ==
    /\ job' = [n \in Node |->
                 IF n \notin S \/ n \in kept THEN job[n]
                 ELSE IF IsFinished(n) THEN "none"
                 ELSE "running"]
    /\ age' = [n \in Node |-> IF n \notin S \/ n \in kept THEN age[n] ELSE 0]

(* CheckEtcdQuorumViaEtcdctl: no verdict while a Job is missing or running. *)
Count ==
    IF Finished # Node THEN "none"
    ELSE IF Node = {} \/ QuorumOf(Healthy, Node) THEN "healthy" ELSE "unhealthy"

Irregular(k) == irregular + k <= MaxIrregular

(* A pass with both cheap majorities: every Job is looked at and counted.  *)
Pass ==
    /\ Gate
    /\ verdict' = Count
    /\ \E kept \in IF "api" \in Faults THEN SUBSET Finished ELSE {{}} :
         /\ Irregular(Cardinality(Running) + Cardinality(kept))
         /\ LookAt(Node, kept)
         /\ irregular' = IF Count # "none" THEN Cardinality(kept)
                         ELSE irregular + Cardinality(Running) + Cardinality(kept)
    /\ UNCHANGED nodeVars

(* A pass that ends in an error after some of the nodes, in any order:     *)
(* their Jobs are created or deleted and the count is lost.  The group     *)
(* fails; the passes that follow are those of the next time it is started. *)
PassCutShort ==
    /\ Gate /\ "api" \in Faults
    /\ Irregular(1)
    /\ irregular' = irregular + 1
    /\ \E S \in SUBSET Node \ {Node} : LookAt(S, {})
    /\ verdict' = "none"
    /\ UNCHANGED nodeVars

-----------------------------------------------------------------------------
(* The check Jobs (etcd-healthcheck.sh) and the nodes. *)

Finish(n, result) ==
    /\ job' = [job EXCEPT ![n] = result]
    /\ age' = [age EXCEPT ![n] = 0]
    /\ verdict' = "none"
    /\ UNCHANGED <<nodeVars, irregular>>

(* The last command asks the node's own member.                            *)
HealthCheckPasses(n) ==
    /\ job[n] = "running" /\ n \in member
    /\ Finish(n, "complete")

(* The member is down, etcdctl cannot be fetched, or the deadline passes.  *)
HealthCheckFails(n) ==
    /\ job[n] = "running" /\ (n \notin member \/ "fetch" \in Faults)
    /\ Finish(n, "failed")

(* The Job controller deletes a finished Job when its time is over.        *)
JobExpires(n) ==
    /\ IsFinished(n) /\ age[n] = TTL
    /\ "ttl" \in Faults /\ Irregular(1)
    /\ job' = [job EXCEPT ![n] = "none"]
    /\ age' = [age EXCEPT ![n] = 0]
    /\ irregular' = irregular + 1
    /\ verdict' = "none"
    /\ UNCHANGED nodeVars

(* No Job outlives its time.                                               *)
Tick ==
    /\ \A n \in Finished : age[n] < TTL
    /\ age' = [n \in Node |-> IF n \in Finished THEN age[n] + 1 ELSE age[n]]
    /\ downFor' = [n \in Node |->
                     IF n \in member \/ downFor[n] > TTL THEN downFor[n]
                     ELSE downFor[n] + 1]
    /\ verdict' = "none"
    /\ UNCHANGED <<ready, serving, member, job, irregular>>

Flip(S, n) == IF n \in S THEN S \ {n} ELSE S \cup {n}

MemberFlips(n) ==
    /\ n \in Flaky
    /\ member' = Flip(member, n)
    /\ downFor' = [downFor EXCEPT ![n] = 0]
    /\ verdict' = "none"
    /\ UNCHANGED <<ready, serving, job, age, irregular>>

ApiserverFlips(n) ==
    /\ n \in Flaky
    /\ serving' = Flip(serving, n)
    /\ verdict' = "none"
    /\ UNCHANGED <<ready, member, downFor, job, age, irregular>>

ReadyFlips(n) ==
    /\ n \in Flaky
    /\ ready' = Flip(ready, n)
    /\ verdict' = "none"
    /\ UNCHANGED <<serving, member, downFor, job, age, irregular>>

-----------------------------------------------------------------------------

Init ==
    /\ ready = Node /\ serving = Node /\ member = Node
    /\ job = [n \in Node |-> "none"]
    /\ age = [n \in Node |-> 0]
    /\ verdict = "none"
    /\ downFor = [n \in Node |-> 0]
    /\ irregular = 0

Next ==
    \/ Pass \/ PassCutShort \/ Tick
    \/ \E n \in Node :
         \/ HealthCheckPasses(n) \/ HealthCheckFails(n) \/ JobExpires(n)
         \/ MemberFlips(n) \/ ApiserverFlips(n) \/ ReadyFlips(n)

Spec == Init /\ [][Next]_vars

(* The group is requeued every 15 seconds as long as the gate is closed,   *)
(* and a Job's deadline ends it.                                           *)
Fairness ==
    /\ WF_vars(Pass)
    /\ \A n \in Node : WF_vars(HealthCheckPasses(n) \/ HealthCheckFails(n))

FairSpec == Spec /\ Fairness

-----------------------------------------------------------------------------
(* Properties.                                                             *)

(* The point of the gate ("requiring a majority to report healthy"): a     *)
(* healthy verdict, whatever passes it was collected over, means that a    *)
(* majority of the members was up within the lifetime of a finished Job.   *)
FreshQuorum ==
    verdict = "healthy" /\ Node # {} =>
        2 * Cardinality({n \in Node : downFor[n] <= TTL}) > Cardinality(Node)

(* As long as no Job is late or lost, the check comes to a verdict.        *)
PunctualChecksDecide == []<>(verdict # "none" \/ irregular > 0 \/ ~Gate)

(* CheckEtcdQuorumViaEtcdctl ("the caller should retry later"): retrying   *)
(* leads to a verdict, although a Job was late once.                       *)
CheckDecides == []<>(verdict # "none" \/ ~Gate)
=============================================================================
