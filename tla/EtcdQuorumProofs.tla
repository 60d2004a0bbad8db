-------------------------- MODULE EtcdQuorumProofs --------------------------
(***************************************************************************)
(* The quorum gate for any number of control-plane nodes, any lifetime of  *)
(* the check Jobs and any number of faults: a healthy verdict is fresh.    *)
(***************************************************************************)
EXTENDS EtcdQuorum, FiniteSetTheorems, TLAPS

(* The result of a check is no older than its Job: a member that is up has *)
(* not been down, and one whose Job is complete went down after it.        *)
JobsFresh ==
    /\ \A n \in member : downFor[n] = 0
    /\ \A n \in Node : job[n] = "complete" => downFor[n] <= age[n]

LEMMA Countable ==
    ASSUME NEW S \in SUBSET Node
    PROVE  Cardinality(S) \in Nat /\ Cardinality(S) <= Cardinality(Node)
BY EtcdAssumption, FS_Subset, FS_CardinalityType

LEMMA LookAtType ==
    ASSUME EtcdTypeOK, NEW S, NEW kept, LookAt(S, kept)
    PROVE  job' \in [Node -> JobState] /\ age' \in [Node -> 0..TTL]
BY EtcdAssumption DEF EtcdTypeOK, LookAt, IsFinished, JobState

(* Type correctness, the bound on what may go wrong included.              *)
THEOREM EtcdTypeCorrect == Spec => []EtcdTypeOK
<1>1. Init => EtcdTypeOK
  BY EtcdAssumption DEF Init, EtcdTypeOK, JobState
<1>2. EtcdTypeOK /\ [Next]_vars => EtcdTypeOK'
  <2>. SUFFICES ASSUME EtcdTypeOK, [Next]_vars PROVE EtcdTypeOK'
    OBVIOUS
  <2>1. CASE Pass
    <3>1. verdict' \in {"none", "healthy", "unhealthy"}
      BY <2>1 DEF Pass, Count
    <3>2. PICK kept \in SUBSET Finished :
             /\ Irregular(Cardinality(Running) + Cardinality(kept))
             /\ LookAt(Node, kept)
             /\ irregular' = IF Count # "none" THEN Cardinality(kept)
                             ELSE irregular + Cardinality(Running) + Cardinality(kept)
      BY <2>1 DEF Pass
    <3>3. Cardinality(kept) \in Nat /\ Cardinality(Running) \in Nat
      BY <3>2, Countable DEF Finished, Running
    <3>4. irregular' \in 0..MaxIrregular
      BY <3>2, <3>3, EtcdAssumption DEF Irregular, EtcdTypeOK
    <3>. QED BY <2>1, <3>1, <3>2, <3>4, LookAtType DEF Pass, nodeVars, EtcdTypeOK
  <2>2. CASE PassCutShort
    <3>1. irregular' \in 0..MaxIrregular
      BY <2>2, EtcdAssumption DEF PassCutShort, Irregular, EtcdTypeOK
    <3>. QED BY <2>2, <3>1, LookAtType DEF PassCutShort, nodeVars, EtcdTypeOK
  <2>3. CASE Tick
    <3>1. age' \in [Node -> 0..TTL]
      BY <2>3, EtcdAssumption DEF Tick, Finished, EtcdTypeOK
    <3>2. downFor' \in [Node -> 0..(TTL + 1)]
      BY <2>3, EtcdAssumption DEF Tick, EtcdTypeOK
    <3>. QED BY <2>3, <3>1, <3>2 DEF Tick, EtcdTypeOK
  <2>4. ASSUME NEW n \in Node, HealthCheckPasses(n) \/ HealthCheckFails(n)
        PROVE  EtcdTypeOK'
    BY <2>4, EtcdAssumption
       DEF HealthCheckPasses, HealthCheckFails, Finish, nodeVars, EtcdTypeOK, JobState
  <2>5. ASSUME NEW n \in Node, JobExpires(n)
        PROVE  EtcdTypeOK'
    BY <2>5, EtcdAssumption DEF JobExpires, Irregular, nodeVars, EtcdTypeOK, JobState
  <2>6. ASSUME NEW n \in Node, MemberFlips(n) \/ ApiserverFlips(n) \/ ReadyFlips(n)
        PROVE  EtcdTypeOK'
    BY <2>6, EtcdAssumption DEF MemberFlips, ApiserverFlips, ReadyFlips, Flip, EtcdTypeOK
  <2>7. CASE UNCHANGED vars
    BY <2>7 DEF vars, nodeVars, EtcdTypeOK
  <2>. QED BY <2>1, <2>2, <2>3, <2>4, <2>5, <2>6, <2>7 DEF Next
<1>. QED BY <1>1, <1>2, PTL DEF Spec

LEMMA LookAtFresh ==
    ASSUME EtcdTypeOK, JobsFresh, NEW S, NEW kept, LookAt(S, kept), UNCHANGED nodeVars
    PROVE  JobsFresh'
BY DEF EtcdTypeOK, JobsFresh, LookAt, nodeVars

LEMMA JobsStayFresh ==
    ASSUME EtcdTypeOK, JobsFresh, [Next]_vars
    PROVE  JobsFresh'
<1>1. CASE Pass
  BY <1>1, LookAtFresh DEF Pass
<1>2. CASE PassCutShort
  BY <1>2, LookAtFresh DEF PassCutShort
<1>3. CASE Tick
  BY <1>3, EtcdAssumption DEF Tick, Finished, IsFinished, EtcdTypeOK, JobsFresh
<1>4. ASSUME NEW n \in Node, HealthCheckPasses(n) \/ HealthCheckFails(n)
      PROVE  JobsFresh'
  BY <1>4 DEF HealthCheckPasses, HealthCheckFails, Finish, nodeVars, EtcdTypeOK, JobsFresh
<1>5. ASSUME NEW n \in Node, JobExpires(n)
      PROVE  JobsFresh'
  BY <1>5 DEF JobExpires, nodeVars, EtcdTypeOK, JobsFresh
<1>6. ASSUME NEW n \in Node, MemberFlips(n)
      PROVE  JobsFresh'
  BY <1>6, EtcdAssumption DEF MemberFlips, Flip, EtcdTypeOK, JobsFresh
<1>7. ASSUME NEW n \in Node, ApiserverFlips(n) \/ ReadyFlips(n)
      PROVE  JobsFresh'
  BY <1>7 DEF ApiserverFlips, ReadyFlips, JobsFresh
<1>8. CASE UNCHANGED vars
  BY <1>8 DEF vars, nodeVars, JobsFresh
<1>. QED BY <1>1, <1>2, <1>3, <1>4, <1>5, <1>6, <1>7, <1>8 DEF Next

(* A pass that counts a majority of complete Jobs has found a majority of  *)
(* members that were up within the lifetime of a Job.                      *)
LEMMA PassIsFresh ==
    ASSUME EtcdTypeOK, JobsFresh, Pass
    PROVE  FreshQuorum'
<1>. DEFINE Recent == {n \in Node : downFor[n] <= TTL}
<1>1. Healthy \subseteq Recent
  BY EtcdAssumption DEF EtcdTypeOK, JobsFresh, Healthy
<1>2. IsFiniteSet(Recent) /\ Cardinality(Healthy) <= Cardinality(Recent)
  BY <1>1, EtcdAssumption, FS_Subset
<1>3. Cardinality(Healthy) \in Nat /\ Cardinality(Recent) \in Nat /\ Cardinality(Node) \in Nat
  BY Countable DEF Healthy
<1>4. ASSUME verdict' = "healthy", Node # {}
      PROVE  2 * Cardinality(Recent) > Cardinality(Node)
  <2>1. QuorumOf(Healthy, Node)
    BY <1>4 DEF Pass, Count
  <2>. HIDE DEF Recent
  <2>2. Cardinality(Recent) >= Cardinality(Node) \div 2 + 1
    BY <1>2, <1>3, <2>1 DEF QuorumOf
  <2>. QED BY <1>3, <2>2
<1>. QED BY <1>4 DEF Pass, nodeVars, FreshQuorum

(* Every verdict is fresh: all other steps take the verdict back.          *)
THEOREM QuorumIsFresh == Spec => []FreshQuorum
<1>1. Init => JobsFresh /\ FreshQuorum
  BY EtcdAssumption DEF Init, JobsFresh, FreshQuorum
<1>2. EtcdTypeOK /\ JobsFresh /\ FreshQuorum /\ [Next]_vars => (JobsFresh /\ FreshQuorum)'
  <2>. SUFFICES ASSUME EtcdTypeOK, JobsFresh, FreshQuorum, [Next]_vars
                PROVE  (JobsFresh /\ FreshQuorum)'
    OBVIOUS
  <2>1. JobsFresh'
    BY JobsStayFresh
  <2>2. CASE Pass
    BY <2>1, <2>2, PassIsFresh
  <2>3. CASE UNCHANGED vars
    BY <2>1, <2>3 DEF vars, nodeVars, FreshQuorum
  <2>4. CASE Next /\ ~Pass
    <3>1. verdict' = "none"
      BY <2>4 DEF Next, PassCutShort, Tick, HealthCheckPasses, HealthCheckFails, Finish,
                  JobExpires, MemberFlips, ApiserverFlips, ReadyFlips
    <3>. QED BY <2>1, <3>1 DEF FreshQuorum
  <2>. QED BY <2>1, <2>2, <2>3, <2>4
<1>. QED BY <1>1, <1>2, EtcdTypeCorrect, PTL DEF Spec
=============================================================================
