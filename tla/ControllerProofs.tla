--------------------------- MODULE ControllerProofs ---------------------------
(***************************************************************************)
(* Safety of CertificateJobController for every set of certificates,       *)
(* nodes, specs and labels, and every number of edits and faults.          *)
(***************************************************************************)
EXTENDS CertificateJobController, TLAPS

\* Versions and generations stay within the changes made so far.
VersionsOK ==
    /\ api.generation <= edits + 1 /\ api.uid <= edits + 1
    /\ \A c \in Cert : cert[c].version <= edits + 1 /\ secret[c].version <= edits + 1

\* What the cache shows of a Job has happened.
JobsOK ==
    \A k \in JobName : /\ jobCache[k] # "none" => jobs[k] # "none"
                       /\ jobs[k] = "complete" \/ jobCache[k] = "complete" => k \in done

\* A node names a Job exactly when it was started; the Job is the one of this
\* certificate, node and run, it exists or existed, and it completed if the node
\* is Succeeded.  js and dn stand for jobs and done.
NodeOK(js, dn, c, hash, n, node) ==
    /\ node.job # NoJob <=> node.phase \in {"Running", "Succeeded", "Failed"}
    /\ node.job # NoJob => node.job = buildJobName(c, n, hash) /\ js[node.job] # "none"
    /\ node.phase = "Succeeded" => node.job \in dn

StateOK(js, dn, c, state) == \A n \in Node : NodeOK(js, dn, c, state.hash, n, state.nodes[n])

AllOK(js, dn, observed) == \A c \in Cert : StateOK(js, dn, c, observed[c])

ObservedOK == /\ AllOK(jobs, done, api.observed)
              /\ AllOK(jobs, done, cache.observed)
              /\ AllOK(jobs, done, w.observed)

\* Inside a run, the current certificate has an input and unseen nodes have Jobs.
RunOK ==
    w.pc \in {"observe", "schedule"} =>
        \A c \in Cert : Current(c) =>
            /\ w.observed[c].hash # NoHash
            /\ \A n \in w.run.unseen : w.observed[c].nodes[n].job # NoJob

\* The inductive invariant.  The saved status alone is not inductive: what is
\* saved was computed in the pass, from a cache, and all three must agree with
\* the Jobs.
IInv == TypeOK /\ VersionsOK /\ JobsOK /\ ObservedOK /\ RunOK

-----------------------------------------------------------------------------
(* The pure operators *)

LEMMA NoNodesType == NoNodes \in [Node -> WorkflowNodeState(JobName)]
BY DEF NoNodes, WorkflowNodeState

LEMMA NotObservedType == NotObserved \in CertificateExecutionState
BY NoNodesType DEF NotObserved, CertificateExecutionState

LEMMA NotObservedOK == \A js, dn : \A c \in Cert : StateOK(js, dn, c, NotObserved)
BY DEF StateOK, NodeOK, NotObserved, NoNodes

LEMMA NoConditionsType == NoConditions \in Conditions
BY ConstantsAssumption DEF NoConditions, Conditions

LEMMA NoRunType == NoRun \in RunLocals
BY DEF NoRun, RunLocals

LEMMA StartRunLocals ==
    ASSUME NEW unseen \in SUBSET Node, NEW slots \in Int
    PROVE  /\ [NoRun EXCEPT !.unseen = unseen, !.slots = slots] \in RunLocals
           /\ [NoRun EXCEPT !.unseen = unseen, !.slots = slots].unseen = unseen
BY DEF NoRun, RunLocals

LEMMA IdleType == Idle \in Pass
<1>1. NoStatus.observed \in Observed /\ NoStatus.conditions \in Conditions
  BY NotObservedType, NoConditionsType DEF NoStatus, Observed
<1>2. NoStatus \in [observed : Observed, conditions : Conditions]
  BY <1>1 DEF NoStatus
<1>3. (CHOOSE s \in SpecId : TRUE) \in SpecId
  BY ConstantsAssumption
<1>4. 1 \in Version /\ NoProgress \in Progress
  BY ConstantsAssumption DEF Version, NoProgress, Progress
<1> QED
  BY <1>1, <1>2, <1>3, <1>4, NoConditionsType, NoRunType DEF Idle, Pass

LEMMA InitializeType ==
    ASSUME NEW s \in SpecId
    PROVE  /\ initializeNodeStates(Specs[s]) \in [Node -> WorkflowNodeState(JobName)]
           /\ \A n \in Node : initializeNodeStates(Specs[s])[n].job = NoJob
           /\ \A n \in Node : initializeNodeStates(Specs[s])[n].phase \in {"Absent", "Pending"}
BY DEF initializeNodeStates, PendingNode, NoNodes, WorkflowNodeState, ExecutionPhase

LEMMA EnsureType ==
    ASSUME NEW s \in SpecId, NEW nodes \in [Node -> WorkflowNodeState(JobName)]
    PROVE  /\ ensureWorkflowNodeStates(Specs[s], nodes) \in [Node -> WorkflowNodeState(JobName)]
           /\ \A n \in Node :
                  \/ ensureWorkflowNodeStates(Specs[s], nodes)[n] = nodes[n]
                  \/ /\ nodes[n].phase = "Absent" /\ n \in Specs[s].jobs
                     /\ ensureWorkflowNodeStates(Specs[s], nodes)[n] = PendingNode
<1>1. PendingNode \in WorkflowNodeState(JobName)
  BY DEF PendingNode, WorkflowNodeState, ExecutionPhase
<1> QED
  BY <1>1 DEF ensureWorkflowNodeStates

LEMMA FailurePolicyType ==
    ASSUME NEW nodes \in [Node -> WorkflowNodeState(JobName)], NEW policy, NEW reverse, NEW failed
    PROVE  /\ applyFailurePolicy(policy, nodes, reverse, failed) \in [Node -> WorkflowNodeState(JobName)]
           /\ \A n \in Node :
                  LET new == applyFailurePolicy(policy, nodes, reverse, failed)[n] IN
                  \/ new = nodes[n]
                  \/ /\ nodes[n].phase = "Pending" /\ failed # {}
                     /\ new = [phase |-> "Skipped", job |-> nodes[n].job]
<1> DEFINE toSkip == CASE failed = {} \/ policy = "BestEffort" -> {}
                       [] failed # {} /\ policy = "ContinueIndependent" ->
                              descendantNodes(reverse, failed)
                       [] OTHER -> Node
<1>1. failed = {} => toSkip = {}
  OBVIOUS
<1> HIDE DEF toSkip
<1>2. applyFailurePolicy(policy, nodes, reverse, failed) =
          [n \in Node |-> IF n \in toSkip /\ nodes[n].phase = "Pending"
                          THEN [nodes[n] EXCEPT !.phase = "Skipped"] ELSE nodes[n]]
  BY DEF applyFailurePolicy, toSkip
<1>3. \A n \in Node : [nodes[n] EXCEPT !.phase = "Skipped"] = [phase |-> "Skipped", job |-> nodes[n].job]
  BY DEF WorkflowNodeState
<1>4. \A n \in Node : [phase |-> "Skipped", job |-> nodes[n].job] \in WorkflowNodeState(JobName)
  BY DEF WorkflowNodeState, ExecutionPhase
<1> QED
  BY <1>1, <1>2, <1>3, <1>4

LEMMA DerivedPhase ==
    ASSUME NEW nodes
    PROVE  deriveWorkflowPhase(nodes) \in {"Pending", "Running", "Succeeded", "Failed"}
BY DEF deriveWorkflowPhase

LEMMA MergeType ==
    ASSUME NEW p \in Progress, NEW q \in Progress
    PROVE  merge(p, q) \in Progress
BY DEF merge, Progress

LEMMA ParallelismType == \A s \in SpecId : requestedParallelism(Specs[s]) \in Nat
BY ConstantsAssumption DEF requestedParallelism, WorkflowSpec

\* What holds of a status keeps holding while Jobs are created, finish or go.
LEMMA JobsOnlyGrow ==
    ASSUME NEW js, NEW js2, NEW dn, NEW dn2, NEW observed \in Observed,
           \A k \in JobName : js[k] # "none" => js2[k] # "none",
           dn \subseteq dn2, AllOK(js, dn, observed)
    PROVE  AllOK(js2, dn2, observed)
BY DEF AllOK, StateOK, NodeOK, Observed, CertificateExecutionState, WorkflowNodeState

LEMMA ReplaceOne ==
    ASSUME NEW js, NEW dn, NEW observed \in Observed, AllOK(js, dn, observed),
           NEW c \in Cert, NEW state \in CertificateExecutionState, StateOK(js, dn, c, state)
    PROVE  /\ [observed EXCEPT ![c] = state] \in Observed
           /\ AllOK(js, dn, [observed EXCEPT ![c] = state])
BY DEF AllOK, Observed

LEMMA InitIInv == Init => IInv
<1> SUFFICES ASSUME Init PROVE IInv
  OBVIOUS
<1>1. NoStatus.observed \in Observed /\ NoConditions \in Conditions /\ 1 \in Version
  BY NotObservedType, NoConditionsType, ConstantsAssumption DEF NoStatus, Observed, Version
<1>2. api \in CertificateJob /\ cache = api /\ api.observed = NoStatus.observed
      /\ api.generation = 1 /\ api.uid = 1
  <2>1. api \in [exists : {TRUE}, uid : {1}, spec : SpecId, generation : {1}, observed : {NoStatus.observed},
                 conditions : {NoConditions}]
    BY DEF Init
  <2>2. api \in CertificateJob
    BY <2>1, <1>1 DEF CertificateJob
  <2> QED
    BY <2>1, <2>2 DEF Init
<1>3. cert \in [Cert -> Certificate] /\ secret \in [Cert -> Secret]
  BY <1>1 DEF Init, Certificate, Secret
<1>4. \A c \in Cert : cert[c].version = 1 /\ secret[c].version = 1
  BY DEF Init
<1>5. TypeOK
  <2>1. jobs \in [JobName -> JobState] /\ jobCache = jobs
    BY DEF Init, JobState
  <2>2. edits \in 0 .. MaxEdits /\ faults \in 0 .. MaxFaults
    BY ConstantsAssumption DEF Init
  <2>3. w \in Pass
    BY IdleType DEF Init
  <2> QED
    BY <1>2, <1>3, <2>1, <2>2, <2>3 DEF Init, TypeOK
<1>6. VersionsOK /\ JobsOK /\ RunOK
  BY <1>2, <1>4 DEF Init, VersionsOK, JobsOK, RunOK, Idle
<1>7. AllOK(jobs, done, NoStatus.observed)
  BY NotObservedOK DEF AllOK, NoStatus
<1>8. w.observed = NoStatus.observed
  BY DEF Init, Idle
<1> QED
  BY <1>2, <1>5, <1>6, <1>7, <1>8 DEF IInv, ObservedOK

-----------------------------------------------------------------------------
(* Steps of the worker.  All of them leave VersionsOK alone; only the creation
   of a Job touches the cluster. *)

\* A step that changes only the pass, the queue and the faults.
LEMMA PassStep ==
    ASSUME IInv, UNCHANGED <<cjob, cluster>>, w' \in Pass, AllOK(jobs, done, w'.observed), RunOK',
           queued' \in BOOLEAN, timer' \in BOOLEAN, missed' \in BOOLEAN, faults' \in 0 .. MaxFaults
    PROVE  IInv'
BY DEF IInv, cjob, cluster, TypeOK, VersionsOK, JobsOK, ObservedOK

LEMMA FaultType ==
    ASSUME TypeOK, Fault \/ NoFault \/ faults' = faults
    PROVE  faults' \in 0 .. MaxFaults
BY ConstantsAssumption DEF TypeOK, Fault, NoFault

LEMMA ReadObjectType ==
    ASSUME IInv
    PROVE  /\ ReadObject \in Pass /\ ReadObject.observed = cache.observed
           /\ \A r \in {"InvalidSpec", "ListFailed"} : blocked(r) \in Conditions
<1>1. cache \in CertificateJob /\ latest \in BOOLEAN
  BY DEF IInv, TypeOK
<1>2. Status(cache) \in [observed : Observed, conditions : Conditions]
  BY <1>1 DEF Status, CertificateJob
<1>3. cache.generation \in 0 .. (MaxEdits + 1)
  BY <1>1, ConstantsAssumption DEF CertificateJob, Version
<1> QED
  BY <1>1, <1>2, <1>3, IdleType DEF ReadObject, CertificateJob, Pass, blocked, Conditions

LEMMA BeginSteps ==
    ASSUME IInv, BeginPass
    PROVE  IInv'
<1>0. /\ UNCHANGED <<cjob, cluster>> /\ queued' \in BOOLEAN /\ timer' \in BOOLEAN
      /\ missed' \in BOOLEAN
      /\ faults' \in 0 .. MaxFaults
  BY FaultType DEF IInv, TypeOK, BeginPass, ReconcileNotFound, ReconcileInvalidSpec,
     ReconcileListFailed, ReconcileBegin, Dequeue, FailsIf
<1>1. AllOK(jobs, done, cache.observed)
  BY DEF IInv, ObservedOK
<1>2. CASE ReconcileInvalidSpec
  <2>1. w' \in Pass /\ w'.observed = cache.observed /\ w'.pc = "update"
    BY <1>2, ReadObjectType DEF ReconcileInvalidSpec, Pass
  <2> QED
    BY <2>1, <1>0, <1>1, PassStep DEF RunOK
<1>3. CASE ReconcileListFailed
  <2>1. w' \in Pass /\ w'.observed = cache.observed /\ w'.pc = "update"
    BY <1>3, ReadObjectType DEF ReconcileListFailed, Pass
  <2> QED
    BY <2>1, <1>0, <1>1, PassStep DEF RunOK
<1>4. CASE ReconcileBegin
  <2> DEFINE matching == {c \in Cert : selectorMatches(cache.spec, cert[c].label)}
             version == [c \in Cert |-> IF c \in matching /\ cert[c].hasSecretName
                                        THEN cert[c].version ELSE 0]
  <2>1. matching \in SUBSET Cert /\ version \in [Cert -> Version \cup {0}]
    BY DEF IInv, TypeOK, Certificate
  <2>2. w' = [ReadObject EXCEPT !.pc = "certificates", !.matched = matching,
                                !.todo = matching, !.version = version]
    BY <1>4 DEF ReconcileBegin
  <2> HIDE DEF matching, version
  <2>3. w' \in Pass /\ w'.observed = cache.observed /\ w'.pc = "certificates"
    BY <2>1, <2>2, ReadObjectType DEF Pass
  <2> QED
    BY <2>3, <1>0, <1>1, PassStep DEF RunOK
<1>5. CASE ReconcileNotFound
  <2>1. w' = w
    BY <1>5 DEF ReconcileNotFound
  <2>2. w' \in Pass /\ AllOK(jobs, done, w'.observed) /\ RunOK'
    BY <2>1 DEF IInv, TypeOK, ObservedOK, RunOK, Current
  <2> QED
    BY <2>2, <1>0, PassStep
<1> QED
  BY <1>2, <1>3, <1>4, <1>5 DEF BeginPass

LEMMA CurrentUnique ==
    ASSUME IInv, NEW c \in Cert, NEW d \in Cert, Current(c), Current(d)
    PROVE  c = d
BY ConstantsAssumption DEF Current

\* The certificate leaves the pass with a state that is well formed.
LEMMA DoneStep ==
    ASSUME IInv, NEW c \in Cert, NEW state \in CertificateExecutionState,
           StateOK(jobs, done, c, state), NEW p \in Progress, NEW restamped \in BOOLEAN,
           CertificateDone(c, state, p, restamped)
    PROVE  w' \in Pass /\ AllOK(jobs, done, w'.observed) /\ RunOK'
<1>1. w \in Pass /\ AllOK(jobs, done, w.observed)
  BY DEF IInv, TypeOK, ObservedOK
<1>2. w.observed \in Observed /\ w.progress \in Progress /\ w.restamped \in BOOLEAN
  BY <1>1 DEF Pass
<1> DEFINE progress == merge(w.progress, p)
           stamp == w.restamped \/ restamped
           observed == [w.observed EXCEPT ![c] = state]
           todo == w.todo \ {c}
<1>3. progress \in Progress /\ stamp \in BOOLEAN /\ todo \in SUBSET Cert
  BY <1>1, <1>2, MergeType DEF Pass
<1>4. observed \in Observed /\ AllOK(jobs, done, observed)
  BY <1>1, <1>2, ReplaceOne
<1>5. w' = [w EXCEPT !.pc = "certificates", !.observed = observed, !.todo = todo,
                     !.progress = progress, !.restamped = stamp, !.run = NoRun]
  BY <1>1 DEF CertificateDone, Pass
<1> HIDE DEF progress, stamp, observed, todo
<1>6. w' \in Pass /\ w'.observed = observed /\ w'.pc = "certificates"
  BY <1>1, <1>3, <1>4, <1>5, NoRunType DEF Pass
<1> QED
  BY <1>4, <1>6 DEF RunOK

LEMMA EnsuredState ==
    ASSUME IInv, NEW c \in Cert
    PROVE  /\ ensureObservedCertificateState(c) \in CertificateExecutionState
           /\ StateOK(jobs, done, c, ensureObservedCertificateState(c))
<1>1. w.observed[c] \in CertificateExecutionState /\ StateOK(jobs, done, c, w.observed[c])
  BY DEF IInv, TypeOK, Pass, Observed, ObservedOK, AllOK
<1>2. [w.observed[c] EXCEPT !.phase = "Pending"] \in CertificateExecutionState
  BY <1>1 DEF CertificateExecutionState, ExecutionPhase
<1>3. StateOK(jobs, done, c, [w.observed[c] EXCEPT !.phase = "Pending"])
  BY <1>1 DEF StateOK, CertificateExecutionState
<1> QED
  BY <1>1, <1>2, <1>3 DEF ensureObservedCertificateState

\* Only the phase of a state changes: its nodes are as well formed as before.
LEMMA NewPhase ==
    ASSUME NEW c \in Cert, NEW state \in CertificateExecutionState, StateOK(jobs, done, c, state),
           NEW phase \in ExecutionPhase
    PROVE  /\ [state EXCEPT !.phase = phase] \in CertificateExecutionState
           /\ StateOK(jobs, done, c, [state EXCEPT !.phase = phase])
BY DEF StateOK, CertificateExecutionState

LEMMA TransitionState ==
    ASSUME IInv, NEW c \in Cert, w.version[c] # 0
    PROVE  /\ buildInputHash(c) \in Hash
           /\ CertificateState(c) \in CertificateExecutionState
           /\ StateOK(jobs, done, c, CertificateState(c))
           /\ CertificateState(c).hash # NoHash
<1>1. w \in Pass /\ secret[c] \in Secret
  BY DEF IInv, TypeOK
<1>2. buildInputHash(c) \in Hash
  BY <1>1 DEF buildInputHash, Hash, Pass, Secret
<1> DEFINE old == ensureObservedCertificateState(c)
           fresh == [hash |-> buildInputHash(c), phase |-> "Pending",
                     nodes |-> initializeNodeStates(Specs[w.spec])]
<1>3. w.spec \in SpecId
  BY <1>1 DEF Pass
<1>4. fresh \in CertificateExecutionState
  BY <1>2, <1>3, InitializeType DEF CertificateExecutionState, ExecutionPhase
<1>5. StateOK(jobs, done, c, fresh)
  BY <1>3, InitializeType DEF StateOK, NodeOK
<1>6. old \in CertificateExecutionState /\ StateOK(jobs, done, c, old)
  BY EnsuredState
<1>7. \/ CertificateState(c) = fresh
      \/ CertificateState(c) = old /\ old.hash # NoHash
  BY DEF CertificateState, applyInputHashTransition
<1>8. fresh.hash # NoHash
  BY <1>2, HashAssumption
<1> QED
  BY <1>2, <1>4, <1>5, <1>6, <1>7, <1>8

\* The state of the certificate, the phase of the pass and the locals of the run
\* become these, and nothing else of the pass changes.
Becomes(c, state, pc, restamped, run) ==
    w' = [w EXCEPT !.pc = pc, !.observed = [w.observed EXCEPT ![c] = state],
                   !.restamped = restamped, !.run = run]

\* Only the nodes of the state do.
NodesBecome(c, nodes, pc, restamped, run) ==
    Becomes(c, [w.observed[c] EXCEPT !.nodes = nodes], pc, restamped, run)

\* Nodes stay as they are or, when the spec has them and the state has not, become pending.
AddsPending(specJobs, old, nodes) ==
    \A n \in Node : \/ nodes[n] = old[n]
                    \/ old[n].phase = "Absent" /\ n \in specJobs /\ nodes[n] = PendingNode

\* A run begins or goes on: the nodes that the spec has and the state has not are
\* added, and the nodes that have a Job are to be observed.
LEMMA CertificateRunEffect ==
    ASSUME IInv, NEW c \in Cert, CertificateRun(c)
    PROVE  /\ Current(c) /\ w.pc = "certificates" /\ w.version[c] # 0
           /\ ~ isTerminalPhase(CertificateState(c).phase)
           /\ \E new \in CertificateExecutionState, run \in RunLocals, stamp \in BOOLEAN :
                 /\ Becomes(c, new, "observe", stamp, run)
                 /\ run.unseen = {n \in Node : new.nodes[n].job # NoJob} /\ run.failedNodes = {}
                 /\ new.hash = CertificateState(c).hash /\ new.phase = CertificateState(c).phase
                 /\ AddsPending(Specs[w.spec].jobs, CertificateState(c).nodes, new.nodes)
                 /\ \A n \in Specs[w.spec].jobs : n \in Node => new.nodes[n].phase # "Absent"
<1> DEFINE state == CertificateState(c)
           nodes == ensureWorkflowNodeStates(Specs[w.spec], state.nodes)
           new == [state EXCEPT !.nodes = nodes]
           unseen == {n \in Node : nodes[n].job # NoJob}
           stamp == w.restamped \/ state.hash # buildInputHash(c)
           run == [NoRun EXCEPT !.unseen = unseen, !.slots = requestedParallelism(Specs[w.spec])]
<1>1. /\ state \in CertificateExecutionState /\ Current(c) /\ w.pc = "certificates"
      /\ w.version[c] # 0 /\ ~ isTerminalPhase(state.phase)
  BY TransitionState DEF CertificateRun, AtReadableCertificate, AtCertificate
<1>2. w \in Pass /\ w.spec \in SpecId /\ w.observed \in Observed
  BY DEF IInv, TypeOK, Pass
<1>3. /\ nodes \in [Node -> WorkflowNodeState(JobName)]
      /\ AddsPending(Specs[w.spec].jobs, state.nodes, nodes)
  BY <1>1, <1>2, EnsureType DEF CertificateExecutionState, AddsPending
<1>4. \A n \in Specs[w.spec].jobs : n \in Node => nodes[n].phase # "Absent"
  BY DEF ensureWorkflowNodeStates, PendingNode
<1>5. Becomes(c, new, "observe", stamp, run)
  BY <1>2 DEF CertificateRun, Pass, Becomes
<1>6. stamp \in BOOLEAN /\ unseen \in SUBSET Node
      /\ requestedParallelism(Specs[w.spec]) \in Int
  BY <1>2, ParallelismType DEF Pass
<1>7. run \in RunLocals /\ run.unseen = unseen /\ run.failedNodes = {}
  BY <1>6, StartRunLocals DEF NoRun
<1> HIDE DEF stamp, run, nodes
<1>8. /\ new \in CertificateExecutionState /\ new.nodes = nodes
      /\ new.hash = state.hash /\ new.phase = state.phase
  BY <1>1, <1>3 DEF CertificateExecutionState
<1> HIDE DEF new, state
<1>9. run.unseen = {n \in Node : new.nodes[n].job # NoJob}
  BY <1>7, <1>8
<1> QED
  BY <1>1, <1>3, <1>4, <1>5, <1>6, <1>7, <1>8, <1>9 DEF state

LEMMA CertificateSteps ==
    ASSUME IInv, NEW c \in Cert, HandleCertificate(c)
    PROVE  IInv'
<1>0. /\ UNCHANGED <<cjob, cluster>> /\ queued' \in BOOLEAN /\ timer' \in BOOLEAN /\ missed' \in BOOLEAN
      /\ faults' \in 0 .. MaxFaults
  BY FaultType DEF IInv, TypeOK, HandleCertificate, CertificateWithoutSecretName,
     CertificateSecretUnreadable, CertificateFinished, CertificateRun, AtReadableCertificate,
     AtCertificate, FailsIf, queue
<1> DEFINE old == ensureObservedCertificateState(c)
<1>1. old \in CertificateExecutionState /\ StateOK(jobs, done, c, old)
  BY EnsuredState
<1>2. \A b \in BOOLEAN : FailedProgress(b) \in Progress
  BY DEF FailedProgress, NoProgress, Progress
<1>3. Waiting \in Progress /\ NoProgress \in Progress
  BY DEF Waiting, NoProgress, Progress
<1>4. CASE CertificateWithoutSecretName(c)
  <2>1. CertificateDone(c, [old EXCEPT !.phase = "Failed"], FailedProgress(TRUE), TRUE)
    BY <1>4 DEF CertificateWithoutSecretName
  <2>2. "Failed" \in ExecutionPhase
    BY DEF ExecutionPhase
  <2> QED
    BY <2>1, <2>2, <1>0, <1>1, <1>2, NewPhase, DoneStep, PassStep
<1>5. CASE CertificateSecretUnreadable(c)
  <2>1. \/ CertificateDone(c, old, NoProgress, FALSE)
        \/ CertificateDone(c, [old EXCEPT !.phase = "Pending"], Waiting, TRUE)
    BY <1>5 DEF CertificateSecretUnreadable
  <2>2. "Pending" \in ExecutionPhase
    BY DEF ExecutionPhase
  <2> QED
    BY <2>1, <2>2, <1>0, <1>1, <1>3, NewPhase, DoneStep, PassStep
<1>6. CASE CertificateFinished(c)
  <2>1. CertificateDone(c, CertificateState(c), FailedProgress(CertificateState(c).phase = "Failed"), FALSE)
        /\ w.version[c] # 0
    BY <1>6 DEF CertificateFinished, AtReadableCertificate
  <2> QED
    BY <2>1, <1>0, <1>2, TransitionState, DoneStep, PassStep
<1>7. CASE CertificateRun(c)
  <2>1. PICK new \in CertificateExecutionState, run \in RunLocals, stamp \in BOOLEAN :
            /\ Becomes(c, new, "observe", stamp, run)
            /\ run.unseen = {n \in Node : new.nodes[n].job # NoJob}
            /\ new.hash = CertificateState(c).hash
            /\ AddsPending(Specs[w.spec].jobs, CertificateState(c).nodes, new.nodes)
    BY <1>7, CertificateRunEffect
  <2>2. /\ Current(c) /\ new.hash # NoHash
        /\ StateOK(jobs, done, c, CertificateState(c))
    BY <1>7, <2>1, CertificateRunEffect, TransitionState
  <2>3. StateOK(jobs, done, c, new)
    BY <2>1, <2>2 DEF AddsPending, StateOK, NodeOK, PendingNode
  <2>4. w \in Pass /\ w.observed \in Observed
    BY DEF IInv, TypeOK, Pass
  <2>5. [w.observed EXCEPT ![c] = new] \in Observed
        /\ AllOK(jobs, done, [w.observed EXCEPT ![c] = new])
    BY <2>3, <2>4, ReplaceOne DEF IInv, ObservedOK
  <2>6. /\ w' \in Pass /\ w'.observed = [w.observed EXCEPT ![c] = new] /\ w'.todo = w.todo
        /\ w'.run = run
    BY <2>1, <2>4, <2>5 DEF Pass, Becomes
  <2>7. \A d \in Cert : Current(d)' => d = c
    BY <2>2, <2>6, CurrentUnique DEF Current
  <2>8. w'.observed[c] = new
    BY <2>4, <2>6 DEF Observed
  <2>9. RunOK'
    BY <2>1, <2>2, <2>6, <2>7, <2>8 DEF RunOK
  <2> QED
    BY <2>5, <2>6, <2>9, <1>0, PassStep
<1> QED
  BY <1>4, <1>5, <1>6, <1>7 DEF HandleCertificate

-----------------------------------------------------------------------------
(* Steps of reconcileCertificateRun *)

\* What every step of a run may use.
LEMMA InRun ==
    ASSUME IInv, NEW c \in Cert
    PROVE  /\ w \in Pass /\ w.observed \in Observed /\ w.run \in RunLocals /\ w.spec \in SpecId
           /\ w.observed[c] \in CertificateExecutionState
           /\ StateOK(jobs, done, c, w.observed[c])
           /\ AllOK(jobs, done, w.observed)
           /\ \A n \in Node : w.observed[c].nodes[n] \in WorkflowNodeState(JobName)
<1>1. w \in Pass /\ AllOK(jobs, done, w.observed)
  BY DEF IInv, TypeOK, ObservedOK
<1>2. w.observed \in Observed /\ w.run \in RunLocals /\ w.spec \in SpecId
  BY <1>1 DEF Pass
<1>3. w.observed[c] \in CertificateExecutionState /\ StateOK(jobs, done, c, w.observed[c])
  BY <1>1, <1>2 DEF Observed, AllOK
<1>4. \A n \in Node : w.observed[c].nodes[n] \in WorkflowNodeState(JobName)
  BY <1>3 DEF CertificateExecutionState
<1> QED
  BY <1>1, <1>2, <1>3, <1>4

LEMMA RunErrorStep ==
    ASSUME IInv, NEW c \in Cert, RunError(c)
    PROVE  w' \in Pass /\ AllOK(jobs, done, w'.observed) /\ RunOK'
<1>1. CertificateDone(c, [w.observed[c] EXCEPT !.phase = "Pending"], Waiting, TRUE)
  BY DEF RunError
<1>2. "Pending" \in ExecutionPhase /\ Waiting \in Progress
  BY DEF ExecutionPhase, Waiting, Progress
<1> QED
  BY <1>1, <1>2, InRun, NewPhase, DoneStep

\* The nodes of the current certificate and the locals of its run change.
LEMMA NodesStep ==
    ASSUME IInv, NEW c \in Cert, Current(c),
           NEW nodes \in [Node -> WorkflowNodeState(JobName)],
           NEW js, \A k \in JobName : jobs[k] # "none" => js[k] # "none",
           \A n \in Node : NodeOK(js, done, c, w.observed[c].hash, n, nodes[n]),
           NEW run \in RunLocals, \A n \in run.unseen : nodes[n].job # NoJob,
           NEW pc \in {"observe", "schedule"}, NEW restamped \in BOOLEAN,
           w.observed[c].hash # NoHash,
           NodesBecome(c, nodes, pc, restamped, run)
    PROVE  w' \in Pass /\ AllOK(js, done, w'.observed) /\ RunOK'
<1> DEFINE new == [w.observed[c] EXCEPT !.nodes = nodes]
           observed == [w.observed EXCEPT ![c] = new]
<1>1. /\ new \in CertificateExecutionState /\ new.nodes = nodes
      /\ new.hash = w.observed[c].hash
  BY InRun DEF CertificateExecutionState
<1>2. StateOK(js, done, c, new)
  BY <1>1 DEF StateOK
<1>3. AllOK(js, done, w.observed)
  BY InRun, JobsOnlyGrow
<1> HIDE DEF new
<1>4. observed \in Observed /\ AllOK(js, done, observed) /\ observed[c] = new
  BY <1>1, <1>2, <1>3, InRun, ReplaceOne DEF Observed
<1> HIDE DEF observed
<1>5. w' = [w EXCEPT !.pc = pc, !.observed = observed, !.restamped = restamped, !.run = run]
  BY DEF observed, new, NodesBecome, Becomes
<1>6. w' \in Pass /\ w'.observed = observed /\ w'.run = run /\ w'.todo = w.todo /\ w'.pc = pc
  BY <1>4, <1>5, InRun DEF Pass
<1>7. \A d \in Cert : Current(d)' => d = c
  BY <1>6, CurrentUnique DEF Current
<1>8. RunOK'
  BY <1>1, <1>4, <1>6, <1>7 DEF RunOK
<1> QED
  BY <1>4, <1>6, <1>8

\* Only the phase of node n changes.
PhaseChanges(n, old, nodes) ==
    \A m \in Node : nodes[m].job = old[m].job /\ (m # n => nodes[m] = old[m])

\* The node gets the phase of its Job and keeps the Job; no other node changes.
LEMMA ObserveNodeEffect ==
    ASSUME IInv, NEW c \in Cert, NEW n \in Node, ObserveNode(c, n)
    PROVE  /\ Current(c) /\ n \in w.run.unseen /\ w.pc = "observe"
           /\ UNCHANGED <<cjob, cluster, queue, faults>>
           /\ \E nodes \in [Node -> WorkflowNodeState(JobName)], run \in RunLocals, stamp \in BOOLEAN :
                 /\ NodesBecome(c, nodes, "observe", stamp, run)
                 /\ run.unseen = w.run.unseen \ {n}
                 /\ nodes[n].phase \in {"Running", "Succeeded", "Failed"}
                 /\ \A m \in Node : NodeOK(jobs, done, c, w.observed[c].hash, m, nodes[m])
                 /\ PhaseChanges(n, w.observed[c].nodes, nodes)
<1> DEFINE node  == w.observed[c].nodes[n]
           state == jobCache[node.job]
           phase == observedPhase(node.phase, state)
           counted == state = "active" \/ (state = "idle" /\ node.phase = "Pending")
           failed  == state = "failed" \/ Missing(state)
           nodes == [w.observed[c].nodes EXCEPT ![n] = [node EXCEPT !.phase = phase]]
           slots == IF counted THEN w.run.slots - 1 ELSE w.run.slots
           failedNodes == IF failed THEN w.run.failedNodes \cup {n} ELSE w.run.failedNodes
           run == [w.run EXCEPT !.unseen = w.run.unseen \ {n}, !.slots = slots,
                                !.failedNodes = failedNodes]
           restamped == w.restamped \/ isTerminalPhase(phase)
<1>0. /\ Current(c) /\ n \in w.run.unseen /\ w.pc = "observe"
      /\ UNCHANGED <<cjob, cluster, queue, faults>>
  BY DEF ObserveNode
<1>1. /\ w.observed[c].hash # NoHash /\ node.job # NoJob
      /\ \A m \in w.run.unseen : w.observed[c].nodes[m].job # NoJob
  BY <1>0 DEF IInv, RunOK
<1>2. node \in WorkflowNodeState(JobName) /\ node.job \in JobName /\ state \in JobState
  BY <1>1, InRun DEF WorkflowNodeState, IInv, TypeOK
<1>3. NodeOK(jobs, done, c, w.observed[c].hash, n, node)
  BY InRun DEF StateOK
<1>4. node.phase \in {"Running", "Succeeded", "Failed"}
  BY <1>1, <1>3 DEF NodeOK
<1>5. phase \in {"Running", "Succeeded", "Failed"} /\ (phase = "Succeeded" => node.job \in done)
  BY <1>2, <1>3, <1>4 DEF observedPhase, JobState, Missing, NodeOK, IInv, JobsOK
<1> HIDE DEF phase
<1>6. [node EXCEPT !.phase = phase] = [phase |-> phase, job |-> node.job]
  BY <1>2 DEF WorkflowNodeState
<1>7. NodeOK(jobs, done, c, w.observed[c].hash, n, [phase |-> phase, job |-> node.job])
  BY <1>1, <1>3, <1>5 DEF NodeOK
<1>8. [phase |-> phase, job |-> node.job] \in WorkflowNodeState(JobName)
  BY <1>2, <1>5 DEF WorkflowNodeState, ExecutionPhase
<1>9. w.observed[c].nodes \in [Node -> WorkflowNodeState(JobName)]
  BY InRun DEF CertificateExecutionState
<1>10. nodes \in [Node -> WorkflowNodeState(JobName)]
  BY <1>6, <1>8, <1>9
<1>11. \A m \in Node : NodeOK(jobs, done, c, w.observed[c].hash, m, nodes[m])
  BY <1>6, <1>7, <1>9, InRun DEF StateOK
<1>12. run \in RunLocals /\ run.unseen = w.run.unseen \ {n}
  <2>1. w.run \in RunLocals
    BY InRun
  <2>2. w.run.slots \in Int /\ w.run.failedNodes \in SUBSET Node /\ w.run.unseen \in SUBSET Node
    BY <2>1 DEF RunLocals
  <2> HIDE DEF counted, failed
  <2>3. slots \in Int /\ failedNodes \in SUBSET Node /\ w.run.unseen \ {n} \in SUBSET Node
    BY <2>2
  <2> HIDE DEF slots, failedNodes
  <2> QED
    BY <2>1, <2>3 DEF RunLocals
<1>13. nodes[n].phase = phase /\ PhaseChanges(n, w.observed[c].nodes, nodes)
  BY <1>6, <1>9 DEF PhaseChanges
<1>14. restamped \in BOOLEAN
  BY InRun DEF Pass, isTerminalPhase
<1>15. NodesBecome(c, nodes, "observe", restamped, run)
  <2>1. w \in Pass
    BY InRun
  <2>2. w' = [w EXCEPT !.observed = [w.observed EXCEPT ![c] = [w.observed[c] EXCEPT !.nodes = nodes]],
                       !.restamped = restamped, !.run = run]
    <3>1. run = [w.run EXCEPT !.unseen = @ \ {n},
                              !.slots = IF counted THEN @ - 1 ELSE @,
                              !.failedNodes = IF failed THEN @ \cup {n} ELSE @]
      BY <2>1 DEF Pass, RunLocals
    <3>2. w' = [w EXCEPT !.observed[c].nodes[n].phase = phase,
                         !.restamped = @ \/ isTerminalPhase(phase), !.run = run]
      BY <3>1 DEF ObserveNode, phase
    <3> HIDE DEF run
    <3> QED
      BY <2>1, <3>2 DEF Pass
  <2> HIDE DEF run, nodes, restamped
  <2> QED
    BY <1>0, <2>1, <2>2 DEF Pass, NodesBecome, Becomes
<1> HIDE DEF run, nodes, restamped
<1> QED
  BY <1>0, <1>5, <1>10, <1>11, <1>12, <1>13, <1>14, <1>15

LEMMA ObserveNodeStep ==
    ASSUME IInv, NEW c \in Cert, NEW n \in Node, ObserveNode(c, n)
    PROVE  IInv'
<1>1. /\ Current(c) /\ w.pc = "observe" /\ UNCHANGED <<cjob, cluster, queue, faults>>
  BY ObserveNodeEffect
<1>2. PICK nodes \in [Node -> WorkflowNodeState(JobName)], run \in RunLocals, stamp \in BOOLEAN :
          /\ NodesBecome(c, nodes, "observe", stamp, run)
          /\ run.unseen = w.run.unseen \ {n}
          /\ \A m \in Node : NodeOK(jobs, done, c, w.observed[c].hash, m, nodes[m])
          /\ PhaseChanges(n, w.observed[c].nodes, nodes)
  BY ObserveNodeEffect
<1>3. w.observed[c].hash # NoHash /\ \A m \in run.unseen : nodes[m].job # NoJob
  <2> DEFINE old == w.observed[c].nodes
  <2>1. /\ w.observed[c].hash # NoHash /\ w.run.unseen \subseteq Node
        /\ \A m \in w.run.unseen : old[m].job # NoJob
    BY <1>1, InRun DEF IInv, RunOK, RunLocals
  <2>2. run.unseen \subseteq w.run.unseen /\ \A m \in Node : nodes[m].job = old[m].job
    BY <1>2 DEF PhaseChanges
  <2> HIDE DEF old
  <2> QED
    BY <2>1, <2>2
<1>4. /\ NodesBecome(c, nodes, "observe", stamp, run)
      /\ \A m \in Node : NodeOK(jobs, done, c, w.observed[c].hash, m, nodes[m])
  BY <1>2
<1>5. w' \in Pass /\ AllOK(jobs, done, w'.observed) /\ RunOK'
  BY <1>1, <1>3, <1>4, NodesStep
<1>6. queued' \in BOOLEAN /\ timer' \in BOOLEAN /\ missed' \in BOOLEAN
      /\ faults' \in 0 .. MaxFaults
  BY <1>1 DEF queue, IInv, TypeOK
<1> QED
  BY <1>1, <1>5, <1>6, PassStep

\* Nodes stay as they are or, when there are failed nodes, go from pending to skipped.
SkipsPending(old, nodes, failedNodes) ==
    \A n \in Node : \/ nodes[n] = old[n]
                    \/ /\ old[n].phase = "Pending" /\ failedNodes # {}
                       /\ nodes[n] = [phase |-> "Skipped", job |-> old[n].job]

\* The failure policy skips pending nodes, and only after a failure; a node that
\* may run is pending and its dependencies are over.
LEMMA PlanScheduleEffect ==
    ASSUME IInv, NEW c \in Cert, PlanSchedule(c)
    PROVE  /\ Current(c) /\ w.run.unseen = {} /\ w.pc = "observe"
           /\ UNCHANGED <<cjob, cluster, queue, faults>>
           /\ \E nodes \in [Node -> WorkflowNodeState(JobName)], run \in RunLocals, stamp \in BOOLEAN :
                 /\ NodesBecome(c, nodes, "schedule", stamp, run)
                 /\ run.unseen = {} /\ run.failedNodes = w.run.failedNodes
                 /\ nodes = applyFailurePolicy(Specs[w.spec].failurePolicy, w.observed[c].nodes,
                                               reverseDeps(Specs[w.spec]), w.run.failedNodes)
                 /\ SkipsPending(w.observed[c].nodes, nodes, w.run.failedNodes)
                 /\ run.runnable \subseteq
                        runnableNodes(Specs[w.spec].failurePolicy, nodes, deps(Specs[w.spec]))
<1> DEFINE spec  == Specs[w.spec]
           old   == w.observed[c].nodes
           nodes == applyFailurePolicy(spec.failurePolicy, old, reverseDeps(spec), w.run.failedNodes)
           runnable == IF w.run.slots > 0
                       THEN runnableNodes(spec.failurePolicy, nodes, deps(spec)) ELSE {}
           run == [w.run EXCEPT !.runnable = runnable]
<1>0. /\ Current(c) /\ w.run.unseen = {} /\ w.pc = "observe"
      /\ UNCHANGED <<cjob, cluster, queue, faults>>
  BY DEF PlanSchedule
<1>2. old \in [Node -> WorkflowNodeState(JobName)]
  BY InRun DEF CertificateExecutionState
<1>3. nodes \in [Node -> WorkflowNodeState(JobName)] /\ SkipsPending(old, nodes, w.run.failedNodes)
  <2>1. old \in [Node -> WorkflowNodeState(JobName)]
    BY <1>2
  <2> HIDE DEF old
  <2> QED
    BY <2>1, FailurePolicyType DEF SkipsPending
<1>4. /\ runnable \in SUBSET Node
      /\ runnable \subseteq runnableNodes(spec.failurePolicy, nodes, deps(spec))
  BY DEF runnableNodes, NodesIn
<1>5. w' = [w EXCEPT !.pc = "schedule", !.observed[c].nodes = nodes, !.run.runnable = runnable]
  BY DEF PlanSchedule
<1>6. nodes = applyFailurePolicy(Specs[w.spec].failurePolicy, w.observed[c].nodes,
                                 reverseDeps(Specs[w.spec]), w.run.failedNodes)
  OBVIOUS
<1> HIDE DEF nodes, runnable
<1>7. run \in RunLocals /\ run.unseen = {} /\ run.failedNodes = w.run.failedNodes
      /\ run.runnable = runnable
  BY <1>0, <1>4, InRun DEF RunLocals
<1>8. NodesBecome(c, nodes, "schedule", w.restamped, run)
  BY <1>5, InRun DEF Pass, NodesBecome, Becomes
<1>9. w.restamped \in BOOLEAN
  BY InRun DEF Pass
<1> HIDE DEF run
<1> QED
  BY <1>0, <1>3, <1>4, <1>6, <1>7, <1>8, <1>9

LEMMA PlanScheduleStep ==
    ASSUME IInv, NEW c \in Cert, PlanSchedule(c)
    PROVE  IInv'
<1>1. /\ Current(c) /\ w.pc = "observe" /\ UNCHANGED <<cjob, cluster, queue, faults>>
  BY PlanScheduleEffect
<1>2. PICK nodes \in [Node -> WorkflowNodeState(JobName)], run \in RunLocals, stamp \in BOOLEAN :
          /\ NodesBecome(c, nodes, "schedule", stamp, run)
          /\ run.unseen = {}
          /\ SkipsPending(w.observed[c].nodes, nodes, w.run.failedNodes)
  BY PlanScheduleEffect
<1>3. w.observed[c].hash # NoHash
  BY <1>1 DEF IInv, RunOK
<1>4. \A n \in Node : NodeOK(jobs, done, c, w.observed[c].hash, n, nodes[n])
  <2> DEFINE old == w.observed[c].nodes
             hash == w.observed[c].hash
  <2>1. \A n \in Node : NodeOK(jobs, done, c, hash, n, old[n])
    BY <1>1, InRun DEF StateOK
  <2>2. SkipsPending(old, nodes, w.run.failedNodes)
    BY <1>2
  <2> HIDE DEF old, hash
  <2>3. ASSUME NEW n \in Node PROVE NodeOK(jobs, done, c, hash, n, nodes[n])
    <3>1. CASE nodes[n] = old[n]
      BY <2>1, <3>1
    <3>2. CASE old[n].phase = "Pending" /\ nodes[n] = [phase |-> "Skipped", job |-> old[n].job]
      <4>1. NodeOK(jobs, done, c, hash, n, old[n])
        BY <2>1
      <4> QED
        BY <3>2, <4>1 DEF NodeOK
    <3> QED
      BY <2>2, <3>1, <3>2 DEF SkipsPending
  <2> QED
    BY <2>3 DEF hash
<1>5. NodesBecome(c, nodes, "schedule", stamp, run) /\ \A n \in run.unseen : nodes[n].job # NoJob
  BY <1>2
<1>6. w' \in Pass /\ AllOK(jobs, done, w'.observed) /\ RunOK'
  BY <1>1, <1>3, <1>4, <1>5, NodesStep
<1>7. queued' \in BOOLEAN /\ timer' \in BOOLEAN /\ missed' \in BOOLEAN
      /\ faults' \in 0 .. MaxFaults
  BY <1>1 DEF queue, IInv, TypeOK
<1> QED
  BY <1>1, <1>6, <1>7, PassStep

\* The name of the Job of a runnable node is a name.
LEMMA JobOfType ==
    ASSUME IInv, NEW c \in Cert, NEW n \in Node, Scheduling(c, n)
    PROVE  jobOf(c, n) \in JobName /\ w.observed[c].hash # NoHash /\ Current(c) /\ w.pc = "schedule"
<1>1. w.observed[c].hash # NoHash /\ Current(c) /\ w.pc = "schedule"
  BY DEF Scheduling, IInv, RunOK
<1>2. w.observed[c].hash \in Hash
  BY <1>1, InRun DEF CertificateExecutionState
<1> QED
  BY <1>1, <1>2 DEF jobOf, buildJobName, JobName

\* Node n runs and its Job is this.
Starts(n, job, old, nodes) == nodes = [old EXCEPT ![n] = [phase |-> "Running", job |-> job]]

\* A node is started with the Job of its run, which is not one already.
LEMMA NodeScheduledEffect ==
    ASSUME IInv, NEW c \in Cert, NEW n \in Node, Scheduling(c, n), NodeScheduled(c, n)
    PROVE  \E nodes \in [Node -> WorkflowNodeState(JobName)], run \in RunLocals :
               /\ NodesBecome(c, nodes, "schedule", w.restamped, run)
               /\ run.unseen = w.run.unseen /\ run.failedNodes = w.run.failedNodes
               /\ run.runnable = w.run.runnable \ {n}
               /\ Starts(n, jobOf(c, n), w.observed[c].nodes, nodes)
<1> DEFINE node == [phase |-> "Running", job |-> jobOf(c, n)]
           nodes == [w.observed[c].nodes EXCEPT ![n] = node]
           run == [w.run EXCEPT !.runnable = w.run.runnable \ {n}, !.slots = w.run.slots - 1]
<1>1. jobOf(c, n) \in JobName /\ w.pc = "schedule"
  BY JobOfType
<1>2. w.observed[c].nodes \in [Node -> WorkflowNodeState(JobName)]
  BY InRun DEF CertificateExecutionState
<1>3. node \in WorkflowNodeState(JobName)
  BY <1>1 DEF WorkflowNodeState, ExecutionPhase
<1>4. w.run \in RunLocals /\ w.run.runnable \ {n} \in SUBSET Node /\ w.run.slots - 1 \in Int
  BY InRun DEF RunLocals
<1>5. /\ run \in RunLocals /\ run.unseen = w.run.unseen /\ run.failedNodes = w.run.failedNodes
      /\ run.runnable = w.run.runnable \ {n}
  BY <1>4 DEF RunLocals
<1>6. w' = [w EXCEPT !.observed[c].nodes[n] = node, !.run = run]
  <2>1. run = [w.run EXCEPT !.runnable = @ \ {n}, !.slots = @ - 1]
    BY <1>4 DEF RunLocals
  <2> QED
    BY <2>1 DEF NodeScheduled
<1> HIDE DEF node, run
<1>7. nodes \in [Node -> WorkflowNodeState(JobName)]
  BY <1>2, <1>3
<1>8. NodesBecome(c, nodes, "schedule", w.restamped, run)
  BY <1>1, <1>6, InRun DEF Pass, NodesBecome, Becomes
<1>9. Starts(n, jobOf(c, n), w.observed[c].nodes, nodes)
  BY DEF Starts, node
<1> HIDE DEF nodes
<1> QED
  BY <1>5, <1>7, <1>8, <1>9

\* Its Job exists in js, which holds every Job of jobs.
LEMMA NodeScheduledStep ==
    ASSUME IInv, NEW c \in Cert, NEW n \in Node, Scheduling(c, n), NodeScheduled(c, n),
           NEW js, \A k \in JobName : jobs[k] # "none" => js[k] # "none", js[jobOf(c, n)] # "none"
    PROVE  w' \in Pass /\ AllOK(js, done, w'.observed) /\ RunOK'
<1> DEFINE node == [phase |-> "Running", job |-> jobOf(c, n)]
<1>1. /\ jobOf(c, n) \in JobName /\ w.observed[c].hash # NoHash /\ Current(c) /\ w.pc = "schedule"
      /\ jobOf(c, n) # NoJob
  BY JobOfType, JobAssumption
<1>2. PICK nodes \in [Node -> WorkflowNodeState(JobName)], run \in RunLocals :
          /\ NodesBecome(c, nodes, "schedule", w.restamped, run)
          /\ run.unseen = w.run.unseen
          /\ Starts(n, jobOf(c, n), w.observed[c].nodes, nodes)
  BY NodeScheduledEffect
<1>3. w.observed[c].nodes \in [Node -> WorkflowNodeState(JobName)] /\ w.restamped \in BOOLEAN
  BY InRun DEF CertificateExecutionState, Pass
<1>4. NodeOK(js, done, c, w.observed[c].hash, n, node) /\ node.job # NoJob
  BY <1>1 DEF NodeOK, jobOf
<1>5. \A m \in Node : NodeOK(js, done, c, w.observed[c].hash, m, w.observed[c].nodes[m])
  BY InRun, JobsOnlyGrow DEF AllOK, StateOK
<1>6. NodesBecome(c, nodes, "schedule", w.restamped, run) /\ run.unseen = w.run.unseen
  BY <1>2
<1>7. nodes[n] = node /\ \A m \in Node : m # n => nodes[m] = w.observed[c].nodes[m]
  BY <1>2, <1>3 DEF Starts
<1> HIDE DEF node
<1>8. \A m \in Node : NodeOK(js, done, c, w.observed[c].hash, m, nodes[m])
  BY <1>4, <1>5, <1>7
<1>9. \A m \in run.unseen : nodes[m].job # NoJob
  <2> DEFINE old == w.observed[c].nodes
  <2>1. w.run.unseen \subseteq Node /\ \A m \in w.run.unseen : old[m].job # NoJob
    BY <1>1, InRun DEF IInv, RunOK, RunLocals
  <2>2. \A m \in Node : m # n => nodes[m] = old[m]
    BY <1>7
  <2>3. nodes[n].job # NoJob
    BY <1>4, <1>7
  <2> HIDE DEF old
  <2> QED
    BY <1>6, <2>1, <2>2, <2>3
<1> QED
  BY <1>1, <1>3, <1>6, <1>8, <1>9, NodesStep

\* A step that creates a Job.
LEMMA CreateStep ==
    ASSUME IInv, NEW k \in JobName, JobCreated(k), UNCHANGED <<cjob, queue>>,
           w' \in Pass, AllOK(jobs', done, w'.observed), RunOK', faults' \in 0 .. MaxFaults,
           Missing(jobs[k])
    PROVE  IInv'
<1>1. /\ jobs' \in [JobName -> JobState]
      /\ \A l \in JobName : jobs[l] # "none" => jobs'[l] # "none"
  BY DEF JobCreated, JobState, IInv, TypeOK
<1>2. TypeOK'
  BY <1>1 DEF IInv, TypeOK, JobCreated, cjob, queue
<1>3. VersionsOK'
  BY DEF IInv, VersionsOK, JobCreated, cjob
<1>4. JobsOK'
  BY <1>1 DEF IInv, JobsOK, JobCreated, TypeOK, Missing
<1>5. ObservedOK'
  <2>1. api.observed \in Observed /\ cache.observed \in Observed
    BY DEF IInv, TypeOK, CertificateJob
  <2>2. AllOK(jobs', done, api.observed) /\ AllOK(jobs', done, cache.observed)
    BY <1>1, <2>1, JobsOnlyGrow DEF IInv, ObservedOK
  <2> QED
    BY <2>2 DEF ObservedOK, JobCreated, cjob
<1> QED
  BY <1>2, <1>3, <1>4, <1>5 DEF IInv

LEMMA RunSteps ==
    ASSUME IInv, NEW c \in Cert, RunStep(c)
    PROVE  IInv'
<1>1. ASSUME NEW n \in Node, ObserveNode(c, n) PROVE IInv'
  BY <1>1, ObserveNodeStep
<1>2. CASE ObserveError(c)
  <2>1. RunError(c) /\ UNCHANGED <<cjob, cluster, queue>> /\ Fault /\ TypeOK
    BY <1>2 DEF ObserveError, IInv
  <2>2. queued' \in BOOLEAN /\ timer' \in BOOLEAN /\ missed' \in BOOLEAN
    BY <2>1 DEF queue, TypeOK
  <2> QED
    BY <2>1, <2>2, FaultType, RunErrorStep, PassStep
<1>3. CASE PlanSchedule(c)
  BY <1>3, PlanScheduleStep
<1>4. ASSUME NEW n \in Node, AdoptJob(c, n) PROVE IInv'
  <2>1. /\ Scheduling(c, n) /\ NodeScheduled(c, n) /\ ~ Missing(jobCache[jobOf(c, n)])
        /\ UNCHANGED <<cjob, cluster, queue, faults>>
    BY <1>4 DEF AdoptJob
  <2>2. jobs[jobOf(c, n)] # "none"
    BY <2>1, JobOfType DEF IInv, JobsOK, Missing
  <2>3. w' \in Pass /\ AllOK(jobs, done, w'.observed) /\ RunOK'
    BY <2>1, <2>2, NodeScheduledStep
  <2>4. queued' \in BOOLEAN /\ timer' \in BOOLEAN /\ missed' \in BOOLEAN
        /\ faults' \in 0 .. MaxFaults
    BY <2>1 DEF queue, IInv, TypeOK
  <2> QED
    BY <2>1, <2>3, <2>4, PassStep
<1>5. ASSUME NEW n \in Node, CreateJob(c, n) PROVE IInv'
  <2>1. /\ Scheduling(c, n) /\ NodeScheduled(c, n) /\ JobCreated(jobOf(c, n))
        /\ Missing(jobs[jobOf(c, n)]) /\ UNCHANGED <<cjob, queue, faults>>
    BY <1>5 DEF CreateJob, Creatable
  <2>2. /\ jobOf(c, n) \in JobName /\ jobs'[jobOf(c, n)] # "none"
        /\ \A k \in JobName : jobs[k] # "none" => jobs'[k] # "none"
    BY <2>1, JobOfType DEF JobCreated, IInv, TypeOK
  <2>3. w' \in Pass /\ AllOK(jobs', done, w'.observed) /\ RunOK'
    BY <2>1, <2>2, NodeScheduledStep
  <2>4. faults' \in 0 .. MaxFaults
    BY <2>1 DEF IInv, TypeOK
  <2> QED
    BY <2>1, <2>2, <2>3, <2>4, CreateStep
<1>6. ASSUME NEW n \in Node, CreateJobFails(c, n) PROVE IInv'
  <2>1. RunError(c) /\ UNCHANGED <<cjob, cluster, queue>> /\ (Fault \/ NoFault) /\ TypeOK
    BY <1>6 DEF CreateJobFails, FailsIf, IInv
  <2>2. queued' \in BOOLEAN /\ timer' \in BOOLEAN /\ missed' \in BOOLEAN
    BY <2>1 DEF queue, TypeOK
  <2> QED
    BY <2>1, <2>2, FaultType, RunErrorStep, PassStep
<1>7. ASSUME NEW n \in Node, CreateJobAnswerLost(c, n) PROVE IInv'
  <2>1. /\ Scheduling(c, n) /\ RunError(c) /\ JobCreated(jobOf(c, n)) /\ Fault
        /\ Missing(jobs[jobOf(c, n)]) /\ UNCHANGED <<cjob, queue>>
    BY <1>7 DEF CreateJobAnswerLost, Creatable
  <2>2. /\ jobOf(c, n) \in JobName
        /\ \A k \in JobName : jobs[k] # "none" => jobs'[k] # "none"
    BY <2>1, JobOfType DEF JobCreated, IInv, TypeOK
  <2>3. w' \in Pass /\ AllOK(jobs, done, w'.observed) /\ RunOK'
    BY <2>1, RunErrorStep
  <2>4. w'.observed \in Observed
    BY <2>3 DEF Pass
  <2>5. AllOK(jobs', done, w'.observed)
    BY <2>2, <2>3, <2>4, JobsOnlyGrow
  <2>6. faults' \in 0 .. MaxFaults
    BY <2>1, FaultType DEF IInv
  <2> QED
    BY <2>1, <2>2, <2>3, <2>5, <2>6, CreateStep
<1>8. CASE FinishRun(c)
  <2> DEFINE phase == deriveWorkflowPhase(w.observed[c].nodes)
             running == phase \in {"Running", "Pending"}
             p == [needsRequeue |-> running, anyInProgress |-> running, anyFailed |-> phase = "Failed"]
  <2>1. /\ CertificateDone(c, [w.observed[c] EXCEPT !.phase = phase], p, isTerminalPhase(phase))
        /\ UNCHANGED <<cjob, cluster, queue, faults>>
    BY <1>8 DEF FinishRun
  <2>2. phase \in ExecutionPhase
    BY DerivedPhase DEF ExecutionPhase
  <2> HIDE DEF phase
  <2>3. p \in Progress /\ isTerminalPhase(phase) \in BOOLEAN
    BY DEF Progress, isTerminalPhase
  <2> HIDE DEF p
  <2>4. w' \in Pass /\ AllOK(jobs, done, w'.observed) /\ RunOK'
    BY <2>1, <2>2, <2>3, InRun, NewPhase, DoneStep
  <2>5. queued' \in BOOLEAN /\ timer' \in BOOLEAN /\ missed' \in BOOLEAN
        /\ faults' \in 0 .. MaxFaults
    BY <2>1 DEF queue, IInv, TypeOK
  <2> QED
    BY <2>1, <2>4, <2>5, PassStep
<1> QED
  BY <1>1, <1>2, <1>3, <1>4, <1>5, <1>6, <1>7, <1>8 DEF RunStep

-----------------------------------------------------------------------------
(* The end of the pass, restarts and watches *)

LEMMA FinishPassStep ==
    ASSUME IInv, FinishPass
    PROVE  IInv'
<1> DEFINE observed == filterObservedStates(w.observed, w.matched)
           conditions == applyCertificateJobConditions(w.matched, w.progress)
<1>1. w \in Pass /\ w.observed \in Observed /\ AllOK(jobs, done, w.observed)
  BY DEF IInv, TypeOK, Pass, ObservedOK
<1>2. observed \in Observed /\ AllOK(jobs, done, observed)
  BY <1>1, NotObservedType, NotObservedOK DEF filterObservedStates, Observed, AllOK
<1>3. conditions \in Conditions
  <2>1. w.progress.anyFailed \in BOOLEAN /\ w.progress.anyInProgress \in BOOLEAN
    BY <1>1 DEF Pass, Progress
  <2>2. w.generation \in 0 .. (MaxEdits + 1)
    BY <1>1, ConstantsAssumption DEF Pass, Version
  <2> QED
    BY <2>1, <2>2 DEF applyCertificateJobConditions, Conditions
<1>4. w' = [w EXCEPT !.pc = "update", !.observed = observed, !.conditions = conditions]
  BY <1>1 DEF FinishPass, Pass
<1> HIDE DEF observed, conditions
<1>5. w' \in Pass /\ w'.observed = observed /\ w'.pc = "update"
  BY <1>1, <1>2, <1>3, <1>4 DEF Pass
<1>6. /\ UNCHANGED <<cjob, cluster>>
      /\ queued' \in BOOLEAN /\ timer' \in BOOLEAN /\ missed' \in BOOLEAN
        /\ faults' \in 0 .. MaxFaults
  BY DEF FinishPass, queue, IInv, TypeOK
<1> QED
  BY <1>2, <1>5, <1>6, PassStep DEF RunOK

LEMMA IdleOK ==
    ASSUME w' = Idle
    PROVE  w' \in Pass /\ RunOK' /\ \A js, dn : AllOK(js, dn, w'.observed)
<1>1. w'.observed = [c \in Cert |-> NotObserved] /\ w'.pc = "idle"
  BY DEF Idle, NoStatus
<1>2. \A js, dn : AllOK(js, dn, w'.observed)
  BY <1>1, NotObservedOK DEF AllOK
<1> QED
  BY <1>1, <1>2, IdleType DEF RunOK

LEMMA ReturnStep ==
    ASSUME IInv, NEW error \in BOOLEAN, PassReturns(error)
    PROVE  w' = Idle /\ queued' \in BOOLEAN /\ timer' \in BOOLEAN /\ missed' \in BOOLEAN
BY DEF PassReturns, IInv, TypeOK

\* A step that writes the status and ends the pass.
LEMMA SaveStep ==
    ASSUME IInv, Save, w' = Idle, UNCHANGED cluster,
           queued' \in BOOLEAN, timer' \in BOOLEAN, missed' \in BOOLEAN, faults' \in 0 .. MaxFaults
    PROVE  IInv'
<1>1. /\ w.observed \in Observed /\ w.conditions \in Conditions /\ api \in CertificateJob
      /\ AllOK(jobs, done, w.observed)
  BY DEF IInv, TypeOK, Pass, ObservedOK
<1>2. /\ api' \in CertificateJob /\ api'.observed = w.observed
      /\ api'.generation = api.generation /\ api'.uid = api.uid /\ cache' = cache /\ latest' = FALSE
  BY <1>1 DEF Save, CertificateJob
<1>3. w' \in Pass /\ RunOK' /\ AllOK(jobs, done, w'.observed)
  BY IdleOK
<1>4. TypeOK'
  BY <1>2, <1>3 DEF IInv, TypeOK, cluster
<1>5. VersionsOK' /\ JobsOK'
  BY <1>2 DEF IInv, VersionsOK, JobsOK, cluster
<1>6. ObservedOK'
  BY <1>1, <1>2, <1>3 DEF IInv, ObservedOK, cluster
<1> QED
  BY <1>3, <1>4, <1>5, <1>6 DEF IInv

LEMMA EndSteps ==
    ASSUME IInv, EndPass
    PROVE  IInv'
<1>0. w.failing \in BOOLEAN /\ TRUE \in BOOLEAN
  BY DEF IInv, TypeOK, Pass
<1>1. CASE FinishPass
  BY <1>1, FinishPassStep
<1>2. CASE StatusUnchanged
  <2>1. PassReturns(w.failing) /\ UNCHANGED <<cjob, cluster, faults>>
    BY <1>2 DEF StatusUnchanged
  <2>2. faults' \in 0 .. MaxFaults
    BY <2>1 DEF IInv, TypeOK
  <2> QED
    BY <1>0, <2>1, <2>2, ReturnStep, IdleOK, PassStep
<1>3. CASE StatusWritten
  <2>1. PassReturns(w.failing) /\ Save /\ UNCHANGED <<cluster, faults>>
    BY <1>3 DEF StatusWritten
  <2>2. faults' \in 0 .. MaxFaults
    BY <2>1 DEF IInv, TypeOK
  <2> QED
    BY <1>0, <2>1, <2>2, ReturnStep, SaveStep
<1>4. CASE StatusUpdateFails
  <2>1. PassReturns(TRUE) /\ UNCHANGED <<cjob, cluster>>
    BY <1>4 DEF StatusUpdateFails
  <2>2. faults' \in 0 .. MaxFaults
    BY <1>4, FaultType DEF IInv, StatusUpdateFails, FailsIf
  <2> QED
    BY <1>0, <2>1, <2>2, ReturnStep, IdleOK, PassStep
<1>5. CASE StatusAnswerLost
  <2>1. PassReturns(TRUE) /\ Save /\ UNCHANGED cluster
    BY <1>5 DEF StatusAnswerLost
  <2>2. faults' \in 0 .. MaxFaults
    BY <1>5, FaultType DEF IInv, StatusAnswerLost
  <2> QED
    BY <1>0, <2>1, <2>2, ReturnStep, SaveStep
<1> QED
  BY <1>1, <1>2, <1>3, <1>4, <1>5 DEF EndPass

LEMMA RestartStep ==
    ASSUME IInv, Restart
    PROVE  IInv'
<1>1. w' \in Pass /\ RunOK' /\ AllOK(jobs, done, w'.observed)
  BY IdleOK DEF Restart
<1>2. faults' \in 0 .. MaxFaults
  BY FaultType DEF IInv, Restart
<1>3. TypeOK'
  BY <1>1, <1>2 DEF IInv, TypeOK, Restart
<1>4. VersionsOK' /\ JobsOK'
  BY DEF IInv, VersionsOK, JobsOK, Restart
<1>5. ObservedOK'
  BY <1>1 DEF IInv, ObservedOK, Restart
<1> QED
  BY <1>1, <1>3, <1>4, <1>5 DEF IInv

LEMMA WatchSteps ==
    ASSUME IInv, Watches
    PROVE  IInv'
<1>1. CASE WatchCertificateJob
  <2>1. RunOK'
    BY <1>1 DEF IInv, WatchCertificateJob, RunOK, Current
  <2> QED
    BY <1>1, <2>1 DEF IInv, WatchCertificateJob, cluster, TypeOK, VersionsOK, JobsOK, ObservedOK
<1>2. CASE TimerFires
  <2>1. RunOK'
    BY <1>2 DEF IInv, TimerFires, RunOK, Current
  <2>2. /\ UNCHANGED <<cjob, cluster>> /\ queued' \in BOOLEAN /\ timer' \in BOOLEAN /\ missed' \in BOOLEAN
        /\ faults' \in 0 .. MaxFaults /\ w' \in Pass /\ AllOK(jobs, done, w'.observed)
    BY <1>2 DEF IInv, TypeOK, TimerFires, ObservedOK
  <2> QED
    BY <2>1, <2>2, PassStep
<1>3. ASSUME NEW k \in JobName, WatchJob(k) PROVE IInv'
  <2>1. RunOK' /\ VersionsOK' /\ ObservedOK'
    BY <1>3 DEF IInv, WatchJob, RunOK, Current, VersionsOK, ObservedOK, cjob
  <2>2. TypeOK' /\ JobsOK'
    BY <1>3 DEF IInv, TypeOK, JobsOK, WatchJob, cjob
  <2> QED
    BY <2>1, <2>2 DEF IInv
<1> QED
  BY <1>1, <1>2, <1>3 DEF Watches

-----------------------------------------------------------------------------
(* The environment *)

LEMMA EnqueueType ==
    ASSUME TypeOK, NEW mapped, Enqueue(mapped)
    PROVE  queued' \in BOOLEAN /\ missed' \in BOOLEAN /\ (Fault \/ NoFault)
BY DEF Enqueue, TypeOK

\* The CertificateJob changes; a pass in progress works on, with an old object.
LEMMA ObjectStep ==
    ASSUME IInv, NEW new \in CertificateJob, ObjectChanges(new), AllOK(jobs, done, new.observed),
           edits' \in 0 .. MaxEdits, edits <= edits', orphans' \subseteq JobName,
           new.generation <= edits' + 1, new.uid <= edits' + 1
    PROVE  IInv'
<1>1. /\ w \in Pass /\ w' = [w EXCEPT !.fresh = FALSE] /\ api' = new /\ latest' = FALSE
      /\ UNCHANGED <<cache, jobs, jobCache, done, cert, secret, queued, timer, missed, faults>>
  BY DEF IInv, TypeOK, ObjectChanges, queue
<1>2. /\ w' \in Pass /\ w'.observed = w.observed /\ w'.pc = w.pc /\ w'.todo = w.todo
      /\ w'.run = w.run
  BY <1>1 DEF Pass
<1>3. TypeOK'
  BY <1>1, <1>2 DEF IInv, TypeOK
<1>4. VersionsOK'
  BY <1>1 DEF IInv, VersionsOK, TypeOK, Certificate, Secret, Version
<1>5. JobsOK' /\ ObservedOK' /\ RunOK'
  BY <1>1, <1>2 DEF IInv, JobsOK, ObservedOK, RunOK, Current
<1> QED
  BY <1>3, <1>4, <1>5 DEF IInv

LEMMA EditSteps ==
    ASSUME IInv, Edits
    PROVE  IInv'
<1>1. ASSUME NEW s \in SpecId, UpdateSpec(s) PROVE IInv'
  <2> DEFINE new == [api EXCEPT !.spec = s, !.generation = api.generation + 1]
  <2>1. /\ ObjectChanges(new) /\ edits' = edits + 1 /\ edits < MaxEdits /\ orphans' \subseteq JobName
    BY <1>1 DEF IInv, TypeOK, UpdateSpec, Edit, CertificateJob
  <2>2. /\ api.generation + 1 \in Version /\ api.generation + 1 <= edits' + 1
        /\ api.uid <= edits' + 1 /\ edits' \in 0 .. MaxEdits
    BY <2>1, ConstantsAssumption DEF IInv, VersionsOK, TypeOK, CertificateJob, Version
  <2>3. /\ new \in CertificateJob /\ new.observed = api.observed
        /\ new.generation = api.generation + 1 /\ new.uid = api.uid
    BY <2>2 DEF IInv, TypeOK, CertificateJob
  <2>4. AllOK(jobs, done, new.observed)
    BY <2>3 DEF IInv, ObservedOK
  <2>5. edits <= edits'
    BY <2>1 DEF IInv, TypeOK
  <2> HIDE DEF new
  <2> QED
    BY <2>1, <2>2, <2>3, <2>4, <2>5, ObjectStep
<1>6. CASE DeleteCertificateJob
  <2> DEFINE new == [api EXCEPT !.exists = FALSE, !.uid = api.uid + 1,
                                !.observed = NoStatus.observed, !.conditions = NoConditions]
  <2>1. /\ ObjectChanges(new) /\ edits' = edits + 1 /\ edits < MaxEdits /\ orphans' \subseteq JobName
    BY <1>6 DEF IInv, TypeOK, DeleteCertificateJob, Edit, CertificateJob
  <2>2. /\ api.uid + 1 \in Version /\ api.uid + 1 <= edits' + 1
        /\ api.generation <= edits' + 1 /\ edits' \in 0 .. MaxEdits
    BY <2>1, ConstantsAssumption DEF IInv, VersionsOK, TypeOK, CertificateJob, Version
  <2>3. NoStatus.observed \in Observed /\ AllOK(jobs, done, NoStatus.observed)
    BY NotObservedType, NotObservedOK DEF NoStatus, Observed, AllOK
  <2>4. /\ new \in CertificateJob /\ new.observed = NoStatus.observed
        /\ new.generation = api.generation /\ new.uid = api.uid + 1
    BY <2>2, <2>3, NoConditionsType DEF IInv, TypeOK, CertificateJob
  <2>5. edits <= edits'
    BY <2>1 DEF IInv, TypeOK
  <2> HIDE DEF new
  <2> QED
    BY <2>1, <2>2, <2>3, <2>4, <2>5, ObjectStep
<1>7. ASSUME NEW s \in SpecId, CreateCertificateJob(s) PROVE IInv'
  <2> DEFINE new == [api EXCEPT !.exists = TRUE, !.spec = s, !.generation = 1]
  <2>1. /\ ObjectChanges(new) /\ edits' = edits /\ orphans' \subseteq JobName
    BY <1>7 DEF IInv, TypeOK, CreateCertificateJob
  <2>2. 1 \in Version /\ 1 <= edits' + 1 /\ api.uid <= edits' + 1 /\ edits' \in 0 .. MaxEdits
    BY <2>1, ConstantsAssumption DEF IInv, VersionsOK, TypeOK, CertificateJob, Version
  <2>3. /\ new \in CertificateJob /\ new.observed = api.observed
        /\ new.generation = 1 /\ new.uid = api.uid
    BY <2>2 DEF IInv, TypeOK, CertificateJob
  <2>4. AllOK(jobs, done, new.observed)
    BY <2>3 DEF IInv, ObservedOK
  <2>5. edits <= edits'
    BY <2>1 DEF IInv, TypeOK
  <2> HIDE DEF new
  <2> QED
    BY <2>1, <2>2, <2>3, <2>4, <2>5, ObjectStep
<1>2. ASSUME NEW c \in Cert, NEW new \in Certificate, CertificateEvent(c, new),
             new.version <= edits' + 1
      PROVE  IInv'
  <2>1. /\ edits' = edits + 1 /\ edits < MaxEdits /\ cert' = [cert EXCEPT ![c] = new]
        /\ queued' \in BOOLEAN /\ missed' \in BOOLEAN /\ faults' \in 0 .. MaxFaults
        /\ UNCHANGED <<cjob, jobs, jobCache, orphans, done, secret, timer, w>>
    BY <1>2, FaultType, EnqueueType DEF IInv, CertificateEvent, Edit
  <2>2. TypeOK'
    BY <2>1, ConstantsAssumption DEF IInv, TypeOK, cjob
  <2>3. VersionsOK'
    BY <1>2, <2>1 DEF IInv, VersionsOK, TypeOK, Certificate, Secret, Version, cjob, CertificateJob
  <2>4. JobsOK' /\ ObservedOK' /\ RunOK'
    BY <2>1 DEF IInv, JobsOK, ObservedOK, RunOK, Current, cjob
  <2> QED
    BY <2>2, <2>3, <2>4 DEF IInv
<1>3. ASSUME NEW c \in Cert, NEW b \in BOOLEAN, UpdateCertificate(c, b) PROVE IInv'
  <2> DEFINE new == [cert[c] EXCEPT !.version = cert[c].version + 1, !.hasSecretName = b]
  <2>1. cert[c] \in Certificate /\ cert[c].version <= edits + 1 /\ edits \in Nat
    BY DEF IInv, TypeOK, VersionsOK
  <2>2. CertificateEvent(c, new)
    BY <1>3, <2>1 DEF UpdateCertificate, Certificate
  <2>3. edits' = edits + 1 /\ edits < MaxEdits
    BY <2>2 DEF CertificateEvent, Edit
  <2>4. cert[c].version + 1 \in Version /\ cert[c].version + 1 <= edits' + 1
    BY <2>1, <2>3, ConstantsAssumption DEF Certificate, Version
  <2>5. new \in Certificate /\ new.version <= edits' + 1
    BY <2>1, <2>4 DEF Certificate
  <2> QED
    BY <1>2, <2>2, <2>5
<1>4. ASSUME NEW c \in Cert, NEW l \in Label, RelabelCertificate(c, l) PROVE IInv'
  <2> DEFINE new == [cert[c] EXCEPT !.label = l]
  <2>1. cert[c] \in Certificate /\ cert[c].version <= edits + 1 /\ edits \in Nat
    BY DEF IInv, TypeOK, VersionsOK
  <2>2. CertificateEvent(c, new)
    BY <1>4 DEF RelabelCertificate
  <2>3. edits' = edits + 1
    BY <2>2 DEF CertificateEvent, Edit
  <2>4. new \in Certificate /\ new.version = cert[c].version
    BY <2>1 DEF Certificate
  <2>5. new.version <= edits' + 1
    BY <2>1, <2>3, <2>4 DEF Certificate, Version
  <2> QED
    BY <1>2, <2>2, <2>4, <2>5
<1>5. ASSUME NEW c \in Cert, NEW new \in Secret, UpdateSecret(c, new) PROVE IInv'
  <2>1. /\ edits' = edits + 1 /\ edits < MaxEdits /\ secret' = [secret EXCEPT ![c] = new]
        /\ new.version \in {secret[c].version, secret[c].version + 1}
        /\ queued' \in BOOLEAN /\ missed' \in BOOLEAN /\ faults' \in 0 .. MaxFaults
        /\ UNCHANGED <<cjob, jobs, jobCache, orphans, done, cert, timer, w>>
    BY <1>5, FaultType, EnqueueType DEF IInv, UpdateSecret, Edit
  <2>2. TypeOK'
    BY <2>1, ConstantsAssumption DEF IInv, TypeOK, cjob
  <2>3. VersionsOK'
    BY <2>1 DEF IInv, VersionsOK, TypeOK, Certificate, Secret, Version, cjob, CertificateJob
  <2>4. JobsOK' /\ ObservedOK' /\ RunOK'
    BY <2>1 DEF IInv, JobsOK, ObservedOK, RunOK, Current, cjob
  <2> QED
    BY <2>2, <2>3, <2>4 DEF IInv
<1> QED
  BY <1>1, <1>3, <1>4, <1>5, <1>6, <1>7 DEF Edits

LEMMA JobSteps ==
    ASSUME IInv, JobController
    PROVE  IInv'
<1>1. ASSUME NEW k \in JobName, NEW from, NEW to \in JobState, JobStep(k, from, to),
             "none" \notin from, to # "none", done' = done \/ done' = done \cup {k},
             to = "complete" => k \in done'
      PROVE  IInv'
  <2>1. /\ jobs' = [jobs EXCEPT ![k] = to] /\ jobs[k] # "none" /\ jobs \in [JobName -> JobState]
        /\ UNCHANGED <<cjob, jobCache, orphans, cert, secret, queue, edits, faults, w>>
    BY <1>1 DEF JobStep, IInv, TypeOK
  <2>2. /\ jobs' \in [JobName -> JobState] /\ done' \subseteq JobName /\ done \subseteq done'
        /\ \A l \in JobName : jobs[l] # "none" => jobs'[l] # "none"
    BY <1>1, <2>1 DEF IInv, TypeOK
  <2>3. TypeOK'
    BY <2>1, <2>2 DEF IInv, TypeOK, cjob, queue
  <2>4. VersionsOK' /\ RunOK'
    BY <2>1 DEF IInv, VersionsOK, RunOK, Current, cjob
  <2>5. JobsOK'
    BY <1>1, <2>1, <2>2 DEF IInv, JobsOK
  <2>6. ObservedOK'
    <3>1. api.observed \in Observed /\ cache.observed \in Observed /\ w.observed \in Observed
      BY DEF IInv, TypeOK, CertificateJob, Pass
    <3>2. /\ AllOK(jobs', done', api.observed) /\ AllOK(jobs', done', cache.observed)
          /\ AllOK(jobs', done', w.observed)
      BY <2>2, <3>1, JobsOnlyGrow DEF IInv, ObservedOK
    <3> QED
      BY <2>1, <3>2 DEF ObservedOK, cjob
  <2> QED
    BY <2>3, <2>4, <2>5, <2>6 DEF IInv
<1>2. PICK k \in JobName : \/ JobStarts(k) \/ JobBacksOff(k) \/ JobCompletes(k)
                           \/ JobFails(k) \/ JobDeleted(k)
  BY DEF JobController
<1>3. "none" \notin Deletable
  BY ConstantsAssumption
<1>4. {"active", "idle", "complete", "failed", "gone"} \subseteq JobState
  BY DEF JobState
<1>5. CASE JobStarts(k)
  BY <1>1, <1>4, <1>5 DEF JobStarts
<1>6. CASE JobBacksOff(k)
  BY <1>1, <1>4, <1>6 DEF JobBacksOff
<1>7. CASE JobCompletes(k)
  BY <1>1, <1>4, <1>7 DEF JobCompletes
<1>8. CASE JobFails(k)
  BY <1>1, <1>4, <1>8 DEF JobFails
<1>9. CASE JobDeleted(k)
  BY <1>1, <1>3, <1>4, <1>9 DEF JobDeleted
<1> QED
  BY <1>2, <1>5, <1>6, <1>7, <1>8, <1>9

-----------------------------------------------------------------------------
(* The theorems *)

\* IInv is preserved by every step of the worker, of the watches and of the
\* environment, and by a restart.
LEMMA NextIInv == IInv /\ [Next]_vars => IInv'
<1> SUFFICES ASSUME IInv, [Next]_vars PROVE IInv'
  OBVIOUS
<1>1. CASE Next
  <2>1. CASE Worker
    BY <2>1, BeginSteps, CertificateSteps, RunSteps, EndSteps DEF Worker
  <2> QED
    BY <1>1, <2>1, RestartStep, WatchSteps, EditSteps, JobSteps DEF Next
<1>2. CASE UNCHANGED vars
  BY <1>2 DEF vars, IInv, TypeOK, VersionsOK, JobsOK, ObservedOK, RunOK, Current
<1> QED
  BY <1>1, <1>2

LEMMA IInvImplies == IInv => TypeOK /\ SucceededMeansCompleted /\ RecordedJobsExist
<1> SUFFICES ASSUME IInv PROVE TypeOK /\ SucceededMeansCompleted /\ RecordedJobsExist
  OBVIOUS
<1>1. \A c \in Cert, n \in Node :
          NodeOK(jobs, done, c, api.observed[c].hash, n, api.observed[c].nodes[n])
  BY DEF IInv, ObservedOK, AllOK, StateOK
<1>2. SucceededMeansCompleted
  BY <1>1 DEF SucceededMeansCompleted, NodeOK
<1>3. RecordedJobsExist
  BY <1>1 DEF RecordedJobsExist, NodeOK
<1> QED
  BY <1>2, <1>3 DEF IInv

\* The inductive invariant of the controller holds in every reachable state.
THEOREM Invariance == Spec => []IInv
BY InitIInv, NextIInv, PTL DEF Spec

\* Objects, caches, queue and pass keep their types; in particular versions and
\* generations never pass the number of edits.
THEOREM TypeCorrect == Spec => []TypeOK
BY Invariance, IInvImplies, PTL

\* observeWorkflowNodeJobs marks a node Succeeded only after its Job completed.
THEOREM SucceededNodesCompleted == Spec => []SucceededMeansCompleted
BY Invariance, IInvImplies, PTL

\* scheduleRunnableNodes records a Job only after it was created or found, and no
\* failed call, conflict, restart or stale cache undoes it.
THEOREM RecordedJobsReal == Spec => []RecordedJobsExist
BY Invariance, IInvImplies, PTL
=============================================================================
