----------------------------- MODULE OrderProofs ------------------------------
(***************************************************************************)
(* Jobs of CertificateJobController exist in the order of the graph as     *)
(* long as the spec is not edited, for every value of the constants:       *)
(* certificates, secrets and the object itself may come and go.            *)
(***************************************************************************)
EXTENDS LifecycleProofs

\* A state of a run under the spec s: it was made for s, has every node of s, and a
\* node that depends on a skipped one waits no longer.
Settled(s, state) ==
    state.hash # NoHash =>
        /\ state.hash.spec = s
        /\ \A n \in Specs[s].jobs : n \in Node => state.nodes[n].phase # "Absent"
        /\ Specs[s].failurePolicy # "BestEffort" =>
               \A n \in Node : \A d \in deps(Specs[s])[n] :
                   state.nodes[d].phase = "Skipped" => state.nodes[n].phase # "Pending"

AllSettled(s, observed) == \A c \in Cert : Settled(s, observed[c])

\* Everyone works with the one spec.
OneSpec ==
    /\ cache.spec = api.spec /\ (w.pc # "idle" => w.spec = api.spec)
    /\ AllSettled(api.spec, api.observed) /\ AllSettled(api.spec, cache.observed)
    /\ AllSettled(api.spec, w.observed)

OInv == OneSpec /\ DependencyOrder

-----------------------------------------------------------------------------
(* States *)

LEMMA SettledNothing ==
    ASSUME NEW s
    PROVE  /\ Settled(s, NotObserved) /\ AllSettled(s, NoStatus.observed)
           /\ AllSettled(s, Idle.observed) /\ Idle.pc = "idle"
BY DEF Settled, AllSettled, NotObserved, NoStatus, Idle

\* Settled does not look at the phase of the certificate.
LEMMA SettledSame ==
    ASSUME NEW s, NEW state, NEW new, Settled(s, state),
           new.hash = state.hash, new.nodes = state.nodes
    PROVE  Settled(s, new)
BY DEF Settled

\* Nodes that do not become Absent, Skipped or Pending do no harm.
LEMMA SettledOn ==
    ASSUME NEW s, NEW state, NEW new, Settled(s, state), new.hash = state.hash,
           \A n \in Node : \/ new.nodes[n] = state.nodes[n]
                           \/ new.nodes[n].phase \in {"Running", "Succeeded", "Failed"}
    PROVE  Settled(s, new)
<1> SUFFICES ASSUME new.hash # NoHash
             PROVE  /\ \A n \in Specs[s].jobs : n \in Node => new.nodes[n].phase # "Absent"
                    /\ Specs[s].failurePolicy # "BestEffort" =>
                           \A n \in Node : \A d \in deps(Specs[s])[n] :
                               new.nodes[d].phase = "Skipped" => new.nodes[n].phase # "Pending"
  BY DEF Settled
<1>1. \A n \in Node : \A d \in deps(Specs[s])[n] : d \in Node
  BY DEF deps
<1> QED
  BY <1>1 DEF Settled

\* A run starts with every node pending.
LEMMA SettledStart ==
    ASSUME NEW s \in SpecId, NEW hash, NEW phase, hash.spec = s
    PROVE  Settled(s, [hash |-> hash, phase |-> phase, nodes |-> initializeNodeStates(Specs[s])])
<1> DEFINE nodes == initializeNodeStates(Specs[s])
<1>1. /\ \A n \in Node : nodes[n].phase \in {"Pending", "Absent"}
      /\ \A n \in Specs[s].jobs : n \in Node => nodes[n].phase # "Absent"
  BY DEF initializeNodeStates, PendingNode, NoNodes
<1>2. \A n \in Node : \A d \in deps(Specs[s])[n] : d \in Node
  BY DEF deps
<1> HIDE DEF nodes
<1>3. Settled(s, [hash |-> hash, phase |-> phase, nodes |-> nodes])
  BY <1>1, <1>2 DEF Settled
<1> QED
  BY <1>3 DEF nodes

\* What the failure policy skips, it skips with all that depends on it.
LEMMA SettledPolicy ==
    ASSUME NEW s \in SpecId, NEW state \in CertificateExecutionState, NEW new, NEW failed \in SUBSET Node,
           Settled(s, state), new.hash = state.hash,
           new.nodes = applyFailurePolicy(Specs[s].failurePolicy, state.nodes,
                                          reverseDeps(Specs[s]), failed)
    PROVE  Settled(s, new)
<1> DEFINE policy == Specs[s].failurePolicy
           toSkip == CASE failed = {} \/ policy = "BestEffort" -> {}
                       [] failed # {} /\ policy = "ContinueIndependent" ->
                              descendantNodes(reverseDeps(Specs[s]), failed)
                       [] OTHER -> Node
<1>1. \A n \in Node : new.nodes[n] = IF n \in toSkip /\ state.nodes[n].phase = "Pending"
                                     THEN [state.nodes[n] EXCEPT !.phase = "Skipped"]
                                     ELSE state.nodes[n]
  BY DEF applyFailurePolicy
<1>2. ASSUME NEW n \in Node, NEW d \in deps(Specs[s])[n], d \in toSkip
      PROVE  n \in toSkip
  <2>1. d \in Node /\ n \in reverseDeps(Specs[s])[d]
    BY <1>2 DEF deps, reverseDeps
  <2>2. CASE failed = {} \/ policy = "BestEffort"
    BY <1>2, <2>2
  <2>3. CASE failed # {} /\ policy = "ContinueIndependent"
    <3>1. d \in descendantNodes(reverseDeps(Specs[s]), failed)
      BY <1>2, <2>3
    <3>2. \A S \in SUBSET Node : ClosedUnder(reverseDeps(Specs[s]), failed, S) => n \in S
      BY <2>1, <3>1 DEF descendantNodes, ClosedUnder
    <3>3. n \in descendantNodes(reverseDeps(Specs[s]), failed)
      BY <3>2 DEF descendantNodes
    <3> QED
      BY <2>3, <3>3
  <2>4. CASE ~ (failed = {} \/ policy = "BestEffort")
             /\ ~ (failed # {} /\ policy = "ContinueIndependent")
    BY <2>4
  <2> QED
    BY <2>2, <2>3, <2>4
<1>3. \A n \in Node : \A d \in deps(Specs[s])[n] : d \in Node
  BY DEF deps
<1> HIDE DEF toSkip, policy
<1>4. \A n \in Node : [state.nodes[n] EXCEPT !.phase = "Skipped"].phase = "Skipped"
  BY DEF CertificateExecutionState, WorkflowNodeState
<1>5. \A n \in Node :
          new.nodes[n].phase = IF n \in toSkip /\ state.nodes[n].phase = "Pending"
                               THEN "Skipped" ELSE state.nodes[n].phase
  BY <1>1, <1>4
<1> QED
  BY <1>2, <1>3, <1>5 DEF Settled

-----------------------------------------------------------------------------
(* Steps *)

LEMMA OPass ==
    ASSUME OneSpec, UNCHANGED cjob, w'.spec = api.spec \/ w'.pc = "idle",
           AllSettled(api.spec, w'.observed)
    PROVE  OneSpec'
BY DEF OneSpec, cjob

LEMMA OReplace ==
    ASSUME NEW s, NEW observed \in Observed, AllSettled(s, observed),
           NEW c \in Cert, NEW state, Settled(s, state)
    PROVE  AllSettled(s, [observed EXCEPT ![c] = state])
BY DEF AllSettled, Observed

\* The current certificate leaves the pass.
LEMMA ODone ==
    ASSUME IInv, OneSpec, UNCHANGED cjob, w.pc # "idle", NEW c \in Cert,
           NEW state \in CertificateExecutionState, NEW p \in Progress, NEW restamped \in BOOLEAN,
           CertificateDone(c, state, p, restamped), Settled(w.spec, state)
    PROVE  OneSpec'
<1>1. /\ w'.observed = [w.observed EXCEPT ![c] = state] /\ w'.spec = w.spec
      /\ w.observed \in Observed
  BY DoneFields
<1>2. w.spec = api.spec /\ AllSettled(api.spec, w.observed)
  BY DEF OneSpec
<1>3. AllSettled(api.spec, w'.observed)
  BY <1>1, <1>2, OReplace
<1> QED
  BY <1>1, <1>2, <1>3, OPass

\* The current certificate goes on with its run.
LEMMA OBecomes ==
    ASSUME IInv, OneSpec, UNCHANGED cjob, w.pc # "idle", NEW c \in Cert,
           NEW state, NEW run, NEW stamp, NEW pc, Becomes(c, state, pc, stamp, run),
           Settled(w.spec, state)
    PROVE  OneSpec'
<1>1. w \in Pass /\ w.observed \in Observed
  BY DEF IInv, TypeOK, Pass
<1> DEFINE observed == [w.observed EXCEPT ![c] = state]
<1>2. w' = [w EXCEPT !.pc = pc, !.observed = observed, !.restamped = stamp, !.run = run]
  BY DEF Becomes
<1>3. w.spec = api.spec /\ AllSettled(api.spec, w.observed)
  BY DEF OneSpec
<1>4. AllSettled(api.spec, observed)
  BY <1>1, <1>3, OReplace
<1> HIDE DEF observed
<1>5. w'.observed = observed /\ w'.spec = w.spec
  BY <1>1, <1>2 DEF Pass
<1> QED
  BY <1>3, <1>4, <1>5, OPass

LEMMA ONodes ==
    ASSUME IInv, LInv, OneSpec, UNCHANGED cjob, NEW c \in Cert, Current(c),
           w.pc \in {"observe", "schedule"},
           NEW nodes, NEW run, NEW stamp, NEW pc, NodesBecome(c, nodes, pc, stamp, run),
           \A new : new.hash = w.observed[c].hash /\ new.nodes = nodes => Settled(w.spec, new)
    PROVE  OneSpec'
<1> DEFINE new == [w.observed[c] EXCEPT !.nodes = nodes]
<1>1. Becomes(c, new, pc, stamp, run)
  BY DEF NodesBecome
<1>2. new.hash = w.observed[c].hash /\ new.nodes = nodes
  BY LInRun DEF CertificateExecutionState
<1> HIDE DEF new
<1>3. Settled(w.spec, new)
  BY <1>2
<1> QED
  BY <1>1, <1>3, OBecomes

LEMMA OCertificate ==
    ASSUME IInv, LInv, OneSpec, NEW c \in Cert, HandleCertificate(c)
    PROVE  OneSpec'
<1> DEFINE old == w.observed[c]
           mid == ensureObservedCertificateState(c)
<1>0. AtCertificate(c)
  BY DEF HandleCertificate, CertificateWithoutSecretName, CertificateSecretUnreadable,
     CertificateFinished, CertificateRun, AtReadableCertificate
<1>1. w.pc = "certificates" /\ UNCHANGED cjob /\ w.spec \in SpecId
  BY <1>0 DEF AtCertificate, IInv, TypeOK, Pass
<1>2. w.spec = api.spec /\ Settled(w.spec, old)
  BY <1>1 DEF OneSpec, AllSettled
<1>3. /\ mid \in CertificateExecutionState /\ mid.hash = old.hash /\ mid.nodes = old.nodes
  BY <1>0, EnsuredFields
<1> HIDE DEF mid
<1>4. ASSUME NEW phase \in ExecutionPhase
      PROVE  /\ [mid EXCEPT !.phase = phase] \in CertificateExecutionState
             /\ Settled(w.spec, [mid EXCEPT !.phase = phase])
  <2>1. /\ [mid EXCEPT !.phase = phase] \in CertificateExecutionState
        /\ [mid EXCEPT !.phase = phase].hash = old.hash
        /\ [mid EXCEPT !.phase = phase].nodes = old.nodes
    BY <1>3 DEF CertificateExecutionState
  <2> QED
    BY <1>2, <2>1, SettledSame
<1>5. Settled(w.spec, mid)
  BY <1>2, <1>3, SettledSame
<1>6. "Failed" \in ExecutionPhase /\ "Pending" \in ExecutionPhase
  BY DEF ExecutionPhase
<1>7. /\ Waiting \in Progress /\ NoProgress \in Progress
      /\ \A b \in BOOLEAN : FailedProgress(b) \in Progress
  BY DEF Waiting, NoProgress, FailedProgress, Progress
<1>8. CASE CertificateWithoutSecretName(c)
  <2>1. CertificateDone(c, [mid EXCEPT !.phase = "Failed"], FailedProgress(TRUE), TRUE)
    BY <1>8 DEF CertificateWithoutSecretName, mid
  <2> QED
    BY <1>1, <1>4, <1>6, <1>7, <2>1, ODone
<1>9. CASE CertificateSecretUnreadable(c)
  <2>1. \/ CertificateDone(c, mid, NoProgress, FALSE)
        \/ CertificateDone(c, [mid EXCEPT !.phase = "Pending"], Waiting, TRUE)
    BY <1>9 DEF CertificateSecretUnreadable, mid
  <2>2. CASE CertificateDone(c, mid, NoProgress, FALSE)
    BY <1>1, <1>3, <1>5, <1>7, <2>2, ODone
  <2>3. CASE CertificateDone(c, [mid EXCEPT !.phase = "Pending"], Waiting, TRUE)
    BY <1>1, <1>4, <1>6, <1>7, <2>3, ODone
  <2> QED
    BY <2>1, <2>2, <2>3
<1>10. ASSUME w.version[c] # 0 PROVE Settled(w.spec, CertificateState(c))
  <2>1. buildInputHash(c).spec = w.spec
    BY DEF buildInputHash
  <2>2. Settled(w.spec, [hash |-> buildInputHash(c), phase |-> "Pending",
                         nodes |-> initializeNodeStates(Specs[w.spec])])
    BY <1>1, <2>1, SettledStart
  <2> QED
    BY <1>5, <2>2 DEF CertificateState, applyInputHashTransition, mid
<1>11. CASE CertificateFinished(c)
  <2>1. /\ w.version[c] # 0
        /\ CertificateDone(c, CertificateState(c),
                           FailedProgress(CertificateState(c).phase = "Failed"), FALSE)
    BY <1>11 DEF CertificateFinished, AtReadableCertificate
  <2>2. CertificateState(c) \in CertificateExecutionState
    BY <2>1, TransitionState
  <2> QED
    BY <1>1, <1>7, <1>10, <2>1, <2>2, ODone
<1>12. CASE CertificateRun(c)
  <2>1. w.version[c] # 0
    BY <1>12, CertificateRunEffect
  <2>2. PICK new \in CertificateExecutionState, run \in RunLocals, stamp \in BOOLEAN :
            /\ Becomes(c, new, "observe", stamp, run)
            /\ new.hash = CertificateState(c).hash
            /\ AddsPending(Specs[w.spec].jobs, CertificateState(c).nodes, new.nodes)
    BY <1>12, CertificateRunEffect
  <2>3. Settled(w.spec, CertificateState(c)) /\ CertificateState(c).hash # NoHash
    BY <1>10, <2>1, TransitionState
  <2>4. \A n \in Node : new.nodes[n] = CertificateState(c).nodes[n]
    BY <2>2, <2>3 DEF AddsPending, Settled
  <2>5. Settled(w.spec, new)
    BY <2>2, <2>3, <2>4, SettledOn
  <2> QED
    BY <1>1, <2>2, <2>5, OBecomes
<1> QED
  BY <1>8, <1>9, <1>11, <1>12 DEF HandleCertificate


LEMMA ORunSteps ==
    ASSUME IInv, LInv, OneSpec, NEW c \in Cert, RunStep(c)
    PROVE  OneSpec'
<1>0. UNCHANGED cjob
  BY DEF RunStep, ObserveNode, ObserveError, PlanSchedule, AdoptJob, CreateJob, CreateJobFails,
     CreateJobAnswerLost, FinishRun
<1>1. ASSUME Current(c), w.pc \in {"observe", "schedule"}
      PROVE  /\ w.observed[c] \in CertificateExecutionState /\ Settled(w.spec, w.observed[c])
             /\ w.pc # "idle" /\ w.spec \in SpecId
  BY <1>1, LInRun DEF OneSpec, AllSettled, IInv, TypeOK, Pass
<1>2. ASSUME Current(c), w.pc \in {"observe", "schedule"}, NEW phase \in ExecutionPhase,
             NEW p \in Progress, NEW stamp \in BOOLEAN,
             CertificateDone(c, [w.observed[c] EXCEPT !.phase = phase], p, stamp)
      PROVE  OneSpec'
  <2> DEFINE new == [w.observed[c] EXCEPT !.phase = phase]
  <2>1. /\ new \in CertificateExecutionState
        /\ new.hash = w.observed[c].hash /\ new.nodes = w.observed[c].nodes
    BY <1>1, <1>2 DEF CertificateExecutionState
  <2>2. CertificateDone(c, new, p, stamp)
    BY <1>2
  <2> HIDE DEF new
  <2>3. Settled(w.spec, new)
    BY <1>1, <1>2, <2>1, SettledSame
  <2> QED
    BY <1>0, <1>1, <1>2, <2>1, <2>2, <2>3, ODone
<1>3. ASSUME ObserveError(c) \/ \E n \in Node : CreateJobFails(c, n) \/ CreateJobAnswerLost(c, n)
      PROVE  OneSpec'
  <2>1. /\ Current(c) /\ w.pc \in {"observe", "schedule"}
        /\ CertificateDone(c, [w.observed[c] EXCEPT !.phase = "Pending"], Waiting, TRUE)
    BY <1>3 DEF ObserveError, CreateJobFails, CreateJobAnswerLost, Scheduling, RunError
  <2>2. Waiting \in Progress /\ "Pending" \in ExecutionPhase
    BY DEF Waiting, Progress, ExecutionPhase
  <2> QED
    BY <1>2, <2>1, <2>2
<1>4. CASE FinishRun(c)
  <2> DEFINE phase == deriveWorkflowPhase(w.observed[c].nodes)
             running == phase \in {"Running", "Pending"}
             p == [needsRequeue |-> running, anyInProgress |-> running, anyFailed |-> phase = "Failed"]
  <2>1. /\ Current(c) /\ w.pc \in {"observe", "schedule"}
        /\ CertificateDone(c, [w.observed[c] EXCEPT !.phase = phase], p, isTerminalPhase(phase))
    BY <1>4 DEF FinishRun
  <2>2. phase \in ExecutionPhase
    BY DerivedPhase DEF ExecutionPhase
  <2> HIDE DEF phase
  <2>3. p \in Progress /\ isTerminalPhase(phase) \in BOOLEAN
    BY DEF Progress, isTerminalPhase
  <2> HIDE DEF p
  <2> QED
    BY <1>2, <2>1, <2>2, <2>3
<1>5. ASSUME NEW n \in Node, ObserveNode(c, n) PROVE OneSpec'
  <2>1. Current(c) /\ w.pc = "observe"
    BY <1>5, ObserveNodeEffect
  <2>2. PICK nodes \in [Node -> WorkflowNodeState(JobName)], run \in RunLocals, stamp \in BOOLEAN :
            /\ NodesBecome(c, nodes, "observe", stamp, run)
            /\ nodes[n].phase \in {"Running", "Succeeded", "Failed"}
            /\ PhaseChanges(n, w.observed[c].nodes, nodes)
    BY <1>5, ObserveNodeEffect
  <2>3. \A new : new.hash = w.observed[c].hash /\ new.nodes = nodes => Settled(w.spec, new)
    <3> TAKE new
    <3> HAVE new.hash = w.observed[c].hash /\ new.nodes = nodes
    <3>1. \A m \in Node : \/ new.nodes[m] = w.observed[c].nodes[m]
                          \/ new.nodes[m].phase \in {"Running", "Succeeded", "Failed"}
      BY <2>2 DEF PhaseChanges
    <3> QED
      BY <1>1, <2>1, <3>1, SettledOn
  <2> QED
    BY <1>0, <2>1, <2>2, <2>3, ONodes
<1>6. CASE PlanSchedule(c)
  <2>1. Current(c) /\ w.pc = "observe"
    BY <1>6, PlanScheduleEffect
  <2>2. PICK nodes \in [Node -> WorkflowNodeState(JobName)], run \in RunLocals, stamp \in BOOLEAN :
            /\ NodesBecome(c, nodes, "schedule", stamp, run)
            /\ nodes = applyFailurePolicy(Specs[w.spec].failurePolicy, w.observed[c].nodes,
                                          reverseDeps(Specs[w.spec]), w.run.failedNodes)
    BY <1>6, PlanScheduleEffect
  <2>3. w.run.failedNodes \in SUBSET Node
    BY DEF IInv, TypeOK, Pass, RunLocals
  <2>4. \A new : new.hash = w.observed[c].hash /\ new.nodes = nodes => Settled(w.spec, new)
    BY <1>1, <2>1, <2>2, <2>3, SettledPolicy
  <2> QED
    BY <1>0, <2>1, <2>2, <2>4, ONodes
<1>7. ASSUME NEW n \in Node, AdoptJob(c, n) \/ CreateJob(c, n) PROVE OneSpec'
  <2>1. Scheduling(c, n) /\ NodeScheduled(c, n) /\ Current(c) /\ w.pc = "schedule"
    BY <1>7 DEF AdoptJob, CreateJob, Scheduling
  <2>2. PICK nodes \in [Node -> WorkflowNodeState(JobName)], run \in RunLocals :
            /\ NodesBecome(c, nodes, "schedule", w.restamped, run)
            /\ Starts(n, jobOf(c, n), w.observed[c].nodes, nodes)
    BY <2>1, NodeScheduledEffect
  <2>3. \A new : new.hash = w.observed[c].hash /\ new.nodes = nodes => Settled(w.spec, new)
    <3> TAKE new
    <3> HAVE new.hash = w.observed[c].hash /\ new.nodes = nodes
    <3>1. \A m \in Node : \/ new.nodes[m] = w.observed[c].nodes[m]
                          \/ new.nodes[m].phase \in {"Running", "Succeeded", "Failed"}
      <4> DEFINE old == w.observed[c].nodes
      <4>1. old \in [Node -> WorkflowNodeState(JobName)] /\ Starts(n, jobOf(c, n), old, nodes)
        BY <1>1, <2>1, <2>2 DEF CertificateExecutionState
      <4> HIDE DEF old
      <4>2. \A m \in Node : nodes[m] = old[m] \/ nodes[m].phase = "Running"
        BY <4>1 DEF Starts
      <4> QED
        BY <4>2 DEF old
    <3> QED
      BY <1>1, <2>1, <3>1, SettledOn
  <2> QED
    BY <1>0, <2>1, <2>2, <2>3, ONodes
<1> QED
  BY <1>3, <1>4, <1>5, <1>6, <1>7 DEF RunStep

LEMMA OBegin ==
    ASSUME IInv, OneSpec, BeginPass
    PROVE  OneSpec'
<1>1. UNCHANGED cjob /\ ReadObject \in Pass /\ AllSettled(api.spec, cache.observed)
      /\ cache.spec = api.spec
  BY ReadObjectType DEF BeginPass, ReconcileNotFound, ReconcileInvalidSpec, ReconcileListFailed,
     ReconcileBegin, Dequeue, OneSpec
<1>2. CASE ReconcileNotFound
  BY <1>1, <1>2 DEF ReconcileNotFound, OneSpec, cjob
<1>3. ASSUME w'.observed = ReadObject.observed, w'.spec = ReadObject.spec
      PROVE  OneSpec'
  BY <1>1, <1>3, ReadFields, OPass
<1>4. CASE ReconcileInvalidSpec
  <2>1. w' = [ReadObject EXCEPT !.pc = "update", !.conditions = blocked("InvalidSpec")]
    BY <1>4 DEF ReconcileInvalidSpec
  <2> QED
    BY <1>1, <1>3, <2>1 DEF Pass
<1>5. CASE ReconcileListFailed
  <2>1. w' = [ReadObject EXCEPT !.pc = "update", !.conditions = blocked("ListFailed"),
                                !.failing = TRUE]
    BY <1>5 DEF ReconcileListFailed
  <2> QED
    BY <1>1, <1>3, <2>1 DEF Pass
<1>6. CASE ReconcileBegin
  <2>1. PICK matching, version :
            w' = [ReadObject EXCEPT !.pc = "certificates", !.matched = matching,
                                    !.todo = matching, !.version = version]
    BY <1>6 DEF ReconcileBegin
  <2> QED
    BY <1>1, <1>3, <2>1 DEF Pass
<1> QED
  BY <1>2, <1>4, <1>5, <1>6 DEF BeginPass

LEMMA OEnd ==
    ASSUME IInv, OneSpec, EndPass
    PROVE  OneSpec'
<1>1. CASE FinishPass
  <2> DEFINE observed == filterObservedStates(w.observed, w.matched)
             conditions == applyCertificateJobConditions(w.matched, w.progress)
  <2>1. w \in Pass /\ UNCHANGED cjob /\ w.pc # "idle"
        /\ w' = [w EXCEPT !.pc = "update", !.observed = observed, !.conditions = conditions]
    BY <1>1 DEF FinishPass, IInv, TypeOK, Pass
  <2>2. AllSettled(api.spec, observed)
    BY SettledNothing DEF OneSpec, AllSettled, filterObservedStates
  <2> HIDE DEF observed, conditions
  <2>3. w'.observed = observed /\ w'.spec = w.spec
    BY <2>1 DEF Pass
  <2> QED
    BY <2>1, <2>2, <2>3, OPass DEF OneSpec
<1>2. CASE StatusUnchanged \/ StatusUpdateFails
  <2>1. UNCHANGED cjob /\ w' = Idle
    BY <1>2 DEF StatusUnchanged, StatusUpdateFails, PassReturns
  <2> QED
    BY <2>1, SettledNothing, OPass
<1>3. CASE StatusWritten \/ StatusAnswerLost
  <2>1. /\ api' = [api EXCEPT !.observed = w.observed, !.conditions = w.conditions]
        /\ cache' = cache /\ w' = Idle /\ api \in CertificateJob
    BY <1>3 DEF StatusWritten, StatusAnswerLost, Save, PassReturns, IInv, TypeOK
  <2>2. api'.spec = api.spec /\ api'.observed = w.observed
    BY <2>1 DEF CertificateJob
  <2> QED
    BY <2>1, <2>2, SettledNothing DEF OneSpec
<1> QED
  BY <1>1, <1>2, <1>3 DEF EndPass

\* Users may do anything but edit the spec.
LEMMA OEdit ==
    ASSUME IInv, OneSpec, Edits, api'.spec = api.spec
    PROVE  OneSpec'
<1>1. ASSUME cache' = cache, w' = [w EXCEPT !.fresh = FALSE], AllSettled(api.spec, api'.observed)
      PROVE  OneSpec'
  <2>1. w \in Pass
    BY DEF IInv, TypeOK
  <2>2. w'.pc = w.pc /\ w'.spec = w.spec /\ w'.observed = w.observed
    BY <1>1, <2>1 DEF Pass
  <2> QED
    BY <1>1, <2>2 DEF OneSpec
<1>2. /\ api \in CertificateJob /\ AllSettled(api.spec, api.observed)
      /\ AllSettled(api.spec, NoStatus.observed)
  BY SettledNothing DEF IInv, TypeOK, OneSpec
<1>3. ASSUME NEW s \in SpecId, UpdateSpec(s) \/ CreateCertificateJob(s) PROVE OneSpec'
  <2>1. /\ cache' = cache /\ w' = [w EXCEPT !.fresh = FALSE]
        /\ \/ api' = [api EXCEPT !.spec = s, !.generation = api.generation + 1]
           \/ api' = [api EXCEPT !.exists = TRUE, !.spec = s, !.generation = 1]
    BY <1>3 DEF UpdateSpec, CreateCertificateJob, ObjectChanges
  <2>2. api'.observed = api.observed
    BY <1>2, <2>1 DEF CertificateJob
  <2> QED
    BY <1>1, <1>2, <2>1, <2>2
<1>4. CASE DeleteCertificateJob
  <2>1. /\ cache' = cache /\ w' = [w EXCEPT !.fresh = FALSE]
        /\ api' = [api EXCEPT !.exists = FALSE, !.uid = api.uid + 1,
                              !.observed = NoStatus.observed, !.conditions = NoConditions]
    BY <1>4 DEF DeleteCertificateJob, ObjectChanges
  <2>2. api'.observed = NoStatus.observed
    BY <1>2, <2>1 DEF CertificateJob
  <2> QED
    BY <1>1, <1>2, <2>1, <2>2
<1>5. CASE UNCHANGED <<cjob, w>>
  BY <1>5 DEF OneSpec, cjob
<1>6. \/ \E s \in SpecId : UpdateSpec(s) \/ CreateCertificateJob(s)
      \/ DeleteCertificateJob \/ UNCHANGED <<cjob, w>>
  BY DEF Edits, UpdateCertificate, RelabelCertificate, UpdateSecret, CertificateEvent
<1> QED
  BY <1>3, <1>4, <1>5, <1>6

LEMMA OSpecNext ==
    ASSUME IInv, LInv, OneSpec, [Next]_vars, api'.spec = api.spec
    PROVE  OneSpec'
<1>1. CASE Restart
  <2>1. w' = Idle /\ cache' = api /\ api' = api
    BY <1>1 DEF Restart
  <2> QED
    BY <2>1, SettledNothing DEF OneSpec
<1>2. CASE Watches
  <2>1. w' = w /\ api' = api /\ (cache' = api \/ cache' = cache)
    BY <1>2 DEF Watches, WatchCertificateJob, TimerFires, WatchJob, cjob
  <2> QED
    BY <2>1 DEF OneSpec
<1>3. CASE JobController \/ UNCHANGED vars
  <2>1. UNCHANGED <<cjob, w>>
    BY <1>3 DEF JobController, JobStarts, JobBacksOff, JobCompletes, JobFails, JobDeleted, JobStep,
       vars, cjob
  <2> QED
    BY <2>1 DEF OneSpec, cjob
<1> QED
  BY <1>1, <1>2, <1>3, OBegin, OCertificate, ORunSteps, OEnd, OEdit DEF Next, Worker


-----------------------------------------------------------------------------
(* Jobs *)

\* A Job that never existed comes into being idle; what is done stays done.
LEMMA NewJob ==
    ASSUME IInv, [Next]_vars
    PROVE  /\ done \subseteq done'
           /\ \A k \in JobName : jobs[k] = "none" => jobs'[k] \in {"none", "idle"}
<1>0. jobs \in [JobName -> JobState]
  BY DEF IInv, TypeOK
<1>1. CASE UNCHANGED <<jobs, done>>
  BY <1>1
<1>2. ASSUME NEW l \in JobName, jobs' = [jobs EXCEPT ![l] = "idle"], done' = done
      PROVE  /\ done \subseteq done'
             /\ \A k \in JobName : jobs[k] = "none" => jobs'[k] \in {"none", "idle"}
  BY <1>0, <1>2
<1>3. CASE JobController
  <2>1. PICK l \in JobName : \/ JobStarts(l) \/ JobBacksOff(l) \/ JobCompletes(l)
                             \/ JobFails(l) \/ JobDeleted(l)
    BY <1>3 DEF JobController
  <2>2. PICK from, to : JobStep(l, from, to) /\ "none" \notin from
    BY <2>1, ConstantsAssumption DEF JobStarts, JobBacksOff, JobCompletes, JobFails, JobDeleted
  <2>3. done \subseteq done'
    BY <2>1 DEF JobStarts, JobBacksOff, JobCompletes, JobFails, JobDeleted
  <2> QED
    BY <1>0, <2>2, <2>3 DEF JobStep
<1>4. ASSUME NEW c \in Cert, RunStep(c)
      PROVE  \/ UNCHANGED <<jobs, done>>
             \/ \E l \in JobName : jobs' = [jobs EXCEPT ![l] = "idle"] /\ done' = done
  <2>1. CASE \E n \in Node : CreateJob(c, n) \/ CreateJobAnswerLost(c, n)
    <3>1. PICK n \in Node : Scheduling(c, n) /\ JobCreated(jobOf(c, n))
      BY <2>1 DEF CreateJob, CreateJobAnswerLost
    <3>2. jobOf(c, n) \in JobName
      BY <3>1, JobOfType
    <3> QED
      BY <3>1, <3>2 DEF JobCreated
  <2>2. CASE ~ \E n \in Node : CreateJob(c, n) \/ CreateJobAnswerLost(c, n)
    BY <1>4, <2>2 DEF RunStep, ObserveNode, ObserveError, PlanSchedule, AdoptJob, CreateJobFails,
       FinishRun, cluster
  <2> QED
    BY <2>1, <2>2
<1>5. BeginPass \/ EndPass => UNCHANGED <<jobs, done>>
  BY DEF BeginPass, ReconcileNotFound, ReconcileInvalidSpec, ReconcileListFailed, ReconcileBegin,
     Dequeue, EndPass, FinishPass, StatusUnchanged, StatusWritten, StatusUpdateFails,
     StatusAnswerLost, cluster
<1>6. (\E c \in Cert : HandleCertificate(c)) => UNCHANGED <<jobs, done>>
  BY DEF HandleCertificate, CertificateWithoutSecretName, CertificateSecretUnreadable,
     CertificateFinished, CertificateRun, AtReadableCertificate, AtCertificate, cluster
<1>7. Restart \/ Watches \/ UNCHANGED vars => UNCHANGED <<jobs, done>>
  BY DEF Restart, Watches, WatchCertificateJob, TimerFires, WatchJob, cluster, vars
<1>8. Edits => UNCHANGED <<jobs, done>>
  BY DEF Edits, UpdateSpec, CreateCertificateJob, DeleteCertificateJob, ObjectChanges,
     UpdateCertificate, RelabelCertificate, UpdateSecret, CertificateEvent
<1> QED
  BY <1>1, <1>2, <1>3, <1>4, <1>5, <1>6, <1>7, <1>8 DEF Next, Worker

LEMMA OrderKept ==
    ASSUME IInv, LInv, OInv, [Next]_vars
    PROVE  DependencyOrder'
<1> SUFFICES ASSUME NEW k \in JobName, jobs'[k] # "none",
                    Specs[k.run.spec].failurePolicy # "BestEffort",
                    NEW d \in deps(Specs[k.run.spec])[k.node]
             PROVE  buildJobName(k.cert, d, k.run) \in done'
  BY DEF DependencyOrder, buildJobName
<1>1. done \subseteq done'
  BY NewJob
<1>2. CASE jobs[k] # "none"
  <2>1. buildJobName(k.cert, d, k.run) \in done
    BY <1>2 DEF OInv, DependencyOrder
  <2> QED
    BY <1>1, <2>1
<1>3. CASE jobs[k] = "none"
  <2>1. Missing(jobs[k]) /\ jobs'[k] = "idle"
    BY <1>3, NewJob DEF Missing
  <2>2. PICK c \in Cert, n \in Node : k = jobOf(c, n) /\ Scheduling(c, n)
    BY <2>1, Creation
  <2>3. k.cert = c /\ k.node = n /\ k.run = w.observed[c].hash
    BY <2>2 DEF jobOf, buildJobName
  <2>4. /\ w.pc = "schedule" /\ Current(c) /\ n \in w.run.runnable
    BY <2>2 DEF Scheduling
  <2>5. /\ w.observed[c].hash # NoHash /\ w.observed[c].nodes[n].phase = "Pending"
    BY <2>4, LInRun DEF RunnableOK
  <2>6. Settled(w.spec, w.observed[c])
    BY <2>4 DEF OInv, OneSpec, AllSettled
  <2>7. /\ k.run.spec = w.spec
        /\ w.observed[c].nodes[d].phase # "Skipped"
    BY <2>3, <2>5, <2>6 DEF Settled
  <2>8. buildJobName(k.cert, d, k.run) \in done
    BY <2>1, <2>3, <2>7, CreatedInOrder
  <2> QED
    BY <1>1, <2>8
<1> QED
  BY <1>2, <1>3

\* While nobody edits the spec, a Job exists only if the Jobs of all nodes it
\* depends on, in the same run, have completed, unless the policy is BestEffort:
\* through renewed certificates and secrets, faults, restarts, and deletion and
\* recreation of the object.
THEOREM JobsOrdered == Spec /\ [][api'.spec = api.spec]_vars => []DependencyOrder
<1> DEFINE SpecKept == api'.spec = api.spec
<1>1. Init => OInv
  <2> SUFFICES ASSUME Init PROVE OInv
    OBVIOUS
  <2>1. cache = api /\ w = Idle /\ api.observed = NoStatus.observed
    BY DEF Init
  <2>2. OneSpec
    BY <2>1, SettledNothing DEF OneSpec
  <2>3. DependencyOrder
    BY DEF Init, DependencyOrder
  <2> QED
    BY <2>2, <2>3 DEF OInv
<1>2. IInv /\ LInv /\ OInv /\ [Next]_vars /\ [SpecKept]_vars => OInv'
  <2> SUFFICES ASSUME IInv, LInv, OInv, [Next]_vars, [SpecKept]_vars PROVE OInv'
    OBVIOUS
  <2>1. api'.spec = api.spec
    BY DEF vars, cjob
  <2> QED
    BY <2>1, OSpecNext, OrderKept DEF OInv
<1>3. OInv => DependencyOrder
  BY DEF OInv
<1> HIDE DEF SpecKept
<1>4. Spec /\ [][SpecKept]_vars => []DependencyOrder
  BY <1>1, <1>2, <1>3, LifecycleInvariance, PTL DEF Spec
<1> QED
  BY <1>4 DEF SpecKept
=============================================================================
