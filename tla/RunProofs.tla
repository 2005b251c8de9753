------------------------------ MODULE RunProofs -------------------------------
(***************************************************************************)
(* What one pass of CertificateJobController makes of a run: how many      *)
(* nodes it starts, which ones it skips, that it leaves no run waiting for *)
(* nothing, for which run it creates Jobs, and which spec its conditions   *)
(* are about, for every value of the constants.                            *)
(***************************************************************************)
EXTENDS LifecycleProofs, FiniteSetTheorems

\* A run that is Running has a running node.
Lively(state) == state.phase = "Running" => NodesIn(state.nodes, {"Running"}) # {}

\* A failure of these nodes is why the failure policy skips n.
Caused(spec, failed, n) ==
    /\ failed # {} /\ spec.failurePolicy # "BestEffort"
    /\ spec.failurePolicy = "ContinueIndependent" => n \in descendantNodes(reverseDeps(spec), failed)

\* The nodes that are skipped in new and were not in old, or not in the same run.
NewlySkipped(old, new) ==
    {n \in NodesIn(new.nodes, {"Skipped"}) : old.nodes[n].phase # "Skipped" \/ old.hash # new.hash}

SkipsCaused(spec, old, new) ==
    \A n \in NewlySkipped(old, new) : Caused(spec, NodesIn(new.nodes, {"Failed"}), n)

StartsOK(spec, old, new) ==
    Cardinality(StartedNodes(old, new)) <= requestedParallelism(spec)

\* What a pass may make of the state of a certificate.
Recorded(spec, old, new) ==
    Lively(new) /\ StartsOK(spec, old, new) /\ SkipsCaused(spec, old, new)

\* In observeWorkflowNodeJobs nothing is started or skipped yet; a slot is taken
\* only by a node that was found running.
ObserveOK(spec, old, new, run) ==
    /\ \A n \in spec.jobs : new.nodes[n].phase # "Absent"
    /\ StartedNodes(old, new) = {}
    /\ NewlySkipped(old, new) = {}
    /\ run.failedNodes \subseteq NodesIn(new.nodes, {"Failed"}) \ run.unseen
    /\ run.slots <= requestedParallelism(spec)
    /\ run.slots < requestedParallelism(spec) => NodesIn(new.nodes, {"Running"}) \ run.unseen # {}

\* In scheduleRunnableNodes a started node takes a slot, and when the loop ends
\* the run does not wait for nothing.
ScheduleOK(spec, old, new, run) ==
    /\ StartsOK(spec, old, new)
    /\ Cardinality(StartedNodes(old, new)) + run.slots <= requestedParallelism(spec)
    /\ SkipsCaused(spec, old, new)
    /\ run.slots <= 0 \/ run.runnable = {} => deriveWorkflowPhase(new.nodes) # "Pending"

\* A run that was not read is one of the spec that was.
RunOfSpec(s, old, new) == new.hash = old.hash \/ new.hash.spec = s

SavedLively ==
    \A c \in Cert : /\ Lively(api.observed[c]) /\ Lively(cache.observed[c])
                    /\ Lively(w.base.observed[c])

RunsOK ==
    /\ w.pc \in Handling =>
           /\ buildWorkflowGraph(Specs[w.spec])
           /\ \A c \in w.matched \ w.todo :
                  Recorded(Specs[w.spec], w.base.observed[c], w.observed[c])
    /\ w.pc = "update" =>
           \A c \in Cert : Recorded(Specs[w.spec], w.base.observed[c], w.observed[c])
    /\ w.pc \in {"observe", "schedule"} =>
           \A c \in Cert : Current(c) => RunOfSpec(w.spec, w.base.observed[c], w.observed[c])
    /\ w.pc = "observe" =>
           \A c \in Cert : Current(c) =>
               ObserveOK(Specs[w.spec], w.base.observed[c], w.observed[c], w.run)
    /\ w.pc = "schedule" =>
           \A c \in Cert : Current(c) =>
               ScheduleOK(Specs[w.spec], w.base.observed[c], w.observed[c], w.run)

\* Inductive beside IInv and LInv: slots and failedNodes, locals of the run, count
\* what the pass has found and started so far.
SInv == SavedLively /\ RunsOK

\* The verdict that conditions give on a spec.
Verdict(conditions, s) ==
    conditions.reason = "InvalidSpec" <=> ~ buildWorkflowGraph(Specs[s])

\* What is saved of an object that is gone is gone; conditions are about no later
\* spec than the current one, and those about the current one have its verdict.
SavedVerdict ==
    /\ ~ api.exists => api.conditions = NoConditions
    /\ api.conditions.observedGeneration <= api.generation
    /\ api.conditions.observedGeneration = api.generation => Verdict(api.conditions, api.spec)

\* Inductive beside them: a pass whose status can still be saved has read the
\* current spec, and the conditions it computes are about the spec it has read.
GInv ==
    /\ SavedVerdict
    /\ w.fresh => api.exists /\ w.spec = api.spec /\ w.generation = api.generation
    /\ w.pc = "update" => /\ w.conditions.observedGeneration = w.generation
                          /\ Verdict(w.conditions, w.spec)

-----------------------------------------------------------------------------
(* The pure operators *)

LEMMA Parallelism ==
    ASSUME NEW s \in SpecId
    PROVE  requestedParallelism(Specs[s]) \in Nat /\ requestedParallelism(Specs[s]) >= 1
BY ConstantsAssumption DEF requestedParallelism, WorkflowSpec

\* More failed nodes have more descendants.
LEMMA DescendantsGrow ==
    ASSUME NEW reverse, NEW fewer, NEW more, fewer \subseteq more
    PROVE  descendantNodes(reverse, fewer) \subseteq descendantNodes(reverse, more)
<1>1. ASSUME NEW S, ClosedUnder(reverse, more, S) PROVE ClosedUnder(reverse, fewer, S)
  BY <1>1 DEF ClosedUnder
<1> QED
  BY <1>1 DEF descendantNodes

LEMMA CauseStays ==
    ASSUME NEW spec, NEW fewer, NEW more, fewer \subseteq more, NEW n, Caused(spec, fewer, n)
    PROVE  Caused(spec, more, n)
BY DescendantsGrow DEF Caused

\* What the failure policy skips, it has a cause to skip.
LEMMA PolicySkips ==
    ASSUME NEW spec, spec.failurePolicy \in FailurePolicy,
           NEW nodes \in [Node -> WorkflowNodeState(JobName)], NEW failed, NEW n \in Node,
           applyFailurePolicy(spec.failurePolicy, nodes, reverseDeps(spec), failed)[n] # nodes[n]
    PROVE  Caused(spec, failed, n)
<1> DEFINE policy == spec.failurePolicy
           toSkip == CASE failed = {} \/ policy = "BestEffort" -> {}
                       [] failed # {} /\ policy = "ContinueIndependent" ->
                              descendantNodes(reverseDeps(spec), failed)
                       [] OTHER -> Node
<1>1. applyFailurePolicy(policy, nodes, reverseDeps(spec), failed) =
          [m \in Node |-> IF m \in toSkip /\ nodes[m].phase = "Pending"
                          THEN [nodes[m] EXCEPT !.phase = "Skipped"] ELSE nodes[m]]
  BY DEF applyFailurePolicy
<1> HIDE DEF toSkip
<1>2. n \in toSkip
  BY <1>1
<1>3. failed # {} /\ policy # "BestEffort"
  BY <1>2 DEF toSkip
<1>4. policy = "ContinueIndependent" => toSkip = descendantNodes(reverseDeps(spec), failed)
  BY <1>3 DEF toSkip
<1> QED
  BY <1>2, <1>3, <1>4 DEF Caused

LEMMA NothingStarted ==
    ASSUME NEW s \in SpecId, NEW old, NEW new, StartedNodes(old, new) = {}
    PROVE  /\ StartsOK(Specs[s], old, new)
           /\ Cardinality(StartedNodes(old, new)) = 0
BY Parallelism, FS_EmptySet DEF StartsOK

\* One more node is started.
LEMMA OneStarted ==
    ASSUME NEW old, NEW new, NEW new2, NEW n \in Node,
           \A m \in Node : m # n => new2.nodes[m] = new.nodes[m]
    PROVE  /\ Cardinality(StartedNodes(old, new)) \in Nat
           /\ Cardinality(StartedNodes(old, new2)) \in Nat
           /\ Cardinality(StartedNodes(old, new2)) <= Cardinality(StartedNodes(old, new)) + 1
<1> DEFINE A == StartedNodes(old, new)
           B == StartedNodes(old, new2)
<1>1. A \subseteq Node /\ B \subseteq Node /\ B \subseteq A \cup {n}
  BY DEF StartedNodes
<1> HIDE DEF A, B
<1>2. IsFiniteSet(A)
  BY Zenon, <1>1, NodeAssumption, FS_Subset
<1>3. /\ IsFiniteSet(A \cup {n}) /\ Cardinality(A) \in Nat
      /\ Cardinality(A \cup {n}) \in {Cardinality(A), Cardinality(A) + 1}
  BY <1>2, FS_AddElement, FS_CardinalityType
<1>4. IsFiniteSet(B) /\ Cardinality(B) <= Cardinality(A \cup {n}) /\ Cardinality(B) \in Nat
  BY <1>1, <1>3, FS_Subset, FS_CardinalityType
<1> QED
  BY <1>3, <1>4 DEF A, B

\* In a graph that buildWorkflowGraph accepts, as long as nothing runs and nothing
\* has failed, a pending node can be started.
LEMMA SomethingRunnable ==
    ASSUME NEW spec, buildWorkflowGraph(spec), spec.jobs \subseteq Node,
           NEW nodes \in [Node -> WorkflowNodeState(JobName)],
           \A n \in spec.jobs : nodes[n].phase # "Absent",
           deriveWorkflowPhase(nodes) = "Pending"
    PROVE  runnableNodes(spec.failurePolicy, nodes, deps(spec)) # {}
<1> SUFFICES ASSUME runnableNodes(spec.failurePolicy, nodes, deps(spec)) = {} PROVE FALSE
  OBVIOUS
<1> DEFINE pending == NodesIn(nodes, {"Pending"})
           waiting == pending \cap spec.jobs
           dep == deps(spec)
<1>1. /\ pending # {} /\ pending \subseteq Node
      /\ \A n \in Node : nodes[n].phase \notin {"Failed", "Running"}
  BY DEF deriveWorkflowPhase, NodesIn
<1>2. \A n \in Node : \A d \in dep[n] : d \in Node /\ d \in spec.jobs /\ n \in spec.jobs
  BY DEF deps, buildWorkflowGraph
<1> HIDE DEF dep
<1>3. \A n \in Node : nodes[n].phase \in ExecutionPhase \cup {"Absent"}
  BY DEF WorkflowNodeState
<1>4. \A n \in pending : \E d \in dep[n] : nodes[d].phase \notin {"Succeeded", "Skipped"}
  BY DEF runnableNodes, dep
<1>5. \A n \in pending : n \in spec.jobs /\ \E d \in dep[n] : d \in waiting
  BY <1>1, <1>2, <1>3, <1>4 DEF NodesIn, ExecutionPhase
<1> HIDE DEF pending
<1>6. waiting # {} /\ waiting \in SUBSET spec.jobs /\ \A n \in waiting : dep[n] \cap waiting # {}
  BY <1>1, <1>5
<1> QED
  BY Zenon, <1>6 DEF buildWorkflowGraph, Acyclic, dep

-----------------------------------------------------------------------------
(* Steps of the pass *)

LEMMA RunFields ==
    ASSUME IInv, NEW c \in Cert, NEW state \in CertificateExecutionState, NEW run \in RunLocals,
           NEW stamp \in BOOLEAN, NEW pc \in {"observe", "schedule"},
           Becomes(c, state, pc, stamp, run)
    PROVE  /\ w'.pc = pc /\ w'.run = run /\ w'.todo = w.todo /\ w'.matched = w.matched
           /\ w'.spec = w.spec /\ w'.base = w.base
           /\ w'.fresh = w.fresh /\ w'.generation = w.generation
           /\ w'.observed[c] = state
           /\ \A d \in Cert \ {c} : w'.observed[d] = w.observed[d]
<1>1. w \in Pass /\ w.observed \in Observed
  BY DEF IInv, TypeOK, Pass
<1> DEFINE observed == [w.observed EXCEPT ![c] = state]
<1>2. w' = [w EXCEPT !.pc = pc, !.observed = observed, !.restamped = stamp, !.run = run]
  BY DEF Becomes
<1> HIDE DEF observed
<1>3. /\ w'.pc = pc /\ w'.run = run /\ w'.todo = w.todo /\ w'.matched = w.matched
      /\ w'.spec = w.spec /\ w'.base = w.base /\ w'.observed = observed
      /\ w'.fresh = w.fresh /\ w'.generation = w.generation
  BY <1>1, <1>2 DEF Pass
<1> QED
  BY <1>1, <1>3 DEF observed, Observed

\* The pass keeps what it has read of the object while it goes through the
\* certificates.
Keeps == /\ api' = api /\ w'.spec = w.spec /\ w'.generation = w.generation
         /\ w'.fresh = w.fresh /\ w'.pc # "update"

LEMMA DoneKeeps ==
    ASSUME IInv, NEW c \in Cert, NEW state, NEW p, NEW restamped,
           CertificateDone(c, state, p, restamped), UNCHANGED cjob
    PROVE  Keeps
<1> DEFINE progress == merge(w.progress, p)
           stamp == w.restamped \/ restamped
           observed == [w.observed EXCEPT ![c] = state]
           todo == w.todo \ {c}
<1>1. w \in Pass
  BY DEF IInv, TypeOK
<1>2. w' = [w EXCEPT !.pc = "certificates", !.observed = observed, !.todo = todo,
                     !.progress = progress, !.restamped = stamp, !.run = NoRun]
  BY <1>1 DEF CertificateDone, Pass
<1> HIDE DEF progress, stamp, observed, todo
<1> QED
  BY <1>1, <1>2 DEF Pass, Keeps, cjob

LEMMA BecomesKeeps ==
    ASSUME IInv, NEW c \in Cert, NEW state \in CertificateExecutionState, NEW run \in RunLocals,
           NEW stamp \in BOOLEAN, NEW pc \in {"observe", "schedule"},
           Becomes(c, state, pc, stamp, run), UNCHANGED cjob
    PROVE  Keeps
<1>1. /\ w'.pc = pc /\ w'.spec = w.spec /\ w'.fresh = w.fresh /\ w'.generation = w.generation
  BY RunFields
<1> QED
  BY <1>1 DEF Keeps, cjob

LEMMA NodesKeep ==
    ASSUME IInv, NEW c \in Cert, NEW nodes \in [Node -> WorkflowNodeState(JobName)],
           NEW run \in RunLocals, NEW stamp \in BOOLEAN, NEW pc \in {"observe", "schedule"},
           NodesBecome(c, nodes, pc, stamp, run), UNCHANGED cjob
    PROVE  Keeps
<1> DEFINE new == [w.observed[c] EXCEPT !.nodes = nodes]
<1>1. new \in CertificateExecutionState
  BY InRun DEF CertificateExecutionState
<1>2. Becomes(c, new, pc, stamp, run)
  BY DEF NodesBecome
<1> HIDE DEF new
<1> QED
  BY <1>1, <1>2, BecomesKeeps

LEMMA CertificateKeeps ==
    ASSUME IInv, NEW c \in Cert, HandleCertificate(c)
    PROVE  Keeps
<1>0. UNCHANGED cjob
  BY Zenon DEF HandleCertificate, CertificateWithoutSecretName, CertificateSecretUnreadable,
     CertificateFinished, CertificateRun, AtReadableCertificate, AtCertificate
<1>1. CASE CertificateRun(c)
  <2>1. PICK new \in CertificateExecutionState, run \in RunLocals, stamp \in BOOLEAN :
            Becomes(c, new, "observe", stamp, run)
    BY <1>1, CertificateRunEffect
  <2> QED
    BY <1>0, <2>1, BecomesKeeps
<1>2. CASE ~ CertificateRun(c)
  <2>1. \E state, p, stamp : CertificateDone(c, state, p, stamp)
    BY Zenon, <1>2 DEF HandleCertificate, CertificateWithoutSecretName, CertificateSecretUnreadable,
       CertificateFinished
  <2> QED
    BY <1>0, <2>1, DoneKeeps
<1> QED
  BY <1>1, <1>2

LEMMA RunKeeps ==
    ASSUME IInv, NEW c \in Cert, RunStep(c)
    PROVE  Keeps
<1>1. ASSUME ObserveError(c) \/ FinishRun(c)
             \/ \E n \in Node : CreateJobFails(c, n) \/ CreateJobAnswerLost(c, n)
      PROVE  Keeps
  <2>1. UNCHANGED cjob /\ \E state, p, stamp : CertificateDone(c, state, p, stamp)
    BY Zenon, <1>1 DEF ObserveError, FinishRun, CreateJobFails, CreateJobAnswerLost, RunError
  <2> QED
    BY <2>1, DoneKeeps
<1>2. ASSUME NEW n \in Node, AdoptJob(c, n) \/ CreateJob(c, n)
      PROVE  Keeps
  <2>1. Scheduling(c, n) /\ NodeScheduled(c, n) /\ UNCHANGED cjob /\ w.restamped \in BOOLEAN
    BY <1>2, InRun DEF AdoptJob, CreateJob, Pass
  <2>2. PICK nodes \in [Node -> WorkflowNodeState(JobName)], run \in RunLocals :
            NodesBecome(c, nodes, "schedule", w.restamped, run)
    BY Zenon, <2>1, NodeScheduledEffect
  <2> QED
    BY <2>1, <2>2, NodesKeep
<1>3. ASSUME NEW n \in Node, ObserveNode(c, n) PROVE Keeps
  <2>1. PICK nodes \in [Node -> WorkflowNodeState(JobName)], run \in RunLocals, stamp \in BOOLEAN :
            NodesBecome(c, nodes, "observe", stamp, run)
    BY <1>3, ObserveNodeEffect
  <2>2. UNCHANGED cjob
    BY Zenon, <1>3 DEF ObserveNode
  <2> QED
    BY Zenon, <2>1, <2>2, NodesKeep
<1>4. CASE PlanSchedule(c)
  <2>1. PICK nodes \in [Node -> WorkflowNodeState(JobName)], run \in RunLocals, stamp \in BOOLEAN :
            NodesBecome(c, nodes, "schedule", stamp, run)
    BY Zenon, <1>4, PlanScheduleEffect
  <2>2. UNCHANGED cjob
    BY Zenon, <1>4 DEF PlanSchedule
  <2> QED
    BY Zenon, <2>1, <2>2, NodesKeep
<1> QED
  BY <1>1, <1>2, <1>3, <1>4 DEF RunStep

LEMMA LivelyStays ==
    ASSUME SInv, UNCHANGED cjob, w'.base = w.base
    PROVE  SavedLively'
BY DEF SInv, SavedLively, cjob

\* The current certificate goes on with its run.
LEMMA SRun ==
    ASSUME IInv, LInv, SInv, NEW c \in Cert, Current(c), w.pc \in Handling,
           NEW state \in CertificateExecutionState, NEW run \in RunLocals, NEW stamp \in BOOLEAN,
           NEW pc \in {"observe", "schedule"}, Becomes(c, state, pc, stamp, run), UNCHANGED cjob,
           RunOfSpec(w.spec, w.base.observed[c], state),
           pc = "observe" => ObserveOK(Specs[w.spec], w.base.observed[c], state, run),
           pc = "schedule" => ScheduleOK(Specs[w.spec], w.base.observed[c], state, run)
    PROVE  SInv'
<1>1. /\ w'.pc = pc /\ w'.run = run /\ w'.todo = w.todo /\ w'.matched = w.matched
      /\ w'.spec = w.spec /\ w'.base = w.base
      /\ w'.observed[c] = state
      /\ \A d \in Cert \ {c} : w'.observed[d] = w.observed[d]
  BY RunFields
<1>2. /\ buildWorkflowGraph(Specs[w.spec])
      /\ \A d \in w.matched \ w.todo : Recorded(Specs[w.spec], w.base.observed[d], w.observed[d])
  BY DEF SInv, RunsOK
<1>3. c \in w.todo /\ w.matched \subseteq Cert
  BY DEF Current, IInv, TypeOK, Pass
<1>4. \A d \in Cert : Current(d)' => d = c
  BY <1>1, CurrentUnique DEF Current
<1>5. \A d \in w'.matched \ w'.todo : Recorded(Specs[w'.spec], w'.base.observed[d], w'.observed[d])
  BY <1>1, <1>2, <1>3
<1>6. RunsOK'
  BY <1>1, <1>2, <1>4, <1>5 DEF RunsOK
<1> QED
  BY <1>1, <1>6, LivelyStays DEF SInv

\* The current certificate leaves the pass.
LEMMA SDone ==
    ASSUME IInv, LInv, SInv, NEW c \in Cert, Current(c), w.pc \in Handling,
           NEW state \in CertificateExecutionState, NEW p \in Progress, NEW restamped \in BOOLEAN,
           CertificateDone(c, state, p, restamped), UNCHANGED cjob,
           Recorded(Specs[w.spec], w.base.observed[c], state)
    PROVE  SInv'
<1>1. /\ w'.pc = "certificates" /\ w'.observed = [w.observed EXCEPT ![c] = state]
      /\ w'.todo = w.todo \ {c} /\ w'.matched = w.matched /\ w'.spec = w.spec
      /\ w'.base = w.base /\ w.observed \in Observed /\ w.matched \subseteq Cert
  BY DoneFields
<1>2. w'.observed[c] = state /\ \A d \in Cert \ {c} : w'.observed[d] = w.observed[d]
  BY <1>1 DEF Observed
<1>3. /\ buildWorkflowGraph(Specs[w.spec])
      /\ \A d \in w.matched \ w.todo : Recorded(Specs[w.spec], w.base.observed[d], w.observed[d])
  BY DEF SInv, RunsOK
<1>4. \A d \in w'.matched \ w'.todo : Recorded(Specs[w'.spec], w'.base.observed[d], w'.observed[d])
  BY <1>1, <1>2, <1>3
<1>5. RunsOK'
  BY <1>1, <1>3, <1>4 DEF RunsOK, Handling
<1> QED
  BY <1>1, <1>5, LivelyStays DEF SInv

\* A state whose nodes and run stay may be recorded.
LEMMA Kept ==
    ASSUME NEW s \in SpecId, NEW old, NEW new, new.nodes = old.nodes, new.hash = old.hash, Lively(new)
    PROVE  Recorded(Specs[s], old, new)
<1>1. StartedNodes(old, new) = {} /\ NewlySkipped(old, new) = {}
  BY DEF StartedNodes, NewlySkipped, NodesIn
<1> QED
  BY <1>1, NothingStarted DEF Recorded, SkipsCaused

LEMMA SpecRead ==
    ASSUME IInv
    PROVE  /\ w.spec \in SpecId /\ Specs[w.spec].jobs \subseteq Node
           /\ Specs[w.spec].failurePolicy \in FailurePolicy
<1>1. w.spec \in SpecId
  BY DEF IInv, TypeOK, Pass
<1>2. Specs[w.spec] \in WorkflowSpec(Label)
  BY <1>1, ConstantsAssumption
<1> QED
  BY <1>1, <1>2 DEF WorkflowSpec

-----------------------------------------------------------------------------
(* The branches of reconcileObservedCertificate *)

\* reconcileCertificateRun begins with all its slots.
LEMMA SlotsAtFirst ==
    ASSUME IInv, NEW c \in Cert, CertificateRun(c)
    PROVE  w'.run.slots = requestedParallelism(Specs[w.spec])
<1> DEFINE nodes == ensureWorkflowNodeStates(Specs[w.spec], CertificateState(c).nodes)
           unseen == {n \in Node : nodes[n].job # NoJob}
           slots == requestedParallelism(Specs[w.spec])
           run == [NoRun EXCEPT !.unseen = unseen, !.slots = slots]
           state == [CertificateState(c) EXCEPT !.nodes = nodes]
           stamp == w.restamped \/ CertificateState(c).hash # buildInputHash(c)
<1>1. w \in Pass
  BY DEF IInv, TypeOK
<1>2. w' = [w EXCEPT !.pc = "observe", !.observed[c] = state, !.restamped = stamp, !.run = run]
  BY <1>1 DEF CertificateRun, Pass
<1>3. run.slots = slots
  BY DEF NoRun
<1> HIDE DEF run, state, stamp, slots
<1>4. w'.run = run
  BY <1>1, <1>2 DEF Pass
<1> QED
  BY <1>3, <1>4 DEF slots

\* A run that applyInputHashTransition starts is one of the spec that was read.
LEMMA TransitionSpec ==
    ASSUME IInv, LInv, NEW c \in Cert, AtCertificate(c)
    PROVE  RunOfSpec(w.spec, w.observed[c], CertificateState(c))
<1>1. ensureObservedCertificateState(c).hash = w.observed[c].hash
  BY EnsuredFields
<1> QED
  BY <1>1 DEF RunOfSpec, CertificateState, applyInputHashTransition, buildInputHash

\* The nodes of the state that a run begins with, beside those that were read.
LEMMA RunBegins ==
    ASSUME IInv, LInv, NEW c \in Cert, AtCertificate(c), w.version[c] # 0,
           NEW new \in CertificateExecutionState, new.hash = CertificateState(c).hash,
           AddsPending(Specs[w.spec].jobs, CertificateState(c).nodes, new.nodes)
    PROVE  StartedNodes(w.observed[c], new) = {} /\ NewlySkipped(w.observed[c], new) = {}
<1> DEFINE old == w.observed[c]
           state == CertificateState(c)
<1>1. \A n \in Node : new.nodes[n] = state.nodes[n] \/ new.nodes[n] = PendingNode
  BY DEF AddsPending
<1>2. CASE \A n \in Node : state.nodes[n].job = NoJob /\ state.nodes[n].phase \in {"Absent", "Pending"}
  <2> HIDE DEF old, state
  <2>1. \A n \in Node : new.nodes[n].job = NoJob /\ new.nodes[n].phase \in {"Absent", "Pending"}
    BY <1>1, <1>2 DEF PendingNode
  <2> QED
    BY <2>1 DEF StartedNodes, NewlySkipped, NodesIn, old
<1>3. CASE state = old
  <2>1. new.hash = old.hash /\ \A n \in Node : new.nodes[n] = old.nodes[n] \/ new.nodes[n] = PendingNode
    BY <1>1, <1>3
  <2> HIDE DEF old, state
  <2>2. StartedNodes(old, new) = {}
    BY <2>1 DEF StartedNodes, PendingNode
  <2>3. NewlySkipped(old, new) = {}
    BY <2>1 DEF NewlySkipped, NodesIn, PendingNode
  <2> QED
    BY <2>2, <2>3 DEF old
<1> QED
  BY <1>2, <1>3, Transition

LEMMA SCertificateRun ==
    ASSUME IInv, LInv, SInv, NEW c \in Cert, CertificateRun(c)
    PROVE  SInv'
<1>0. AtCertificate(c) /\ w.version[c] # 0
  BY DEF CertificateRun, AtReadableCertificate
<1>1. /\ Current(c) /\ w.pc = "certificates" /\ w.pc \in Handling /\ UNCHANGED cjob
      /\ w.observed[c] = w.base.observed[c]
  BY <1>0, AtBase DEF Handling
<1>2. PICK new \in CertificateExecutionState, run \in RunLocals, stamp \in BOOLEAN :
          /\ Becomes(c, new, "observe", stamp, run)
          /\ run.failedNodes = {} /\ new.hash = CertificateState(c).hash
          /\ AddsPending(Specs[w.spec].jobs, CertificateState(c).nodes, new.nodes)
          /\ \A n \in Specs[w.spec].jobs : n \in Node => new.nodes[n].phase # "Absent"
  BY CertificateRunEffect
<1>3. StartedNodes(w.base.observed[c], new) = {} /\ NewlySkipped(w.base.observed[c], new) = {}
  BY <1>0, <1>1, <1>2, RunBegins
<1>4. Becomes(c, new, "observe", stamp, run)
  BY <1>2
<1>5. w'.run = run
  BY <1>4, RunFields
<1>6. run.slots = requestedParallelism(Specs[w.spec]) /\ requestedParallelism(Specs[w.spec]) \in Nat
  BY <1>5, SlotsAtFirst, SpecRead, Parallelism
<1>7. \A n \in Specs[w.spec].jobs : new.nodes[n].phase # "Absent"
  BY <1>2, SpecRead
<1>8. run.failedNodes = {}
  BY <1>2
<1>9. ObserveOK(Specs[w.spec], w.base.observed[c], new, run)
  BY <1>3, <1>6, <1>7, <1>8 DEF ObserveOK
<1>10. RunOfSpec(w.spec, w.base.observed[c], new)
  BY <1>0, <1>1, <1>2, TransitionSpec DEF RunOfSpec
<1> QED
  BY <1>1, <1>4, <1>9, <1>10, SRun

LEMMA SCertificate ==
    ASSUME IInv, LInv, SInv, NEW c \in Cert, HandleCertificate(c)
    PROVE  SInv'
<1> DEFINE old == w.observed[c]
           mid == ensureObservedCertificateState(c)
<1>0. AtCertificate(c)
  BY Zenon DEF HandleCertificate, CertificateWithoutSecretName, CertificateSecretUnreadable,
     CertificateFinished, CertificateRun, AtReadableCertificate
<1>1. /\ Current(c) /\ w.pc \in Handling /\ UNCHANGED cjob
      /\ old = w.base.observed[c] /\ old \in CertificateExecutionState
  BY <1>0, AtBase DEF Handling
<1>2. /\ mid \in CertificateExecutionState /\ mid.hash = old.hash /\ mid.nodes = old.nodes
      /\ mid = old \/ mid.phase = "Pending"
  BY <1>0, EnsuredFields
<1>3. Lively(old) /\ w.spec \in SpecId
  BY <1>1, SpecRead DEF SInv, SavedLively
<1> HIDE DEF mid
<1>4. \A phase \in {"Failed", "Pending"} :
          LET new == [mid EXCEPT !.phase = phase] IN
          /\ new \in CertificateExecutionState /\ new.phase = phase
          /\ new.hash = old.hash /\ new.nodes = old.nodes
  BY <1>2 DEF CertificateExecutionState, ExecutionPhase
<1>5. ASSUME NEW new \in CertificateExecutionState, NEW p \in Progress, NEW stamp \in BOOLEAN,
             CertificateDone(c, new, p, stamp), new.hash = old.hash, new.nodes = old.nodes,
             new = old \/ new.phase # "Running"
      PROVE  SInv'
  <2>1. Lively(new)
    BY <1>3, <1>5 DEF Lively
  <2>2. Recorded(Specs[w.spec], w.base.observed[c], new)
    BY <1>1, <1>3, <1>5, <2>1, Kept
  <2> QED
    BY <1>1, <1>5, <2>2, SDone
<1>6. CASE CertificateWithoutSecretName(c)
  <2>1. CertificateDone(c, [mid EXCEPT !.phase = "Failed"], FailedProgress(TRUE), TRUE)
    BY Zenon, <1>6 DEF CertificateWithoutSecretName, mid
  <2> QED
    BY Zenon, <1>4, <1>5, <2>1, ProgressFields
<1>7. CASE CertificateSecretUnreadable(c)
  <2>1. CASE isTerminalPhase(mid.phase)
    <3>1. CertificateDone(c, mid, NoProgress, FALSE)
      BY Zenon, <1>7, <2>1 DEF CertificateSecretUnreadable, mid
    <3>2. mid.phase # "Running"
      BY <2>1 DEF isTerminalPhase
    <3> QED
      BY Zenon, <1>2, <1>5, <3>1, <3>2, ProgressFields
  <2>2. CASE ~ isTerminalPhase(mid.phase)
    <3>1. CertificateDone(c, [mid EXCEPT !.phase = "Pending"], Waiting, TRUE)
      BY Zenon, <1>7, <2>2 DEF CertificateSecretUnreadable, mid
    <3> QED
      BY Zenon, <1>4, <1>5, <3>1, ProgressFields
  <2> QED
    BY <2>1, <2>2
<1>8. CASE CertificateFinished(c)
  <2> DEFINE new == CertificateState(c)
  <2>1. /\ w.version[c] # 0 /\ isTerminalPhase(new.phase)
        /\ CertificateDone(c, new, FailedProgress(new.phase = "Failed"), FALSE)
    BY Zenon, <1>8 DEF CertificateFinished, AtReadableCertificate
  <2>2. new = old
    BY <1>0, <2>1, Transition DEF isTerminalPhase
  <2> HIDE DEF new
  <2>3. (new.phase = "Failed") \in BOOLEAN
    OBVIOUS
  <2> QED
    BY Zenon, <1>1, <1>5, <2>1, <2>2, <2>3, ProgressFields
<1> QED
  BY <1>6, <1>7, <1>8, SCertificateRun DEF HandleCertificate

-----------------------------------------------------------------------------
(* Steps of reconcileCertificateRun *)

\* What every step of a run may use.
LEMMA SInRun ==
    ASSUME IInv, LInv, SInv, NEW c \in Cert, Current(c), w.pc \in {"observe", "schedule"}
    PROVE  /\ w.pc \in Handling /\ buildWorkflowGraph(Specs[w.spec])
           /\ RunOfSpec(w.spec, w.base.observed[c], w.observed[c])
           /\ w.pc = "observe" =>
                  ObserveOK(Specs[w.spec], w.base.observed[c], w.observed[c], w.run)
           /\ w.pc = "schedule" =>
                  ScheduleOK(Specs[w.spec], w.base.observed[c], w.observed[c], w.run)
BY DEF SInv, RunsOK, Handling

LEMMA LocalTypes ==
    ASSUME NEW run \in RunLocals
    PROVE  /\ run.unseen \subseteq Node /\ run.failedNodes \subseteq Node /\ run.runnable \subseteq Node
           /\ run.slots \in Int
BY DEF RunLocals

\* The nodes of the current certificate change.
LEMMA SNodes ==
    ASSUME IInv, LInv, SInv, NEW c \in Cert, Current(c), w.pc \in {"observe", "schedule"},
           NEW nodes \in [Node -> WorkflowNodeState(JobName)], NEW run \in RunLocals,
           NEW stamp \in BOOLEAN, NEW pc \in {"observe", "schedule"},
           NodesBecome(c, nodes, pc, stamp, run), UNCHANGED cjob,
           \A new \in CertificateExecutionState :
               new.hash = w.observed[c].hash /\ new.nodes = nodes =>
                   /\ pc = "observe" => ObserveOK(Specs[w.spec], w.base.observed[c], new, run)
                   /\ pc = "schedule" => ScheduleOK(Specs[w.spec], w.base.observed[c], new, run)
    PROVE  SInv'
<1> DEFINE new == [w.observed[c] EXCEPT !.nodes = nodes]
<1>1. /\ new \in CertificateExecutionState
      /\ new.hash = w.observed[c].hash /\ new.nodes = nodes
  BY LInRun DEF CertificateExecutionState
<1>2. Becomes(c, new, pc, stamp, run)
  BY DEF NodesBecome
<1> HIDE DEF new
<1>3. RunOfSpec(w.spec, w.base.observed[c], new)
  BY <1>1, SInRun DEF RunOfSpec
<1> QED
  BY <1>1, <1>2, <1>3, SInRun, SRun

LEMMA NodesFields ==
    ASSUME IInv, NEW c \in Cert, NEW nodes \in [Node -> WorkflowNodeState(JobName)],
           NEW run \in RunLocals, NEW stamp \in BOOLEAN, NEW pc \in {"observe", "schedule"},
           NodesBecome(c, nodes, pc, stamp, run)
    PROVE  w'.run = run /\ w'.observed[c].nodes = nodes
<1> DEFINE new == [w.observed[c] EXCEPT !.nodes = nodes]
<1>1. new \in CertificateExecutionState /\ new.nodes = nodes
  BY InRun DEF CertificateExecutionState
<1>2. Becomes(c, new, pc, stamp, run)
  BY DEF NodesBecome
<1> HIDE DEF new
<1> QED
  BY <1>1, <1>2, RunFields

\* observeWorkflowNodeJobs takes a slot for a node it finds running, and notes a
\* node it finds failed.
LEMMA ObserveLocals ==
    ASSUME IInv, NEW c \in Cert, NEW n \in Node, ObserveNode(c, n)
    PROVE  LET phase == w'.observed[c].nodes[n].phase IN
           /\ \/ w'.run.slots = w.run.slots
              \/ w'.run.slots = w.run.slots - 1 /\ phase = "Running"
           /\ \/ w'.run.failedNodes = w.run.failedNodes
              \/ w'.run.failedNodes = w.run.failedNodes \cup {n} /\ phase = "Failed"
<1> DEFINE node  == w.observed[c].nodes[n]
           state == jobCache[node.job]
           phase == observedPhase(node.phase, state)
           counted == state = "active" \/ (state = "idle" /\ node.phase = "Pending")
           failed  == state = "failed" \/ Missing(state)
           slots == IF counted THEN w.run.slots - 1 ELSE w.run.slots
           failedNodes == IF failed THEN w.run.failedNodes \cup {n} ELSE w.run.failedNodes
           run == [w.run EXCEPT !.unseen = w.run.unseen \ {n}, !.slots = slots,
                                !.failedNodes = failedNodes]
           stamp == w.restamped \/ isTerminalPhase(phase)
<1>1. w \in Pass /\ w.run \in RunLocals /\ w.observed \in Observed
  BY InRun
<1>2. counted => phase = "Running"
  BY Zenon DEF observedPhase, Missing
<1>3. failed => phase = "Failed"
  BY Zenon DEF observedPhase, Missing
<1>4. w' = [w EXCEPT !.observed[c].nodes[n].phase = phase, !.restamped = stamp, !.run = run]
  <2>1. run = [w.run EXCEPT !.unseen = @ \ {n}, !.slots = IF counted THEN @ - 1 ELSE @,
                            !.failedNodes = IF failed THEN @ \cup {n} ELSE @]
    BY <1>1 DEF RunLocals
  <2>2. w' = [w EXCEPT !.observed[c].nodes[n].phase = phase,
                       !.restamped = @ \/ isTerminalPhase(phase), !.run = run]
    BY <2>1 DEF ObserveNode
  <2> HIDE DEF run, phase
  <2> QED
    BY <1>1, <2>2 DEF Pass
<1>5. slots = w.run.slots \/ (slots = w.run.slots - 1 /\ phase = "Running")
  BY Zenon, <1>2
<1>6. \/ failedNodes = w.run.failedNodes
      \/ failedNodes = w.run.failedNodes \cup {n} /\ phase = "Failed"
  BY Zenon, <1>3
<1>7. run.slots = slots /\ run.failedNodes = failedNodes
  BY <1>1 DEF RunLocals
<1> HIDE DEF run, phase, stamp, slots, failedNodes
<1>8. w'.run = run
  BY <1>1, <1>4 DEF Pass
<1>9. w'.observed[c].nodes[n].phase = phase
  <2>1. w'.observed = [w.observed EXCEPT ![c].nodes[n].phase = phase]
    BY <1>1, <1>4 DEF Pass
  <2>2. /\ w.observed[c] \in CertificateExecutionState
        /\ w.observed[c].nodes \in [Node -> WorkflowNodeState(JobName)]
    BY <1>1 DEF Observed, CertificateExecutionState
  <2> QED
    BY <1>1, <2>1, <2>2 DEF Observed, CertificateExecutionState, WorkflowNodeState
<1> QED
  BY <1>5, <1>6, <1>7, <1>8, <1>9

LEMMA SObserve ==
    ASSUME IInv, LInv, SInv, NEW c \in Cert, NEW n \in Node, ObserveNode(c, n)
    PROVE  SInv'
<1> DEFINE base == w.base.observed[c]
           old == w.observed[c]
           spec == Specs[w.spec]
           p == requestedParallelism(spec)
<1>1. Current(c) /\ n \in w.run.unseen /\ w.pc = "observe" /\ UNCHANGED cjob
  BY ObserveNodeEffect
<1>2. PICK nodes \in [Node -> WorkflowNodeState(JobName)], run \in RunLocals, stamp \in BOOLEAN :
          /\ NodesBecome(c, nodes, "observe", stamp, run)
          /\ run.unseen = w.run.unseen \ {n}
          /\ nodes[n].phase \in {"Running", "Succeeded", "Failed"}
          /\ PhaseChanges(n, old.nodes, nodes)
  BY ObserveNodeEffect
<1>3. NodesBecome(c, nodes, "observe", stamp, run)
  BY <1>2
<1>4. /\ \/ run.slots = w.run.slots
         \/ run.slots = w.run.slots - 1 /\ nodes[n].phase = "Running"
      /\ \/ run.failedNodes = w.run.failedNodes
         \/ run.failedNodes = w.run.failedNodes \cup {n} /\ nodes[n].phase = "Failed"
  <2>1. w'.run = run /\ w'.observed[c].nodes = nodes
    BY <1>3, NodesFields
  <2> QED
    BY <2>1, ObserveLocals
<1>5. ObserveOK(spec, base, old, w.run)
  BY <1>1, SInRun
<1>6. w.run \in RunLocals /\ p \in Nat /\ spec.jobs \subseteq Node
  BY InRun, SpecRead, Parallelism
<1>7. /\ run.unseen = w.run.unseen \ {n}
      /\ nodes[n].phase \in {"Running", "Succeeded", "Failed"}
      /\ \A m \in Node : nodes[m].job = old.nodes[m].job /\ (m # n => nodes[m] = old.nodes[m])
  BY <1>2 DEF PhaseChanges
<1> HIDE DEF base, old, spec, p
<1>8. ASSUME NEW new \in CertificateExecutionState, new.hash = old.hash, new.nodes = nodes
      PROVE  ObserveOK(spec, base, new, run)
  <2>1. StartedNodes(base, new) = {}
    BY Zenon, <1>5, <1>7, <1>8 DEF ObserveOK, StartedNodes
  <2>2. NewlySkipped(base, new) = {}
    BY <1>5, <1>7, <1>8 DEF ObserveOK, NewlySkipped, NodesIn
  <2>3. \A m \in spec.jobs : new.nodes[m].phase # "Absent"
    BY <1>5, <1>6, <1>7, <1>8 DEF ObserveOK
  <2>4. run.failedNodes \subseteq NodesIn(new.nodes, {"Failed"}) \ run.unseen
    BY <1>1, <1>4, <1>5, <1>7, <1>8 DEF ObserveOK, NodesIn
  <2>5. w.run.slots \in Int /\ p \in Int /\ w.run.slots <= p
    BY <1>5, <1>6, LocalTypes DEF ObserveOK, p
  <2>6. ASSUME run.slots < p PROVE NodesIn(new.nodes, {"Running"}) \ run.unseen # {}
    <3>1. CASE w.run.slots < p
      <4>1. PICK m \in NodesIn(old.nodes, {"Running"}) : m \notin w.run.unseen
        BY <1>5, <3>1 DEF ObserveOK, p
      <4> QED
        BY Zenon, <1>1, <1>7, <1>8, <4>1 DEF NodesIn
    <3>2. CASE nodes[n].phase = "Running"
      BY <1>7, <1>8, <3>2 DEF NodesIn
    <3> QED
      BY <1>4, <2>5, <2>6, <3>1, <3>2
  <2>7. run.slots <= p
    BY <1>4, <2>5
  <2> QED
    BY <2>1, <2>2, <2>3, <2>4, <2>6, <2>7 DEF ObserveOK, p
<1>9. \A new \in CertificateExecutionState :
          new.hash = w.observed[c].hash /\ new.nodes = nodes =>
              ObserveOK(Specs[w.spec], w.base.observed[c], new, run)
  BY <1>8 DEF base, old, spec
<1> QED
  BY <1>1, <1>3, <1>9, SNodes

\* A plan takes no slot, and holds every runnable node if there is one.
LEMMA PlanLocals ==
    ASSUME IInv, NEW c \in Cert, PlanSchedule(c)
    PROVE  /\ w'.run.slots = w.run.slots
           /\ w.run.slots > 0 =>
                  w'.run.runnable = runnableNodes(Specs[w.spec].failurePolicy,
                                                  w'.observed[c].nodes, deps(Specs[w.spec]))
<1> DEFINE spec  == Specs[w.spec]
           nodes == applyFailurePolicy(spec.failurePolicy, w.observed[c].nodes,
                                       reverseDeps(spec), w.run.failedNodes)
           runnable == IF w.run.slots > 0
                       THEN runnableNodes(spec.failurePolicy, nodes, deps(spec)) ELSE {}
<1>1. w \in Pass /\ w.run \in RunLocals /\ w.observed \in Observed
  BY InRun
<1>2. w' = [w EXCEPT !.pc = "schedule", !.observed[c].nodes = nodes, !.run.runnable = runnable]
  BY DEF PlanSchedule
<1>3. w.run.slots > 0 => runnable = runnableNodes(spec.failurePolicy, nodes, deps(spec))
  OBVIOUS
<1> HIDE DEF nodes, runnable
<1>4. w'.run = [w.run EXCEPT !.runnable = runnable]
  BY <1>1, <1>2 DEF Pass
<1>5. w'.run.slots = w.run.slots /\ w'.run.runnable = runnable
  BY <1>1, <1>4 DEF RunLocals
<1>6. w'.observed[c].nodes = nodes
  <2>1. w'.observed = [w.observed EXCEPT ![c].nodes = nodes]
    BY <1>1, <1>2 DEF Pass
  <2> QED
    BY <1>1, <2>1 DEF Observed, CertificateExecutionState
<1> QED
  BY <1>3, <1>5, <1>6

\* A running node keeps the derived phase from being Pending.
LEMMA RunningDerived ==
    ASSUME NEW nodes, NEW n \in Node, nodes[n].phase = "Running"
    PROVE  deriveWorkflowPhase(nodes) # "Pending"
BY DEF deriveWorkflowPhase, NodesIn

LEMMA SPlan ==
    ASSUME IInv, LInv, SInv, NEW c \in Cert, PlanSchedule(c)
    PROVE  SInv'
<1> DEFINE base == w.base.observed[c]
           old == w.observed[c]
           spec == Specs[w.spec]
           p == requestedParallelism(spec)
<1>1. Current(c) /\ w.run.unseen = {} /\ w.pc = "observe" /\ UNCHANGED cjob
  BY PlanScheduleEffect
<1>2. PICK nodes \in [Node -> WorkflowNodeState(JobName)], run \in RunLocals, stamp \in BOOLEAN :
          /\ NodesBecome(c, nodes, "schedule", stamp, run)
          /\ nodes = applyFailurePolicy(spec.failurePolicy, old.nodes, reverseDeps(spec),
                                        w.run.failedNodes)
          /\ SkipsPending(old.nodes, nodes, w.run.failedNodes)
  BY PlanScheduleEffect
<1>3. NodesBecome(c, nodes, "schedule", stamp, run)
  BY <1>2
<1>4. /\ run.slots = w.run.slots
      /\ w.run.slots > 0 => run.runnable = runnableNodes(spec.failurePolicy, nodes, deps(spec))
  <2>1. w'.run = run /\ w'.observed[c].nodes = nodes
    BY <1>3, NodesFields
  <2> QED
    BY <2>1, PlanLocals
<1>5. ObserveOK(spec, base, old, w.run) /\ buildWorkflowGraph(spec)
  BY <1>1, SInRun
<1>6. /\ w.run.slots \in Int /\ p \in Nat /\ p >= 1 /\ spec.jobs \subseteq Node
      /\ spec.failurePolicy \in FailurePolicy /\ w.spec \in SpecId
  BY InRun, SpecRead, Parallelism, LocalTypes
<1>7. \A n \in Node : nodes[n] # old.nodes[n] => Caused(spec, w.run.failedNodes, n)
  <2>1. old.nodes \in [Node -> WorkflowNodeState(JobName)]
    BY InRun DEF CertificateExecutionState
  <2>2. nodes = applyFailurePolicy(spec.failurePolicy, old.nodes, reverseDeps(spec),
                                   w.run.failedNodes)
    BY <1>2
  <2> HIDE DEF old, spec
  <2> QED
    BY <1>6, <2>1, <2>2, PolicySkips
<1>8. \A n \in Node : \/ nodes[n] = old.nodes[n]
                      \/ /\ old.nodes[n].phase = "Pending"
                         /\ nodes[n].phase = "Skipped" /\ nodes[n].job = old.nodes[n].job
  <2>1. SkipsPending(old.nodes, nodes, w.run.failedNodes)
    BY <1>2
  <2> HIDE DEF old
  <2> QED
    BY <2>1 DEF SkipsPending
<1>9. /\ StartedNodes(base, old) = {} /\ NewlySkipped(base, old) = {}
      /\ w.run.failedNodes \subseteq NodesIn(old.nodes, {"Failed"})
      /\ w.run.slots <= p
      /\ w.run.slots < p => NodesIn(old.nodes, {"Running"}) # {}
      /\ \A n \in spec.jobs : old.nodes[n].phase # "Absent"
  BY <1>5 DEF ObserveOK
<1> HIDE DEF base, old, p
<1>10. ASSUME NEW new \in CertificateExecutionState, new.hash = old.hash, new.nodes = nodes
       PROVE  ScheduleOK(spec, base, new, run)
  <2>1. StartedNodes(base, new) = {}
    BY <1>8, <1>9, <1>10 DEF StartedNodes
  <2>2. StartsOK(spec, base, new) /\ Cardinality(StartedNodes(base, new)) = 0
    BY <1>6, <2>1, NothingStarted
  <2> HIDE DEF spec
  <2>3. Cardinality(StartedNodes(base, new)) + run.slots <= requestedParallelism(spec)
    BY <1>4, <1>6, <1>9, <2>2 DEF p
  <2>4. SkipsCaused(spec, base, new)
    <3> SUFFICES ASSUME NEW n \in NewlySkipped(base, new)
                 PROVE  Caused(spec, NodesIn(new.nodes, {"Failed"}), n)
      BY DEF SkipsCaused
    <3>1. n \in Node /\ nodes[n] # old.nodes[n]
      BY <1>9, <1>10 DEF NewlySkipped, NodesIn
    <3>2. Caused(spec, w.run.failedNodes, n)
      BY <1>7, <3>1
    <3>3. w.run.failedNodes \subseteq NodesIn(new.nodes, {"Failed"})
      BY <1>8, <1>9, <1>10 DEF NodesIn
    <3> QED
      BY <3>2, <3>3, CauseStays
  <2>5. ASSUME run.slots <= 0 \/ run.runnable = {} PROVE deriveWorkflowPhase(nodes) # "Pending"
    <3>1. CASE run.slots <= 0
      <4>1. PICK n \in Node : old.nodes[n].phase = "Running"
        BY <1>4, <1>6, <1>9, <3>1 DEF NodesIn
      <4>2. nodes[n].phase = "Running"
        BY <1>8, <4>1
      <4> QED
        BY <4>2, RunningDerived
    <3>2. CASE run.slots > 0
      <4>1. runnableNodes(spec.failurePolicy, nodes, deps(spec)) = {}
        BY <1>4, <1>6, <2>5, <3>2
      <4>2. \A n \in spec.jobs : nodes[n].phase # "Absent"
        BY <1>6, <1>8, <1>9
      <4> QED
        BY <1>5, <1>6, <4>1, <4>2, SomethingRunnable
    <3> QED
      BY <1>4, <1>6, <3>1, <3>2
  <2> QED
    BY Zenon, <1>10, <2>2, <2>3, <2>4, <2>5 DEF ScheduleOK
<1>11. \A new \in CertificateExecutionState :
          new.hash = w.observed[c].hash /\ new.nodes = nodes =>
              ScheduleOK(Specs[w.spec], w.base.observed[c], new, run)
  BY <1>10 DEF base, old, spec
<1> QED
  BY <1>1, <1>3, <1>11, SNodes

LEMMA SScheduled ==
    ASSUME IInv, LInv, SInv, NEW c \in Cert, NEW n \in Node, Scheduling(c, n), NodeScheduled(c, n),
           UNCHANGED cjob
    PROVE  SInv'
<1> DEFINE base == w.base.observed[c]
           old == w.observed[c]
           spec == Specs[w.spec]
           p == requestedParallelism(spec)
<1>1. /\ Current(c) /\ n \in w.run.runnable /\ w.pc = "schedule" /\ w.restamped \in BOOLEAN
      /\ w.run.slots > 0
  BY DEF Scheduling, IInv, TypeOK, Pass
<1>2. PICK nodes \in [Node -> WorkflowNodeState(JobName)], run \in RunLocals :
          /\ NodesBecome(c, nodes, "schedule", w.restamped, run)
          /\ Starts(n, jobOf(c, n), old.nodes, nodes)
  BY NodeScheduledEffect
<1>3. NodesBecome(c, nodes, "schedule", w.restamped, run)
  BY <1>2
<1>4. w.run.slots \in Int /\ p \in Nat /\ w.spec \in SpecId
  BY InRun, SpecRead, Parallelism, LocalTypes
<1>5. run.slots = w.run.slots - 1
  <2>1. w'.run = run
    BY <1>1, <1>3, NodesFields
  <2> DEFINE runnable == w.run.runnable \ {n}
             slots == w.run.slots - 1
             started == [w.run EXCEPT !.runnable = runnable, !.slots = slots]
  <2>2. started = [w.run EXCEPT !.runnable = @ \ {n}, !.slots = @ - 1] /\ started.slots = slots
    BY InRun DEF RunLocals
  <2>3. w' = [w EXCEPT !.observed[c].nodes[n] = [phase |-> "Running", job |-> jobOf(c, n)],
                       !.run = started]
    BY <2>2 DEF NodeScheduled
  <2> HIDE DEF started
  <2>4. w'.run = started
    BY Zenon, <2>3, InRun DEF Pass
  <2> QED
    BY <2>1, <2>2, <2>4
<1>6. ScheduleOK(spec, base, old, w.run) /\ RunnableOK(spec, old, w.run)
  BY Zenon, <1>1, SInRun, LInRun
<1>7. nodes[n].phase = "Running" /\ \A m \in Node : m # n => nodes[m] = old.nodes[m]
  <2>1. old.nodes \in [Node -> WorkflowNodeState(JobName)]
    BY InRun DEF CertificateExecutionState
  <2> QED
    BY <1>2, <2>1 DEF Starts
<1>8. old.nodes[n].phase = "Pending"
  BY <1>1, <1>6 DEF RunnableOK
<1> HIDE DEF base, old, spec, p
<1>9. ASSUME NEW new \in CertificateExecutionState, new.hash = old.hash, new.nodes = nodes
      PROVE  ScheduleOK(spec, base, new, run)
  <2> DEFINE before == Cardinality(StartedNodes(base, old))
             after == Cardinality(StartedNodes(base, new))
  <2>1. \A m \in Node : m # n => new.nodes[m] = old.nodes[m]
    BY <1>7, <1>9
  <2>2. before \in Nat /\ after \in Nat /\ after <= before + 1
    BY <2>1, OneStarted
  <2>3. before + w.run.slots <= p
    BY <1>6 DEF ScheduleOK, p
  <2>4. after + run.slots <= p /\ after <= p
    <3> DEFINE slots == w.run.slots
               left == run.slots
    <3>1. slots \in Int /\ slots > 0 /\ p \in Nat /\ left = slots - 1 /\ before + slots <= p
      BY <1>1, <1>4, <1>5, <2>3
    <3> HIDE DEF before, after, slots
    <3>2. after + left <= p /\ after <= p
      <4> HIDE DEF left
      <4> QED
        BY <2>2, <3>1
    <3> QED
      BY <3>2
  <2> HIDE DEF before, after
  <2>5. SkipsCaused(spec, base, new)
    <3> SUFFICES ASSUME NEW m \in NewlySkipped(base, new)
                 PROVE  Caused(spec, NodesIn(new.nodes, {"Failed"}), m)
      BY DEF SkipsCaused
    <3>1. m \in NewlySkipped(base, old)
      BY <1>7, <1>9 DEF NewlySkipped, NodesIn
    <3>2. Caused(spec, NodesIn(old.nodes, {"Failed"}), m)
      BY <1>6, <3>1 DEF ScheduleOK, SkipsCaused
    <3>3. NodesIn(old.nodes, {"Failed"}) \subseteq NodesIn(new.nodes, {"Failed"})
      BY <1>7, <1>8, <1>9 DEF NodesIn
    <3> QED
      BY <3>2, <3>3, CauseStays
  <2>6. deriveWorkflowPhase(new.nodes) # "Pending"
    BY Zenon, <1>7, <1>9, RunningDerived
  <2> QED
    BY <2>4, <2>5, <2>6 DEF ScheduleOK, StartsOK, after, p
<1>10. \A new \in CertificateExecutionState :
          new.hash = w.observed[c].hash /\ new.nodes = nodes =>
              ScheduleOK(Specs[w.spec], w.base.observed[c], new, run)
  BY <1>9 DEF base, old, spec
<1> QED
  BY Zenon, <1>1, <1>3, <1>10, SNodes

\* A run that ends, with an error or without, may be recorded.
LEMMA RunRecorded ==
    ASSUME IInv, LInv, SInv, NEW c \in Cert, Current(c), w.pc \in {"observe", "schedule"},
           NEW new, new.nodes = w.observed[c].nodes, new.hash = w.observed[c].hash, Lively(new)
    PROVE  Recorded(Specs[w.spec], w.base.observed[c], new)
<1> DEFINE base == w.base.observed[c]
           old == w.observed[c]
<1>1. /\ StartedNodes(base, new) = StartedNodes(base, old)
      /\ NewlySkipped(base, new) = NewlySkipped(base, old)
  BY DEF StartedNodes, NewlySkipped
<1>2. CASE w.pc = "observe"
  <2>1. StartedNodes(base, new) = {} /\ NewlySkipped(base, new) = {}
    BY Zenon, <1>1, <1>2, SInRun DEF ObserveOK
  <2>2. StartsOK(Specs[w.spec], base, new)
    BY <2>1, NothingStarted, SpecRead
  <2> QED
    BY <2>1, <2>2 DEF Recorded, SkipsCaused
<1>3. CASE w.pc = "schedule"
  <2>1. StartsOK(Specs[w.spec], base, old) /\ SkipsCaused(Specs[w.spec], base, old)
    BY Zenon, <1>3, SInRun DEF ScheduleOK
  <2> QED
    BY <1>1, <2>1 DEF Recorded, StartsOK, SkipsCaused
<1> QED
  BY <1>2, <1>3

LEMMA SRunError ==
    ASSUME IInv, LInv, SInv, NEW c \in Cert, Current(c), w.pc \in {"observe", "schedule"},
           RunError(c), UNCHANGED cjob
    PROVE  SInv'
<1> DEFINE new == [w.observed[c] EXCEPT !.phase = "Pending"]
<1>1. /\ new \in CertificateExecutionState /\ new.phase = "Pending"
      /\ new.hash = w.observed[c].hash /\ new.nodes = w.observed[c].nodes
  BY LInRun DEF CertificateExecutionState, ExecutionPhase
<1>2. CertificateDone(c, new, Waiting, TRUE)
  BY Zenon DEF RunError
<1> HIDE DEF new
<1>3. Recorded(Specs[w.spec], w.base.observed[c], new)
  BY <1>1, RunRecorded DEF Lively
<1> QED
  BY Zenon, <1>1, <1>2, <1>3, SInRun, ProgressFields, SDone

LEMMA SFinishRun ==
    ASSUME IInv, LInv, SInv, NEW c \in Cert, FinishRun(c)
    PROVE  SInv'
<1> DEFINE phase == deriveWorkflowPhase(w.observed[c].nodes)
           running == phase \in {"Running", "Pending"}
           failed == phase = "Failed"
           p == [needsRequeue |-> running, anyInProgress |-> running, anyFailed |-> failed]
           new == [w.observed[c] EXCEPT !.phase = phase]
<1>1. /\ CertificateDone(c, new, p, isTerminalPhase(phase))
      /\ w.pc = "schedule" /\ Current(c) /\ UNCHANGED cjob
  BY DEF FinishRun
<1>2. phase \in ExecutionPhase
  BY DerivedPhase DEF ExecutionPhase
<1>3. phase = "Running" => NodesIn(w.observed[c].nodes, {"Running"}) # {}
  BY DEF deriveWorkflowPhase
<1> HIDE DEF phase
<1>4. p \in Progress /\ isTerminalPhase(phase) \in BOOLEAN
  <2>1. running \in BOOLEAN /\ failed \in BOOLEAN /\ isTerminalPhase(phase) \in BOOLEAN
    BY DEF isTerminalPhase
  <2> HIDE DEF running, failed
  <2> QED
    BY <2>1 DEF Progress
<1> HIDE DEF p
<1>5. /\ new \in CertificateExecutionState /\ new.phase = phase
      /\ new.hash = w.observed[c].hash /\ new.nodes = w.observed[c].nodes
  BY <1>1, <1>2, LInRun DEF CertificateExecutionState
<1> HIDE DEF new
<1>6. Recorded(Specs[w.spec], w.base.observed[c], new)
  BY <1>1, <1>3, <1>5, RunRecorded DEF Lively
<1> QED
  BY <1>1, <1>4, <1>5, <1>6, SInRun, SDone

LEMMA SRunSteps ==
    ASSUME IInv, LInv, SInv, NEW c \in Cert, RunStep(c)
    PROVE  SInv'
<1>1. ASSUME ObserveError(c) \/ \E n \in Node : CreateJobFails(c, n) \/ CreateJobAnswerLost(c, n)
      PROVE  SInv'
  <2>1. Current(c) /\ w.pc \in {"observe", "schedule"} /\ RunError(c) /\ UNCHANGED cjob
    BY <1>1 DEF ObserveError, CreateJobFails, CreateJobAnswerLost, Scheduling
  <2> QED
    BY <2>1, SRunError
<1>2. ASSUME NEW n \in Node, AdoptJob(c, n) \/ CreateJob(c, n)
      PROVE  SInv'
  <2>1. Scheduling(c, n) /\ NodeScheduled(c, n) /\ UNCHANGED cjob
    BY <1>2 DEF AdoptJob, CreateJob
  <2> QED
    BY <2>1, SScheduled
<1> QED
  BY <1>1, <1>2, SObserve, SPlan, SFinishRun DEF RunStep

-----------------------------------------------------------------------------
(* Begin and end of the pass, and everyone else *)

LEMMA NotObservedLively == Lively(NotObserved)
BY DEF Lively, NotObserved

\* A certificate that is forgotten.
LEMMA ForgottenRecorded ==
    ASSUME NEW s \in SpecId, NEW old
    PROVE  Recorded(Specs[s], old, NotObserved)
<1>1. StartedNodes(old, NotObserved) = {} /\ NewlySkipped(old, NotObserved) = {}
  BY DEF StartedNodes, NewlySkipped, NodesIn, NotObserved, NoNodes
<1> QED
  BY <1>1, NothingStarted, NotObservedLively DEF Recorded, SkipsCaused

\* A pass begins with the object that was read.
LEMMA SBegin ==
    ASSUME IInv, LInv, SInv, BeginPass
    PROVE  SInv'
<1>0. UNCHANGED cjob
  BY DEF BeginPass, ReconcileNotFound, ReconcileInvalidSpec, ReconcileListFailed, ReconcileBegin,
     Dequeue
<1>1. ReadObject \in Pass /\ cache.spec \in SpecId
  BY ReadObjectType DEF IInv, TypeOK, CertificateJob
<1>2. ASSUME w'.base.observed = cache.observed PROVE SavedLively'
  BY <1>0, <1>2 DEF SInv, SavedLively, cjob
<1>3. \A c \in Cert : Recorded(Specs[cache.spec], cache.observed[c], cache.observed[c])
  BY <1>1, Kept DEF SInv, SavedLively
<1>4. CASE ReconcileInvalidSpec \/ ReconcileListFailed
  <2>1. \/ w' = [ReadObject EXCEPT !.pc = "update", !.conditions = blocked("InvalidSpec")]
        \/ w' = [ReadObject EXCEPT !.pc = "update", !.conditions = blocked("ListFailed"),
                                   !.failing = TRUE]
    BY <1>4 DEF ReconcileInvalidSpec, ReconcileListFailed
  <2>2. /\ w'.pc = "update" /\ w'.observed = cache.observed /\ w'.base.observed = cache.observed
        /\ w'.spec = cache.spec
    BY Zenon, <1>1, <2>1, ReadFields DEF Pass
  <2>3. RunsOK'
    BY <1>3, <2>2 DEF RunsOK, Handling
  <2> QED
    BY <1>2, <2>2, <2>3 DEF SInv
<1>5. CASE ReconcileBegin
  <2> DEFINE matching == {c \in Cert : selectorMatches(cache.spec, cert[c].label)}
             version == [c \in Cert |-> IF c \in matching /\ cert[c].hasSecretName
                                        THEN cert[c].version ELSE 0]
  <2>1. /\ w' = [ReadObject EXCEPT !.pc = "certificates", !.matched = matching,
                                   !.todo = matching, !.version = version]
        /\ buildWorkflowGraph(Specs[cache.spec])
    BY <1>5 DEF ReconcileBegin
  <2> HIDE DEF matching, version
  <2>2. /\ w'.pc = "certificates" /\ w'.todo = matching /\ w'.matched = matching
        /\ w'.base.observed = cache.observed /\ w'.spec = cache.spec
    BY <1>1, <2>1, ReadFields DEF Pass
  <2>3. RunsOK'
    BY Zenon, <2>1, <2>2 DEF RunsOK, Handling
  <2> QED
    BY <1>2, <2>2, <2>3 DEF SInv
<1>6. CASE ReconcileNotFound
  BY <1>0, <1>6 DEF ReconcileNotFound, SInv, SavedLively, RunsOK, cjob, Current
<1> QED
  BY <1>4, <1>5, <1>6 DEF BeginPass

LEMMA SFinishPass ==
    ASSUME IInv, LInv, SInv, FinishPass
    PROVE  SInv'
<1> DEFINE observed == filterObservedStates(w.observed, w.matched)
           conditions == applyCertificateJobConditions(w.matched, w.progress)
<1>1. w \in Pass /\ w.matched \subseteq Cert /\ w.pc = "certificates" /\ w.todo = {} /\ UNCHANGED cjob
  BY DEF IInv, TypeOK, Pass, FinishPass
<1>2. \A c \in Cert : observed[c] = IF c \in w.matched THEN w.observed[c] ELSE NotObserved
  BY DEF filterObservedStates
<1>3. w' = [w EXCEPT !.pc = "update", !.observed = observed, !.conditions = conditions]
  BY <1>1 DEF FinishPass, Pass
<1> HIDE DEF observed, conditions
<1>4. w'.pc = "update" /\ w'.observed = observed /\ w'.base = w.base /\ w'.spec = w.spec
  BY <1>1, <1>3 DEF Pass
<1>5. \A c \in w.matched : Recorded(Specs[w.spec], w.base.observed[c], w.observed[c])
  BY Zenon, <1>1 DEF SInv, RunsOK, Handling
<1>6. \A c \in Cert : Recorded(Specs[w.spec], w.base.observed[c], observed[c])
  BY Zenon, <1>2, <1>5, ForgottenRecorded, SpecRead
<1>7. RunsOK'
  BY Zenon, <1>4, <1>6 DEF RunsOK, Handling
<1> QED
  BY <1>1, <1>4, <1>7, LivelyStays DEF SInv

\* The worker is idle after the step.
LEMMA SIdle ==
    ASSUME w' = Idle, \A c \in Cert : Lively(api'.observed[c]) /\ Lively(cache'.observed[c])
    PROVE  SInv'
<1>1. w'.pc = "idle" /\ \A c \in Cert : Lively(w'.base.observed[c])
  BY IdleShape, NotObservedLively
<1> QED
  BY <1>1 DEF SInv, SavedLively, RunsOK, Handling

\* What the spec of the pass allows a step to make of the saved states.
Allowed == \A c \in Cert : Recorded(Specs[w.spec], api.observed[c], api'.observed[c])

LEMMA SameAllowed ==
    ASSUME IInv, SInv, api'.observed = api.observed
    PROVE  Allowed
BY Kept, SpecRead DEF Allowed, SInv, SavedLively

LEMMA SSave ==
    ASSUME IInv, LInv, SInv, w.pc = "update", w.fresh, Save, w' = Idle
    PROVE  SInv' /\ Allowed
<1>1. api'.observed = w.observed /\ cache' = cache
  BY DEF Save, IInv, TypeOK, CertificateJob
<1>2. /\ \A c \in Cert : /\ Recorded(Specs[w.spec], w.base.observed[c], w.observed[c])
                         /\ Lively(cache.observed[c])
      /\ w.base.observed = api.observed
  BY DEF LInv, SavedOK, SInv, SavedLively, RunsOK
<1>3. \A c \in Cert : Lively(api'.observed[c])
  BY <1>1, <1>2 DEF Recorded
<1> QED
  BY <1>1, <1>2, <1>3, SIdle DEF Allowed

LEMMA SEnd ==
    ASSUME IInv, LInv, SInv, EndPass
    PROVE  SInv' /\ Allowed
<1>1. CASE FinishPass
  <2>1. api'.observed = api.observed
    BY <1>1 DEF FinishPass, cjob
  <2> QED
    BY <1>1, <2>1, SFinishPass, SameAllowed
<1>2. CASE StatusUnchanged \/ StatusUpdateFails
  <2>1. w' = Idle /\ UNCHANGED <<api, cache>>
    BY <1>2 DEF StatusUnchanged, StatusUpdateFails, PassReturns, cjob
  <2>2. \A c \in Cert : Lively(api.observed[c]) /\ Lively(cache.observed[c])
    BY DEF SInv, SavedLively
  <2> QED
    BY <2>1, <2>2, SIdle, SameAllowed
<1>3. CASE StatusWritten \/ StatusAnswerLost
  <2>1. w.pc = "update" /\ w.fresh /\ Save /\ w' = Idle
    BY <1>3 DEF StatusWritten, StatusAnswerLost, PassReturns
  <2> QED
    BY <2>1, SSave
<1> QED
  BY <1>1, <1>2, <1>3 DEF EndPass

LEMMA SRestart ==
    ASSUME IInv, LInv, SInv, Restart
    PROVE  SInv' /\ Allowed
<1>1. w' = Idle /\ api' = api /\ cache' = api
  BY DEF Restart
<1>2. \A c \in Cert : Lively(api.observed[c])
  BY DEF SInv, SavedLively
<1> QED
  BY <1>1, <1>2, SIdle, SameAllowed

\* A step of someone who touches neither the CertificateJob nor the pass.
LEMMA SElsewhere ==
    ASSUME IInv, SInv, UNCHANGED <<cjob, w>>
    PROVE  SInv' /\ Allowed
<1>1. SavedLively'
  BY DEF SInv, SavedLively, cjob
<1>2. RunsOK'
  BY Zenon DEF SInv, RunsOK, Current
<1>3. api'.observed = api.observed
  BY DEF cjob
<1> QED
  BY <1>1, <1>2, <1>3, SameAllowed DEF SInv

LEMMA SWatch ==
    ASSUME IInv, SInv, Watches
    PROVE  SInv' /\ Allowed
<1>1. CASE WatchCertificateJob
  <2>1. UNCHANGED <<api, w>> /\ cache' = api
    BY <1>1 DEF WatchCertificateJob
  <2>2. SavedLively'
    BY <2>1 DEF SInv, SavedLively
  <2>3. RunsOK'
    BY Zenon, <2>1 DEF SInv, RunsOK, Current
  <2> QED
    BY <2>1, <2>2, <2>3, SameAllowed DEF SInv
<1>2. CASE TimerFires \/ \E k \in JobName : WatchJob(k)
  <2>1. UNCHANGED <<cjob, w>>
    BY <1>2 DEF TimerFires, WatchJob
  <2> QED
    BY <2>1, SElsewhere
<1> QED
  BY <1>1, <1>2 DEF Watches

\* The object changes; its status stays or is emptied.
LEMMA SObject ==
    ASSUME IInv, SInv, NEW new \in CertificateJob, ObjectChanges(new),
           new.observed = api.observed \/ new.observed = NoStatus.observed
    PROVE  SInv' /\ Allowed
<1>1. w \in Pass /\ w' = [w EXCEPT !.fresh = FALSE] /\ api' = new /\ cache' = cache
  BY DEF IInv, TypeOK, ObjectChanges
<1>2. /\ w'.pc = w.pc /\ w'.todo = w.todo /\ w'.matched = w.matched /\ w'.spec = w.spec
      /\ w'.base = w.base /\ w'.observed = w.observed /\ w'.run = w.run
  BY <1>1 DEF Pass
<1>3. \A c \in Cert : NoStatus.observed[c] = NotObserved
  BY DEF NoStatus
<1>4. Allowed
  <2>1. CASE new.observed = api.observed
    BY <1>1, <2>1, SameAllowed
  <2>2. CASE new.observed = NoStatus.observed
    BY <1>1, <1>3, <2>2, SpecRead, ForgottenRecorded DEF Allowed
  <2> QED
    BY <2>1, <2>2
<1>5. \A c \in Cert : Lively(new.observed[c])
  BY <1>1, <1>4 DEF Allowed, Recorded
<1>6. SavedLively'
  BY Zenon, <1>1, <1>2, <1>5 DEF SInv, SavedLively
<1>7. RunsOK'
  BY <1>2 DEF SInv, RunsOK, Current
<1> QED
  BY <1>4, <1>6, <1>7 DEF SInv

\* The three ways in which a user changes the object.
LEMMA ObjectEdits ==
    ASSUME IInv, Edits, ~ UNCHANGED <<cjob, w>>
    PROVE  \E new \in CertificateJob :
               /\ ObjectChanges(new)
               /\ \/ \E s \in SpecId : /\ api.exists
                                       /\ new = [api EXCEPT !.spec = s, !.generation = api.generation + 1]
                  \/ \E s \in SpecId : /\ ~ api.exists
                                       /\ new = [api EXCEPT !.exists = TRUE, !.spec = s, !.generation = 1]
                  \/ \E uid \in Version :
                         new = [api EXCEPT !.exists = FALSE, !.uid = uid,
                                           !.observed = NoStatus.observed, !.conditions = NoConditions]
<1>0. api \in CertificateJob /\ api' \in CertificateJob
  BY EditSteps DEF IInv, TypeOK
<1>1. ASSUME NEW s \in SpecId, UpdateSpec(s)
      PROVE  /\ ObjectChanges([api EXCEPT !.spec = s, !.generation = api.generation + 1])
             /\ api' = [api EXCEPT !.spec = s, !.generation = api.generation + 1]
             /\ api.exists
  BY <1>0, <1>1 DEF UpdateSpec, ObjectChanges, CertificateJob
<1>2. ASSUME NEW s \in SpecId, CreateCertificateJob(s)
      PROVE  /\ ObjectChanges([api EXCEPT !.exists = TRUE, !.spec = s, !.generation = 1])
             /\ api' = [api EXCEPT !.exists = TRUE, !.spec = s, !.generation = 1]
             /\ ~ api.exists
  BY <1>2 DEF CreateCertificateJob, ObjectChanges
<1>3. ASSUME DeleteCertificateJob
      PROVE  \E uid \in Version :
                 LET new == [api EXCEPT !.exists = FALSE, !.uid = uid,
                                        !.observed = NoStatus.observed, !.conditions = NoConditions]
                 IN  ObjectChanges(new) /\ api' = new
  <2> DEFINE uid == api.uid + 1
             new == [api EXCEPT !.exists = FALSE, !.uid = uid,
                                !.observed = NoStatus.observed, !.conditions = NoConditions]
  <2>1. ObjectChanges(new) /\ api' = new
    BY <1>0, <1>3 DEF DeleteCertificateJob, ObjectChanges, CertificateJob
  <2>2. uid = api'.uid
    <3> HIDE DEF uid
    <3> QED
      BY <1>0, <2>1 DEF CertificateJob
  <2>3. uid \in Version
    BY <1>0, <2>2 DEF CertificateJob
  <2> QED
    BY Zenon, <2>1, <2>3
<1>4. \/ \E s \in SpecId : UpdateSpec(s) \/ CreateCertificateJob(s)
      \/ DeleteCertificateJob
  <2>1. (\E c \in Cert : \/ \E b \in BOOLEAN : UpdateCertificate(c, b)
                         \/ \E l \in Label : RelabelCertificate(c, l)
                         \/ \E s \in Secret : UpdateSecret(c, s)) => UNCHANGED <<cjob, w>>
    BY Zenon DEF UpdateCertificate, RelabelCertificate, UpdateSecret, CertificateEvent
  <2> QED
    BY <2>1 DEF Edits
<1>5. CASE \E s \in SpecId : UpdateSpec(s)
  BY Zenon, <1>0, <1>1, <1>5
<1>6. CASE \E s \in SpecId : CreateCertificateJob(s)
  BY Zenon, <1>0, <1>2, <1>6
<1>7. CASE DeleteCertificateJob
  BY Zenon, <1>0, <1>3, <1>7
<1> QED
  BY Zenon, <1>4, <1>5, <1>6, <1>7

LEMMA SEdit ==
    ASSUME IInv, SInv, Edits
    PROVE  SInv' /\ Allowed
<1>1. CASE UNCHANGED <<cjob, w>>
  BY <1>1, SElsewhere
<1>2. CASE ~ UNCHANGED <<cjob, w>>
  <2>1. PICK new \in CertificateJob :
            /\ ObjectChanges(new)
            /\ \/ \E s \in SpecId : new = [api EXCEPT !.spec = s, !.generation = api.generation + 1]
               \/ \E s \in SpecId : new = [api EXCEPT !.exists = TRUE, !.spec = s, !.generation = 1]
               \/ \E uid \in Version :
                      new = [api EXCEPT !.exists = FALSE, !.uid = uid,
                                        !.observed = NoStatus.observed, !.conditions = NoConditions]
    BY Zenon, <1>2, ObjectEdits
  <2>2. new.observed = api.observed \/ new.observed = NoStatus.observed
    BY Zenon, <2>1 DEF IInv, TypeOK, CertificateJob
  <2>3. ObjectChanges(new)
    BY Zenon, <2>1
  <2> QED
    BY <2>2, <2>3, SObject
<1> QED
  BY <1>1, <1>2

LEMMA SInit == Init => SInv
<1> SUFFICES ASSUME Init PROVE SInv
  OBVIOUS
<1>1. cache = api /\ api.observed = NoStatus.observed /\ w = Idle
  <2>1. api \in [exists : {TRUE}, uid : {1}, spec : SpecId, generation : {1},
                 observed : {NoStatus.observed}, conditions : {NoConditions}]
    BY Zenon DEF Init
  <2> QED
    BY <2>1 DEF Init
<1>2. SavedLively
  BY <1>1, IdleShape, NotObservedLively DEF SavedLively, NoStatus
<1> QED
  BY <1>1, <1>2, IdleShape DEF SInv, RunsOK, Handling

LEMMA SNext ==
    ASSUME IInv, LInv, SInv, [Next]_vars
    PROVE  SInv' /\ Allowed
<1>1. CASE BeginPass
  <2>1. api' = api
    BY <1>1 DEF BeginPass, ReconcileNotFound, ReconcileInvalidSpec, ReconcileListFailed,
       ReconcileBegin, Dequeue, cjob
  <2> QED
    BY Zenon, <1>1, <2>1, SBegin, SameAllowed
<1>2. ASSUME NEW c \in Cert, HandleCertificate(c) PROVE SInv' /\ Allowed
  <2>1. api' = api
    BY Zenon, <1>2 DEF HandleCertificate, CertificateWithoutSecretName, CertificateSecretUnreadable,
       CertificateFinished, CertificateRun, AtReadableCertificate, AtCertificate, cjob
  <2> QED
    BY <1>2, <2>1, SCertificate, SameAllowed
<1>3. ASSUME NEW c \in Cert, RunStep(c) PROVE SInv' /\ Allowed
  <2>1. api' = api
    BY Zenon, <1>3 DEF RunStep, ObserveNode, ObserveError, PlanSchedule, AdoptJob, CreateJob,
       CreateJobFails, CreateJobAnswerLost, FinishRun, cjob
  <2> QED
    BY <1>3, <2>1, SRunSteps, SameAllowed
<1>4. CASE JobController
  <2>1. UNCHANGED <<cjob, w>>
    BY <1>4 DEF JobController, JobStarts, JobBacksOff, JobCompletes, JobFails, JobDeleted, JobStep
  <2> QED
    BY <2>1, SElsewhere
<1>5. CASE UNCHANGED vars
  <2>1. UNCHANGED <<cjob, w>>
    BY <1>5 DEF vars, cjob
  <2> QED
    BY <2>1, SElsewhere
<1> QED
  BY <1>1, <1>2, <1>3, <1>4, <1>5, SEnd, SRestart, SWatch, SEdit DEF Next, Worker

-----------------------------------------------------------------------------
(* The spec that was read, and the conditions *)

LEMMA GKeeps ==
    ASSUME GInv, Keeps
    PROVE  GInv'
BY DEF GInv, SavedVerdict, Verdict, Keeps

LEMMA GIdle ==
    ASSUME w' = Idle, SavedVerdict'
    PROVE  GInv'
BY IdleShape DEF GInv

LEMMA GBegin ==
    ASSUME IInv, LInv, GInv, BeginPass
    PROVE  GInv'
<1>1. /\ UNCHANGED cjob
      /\ ReadObject \in Pass /\ ReadObject.fresh = latest /\ ReadObject.spec = cache.spec
      /\ ReadObject.generation = cache.generation
  BY ReadObjectType, ReadFields DEF BeginPass, ReconcileNotFound, ReconcileInvalidSpec,
     ReconcileListFailed, ReconcileBegin, Dequeue, ReadObject, Idle
<1>2. SavedVerdict'
  BY <1>1 DEF GInv, SavedVerdict, Verdict, cjob
<1>3. ASSUME w'.fresh = latest, w'.spec = cache.spec, w'.generation = cache.generation, cache.exists
      PROVE  w'.fresh => api'.exists /\ w'.spec = api'.spec /\ w'.generation = api'.generation
  BY <1>1, <1>3 DEF LInv, SavedOK, cjob
<1>4. CASE ReconcileInvalidSpec
  <2>1. /\ w' = [ReadObject EXCEPT !.pc = "update", !.conditions = blocked("InvalidSpec")]
        /\ ~ buildWorkflowGraph(Specs[cache.spec]) /\ cache.exists
    BY <1>4 DEF ReconcileInvalidSpec
  <2>2. /\ w'.fresh = latest /\ w'.spec = cache.spec /\ w'.generation = cache.generation
        /\ w'.conditions = blocked("InvalidSpec")
    BY <1>1, <2>1 DEF Pass
  <2>3. w'.conditions.observedGeneration = w'.generation /\ Verdict(w'.conditions, w'.spec)
    BY <2>1, <2>2 DEF Verdict, blocked
  <2> QED
    BY <1>2, <1>3, <2>1, <2>2, <2>3 DEF GInv, Verdict
<1>5. CASE ReconcileListFailed
  <2>1. /\ w' = [ReadObject EXCEPT !.pc = "update", !.conditions = blocked("ListFailed"),
                                   !.failing = TRUE]
        /\ buildWorkflowGraph(Specs[cache.spec]) /\ cache.exists
    BY <1>5 DEF ReconcileListFailed
  <2>2. /\ w'.fresh = latest /\ w'.spec = cache.spec /\ w'.generation = cache.generation
        /\ w'.conditions = blocked("ListFailed")
    BY <1>1, <2>1 DEF Pass
  <2>3. w'.conditions.observedGeneration = w'.generation /\ Verdict(w'.conditions, w'.spec)
    BY <2>1, <2>2 DEF Verdict, blocked
  <2> QED
    BY <1>2, <1>3, <2>1, <2>2, <2>3 DEF GInv, Verdict
<1>6. CASE ReconcileBegin
  <2> DEFINE matching == {c \in Cert : selectorMatches(cache.spec, cert[c].label)}
             version == [c \in Cert |-> IF c \in matching /\ cert[c].hasSecretName
                                        THEN cert[c].version ELSE 0]
  <2>1. /\ w' = [ReadObject EXCEPT !.pc = "certificates", !.matched = matching,
                                   !.todo = matching, !.version = version]
        /\ cache.exists
    BY <1>6 DEF ReconcileBegin
  <2> HIDE DEF matching, version
  <2>2. /\ w'.fresh = latest /\ w'.spec = cache.spec /\ w'.generation = cache.generation
        /\ w'.pc = "certificates"
    BY <1>1, <2>1 DEF Pass
  <2> QED
    BY <1>2, <1>3, <2>1, <2>2 DEF GInv
<1>7. CASE ReconcileNotFound
  BY <1>1, <1>2, <1>7 DEF ReconcileNotFound, GInv, cjob, Verdict
<1> QED
  BY <1>4, <1>5, <1>6, <1>7 DEF BeginPass

LEMMA GEnd ==
    ASSUME IInv, SInv, GInv, EndPass
    PROVE  GInv'
<1>0. w \in Pass /\ api \in CertificateJob
  BY DEF IInv, TypeOK
<1>1. CASE FinishPass
  <2> DEFINE observed == filterObservedStates(w.observed, w.matched)
             conditions == applyCertificateJobConditions(w.matched, w.progress)
  <2>1. /\ w' = [w EXCEPT !.pc = "update", !.observed = observed, !.conditions = conditions]
        /\ w.pc = "certificates" /\ api' = api
    BY <1>0, <1>1 DEF FinishPass, Pass, cjob
  <2>2. conditions.observedGeneration = w.generation /\ conditions.reason # "InvalidSpec"
    BY DEF applyCertificateJobConditions
  <2> HIDE DEF observed, conditions
  <2>3. /\ w'.fresh = w.fresh /\ w'.spec = w.spec /\ w'.generation = w.generation
        /\ w'.conditions = conditions
    BY <1>0, <2>1 DEF Pass
  <2>4. Verdict(conditions, w.spec)
    BY <2>1, <2>2 DEF Verdict, SInv, RunsOK, Handling
  <2>5. SavedVerdict'
    BY <2>1 DEF GInv, SavedVerdict, Verdict
  <2> QED
    BY <2>1, <2>2, <2>3, <2>4, <2>5 DEF GInv, Verdict
<1>2. CASE StatusUnchanged \/ StatusUpdateFails
  <2>1. w' = Idle /\ api' = api
    BY <1>2 DEF StatusUnchanged, StatusUpdateFails, PassReturns, cjob
  <2>2. SavedVerdict'
    BY <2>1 DEF GInv, SavedVerdict, Verdict
  <2> QED
    BY <2>1, <2>2, GIdle
<1>3. CASE StatusWritten \/ StatusAnswerLost
  <2>1. w.pc = "update" /\ w.fresh /\ Save /\ w' = Idle
    BY <1>3 DEF StatusWritten, StatusAnswerLost, PassReturns
  <2>2. /\ api'.exists = api.exists /\ api'.generation = api.generation /\ api'.spec = api.spec
        /\ api'.conditions = w.conditions
    BY <1>0, <2>1 DEF Save, CertificateJob
  <2>3. /\ api.exists /\ w.spec = api.spec /\ w.conditions.observedGeneration = api.generation
        /\ Verdict(w.conditions, w.spec) /\ api.generation \in Int
    BY <1>0, <2>1, ConstantsAssumption DEF GInv, CertificateJob, Version
  <2>4. SavedVerdict'
    BY <2>2, <2>3 DEF SavedVerdict, Verdict
  <2> QED
    BY <2>1, <2>4, GIdle
<1> QED
  BY <1>1, <1>2, <1>3 DEF EndPass

LEMMA GElsewhere ==
    ASSUME GInv, UNCHANGED <<api, w>>
    PROVE  GInv'
BY DEF GInv, SavedVerdict, Verdict

\* An edit raises the generation above what conditions are about; a deleted
\* object takes its conditions along.
LEMMA GEdit ==
    ASSUME IInv, GInv, Edits
    PROVE  GInv'
<1>0. w \in Pass /\ api \in CertificateJob
  BY DEF IInv, TypeOK
<1>1. CASE UNCHANGED <<cjob, w>>
  BY <1>1, GElsewhere DEF cjob
<1>2. CASE ~ UNCHANGED <<cjob, w>>
  <2>1. PICK new \in CertificateJob :
            /\ ObjectChanges(new)
            /\ \/ \E s \in SpecId : /\ api.exists
                                    /\ new = [api EXCEPT !.spec = s, !.generation = api.generation + 1]
               \/ \E s \in SpecId : /\ ~ api.exists
                                    /\ new = [api EXCEPT !.exists = TRUE, !.spec = s, !.generation = 1]
               \/ \E uid \in Version :
                      new = [api EXCEPT !.exists = FALSE, !.uid = uid,
                                        !.observed = NoStatus.observed, !.conditions = NoConditions]
    BY Zenon, <1>2, ObjectEdits
  <2>2. w' = [w EXCEPT !.fresh = FALSE] /\ api' = new
    BY Zenon, <2>1 DEF ObjectChanges
  <2>3. /\ ~ w'.fresh /\ w'.pc = w.pc /\ w'.conditions = w.conditions /\ w'.spec = w.spec
        /\ w'.generation = w.generation
    BY <1>0, <2>2 DEF Pass
  <2>4. MaxEdits \in Nat /\ NoConditions.observedGeneration = 0
    BY ConstantsAssumption DEF NoConditions
  <2>5. /\ new.generation \in Int /\ new.generation >= 1 /\ api.generation \in Int
        /\ api.conditions.observedGeneration \in Int
    <3>1. /\ new.generation \in Version /\ api.generation \in Version
          /\ api.conditions \in Conditions
      BY <1>0 DEF CertificateJob
    <3>2. api.conditions.observedGeneration \in 0 .. (MaxEdits + 1)
      BY Zenon, <3>1 DEF Conditions
    <3> QED
      BY <2>4, <3>1, <3>2 DEF Version
  <2>6. \/ new.exists /\ new.generation = api.generation + 1 /\ new.conditions = api.conditions
        \/ new.conditions = NoConditions
    BY Zenon, <1>0, <2>1 DEF CertificateJob, GInv, SavedVerdict
  <2>7. SavedVerdict'
    <3>1. CASE new.exists /\ new.generation = api.generation + 1 /\ new.conditions = api.conditions
      <4>1. api.conditions.observedGeneration <= api.generation
        BY DEF GInv, SavedVerdict
      <4>2. new.conditions.observedGeneration < new.generation /\ new.conditions.observedGeneration \in Int
        BY <2>5, <3>1, <4>1
      <4> QED
        BY <2>2, <2>5, <3>1, <4>2 DEF SavedVerdict
    <3>2. CASE new.conditions = NoConditions
      BY <2>2, <2>4, <2>5, <3>2 DEF SavedVerdict
    <3> QED
      BY <2>6, <3>1, <3>2
  <2> QED
    BY <2>3, <2>7 DEF GInv, Verdict
<1> QED
  BY <1>1, <1>2

LEMMA GInit == Init => GInv
<1> SUFFICES ASSUME Init PROVE GInv
  OBVIOUS
<1>1. api.exists /\ api.generation = 1 /\ api.conditions = NoConditions /\ w = Idle
  <2>1. api \in [exists : {TRUE}, uid : {1}, spec : SpecId, generation : {1},
                 observed : {NoStatus.observed}, conditions : {NoConditions}]
    BY Zenon DEF Init
  <2> QED
    BY Zenon, <2>1 DEF Init
<1>2. NoConditions.observedGeneration = 0
  BY DEF NoConditions
<1>3. SavedVerdict
  BY <1>1, <1>2 DEF SavedVerdict
<1> QED
  BY <1>1, <1>3, IdleShape DEF GInv

LEMMA GNext ==
    ASSUME IInv, LInv, SInv, GInv, [Next]_vars
    PROVE  GInv'
<1>1. ASSUME Watches \/ JobController \/ UNCHANGED vars PROVE GInv'
  <2>1. UNCHANGED <<api, w>>
    BY <1>1 DEF Watches, WatchCertificateJob, TimerFires, WatchJob, JobController, JobStarts,
       JobBacksOff, JobCompletes, JobFails, JobDeleted, JobStep, cjob, vars
  <2> QED
    BY Zenon, <2>1, GElsewhere
<1>2. CASE Restart
  <2>1. w' = Idle /\ api' = api
    BY Zenon, <1>2 DEF Restart
  <2>2. SavedVerdict'
    BY <2>1 DEF GInv, SavedVerdict, Verdict
  <2> QED
    BY <2>1, <2>2, GIdle
<1>3. ASSUME NEW c \in Cert, HandleCertificate(c) \/ RunStep(c) PROVE GInv'
  BY <1>3, CertificateKeeps, RunKeeps, GKeeps
<1> QED
  BY <1>1, <1>2, <1>3, GBegin, GEnd, GEdit DEF Next, Worker

-----------------------------------------------------------------------------
(* The theorems *)

\* The invariant of the locals of a run, of what was read and of the verdicts.
THEOREM RunInvariance == Spec => [](IInv /\ LInv /\ SInv /\ GInv)
<1>1. Init => SInv /\ GInv
  BY SInit, GInit
<1>2. (IInv /\ LInv /\ SInv /\ GInv) /\ [Next]_vars => (SInv /\ GInv)'
  BY SNext, GNext
<1> QED
  BY <1>1, <1>2, LifecycleInvariance, PTL DEF Spec

\* scheduleRunnableNodes leaves no run of a graph that was accepted waiting with
\* nothing running, and reconcileCertificateRun saves Running only with a running node.
THEOREM NoRunStalls == Spec => []RunNotStalled
<1>1. IInv /\ LInv /\ SInv /\ GInv => RunNotStalled
  BY Zenon DEF SInv, SavedLively, RunsOK, ScheduleOK, Lively, RunNotStalled
<1> QED
  BY <1>1, RunInvariance, PTL

\* The conditions of a generation have its verdict: the status update of a pass
\* that read another spec is refused.
THEOREM ConditionsAboutGeneration == Spec => []ConditionsOfGeneration
<1>1. IInv /\ LInv /\ SInv /\ GInv => ConditionsOfGeneration
  BY DEF GInv, SavedVerdict, Verdict, ConditionsOfGeneration
<1> QED
  BY <1>1, RunInvariance, PTL

\* However many certificates, nodes and retries there are, an update of the status
\* starts at most spec.parallelism nodes of a certificate.
THEOREM StartsAreBounded == Spec => StartsBounded
<1> DEFINE Bounded == \A c \in Cert : Cardinality(StartedNodes(api.observed[c], api'.observed[c]))
                                          <= requestedParallelism(Specs[w.spec])
<1>1. IInv /\ LInv /\ SInv /\ [Next]_vars => [Bounded]_vars
  BY SNext DEF Allowed, Recorded, StartsOK
<1> HIDE DEF Bounded
<1>2. Spec => [][Bounded]_vars
  BY <1>1, RunInvariance, PTL DEF Spec
<1> QED
  BY <1>2 DEF StartsBounded, Bounded

\* applyFailurePolicy skips a node only for a failure that is saved with it, in
\* graphs of any size.
THEOREM SkipsAreCaused == Spec => SkipsHaveCause
<1> DEFINE Cause ==
        \A c \in Cert, n \in Node :
          LET old    == api.observed[c]
              new    == api'.observed[c]
              spec   == Specs[w.spec]
              failed == NodesIn(new.nodes, {"Failed"})
          IN  (/\ new.nodes[n].phase = "Skipped"
               /\ old.nodes[n].phase # "Skipped" \/ old.hash # new.hash) =>
                  /\ failed # {} /\ spec.failurePolicy # "BestEffort"
                  /\ spec.failurePolicy = "ContinueIndependent" =>
                         n \in descendantNodes(reverseDeps(spec), failed)
<1>1. ASSUME IInv, LInv, SInv, [Next]_vars PROVE Cause
  <2> SUFFICES ASSUME NEW c \in Cert, NEW n \in Node,
                      api'.observed[c].nodes[n].phase = "Skipped",
                      \/ api.observed[c].nodes[n].phase # "Skipped"
                      \/ api.observed[c].hash # api'.observed[c].hash
               PROVE  Caused(Specs[w.spec], NodesIn(api'.observed[c].nodes, {"Failed"}), n)
    BY DEF Caused
  <2>1. SkipsCaused(Specs[w.spec], api.observed[c], api'.observed[c])
    BY <1>1, SNext DEF Allowed, Recorded
  <2>2. n \in NewlySkipped(api.observed[c], api'.observed[c])
    BY DEF NewlySkipped, NodesIn
  <2> QED
    BY Zenon, <2>1, <2>2 DEF SkipsCaused
<1>2. IInv /\ LInv /\ SInv /\ [Next]_vars => [Cause]_vars
  BY Zenon, <1>1
<1> HIDE DEF Cause
<1>3. Spec => [][Cause]_vars
  BY <1>2, RunInvariance, PTL DEF Spec
<1> QED
  BY <1>3 DEF SkipsHaveCause, Cause

LEMMA CreatedForRun ==
    ASSUME IInv, LInv, SInv, GInv, [Next]_vars, NEW k \in JobName, Missing(jobs[k]),
           jobs'[k] = "idle", w.fresh
    PROVE  LET state == api.observed[k.cert] IN
           IF state.hash = k.run THEN state.phase \in Unfinished
           ELSE /\ state.hash = NoHash \/ isTerminalPhase(state.phase)
                /\ k.run.spec = api.spec
<1>1. PICK c \in Cert, n \in Node : k = jobOf(c, n) /\ Scheduling(c, n)
  BY Creation
<1> DEFINE saved == api.observed[c]
           old == w.observed[c]
<1>2. k.cert = c /\ k.run = old.hash
  BY <1>1 DEF jobOf, buildJobName
<1>3. w.pc = "schedule" /\ Current(c)
  BY <1>1 DEF Scheduling
<1>4. w.base.observed[c] = saved /\ w.spec = api.spec
  BY DEF LInv, SavedOK, GInv
<1>5. InRunOK(saved, old, w.run) /\ RunOfSpec(api.spec, saved, old)
  BY Zenon, <1>3, <1>4, LInRun, SInRun
<1> HIDE DEF saved, old
<1>6. CASE Began(saved, old)
  <2>1. saved.hash # old.hash /\ (saved.hash = NoHash \/ isTerminalPhase(saved.phase))
    BY <1>6 DEF Began, Finished, isTerminalPhase
  <2>2. old.hash.spec = api.spec
    BY <1>5, <2>1 DEF RunOfSpec
  <2> QED
    BY <1>2, <2>1, <2>2 DEF saved
<1>7. CASE GoesOn(saved, old)
  BY <1>2, <1>7 DEF GoesOn, saved
<1> QED
  BY <1>5, <1>6, <1>7 DEF InRunOK

\* A pass that can still save its status creates Jobs of the saved run while that
\* is not over, or of a new run of the current spec after it.
THEOREM JobsOfCurrentRun == Spec => CreatedForCurrentRun
<1> DEFINE ForRun ==
        \A k \in JobName :
          (Missing(jobs[k]) /\ jobs'[k] = "idle" /\ w.fresh) =>
              LET state == api.observed[k.cert] IN
              IF state.hash = k.run THEN state.phase \in Unfinished
              ELSE /\ state.hash = NoHash \/ isTerminalPhase(state.phase)
                   /\ k.run.spec = api.spec
<1>1. IInv /\ LInv /\ SInv /\ GInv /\ [Next]_vars => [ForRun]_vars
  BY CreatedForRun
<1> HIDE DEF ForRun
<1>2. Spec => [][ForRun]_vars
  BY <1>1, RunInvariance, PTL DEF Spec
<1> QED
  BY <1>2 DEF CreatedForCurrentRun, ForRun
=============================================================================
