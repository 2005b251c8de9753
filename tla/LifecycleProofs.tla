--------------------------- MODULE LifecycleProofs ----------------------------
(***************************************************************************)
(* CertificateJobController implements RunLifecycle, creates Jobs in the   *)
(* order of the graph, creates no recorded Job again, and saves conditions *)
(* that agree with the workflows, for every value of the constants.        *)
(***************************************************************************)
EXTENDS ControllerProofs

Finished == {"Succeeded", "Failed"}

\* A state that the controller may save: without an input there are no nodes, and
\* a run has succeeded only with all its nodes.
Shape(state) ==
    /\ state.phase \in {"Absent"} \cup Unfinished \cup Finished
    /\ state.phase = "Absent" => state.hash = NoHash
    /\ state.hash = NoHash => /\ state.phase \in {"Absent", "Pending", "Failed"}
                              /\ \A n \in Node : state.nodes[n].phase = "Absent"
    /\ state.phase = "Succeeded" =>
           \A n \in Node : state.nodes[n].phase \in {"Absent", "Succeeded", "Skipped"}

Stepped(old, new) == Lifecycle!Step(Seen(old), Seen(new)) /\ Shape(new)

\* Inside reconcileCertificateRun: the run is new, or it is the one that was read.
Began(old, new) ==
    /\ old.hash = NoHash \/ old.phase \in Finished
    /\ new.hash \in Hash \ {old.hash}
    /\ \A n \in Node : new.nodes[n].phase \in {"Absent", "Pending", "Running"}
    /\ \E n \in Node : new.nodes[n].phase \in Unfinished

GoesOn(old, new) ==
    /\ old.phase \in Unfinished /\ old.hash # NoHash
    /\ new.hash = old.hash
    /\ \A n \in Node : Lifecycle!NodeStep(old.nodes[n].phase, new.nodes[n].phase)

\* A new run has no Job to observe and no failure; in a run that goes on, the nodes
\* still to be observed were started when the status was read.
InRunOK(old, new, run) ==
    \/ Began(old, new) /\ run.unseen = {} /\ run.failedNodes = {}
    \/ GoesOn(old, new) /\ \A n \in run.unseen : old.nodes[n].phase \in Lifecycle!Started

\* What the loop of scheduleRunnableNodes relies on.
RunnableOK(spec, new, run) ==
    \A n \in run.runnable :
        /\ new.nodes[n].phase = "Pending"
        /\ \A d \in deps(spec)[n] :
               \/ new.nodes[d].phase \in {"Succeeded", "Skipped"}
               \/ new.nodes[d].phase = "Failed" /\ spec.failurePolicy = "BestEffort"

\* What was saved and read is well formed; a cache marked latest is the saved
\* object, and a pass that is fresh started from the saved status.
SavedOK ==
    /\ \A c \in Cert : /\ Shape(api.observed[c]) /\ Shape(cache.observed[c])
                       /\ Shape(w.base.observed[c])
    /\ latest => cache = api
    /\ w.fresh => w.base.observed = api.observed

Handling == {"certificates", "observe", "schedule"}

\* The certificates of todo are as they were read, except the current one inside
\* its run; those handled have made one step of RunLifecycle.
PassOK ==
    /\ w.pc \in Handling =>
           /\ Specs[w.spec].jobs # {} /\ w.todo \subseteq w.matched
           /\ \A c \in w.todo : \/ w.observed[c] = w.base.observed[c]
                                \/ w.pc # "certificates" /\ Current(c)
           /\ \A c \in w.matched \ w.todo : Stepped(w.base.observed[c], w.observed[c])
    /\ w.pc \in {"observe", "schedule"} =>
           \A c \in Cert : Current(c) => InRunOK(w.base.observed[c], w.observed[c], w.run)
    /\ w.pc = "schedule" =>
           \A c \in Cert : Current(c) => RunnableOK(Specs[w.spec], w.observed[c], w.run)
    /\ w.pc = "update" => \A c \in Cert : Stepped(w.base.observed[c], w.observed[c])

Agree(conditions, observed) ==
    conditions.reason \in {"Reconciled", "NoMatchingCertificates", "WorkflowFailed"} =>
        /\ conditions.progressing <=> \E c \in Cert : observed[c].phase \in Unfinished
        /\ conditions.degraded => \E c \in Cert : observed[c].phase = "Failed"

\* The progress gathered so far, and the conditions made of it, agree with the
\* certificates handled.
ProgressOK ==
    /\ w.pc \in Handling =>
           /\ w.progress.anyInProgress <=>
                  \E c \in w.matched \ w.todo : w.observed[c].phase \in Unfinished
           /\ w.progress.anyFailed =>
                  \E c \in w.matched \ w.todo : w.observed[c].phase = "Failed"
    /\ w.pc = "update" => Agree(w.conditions, w.observed)
    /\ Agree(api.conditions, api.observed)

\* Inductive beside IInv: the saved status moves by one step because the pass
\* that writes it started from it and moved each certificate by one step.
LInv == SavedOK /\ PassOK /\ ProgressOK

-----------------------------------------------------------------------------
(* Steps of one certificate *)

LEMMA SeenFields ==
    ASSUME NEW state \in CertificateExecutionState
    PROVE  /\ Seen(state).hash = state.hash /\ Seen(state).phase = state.phase
           /\ \A n \in Node : Seen(state).nodes[n] = state.nodes[n].phase
           /\ Seen(state).nodes \in [Node -> Lifecycle!NodePhase]
           /\ Seen(state) = [hash |-> state.hash, phase |-> state.phase, nodes |-> Seen(state).nodes]
<1>1. \A n \in Node : state.nodes[n].phase \in Lifecycle!NodePhase
  BY DEF CertificateExecutionState, WorkflowNodeState, ExecutionPhase, Lifecycle!NodePhase,
     Lifecycle!Started
<1> QED
  BY <1>1 DEF Seen

LEMMA NoNodesSeen ==
    ASSUME NEW state \in CertificateExecutionState, \A n \in Node : state.nodes[n].phase = "Absent"
    PROVE  Seen(state).nodes = Lifecycle!NoNodePhases
BY DEF Seen, Lifecycle!NoNodePhases

\* A well-formed state is shown as a run of RunLifecycle.
LEMMA ShapeIsRun ==
    ASSUME NEW state \in CertificateExecutionState, Shape(state)
    PROVE  Seen(state) \in Lifecycle!Run
<1>1. CASE state.phase = "Absent"
  <2>1. state.hash = NoHash /\ Seen(state).nodes = Lifecycle!NoNodePhases
    BY <1>1, NoNodesSeen DEF Shape
  <2>2. Seen(state) = Lifecycle!None
    BY <1>1, <2>1, SeenFields DEF Lifecycle!None
  <2> QED
    BY <2>2 DEF Lifecycle!Run
<1>2. CASE state.phase # "Absent"
  <2>1. state.phase \in Lifecycle!Phase /\ state.hash \in Hash \cup {NoHash}
    BY <1>2 DEF Shape, Unfinished, Finished, Lifecycle!Phase, CertificateExecutionState
  <2>2. Seen(state) \in [hash : Hash \cup {NoHash}, phase : Lifecycle!Phase,
                        nodes : [Node -> Lifecycle!NodePhase]]
    BY <2>1, SeenFields
  <2>3. Seen(state).phase = "Succeeded" =>
            \A n \in Node : Seen(state).nodes[n] \in {"Absent", "Succeeded", "Skipped"}
    BY SeenFields DEF Shape
  <2> QED
    BY <2>2, <2>3 DEF Lifecycle!Run
<1> QED
  BY <1>1, <1>2

LEMMA Stays ==
    ASSUME NEW old, Shape(old)
    PROVE  Stepped(old, old)
BY DEF Stepped, Lifecycle!Step

LEMMA Forgotten ==
    ASSUME NEW old
    PROVE  Stepped(old, NotObserved)
<1>1. Shape(NotObserved)
  BY DEF Shape, NotObserved, NoNodes
<1>2. Seen(NotObserved).nodes = Lifecycle!NoNodePhases
  BY NotObservedType, NoNodesSeen DEF NotObserved, NoNodes
<1>3. Seen(NotObserved) = Lifecycle!None
  BY <1>2, NotObservedType, SeenFields DEF NotObserved, Lifecycle!None
<1> QED
  BY <1>1, <1>3 DEF Stepped, Lifecycle!Step, Lifecycle!Forget

\* Only the phase changes, as it does without a secret name (Failed) and without a
\* secret (Pending).
LEMMA Rephased ==
    ASSUME NEW old \in CertificateExecutionState, Shape(old),
           NEW new \in CertificateExecutionState, new.hash = old.hash, new.nodes = old.nodes,
           \/ new.phase = "Failed"
           \/ new.phase = "Pending" /\ ~ isTerminalPhase(old.phase)
    PROVE  Stepped(old, new)
<1>1. Shape(new)
  BY DEF Shape, Unfinished, Finished, isTerminalPhase
<1>2. Seen(new).nodes = Seen(old).nodes
  BY DEF Seen
<1>3. CASE old.hash = NoHash
  <2>1. Seen(new).nodes = Lifecycle!NoNodePhases
    BY <1>3, NoNodesSeen DEF Shape
  <2>2. CASE old.phase = new.phase
    <3>1. Seen(new) = Seen(old)
      BY <2>2, <1>2, SeenFields
    <3> QED
      BY <3>1, <1>1 DEF Stepped, Lifecycle!Step
  <2>3. CASE old.phase # new.phase
    <3>1. Lifecycle!Await(Seen(old), Seen(new))
      BY <1>3, <2>1, <2>3, SeenFields DEF Lifecycle!Await, Shape, isTerminalPhase
    <3> QED
      BY <3>1, <1>1 DEF Stepped, Lifecycle!Step
  <2> QED
    BY <2>2, <2>3
<1>4. CASE old.hash # NoHash /\ old.phase \in Unfinished
  <2>1. Lifecycle!Advance(Seen(old), Seen(new))
    BY <1>2, <1>4, SeenFields DEF Lifecycle!Advance, Lifecycle!Unfinished, Lifecycle!Phase,
       Lifecycle!NodeStep, Unfinished
  <2> QED
    BY <2>1, <1>1 DEF Stepped, Lifecycle!Step
<1>5. CASE old.hash # NoHash /\ old.phase \in Finished
  <2>1. new.phase = "Failed"
    BY <1>5 DEF Finished, isTerminalPhase
  <2>2. Seen(new) = [Seen(old) EXCEPT !.phase = "Failed"]
    BY <2>1, <1>2, SeenFields
  <2>3. Lifecycle!Invalidate(Seen(old), Seen(new))
    BY <1>5, <2>2, SeenFields DEF Lifecycle!Invalidate, Lifecycle!Finished, Finished
  <2> QED
    BY <2>3, <1>1 DEF Stepped, Lifecycle!Step
<1> QED
  BY <1>3, <1>4, <1>5 DEF Shape

\* reconcileCertificateRun ends with an error (Pending) or with the derived phase.
LEMMA RunSaved ==
    ASSUME NEW old \in CertificateExecutionState, NEW state \in CertificateExecutionState,
           NEW run, InRunOK(old, state, run), state.hash # NoHash,
           NEW new \in CertificateExecutionState, new.hash = state.hash, new.nodes = state.nodes,
           new.phase \in {"Pending", deriveWorkflowPhase(state.nodes)}
    PROVE  Stepped(old, new)
<1>1. \A n \in Node : state.nodes[n].phase \in ExecutionPhase \cup {"Absent"}
  BY DEF CertificateExecutionState, WorkflowNodeState
<1>2. new.phase \in Lifecycle!Phase
  BY DerivedPhase DEF Lifecycle!Phase
<1>3. Shape(new)
  <2>1. new.phase = "Succeeded" =>
            \A n \in Node : new.nodes[n].phase \in {"Absent", "Succeeded", "Skipped"}
    BY <1>1 DEF deriveWorkflowPhase, NodesIn, ExecutionPhase
  <2> QED
    BY <1>2, <2>1 DEF Shape, Lifecycle!Phase, Unfinished, Finished
<1>4. CASE Began(old, state)
  <2>1. new.phase \in {"Pending", "Running"}
    BY <1>4 DEF Began, deriveWorkflowPhase, NodesIn, Unfinished
  <2>2. Lifecycle!Start(Seen(old), Seen(new))
    BY <1>4, <2>1, SeenFields DEF Began, Lifecycle!Start, Lifecycle!Finished, Finished,
       Lifecycle!Unfinished
  <2> QED
    BY <1>3, <2>2 DEF Stepped, Lifecycle!Step
<1>5. CASE GoesOn(old, state)
  <2>1. Lifecycle!Advance(Seen(old), Seen(new))
    BY <1>2, <1>5, SeenFields DEF GoesOn, Lifecycle!Advance, Lifecycle!Unfinished, Unfinished
  <2> QED
    BY <1>3, <2>1 DEF Stepped, Lifecycle!Step
<1> QED
  BY <1>4, <1>5 DEF InRunOK

-----------------------------------------------------------------------------
(* Steps of the pass *)

\* SavedOK while the object and its cache stay, and the pass keeps what it read.
LEMMA SavedStays ==
    ASSUME SavedOK, UNCHANGED cjob, w'.base = w.base, w'.fresh = w.fresh
    PROVE  SavedOK'
BY DEF SavedOK, cjob

LEMMA DoneFields ==
    ASSUME IInv, NEW c \in Cert, NEW state \in CertificateExecutionState, NEW p \in Progress,
           NEW restamped \in BOOLEAN, CertificateDone(c, state, p, restamped)
    PROVE  /\ w'.pc = "certificates" /\ w'.observed = [w.observed EXCEPT ![c] = state]
           /\ w'.todo = w.todo \ {c} /\ w'.matched = w.matched /\ w'.spec = w.spec
           /\ w'.base = w.base /\ w'.fresh = w.fresh /\ w'.progress = merge(w.progress, p)
           /\ w'.version = w.version /\ w'.generation = w.generation
           /\ w.observed \in Observed /\ w.matched \subseteq Cert /\ w.progress \in Progress
<1>1. w \in Pass
  BY DEF IInv, TypeOK
<1> DEFINE progress == merge(w.progress, p)
           stamp == w.restamped \/ restamped
           observed == [w.observed EXCEPT ![c] = state]
           todo == w.todo \ {c}
<1>2. w' = [w EXCEPT !.pc = "certificates", !.observed = observed, !.todo = todo,
                     !.progress = progress, !.restamped = stamp, !.run = NoRun]
  BY <1>1 DEF CertificateDone, Pass
<1> HIDE DEF progress, stamp, observed, todo
<1>3. /\ w'.pc = "certificates" /\ w'.observed = observed
      /\ w'.todo = todo /\ w'.matched = w.matched /\ w'.spec = w.spec
      /\ w'.base = w.base /\ w'.fresh = w.fresh /\ w'.progress = progress
      /\ w'.version = w.version /\ w'.generation = w.generation
  BY <1>1, <1>2 DEF Pass
<1> QED
  BY <1>1, <1>3 DEF progress, observed, todo, Pass

\* The current certificate leaves the pass after one step of RunLifecycle.
LEMMA LDone ==
    ASSUME IInv, LInv, NEW c \in Cert, Current(c), w.pc \in Handling,
           NEW state \in CertificateExecutionState, NEW p \in Progress, NEW restamped \in BOOLEAN,
           CertificateDone(c, state, p, restamped), UNCHANGED cjob,
           Stepped(w.base.observed[c], state),
           p.anyInProgress <=> state.phase \in Unfinished,
           p.anyFailed => state.phase = "Failed"
    PROVE  LInv'
<1>1. /\ w'.pc = "certificates" /\ w'.observed = [w.observed EXCEPT ![c] = state]
      /\ w'.todo = w.todo \ {c} /\ w'.matched = w.matched /\ w'.spec = w.spec
      /\ w'.base = w.base /\ w'.fresh = w.fresh /\ w'.progress = merge(w.progress, p)
      /\ w.observed \in Observed /\ w.matched \subseteq Cert /\ w.progress \in Progress
  BY DoneFields
<1>2. /\ w'.observed[c] = state
      /\ \A d \in Cert \ {c} : w'.observed[d] = w.observed[d]
  BY <1>1 DEF Observed
<1>3. /\ Specs[w.spec].jobs # {} /\ w.todo \subseteq w.matched /\ c \in w.todo
      /\ \A d \in w.todo : \/ w.observed[d] = w.base.observed[d]
                           \/ w.pc # "certificates" /\ Current(d)
      /\ \A d \in w.matched \ w.todo : Stepped(w.base.observed[d], w.observed[d])
  BY DEF LInv, PassOK, Current
<1>4. SavedOK'
  BY <1>1, SavedStays DEF LInv
<1>5. PassOK'
  <2>1. \A d \in w'.todo : w'.observed[d] = w'.base.observed[d]
    BY <1>1, <1>2, <1>3, CurrentUnique
  <2>2. \A d \in w'.matched \ w'.todo : Stepped(w'.base.observed[d], w'.observed[d])
    BY <1>1, <1>2, <1>3
  <2>3. Specs[w'.spec].jobs # {} /\ w'.todo \subseteq w'.matched
    BY <1>1, <1>3
  <2> QED
    BY <1>1, <2>1, <2>2, <2>3 DEF PassOK, Stepped, Shape
<1>6. ProgressOK'
  <2>1. /\ w.progress.anyInProgress <=>
               \E d \in w.matched \ w.todo : w.observed[d].phase \in Unfinished
        /\ w.progress.anyFailed =>
               \E d \in w.matched \ w.todo : w.observed[d].phase = "Failed"
        /\ Agree(api.conditions, api.observed)
    BY DEF LInv, ProgressOK
  <2>2. /\ w'.progress.anyInProgress = (w.progress.anyInProgress \/ p.anyInProgress)
        /\ w'.progress.anyFailed = (w.progress.anyFailed \/ p.anyFailed)
    BY <1>1 DEF merge
  <2>3. w'.matched \ w'.todo = (w.matched \ w.todo) \cup {c}
    BY <1>1, <1>3
  <2>4. \A d \in w.matched \ w.todo : w'.observed[d] = w.observed[d]
    BY <1>1, <1>2, <1>3
  <2>5. /\ w'.progress.anyInProgress <=>
               \E d \in w'.matched \ w'.todo : w'.observed[d].phase \in Unfinished
        /\ w'.progress.anyFailed =>
               \E d \in w'.matched \ w'.todo : w'.observed[d].phase = "Failed"
    BY <1>2, <2>1, <2>2, <2>3, <2>4
  <2>6. Agree(api.conditions, api.observed)'
    BY <2>1 DEF cjob, Agree
  <2> QED
    BY <1>1, <2>5, <2>6 DEF ProgressOK
<1> QED
  BY <1>4, <1>5, <1>6 DEF LInv

\* The current certificate goes on with its run.
LEMMA LRun ==
    ASSUME IInv, LInv, NEW c \in Cert, Current(c), w.pc \in Handling,
           NEW state \in CertificateExecutionState, NEW run \in RunLocals, NEW stamp \in BOOLEAN,
           NEW pc \in {"observe", "schedule"}, Becomes(c, state, pc, stamp, run), UNCHANGED cjob,
           InRunOK(w.base.observed[c], state, run),
           pc = "schedule" => RunnableOK(Specs[w.spec], state, run)
    PROVE  LInv'
<1>0. w \in Pass /\ w.observed \in Observed
  BY DEF IInv, TypeOK, Pass
<1> DEFINE observed == [w.observed EXCEPT ![c] = state]
<1>1. w' = [w EXCEPT !.pc = pc, !.observed = observed, !.restamped = stamp, !.run = run]
  BY DEF Becomes
<1> HIDE DEF observed
<1>2. /\ w'.pc = pc /\ w'.observed = observed /\ w'.run = run
      /\ w'.todo = w.todo /\ w'.matched = w.matched /\ w'.spec = w.spec
      /\ w'.base = w.base /\ w'.fresh = w.fresh /\ w'.progress = w.progress
  BY <1>0, <1>1 DEF Pass
<1>3. /\ w'.observed[c] = state
      /\ \A d \in Cert \ {c} : w'.observed[d] = w.observed[d]
  BY <1>0, <1>2 DEF observed, Observed
<1>4. \A d \in Cert : Current(d)' <=> d = c
  BY <1>2, CurrentUnique DEF Current
<1>5. /\ Specs[w.spec].jobs # {} /\ w.todo \subseteq w.matched /\ c \in w.todo
      /\ w.matched \subseteq Cert
      /\ \A d \in w.todo : \/ w.observed[d] = w.base.observed[d]
                           \/ w.pc # "certificates" /\ Current(d)
      /\ \A d \in w.matched \ w.todo : Stepped(w.base.observed[d], w.observed[d])
  BY <1>0 DEF LInv, PassOK, Current, Pass
<1>6. SavedOK'
  BY <1>2, SavedStays DEF LInv
<1>7. PassOK'
  <2>1. \A d \in w'.todo : w'.observed[d] = w'.base.observed[d] \/ Current(d)'
    BY <1>2, <1>3, <1>4, <1>5, CurrentUnique
  <2>2. \A d \in w'.matched \ w'.todo : Stepped(w'.base.observed[d], w'.observed[d])
    BY <1>2, <1>3, <1>5
  <2>3. Specs[w'.spec].jobs # {} /\ w'.todo \subseteq w'.matched
    BY <1>2, <1>5
  <2>4. \A d \in Cert : Current(d)' => InRunOK(w'.base.observed[d], w'.observed[d], w'.run)
    BY <1>2, <1>3, <1>4
  <2>5. w'.pc = "schedule" =>
            \A d \in Cert : Current(d)' => RunnableOK(Specs[w'.spec], w'.observed[d], w'.run)
    BY <1>2, <1>3, <1>4
  <2>6. w'.pc # "certificates" /\ w'.pc # "update"
    BY <1>2
  <2> QED
    BY <2>1, <2>2, <2>3, <2>4, <2>5, <2>6 DEF PassOK
<1>8. ProgressOK'
  <2>1. \A d \in w.matched \ w.todo : w'.observed[d] = w.observed[d]
    BY <1>3, <1>5
  <2>2. Agree(api.conditions, api.observed)'
    BY DEF LInv, ProgressOK, cjob, Agree
  <2> QED
    BY <1>2, <2>1, <2>2 DEF LInv, ProgressOK
<1> QED
  BY <1>6, <1>7, <1>8 DEF LInv


LEMMA BaseState ==
    ASSUME IInv, LInv, NEW c \in Cert
    PROVE  w.base.observed[c] \in CertificateExecutionState /\ Shape(w.base.observed[c])
BY DEF IInv, TypeOK, Pass, Observed, LInv, SavedOK

\* The certificate the pass comes to is as it was read.
LEMMA AtBase ==
    ASSUME IInv, LInv, NEW c \in Cert, AtCertificate(c)
    PROVE  /\ Current(c) /\ w.pc = "certificates" /\ UNCHANGED cjob
           /\ w.observed[c] = w.base.observed[c]
           /\ w.observed[c] \in CertificateExecutionState /\ Shape(w.observed[c])
BY BaseState DEF AtCertificate, LInv, PassOK, Current, Handling

LEMMA EnsuredFields ==
    ASSUME IInv, LInv, NEW c \in Cert, AtCertificate(c)
    PROVE  LET old == w.observed[c]
               new == ensureObservedCertificateState(c)
           IN  /\ new \in CertificateExecutionState
               /\ new.hash = old.hash /\ new.nodes = old.nodes
               /\ new = old \/ (old.phase = "Absent" /\ new.phase = "Pending")
BY AtBase, EnsuredState DEF ensureObservedCertificateState, CertificateExecutionState

\* applyInputHashTransition starts a run for another input, when none is active,
\* and otherwise leaves the state as it was read.
LEMMA Transition ==
    ASSUME IInv, LInv, NEW c \in Cert, AtCertificate(c), w.version[c] # 0
    PROVE  LET old == w.observed[c]
               new == CertificateState(c)
           IN  \/ /\ old.hash = NoHash \/ old.phase \in Finished
                  /\ new.hash \in Hash \ {old.hash} /\ new.phase = "Pending"
                  /\ \A n \in Node : new.nodes[n].job = NoJob
                                     /\ new.nodes[n].phase \in {"Absent", "Pending"}
               \/ new = old /\ old.hash # NoHash /\ old.phase # "Absent"
<1> DEFINE old == w.observed[c]
           mid == ensureObservedCertificateState(c)
           hash == buildInputHash(c)
           fresh == [hash |-> hash, phase |-> "Pending",
                     nodes |-> initializeNodeStates(Specs[w.spec])]
<1>1. hash \in Hash /\ hash # NoHash
  BY TransitionState, HashAssumption
<1>2. old \in CertificateExecutionState /\ Shape(old)
  BY AtBase
<1>3. mid.hash = old.hash /\ (mid = old \/ (old.phase = "Absent" /\ mid.phase = "Pending"))
  BY EnsuredFields
<1>4. CertificateState(c) = IF mid.hash = NoHash \/ (mid.hash # hash /\ isTerminalPhase(mid.phase))
                            THEN fresh ELSE mid
  BY DEF CertificateState, applyInputHashTransition
<1>5. w.spec \in SpecId
  BY DEF IInv, TypeOK, Pass
<1>6. /\ fresh.hash = hash /\ fresh.phase = "Pending"
      /\ \A n \in Node : fresh.nodes[n].job = NoJob /\ fresh.nodes[n].phase \in {"Absent", "Pending"}
  BY <1>5, InitializeType
<1> HIDE DEF mid, hash, fresh
<1>7. CASE mid.hash = NoHash
  BY <1>1, <1>3, <1>4, <1>6, <1>7
<1>8. CASE mid.hash # NoHash /\ mid.hash # hash /\ isTerminalPhase(mid.phase)
  <2>1. old.phase \in Finished
    BY <1>2, <1>3, <1>8 DEF isTerminalPhase, Shape, Unfinished, Finished
  <2> QED
    BY <1>1, <1>3, <1>4, <1>6, <1>8, <2>1
<1>9. CASE mid.hash # NoHash /\ ~ (mid.hash # hash /\ isTerminalPhase(mid.phase))
  <2>1. mid = old /\ old.phase # "Absent"
    BY <1>2, <1>3, <1>9 DEF Shape
  <2> QED
    BY <1>3, <1>4, <1>9, <2>1
<1> QED
  BY <1>7, <1>8, <1>9

LEMMA ProgressFields ==
    /\ \A b \in BOOLEAN : /\ FailedProgress(b) \in Progress
                          /\ FailedProgress(b).anyFailed = b /\ ~ FailedProgress(b).anyInProgress
    /\ Waiting \in Progress /\ Waiting.anyInProgress /\ ~ Waiting.anyFailed
    /\ NoProgress \in Progress /\ ~ NoProgress.anyInProgress /\ ~ NoProgress.anyFailed
BY DEF FailedProgress, NoProgress, Waiting, Progress

\* Each branch of reconcileObservedCertificate.
LEMMA LCertificate ==
    ASSUME IInv, LInv, NEW c \in Cert, HandleCertificate(c)
    PROVE  LInv'
<1> DEFINE old == w.observed[c]
           mid == ensureObservedCertificateState(c)
<1>0. AtCertificate(c)
  BY DEF HandleCertificate, CertificateWithoutSecretName, CertificateSecretUnreadable,
     CertificateFinished, CertificateRun, AtReadableCertificate
<1>1. /\ Current(c) /\ w.pc = "certificates" /\ w.pc \in Handling /\ UNCHANGED cjob
      /\ old = w.base.observed[c] /\ old \in CertificateExecutionState /\ Shape(old)
  BY <1>0, AtBase DEF Handling
<1>2. /\ mid \in CertificateExecutionState /\ mid.hash = old.hash /\ mid.nodes = old.nodes
      /\ mid = old \/ (old.phase = "Absent" /\ mid.phase = "Pending")
  BY <1>0, EnsuredFields
<1> HIDE DEF mid
<1>3. \A phase \in ExecutionPhase :
          LET new == [mid EXCEPT !.phase = phase] IN
          /\ new \in CertificateExecutionState /\ new.phase = phase
          /\ new.hash = old.hash /\ new.nodes = old.nodes
  BY <1>2 DEF CertificateExecutionState
<1>4. CASE CertificateWithoutSecretName(c)
  <2> DEFINE new == [mid EXCEPT !.phase = "Failed"]
  <2>1. CertificateDone(c, new, FailedProgress(TRUE), TRUE)
    BY <1>4 DEF CertificateWithoutSecretName, mid
  <2>2. new \in CertificateExecutionState /\ new.phase = "Failed"
        /\ new.hash = old.hash /\ new.nodes = old.nodes
    BY <1>3 DEF ExecutionPhase
  <2> HIDE DEF new
  <2>3. Stepped(w.base.observed[c], new)
    BY <1>1, <2>2, Rephased
  <2> QED
    BY <1>1, <2>1, <2>2, <2>3, ProgressFields, LDone DEF Unfinished
<1>5. CASE CertificateSecretUnreadable(c)
  <2>1. CASE isTerminalPhase(mid.phase)
    <3>1. CertificateDone(c, mid, NoProgress, FALSE)
      BY <1>5, <2>1 DEF CertificateSecretUnreadable, mid
    <3>2. mid = old /\ mid.phase \notin Unfinished
      BY <1>2, <2>1 DEF isTerminalPhase, Unfinished
    <3> QED
      BY <1>1, <3>1, <3>2, Stays, ProgressFields, LDone
  <2>2. CASE ~ isTerminalPhase(mid.phase)
    <3> DEFINE new == [mid EXCEPT !.phase = "Pending"]
    <3>1. CertificateDone(c, new, Waiting, TRUE)
      BY <1>5, <2>2 DEF CertificateSecretUnreadable, mid
    <3>2. new \in CertificateExecutionState /\ new.phase = "Pending"
          /\ new.hash = old.hash /\ new.nodes = old.nodes
      BY <1>3 DEF ExecutionPhase
    <3> HIDE DEF new
    <3>3. ~ isTerminalPhase(old.phase)
      BY <1>2, <2>2 DEF isTerminalPhase
    <3>4. Stepped(w.base.observed[c], new)
      BY <1>1, <3>2, <3>3, Rephased
    <3> QED
      BY <1>1, <3>1, <3>2, <3>4, ProgressFields, LDone DEF Unfinished
  <2> QED
    BY <2>1, <2>2
<1>6. CASE CertificateFinished(c)
  <2> DEFINE new == CertificateState(c)
  <2>1. /\ w.version[c] # 0 /\ isTerminalPhase(new.phase)
        /\ CertificateDone(c, new, FailedProgress(new.phase = "Failed"), FALSE)
    BY <1>6 DEF CertificateFinished, AtReadableCertificate
  <2>2. new = old
    BY <1>0, <2>1, Transition DEF isTerminalPhase
  <2> HIDE DEF new
  <2>3. new.phase \notin Unfinished /\ (new.phase = "Failed") \in BOOLEAN
    BY <2>1 DEF isTerminalPhase, Unfinished
  <2> QED
    BY <1>1, <2>1, <2>2, <2>3, Stays, ProgressFields, LDone
<1>7. CASE CertificateRun(c)
  <2>1. PICK new \in CertificateExecutionState, run \in RunLocals, stamp \in BOOLEAN :
            /\ Becomes(c, new, "observe", stamp, run)
            /\ run.unseen = {n \in Node : new.nodes[n].job # NoJob} /\ run.failedNodes = {}
            /\ new.hash = CertificateState(c).hash /\ new.phase = CertificateState(c).phase
            /\ AddsPending(Specs[w.spec].jobs, CertificateState(c).nodes, new.nodes)
            /\ \A n \in Specs[w.spec].jobs : n \in Node => new.nodes[n].phase # "Absent"
    BY <1>7, CertificateRunEffect
  <2>2. w.version[c] # 0 /\ ~ isTerminalPhase(CertificateState(c).phase)
    BY <1>7, CertificateRunEffect
  <2>3. PICK n \in Specs[w.spec].jobs : n \in Node
    <3>1. Specs[w.spec].jobs # {}
      BY <1>1 DEF LInv, PassOK
    <3>2. Specs[w.spec].jobs \subseteq Node
      BY ConstantsAssumption DEF IInv, TypeOK, Pass, WorkflowSpec
    <3> QED
      BY <3>1, <3>2
  <2> DEFINE state == CertificateState(c)
  <2>4. AddsPending(Specs[w.spec].jobs, state.nodes, new.nodes)
    BY <2>1
  <2>5. CASE /\ old.hash = NoHash \/ old.phase \in Finished
             /\ state.hash \in Hash \ {old.hash} /\ state.phase = "Pending"
             /\ \A m \in Node : state.nodes[m].job = NoJob
                                /\ state.nodes[m].phase \in {"Absent", "Pending"}
    <3>1. \A m \in Node : new.nodes[m].job = NoJob /\ new.nodes[m].phase \in {"Absent", "Pending"}
      <4>1. \A m \in Node : new.nodes[m] = state.nodes[m] \/ new.nodes[m] = PendingNode
        BY <2>4 DEF AddsPending
      <4> HIDE DEF state
      <4> QED
        BY <2>5, <4>1 DEF PendingNode
    <3>2. run.unseen = {} /\ new.nodes[n].phase = "Pending"
      BY <2>1, <2>3, <3>1
    <3>3. Began(old, new)
      BY <2>1, <2>3, <2>5, <3>1, <3>2 DEF Began, Unfinished
    <3>4. InRunOK(w.base.observed[c], new, run)
      BY <1>1, <2>1, <3>2, <3>3 DEF InRunOK
    <3> QED
      BY <1>1, <2>1, <3>4, LRun
  <2>6. CASE state = old /\ old.hash # NoHash /\ old.phase # "Absent"
    <3>1. old.phase \in Unfinished
      BY <1>1, <2>2, <2>6 DEF Shape, isTerminalPhase, Finished
    <3>2. GoesOn(old, new)
      <4>1. \A m \in Node : \/ new.nodes[m].phase = old.nodes[m].phase
                            \/ old.nodes[m].phase = "Absent" /\ new.nodes[m].phase = "Pending"
        BY <2>4, <2>6 DEF AddsPending, PendingNode
      <4>2. old.hash # NoHash /\ new.hash = old.hash
        BY <2>1, <2>6
      <4> QED
        BY <3>1, <4>1, <4>2 DEF GoesOn, Lifecycle!NodeStep
    <3>3. \A m \in run.unseen : old.nodes[m].phase \in Lifecycle!Started
      <4>1. StateOK(jobs, done, c, old)
        BY DEF IInv, ObservedOK, AllOK
      <4>2. \A m \in run.unseen : m \in Node /\ new.nodes[m] = old.nodes[m]
        <5>1. run.unseen \subseteq Node /\ \A m \in run.unseen : new.nodes[m].job # NoJob
          BY <2>1
        <5> QED
          BY <2>4, <2>6, <5>1 DEF AddsPending, PendingNode
      <4> QED
        BY <2>1, <4>1, <4>2 DEF StateOK, NodeOK, Lifecycle!Started
    <3>4. InRunOK(w.base.observed[c], new, run)
      BY <1>1, <3>2, <3>3 DEF InRunOK
    <3> QED
      BY <1>1, <2>1, <3>4, LRun
  <2> QED
    BY <1>0, <2>2, <2>5, <2>6, Transition
<1> QED
  BY <1>4, <1>5, <1>6, <1>7 DEF HandleCertificate


-----------------------------------------------------------------------------
(* Steps of reconcileCertificateRun *)

\* What every step of a run may use.
LEMMA LInRun ==
    ASSUME IInv, LInv, NEW c \in Cert, Current(c), w.pc \in {"observe", "schedule"}
    PROVE  /\ w.observed[c] \in CertificateExecutionState /\ w.observed[c].hash # NoHash
           /\ InRunOK(w.base.observed[c], w.observed[c], w.run)
           /\ w.pc = "schedule" => RunnableOK(Specs[w.spec], w.observed[c], w.run)
           /\ w.pc \in Handling /\ w.run \in RunLocals
           /\ StateOK(jobs, done, c, w.observed[c])
BY InRun DEF IInv, RunOK, LInv, PassOK, Handling

LEMMA LRunError ==
    ASSUME IInv, LInv, NEW c \in Cert, Current(c), w.pc \in {"observe", "schedule"},
           RunError(c), UNCHANGED cjob
    PROVE  LInv'
<1> DEFINE new == [w.observed[c] EXCEPT !.phase = "Pending"]
<1>1. /\ new \in CertificateExecutionState /\ new.phase = "Pending"
      /\ new.hash = w.observed[c].hash /\ new.nodes = w.observed[c].nodes
  BY LInRun DEF CertificateExecutionState, ExecutionPhase
<1>2. CertificateDone(c, new, Waiting, TRUE)
  BY DEF RunError
<1> HIDE DEF new
<1>3. Stepped(w.base.observed[c], new)
  BY <1>1, LInRun, BaseState, RunSaved
<1> QED
  BY <1>1, <1>2, <1>3, LInRun, ProgressFields, LDone DEF Unfinished

\* The nodes of the current certificate change.
LEMMA LNodes ==
    ASSUME IInv, LInv, NEW c \in Cert, Current(c), w.pc \in {"observe", "schedule"},
           NEW nodes \in [Node -> WorkflowNodeState(JobName)], NEW run \in RunLocals,
           NEW stamp \in BOOLEAN, NEW pc \in {"observe", "schedule"},
           NodesBecome(c, nodes, pc, stamp, run), UNCHANGED cjob,
           \A new \in CertificateExecutionState :
               new.hash = w.observed[c].hash /\ new.nodes = nodes =>
                   /\ InRunOK(w.base.observed[c], new, run)
                   /\ pc = "schedule" => RunnableOK(Specs[w.spec], new, run)
    PROVE  LInv'
<1> DEFINE new == [w.observed[c] EXCEPT !.nodes = nodes]
<1>1. /\ new \in CertificateExecutionState
      /\ new.hash = w.observed[c].hash /\ new.nodes = nodes
  BY LInRun DEF CertificateExecutionState
<1>2. Becomes(c, new, pc, stamp, run)
  BY DEF NodesBecome
<1> HIDE DEF new
<1> QED
  BY <1>1, <1>2, LInRun, LRun

LEMMA LObserve ==
    ASSUME IInv, LInv, NEW c \in Cert, NEW n \in Node, ObserveNode(c, n)
    PROVE  LInv'
<1> DEFINE base == w.base.observed[c]
           old == w.observed[c]
<1>1. Current(c) /\ n \in w.run.unseen /\ w.pc = "observe" /\ UNCHANGED cjob
  BY ObserveNodeEffect
<1>2. PICK nodes \in [Node -> WorkflowNodeState(JobName)], run \in RunLocals, stamp \in BOOLEAN :
          /\ NodesBecome(c, nodes, "observe", stamp, run)
          /\ run.unseen = w.run.unseen \ {n}
          /\ nodes[n].phase \in {"Running", "Succeeded", "Failed"}
          /\ PhaseChanges(n, old.nodes, nodes)
  BY ObserveNodeEffect
<1>3. GoesOn(base, old) /\ \A m \in w.run.unseen : base.nodes[m].phase \in Lifecycle!Started
  BY <1>1, LInRun DEF InRunOK
<1> HIDE DEF base, old
<1>4. ASSUME NEW new \in CertificateExecutionState, new.hash = old.hash, new.nodes = nodes
      PROVE  InRunOK(base, new, run)
  <2>1. \A m \in Node : Lifecycle!NodeStep(base.nodes[m].phase, new.nodes[m].phase)
    BY <1>1, <1>2, <1>3, <1>4 DEF PhaseChanges, GoesOn, Lifecycle!NodeStep, Lifecycle!Started
  <2> QED
    BY <1>2, <1>3, <1>4, <2>1 DEF InRunOK, GoesOn
<1>5. \A new \in CertificateExecutionState :
          new.hash = w.observed[c].hash /\ new.nodes = nodes => InRunOK(w.base.observed[c], new, run)
  BY <1>4 DEF base, old
<1>6. NodesBecome(c, nodes, "observe", stamp, run)
  BY <1>2
<1> QED
  BY <1>1, <1>5, <1>6, LNodes

LEMMA LPlan ==
    ASSUME IInv, LInv, NEW c \in Cert, PlanSchedule(c)
    PROVE  LInv'
<1> DEFINE base == w.base.observed[c]
           old == w.observed[c]
           spec == Specs[w.spec]
<1>1. Current(c) /\ w.run.unseen = {} /\ w.pc = "observe" /\ UNCHANGED cjob
  BY PlanScheduleEffect
<1>2. PICK nodes \in [Node -> WorkflowNodeState(JobName)], run \in RunLocals, stamp \in BOOLEAN :
          /\ NodesBecome(c, nodes, "schedule", stamp, run)
          /\ run.unseen = {} /\ run.failedNodes = w.run.failedNodes
          /\ SkipsPending(old.nodes, nodes, w.run.failedNodes)
          /\ run.runnable \subseteq runnableNodes(spec.failurePolicy, nodes, deps(spec))
  BY PlanScheduleEffect
<1>3. InRunOK(base, old, w.run)
  BY <1>1, LInRun
<1> HIDE DEF base, old, spec
<1>4. ASSUME NEW new \in CertificateExecutionState, new.hash = old.hash, new.nodes = nodes
      PROVE  InRunOK(base, new, run) /\ RunnableOK(spec, new, run)
  <2>1. RunnableOK(spec, new, run)
    BY <1>2, <1>4 DEF RunnableOK, runnableNodes, NodesIn
  <2>2. CASE Began(base, old) /\ w.run.failedNodes = {}
    <3>1. \A n \in Node : new.nodes[n] = old.nodes[n]
      BY <1>2, <1>4, <2>2 DEF SkipsPending
    <3> QED
      BY <1>2, <1>4, <2>1, <2>2, <3>1 DEF InRunOK, Began
  <2>3. CASE GoesOn(base, old)
    <3>1. \A n \in Node : Lifecycle!NodeStep(base.nodes[n].phase, new.nodes[n].phase)
      <4>1. SkipsPending(old.nodes, new.nodes, w.run.failedNodes)
        BY <1>2, <1>4
      <4>2. \A n \in Node : \/ new.nodes[n].phase = old.nodes[n].phase
                            \/ old.nodes[n].phase = "Pending" /\ new.nodes[n].phase = "Skipped"
        <5> SUFFICES ASSUME NEW n \in Node
                     PROVE  \/ new.nodes[n].phase = old.nodes[n].phase
                            \/ old.nodes[n].phase = "Pending" /\ new.nodes[n].phase = "Skipped"
          OBVIOUS
        <5>1. \/ new.nodes[n] = old.nodes[n]
              \/ /\ old.nodes[n].phase = "Pending"
                 /\ new.nodes[n] = [phase |-> "Skipped", job |-> old.nodes[n].job]
          BY <4>1 DEF SkipsPending
        <5> QED
          BY <5>1
      <4> QED
        BY <2>3, <4>2 DEF GoesOn, Lifecycle!NodeStep, Lifecycle!Started
    <3> QED
      BY <1>2, <1>4, <2>1, <2>3, <3>1 DEF InRunOK, GoesOn
  <2> QED
    BY <1>3, <2>2, <2>3 DEF InRunOK
<1>5. \A new \in CertificateExecutionState :
          new.hash = w.observed[c].hash /\ new.nodes = nodes =>
              InRunOK(w.base.observed[c], new, run) /\ RunnableOK(Specs[w.spec], new, run)
  BY <1>4 DEF base, old, spec
<1>6. NodesBecome(c, nodes, "schedule", stamp, run)
  BY <1>2
<1> QED
  BY <1>1, <1>5, <1>6, LNodes

LEMMA LScheduled ==
    ASSUME IInv, LInv, NEW c \in Cert, NEW n \in Node, Scheduling(c, n), NodeScheduled(c, n),
           UNCHANGED cjob
    PROVE  LInv'
<1> DEFINE base == w.base.observed[c]
           old == w.observed[c]
           spec == Specs[w.spec]
<1>1. Current(c) /\ n \in w.run.runnable /\ w.pc = "schedule" /\ w.restamped \in BOOLEAN
  BY DEF Scheduling, IInv, TypeOK, Pass
<1>2. PICK nodes \in [Node -> WorkflowNodeState(JobName)], run \in RunLocals :
          /\ NodesBecome(c, nodes, "schedule", w.restamped, run)
          /\ run.unseen = w.run.unseen /\ run.failedNodes = w.run.failedNodes
          /\ run.runnable = w.run.runnable \ {n}
          /\ Starts(n, jobOf(c, n), old.nodes, nodes)
  BY NodeScheduledEffect
<1>3. InRunOK(base, old, w.run) /\ RunnableOK(spec, old, w.run) /\ old \in CertificateExecutionState
      /\ w.run \in RunLocals
  BY <1>1, LInRun
<1>4. nodes[n].phase = "Running" /\ \A m \in Node : m # n => nodes[m] = old.nodes[m]
  BY <1>2, <1>3 DEF CertificateExecutionState, Starts
<1>5. old.nodes[n].phase = "Pending"
  BY <1>1, <1>3 DEF RunnableOK
<1> HIDE DEF base, old, spec
<1>6. ASSUME NEW new \in CertificateExecutionState, new.hash = old.hash, new.nodes = nodes
      PROVE  InRunOK(base, new, run) /\ RunnableOK(spec, new, run)
  <2>1. RunnableOK(spec, new, run)
    <3>1. ASSUME NEW m \in run.runnable PROVE m \in Node /\ m # n /\ m \in w.run.runnable
      BY <1>2, <1>3 DEF RunLocals
    <3>2. ASSUME NEW m \in Node, NEW d \in deps(spec)[m] PROVE d \in Node
      BY DEF deps
    <3>3. new.nodes = nodes /\ \A m \in Node : m # n => nodes[m] = old.nodes[m]
      BY <1>4, <1>6
    <3>4. \A m \in run.runnable : \A d \in deps(spec)[m] : d # n
      BY <1>3, <1>5, <3>1 DEF RunnableOK
    <3> QED
      BY <1>3, <3>1, <3>2, <3>3, <3>4 DEF RunnableOK
  <2>2. CASE Began(base, old) /\ w.run.unseen = {} /\ w.run.failedNodes = {}
    <3>1. Began(base, new)
      BY <1>4, <1>5, <1>6, <2>2 DEF Began, Unfinished
    <3> QED
      BY <1>2, <2>1, <2>2, <3>1 DEF InRunOK
  <2>3. CASE GoesOn(base, old) /\ \A m \in w.run.unseen : base.nodes[m].phase \in Lifecycle!Started
    <3>1. \A m \in Node : Lifecycle!NodeStep(base.nodes[m].phase, new.nodes[m].phase)
      BY <1>4, <1>5, <1>6, <2>3 DEF GoesOn, Lifecycle!NodeStep, Lifecycle!Started
    <3> QED
      BY <1>2, <1>6, <2>1, <2>3, <3>1 DEF InRunOK, GoesOn
  <2> QED
    BY <1>3, <2>2, <2>3 DEF InRunOK
<1>7. \A new \in CertificateExecutionState :
          new.hash = w.observed[c].hash /\ new.nodes = nodes =>
              InRunOK(w.base.observed[c], new, run) /\ RunnableOK(Specs[w.spec], new, run)
  BY <1>6 DEF base, old, spec
<1>8. NodesBecome(c, nodes, "schedule", w.restamped, run)
  BY <1>2
<1> QED
  BY <1>1, <1>7, <1>8, LNodes

LEMMA LFinishRun ==
    ASSUME IInv, LInv, NEW c \in Cert, FinishRun(c)
    PROVE  LInv'
<1> DEFINE phase == deriveWorkflowPhase(w.observed[c].nodes)
           running == phase \in {"Running", "Pending"}
           p == [needsRequeue |-> running, anyInProgress |-> running, anyFailed |-> phase = "Failed"]
           new == [w.observed[c] EXCEPT !.phase = phase]
<1>1. /\ CertificateDone(c, new, p, isTerminalPhase(phase))
      /\ w.pc = "schedule" /\ Current(c) /\ UNCHANGED cjob
  BY DEF FinishRun
<1>2. phase \in ExecutionPhase
  BY DerivedPhase DEF ExecutionPhase
<1> HIDE DEF phase
<1>3. p \in Progress /\ isTerminalPhase(phase) \in BOOLEAN
  BY DEF Progress, isTerminalPhase
<1>4. p.anyInProgress = (phase \in Unfinished) /\ p.anyFailed = (phase = "Failed")
  <2>1. (phase \in {"Running", "Pending"}) = (phase \in Unfinished)
    BY DEF Unfinished
  <2> QED
    BY <2>1
<1> HIDE DEF p
<1>5. /\ new \in CertificateExecutionState /\ new.phase = phase
      /\ new.hash = w.observed[c].hash /\ new.nodes = w.observed[c].nodes
  BY <1>1, <1>2, LInRun DEF CertificateExecutionState
<1> HIDE DEF new
<1>6. Stepped(w.base.observed[c], new)
  BY <1>1, <1>5, LInRun, BaseState, RunSaved DEF phase
<1> QED
  BY <1>1, <1>3, <1>4, <1>5, <1>6, LInRun, LDone

LEMMA LRunSteps ==
    ASSUME IInv, LInv, NEW c \in Cert, RunStep(c)
    PROVE  LInv'
<1>1. ASSUME ObserveError(c) \/ \E n \in Node : CreateJobFails(c, n) \/ CreateJobAnswerLost(c, n)
      PROVE  LInv'
  <2>1. Current(c) /\ w.pc \in {"observe", "schedule"} /\ RunError(c) /\ UNCHANGED cjob
    BY <1>1 DEF ObserveError, CreateJobFails, CreateJobAnswerLost, Scheduling
  <2> QED
    BY <2>1, LRunError
<1>2. ASSUME NEW n \in Node, AdoptJob(c, n) \/ CreateJob(c, n)
      PROVE  LInv'
  <2>1. Scheduling(c, n) /\ NodeScheduled(c, n) /\ UNCHANGED cjob
    BY <1>2 DEF AdoptJob, CreateJob
  <2> QED
    BY <2>1, LScheduled
<1> QED
  BY <1>1, <1>2, LObserve, LPlan, LFinishRun DEF RunStep


-----------------------------------------------------------------------------
(* Begin and end of the pass, and everyone else *)

LEMMA IdleShape ==
    /\ Idle.pc = "idle" /\ ~ Idle.fresh /\ Shape(NotObserved)
    /\ \A c \in Cert : Idle.base.observed[c] = NotObserved
BY DEF Idle, NoStatus, Shape, NotObserved, NoNodes

\* Conditions that no pass has set yet say nothing.
LEMMA NothingSaid == \A observed : Agree(NoConditions, observed)
BY DEF Agree, NoConditions

LEMMA ReadFields ==
    /\ ReadObject.base.observed = cache.observed /\ ReadObject.fresh = latest
    /\ ReadObject.observed = cache.observed /\ ReadObject.spec = cache.spec
    /\ ReadObject.progress = NoProgress
BY DEF ReadObject, Idle, Status

\* A pass begins with the object that was read.
LEMMA LBegin ==
    ASSUME IInv, LInv, BeginPass
    PROVE  LInv'
<1>0. UNCHANGED cjob
  BY DEF BeginPass, ReconcileNotFound, ReconcileInvalidSpec, ReconcileListFailed, ReconcileBegin,
     Dequeue
<1>1. Agree(api.conditions, api.observed)'
  BY <1>0 DEF LInv, ProgressOK, cjob, Agree
<1>2. ReadObject \in Pass
  BY ReadObjectType
<1>3. ASSUME w'.base.observed = cache.observed, w'.fresh = latest
      PROVE  SavedOK'
  BY <1>0, <1>3 DEF LInv, SavedOK, cjob
<1>4. \A c \in Cert : Stepped(cache.observed[c], cache.observed[c])
  BY Stays DEF LInv, SavedOK
<1>5. CASE ReconcileInvalidSpec \/ ReconcileListFailed
  <2>1. PICK reason \in {"InvalidSpec", "ListFailed"}, failing \in BOOLEAN :
            w' = [ReadObject EXCEPT !.pc = "update", !.conditions = blocked(reason),
                                    !.failing = failing]
    <3>1. ReadObject.failing = FALSE
      BY DEF ReadObject, Idle
    <3>2. CASE ReconcileInvalidSpec
      <4>1. w' = [ReadObject EXCEPT !.pc = "update", !.conditions = blocked("InvalidSpec")]
        BY <3>2 DEF ReconcileInvalidSpec
      <4>2. w' = [ReadObject EXCEPT !.pc = "update", !.conditions = blocked("InvalidSpec"),
                                    !.failing = FALSE]
        BY <1>2, <3>1, <4>1 DEF Pass
      <4> QED
        BY <4>2
    <3>3. CASE ReconcileListFailed
      BY <3>3 DEF ReconcileListFailed
    <3> QED
      BY <1>5, <3>2, <3>3
  <2>2. /\ w'.pc = "update" /\ w'.observed = cache.observed /\ w'.base.observed = cache.observed
        /\ w'.fresh = latest /\ w'.conditions = blocked(reason)
    BY <1>2, <2>1, ReadFields DEF Pass
  <2>3. PassOK'
    BY <1>4, <2>2 DEF PassOK, Handling
  <2>4. Agree(w'.conditions, w'.observed)
    BY <2>2 DEF Agree, blocked
  <2> QED
    BY <1>1, <1>3, <2>2, <2>3, <2>4 DEF LInv, ProgressOK, Handling
<1>6. CASE ReconcileBegin
  <2> DEFINE matching == {c \in Cert : selectorMatches(cache.spec, cert[c].label)}
             version == [c \in Cert |-> IF c \in matching /\ cert[c].hasSecretName
                                        THEN cert[c].version ELSE 0]
  <2>1. w' = [ReadObject EXCEPT !.pc = "certificates", !.matched = matching,
                                !.todo = matching, !.version = version]
    BY <1>6 DEF ReconcileBegin
  <2> HIDE DEF matching, version
  <2>2. /\ w'.pc = "certificates" /\ w'.observed = cache.observed /\ w'.todo = matching
        /\ w'.base.observed = cache.observed /\ w'.fresh = latest /\ w'.spec = cache.spec
        /\ w'.matched = matching /\ w'.progress = NoProgress
    BY <1>2, <2>1, ReadFields DEF Pass
  <2>3. Specs[cache.spec].jobs # {}
    BY <1>6 DEF ReconcileBegin, buildWorkflowGraph
  <2>4. PassOK'
    BY <2>2, <2>3 DEF PassOK, Handling
  <2>5. ProgressOK'
    BY <1>1, <2>2 DEF ProgressOK, Handling, NoProgress
  <2> QED
    BY <1>3, <2>2, <2>4, <2>5 DEF LInv
<1>7. CASE ReconcileNotFound
  BY <1>0, <1>7 DEF ReconcileNotFound, LInv, SavedOK, PassOK, ProgressOK, cjob, Current
<1> QED
  BY <1>5, <1>6, <1>7 DEF BeginPass

LEMMA LFinishPass ==
    ASSUME IInv, LInv, FinishPass
    PROVE  LInv'
<1> DEFINE observed == filterObservedStates(w.observed, w.matched)
           conditions == applyCertificateJobConditions(w.matched, w.progress)
<1>1. w \in Pass /\ w.matched \subseteq Cert /\ w.pc = "certificates" /\ w.todo = {} /\ UNCHANGED cjob
  BY DEF IInv, TypeOK, Pass, FinishPass
<1>2. \A c \in Cert : observed[c] = IF c \in w.matched THEN w.observed[c] ELSE NotObserved
  BY DEF filterObservedStates
<1>3. /\ conditions.progressing = w.progress.anyInProgress
      /\ conditions.degraded = w.progress.anyFailed
  BY DEF applyCertificateJobConditions
<1>4. w' = [w EXCEPT !.pc = "update", !.observed = observed, !.conditions = conditions]
  BY <1>1 DEF FinishPass, Pass
<1> HIDE DEF observed, conditions
<1>5. /\ w'.pc = "update" /\ w'.observed = observed /\ w'.conditions = conditions
      /\ w'.base = w.base /\ w'.fresh = w.fresh
  BY <1>1, <1>4 DEF Pass
<1>6. /\ \A c \in w.matched : Stepped(w.base.observed[c], w.observed[c])
      /\ w.progress.anyInProgress <=> \E c \in w.matched : w.observed[c].phase \in Unfinished
      /\ w.progress.anyFailed => \E c \in w.matched : w.observed[c].phase = "Failed"
      /\ Agree(api.conditions, api.observed)
  BY <1>1 DEF LInv, PassOK, ProgressOK, Handling
<1>7. \A c \in Cert : Stepped(w.base.observed[c], observed[c])
  BY <1>2, <1>6, Forgotten
<1>8. PassOK'
  BY <1>5, <1>7 DEF PassOK, Handling
<1>9. Agree(conditions, observed)
  <2>1. NotObserved.phase \notin Unfinished
    BY DEF NotObserved, Unfinished
  <2> QED
    BY <1>1, <1>2, <1>3, <1>6, <2>1 DEF Agree
<1>10. ProgressOK'
  <2>1. Agree(api.conditions, api.observed)'
    BY <1>1, <1>6 DEF cjob, Agree
  <2> QED
    BY <1>5, <1>9, <2>1 DEF ProgressOK, Handling
<1>11. SavedOK'
  BY <1>1, <1>5, SavedStays DEF LInv
<1> QED
  BY <1>8, <1>10, <1>11 DEF LInv

\* The worker is idle after the step.
LEMMA LIdle ==
    ASSUME w' = Idle, \A c \in Cert : Shape(api'.observed[c]) /\ Shape(cache'.observed[c]),
           latest' => cache' = api', Agree(api'.conditions, api'.observed)
    PROVE  LInv'
<1>1. w'.pc = "idle" /\ ~ w'.fresh /\ \A c \in Cert : Shape(w'.base.observed[c])
  BY IdleShape
<1>2. SavedOK'
  BY <1>1 DEF SavedOK
<1>3. PassOK' /\ ProgressOK'
  BY <1>1 DEF PassOK, ProgressOK, Handling, Agree
<1> QED
  BY <1>2, <1>3 DEF LInv

\* The status that is written is one step of RunLifecycle away from the saved one.
LEMMA LSave ==
    ASSUME IInv, LInv, w.pc = "update", w.fresh, Save, w' = Idle
    PROVE  LInv' /\ \A c \in Cert : Stepped(api.observed[c], api'.observed[c])
<1>1. /\ api'.observed = w.observed /\ api'.conditions = w.conditions
      /\ cache' = cache /\ latest' = FALSE
  BY DEF Save, IInv, TypeOK, CertificateJob
<1>2. /\ \A c \in Cert : Stepped(w.base.observed[c], w.observed[c]) /\ Shape(cache.observed[c])
      /\ w.base.observed = api.observed /\ Agree(w.conditions, w.observed)
  BY DEF LInv, PassOK, SavedOK, ProgressOK
<1>3. \A c \in Cert : Shape(api'.observed[c]) /\ Stepped(api.observed[c], api'.observed[c])
  BY <1>1, <1>2 DEF Stepped
<1>4. LInv'
  BY <1>1, <1>2, <1>3, LIdle
<1> QED
  BY <1>3, <1>4


\* The saved states stay, or each makes a step of RunLifecycle.
Moved ==
    \/ api'.observed = api.observed
    \/ \A c \in Cert : Stepped(api.observed[c], api'.observed[c])

LEMMA LEnd ==
    ASSUME IInv, LInv, EndPass
    PROVE  LInv' /\ Moved
<1>1. CASE FinishPass
  BY <1>1, LFinishPass DEF FinishPass, cjob, Moved
<1>2. CASE StatusUnchanged \/ StatusUpdateFails
  <2>1. w' = Idle /\ UNCHANGED <<api, cache, latest>>
    BY <1>2 DEF StatusUnchanged, StatusUpdateFails, PassReturns, cjob
  <2>2. /\ \A c \in Cert : Shape(api.observed[c]) /\ Shape(cache.observed[c])
        /\ latest => cache = api
        /\ Agree(api.conditions, api.observed)
    BY DEF LInv, SavedOK, ProgressOK
  <2> QED
    BY <2>1, <2>2, LIdle DEF Moved
<1>3. CASE StatusWritten \/ StatusAnswerLost
  <2>1. w.pc = "update" /\ w.fresh /\ Save /\ w' = Idle
    BY <1>3 DEF StatusWritten, StatusAnswerLost, PassReturns
  <2> QED
    BY <2>1, LSave DEF Moved
<1> QED
  BY <1>1, <1>2, <1>3 DEF EndPass

LEMMA LRestart ==
    ASSUME IInv, LInv, Restart
    PROVE  LInv' /\ Moved
<1>1. w' = Idle /\ api' = api /\ cache' = api
  BY DEF Restart
<1>2. \A c \in Cert : Shape(api.observed[c])
  BY DEF LInv, SavedOK
<1>3. Agree(api.conditions, api.observed)
  BY DEF LInv, ProgressOK
<1> QED
  BY <1>1, <1>2, <1>3, LIdle DEF Moved

\* A step of someone who touches neither the CertificateJob nor the pass.
LEMMA LElsewhere ==
    ASSUME LInv, UNCHANGED <<cjob, w>>
    PROVE  LInv' /\ Moved
<1>1. SavedOK'
  BY DEF LInv, SavedOK, cjob
<1>2. PassOK' /\ ProgressOK'
  BY DEF LInv, PassOK, ProgressOK, cjob, Current
<1> QED
  BY <1>1, <1>2 DEF LInv, Moved, cjob

LEMMA LWatch ==
    ASSUME IInv, LInv, Watches
    PROVE  LInv' /\ Moved
<1>1. CASE WatchCertificateJob
  <2>1. UNCHANGED <<api, w>> /\ cache' = api
    BY <1>1 DEF WatchCertificateJob
  <2>2. SavedOK'
    BY <2>1 DEF LInv, SavedOK
  <2>3. PassOK' /\ ProgressOK'
    BY <2>1 DEF LInv, PassOK, ProgressOK, Current
  <2> QED
    BY <2>1, <2>2, <2>3 DEF LInv, Moved
<1>2. CASE TimerFires \/ \E k \in JobName : WatchJob(k)
  <2>1. UNCHANGED <<cjob, w>>
    BY <1>2 DEF TimerFires, WatchJob
  <2> QED
    BY <2>1, LElsewhere
<1> QED
  BY <1>1, <1>2 DEF Watches

\* The object changes; its status stays or is emptied.
LEMMA LObject ==
    ASSUME IInv, LInv, NEW new \in CertificateJob, ObjectChanges(new),
           \/ new.observed = api.observed /\ new.conditions = api.conditions
           \/ new.observed = NoStatus.observed /\ new.conditions = NoConditions
    PROVE  LInv' /\ Moved
<1>1. w \in Pass /\ w' = [w EXCEPT !.fresh = FALSE] /\ api' = new /\ latest' = FALSE /\ cache' = cache
  BY DEF IInv, TypeOK, ObjectChanges
<1>2. /\ ~ w'.fresh /\ w'.pc = w.pc /\ w'.todo = w.todo /\ w'.matched = w.matched
      /\ w'.spec = w.spec /\ w'.base = w.base /\ w'.observed = w.observed /\ w'.run = w.run
      /\ w'.progress = w.progress /\ w'.conditions = w.conditions
  BY <1>1 DEF Pass
<1>3. Shape(NotObserved) /\ \A c \in Cert : NoStatus.observed[c] = NotObserved
  BY IdleShape DEF NoStatus
<1>4. \A c \in Cert : Shape(new.observed[c])
  BY <1>3 DEF LInv, SavedOK
<1>5. Agree(new.conditions, new.observed)
  <2>1. CASE new.observed = api.observed /\ new.conditions = api.conditions
    BY <2>1 DEF LInv, ProgressOK
  <2>2. CASE new.conditions = NoConditions
    BY <2>2, NothingSaid
  <2> QED
    BY <2>1, <2>2
<1>6. SavedOK'
  BY <1>1, <1>2, <1>4 DEF LInv, SavedOK
<1>7. PassOK'
  BY <1>2 DEF LInv, PassOK, Current
<1>8. ProgressOK'
  BY <1>1, <1>2, <1>5 DEF LInv, ProgressOK
<1>9. Moved
  BY <1>1, <1>3, Forgotten DEF Moved
<1> QED
  BY <1>6, <1>7, <1>8, <1>9 DEF LInv

LEMMA LEdit ==
    ASSUME IInv, LInv, Edits
    PROVE  LInv' /\ Moved
<1>0. api \in CertificateJob /\ api' \in CertificateJob
  BY EditSteps DEF IInv, TypeOK
<1>1. ASSUME NEW s \in SpecId, UpdateSpec(s) PROVE LInv' /\ Moved
  <2> DEFINE new == [api EXCEPT !.spec = s, !.generation = @ + 1]
  <2>1. ObjectChanges(new) /\ new = api'
    BY <1>1 DEF UpdateSpec, ObjectChanges
  <2>2. new.observed = api.observed /\ new.conditions = api.conditions
    BY <1>0 DEF CertificateJob
  <2> HIDE DEF new
  <2> QED
    BY <1>0, <2>1, <2>2, LObject
<1>2. ASSUME NEW s \in SpecId, CreateCertificateJob(s) PROVE LInv' /\ Moved
  <2> DEFINE new == [api EXCEPT !.exists = TRUE, !.spec = s, !.generation = 1]
  <2>1. ObjectChanges(new) /\ new = api'
    BY <1>2 DEF CreateCertificateJob, ObjectChanges
  <2>2. new.observed = api.observed /\ new.conditions = api.conditions
    BY <1>0 DEF CertificateJob
  <2> HIDE DEF new
  <2> QED
    BY <1>0, <2>1, <2>2, LObject
<1>3. CASE DeleteCertificateJob
  <2> DEFINE new == [api EXCEPT !.exists = FALSE, !.uid = @ + 1,
                                !.observed = NoStatus.observed, !.conditions = NoConditions]
  <2>1. ObjectChanges(new) /\ new = api'
    BY <1>3 DEF DeleteCertificateJob, ObjectChanges
  <2>2. new.observed = NoStatus.observed /\ new.conditions = NoConditions
    BY <1>0 DEF CertificateJob
  <2> HIDE DEF new
  <2> QED
    BY <1>0, <2>1, <2>2, LObject
<1>4. CASE \E c \in Cert : \/ \E b \in BOOLEAN : UpdateCertificate(c, b)
                           \/ \E l \in Label : RelabelCertificate(c, l)
                           \/ \E s \in Secret : UpdateSecret(c, s)
  <2>1. UNCHANGED <<cjob, w>>
    BY <1>4 DEF UpdateCertificate, RelabelCertificate, UpdateSecret, CertificateEvent
  <2> QED
    BY <2>1, LElsewhere
<1> QED
  BY <1>1, <1>2, <1>3, <1>4 DEF Edits

LEMMA LInit == Init => LInv
<1> SUFFICES ASSUME Init PROVE LInv
  OBVIOUS
<1>1. /\ cache = api /\ api.observed = NoStatus.observed /\ api.conditions = NoConditions
      /\ w = Idle
  <2>1. api \in [exists : {TRUE}, uid : {1}, spec : SpecId, generation : {1},
                 observed : {NoStatus.observed}, conditions : {NoConditions}]
    BY DEF Init
  <2> QED
    BY <2>1 DEF Init
<1>2. \A c \in Cert : NoStatus.observed[c] = NotObserved
  BY DEF NoStatus
<1>3. SavedOK
  BY <1>1, <1>2, IdleShape DEF SavedOK
<1>4. PassOK /\ ProgressOK
  BY <1>1, IdleShape, NothingSaid DEF PassOK, ProgressOK, Handling
<1> QED
  BY <1>3, <1>4 DEF LInv

LEMMA LNext ==
    ASSUME IInv, LInv, [Next]_vars
    PROVE  LInv' /\ Moved
<1>1. CASE BeginPass
  <2>1. api' = api
    BY <1>1 DEF BeginPass, ReconcileNotFound, ReconcileInvalidSpec, ReconcileListFailed,
       ReconcileBegin, Dequeue, cjob
  <2> QED
    BY <1>1, <2>1, LBegin DEF Moved
<1>2. ASSUME NEW c \in Cert, HandleCertificate(c) PROVE LInv' /\ Moved
  <2>1. api' = api
    BY <1>2 DEF HandleCertificate, CertificateWithoutSecretName, CertificateSecretUnreadable,
       CertificateFinished, CertificateRun, AtReadableCertificate, AtCertificate, cjob
  <2> QED
    BY <1>2, <2>1, LCertificate DEF Moved
<1>3. ASSUME NEW c \in Cert, RunStep(c) PROVE LInv' /\ Moved
  <2>1. api' = api
    BY <1>3 DEF RunStep, ObserveNode, ObserveError, PlanSchedule, AdoptJob, CreateJob,
       CreateJobFails, CreateJobAnswerLost, FinishRun, cjob
  <2> QED
    BY <1>3, <2>1, LRunSteps DEF Moved
<1>4. CASE JobController
  <2>1. UNCHANGED <<cjob, w>>
    BY <1>4 DEF JobController, JobStarts, JobBacksOff, JobCompletes, JobFails, JobDeleted, JobStep
  <2> QED
    BY <2>1, LElsewhere
<1>5. CASE UNCHANGED vars
  <2>1. UNCHANGED <<cjob, w>>
    BY <1>5 DEF vars, cjob
  <2> QED
    BY <2>1, LElsewhere
<1> QED
  BY <1>1, <1>2, <1>3, <1>4, <1>5, LEnd, LRestart, LWatch, LEdit DEF Next, Worker


-----------------------------------------------------------------------------
(* Jobs that are created *)

\* A Job comes into being only in scheduleRunnableNodes, for a node it goes through.
LEMMA Creation ==
    ASSUME IInv, LInv, [Next]_vars, NEW k \in JobName, Missing(jobs[k]), jobs'[k] = "idle"
    PROVE  \E c \in Cert, n \in Node : k = jobOf(c, n) /\ Scheduling(c, n)
<1>1. jobs' # jobs
  BY DEF Missing
<1>2. ~ UNCHANGED vars /\ ~ BeginPass /\ ~ EndPass /\ ~ Restart /\ ~ Watches /\ ~ Edits
  <2>1. UNCHANGED vars => jobs' = jobs
    BY DEF vars
  <2>2. BeginPass => jobs' = jobs
    BY DEF BeginPass, ReconcileNotFound, ReconcileInvalidSpec, ReconcileListFailed,
       ReconcileBegin, Dequeue, cluster
  <2>3. EndPass => jobs' = jobs
    BY DEF EndPass, FinishPass, StatusUnchanged, StatusWritten, StatusUpdateFails,
       StatusAnswerLost, cluster
  <2>4. Restart \/ Watches => jobs' = jobs
    BY DEF Restart, Watches, WatchCertificateJob, TimerFires, WatchJob, cluster
  <2>5. Edits => jobs' = jobs
    BY DEF Edits, UpdateSpec, CreateCertificateJob, DeleteCertificateJob, ObjectChanges,
       UpdateCertificate, RelabelCertificate, UpdateSecret, CertificateEvent
  <2> QED
    BY <1>1, <2>1, <2>2, <2>3, <2>4, <2>5
<1>3. ~ JobController
  <2> SUFFICES ASSUME JobController PROVE FALSE
    OBVIOUS
  <2>1. PICK l \in JobName : \/ JobStarts(l) \/ JobBacksOff(l) \/ JobCompletes(l)
                             \/ JobFails(l) \/ JobDeleted(l)
    BY DEF JobController
  <2>2. jobs \in [JobName -> JobState]
    BY DEF IInv, TypeOK
  <2>3. PICK from, to : JobStep(l, from, to) /\ (to = "idle" => from = {"active"})
    BY <2>1 DEF JobStarts, JobBacksOff, JobCompletes, JobFails, JobDeleted
  <2> QED
    BY <2>2, <2>3 DEF JobStep, Missing
<1>4. PICK c \in Cert : HandleCertificate(c) \/ RunStep(c)
  BY <1>2, <1>3 DEF Next, Worker
<1>5. ~ HandleCertificate(c)
  BY <1>1 DEF HandleCertificate, CertificateWithoutSecretName, CertificateSecretUnreadable,
     CertificateFinished, CertificateRun, AtReadableCertificate, AtCertificate, cluster
<1>6. PICK n \in Node : Scheduling(c, n) /\ JobCreated(jobOf(c, n))
  BY <1>1, <1>4, <1>5 DEF RunStep, ObserveNode, ObserveError, PlanSchedule, AdoptJob, CreateJob,
     CreateJobFails, CreateJobAnswerLost, FinishRun, cluster
<1>7. k = jobOf(c, n)
  BY <1>6 DEF JobCreated, IInv, TypeOK, Missing
<1> QED
  BY <1>6, <1>7

LEMMA CreatedInOrder ==
    ASSUME IInv, LInv, [Next]_vars, NEW k \in JobName, Missing(jobs[k]), jobs'[k] = "idle",
           NEW d \in deps(Specs[w.spec])[k.node]
    PROVE  \/ buildJobName(k.cert, d, k.run) \in done
           \/ w.observed[k.cert].nodes[d].phase = "Skipped"
           \/ /\ w.observed[k.cert].nodes[d].phase = "Failed"
              /\ Specs[w.spec].failurePolicy = "BestEffort"
<1>1. PICK c \in Cert, n \in Node : k = jobOf(c, n) /\ Scheduling(c, n)
  BY Creation
<1>2. k.cert = c /\ k.node = n /\ k.run = w.observed[c].hash
  BY <1>1 DEF jobOf, buildJobName
<1>3. n \in w.run.runnable /\ w.pc = "schedule" /\ Current(c)
  BY <1>1 DEF Scheduling
<1>4. RunnableOK(Specs[w.spec], w.observed[c], w.run) /\ StateOK(jobs, done, c, w.observed[c])
  BY <1>3, LInRun
<1>5. d \in Node /\ d \in deps(Specs[w.spec])[n]
  BY <1>2 DEF deps
<1>6. w.observed[c].nodes[d].phase = "Succeeded" => buildJobName(c, d, w.observed[c].hash) \in done
  BY <1>4, <1>5 DEF StateOK, NodeOK
<1> QED
  BY <1>2, <1>3, <1>4, <1>5, <1>6 DEF RunnableOK

LEMMA NotRecreated ==
    ASSUME IInv, LInv, [Next]_vars, NEW k \in JobName, Missing(jobs[k]), jobs'[k] = "idle", w.fresh
    PROVE  api.observed[k.cert].nodes[k.node].job # k
<1>1. PICK c \in Cert, n \in Node : k = jobOf(c, n) /\ Scheduling(c, n)
  BY Creation
<1> DEFINE saved == api.observed[c]
           old == w.observed[c]
<1>2. k.cert = c /\ k.node = n /\ k.run = old.hash
  BY <1>1 DEF jobOf, buildJobName
<1>3. n \in w.run.runnable /\ w.pc = "schedule" /\ Current(c)
  BY <1>1 DEF Scheduling
<1>4. RunnableOK(Specs[w.spec], old, w.run) /\ InRunOK(w.base.observed[c], old, w.run)
  BY <1>3, LInRun
<1>5. old.nodes[n].phase = "Pending" /\ w.base.observed[c] = saved
  BY <1>3, <1>4 DEF RunnableOK, LInv, SavedOK
<1>6. NodeOK(jobs, done, c, saved.hash, n, saved.nodes[n])
  BY DEF IInv, ObservedOK, AllOK, StateOK
<1>7. CASE Began(saved, old)
  <2>1. saved.hash # old.hash
    BY <1>7 DEF Began
  <2>2. buildJobName(c, n, saved.hash).run # k.run
    BY <1>2, <2>1 DEF buildJobName
  <2> QED
    BY <1>2, <1>6, <2>2, JobAssumption DEF NodeOK
<1>8. CASE GoesOn(saved, old)
  <2>1. saved.nodes[n].phase \notin {"Running", "Succeeded", "Failed"}
    BY <1>5, <1>8 DEF GoesOn, Lifecycle!NodeStep, Lifecycle!Started
  <2> QED
    BY <1>2, <1>6, <2>1, JobAssumption DEF NodeOK
<1> QED
  BY <1>4, <1>5, <1>7, <1>8 DEF InRunOK

-----------------------------------------------------------------------------
(* The theorems *)

\* The invariant of the pass: what it computed is one step of RunLifecycle away
\* from what it read, and if it is fresh it read what is saved.
THEOREM LifecycleInvariance == Spec => [](IInv /\ LInv)
<1>1. Init => IInv /\ LInv
  BY InitIInv, LInit
<1>2. (IInv /\ LInv) /\ [Next]_vars => (IInv /\ LInv)'
  BY NextIInv, LNext
<1> QED
  BY <1>1, <1>2, PTL DEF Spec

\* applyCertificateJobConditions sees, through the merged progress, exactly the
\* unfinished workflows among the states that are saved beside the conditions.
THEOREM ConditionsAgree == Spec => []ConditionsMatchWorkflows
<1>1. IInv /\ LInv => ConditionsMatchWorkflows
  BY DEF LInv, ProgressOK, Agree, Unfinished, ConditionsMatchWorkflows
<1> QED
  BY <1>1, LifecycleInvariance, PTL

\* scheduleRunnableNodes creates the Job of a node only when the dependencies of
\* the node are over, whatever edits, stale caches and restarts came before.
THEOREM JobsCreatedInOrder == Spec => CreatedAfterDependencies
<1> DEFINE InOrder ==
        \A k \in JobName : Missing(jobs[k]) /\ jobs'[k] = "idle" =>
          \A d \in deps(Specs[w.spec])[k.node] :
              \/ buildJobName(k.cert, d, k.run) \in done
              \/ w.observed[k.cert].nodes[d].phase = "Skipped"
              \/ /\ w.observed[k.cert].nodes[d].phase = "Failed"
                 /\ Specs[w.spec].failurePolicy = "BestEffort"
<1>1. IInv /\ LInv /\ [Next]_vars => [InOrder]_vars
  BY CreatedInOrder
<1> HIDE DEF InOrder
<1>2. Spec => [][InOrder]_vars
  BY <1>1, LifecycleInvariance, PTL DEF Spec
<1> QED
  BY <1>2 DEF CreatedAfterDependencies, InOrder

\* A pass that can still save its status creates no Job that the saved status
\* names: for a recorded Job that is gone it marks the node Failed instead.
THEOREM NoJobRecreated == Spec => RecordedJobsNotRecreated
<1> DEFINE NotAgain ==
        \A k \in JobName :
          (Missing(jobs[k]) /\ jobs'[k] = "idle" /\ w.fresh) =>
              api.observed[k.cert].nodes[k.node].job # k
<1>1. IInv /\ LInv /\ [Next]_vars => [NotAgain]_vars
  BY NotRecreated
<1> HIDE DEF NotAgain
<1>2. Spec => [][NotAgain]_vars
  BY <1>1, LifecycleInvariance, PTL DEF Spec
<1> QED
  BY <1>2 DEF RecordedJobsNotRecreated, NotAgain

LEMMA MovedIsStep ==
    ASSUME IInv, IInv', LInv, LInv', Moved
    PROVE  [Lifecycle!Next]_([c \in Cert |-> Seen(api.observed[c])])
<1>1. CASE api'.observed = api.observed
  <2>1. [c \in Cert |-> Seen(api.observed[c])]' = [c \in Cert |-> Seen(api.observed[c])]
    BY <1>1
  <2> QED
    BY <2>1
<1>2. CASE \A c \in Cert : Stepped(api.observed[c], api'.observed[c])
  <2>1. \A c \in Cert : Seen(api'.observed[c]) \in Lifecycle!Run
    <3>1. \A c \in Cert : api'.observed[c] \in CertificateExecutionState
      BY DEF IInv, TypeOK, CertificateJob, Observed
    <3> QED
      BY <1>2, <3>1, ShapeIsRun DEF Stepped
  <2>2. \A c \in Cert : Lifecycle!Step(Seen(api.observed[c]), Seen(api'.observed[c]))
    BY <1>2 DEF Stepped
  <2> QED
    BY <2>1, <2>2 DEF Lifecycle!Next
<1> QED
  BY <1>1, <1>2 DEF Moved

\* The controller implements RunLifecycle: every status update, whichever pass
\* makes it, is one step of every certificate's run.
THEOREM ImplementsLifecycle == Spec => LifecycleSpec
<1>1. Init => Lifecycle!Init
  <2> SUFFICES ASSUME Init PROVE Lifecycle!Init
    OBVIOUS
  <2>1. api.observed = NoStatus.observed
    <3>1. api \in [exists : {TRUE}, uid : {1}, spec : SpecId, generation : {1},
                   observed : {NoStatus.observed}, conditions : {NoConditions}]
      BY DEF Init
    <3> QED
      BY <3>1
  <2>2. Seen(NotObserved) = Lifecycle!None
    <3>1. Seen(NotObserved).nodes = Lifecycle!NoNodePhases
      BY NotObservedType, NoNodesSeen DEF NotObserved, NoNodes
    <3> QED
      BY <3>1, NotObservedType, SeenFields DEF NotObserved, Lifecycle!None
  <2>3. \A c \in Cert : api.observed[c] = NotObserved
    BY <2>1 DEF NoStatus
  <2> QED
    BY <2>2, <2>3 DEF Lifecycle!Init
<1>2. IInv /\ LInv /\ [Next]_vars => [Lifecycle!Next]_([c \in Cert |-> Seen(api.observed[c])])
  BY NextIInv, LNext, MovedIsStep
<1> QED
  BY <1>1, <1>2, LifecycleInvariance, PTL DEF Spec, LifecycleSpec, Lifecycle!Spec
=============================================================================
