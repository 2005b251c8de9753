----------------------------- MODULE QuietProofs ------------------------------
(***************************************************************************)
(* No wake-up of CertificateJobController is lost, and at rest the saved   *)
(* conditions are true, for every value of the constants.                  *)
(***************************************************************************)
EXTENDS LifecycleProofs

\* UpToDate, of any state: spec, crt and sec are what the state is measured by.
UpTo(spec, crt, sec, state) ==
    IF ~ selectorMatches(spec, crt.label) THEN state.phase = "Absent"
    ELSE IF ~ crt.hasSecretName THEN state.phase = "Failed"
    ELSE IF ~ sec.present THEN state.phase \notin {"Absent", "Running"}
    ELSE /\ isTerminalPhase(state.phase)
         /\ state.hash = [certificate |-> crt.version, secret |-> sec.version, spec |-> spec]

\* Nothing is left to do for a certificate, and its failure is reported unless its
\* secret cannot be read.
Fine(spec, crt, sec, state, degraded) ==
    /\ UpTo(spec, crt, sec, state)
    /\ state.phase = "Failed" /\ (~ crt.hasSecretName \/ sec.present) => degraded

\* A status with which the controller may rest.
Good(conditions, observed) ==
    /\ conditions.observedGeneration = api.generation
    /\ ~ buildWorkflowGraph(Specs[api.spec]) => conditions.reason = "InvalidSpec"
    /\ Processable(Specs[api.spec]) =>
           /\ conditions.reason \in {"Reconciled", "NoMatchingCertificates", "WorkflowFailed"}
           /\ conditions.ready <=> ~ conditions.degraded
           /\ \A c \in Cert : Fine(api.spec, cert[c], secret[c], observed[c], conditions.degraded)

\* Nothing has happened since the last pass began that would cause another.
Undisturbed == ~ queued /\ ~ missed /\ latest /\ api.exists

\* The pass will be followed by another, saves something, or has found nothing to do.
HandledOK(c) ==
    \/ w.progress.needsRequeue
    \/ w.observed[c] # w.base.observed[c]
    \/ Fine(api.spec, cert[c], secret[c], w.observed[c], w.progress.anyFailed)

\* The pass works on the saved object.
ReadsSaved == /\ w.base = Status(api) /\ w.spec = api.spec /\ w.generation = api.generation

\* The list it works on is still what the cluster has.
ListCurrent ==
    /\ Processable(Specs[api.spec])
    /\ w.matched = {c \in Cert : selectorMatches(api.spec, cert[c].label)}
    /\ w.version = [c \in Cert |-> IF c \in w.matched /\ cert[c].hasSecretName
                                   THEN cert[c].version ELSE 0]

QInv ==
    Undisturbed =>
        /\ w.pc = "idle" /\ ~ timer => Good(api.conditions, api.observed)
        /\ w.pc # "idle" => ReadsSaved
        /\ w.pc \in Handling => ListCurrent /\ \A c \in w.matched \ w.todo : HandledOK(c)
        /\ w.pc = "update" => \/ w.failing \/ w.progress.needsRequeue
                              \/ Status(w) # w.base
                              \/ Good(w.conditions, w.observed)

-----------------------------------------------------------------------------
(* Steps *)

\* After most steps something will cause another pass.
LEMMA Disturbed ==
    ASSUME queued' \/ missed' \/ ~ latest' \/ ~ api'.exists
    PROVE  QInv'
BY DEF QInv, Undisturbed

\* What QInv does not mention may change.
LEMMA QElsewhere ==
    ASSUME QInv, UNCHANGED <<api, latest, cert, secret, queued, timer, missed, w>>
    PROVE  QInv'
<1>1. Undisturbed' <=> Undisturbed
  BY DEF Undisturbed
<1>2. /\ Good(api.conditions, api.observed)' <=> Good(api.conditions, api.observed)
      /\ Good(w.conditions, w.observed)' <=> Good(w.conditions, w.observed)
  BY DEF Good
<1>3. (ReadsSaved' <=> ReadsSaved) /\ (ListCurrent' <=> ListCurrent)
  BY DEF ReadsSaved, ListCurrent
<1>4. \A c \in w.matched \ w.todo : HandledOK(c) => HandledOK(c)'
  BY DEF HandledOK
<1> QED
  BY <1>1, <1>2, <1>3, <1>4 DEF QInv

LEMMA QBegin ==
    ASSUME IInv, LInv, QInv, BeginPass
    PROVE  QInv'
<1> SUFFICES ASSUME Undisturbed' PROVE QInv'
  BY DEF QInv
<1>0. /\ UNCHANGED <<api, cache, latest, cert, secret, timer>> /\ latest /\ api.exists
      /\ cache = api
  BY DEF BeginPass, ReconcileNotFound, ReconcileInvalidSpec, ReconcileListFailed, ReconcileBegin,
     Dequeue, cjob, cluster, Undisturbed, LInv, SavedOK
<1>1. ReadObject \in Pass /\ cache \in CertificateJob
  BY ReadObjectType DEF IInv, TypeOK
<1>2. /\ ReadObject.base = Status(api) /\ ReadObject.spec = api.spec
      /\ ReadObject.generation = api.generation
  BY <1>0 DEF ReadObject, Idle
<1>3. ~ ReconcileNotFound
  BY <1>0 DEF ReconcileNotFound
<1>4. CASE ReconcileInvalidSpec
  <2>1. /\ w' = [ReadObject EXCEPT !.pc = "update", !.conditions = blocked("InvalidSpec")]
        /\ ~ buildWorkflowGraph(Specs[api.spec])
    BY <1>0, <1>4 DEF ReconcileInvalidSpec
  <2>2. /\ w'.pc = "update" /\ w'.conditions = blocked("InvalidSpec") /\ w'.base = Status(api)
        /\ w'.spec = api.spec /\ w'.generation = api.generation
    BY <1>1, <1>2, <2>1 DEF Pass
  <2>3. ReadsSaved'
    BY <1>0, <2>2 DEF ReadsSaved, Status
  <2>4. Good(w.conditions, w.observed)'
    BY <1>0, <2>1, <2>2 DEF Good, blocked, Processable
  <2> QED
    BY <2>2, <2>3, <2>4 DEF QInv, Handling
<1>5. CASE ReconcileListFailed
  <2>1. w' = [ReadObject EXCEPT !.pc = "update", !.conditions = blocked("ListFailed"),
                                !.failing = TRUE]
    BY <1>5 DEF ReconcileListFailed
  <2>2. /\ w'.pc = "update" /\ w'.failing /\ w'.base = Status(api)
        /\ w'.spec = api.spec /\ w'.generation = api.generation
    BY <1>1, <1>2, <2>1 DEF Pass
  <2>3. ReadsSaved'
    BY <1>0, <2>2 DEF ReadsSaved, Status
  <2> QED
    BY <2>2, <2>3 DEF QInv, Handling
<1>6. CASE ReconcileBegin
  <2> DEFINE matching == {c \in Cert : selectorMatches(cache.spec, cert[c].label)}
             version == [c \in Cert |-> IF c \in matching /\ cert[c].hasSecretName
                                        THEN cert[c].version ELSE 0]
  <2>1. /\ w' = [ReadObject EXCEPT !.pc = "certificates", !.matched = matching,
                                   !.todo = matching, !.version = version]
        /\ Processable(Specs[api.spec])
    BY <1>0, <1>6 DEF ReconcileBegin, Processable
  <2> HIDE DEF matching, version
  <2>2. /\ w'.pc = "certificates" /\ w'.matched = matching /\ w'.todo = matching
        /\ w'.version = version /\ w'.base = Status(api)
        /\ w'.spec = api.spec /\ w'.generation = api.generation
    BY <1>1, <1>2, <2>1 DEF Pass
  <2>3. ReadsSaved'
    BY <1>0, <2>2 DEF ReadsSaved, Status
  <2>4. ListCurrent'
    BY <1>0, <2>1, <2>2 DEF ListCurrent, matching, version
  <2>5. \A c \in w'.matched \ w'.todo : HandledOK(c)'
    BY <2>2
  <2> QED
    BY <2>2, <2>3, <2>4, <2>5 DEF QInv, Handling
<1> QED
  BY <1>3, <1>4, <1>5, <1>6 DEF BeginPass

\* A step inside the loop over the certificates that changes no input: c is the
\* current certificate, and the others keep their states.
LEMMA QHandling ==
    ASSUME IInv, LInv, QInv, NEW c \in Cert, c \in w.todo, w.pc \in Handling, w'.pc \in Handling,
           UNCHANGED <<api, latest, cert, secret, queued>>, missed => missed',
           w'.matched = w.matched, w'.todo \in {w.todo, w.todo \ {c}}, w'.version = w.version,
           w'.base = w.base, w'.spec = w.spec, w'.generation = w.generation,
           \A d \in Cert \ {c} : w'.observed[d] = w.observed[d],
           w.progress.needsRequeue => w'.progress.needsRequeue,
           w.progress.anyFailed => w'.progress.anyFailed,
           w'.todo = w.todo \ {c} /\ Undisturbed' => HandledOK(c)'
    PROVE  QInv'
<1> SUFFICES ASSUME Undisturbed' PROVE QInv'
  BY DEF QInv
<1>1. Undisturbed /\ w.pc # "idle" /\ w'.pc # "idle" /\ w'.pc # "update"
  BY DEF Undisturbed, Handling
<1>2. ReadsSaved /\ ListCurrent /\ \A d \in w.matched \ w.todo : HandledOK(d)
  BY <1>1 DEF QInv
<1>3. ReadsSaved' /\ ListCurrent'
  BY <1>2 DEF ReadsSaved, ListCurrent
<1>4. ASSUME NEW d \in w'.matched \ w'.todo PROVE HandledOK(d)'
  <2>1. CASE d = c
    BY <1>4, <2>1
  <2>2. CASE d # c
    <3>1. HandledOK(d) /\ d \in Cert /\ w'.observed[d] = w.observed[d]
      BY <1>2, <1>4, <2>2 DEF IInv, TypeOK, Pass
    <3> QED
      BY <3>1 DEF HandledOK, Fine
  <2> QED
    BY <2>1, <2>2
<1> QED
  BY <1>1, <1>3, <1>4 DEF QInv

\* What the pass knows of the certificate it comes to.
LEMMA AtCurrent ==
    ASSUME IInv, LInv, QInv, Undisturbed, NEW c \in Cert, c \in w.todo, w.pc \in Handling
    PROVE  /\ w.spec = api.spec /\ selectorMatches(api.spec, cert[c].label)
           /\ w.version[c] = IF cert[c].hasSecretName THEN cert[c].version ELSE 0
           /\ cert[c].version # 0
<1>1. ReadsSaved /\ ListCurrent /\ c \in w.matched
  BY DEF QInv, Handling, LInv, PassOK
<1>2. cert[c].version # 0
  BY DEF IInv, TypeOK, Certificate, Version
<1> QED
  BY <1>1, <1>2 DEF ReadsSaved, ListCurrent


\* The current certificate leaves the pass.
LEMMA QDone ==
    ASSUME IInv, LInv, QInv, NEW c \in Cert, Current(c), w.pc \in Handling,
           NEW state \in CertificateExecutionState, NEW p \in Progress, NEW restamped \in BOOLEAN,
           CertificateDone(c, state, p, restamped),
           UNCHANGED <<api, latest, cert, secret, queued>>, missed => missed',
           Undisturbed' => \/ p.needsRequeue
                           \/ state # w.base.observed[c]
                           \/ Fine(api.spec, cert[c], secret[c], state, p.anyFailed)
    PROVE  QInv'
<1>1. /\ w'.pc = "certificates" /\ w'.observed = [w.observed EXCEPT ![c] = state]
      /\ w'.todo = w.todo \ {c} /\ w'.matched = w.matched /\ w'.spec = w.spec
      /\ w'.base = w.base /\ w'.progress = merge(w.progress, p)
      /\ w'.version = w.version /\ w'.generation = w.generation
      /\ w.observed \in Observed /\ w.progress \in Progress
  BY DoneFields
<1>2. /\ w'.observed[c] = state
      /\ \A d \in Cert \ {c} : w'.observed[d] = w.observed[d]
  BY <1>1 DEF Observed
<1>3. /\ w'.progress.needsRequeue = (w.progress.needsRequeue \/ p.needsRequeue)
      /\ w'.progress.anyFailed = (w.progress.anyFailed \/ p.anyFailed)
  BY <1>1 DEF merge
<1>4. Undisturbed' => HandledOK(c)'
  BY <1>1, <1>2, <1>3 DEF HandledOK, Fine
<1>5. c \in w.todo /\ w'.pc \in Handling
  BY <1>1 DEF Current, Handling
<1> QED
  BY <1>1, <1>2, <1>3, <1>4, <1>5, QHandling

\* The current certificate goes on with its run.
LEMMA QRun ==
    ASSUME IInv, LInv, QInv, NEW c \in Cert, Current(c), w.pc \in Handling,
           NEW state, NEW run \in RunLocals, NEW stamp \in BOOLEAN,
           NEW pc \in {"observe", "schedule"}, Becomes(c, state, pc, stamp, run),
           UNCHANGED <<api, latest, cert, secret, queued, missed>>
    PROVE  QInv'
<1>0. w \in Pass /\ w.observed \in Observed
  BY DEF IInv, TypeOK, Pass
<1> DEFINE observed == [w.observed EXCEPT ![c] = state]
<1>1. w' = [w EXCEPT !.pc = pc, !.observed = observed, !.restamped = stamp, !.run = run]
  BY DEF Becomes
<1>2. \A d \in Cert \ {c} : observed[d] = w.observed[d]
  BY <1>0 DEF Observed
<1> HIDE DEF observed
<1>3. /\ w'.pc = pc /\ w'.observed = observed
      /\ w'.todo = w.todo /\ w'.matched = w.matched /\ w'.spec = w.spec
      /\ w'.base = w.base /\ w'.progress = w.progress
      /\ w'.version = w.version /\ w'.generation = w.generation
  BY <1>0, <1>1 DEF Pass
<1>4. c \in w.todo /\ w'.pc \in Handling /\ w'.todo # w.todo \ {c}
  BY <1>3 DEF Current, Handling
<1> QED
  BY <1>2, <1>3, <1>4, QHandling

LEMMA Requeues ==
    /\ Waiting.needsRequeue /\ Waiting \in Progress /\ NoProgress \in Progress
    /\ \A b \in BOOLEAN : FailedProgress(b) \in Progress /\ FailedProgress(b).anyFailed = b
BY DEF Waiting, NoProgress, FailedProgress, Progress

LEMMA QCertificate ==
    ASSUME IInv, LInv, QInv, NEW c \in Cert, HandleCertificate(c)
    PROVE  QInv'
<1> DEFINE old == w.observed[c]
           mid == ensureObservedCertificateState(c)
<1>0. AtCertificate(c)
  BY DEF HandleCertificate, CertificateWithoutSecretName, CertificateSecretUnreadable,
     CertificateFinished, CertificateRun, AtReadableCertificate
<1>1. /\ Current(c) /\ w.pc = "certificates" /\ w.pc \in Handling /\ c \in w.todo
      /\ UNCHANGED <<api, latest, cert, secret, queued>> /\ secret[c] \in Secret
      /\ old \in CertificateExecutionState /\ Shape(old)
  BY <1>0, AtBase DEF Handling, AtCertificate, cjob, cluster, Current, IInv, TypeOK
<1>2. /\ mid \in CertificateExecutionState
      /\ mid = old \/ (old.phase = "Absent" /\ mid.phase = "Pending")
  BY <1>0, EnsuredFields
<1>3. (Undisturbed' => Undisturbed) \/ missed # missed'
  BY <1>1 DEF Undisturbed
<1> HIDE DEF mid
<1>4. \A phase \in ExecutionPhase : [mid EXCEPT !.phase = phase] \in CertificateExecutionState
                                    /\ [mid EXCEPT !.phase = phase].phase = phase
  BY <1>2 DEF CertificateExecutionState
<1>5. CASE CertificateWithoutSecretName(c)
  <2> DEFINE new == [mid EXCEPT !.phase = "Failed"]
  <2>1. CertificateDone(c, new, FailedProgress(TRUE), TRUE) /\ w.version[c] = 0 /\ missed' = missed
    BY <1>5 DEF CertificateWithoutSecretName, mid
  <2>2. new \in CertificateExecutionState /\ new.phase = "Failed"
    BY <1>4 DEF ExecutionPhase
  <2> HIDE DEF new
  <2>3. ASSUME Undisturbed'
        PROVE  Fine(api.spec, cert[c], secret[c], new, FailedProgress(TRUE).anyFailed)
    <3>1. Undisturbed
      BY <1>3, <2>1, <2>3
    <3>2. selectorMatches(api.spec, cert[c].label) /\ ~ cert[c].hasSecretName
      BY <1>1, <2>1, <3>1, AtCurrent
    <3> QED
      BY <2>2, <3>2, Requeues DEF Fine, UpTo
  <2> QED
    BY <1>1, <2>1, <2>2, <2>3, Requeues, QDone
<1>6. CASE CertificateSecretUnreadable(c)
  <2>0. missed => missed'
    BY <1>6 DEF CertificateSecretUnreadable
  <2>1. CASE isTerminalPhase(mid.phase)
    <3>1. /\ CertificateDone(c, mid, NoProgress, FALSE) /\ w.version[c] # 0
          /\ missed' = (missed \/ secret[c].present)
      BY <1>6, <2>1 DEF CertificateSecretUnreadable, mid
    <3>2. ASSUME Undisturbed'
          PROVE  Fine(api.spec, cert[c], secret[c], mid, NoProgress.anyFailed)
      <4>1. Undisturbed /\ ~ secret[c].present
        BY <1>1, <3>1, <3>2 DEF Undisturbed
      <4>2. selectorMatches(api.spec, cert[c].label) /\ cert[c].hasSecretName
        BY <1>1, <3>1, <4>1, AtCurrent
      <4> QED
        BY <2>1, <4>1, <4>2 DEF Fine, UpTo, isTerminalPhase
    <3> QED
      BY <1>1, <1>2, <2>0, <3>1, <3>2, Requeues, QDone
  <2>2. CASE ~ isTerminalPhase(mid.phase)
    <3> DEFINE new == [mid EXCEPT !.phase = "Pending"]
    <3>1. CertificateDone(c, new, Waiting, TRUE)
      BY <1>6, <2>2 DEF CertificateSecretUnreadable, mid
    <3>2. new \in CertificateExecutionState
      BY <1>4 DEF ExecutionPhase
    <3> HIDE DEF new
    <3> QED
      BY <1>1, <2>0, <3>1, <3>2, Requeues, QDone
  <2> QED
    BY <2>1, <2>2
<1>7. CASE CertificateFinished(c)
  <2> DEFINE new == CertificateState(c)
  <2>1. /\ w.version[c] # 0 /\ isTerminalPhase(new.phase) /\ secret[c].present /\ missed' = missed
        /\ CertificateDone(c, new, FailedProgress(new.phase = "Failed"), FALSE)
    BY <1>7 DEF CertificateFinished, AtReadableCertificate
  <2>2. new.hash = buildInputHash(c)
    BY <2>1 DEF CertificateState, applyInputHashTransition, isTerminalPhase
  <2>3. new \in CertificateExecutionState /\ (new.phase = "Failed") \in BOOLEAN
    BY <2>1, TransitionState
  <2> HIDE DEF new
  <2>4. ASSUME Undisturbed'
        PROVE  Fine(api.spec, cert[c], secret[c], new, FailedProgress(new.phase = "Failed").anyFailed)
    <3>1. Undisturbed
      BY <1>3, <2>1, <2>4
    <3>2. /\ selectorMatches(api.spec, cert[c].label) /\ cert[c].hasSecretName
          /\ w.version[c] = cert[c].version /\ w.spec = api.spec
      BY <1>1, <2>1, <3>1, AtCurrent
    <3>3. new.hash = [certificate |-> cert[c].version, secret |-> secret[c].version,
                      spec |-> api.spec]
      BY <2>2, <3>2 DEF buildInputHash
    <3>4. UpTo(api.spec, cert[c], secret[c], new)
      BY <2>1, <3>2, <3>3 DEF UpTo
    <3> QED
      BY <2>3, <3>4, Requeues DEF Fine
  <2> QED
    BY <1>1, <2>1, <2>3, <2>4, Requeues, QDone
<1>8. CASE CertificateRun(c)
  <2>1. PICK new \in CertificateExecutionState, run \in RunLocals, stamp \in BOOLEAN :
            Becomes(c, new, "observe", stamp, run)
    BY <1>8, CertificateRunEffect
  <2>2. missed' = missed
    BY <1>8 DEF CertificateRun, AtReadableCertificate
  <2> QED
    BY <1>1, <2>1, <2>2, QRun
<1> QED
  BY <1>5, <1>6, <1>7, <1>8 DEF HandleCertificate


\* A run that ends was not over when the status was read, so the status changes.
LEMMA QFinishRun ==
    ASSUME IInv, LInv, QInv, NEW c \in Cert, FinishRun(c)
    PROVE  QInv'
<1> DEFINE phase == deriveWorkflowPhase(w.observed[c].nodes)
           running == phase \in {"Running", "Pending"}
           p == [needsRequeue |-> running, anyInProgress |-> running, anyFailed |-> phase = "Failed"]
           new == [w.observed[c] EXCEPT !.phase = phase]
<1>1. /\ CertificateDone(c, new, p, isTerminalPhase(phase))
      /\ w.pc = "schedule" /\ Current(c)
      /\ UNCHANGED <<api, latest, cert, secret, queued, missed>>
  BY DEF FinishRun, cjob, cluster, queue
<1>2. phase \in {"Pending", "Running", "Succeeded", "Failed"}
  BY DerivedPhase
<1> HIDE DEF phase
<1>3. p \in Progress /\ isTerminalPhase(phase) \in BOOLEAN
  BY DEF Progress, isTerminalPhase
<1>4. p.needsRequeue = (phase \in {"Running", "Pending"})
  OBVIOUS
<1> HIDE DEF p
<1>5. /\ new \in CertificateExecutionState /\ new.phase = phase
      /\ new.hash = w.observed[c].hash
  BY <1>1, <1>2, LInRun DEF CertificateExecutionState, ExecutionPhase
<1> HIDE DEF new
<1>6. phase \in {"Succeeded", "Failed"} => new # w.base.observed[c]
  <2>1. InRunOK(w.base.observed[c], w.observed[c], w.run)
    BY <1>1, LInRun
  <2>2. \/ w.base.observed[c].hash # w.observed[c].hash
        \/ w.base.observed[c].phase \in {"Pending", "Running"}
    BY <2>1 DEF InRunOK, Began, GoesOn, Unfinished
  <2> QED
    BY <1>5, <2>2
<1> QED
  BY <1>1, <1>2, <1>3, <1>4, <1>5, <1>6, LInRun, QDone

LEMMA QRunSteps ==
    ASSUME IInv, LInv, QInv, NEW c \in Cert, RunStep(c)
    PROVE  QInv'
<1>1. UNCHANGED <<api, latest, cert, secret, queued, missed>>
  BY DEF RunStep, ObserveNode, ObserveError, PlanSchedule, AdoptJob, CreateJob, JobCreated,
     CreateJobFails, CreateJobAnswerLost, FinishRun, cjob, cluster, queue
<1>2. ASSUME ObserveError(c) \/ \E n \in Node : CreateJobFails(c, n) \/ CreateJobAnswerLost(c, n)
      PROVE  QInv'
  <2> DEFINE new == [w.observed[c] EXCEPT !.phase = "Pending"]
  <2>1. /\ Current(c) /\ w.pc \in {"observe", "schedule"}
        /\ CertificateDone(c, new, Waiting, TRUE)
    BY <1>2 DEF ObserveError, CreateJobFails, CreateJobAnswerLost, Scheduling, RunError
  <2>2. new \in CertificateExecutionState
    BY <2>1, LInRun DEF CertificateExecutionState, ExecutionPhase
  <2> HIDE DEF new
  <2> QED
    BY <1>1, <2>1, <2>2, LInRun, Requeues, QDone
<1>3. ASSUME NEW n \in Node, ObserveNode(c, n) PROVE QInv'
  <2>1. Current(c) /\ w.pc = "observe"
    BY <1>3 DEF ObserveNode
  <2>2. PICK nodes \in [Node -> WorkflowNodeState(JobName)], run \in RunLocals, stamp \in BOOLEAN :
           NodesBecome(c, nodes, "observe", stamp, run)
    BY <1>3, ObserveNodeEffect
  <2> QED
    BY <1>1, <2>1, <2>2, LInRun, QRun DEF NodesBecome
<1>4. CASE PlanSchedule(c)
  <2>1. Current(c) /\ w.pc = "observe"
    BY <1>4 DEF PlanSchedule
  <2>2. PICK nodes \in [Node -> WorkflowNodeState(JobName)], run \in RunLocals, stamp \in BOOLEAN :
           NodesBecome(c, nodes, "schedule", stamp, run)
    BY <1>4, PlanScheduleEffect
  <2> QED
    BY <1>1, <2>1, <2>2, LInRun, QRun DEF NodesBecome
<1>5. ASSUME NEW n \in Node, AdoptJob(c, n) \/ CreateJob(c, n) PROVE QInv'
  <2>1. Scheduling(c, n) /\ NodeScheduled(c, n)
    BY <1>5 DEF AdoptJob, CreateJob
  <2>2. Current(c) /\ w.pc = "schedule" /\ w.restamped \in BOOLEAN
    BY <2>1 DEF Scheduling, IInv, TypeOK, Pass
  <2>3. PICK nodes \in [Node -> WorkflowNodeState(JobName)], run \in RunLocals :
           NodesBecome(c, nodes, "schedule", w.restamped, run)
    BY <2>1, NodeScheduledEffect
  <2> QED
    BY <1>1, <2>2, <2>3, LInRun, QRun DEF NodesBecome
<1> QED
  BY <1>2, <1>3, <1>4, <1>5, QFinishRun DEF RunStep

LEMMA QFinishPass ==
    ASSUME IInv, LInv, QInv, FinishPass
    PROVE  QInv'
<1> SUFFICES ASSUME Undisturbed' PROVE QInv'
  BY DEF QInv
<1> DEFINE observed == filterObservedStates(w.observed, w.matched)
           conditions == applyCertificateJobConditions(w.matched, w.progress)
<1>1. /\ w \in Pass /\ w.pc = "certificates" /\ w.pc \in Handling /\ w.todo = {}
      /\ UNCHANGED <<api, latest, cert, secret, queued, missed>>
  BY DEF IInv, TypeOK, FinishPass, cjob, cluster, queue, Handling
<1>2. Undisturbed
  BY <1>1 DEF Undisturbed
<1>3. ReadsSaved /\ ListCurrent /\ \A c \in w.matched : HandledOK(c)
  BY <1>1, <1>2 DEF QInv
<1>4. \A c \in Cert : observed[c] = IF c \in w.matched THEN w.observed[c] ELSE NotObserved
  BY DEF filterObservedStates
<1>5. /\ conditions.degraded = w.progress.anyFailed /\ conditions.ready = ~ w.progress.anyFailed
      /\ conditions.observedGeneration = w.generation
      /\ conditions.reason \in {"Reconciled", "NoMatchingCertificates", "WorkflowFailed"}
  BY DEF applyCertificateJobConditions
<1>6. w' = [w EXCEPT !.pc = "update", !.observed = observed, !.conditions = conditions]
  BY <1>1 DEF FinishPass, Pass
<1> HIDE DEF observed, conditions
<1>7. /\ w'.pc = "update" /\ w'.observed = observed /\ w'.conditions = conditions
      /\ w'.base = w.base /\ w'.spec = w.spec /\ w'.generation = w.generation
      /\ w'.progress = w.progress
  BY <1>1, <1>6 DEF Pass
<1>8. ReadsSaved'
  BY <1>1, <1>3, <1>7 DEF ReadsSaved
<1>9. CASE \E c \in w.matched : w.observed[c] # w.base.observed[c]
  <2>1. PICK c \in Cert : w'.observed[c] # w'.base.observed[c]
    BY <1>4, <1>7, <1>9, <1>1 DEF Pass
  <2>2. Status(w)' # w'.base
    BY <2>1 DEF Status
  <2> QED
    BY <1>7, <1>8, <2>2 DEF QInv, Handling
<1>10. CASE w.progress.needsRequeue
  BY <1>7, <1>8, <1>10 DEF QInv, Handling
<1>11. CASE ~ w.progress.needsRequeue /\ \A c \in w.matched : w.observed[c] = w.base.observed[c]
  <2>1. ASSUME NEW c \in Cert
        PROVE  Fine(api.spec, cert[c], secret[c], observed[c], conditions.degraded)
    <3>1. CASE c \in w.matched
      BY <1>3, <1>4, <1>5, <1>11, <3>1 DEF HandledOK
    <3>2. CASE c \notin w.matched
      <4>1. ~ selectorMatches(api.spec, cert[c].label) /\ observed[c].phase = "Absent"
        BY <1>3, <1>4, <3>2 DEF ListCurrent, NotObserved
      <4> QED
        BY <4>1 DEF Fine, UpTo
    <3> QED
      BY <3>1, <3>2
  <2>2. buildWorkflowGraph(Specs[api.spec]) /\ w.generation = api.generation
    BY <1>3 DEF ListCurrent, Processable, ReadsSaved
  <2>3. Good(conditions, observed)
    BY <1>5, <2>1, <2>2 DEF Good
  <2>4. Good(w.conditions, w.observed)'
    BY <1>1, <1>7, <2>3 DEF Good
  <2> QED
    BY <1>7, <1>8, <2>4 DEF QInv, Handling
<1> QED
  BY <1>9, <1>10, <1>11

LEMMA QEnd ==
    ASSUME IInv, LInv, QInv, EndPass
    PROVE  QInv'
<1>1. CASE StatusUnchanged
  <2> SUFFICES ASSUME Undisturbed' PROVE QInv'
    BY DEF QInv
  <2>1. /\ w.pc = "update" /\ Status(w) = w.base /\ w' = Idle /\ w.failing \in BOOLEAN
        /\ queued' = (queued \/ w.failing) /\ missed' = missed
        /\ timer' = (timer \/ (~ w.failing /\ w.progress.needsRequeue))
        /\ UNCHANGED <<api, latest, cert, secret>>
    BY <1>1 DEF StatusUnchanged, PassReturns, cjob, cluster, IInv, TypeOK, Pass
  <2>2. Undisturbed /\ ~ w.failing
    BY <2>1 DEF Undisturbed
  <2>3. /\ ReadsSaved
        /\ w.progress.needsRequeue \/ Good(w.conditions, w.observed)
    BY <2>1, <2>2 DEF QInv
  <2>4. api.observed = w.observed /\ api.conditions = w.conditions
    BY <2>1, <2>3 DEF ReadsSaved, Status
  <2>5. ~ timer' => Good(api.conditions, api.observed)'
    BY <2>1, <2>2, <2>3, <2>4 DEF Good
  <2>6. w'.pc = "idle"
    BY <2>1, IdleShape
  <2> QED
    BY <2>5, <2>6 DEF QInv, Handling
<1>2. CASE StatusWritten \/ StatusAnswerLost
  <2>1. ~ latest'
    BY <1>2 DEF StatusWritten, StatusAnswerLost, Save
  <2> QED
    BY <2>1, Disturbed
<1>3. CASE StatusUpdateFails
  <2>1. queued'
    BY <1>3 DEF StatusUpdateFails, PassReturns
  <2> QED
    BY <2>1, Disturbed
<1> QED
  BY <1>1, <1>2, <1>3, QFinishPass DEF EndPass


-----------------------------------------------------------------------------
(* Everyone else *)

\* A certificate or a secret changes and no pass is caused: the one was not selected
\* before or after, or the other is not read.
LEMMA QUnseen ==
    ASSUME QInv, UNCHANGED <<api, latest, timer, w>>, Undisturbed' => Undisturbed,
           Undisturbed' => \A d \in Cert :
               \/ cert'[d] = cert[d] /\ secret'[d] = secret[d]
               \/ /\ ~ selectorMatches(api.spec, cert[d].label)
                  /\ ~ selectorMatches(api.spec, cert'[d].label)
               \/ cert'[d] = cert[d] /\ ~ cert[d].hasSecretName
    PROVE  QInv'
<1> SUFFICES ASSUME Undisturbed' PROVE QInv'
  BY DEF QInv
<1>1. Undisturbed
  OBVIOUS
<1>2. \A d \in Cert :
          /\ selectorMatches(api.spec, cert'[d].label) <=> selectorMatches(api.spec, cert[d].label)
          /\ selectorMatches(api.spec, cert[d].label) => cert'[d] = cert[d]
  OBVIOUS
<1>3. ASSUME NEW d \in Cert, NEW state, NEW degraded
      PROVE  Fine(api.spec, cert[d], secret[d], state, degraded) =>
                 Fine(api.spec, cert'[d], secret'[d], state, degraded)
  <2>1. CASE cert'[d] = cert[d] /\ secret'[d] = secret[d]
    BY <2>1
  <2>2. CASE /\ ~ selectorMatches(api.spec, cert[d].label)
             /\ ~ selectorMatches(api.spec, cert'[d].label)
    BY <2>2 DEF Fine, UpTo
  <2>3. CASE cert'[d] = cert[d] /\ ~ cert[d].hasSecretName
    BY <2>3 DEF Fine, UpTo
  <2> QED
    BY <2>1, <2>2, <2>3
<1>4. /\ Good(api.conditions, api.observed) => Good(api.conditions, api.observed)'
      /\ Good(w.conditions, w.observed) => Good(w.conditions, w.observed)'
  BY <1>3 DEF Good
<1>5. (ReadsSaved => ReadsSaved') /\ (ListCurrent => ListCurrent')
  <2>1. ASSUME ListCurrent PROVE ListCurrent'
    <3>1. w'.matched = {c \in Cert : selectorMatches(api'.spec, cert'[c].label)}
      BY <1>2, <2>1 DEF ListCurrent
    <3>2. \A c \in Cert : c \in w.matched => cert'[c] = cert[c]
      BY <1>2, <2>1 DEF ListCurrent
    <3>3. w'.version = [c \in Cert |-> IF c \in w'.matched /\ cert'[c].hasSecretName
                                       THEN cert'[c].version ELSE 0]
      BY <2>1, <3>2 DEF ListCurrent
    <3> QED
      BY <2>1, <3>1, <3>3 DEF ListCurrent
  <2> QED
    BY <2>1 DEF ReadsSaved
<1>6. ASSUME ListCurrent, NEW c \in w.matched, HandledOK(c) PROVE HandledOK(c)'
  <2>1. c \in Cert
    BY <1>6 DEF ListCurrent
  <2> QED
    BY <1>3, <1>6, <2>1 DEF HandledOK
<1> QED
  BY <1>1, <1>4, <1>5, <1>6 DEF QInv

LEMMA QEdit ==
    ASSUME IInv, LInv, QInv, Edits
    PROVE  QInv'
<1>1. ASSUME \/ \E s \in SpecId : UpdateSpec(s) \/ CreateCertificateJob(s)
             \/ DeleteCertificateJob
      PROVE  QInv'
  <2>1. ~ latest'
    BY <1>1 DEF UpdateSpec, CreateCertificateJob, DeleteCertificateJob, ObjectChanges
  <2> QED
    BY <2>1, Disturbed
<1>2. ASSUME NEW mapped \in BOOLEAN, Enqueue(mapped), Undisturbed', UNCHANGED cjob
      PROVE  Undisturbed /\ ~ mapped /\ cache = api /\ api.exists
  <2>1. /\ ~ queued' /\ ~ missed' /\ latest /\ api.exists /\ cache = api
        /\ queued \in BOOLEAN /\ missed \in BOOLEAN
    BY <1>2 DEF Undisturbed, cjob, LInv, SavedOK, IInv, TypeOK
  <2>2. queued' = (queued \/ mapped) /\ missed' = missed
    BY <1>2, <2>1 DEF Enqueue
  <2> QED
    BY <2>1, <2>2 DEF Undisturbed
<1>3. ASSUME NEW c \in Cert, NEW new, CertificateEvent(c, new) PROVE QInv'
  <2>1. /\ cert' = [cert EXCEPT ![c] = new] /\ cert \in [Cert -> Certificate]
        /\ Enqueue(mapCertificateToCertificateJobs(cert[c], new))
        /\ UNCHANGED <<api, latest, secret, timer, w>> /\ UNCHANGED cjob
    BY <1>3 DEF CertificateEvent, cjob, IInv, TypeOK
  <2>2. ASSUME Undisturbed'
        PROVE  /\ Undisturbed
               /\ ~ selectorMatches(api.spec, cert[c].label) /\ ~ selectorMatches(api.spec, new.label)
    <3>1. mapCertificateToCertificateJobs(cert[c], new) \in BOOLEAN
      BY DEF mapCertificateToCertificateJobs
    <3> QED
      BY <1>2, <2>1, <2>2, <3>1 DEF mapCertificateToCertificateJobs
  <2>3. cert'[c] = new /\ \A d \in Cert \ {c} : cert'[d] = cert[d]
    BY <2>1
  <2> QED
    BY <2>1, <2>2, <2>3, QUnseen
<1>4. ASSUME NEW c \in Cert, NEW new \in Secret, UpdateSecret(c, new) PROVE QInv'
  <2>1. /\ secret' = [secret EXCEPT ![c] = new] /\ secret \in [Cert -> Secret]
        /\ Enqueue(mapSecretToCertificateJobs(c))
        /\ UNCHANGED <<api, latest, cert, timer, w>> /\ UNCHANGED cjob
    BY <1>4 DEF UpdateSecret, cjob, IInv, TypeOK
  <2>2. ASSUME Undisturbed'
        PROVE  /\ Undisturbed
               /\ ~ selectorMatches(api.spec, cert[c].label) \/ ~ cert[c].hasSecretName
    <3>1. mapSecretToCertificateJobs(c) \in BOOLEAN
      BY DEF mapSecretToCertificateJobs
    <3> QED
      BY <1>2, <2>1, <2>2, <3>1 DEF mapSecretToCertificateJobs
  <2>3. \A d \in Cert \ {c} : secret'[d] = secret[d]
    BY <2>1
  <2> QED
    BY <2>1, <2>2, <2>3, QUnseen
<1> QED
  BY <1>1, <1>3, <1>4 DEF Edits, UpdateCertificate, RelabelCertificate

LEMMA QNext ==
    ASSUME IInv, LInv, QInv, [Next]_vars
    PROVE  QInv'
<1>1. CASE Restart \/ Watches
  <2>1. queued'
    BY <1>1 DEF Restart, Watches, WatchCertificateJob, TimerFires, WatchJob
  <2> QED
    BY <2>1, Disturbed
<1>2. CASE JobController \/ UNCHANGED vars
  <2>1. UNCHANGED <<api, latest, cert, secret, queued, timer, missed, w>>
    BY <1>2 DEF JobController, JobStarts, JobBacksOff, JobCompletes, JobFails, JobDeleted, JobStep,
       cjob, queue, vars
  <2> QED
    BY <2>1, QElsewhere
<1> QED
  BY <1>1, <1>2, QBegin, QCertificate, QRunSteps, QEnd, QEdit DEF Next, Worker

\* QInv is an invariant: whenever nothing is queued, dropped or undelivered, a
\* pass that is under way works on current data and will be followed by another,
\* will save something, or leaves nothing to do.
THEOREM QuietInvariance == Spec => [](IInv /\ LInv /\ QInv)
<1>1. Init => QInv
  BY DEF Init, QInv, Undisturbed
<1>2. IInv /\ LInv /\ QInv /\ [Next]_vars => QInv'
  BY QNext
<1> QED
  BY <1>1, <1>2, LifecycleInvariance, PTL DEF Spec

-----------------------------------------------------------------------------
(* The controller at rest *)

LEMMA AtRest ==
    ASSUME QInv, Quiet, ~ missed, api.exists
    PROVE  Good(api.conditions, api.observed)
BY DEF QInv, Quiet, Undisturbed

\* When the controller rests and no event was dropped, every certificate has been
\* handled: no merged, late or early wake-up is lost.
THEOREM NoWakeUpLost == Spec => []QuietMeansUpToDate
<1>1. ASSUME QInv PROVE QuietMeansUpToDate
  <2> SUFFICES ASSUME Quiet, ~ missed, api.exists, Processable(Specs[api.spec]), NEW c \in Cert
               PROVE  UpToDate(c)
    BY DEF QuietMeansUpToDate
  <2>1. UpTo(api.spec, cert[c], secret[c], api.observed[c])
    BY <1>1, AtRest DEF Good, Fine
  <2> QED
    BY <2>1 DEF UpTo, UpToDate
<1> QED
  BY <1>1, QuietInvariance, PTL

\* When the controller rests, the conditions are those of the current generation
\* and say of the workflows exactly what is the case.
THEOREM RestingConditionsTrue == Spec => []QuietConditionsTrue
<1>1. ASSUME IInv, LInv, QInv PROVE QuietConditionsTrue
  <2> SUFFICES ASSUME Quiet, ~ missed, api.exists
               PROVE  LET conditions == api.conditions IN
                      /\ conditions.observedGeneration = api.generation
                      /\ ~ buildWorkflowGraph(Specs[api.spec]) => conditions.reason = "InvalidSpec"
                      /\ Processable(Specs[api.spec]) /\ SecretsReadable =>
                            /\ ~ conditions.progressing
                            /\ conditions.degraded <=> \E c \in Cert : api.observed[c].phase = "Failed"
                            /\ conditions.ready <=> ~ conditions.degraded
    BY DEF QuietConditionsTrue
  <2>1. Good(api.conditions, api.observed)
    BY <1>1, AtRest
  <2>2. ASSUME Processable(Specs[api.spec]), SecretsReadable
        PROVE  /\ ~ api.conditions.progressing
               /\ api.conditions.degraded <=> \E c \in Cert : api.observed[c].phase = "Failed"
    <3>1. /\ api.conditions.reason \in {"Reconciled", "NoMatchingCertificates", "WorkflowFailed"}
          /\ \A c \in Cert : Fine(api.spec, cert[c], secret[c], api.observed[c], api.conditions.degraded)
      BY <2>1, <2>2 DEF Good
    <3>2. \A c \in Cert : selectorMatches(api.spec, cert[c].label) /\ cert[c].hasSecretName =>
                              secret[c].present
      BY <2>2 DEF SecretsReadable
    <3>3. \A c \in Cert : api.observed[c].phase \notin Unfinished
      BY <3>1, <3>2 DEF Fine, UpTo, isTerminalPhase, Unfinished
    <3>4. \A c \in Cert : api.observed[c].phase = "Failed" => api.conditions.degraded
      BY <3>1, <3>2 DEF Fine, UpTo
    <3>5. /\ api.conditions.progressing <=>
                 \E c \in Cert : api.observed[c].phase \in Unfinished
          /\ api.conditions.degraded => \E c \in Cert : api.observed[c].phase = "Failed"
      BY <1>1, <3>1 DEF LInv, ProgressOK, Agree
    <3> QED
      BY <3>3, <3>4, <3>5
  <2> QED
    BY <2>1, <2>2 DEF Good
<1> QED
  BY <1>1, QuietInvariance, PTL

=============================================================================
