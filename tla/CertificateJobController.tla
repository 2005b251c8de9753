----------------------- MODULE CertificateJobController -----------------------
(***************************************************************************)
(* The CertificateJobReconciler for one CertificateJob, with the informer  *)
(* caches it reads, the work queue that wakes it and the Jobs it creates.  *)
(*                                                                         *)
(* A reconcile pass is not atomic: it is cut at the reads of the caches    *)
(* and the calls of the API server, and users, cert-manager, the Job       *)
(* controller, the watches and crashes act between two of its steps.  Its  *)
(* first two reads, of the CertificateJob and of the certificates, are one *)
(* step: a change between them is one before the pass, whose events are    *)
(* still to come.  A first read that fails leaves the request queued, and  *)
(* is no step.                                                             *)
(*                                                                         *)
(* Abstractions.  A certificate name is its rank in the sorted list.  The  *)
(* input hash is the tuple of what is hashed; RunID, a prefix of it, is    *)
(* identified with it; a Job name is the tuple it is built from.  The      *)
(* variables cert and secret are what the informers have delivered: the    *)
(* controller never writes those objects.  Messages and times are left out *)
(* of the status, but for the fact that a pass may have changed them.      *)
(***************************************************************************)
EXTENDS Workflow

CONSTANTS
    Cert,       \* certificates of the namespace, as ranks of their names
    Label,      \* values of the label the selectors look at
    SpecId,     \* the specs the user switches between
    Specs,      \* SpecId -> WorkflowSpec(Label)
    Deletable,  \* states in which a Job may be deleted (TTL, users)
    NoHash,     \* CertificateExecutionState.InputHash = ""
    MaxEdits,   \* bound on changes of specs, certificates and secrets
    MaxFaults   \* bound on failed calls, dropped events and crashes

ASSUME ConstantsAssumption ==
    /\ Cert \subseteq Nat /\ IsFiniteSet(Cert)
    /\ Specs \in [SpecId -> WorkflowSpec(Label)]
    /\ SpecId # {}
    /\ Deletable \subseteq {"idle", "active", "complete", "failed"}
    /\ MaxEdits \in Nat /\ MaxFaults \in Nat

Version == 1 .. (MaxEdits + 1)

Hash == [certificate : Version, secret : Version, spec : SpecId]

ASSUME HashAssumption == NoHash \notin Hash

JobName == [cert : Cert, node : Node, run : Hash]

ASSUME JobAssumption == NoJob \notin JobName

VARIABLES
    api,        \* the CertificateJob in the API server: spec, observed, conditions
    cache,      \* the CertificateJob in the informer cache
    latest,     \* the cached resourceVersion is the current one
    jobs,       \* state of every Job in the API server
    jobCache,   \* state of every Job in the informer cache
    orphans,    \* the Jobs whose owner reference names a deleted CertificateJob
    done,       \* history: the Jobs that have completed
    cert,       \* the certificates
    secret,     \* the secret each certificate names
    queued,     \* the request is in the work queue (or marked dirty)
    timer,      \* a RequeueAfter is pending
    missed,     \* history: a trigger was lost and no pass has begun since
    edits,      \* changes made so far
    faults,     \* faults met so far
    w           \* the worker: locals of the pass in progress

vars == <<api, cache, latest, jobs, jobCache, orphans, done, cert, secret,
          queued, timer, missed, edits, faults, w>>

cluster == <<jobs, jobCache, orphans, done, cert, secret, edits>>
cjob == <<api, cache, latest>>
queue == <<queued, timer, missed>>

-----------------------------------------------------------------------------
(* Types *)

\* "none": never created; "idle": no pod is active and no condition is set;
\* "gone": deleted.
JobState == {"none", "idle", "active", "complete", "failed", "gone"}

Missing(state) == state \in {"none", "gone"}

Live(state) == state \in {"idle", "active"}

CertificateExecutionState ==
    [hash  : Hash \cup {NoHash},
     phase : ExecutionPhase \cup {"Absent"},
     nodes : [Node -> WorkflowNodeState(JobName)]]

NotObserved == [hash |-> NoHash, phase |-> "Absent", nodes |-> NoNodes]

\* The three conditions; reason is that of Ready, "" when none is set yet.
Conditions ==
    [reason : {"", "InvalidSpec", "ListFailed", "WorkflowFailed", "Reconciled",
               "NoMatchingCertificates"},
     ready : BOOLEAN, progressing : BOOLEAN, degraded : BOOLEAN,
     observedGeneration : 0 .. (MaxEdits + 1)]

NoConditions == [reason |-> "", ready |-> FALSE, progressing |-> FALSE,
                 degraded |-> FALSE, observedGeneration |-> 0]

Observed == [Cert -> CertificateExecutionState]

\* uid counts the objects that have had the name, the current one included.
CertificateJob == [exists : BOOLEAN, uid : Version, spec : SpecId, generation : Version,
                   observed : Observed, conditions : Conditions]

Certificate == [label : Label, hasSecretName : BOOLEAN, version : Version]

Secret == [present : BOOLEAN, version : Version]

Progress == [needsRequeue : BOOLEAN, anyFailed : BOOLEAN, anyInProgress : BOOLEAN]

NoProgress == [needsRequeue |-> FALSE, anyFailed |-> FALSE, anyInProgress |-> FALSE]

\* Defect: the progress of the last certificate replaces that of the others.
merge_last(p, q) == q

merge(p, q) == [needsRequeue  |-> p.needsRequeue \/ q.needsRequeue,
                anyFailed     |-> p.anyFailed \/ q.anyFailed,
                anyInProgress |-> p.anyInProgress \/ q.anyInProgress]

\* Locals of a pass.  base is the status that was read, fresh tells whether the
\* object that was read is still the current one, and restamped whether the pass
\* set a message or a time of the status.  matched are the listed
\* certificates, of which todo are not finished yet; version is what the list
\* returned of each, 0 when its secretName is empty.  run are the locals of
\* reconcileCertificateRun for the first certificate of todo: the nodes whose Job
\* it has not looked at, those it found failed, those it may start, and slots,
\* which counts down from the parallelism by active and then by started Jobs.
RunLocals == [unseen : SUBSET Node, failedNodes : SUBSET Node,
              runnable : SUBSET Node, slots : Int]

NoRun == [unseen |-> {}, failedNodes |-> {}, runnable |-> {}, slots |-> 0]

Pass ==
    [pc : {"idle", "certificates", "observe", "schedule", "update"},
     uid : Version, spec : SpecId, generation : Version,
     observed : Observed, conditions : Conditions,
     base : [observed : Observed, conditions : Conditions],
     fresh : BOOLEAN, restamped : BOOLEAN,
     matched : SUBSET Cert, todo : SUBSET Cert, version : [Cert -> Version \cup {0}],
     progress : Progress, failing : BOOLEAN, run : RunLocals]

Status(obj) == [observed |-> obj.observed, conditions |-> obj.conditions]

NoStatus == [observed |-> [c \in Cert |-> NotObserved], conditions |-> NoConditions]

Idle ==
    [pc |-> "idle", uid |-> 1, spec |-> CHOOSE s \in SpecId : TRUE, generation |-> 1,
     observed |-> NoStatus.observed, conditions |-> NoConditions,
     base |-> NoStatus, fresh |-> FALSE, restamped |-> FALSE,
     matched |-> {}, todo |-> {}, version |-> [c \in Cert |-> 0],
     progress |-> NoProgress, failing |-> FALSE, run |-> NoRun]

Init ==
    /\ api \in [exists : {TRUE}, uid : {1}, spec : SpecId, generation : {1},
                observed : {NoStatus.observed}, conditions : {NoConditions}]
    /\ cache = api /\ latest = TRUE
    /\ jobs = [k \in JobName |-> "none"] /\ jobCache = jobs
    /\ orphans = {} /\ done = {}
    /\ cert \in [Cert -> [label : Label, hasSecretName : {TRUE}, version : {1}]]
    /\ secret \in [Cert -> [present : BOOLEAN, version : {1}]]
    /\ queued = TRUE /\ timer = FALSE /\ missed = FALSE
    /\ edits = 0 /\ faults = 0
    /\ w = Idle

Fault == faults < MaxFaults /\ faults' = faults + 1

NoFault == faults' = faults

\* A call that may fail for a reason the model does not hold: it fails at the
\* cost of a fault, and otherwise only when the condition does.
FailsIf(condition) == IF condition THEN NoFault ELSE Fault

-----------------------------------------------------------------------------
(* Reconcile: read the object, validate its spec, list the certificates *)

selectorMatches(spec, label) == Specs[spec].selectorValid /\ label \in Specs[spec].selector

ReadObject ==
    [Idle EXCEPT !.uid = cache.uid, !.spec = cache.spec, !.generation = cache.generation,
                 !.observed = cache.observed, !.conditions = cache.conditions,
                 !.base = Status(cache), !.fresh = latest]

blocked(reason) == [reason |-> reason, ready |-> FALSE, progressing |-> FALSE,
                    degraded |-> TRUE, observedGeneration |-> cache.generation]

Dequeue == /\ w.pc = "idle" /\ queued
           /\ queued' = FALSE /\ missed' = FALSE
           /\ UNCHANGED <<cjob, cluster, timer>>

ReconcileNotFound ==
    /\ Dequeue /\ NoFault
    /\ ~ cache.exists
    /\ UNCHANGED w

ReconcileInvalidSpec ==
    /\ Dequeue /\ NoFault
    /\ cache.exists
    /\ ~ buildWorkflowGraph(Specs[cache.spec])
    /\ w' = [ReadObject EXCEPT !.pc = "update", !.conditions = blocked("InvalidSpec")]

ReconcileListFailed ==
    /\ Dequeue
    /\ cache.exists
    /\ buildWorkflowGraph(Specs[cache.spec])
    /\ FailsIf(~ Specs[cache.spec].selectorValid)
    /\ w' = [ReadObject EXCEPT !.pc = "update", !.conditions = blocked("ListFailed"),
                               !.failing = TRUE]

ReconcileBegin ==
    /\ Dequeue /\ NoFault
    /\ cache.exists
    /\ buildWorkflowGraph(Specs[cache.spec])
    /\ Specs[cache.spec].selectorValid
    /\ LET matching == {c \in Cert : selectorMatches(cache.spec, cert[c].label)}
       IN  w' = [ReadObject EXCEPT
                    !.pc = "certificates", !.matched = matching, !.todo = matching,
                    !.version = [c \in Cert |-> IF c \in matching /\ cert[c].hasSecretName
                                                THEN cert[c].version ELSE 0]]

-----------------------------------------------------------------------------
(* reconcileObservedCertificate *)

Current(c) == c \in w.todo /\ \A d \in w.todo : c <= d

\* The certificate is finished: its state, its share of the progress, and whether
\* a message or a time was set.
CertificateDone(c, state, p, restamped) ==
    w' = [w EXCEPT !.pc = "certificates", !.observed[c] = state, !.todo = @ \ {c},
                   !.progress = merge(@, p), !.restamped = @ \/ restamped, !.run = NoRun]

ensureObservedCertificateState(c) ==
    IF w.observed[c].phase = "Absent"
    THEN [w.observed[c] EXCEPT !.phase = "Pending"] ELSE w.observed[c]

AtCertificate(c) ==
    w.pc = "certificates" /\ Current(c) /\ UNCHANGED <<cjob, cluster, queued, timer>>

Waiting == [needsRequeue |-> TRUE, anyFailed |-> FALSE, anyInProgress |-> TRUE]

\* Defect: a failure is reported only by the pass that meets it.
FailedProgress_once(failed) == NoProgress

\* Defect: a failed run is looked at again and again.
FailedProgress_requeue(failed) == [NoProgress EXCEPT !.anyFailed = failed, !.needsRequeue = failed]

FailedProgress(failed) == [NoProgress EXCEPT !.anyFailed = failed]

CertificateWithoutSecretName(c) ==
    /\ AtCertificate(c) /\ NoFault
    /\ w.version[c] = 0
    /\ UNCHANGED missed
    /\ CertificateDone(c, [ensureObservedCertificateState(c) EXCEPT !.phase = "Failed"],
                       FailedProgress(TRUE), TRUE)

\* When the run is over an error of the read ends the pass without a retry: an
\* input that changed since waits for another trigger.
CertificateSecretUnreadable(c) ==
    LET state == ensureObservedCertificateState(c) IN
    /\ AtCertificate(c)
    /\ w.version[c] # 0
    /\ FailsIf(~ secret[c].present)
    /\ missed' = (missed \/ (secret[c].present /\ isTerminalPhase(state.phase)))
    /\ IF isTerminalPhase(state.phase)
       THEN CertificateDone(c, state, NoProgress, FALSE)
       ELSE CertificateDone(c, [state EXCEPT !.phase = "Pending"], Waiting, TRUE)

buildInputHash(c) ==
    [certificate |-> w.version[c], secret |-> secret[c].version, spec |-> w.spec]

\* Defect: a different input restarts a run that is not over.
applyInputHashTransition_always(state, inputHash) ==
    IF state.hash # inputHash
    THEN [hash |-> inputHash, phase |-> "Pending", nodes |-> initializeNodeStates(Specs[w.spec])]
    ELSE state

\* Defect: a finished run is never replaced.
applyInputHashTransition_never(state, inputHash) ==
    IF state.hash = NoHash
    THEN [hash |-> inputHash, phase |-> "Pending", nodes |-> initializeNodeStates(Specs[w.spec])]
    ELSE state

applyInputHashTransition(state, inputHash) ==
    IF state.hash = NoHash \/ (state.hash # inputHash /\ isTerminalPhase(state.phase))
    THEN [hash |-> inputHash, phase |-> "Pending", nodes |-> initializeNodeStates(Specs[w.spec])]
    ELSE state

CertificateState(c) ==
    applyInputHashTransition(ensureObservedCertificateState(c), buildInputHash(c))

AtReadableCertificate(c) ==
    AtCertificate(c) /\ NoFault /\ w.version[c] # 0 /\ secret[c].present /\ UNCHANGED missed

CertificateFinished(c) ==
    /\ AtReadableCertificate(c)
    /\ isTerminalPhase(CertificateState(c).phase)
    /\ CertificateDone(c, CertificateState(c),
                       FailedProgress(CertificateState(c).phase = "Failed"), FALSE)

\* Enters reconcileCertificateRun, up to the loop of observeWorkflowNodeJobs.
CertificateRun(c) ==
    LET state == CertificateState(c)
        nodes == ensureWorkflowNodeStates(Specs[w.spec], state.nodes)
    IN  /\ AtReadableCertificate(c)
        /\ ~ isTerminalPhase(state.phase)
        /\ w' = [w EXCEPT !.pc = "observe",
                          !.observed[c] = [state EXCEPT !.nodes = nodes],
                          !.restamped = @ \/ state.hash # buildInputHash(c),
                          !.run = [NoRun EXCEPT !.unseen = {n \in Node : nodes[n].job # NoJob},
                                                !.slots = requestedParallelism(Specs[w.spec])]]

-----------------------------------------------------------------------------
(* reconcileCertificateRun *)

\* An error of the run: whatever it recorded so far is kept, the phase is not.
RunError(c) == CertificateDone(c, [w.observed[c] EXCEPT !.phase = "Pending"], Waiting, TRUE)

\* Defect: a Job that is gone is taken to have completed.
observedPhase_goneIsDone(phase, job) ==
    CASE job = "complete" \/ Missing(job) -> "Succeeded"
      [] job = "failed"                   -> "Failed"
      [] job = "active"                   -> "Running"
      [] job = "idle"                     -> IF phase = "Pending" THEN "Running" ELSE phase

\* Defect: a Job that is gone is to be created again.
observedPhase_goneIsPending(phase, job) ==
    CASE job = "complete" -> "Succeeded"
      [] job = "failed"   -> "Failed"
      [] Missing(job)     -> "Pending"
      [] job = "active"   -> "Running"
      [] job = "idle"     -> IF phase = "Pending" THEN "Running" ELSE phase

\* The phase observeWorkflowNodeJobs gives a node whose Job is in the state job.
observedPhase(phase, job) ==
    CASE job = "complete"                -> "Succeeded"
      [] job = "failed" \/ Missing(job)  -> "Failed"
      [] job = "active"                  -> "Running"
      [] job = "idle"                    -> IF phase = "Pending" THEN "Running" ELSE phase

\* One iteration of observeWorkflowNodeJobs.  The slice is sorted only until
\* ensureWorkflowNodeStates appends to it, so any order is allowed.
ObserveNode(c, n) ==
    LET node  == w.observed[c].nodes[n]
        state == jobCache[node.job]
        phase == observedPhase(node.phase, state)
        counted == state = "active" \/ (state = "idle" /\ node.phase = "Pending")
        failed  == state = "failed" \/ Missing(state)
        run == [w.run EXCEPT !.unseen = @ \ {n},
                             !.slots = IF counted THEN @ - 1 ELSE @,
                             !.failedNodes = IF failed THEN @ \cup {n} ELSE @]
    IN  /\ w.pc = "observe" /\ Current(c) /\ n \in w.run.unseen
        /\ w' = [w EXCEPT !.observed[c].nodes[n].phase = phase,
                          !.restamped = @ \/ isTerminalPhase(phase), !.run = run]
        /\ UNCHANGED <<cjob, cluster, queue, faults>>

ObserveError(c) ==
    /\ w.pc = "observe" /\ Current(c) /\ w.run.unseen # {}
    /\ Fault
    /\ RunError(c)
    /\ UNCHANGED <<cjob, cluster, queue>>

\* Defect: the run goes on with the graph of the spec it began with.
PlanSchedule_runGraph(c) ==
    LET spec  == Specs[w.spec]
        graph == Specs[w.observed[c].hash.spec]
        nodes == applyFailurePolicy(spec.failurePolicy, w.observed[c].nodes,
                                    reverseDeps(graph), w.run.failedNodes)
    IN  /\ w.pc = "observe" /\ Current(c) /\ w.run.unseen = {}
        /\ w' = [w EXCEPT !.pc = "schedule",
                          !.observed[c].nodes = nodes,
                          !.run.runnable =
                              IF w.run.slots > 0
                              THEN runnableNodes(spec.failurePolicy, nodes, deps(graph)) ELSE {}]
        /\ UNCHANGED <<cjob, cluster, queue, faults>>

\* The failure policy, then the nodes scheduleRunnableNodes will go through.
PlanSchedule(c) ==
    LET spec  == Specs[w.spec]
        nodes == applyFailurePolicy(spec.failurePolicy, w.observed[c].nodes,
                                    reverseDeps(spec), w.run.failedNodes)
    IN  /\ w.pc = "observe" /\ Current(c) /\ w.run.unseen = {}
        /\ w' = [w EXCEPT !.pc = "schedule",
                          !.observed[c].nodes = nodes,
                          !.run.runnable =
                              IF w.run.slots > 0
                              THEN runnableNodes(spec.failurePolicy, nodes, deps(spec)) ELSE {}]
        /\ UNCHANGED <<cjob, cluster, queue, faults>>

buildJobName(c, n, runID) == [cert |-> c, node |-> n, run |-> runID]

jobOf(c, n) == buildJobName(c, n, w.observed[c].hash)

\* n is the next node the loop of scheduleRunnableNodes takes.
Scheduling(c, n) ==
    /\ w.pc = "schedule" /\ Current(c) /\ w.run.slots > 0
    /\ n \in w.run.runnable /\ \A m \in w.run.runnable : n <= m

\* Defect: a started Job takes no slot.
NodeScheduled_noCount(c, n) ==
    w' = [w EXCEPT !.observed[c].nodes[n] = [phase |-> "Running", job |-> jobOf(c, n)],
                   !.run = [w.run EXCEPT !.runnable = @ \ {n}]]

NodeScheduled(c, n) ==
    w' = [w EXCEPT !.observed[c].nodes[n] = [phase |-> "Running", job |-> jobOf(c, n)],
                   !.run = [w.run EXCEPT !.runnable = @ \ {n}, !.slots = @ - 1]]

AdoptJob(c, n) ==
    /\ Scheduling(c, n)
    /\ ~ Missing(jobCache[jobOf(c, n)])
    /\ NodeScheduled(c, n)
    /\ UNCHANGED <<cjob, cluster, queue, faults>>

\* A node the spec no longer has gets the zero template, which the API server
\* rejects: its pod has no container.
Creatable(c, n) == Missing(jobs[jobOf(c, n)]) /\ n \in Specs[w.spec].jobs

\* The owner is the object the pass has read, which may be deleted by now.
JobCreated(k) ==
    /\ jobs' = [jobs EXCEPT ![k] = "idle"]
    /\ orphans' = IF w.uid = api.uid THEN orphans \ {k} ELSE orphans \cup {k}
    /\ UNCHANGED <<jobCache, done, cert, secret, edits>>

CreateJob(c, n) ==
    /\ Scheduling(c, n)
    /\ Missing(jobCache[jobOf(c, n)])
    /\ Creatable(c, n)
    /\ JobCreated(jobOf(c, n))
    /\ NodeScheduled(c, n)
    /\ UNCHANGED <<cjob, queue, faults>>

\* Defect: the Job is recorded before it is created.
CreateJobFails_recorded(c, n) ==
    /\ Scheduling(c, n)
    /\ FailsIf(Missing(jobCache[jobOf(c, n)]) /\ ~ Creatable(c, n))
    /\ CertificateDone(c, [w.observed[c] EXCEPT
                               !.phase = "Pending",
                               !.nodes[n] = [phase |-> "Running", job |-> jobOf(c, n)]],
                       Waiting, TRUE)
    /\ UNCHANGED <<cjob, cluster, queue>>

\* AlreadyExists, the zero template, or a call (Get or Create) that fails.
CreateJobFails(c, n) ==
    /\ Scheduling(c, n)
    /\ FailsIf(Missing(jobCache[jobOf(c, n)]) /\ ~ Creatable(c, n))
    /\ RunError(c)
    /\ UNCHANGED <<cjob, cluster, queue>>

\* The Job is created and the answer is lost.
CreateJobAnswerLost(c, n) ==
    /\ Scheduling(c, n)
    /\ Missing(jobCache[jobOf(c, n)])
    /\ Creatable(c, n)
    /\ Fault
    /\ JobCreated(jobOf(c, n))
    /\ RunError(c)
    /\ UNCHANGED <<cjob, queue>>

FinishRun(c) ==
    LET phase   == deriveWorkflowPhase(w.observed[c].nodes)
        running == phase \in {"Running", "Pending"}
    IN  /\ w.pc = "schedule" /\ Current(c) /\ (w.run.slots <= 0 \/ w.run.runnable = {})
        /\ CertificateDone(c, [w.observed[c] EXCEPT !.phase = phase],
                           [needsRequeue |-> running, anyInProgress |-> running,
                            anyFailed |-> phase = "Failed"], isTerminalPhase(phase))
        /\ UNCHANGED <<cjob, cluster, queue, faults>>

-----------------------------------------------------------------------------
(* The end of the pass: filter, conditions, status update *)

\* Defect: states of certificates that no longer match are kept.
filterObservedStates_keepAll(observed, matched) == observed

filterObservedStates(observed, matched) ==
    [c \in Cert |-> IF c \in matched THEN observed[c] ELSE NotObserved]

applyCertificateJobConditions(matched, progress) ==
    [reason |-> CASE progress.anyFailed -> "WorkflowFailed"
                  [] ~ progress.anyFailed /\ matched = {} -> "NoMatchingCertificates"
                  [] OTHER -> "Reconciled",
     ready |-> ~ progress.anyFailed, degraded |-> progress.anyFailed,
     progressing |-> progress.anyInProgress, observedGeneration |-> w.generation]

FinishPass ==
    /\ w.pc = "certificates" /\ w.todo = {}
    /\ w' = [w EXCEPT !.pc = "update",
                      !.observed = filterObservedStates(@, w.matched),
                      !.conditions = applyCertificateJobConditions(w.matched, w.progress)]
    /\ UNCHANGED <<cjob, cluster, queue, faults>>

\* Defect: RequeueAfter is not returned.
PassReturns_noRequeue(error) ==
    /\ w' = Idle
    /\ queued' = (queued \/ error)
    /\ UNCHANGED <<timer, missed>>

\* The pass returns: an error is retried, needsRequeue arms the timer.
PassReturns(error) ==
    /\ w' = Idle
    /\ queued' = (queued \/ error)
    /\ timer' = (timer \/ (~ error /\ w.progress.needsRequeue))
    /\ UNCHANGED missed

Save == /\ api' = [api EXCEPT !.observed = w.observed, !.conditions = w.conditions]
        /\ latest' = FALSE
        /\ UNCHANGED cache

\* Messages and times that were set may still have their old value.
StatusMayDiffer == Status(w) # w.base \/ w.restamped

StatusUnchanged ==
    /\ w.pc = "update"
    /\ Status(w) = w.base
    /\ PassReturns(w.failing)
    /\ UNCHANGED <<cjob, cluster, faults>>

\* Defect: the status is written over whatever object is there now.
StatusWritten_anyVersion ==
    /\ w.pc = "update" /\ StatusMayDiffer
    /\ Save
    /\ PassReturns(w.failing)
    /\ UNCHANGED <<cluster, faults>>

StatusWritten ==
    /\ w.pc = "update" /\ StatusMayDiffer /\ w.fresh
    /\ Save
    /\ PassReturns(w.failing)
    /\ UNCHANGED <<cluster, faults>>

\* A conflict, or a call that fails; the request is retried.
StatusUpdateFails ==
    /\ w.pc = "update" /\ StatusMayDiffer
    /\ FailsIf(~ w.fresh)
    /\ PassReturns(TRUE)
    /\ UNCHANGED <<cjob, cluster>>

\* The status is written and the answer is lost.
StatusAnswerLost ==
    /\ w.pc = "update" /\ StatusMayDiffer /\ w.fresh
    /\ Fault
    /\ Save
    /\ PassReturns(TRUE)
    /\ UNCHANGED cluster

\* The operator dies and restarts: locals, queue and timer are lost, the caches
\* are listed anew and every CertificateJob is queued.
Restart ==
    /\ Fault
    /\ w' = Idle /\ queued' = TRUE /\ timer' = FALSE
    /\ cache' = api /\ latest' = TRUE /\ jobCache' = jobs
    /\ UNCHANGED <<api, jobs, orphans, done, cert, secret, missed, edits>>

-----------------------------------------------------------------------------
(* The watches: For, Owns and the two map functions *)

\* A watch event of the CertificateJob reaches the cache and the queue.
WatchCertificateJob ==
    /\ ~ latest
    /\ cache' = api /\ latest' = TRUE /\ queued' = TRUE
    /\ UNCHANGED <<api, cluster, timer, missed, faults, w>>

WatchJob(k) ==
    /\ jobCache[k] # jobs[k]
    /\ jobCache' = [jobCache EXCEPT ![k] = jobs[k]]
    /\ queued' = TRUE
    /\ UNCHANGED <<cjob, jobs, orphans, done, cert, secret, edits, timer, missed, faults, w>>

TimerFires ==
    /\ timer
    /\ timer' = FALSE /\ queued' = TRUE
    /\ UNCHANGED <<cjob, cluster, missed, faults, w>>

\* Defect: only the new certificate is mapped.
mapCertificateToCertificateJobs_newOnly(old, new) ==
    cache.exists /\ selectorMatches(cache.spec, new.label)

\* The handler maps the old and the new certificate of an update.
mapCertificateToCertificateJobs(old, new) ==
    cache.exists /\ \E label \in {old.label, new.label} : selectorMatches(cache.spec, label)

\* The field index finds the certificate only while its secretName is set.
mapSecretToCertificateJobs(c) ==
    cache.exists /\ cert[c].hasSecretName /\ selectorMatches(cache.spec, cert[c].label)

\* The map function returns the request, or nothing when its List fails.
Enqueue(mapped) ==
    \/ queued' = (queued \/ mapped) /\ missed' = missed /\ NoFault
    \/ mapped /\ queued' = queued /\ missed' = TRUE /\ Fault

-----------------------------------------------------------------------------
(* The environment: users, cert-manager, the Job controller *)

Edit == edits < MaxEdits /\ edits' = edits + 1

ObjectChanges(new) ==
    /\ api' = new /\ latest' = FALSE
    /\ w' = [w EXCEPT !.fresh = FALSE]
    /\ UNCHANGED <<cache, jobs, jobCache, done, cert, secret, queue, faults>>

UpdateSpec(s) ==
    /\ Edit
    /\ api.exists /\ s # api.spec
    /\ ObjectChanges([api EXCEPT !.spec = s, !.generation = @ + 1])
    /\ UNCHANGED orphans

DeleteCertificateJob ==
    /\ Edit
    /\ api.exists
    /\ ObjectChanges([api EXCEPT !.exists = FALSE, !.uid = @ + 1,
                                 !.observed = NoStatus.observed, !.conditions = NoConditions])
    /\ orphans' = {k \in JobName : ~ Missing(jobs[k])}

\* The object is created again, under the same name.
CreateCertificateJob(s) ==
    /\ ~ api.exists
    /\ ObjectChanges([api EXCEPT !.exists = TRUE, !.spec = s, !.generation = 1])
    /\ UNCHANGED <<orphans, edits>>

CertificateEvent(c, new) ==
    /\ Edit
    /\ new # cert[c]
    /\ cert' = [cert EXCEPT ![c] = new]
    /\ Enqueue(mapCertificateToCertificateJobs(cert[c], new))
    /\ UNCHANGED <<cjob, jobs, jobCache, orphans, done, secret, timer, w>>

\* The spec or the status of the certificate changes.
UpdateCertificate(c, hasSecretName) ==
    CertificateEvent(c, [cert[c] EXCEPT !.version = @ + 1, !.hasSecretName = hasSecretName])

\* Its labels change; they are not part of the input hash.  A label no selector
\* holds also stands for a certificate that is deleted.
RelabelCertificate(c, label) == CertificateEvent(c, [cert[c] EXCEPT !.label = label])

\* The secret is created, changed or deleted.
UpdateSecret(c, new) ==
    /\ Edit
    /\ new # secret[c] /\ new.version \in {secret[c].version, secret[c].version + 1}
    /\ secret' = [secret EXCEPT ![c] = new]
    /\ Enqueue(mapSecretToCertificateJobs(c))
    /\ UNCHANGED <<cjob, jobs, jobCache, orphans, done, cert, timer, w>>

JobStep(k, from, to) ==
    /\ jobs[k] \in from
    /\ jobs' = [jobs EXCEPT ![k] = to]
    /\ UNCHANGED <<cjob, jobCache, orphans, cert, secret, queue, edits, faults, w>>

JobStarts(k) == JobStep(k, {"idle"}, "active") /\ UNCHANGED done

\* The pod ends and the Job controller waits before the next attempt.
JobBacksOff(k) == JobStep(k, {"active"}, "idle") /\ UNCHANGED done

JobCompletes(k) == JobStep(k, {"idle", "active"}, "complete") /\ done' = done \cup {k}

JobFails(k) == JobStep(k, {"idle", "active"}, "failed") /\ UNCHANGED done

\* The TTL controller or a user deletes the Job, or the garbage collector does
\* because its owner is deleted.
JobDeleted(k) ==
    /\ JobStep(k, IF k \in orphans THEN JobState \ {"none", "gone"} ELSE Deletable, "gone")
    /\ UNCHANGED done

-----------------------------------------------------------------------------
(* Specification *)

BeginPass ==
    ReconcileNotFound \/ ReconcileInvalidSpec \/ ReconcileListFailed \/ ReconcileBegin

HandleCertificate(c) ==
    \/ CertificateWithoutSecretName(c) \/ CertificateSecretUnreadable(c)
    \/ CertificateFinished(c) \/ CertificateRun(c)

RunStep(c) ==
    \/ \E n \in Node : ObserveNode(c, n)
    \/ ObserveError(c)
    \/ PlanSchedule(c)
    \/ \E n \in Node : \/ AdoptJob(c, n) \/ CreateJob(c, n)
                       \/ CreateJobFails(c, n) \/ CreateJobAnswerLost(c, n)
    \/ FinishRun(c)

EndPass == FinishPass \/ StatusUnchanged \/ StatusWritten \/ StatusUpdateFails \/ StatusAnswerLost

Worker == BeginPass \/ (\E c \in Cert : HandleCertificate(c) \/ RunStep(c)) \/ EndPass

Watches == WatchCertificateJob \/ TimerFires \/ \E k \in JobName : WatchJob(k)

Edits ==
    \/ \E s \in SpecId : UpdateSpec(s) \/ CreateCertificateJob(s)
    \/ DeleteCertificateJob
    \/ \E c \in Cert : \/ \E b \in BOOLEAN : UpdateCertificate(c, b)
                       \/ \E l \in Label : RelabelCertificate(c, l)
                       \/ \E s \in Secret : UpdateSecret(c, s)

JobController ==
    \E k \in JobName : \/ JobStarts(k) \/ JobBacksOff(k) \/ JobCompletes(k)
                       \/ JobFails(k) \/ JobDeleted(k)

Next == Worker \/ Restart \/ Watches \/ Edits \/ JobController

Spec == Init /\ [][Next]_vars

\* The worker takes the request that is queued and finishes its pass, watch
\* events arrive, timers fire, and a Job that exists finishes.  Times are saved
\* in seconds: of the passes that only set one again, some find it unchanged.
Fairness ==
    /\ WF_vars(Worker)
    /\ SF_vars(StatusUnchanged)
    /\ WF_vars(WatchCertificateJob)
    /\ WF_vars(TimerFires)
    /\ \A k \in JobName : WF_vars(WatchJob(k)) /\ WF_vars(JobCompletes(k) \/ JobFails(k))

FairSpec == Spec /\ Fairness

-----------------------------------------------------------------------------
(* Properties *)

\* Type invariant of the objects, the caches, the queue and the pass.
TypeOK ==
    /\ api \in CertificateJob /\ cache \in CertificateJob /\ latest \in BOOLEAN
    /\ jobs \in [JobName -> JobState] /\ jobCache \in [JobName -> JobState]
    /\ orphans \subseteq JobName /\ done \subseteq JobName
    /\ cert \in [Cert -> Certificate] /\ secret \in [Cert -> Secret]
    /\ queued \in BOOLEAN /\ timer \in BOOLEAN /\ missed \in BOOLEAN
    /\ edits \in 0 .. MaxEdits /\ faults \in 0 .. MaxFaults
    /\ w \in Pass

\* A node marked Succeeded in the saved status has a Job of this certificate,
\* node and run that really completed, whatever caches and restarts did.
SucceededMeansCompleted ==
    \A c \in Cert, n \in Node :
        api.observed[c].nodes[n].phase = "Succeeded" =>
            buildJobName(c, n, api.observed[c].hash) \in done

\* In the saved status a node names a Job exactly when it was started (Running,
\* Succeeded or Failed), the Job is that of this certificate, node and run, and
\* it was really created: no restart, lost answer or conflict leaves the status
\* pointing to a Job that never existed.
RecordedJobsExist ==
    \A c \in Cert, n \in Node :
        LET node == api.observed[c].nodes[n] IN
        /\ node.job # NoJob <=> node.phase \in {"Running", "Succeeded", "Failed"}
        /\ node.job # NoJob => /\ node.job = buildJobName(c, n, api.observed[c].hash)
                               /\ jobs[node.job] # "none"

\* A Job is created only after the Jobs of all its dependencies, in the same run,
\* have completed (the spec is not edited and its policy is not BestEffort).
DependencyOrder ==
    \A k \in JobName :
        jobs[k] # "none" /\ Specs[k.run.spec].failurePolicy # "BestEffort" =>
            \A d \in deps(Specs[k.run.spec])[k.node] : buildJobName(k.cert, d, k.run) \in done

\* A pass creates a Job only when it takes each dependency of the node, in the
\* graph of the spec it works on, to be over in this run: skipped, failed under
\* BestEffort, or succeeded, and then its Job has really completed.  The spec may
\* have been edited since the run began, and the pass may be outdated.
CreatedAfterDependencies ==
    [][\A k \in JobName : Missing(jobs[k]) /\ jobs'[k] = "idle" =>
          \A d \in deps(Specs[w.spec])[k.node] :
              \/ buildJobName(k.cert, d, k.run) \in done
              \/ w.observed[k.cert].nodes[d].phase = "Skipped"
              \/ /\ w.observed[k.cert].nodes[d].phase = "Failed"
                 /\ Specs[w.spec].failurePolicy = "BestEffort"]_vars

\* When a pass whose status can still be saved creates a Job, the saved status
\* does not already name it: only a pass that works on an outdated object, and
\* whose status update will be refused, can create a deleted Job again.
RecordedJobsNotRecreated ==
    [][\A k \in JobName :
          (Missing(jobs[k]) /\ jobs'[k] = "idle" /\ w.fresh) =>
              api.observed[k.cert].nodes[k.node].job # k]_vars

Unfinished == {"Pending", "Running"}

\* A pass whose status can still be saved creates a Job only for the run that is
\* saved, while that is not over, or for a new run of the current spec, once the
\* saved one is over: only an outdated pass can create Jobs of another run.
CreatedForCurrentRun ==
    [][\A k \in JobName :
          (Missing(jobs[k]) /\ jobs'[k] = "idle" /\ w.fresh) =>
              LET state == api.observed[k.cert] IN
              IF state.hash = k.run THEN state.phase \in Unfinished
              ELSE /\ state.hash = NoHash \/ isTerminalPhase(state.phase)
                   /\ k.run.spec = api.spec]_vars

StartedNodes(old, new) == {n \in Node : new.nodes[n].job \notin {NoJob, old.nodes[n].job}}

\* A status update adds at most spec.parallelism started nodes to a certificate.
\* (The Jobs of several updates may run together: ParallelismRespected.)
StartsBounded ==
    [][\A c \in Cert : Cardinality(StartedNodes(api.observed[c], api'.observed[c]))
                           <= requestedParallelism(Specs[w.spec])]_vars

\* A status update skips a node only beside a failed node of the same run, never
\* under BestEffort, and under ContinueIndependent only if the node depends, over
\* any number of edges, on one that is saved as failed by the same update.
SkipsHaveCause ==
    [][\A c \in Cert, n \in Node :
          LET old    == api.observed[c]
              new    == api'.observed[c]
              spec   == Specs[w.spec]
              failed == NodesIn(new.nodes, {"Failed"})
          IN  (/\ new.nodes[n].phase = "Skipped"
               /\ old.nodes[n].phase # "Skipped" \/ old.hash # new.hash) =>
                  /\ failed # {} /\ spec.failurePolicy # "BestEffort"
                  /\ spec.failurePolicy = "ContinueIndependent" =>
                         n \in descendantNodes(reverseDeps(spec), failed)]_vars

\* A run never waits for nothing.  When a pass ends it without an error, a Job of
\* it is running or it is over: the graph has no cycle, so some pending node can be
\* started as long as nothing runs and nothing has failed.  And a run that is saved
\* as Running has a running node.
RunNotStalled ==
    \A c \in Cert :
        /\ w.pc = "schedule" /\ Current(c) /\ (w.run.slots <= 0 \/ w.run.runnable = {}) =>
               deriveWorkflowPhase(w.observed[c].nodes) # "Pending"
        /\ api.observed[c].phase = "Running" => NodesIn(api.observed[c].nodes, {"Running"}) # {}

\* Conditions stamped with the current generation are about the current spec: they
\* say InvalidSpec exactly when buildWorkflowGraph refuses it, at any time and not
\* only at rest, though the spec may have been edited, or the object deleted and
\* created again, while the pass that wrote them was under way.
ConditionsOfGeneration ==
    /\ api.conditions.observedGeneration <= api.generation
    /\ api.conditions.observedGeneration = api.generation =>
           (api.conditions.reason = "InvalidSpec" <=> ~ buildWorkflowGraph(Specs[api.spec]))

\* When a pass has gone through the certificates, the conditions it saves agree
\* with the workflows: Progressing exactly when some workflow is unfinished, and
\* Degraded only when some workflow is Failed.
ConditionsMatchWorkflows ==
    api.conditions.reason \in {"Reconciled", "NoMatchingCertificates", "WorkflowFailed"} =>
        /\ api.conditions.progressing <=>
               \E c \in Cert : api.observed[c].phase \in {"Pending", "Running"}
        /\ api.conditions.degraded => \E c \in Cert : api.observed[c].phase = "Failed"

Quiet == w.pc = "idle" /\ ~ queued /\ ~ timer /\ latest

\* The input of the certificate has been handled: its run is over, or nothing can
\* be run for it yet.
UpToDate(c) ==
    LET state == api.observed[c] IN
    IF ~ selectorMatches(api.spec, cert[c].label) THEN state.phase = "Absent"
    ELSE IF ~ cert[c].hasSecretName THEN state.phase = "Failed"
    ELSE IF ~ secret[c].present THEN state.phase \notin {"Absent", "Running"}
    ELSE /\ isTerminalPhase(state.phase)
         /\ state.hash = [certificate |-> cert[c].version,
                          secret |-> secret[c].version, spec |-> api.spec]

Processable(spec) == buildWorkflowGraph(spec) /\ spec.selectorValid

\* No wake-up is lost: when the worker is idle with nothing queued, no timer armed
\* and its cache current, there is nothing left for it to do.  Conflicts, lost
\* answers and crashes do not change that.  Two faults do, until the next pass
\* begins for whatever reason: a map function drops an event when its List fails,
\* and a pass gives up a finished certificate when it cannot read its secret.
QuietMeansUpToDate ==
    Quiet /\ ~ missed /\ api.exists /\ Processable(Specs[api.spec]) =>
        \A c \in Cert : UpToDate(c)

SecretsReadable ==
    \A c \in Cert : selectorMatches(api.spec, cert[c].label) /\ cert[c].hasSecretName =>
                      secret[c].present

\* At rest the conditions tell the whole truth about the current generation: a
\* pass that met an error may have saved Degraded=False beside a Failed workflow,
\* but the event of its own status update leads to a pass that puts it right.
QuietConditionsTrue ==
    LET conditions == api.conditions IN
    Quiet /\ ~ missed /\ api.exists =>
        /\ conditions.observedGeneration = api.generation
        /\ ~ buildWorkflowGraph(Specs[api.spec]) => conditions.reason = "InvalidSpec"
        /\ Processable(Specs[api.spec]) /\ SecretsReadable =>
               /\ ~ conditions.progressing
               /\ conditions.degraded <=> \E c \in Cert : api.observed[c].phase = "Failed"
               /\ conditions.ready <=> ~ conditions.degraded

\* What the saved state of a certificate shows of its run.
Seen(state) == [hash |-> state.hash, phase |-> state.phase,
                nodes |-> [n \in Node |-> state.nodes[n].phase]]

Lifecycle == INSTANCE RunLifecycle
    WITH run <- [c \in Cert |-> Seen(api.observed[c])]

\* The status updates implement RunLifecycle.
LifecycleSpec == Lifecycle!Spec

\* Once inputs stop changing, the controller ends up with every certificate
\* handled: its latest input has been run to the end, and stays so.
LatestInputProcessed ==
    <>[](api.exists /\ Processable(Specs[api.spec]) => \A c \in Cert : UpToDate(c))

\* Once inputs stop changing and no certificate waits for its secret, the
\* controller comes to rest: status updates that wake it again, some of which
\* only set a time, come to an end.
ComesToRest == <>[](\A c \in Cert : secret[c].present) => <>[]Quiet

-----------------------------------------------------------------------------
(* What the repository's README says, and the code does not do *)

LiveJobs(c) == {k \in JobName : k.cert = c /\ Live(jobs[k])}

\* README.md:24 and :98: at most spec.parallelism nodes of a certificate's run
\* are running at the same time.
ParallelismRespected ==
    \A c \in Cert : Cardinality(LiveJobs(c)) <= requestedParallelism(Specs[api.spec])

\* README.md:96: no overlapping runs for the same certificate.
NoOverlappingRuns ==
    \A c \in Cert : \A k, l \in LiveJobs(c) : k.run = l.run

\* README.md:45: a node is Failed because its Job failed or is missing.
FailedNodeHasCause ==
    \A c \in Cert, n \in Node :
        LET node == api.observed[c].nodes[n] IN
        node.phase = "Failed" => jobs[node.job] \in {"failed", "gone", "none"}

\* README.md:72: with ContinueIndependent, independent branches continue after a
\* failure: a pending node is eventually started, or skipped as a descendant.
IndependentBranchesRun ==
    \A c \in Cert, n \in Node :
        api.observed[c].nodes[n].phase = "Pending" ~> api.observed[c].nodes[n].phase # "Pending"

\* README.md:90: a different input is applied after the current run reaches a
\* terminal phase; so once inputs stop changing the latest one is applied.
DeferredInputApplied ==
    \A c \in Cert :
        <>[](api.observed[c].hash # NoHash => api.observed[c].hash.spec = api.spec)
=============================================================================
