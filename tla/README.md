# A formal model of certificate-job-operator

The operator runs a workflow of Kubernetes Jobs for every cert-manager
Certificate that a `CertificateJob` selects, once per input (certificate,
secret, workflow spec). This directory holds TLA+ modules of the controller and
of the admission path, the TLC runs that check them on small instances and TLAPS
proofs for all instances.
Paths such as `README.md:24` below are those of the repository.

## 1. The system

| Part | Source | State | Operations |
|---|---|---|---|
| Reconcile loop | `internal/controller` | cached CertificateJob, locals of a pass, status | read, validate, list, handle each certificate, filter, set conditions, update status, return (error, requeue or nothing) |
| Run scheduling | `internal/controller` | node phases and Job names of one run | observe Jobs, apply failure policy, pick runnable nodes, adopt or create Jobs, derive the phase |
| Workflow graph | `internal/controller` | - | build, check for cycles, descendants of failed nodes |
| Watches and queue | `internal/controller`, controller-runtime | informer caches, work queue, requeue timer | events of CertificateJobs, Jobs, certificates, secrets |
| Job construction | `internal/controller` | - | names, labels, secret volume and mounts, owner reference |
| API types | `api/v1alpha1` | - | schema defaults and bounds |
| Admission webhook | `internal/webhook` | the stored object | default, validate |
| Job security policy | `internal/jobsecurity` | - | check and default pod templates |
| Manager start-up | `cmd` | - | flags, namespaces, probes |
| Packaging, tests | `config`, `charts`, `bundle`, `test` | - | - |

Around it act users (specs, labels), cert-manager (certificates, secrets), the
Job controller, the TTL controller and the garbage collector. One worker handles
one request at a time; the queue holds a request at most once. Everything the
controller reads comes from informer caches, each of which lags on its own;
everything it writes goes to the API server, with optimistic locking for the
status and with deterministic names for Jobs. The status is the only memory that
survives a restart.

What makes this hard: a pass is a sequence of reads and calls between which
everyone else acts; the two caches (CertificateJob, Jobs) are updated in any
order; a Job is created and recorded in two calls; a pass may work on an outdated
object; wake-ups come from five sources and are merged; inputs change during a
run; Jobs vanish by TTL; specs change under a run; the object is deleted and
created again; templates are checked and completed in two places, one of them
optional. Correctness is: the status tells the truth about Jobs, Jobs start in
the order of the graph, a run keeps its input to the end, no wake-up is lost, the
latest input is processed in the end and the operator then rests, the graph
functions return what they should, and the Jobs have the form the policy asks
for whichever way their object took. The hazards, each at its line,
are listed in `PROJECT.json`.

## 2. Modules

- `Workflow` - the pure functions on specs and node states, as sets: `Acyclic`,
  `buildWorkflowGraph`, `descendantNodes`, `runnableNodes`,
  `applyFailurePolicy`, `deriveWorkflowPhase` and their helpers, under the names
  of the code.
- `WorkflowGraph` - `buildWorkflowGraph`, `validateAcyclic` and
  `descendantNodes` again, as the loops of the code, one action per iteration,
  over every list of edges. It is checked, and proved, to compute what `Workflow`
  defines, so that the definitions the controller's model uses stand for the loops.
- `CertificateJobController` - the controller, its caches and queue and the
  environment, for one name of a CertificateJob. `api` and `cache` are the
  CertificateJob in the API server and in the informer cache; `latest` tells
  whether the cached resourceVersion is the current one; `jobs` and `jobCache`
  are the Jobs, of which the `orphans` belong to a deleted object and wait for
  the garbage collector; `cert` and `secret` are certificates and secrets as
  delivered to the caches; `queued` and `timer` are the work queue; `w` holds
  the locals of the pass in progress. History variables: `done` (the Jobs that
  completed) and `missed` (a trigger was dropped and no pass has begun since).
  `api.uid` counts the objects that had the name; `edits` and `faults` count
  against the bounds.
- `RunLifecycle` - the abstract specification: what a reader of the status may
  rely on for each certificate (one run at a time, its input kept until it is
  finished, no node started twice, a new run only for another input and from the
  start).
- `JobTemplate` - pod templates: the checks and defaults of `jobsecurity`, and
  the Job `scheduleRunnableNodes` builds from a template (`BuildJob`: labels,
  defaults, secret volume and mounts), under the names of the code.
- `Admission` - the way of a CertificateJob through the schema, the mutating and
  the validating webhook to the stored object, and from there through the
  controller's own checks to Jobs. `request` is the create or update under way,
  `mutating` and `validating` tell whether the webhooks are installed, which may
  change at any point; `job` is the last Job built. `validated` and `completed`
  are history: which webhooks saw the stored object. It uses the graph functions
  of `Workflow`, which see a spec through `workflowOf`.
- `MCController`, `MCAdmission` - constants for TLC.
- `WorkflowGraphProofs`, `ControllerProofs`, `LifecycleProofs`, `RunProofs`,
  `QuietProofs`, `OrderProofs`, `AdmissionProofs` - the theorems.

Actions and code, in the order of a pass:

| Action | Code |
|---|---|
| `ReconcileNotFound`, `ReconcileInvalidSpec`, `ReconcileListFailed`, `ReconcileBegin` | `Reconcile` and `reconcileCertificateJob` up to the loop over certificates |
| `CertificateWithoutSecretName`, `CertificateSecretUnreadable`, `CertificateFinished`, `CertificateRun` | the branches of `reconcileObservedCertificate`; the last enters `reconcileCertificateRun` |
| `ObserveNode`, `ObserveError` | an iteration of `observeWorkflowNodeJobs`, and its error return |
| `PlanSchedule` | `applyFailurePolicy`, slots, `runnableNodes` |
| `AdoptJob`, `CreateJob`, `CreateJobFails`, `CreateJobAnswerLost` | an iteration of `scheduleRunnableNodes`, with the outcomes of Get and Create |
| `FinishRun` | the rest of `reconcileCertificateRun` |
| `FinishPass` | `filterObservedStates`, `applyCertificateJobConditions`, the result |
| `StatusUnchanged`, `StatusWritten`, `StatusUpdateFails`, `StatusAnswerLost` | the end of `Reconcile` |
| `WatchCertificateJob`, `WatchJob`, `TimerFires` | `For`, `Owns`, `RequeueAfter` |
| `UpdateSpec`, `DeleteCertificateJob`, `CreateCertificateJob` | users |
| `UpdateCertificate`, `RelabelCertificate`, `UpdateSecret` | users and cert-manager, with the map functions |
| `JobStarts`, `JobBacksOff`, `JobCompletes`, `JobFails`, `JobDeleted` | Job controller, TTL controller, garbage collector (external) |
| `Restart` | the operator dies at any point and starts again |
| `Submit`, `Resubmit` | an update with a new spec, or with the stored one; the schema's defaults |
| `MutatingWebhook` | `Default`, when installed |
| `Store`, `Reject` | the schema's bounds, and `validateCertificateJob` when installed |
| `ScheduleNode` | `buildWorkflowGraph`, then the Job of one template |
| `ConfigureWebhooks` | installation of the webhooks (external) |

Abstractions. Names are ranks in their sort order. An input hash is the tuple of
what is hashed, RunID is identified with it, and a Job name is the tuple it is
built from: collisions of hashes and of shortened names are out of the model.
Messages and times are left out, except that a pass which sets one may write an
otherwise unchanged status (`restamped`). `slots` counts down from the requested
parallelism as active Jobs are seen and then as Jobs are started: it is
`parallelism - activeCount`, and then `availableSlots`. The order in which
`observeWorkflowNodeJobs` goes through the nodes is left open, because
`ensureWorkflowNodeStates` appends to a slice that was sorted before. An event
of a certificate or a secret reaches cache and queue in one step. The first two
reads of a pass, of the CertificateJob and of the certificates, are one step, and a
read of the CertificateJob that fails is none: the request stays in the queue. Each
certificate has its own secret. A node that the spec no longer has gets the zero
template, whose Job the API server rejects. A deleted object leaves at once (the
operator sets no finalizer) and its Jobs later, in any order. In `JobTemplate` a
nil security context is one whose fields are nil; the settings that are refused
and never defaulted are one Boolean per pod (`hostAccess`) and per container
(`elevated`); init containers and containers are one set, since every loop over
the ones is repeated over the others; a label key has a value of the operator,
of the user, or none. Annotations are left out.

## 3. Runs

All runs of the controller set `CHECK_DEADLOCK FALSE`: once the edits are used up
and everything is processed the operator rests. So does the graph run after its
last loop. The admission run checks for deadlock.

| Run | Instance | Checks |
|---|---|---|
| `faults` | chain of two nodes, StopDownstream and ContinueIndependent, and a circle of two, finished Jobs may be deleted, 1 fault | `TypeOK`, `SucceededMeansCompleted`, `RecordedJobsExist`, `DependencyOrder`, `RunNotStalled`, `RecordedJobsNotRecreated`, refinement `LifecycleSpec` |
| `inputs` | one node, two labels, specs that select all or one, a cyclic one and one with a bad selector, 1 edit | `ConditionsMatchWorkflows`, `QuietMeansUpToDate`, `QuietConditionsTrue`, `ConditionsOfGeneration` |
| `retries` | one node, 1 edit and 1 fault | `RecordedJobsExist`, `QuietMeansUpToDate`, `QuietConditionsTrue`, `CreatedForCurrentRun`, `LifecycleSpec` |
| `workflows` | two certificates with one node each, or one with two nodes and one slot whose edge is added or removed by 1 edit (`RowsSpec`) | `ConditionsMatchWorkflows`, `QuietConditionsTrue`, `QuietMeansUpToDate`, `StartsBounded`, `CreatedAfterDependencies`, `SkipsHaveCause` |
| `liveness` | one node, 1 edit, fair | `LatestInputProcessed`, `ComesToRest` |
| `graph` | every spec of up to three nodes and three edges | `TypeOK`, `VerdictCorrect`, `DescendantsCorrect`, `LoopsEnd`, `LoopsProgress` |
| `admission` | manifests that differ from a plain one in one field, two containers, two secrets | `TypeOK`, `AdmittedIsAccepted`, `JobsConform`, `SecretReachable`, `PodStaysValid`, `WebhookChangesNoJob`, `NoOpUpdateKeepsSpec`, `NoOpUpdateAccepted` |

An edit is a change of spec, certificate, label or secret, or the deletion of the
CertificateJob; creating it again is free.

What the properties of the controller say:

- `SucceededMeansCompleted`, `RecordedJobsExist`: whatever caches, conflicts,
  lost answers and restarts do, a saved node is Succeeded only if its Job
  completed, and the status names only Jobs of this run that were created.
- `DependencyOrder`: a Job exists only after the Jobs of its dependencies in the
  same run completed. It is about specs that are not edited.
- `CreatedAfterDependencies`: the same for the moment of creation, and under
  edits: a pass creates a Job only if it takes the dependencies, in the graph it
  works with, to be over, and those it takes to have succeeded really have. In
  `workflows` the edge appears or goes while the run is active, and the graph that
  counts is the edited one, not that of the run.
- `RecordedJobsNotRecreated`: a pass creates a Job that the saved status already
  names (it was deleted meanwhile) only if it works on an outdated object, so
  that its status update is refused. The Job itself is created again in that
  case.
- `CreatedForCurrentRun`: only such an outdated pass creates Jobs of another run.
  Any other creates them for the saved run while that is not over, or for a new
  run of the current spec once it is.
- `RunNotStalled`: a pass that ends without an error leaves no run in which nodes
  wait while nothing runs and nothing has failed, and a run that is saved as
  Running has a running node.
- `StartsBounded`: a status update records at most `spec.parallelism` new starts
  for a certificate. (The Jobs of several updates may add up: see `parallelism`
  below.)
- `SkipsHaveCause`: a node is skipped only beside a failed node of its run, never
  under BestEffort, and under ContinueIndependent only if it depends on the failed
  one in the graph the pass worked with, which an edit may have changed since the
  run began.
- `QuietMeansUpToDate`: when the worker is idle, nothing is queued, no timer is
  armed and the cache is current, every certificate is handled: no wake-up was
  lost. There are two exceptions, both visible in `missed`: a map function whose
  `List` fails drops the event (`Enqueue`), and a pass that cannot read the
  secret of a finished certificate asks for no retry
  (`CertificateSecretUnreadable`). Any later pass makes up for either.
- `QuietConditionsTrue`: at rest the conditions belong to the current generation,
  an invalid spec is reported, and, when all secrets can be read, Degraded holds
  exactly when a workflow failed. In between it need not: a pass that cannot read
  the secret of a failed certificate saves Degraded=False.
- `ConditionsMatchWorkflows`: at any time, Progressing exactly when a workflow is
  unfinished, Degraded only when one failed. That a failure is not hidden by a
  certificate handled after it is the other direction, in `QuietConditionsTrue`.
- `ConditionsOfGeneration`: conditions that carry the current generation are about
  the current spec: they report InvalidSpec exactly when it is refused, at any
  time, whatever happened to the object during the pass that wrote them.
- `LifecycleSpec`: every status update is a step of `RunLifecycle`. In particular
  a pass on a deleted object never writes into its successor.
- `LatestInputProcessed`: once inputs stop changing, all are processed, for good.
- `ComesToRest`: after that the operator stops, although its own status updates
  wake it. Those that only set a time end by assumption (see Fairness); checked is
  that nothing else keeps it awake.

Those of the graph: `VerdictCorrect` and `DescendantsCorrect` say that the loops
return what `buildWorkflowGraph` and `descendantNodes` of `Workflow` define;
`LoopsEnd` that they end, and `LoopsProgress` why: each iteration makes what is
left to do (`Remaining`) smaller, and a loop that was left is not entered again.

And those of admission:

- `AdmittedIsAccepted`: webhook and controller repeat the same checks, in two loops
  that are two definitions here (`validateCertificateJob`, `templatesValid`); an admitted
  object is refused by the controller only for what the webhook does not look at,
  repeated names and edges.
- `JobsConform`: however its object was stored, a Job passes the security checks,
  has all defaults, and has the operator's labels under the reserved keys.
- `SecretReachable`: every container of a Job whose pod the API server accepts finds
  the secret, alone in its volume, read-only at the agreed path. It need not find all
  of it, as `README.md:14` has it: `ensureVolumeMount` moves a mount of that volume
  the template has but leaves its `subPath`, and the container then sees the one
  entry the sub-path names.
- `PodStaysValid`: injecting the secret keeps a valid pod valid, unless the
  template uses the volume name or the path of the operator for something else.
- `WebhookChangesNoJob`: Jobs are the same whether `Default` completed the object
  or not. It does write the spec's TTL into the templates: a later edit of
  `jobTTLSecondsAfterFinished` no longer reaches them.
- `NoOpUpdateKeepsSpec`: an update that leaves a completed spec alone stores the
  same spec, hence the same input hash.
- `NoOpUpdateAccepted`: nor is such an update of an admitted object refused, also
  when the mutating webhook was installed only after it: what `Default` writes
  passes the schema and the checks.

Five runs show where the code departs from the repository's README; each has an
entry under `findings`.

| Run | README.md | What happens |
|---|---|---|
| `parallelism` | :24, :98 | a Job without active pods takes no slot, so two run with parallelism 1 |
| `overlap` | :96 | a failure ends the run while a sibling's Job is alive; a changed input starts the next run beside it |
| `branches` | :72 | with ContinueIndependent a failure ends the run before an independent node was started |
| `stale_cache` | :45 | the Job cache lags: a node is Failed ("job disappeared") though its Job exists |
| `removed_node` | :90 | an edit drops a pending node of the active run, which then never ends |

In `overlap` passes begin only with current caches (`PromptSpec`), so that TLC shows
this route. There are two more to the same end: a pass on an outdated object that
does not know the run yet creates Jobs of the new input, and a Job whose status
update failed is forgotten when the input changes before the retry.

Bounds. `MaxEdits` and `MaxFaults` are 0 or 1: one change or fault can hit any
point of any pass, which is where the hazards lie; `retries` combines both. Two
nodes are needed for dependencies, three for a branch independent of a failure;
two certificates for the loop over them; two labels for a selector to matter.
`RowsSpec` lets the specs with two nodes select one certificate only, edits nothing
but their edge, leaves Job back-off to the other runs and follows the run that comes
after the edited one up to its first Job, which keeps the run small; what two
certificates do to each other does not depend on the number of nodes. The circle in `faults` is there for `RunNotStalled`: it would
stall if the check for cycles let it pass.
With three nodes the graph run has cycles of length two and three, paths into and
out of a cycle and repeated edges. The manifests of the admission run cover each
check and each default once, in either container, volumes and mounts that clash
with those of the operator, and the limits of the numeric fields. Except for
liveness, what the bounds leave out is covered by the proofs.

Fairness (`Fairness`). The worker goes on with its pass and takes a queued request;
watch events arrive and timers fire; a Job that exists finishes. The first two
are what controller-runtime does, the last is an assumption on workloads.
`StatusUnchanged` is strongly fair: statuses are compared as JSON, which has times
in seconds, so of the passes that only set a time again some find it unchanged. The
model has no clock, so that this loop ends is assumed and not shown.
Edits, faults, Job back-off and deletion are not fair. The graph loops are
sequential code: `WF_vars(Next)`.

## 4. Proofs

Every safety property of a passing run is proved for all values of the
constants: any number of certificates, nodes, specs, labels, edits, faults,
templates.

`WorkflowGraphProofs`: `GraphTypes` (`TypeOK`), `AcyclicVerdict`
(`VerdictCorrect`), `DescendantsReached` (`DescendantsCorrect`) and
`LoopsMakeProgress` (`LoopsProgress`), from the inductive invariant `Inv`
(`InvHolds`). Its heart: indegree of a node is the
number of edges into it that were not taken off yet; the nodes at indegree 0 are
those queued or visited; a set of nodes each of which depends on a member (a
cycle) never meets them. At the end the unvisited nodes form such a set or there
are none. For the descendants: what was seen lies in every closed set, and is
closed except for what is queued. `Relations` and `LinkableEdges` carry this over to
the definitions of `Workflow`. `LoopsMakeProgress` is the safety part of
`LoopsEnd`: a natural number gets smaller with every iteration. What remains to
TLC is that the code goes on at all.

`ControllerProofs`: `TypeCorrect`, `SucceededNodesCompleted`, `RecordedJobsReal`,
from `Invariance`. The properties speak of the saved status, which alone is not
inductive: it is overwritten by what a pass computed, from a status read from the
cache, and from a Job cache. `IInv` therefore asks the same (`NodeOK`) of the
saved, the cached and the computed status, that the Job cache shows only what
happened (`JobsOK`), that versions stay within the edits (`VersionsOK`), and that
inside a run the current certificate has an input and the nodes still to be
observed have Jobs (`RunOK`). Jobs only grow (created stays created, completed
stays completed), so old statuses stay true (`JobsOnlyGrow`). There is one lemma
per group of actions.

`LifecycleProofs`: `ImplementsLifecycle` (the refinement), `ConditionsAgree`,
`JobsCreatedInOrder`, `NoJobRecreated`, from `LifecycleInvariance`. The pass moves
each certificate in several steps, the abstract run in one, at the status update.
`LInv` bridges the two: a pass that is `fresh` started from the saved status
(`SavedOK`); certificates it has handled are one abstract step away from what it
read, those it has not are as read, and the one it is in has just begun or goes on
(`PassOK`); the progress it gathered agrees with those it handled (`ProgressOK`).

`RunProofs`: `NoRunStalls` (`RunNotStalled`), `StartsAreBounded` (`StartsBounded`),
`SkipsAreCaused` (`SkipsHaveCause`), `JobsOfCurrentRun` (`CreatedForCurrentRun`)
and `ConditionsAboutGeneration` (`ConditionsOfGeneration`), from `RunInvariance`.
It adds two invariants to `IInv` and `LInv`.
`SInv` follows a run through a pass. The properties compare two saved statuses, but
a pass gets from one to the other in many steps: it resets or continues the run,
observes nodes one by one, skips, starts Jobs one by one, and may stop at an error
after any of them. So `SInv` keeps, next to each certificate the pass has handled,
what it owes to the status it read: the nodes started are at most `parallelism`
(`StartsOK`; inside the loop, those started plus the slots left), each node newly
skipped has its cause among the nodes failed by now (`SkipsCaused`; a cause stays
one when more nodes fail, `CauseStays`), and a status that may be continued is
`Lively`: Running only with a running node. That no run stalls rests on
`SomethingRunnable`: take the set of pending nodes; if the graph is acyclic, one of
them depends on no other, and if nothing runs or failed its dependencies are over.
The graph is acyclic because the pass began with `buildWorkflowGraph`, whose verdict
`RunsOK` keeps. For `JobsOfCurrentRun` it keeps that a run the pass did not find is
one of the spec it read (`RunOfSpec`).
`GInv` relates conditions to generations: a saved verdict on the spec with the
generation of the object is about its spec, and so is the verdict of a pass on the
object it read, which is still the object there if the update is accepted. A spec
edit increments the generation, and a new object starts without conditions.

`QuietProofs`: `NoWakeUpLost` and `RestingConditionsTrue`, from
`QuietInvariance`. `QInv` says when a pass may return without another to follow:
if nothing is queued, dropped or undelivered, the pass under way works on current
data (any change would have queued it, or made the cache outdated), and it will
be repeated, will save something and so wake itself, or has found nothing to do.

`OrderProofs`: `JobsOrdered`, that is `DependencyOrder` in all behaviours in which
the spec is not edited (`Spec /\ [][api'.spec = api.spec]_vars`); with edits it does
not hold, and `JobsCreatedInOrder` says what does. `OInv` adds to `LInv` that all
statuses are of the one spec and that a node which depends on a skipped one waits
no longer.

`AdmissionProofs`: one theorem per property of `Admission`, and
`DefaultIdempotent`. `Inv` adds to the properties of the Job that the stored spec
is within the bounds of the schema, that an object or a request the webhook
completed is a fixed point of `Default`, and that a resubmitted request carries the
stored spec or what `Default` makes of it. `NoOpUpdatesAccepted` then needs that
`Default` keeps a spec within the bounds and adds nothing the checks refuse
(`DefaultStaysValid`, `DefaultsStaySecure`).

Assumptions: nodes and certificates are finite sets of naturals, `Specs` maps to
specs, Jobs that do not exist cannot be deleted, reserved labels are labels, the
names the operator uses for volume, path and capability are such names, and the
model values for nil, no hash, no Job, no name, no object and no request are none.

Only model-checked: the liveness properties `LatestInputProcessed`, `ComesToRest`
and `LoopsEnd`, since the prover does not do fairness. `NoWakeUpLost`, `NoRunStalls`
and `LoopsMakeProgress` are the safety they rest on: the operator does not rest
before it is done, a run always has a node to wait for or to start, and the loops
get closer to their end.

## 5. Not modelled

- Several CertificateJobs (they share nothing but the cluster), secrets shared by
  certificates, several replicas without leader election.
- Collisions of hashes and of shortened names, and the lengths of names: a
  certificate name of more than 63 characters is no label value, so its Jobs are
  refused.
- Messages, events, metrics, times and rate limits; annotations, which are copied.
- A webhook that is installed but does not answer: its `failurePolicy=fail` makes
  the API server refuse the request, as `Reject` does.
- `cmd`: flags, TLS, probes and the list of watched namespaces are read once,
  before there is any state. Generated deep copies, packaging and test helpers
  have no state of the program.

What remains open are hazards for which the repository states no intent (see the
notes in `PROJECT.json`): what a repeated input, or an object created again under
its name, should do with the Jobs of the earlier run, and whether a TTL filled in
at admission should follow the spec.
