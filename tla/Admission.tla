------------------------------- MODULE Admission -------------------------------
(***************************************************************************)
(* The way of a CertificateJob from the user to its Jobs: the schema, the  *)
(* mutating and the validating webhook, the stored object, and the         *)
(* controller that checks the templates once more, applies the defaults    *)
(* once more and builds Jobs.  The webhooks are optional, and may be       *)
(* installed or removed while requests are under way.                      *)
(***************************************************************************)
EXTENDS JobTemplate, Workflow

CONSTANTS
    NoName,      \* CertificateJobTemplate.Name = ""
    Manifests,   \* specs that users submit
    NoObject,    \* nothing is stored
    NoRequest    \* no request is under way

CertificateJobTemplate == [name : Node \cup {NoName}, labels : Labels, template : JobSpec]

CertificateJobSpec ==
    [jobs : Seq(CertificateJobTemplate), edges : SUBSET (Node \X Node),
     parallelism : Int \cup {Nil}, ttl : Nat \cup {Nil}, failurePolicy : FailurePolicy \cup {Nil}]

Request ==
    [stage : {"mutate", "validate"}, spec : CertificateJobSpec,
     completed : BOOLEAN, resubmitted : BOOLEAN]

BuiltJob ==
    [secret : SecretName, template : CertificateJobTemplate,
     built : [labels : Labels, spec : JobSpec]]

ASSUME AdmissionAssumption ==
    /\ Manifests \subseteq CertificateJobSpec
    /\ NoName \notin Node /\ Nil \notin FailurePolicy /\ Nil \notin Int
    /\ NoObject \notin CertificateJobSpec /\ NoRequest \notin Request

VARIABLES
    stored,      \* the spec in the API server
    validated,   \* history: the validating webhook has seen it
    completed,   \* history: the mutating webhook has seen it
    request,     \* the create or update under way
    mutating,    \* the mutating webhook is installed
    validating,  \* the validating webhook is installed
    job          \* the last Job built from the stored object

vars == <<stored, validated, completed, request, mutating, validating, job>>

NoBuild == [secret |-> Nil]

Indices(spec) == 1 .. Len(spec.jobs)

defaultJobTTL == 3600

-----------------------------------------------------------------------------
(* The schema of the CRD: the API server applies its defaults to what it     *)
(* receives and checks what the mutating webhook returned.                   *)

SchemaDefault(spec) ==
    [spec EXCEPT !.parallelism = OrDefault(@, 1), !.ttl = OrDefault(@, defaultJobTTL),
                 !.failurePolicy = OrDefault(@, "StopDownstream")]

oneWeek == 604800

SchemaValid(spec) ==
    /\ Len(spec.jobs) \in 1 .. 32
    /\ \A i \in Indices(spec) : spec.jobs[i].name # NoName
    /\ spec.parallelism \in 1 .. 20
    /\ 60 <= spec.ttl /\ spec.ttl <= oneWeek

-----------------------------------------------------------------------------
(* The webhooks *)

\* Defect: the labels of the operator are written into the stored template.
DefaultTemplate_labels(t, ttl) ==
    [t EXCEPT !.template = ApplyJobSecurityDefaults(
         [@ EXCEPT !.podLabels = mergeMapsWithBasePrecedence(baseLabels, @)], ttl)]

DefaultTemplate(t, ttl) == [t EXCEPT !.template = ApplyJobSecurityDefaults(@, ttl)]

\* Defect: templates get the built-in TTL, not the one of the spec.
Default_builtinTTL(spec) ==
    LET ttl == OrDefault(spec.ttl, defaultJobTTL) IN
    [spec EXCEPT !.parallelism = OrDefault(@, 1), !.ttl = ttl,
                 !.failurePolicy = OrDefault(@, "StopDownstream"),
                 !.jobs = [i \in Indices(spec) |-> DefaultTemplate(spec.jobs[i], defaultJobTTL)]]

Default(spec) ==
    LET ttl == OrDefault(spec.ttl, defaultJobTTL) IN
    [spec EXCEPT !.parallelism = OrDefault(@, 1), !.ttl = ttl,
                 !.failurePolicy = OrDefault(@, "StopDownstream"),
                 !.jobs = [i \in Indices(spec) |-> DefaultTemplate(spec.jobs[i], ttl)]]

\* Defect: the labels of the pod template are not looked at.
validateCertificateJob_noPodLabels(spec) ==
    /\ Len(spec.jobs) # 0
    /\ spec.parallelism # Nil => spec.parallelism >= 1
    /\ \A i \in Indices(spec) :
           /\ spec.jobs[i].name # NoName
           /\ ValidateReservedLabels(spec.jobs[i].labels)
           /\ ValidateJobTemplateSecurity(spec.jobs[i].template)

validateCertificateJob(spec) ==
    /\ Len(spec.jobs) # 0
    /\ spec.parallelism # Nil => spec.parallelism >= 1
    /\ \A i \in Indices(spec) :
           /\ spec.jobs[i].name # NoName
           /\ ValidateReservedLabels(spec.jobs[i].labels)
           /\ ValidateReservedLabels(spec.jobs[i].template.podLabels)
           /\ ValidateJobTemplateSecurity(spec.jobs[i].template)

-----------------------------------------------------------------------------
(* The controller *)

requestedJobTTL(spec) == OrDefault(spec.ttl, defaultJobTTL)

UniqueNames(spec) ==
    \A i, j \in Indices(spec) : spec.jobs[i].name = spec.jobs[j].name => i = j

JobNames(spec) == {spec.jobs[i].name : i \in Indices(spec)} \ {NoName}

\* Defect: the controller leaves the templates to the webhook.
templatesValid_trust(spec) == UniqueNames(spec)

\* The loop of buildWorkflowGraph over the templates.
templatesValid(spec) ==
    /\ UniqueNames(spec)
    /\ \A i \in Indices(spec) : LET t == spec.jobs[i] IN
           /\ t.name # NoName
           /\ ValidateReservedLabels(t.labels)
           /\ ValidateReservedLabels(t.template.podLabels)
           /\ ValidateJobTemplateSecurity(t.template)

\* What the graph functions of Workflow see of a spec.
workflowOf(spec) ==
    [jobs |-> JobNames(spec), edges |-> spec.edges, templatesValid |-> templatesValid(spec)]

\* jobTemplatesByName and the Job built for one of its entries.
BuildNode(spec, i, secret) == BuildJob(spec.jobs[i], requestedJobTTL(spec), secret)

-----------------------------------------------------------------------------
(* Behaviour *)

Init ==
    /\ stored = NoObject /\ validated = FALSE /\ completed = FALSE
    /\ request = NoRequest
    /\ mutating \in BOOLEAN /\ validating \in BOOLEAN
    /\ job = NoBuild

Send(spec, resubmitted) ==
    /\ request = NoRequest
    /\ request' = [stage |-> "mutate", spec |-> SchemaDefault(spec), completed |-> FALSE,
                   resubmitted |-> resubmitted]
    /\ UNCHANGED <<stored, validated, completed, mutating, validating, job>>

Submit(spec) == Send(spec, FALSE)

\* An update that leaves the spec as it is stored: a label, an annotation, a
\* migration of stored objects.
Resubmit == stored # NoObject /\ Send(stored, TRUE)

MutatingWebhook ==
    /\ request # NoRequest /\ request.stage = "mutate"
    /\ request' = [request EXCEPT !.stage = "validate", !.completed = mutating,
                                  !.spec = IF mutating THEN Default(@) ELSE @]
    /\ UNCHANGED <<stored, validated, completed, mutating, validating, job>>

AtValidation == request # NoRequest /\ request.stage = "validate"

Store ==
    /\ AtValidation
    /\ SchemaValid(request.spec)
    /\ validating => validateCertificateJob(request.spec)
    /\ stored' = request.spec /\ validated' = validating /\ completed' = request.completed
    /\ request' = NoRequest /\ job' = NoBuild
    /\ UNCHANGED <<mutating, validating>>

Reject ==
    /\ AtValidation
    /\ \/ ~ SchemaValid(request.spec)
       \/ validating /\ ~ validateCertificateJob(request.spec)
    /\ request' = NoRequest
    /\ UNCHANGED <<stored, validated, completed, mutating, validating, job>>

\* The controller schedules the node of the i-th template.
ScheduleNode(i, secret) ==
    /\ stored # NoObject
    /\ buildWorkflowGraph(workflowOf(stored))
    /\ i \in Indices(stored)
    /\ job' = [secret |-> secret, template |-> stored.jobs[i],
               built |-> BuildNode(stored, i, secret)]
    /\ UNCHANGED <<stored, validated, completed, request, mutating, validating>>

\* The chart is installed with or without the webhooks.
ConfigureWebhooks(m, v) ==
    /\ mutating' = m /\ validating' = v /\ <<m, v>> # <<mutating, validating>>
    /\ UNCHANGED <<stored, validated, completed, request, job>>

Next ==
    \/ \E spec \in Manifests : Submit(spec)
    \/ Resubmit \/ MutatingWebhook \/ Store \/ Reject
    \/ stored # NoObject /\ \E i \in Indices(stored), secret \in SecretName : ScheduleNode(i, secret)
    \/ \E m, v \in BOOLEAN : ConfigureWebhooks(m, v)

Spec == Init /\ [][Next]_vars

-----------------------------------------------------------------------------
(* Properties *)

\* Requests, objects and Jobs keep their types: in particular defaulting and Job
\* construction return well-typed templates.
TypeOK ==
    /\ stored \in CertificateJobSpec \cup {NoObject}
    /\ request \in Request \cup {NoRequest}
    /\ job \in BuiltJob \cup {NoBuild}
    /\ {validated, completed, mutating, validating} \subseteq BOOLEAN

\* The loop of the webhook over the templates and the one of buildWorkflowGraph do
\* not drift apart: an object the webhook let through is refused by the controller
\* only for what the webhook does not look at, repeated names and edges.
AdmittedIsAccepted ==
    stored # NoObject /\ validated /\ UniqueNames(stored) =>
        /\ templatesValid(stored)
        /\ stored.edges = {} => buildWorkflowGraph(workflowOf(stored))

Hardened(spec) ==
    /\ spec.ttl # Nil /\ spec.automount = "false"
    /\ spec.runAsNonRoot = "true" /\ spec.seccomp # Nil
    /\ \A c \in Container : LET container == spec.containers[c] IN
           /\ container.allowPrivilegeEscalation = "false" /\ container.runAsNonRoot = "true"
           /\ container.seccomp # Nil /\ ContainsCapability(container.drop)

Conforms(t, built) ==
    /\ ValidateJobTemplateSecurity(built.spec)
    /\ Hardened(built.spec)
    /\ \A k \in Reserved : built.labels[k] = "operator" /\ built.spec.podLabels[k] = "operator"
    /\ \A k \in Key \ Reserved : /\ built.labels[k] = t.labels[k]
                                 /\ built.spec.podLabels[k] = t.template.podLabels[k]

\* Whatever way its CertificateJob took, with webhooks or without, a Job passes
\* the checks of ValidateJobTemplateSecurity, has the defaults filled in, and has
\* the labels of the operator under the reserved keys, those of the template under
\* the others.
JobsConform == job # NoBuild => Conforms(job.template, job.built)

\* The API server accepts a pod only if its volumes have distinct names and one
\* source each, and the mounts of a container distinct paths and known volumes.
PodValid(spec) ==
    /\ \A i, j \in 1 .. Len(spec.volumes) :
           /\ spec.volumes[i].name = spec.volumes[j].name => i = j
           /\ spec.volumes[i].other <=> spec.volumes[i].secret = Nil
    /\ \A c \in Container : LET mounts == spec.containers[c].mounts IN
           \A i, j \in 1 .. Len(mounts) :
               /\ mounts[i].path = mounts[j].path => i = j
               /\ \E v \in 1 .. Len(spec.volumes) : spec.volumes[v].name = mounts[i].volume

\* The mount of the operator's volume that the template has, if it has one, has a
\* subPath: ensureVolumeMount moves the mount and leaves the subPath.
KeepsSubPath(mounts) == SecretMounts(mounts) # {} /\ mounts[First(SecretMounts(mounts))].subPath

FindsSecret(template, spec, secret) ==
    /\ \E v \in 1 .. Len(spec.volumes) : spec.volumes[v] = SecretVolume(secret)
    /\ \A c \in Container :
           LET own == template.containers[c].mounts
               mounts == spec.containers[c].mounts
           IN  \E i \in 1 .. Len(mounts) :
                   mounts[i] = [SecretMount EXCEPT !.subPath = KeepsSubPath(own)]

\* Every container of a Job whose pod can run, init containers included, finds the
\* secret of the certificate, in a volume with no other source, read-only at the
\* agreed path, even when its template already has a volume or a mount of that name.
\* It finds the whole secret, except where its own mount of that volume had a subPath.
SecretReachable ==
    job # NoBuild /\ PodValid(job.built.spec) =>
        FindsSecret(job.template.template, job.built.spec, job.secret)

\* The template keeps off the volume and the path the operator uses: its volume
\* of that name is a secret, mounted at most once, and nothing else is mounted there.
LeavesSecretAlone(spec) ==
    /\ \A v \in SecretVolumes(spec.volumes) : ~ spec.volumes[v].other
    /\ \A c \in Container : LET mounts == spec.containers[c].mounts IN
           \A i, j \in 1 .. Len(mounts) :
               \/ mounts[i].volume # secretVolumeName /\ mounts[i].path # secretMountPath
               \/ mounts[i].volume = secretVolumeName /\ (mounts[j].volume = secretVolumeName => i = j)

\* Injecting the secret keeps a valid pod valid, unless its template puts something
\* else under the operator's volume name or mount path.
PodStaysValid ==
    job # NoBuild /\ PodValid(job.template.template) /\ LeavesSecretAlone(job.template.template) =>
        PodValid(job.built.spec)

\* An update that does not touch the spec of an object the mutating webhook has
\* completed stores the same spec again.  The hash of the spec is part of the
\* input hash: otherwise every finished certificate would run its workflow again.
NoOpUpdateKeepsSpec ==
    [][completed /\ request # NoRequest /\ request.resubmitted => UNCHANGED stored]_vars

\* Such an update of an object the validating webhook let through is not refused,
\* whichever webhooks have come or gone since: what Default writes passes the schema
\* and the checks again.
NoOpUpdateAccepted ==
    AtValidation /\ request.resubmitted /\ validated =>
        SchemaValid(request.spec) /\ validateCertificateJob(request.spec)

\* The Jobs of an object do not depend on whether the webhook completed it: what
\* Default writes is what the controller would apply when it builds the Job.
WebhookChangesNoJob ==
    stored # NoObject =>
        \A i \in Indices(stored), secret \in SecretName :
            BuildNode(Default(stored), i, secret) = BuildNode(stored, i, secret)
=============================================================================
