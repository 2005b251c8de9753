---------------------------- MODULE AdmissionProofs ----------------------------
(***************************************************************************)
(* Defaulting and Job construction for all templates, and what they mean   *)
(* for objects and Jobs, whatever webhooks are installed when.             *)
(***************************************************************************)
EXTENDS Admission, SequenceTheorems, WellFoundedInduction, TLAPS

-----------------------------------------------------------------------------
(* Defaults of containers and templates *)

LEMMA ContainerFields ==
    \A r \in ContainerSpec :
        r = [elevated |-> r.elevated, allowPrivilegeEscalation |-> r.allowPrivilegeEscalation,
             runAsNonRoot |-> r.runAsNonRoot, seccomp |-> r.seccomp, drop |-> r.drop,
             mounts |-> r.mounts]
BY DEF ContainerSpec

LEMMA JobFields ==
    \A r \in JobSpec :
        r = [ttl |-> r.ttl, podLabels |-> r.podLabels, hostAccess |-> r.hostAccess,
             automount |-> r.automount, serviceLinks |-> r.serviceLinks, root |-> r.root,
             runAsNonRoot |-> r.runAsNonRoot, seccomp |-> r.seccomp, volumes |-> r.volumes,
             containers |-> r.containers]
BY DEF JobSpec

LEMMA ContainerDefaults ==
    ASSUME NEW container \in ContainerSpec
    PROVE  LET new == applyContainerSecurityDefaults(container) IN
           /\ new \in ContainerSpec
           /\ new.elevated = container.elevated /\ new.mounts = container.mounts
           /\ new.allowPrivilegeEscalation = OrDefault(container.allowPrivilegeEscalation, "false")
           /\ new.seccomp = OrDefault(container.seccomp, "RuntimeDefault")
           /\ new.runAsNonRoot = OrDefault(container.runAsNonRoot, "true")
           /\ ContainsCapability(container.drop) => new.drop = container.drop
           /\ ContainsCapability(new.drop)
<1> DEFINE escalation == OrDefault(container.allowPrivilegeEscalation, "false")
           seccomp == OrDefault(container.seccomp, "RuntimeDefault")
           nonRoot == OrDefault(container.runAsNonRoot, "true")
           drop == IF ContainsCapability(container.drop) THEN container.drop
                   ELSE Append(container.drop, "ALL")
<1>1. escalation \in Bool /\ seccomp \in SeccompProfile /\ nonRoot \in Bool
  BY DEF ContainerSpec, OrDefault, Bool, SeccompProfile
<1>2. drop \in Seq(Capability) /\ ContainsCapability(drop)
  <2>0. "ALL" \in Capability
    BY NamesAssumption
  <2>1. container.drop \in Seq(Capability)
    BY DEF ContainerSpec
  <2>2. Append(container.drop, "ALL") \in Seq(Capability)
    BY <2>0, <2>1
  <2>3. ContainsCapability(Append(container.drop, "ALL"))
    BY <2>1 DEF ContainsCapability
  <2> QED
    BY <2>1, <2>2, <2>3
<1>3. applyContainerSecurityDefaults(container) =
          [container EXCEPT !.allowPrivilegeEscalation = escalation, !.seccomp = seccomp,
                            !.runAsNonRoot = nonRoot, !.drop = drop]
  BY DEF applyContainerSecurityDefaults, ContainerSpec
<1>4. ContainsCapability(container.drop) => drop = container.drop
  OBVIOUS
<1> HIDE DEF escalation, seccomp, nonRoot, drop
<1>5. LET new == applyContainerSecurityDefaults(container) IN
      /\ new \in ContainerSpec
      /\ new.elevated = container.elevated /\ new.mounts = container.mounts
      /\ new.allowPrivilegeEscalation = escalation /\ new.seccomp = seccomp
      /\ new.runAsNonRoot = nonRoot /\ new.drop = drop
  BY <1>1, <1>2, <1>3 DEF ContainerSpec
<1> QED
  BY <1>2, <1>4, <1>5 DEF escalation, seccomp, nonRoot

\* Applying a default twice is applying it once.
LEMMA OrDefaultTwice ==
    ASSUME NEW pointer, NEW default, NEW default2, default # Nil
    PROVE  OrDefault(OrDefault(pointer, default), default2) = OrDefault(pointer, default)
BY DEF OrDefault

LEMMA ContainerDefaultsTwice ==
    ASSUME NEW container \in ContainerSpec
    PROVE  applyContainerSecurityDefaults(applyContainerSecurityDefaults(container)) =
           applyContainerSecurityDefaults(container)
<1> DEFINE once == applyContainerSecurityDefaults(container)
           twice == applyContainerSecurityDefaults(once)
<1>1. once \in ContainerSpec
  BY ContainerDefaults
<1>2. "false" # Nil /\ "true" # Nil /\ "RuntimeDefault" # Nil
  BY NilAssumption
<1>3. /\ twice \in ContainerSpec
      /\ twice.elevated = once.elevated /\ twice.mounts = once.mounts /\ twice.drop = once.drop
  BY <1>1, ContainerDefaults
<1>4. /\ twice.allowPrivilegeEscalation = once.allowPrivilegeEscalation
      /\ twice.seccomp = once.seccomp /\ twice.runAsNonRoot = once.runAsNonRoot
  BY <1>1, <1>2, ContainerDefaults, OrDefaultTwice
<1> HIDE DEF once, twice
<1>5. twice = once
  BY <1>1, <1>3, <1>4, ContainerFields
<1> QED
  BY <1>5 DEF once, twice

LEMMA TemplateDefaults ==
    ASSUME NEW spec \in JobSpec, NEW ttl \in Nat
    PROVE  LET new == ApplyJobSecurityDefaults(spec, ttl) IN
           /\ new \in JobSpec
           /\ new.ttl = OrDefault(spec.ttl, ttl) /\ new.podLabels = spec.podLabels
           /\ new.hostAccess = spec.hostAccess /\ new.root = spec.root
           /\ new.automount = "false" /\ new.serviceLinks = OrDefault(spec.serviceLinks, "false")
           /\ new.runAsNonRoot = OrDefault(spec.runAsNonRoot, "true")
           /\ new.seccomp = OrDefault(spec.seccomp, "RuntimeDefault")
           /\ new.volumes = spec.volumes
           /\ new.containers = [c \in Container |-> applyContainerSecurityDefaults(spec.containers[c])]
<1> DEFINE newTTL == OrDefault(spec.ttl, ttl)
           links == OrDefault(spec.serviceLinks, "false")
           seccomp == OrDefault(spec.seccomp, "RuntimeDefault")
           nonRoot == OrDefault(spec.runAsNonRoot, "true")
           containers == [c \in Container |-> applyContainerSecurityDefaults(spec.containers[c])]
<1>1. /\ newTTL \in Nat \cup {Nil} /\ links \in Bool /\ nonRoot \in Bool
      /\ seccomp \in SeccompProfile /\ "false" \in Bool
  BY DEF JobSpec, OrDefault, Bool, SeccompProfile
<1>2. containers \in [Container -> ContainerSpec]
  <2>1. \A c \in Container : spec.containers[c] \in ContainerSpec
    BY DEF JobSpec
  <2> QED
    BY <2>1, ContainerDefaults
<1>3. ApplyJobSecurityDefaults(spec, ttl) =
          [spec EXCEPT !.ttl = newTTL, !.automount = "false", !.serviceLinks = links,
                       !.seccomp = seccomp, !.runAsNonRoot = nonRoot, !.containers = containers]
  BY DEF ApplyJobSecurityDefaults, JobSpec
<1> HIDE DEF newTTL, links, seccomp, nonRoot, containers
<1>4. LET new == ApplyJobSecurityDefaults(spec, ttl) IN
      /\ new \in JobSpec
      /\ new.ttl = newTTL /\ new.podLabels = spec.podLabels
      /\ new.hostAccess = spec.hostAccess /\ new.root = spec.root
      /\ new.automount = "false" /\ new.serviceLinks = links
      /\ new.runAsNonRoot = nonRoot /\ new.seccomp = seccomp
      /\ new.volumes = spec.volumes /\ new.containers = containers
  BY <1>1, <1>2, <1>3 DEF JobSpec
<1> QED
  BY <1>4 DEF newTTL, links, seccomp, nonRoot, containers

LEMMA TemplateDefaultsTwice ==
    ASSUME NEW spec \in JobSpec, NEW ttl \in Nat, NEW ttl2 \in Nat
    PROVE  ApplyJobSecurityDefaults(ApplyJobSecurityDefaults(spec, ttl), ttl2) =
           ApplyJobSecurityDefaults(spec, ttl)
<1> DEFINE once == ApplyJobSecurityDefaults(spec, ttl)
           twice == ApplyJobSecurityDefaults(once, ttl2)
<1>1. once \in JobSpec
  BY TemplateDefaults
<1>2. "false" # Nil /\ "true" # Nil /\ "RuntimeDefault" # Nil /\ ttl # Nil
  BY NilAssumption
<1>3. /\ twice \in JobSpec /\ twice.podLabels = once.podLabels /\ twice.volumes = once.volumes
      /\ twice.hostAccess = once.hostAccess /\ twice.root = once.root
      /\ twice.automount = once.automount
  BY <1>1, TemplateDefaults
<1>4. /\ twice.ttl = once.ttl /\ twice.serviceLinks = once.serviceLinks
      /\ twice.runAsNonRoot = once.runAsNonRoot /\ twice.seccomp = once.seccomp
  <2>1. /\ once.ttl = OrDefault(spec.ttl, ttl)
        /\ once.serviceLinks = OrDefault(spec.serviceLinks, "false")
        /\ once.runAsNonRoot = OrDefault(spec.runAsNonRoot, "true")
        /\ once.seccomp = OrDefault(spec.seccomp, "RuntimeDefault")
    BY TemplateDefaults
  <2>2. /\ twice.ttl = OrDefault(once.ttl, ttl2)
        /\ twice.serviceLinks = OrDefault(once.serviceLinks, "false")
        /\ twice.runAsNonRoot = OrDefault(once.runAsNonRoot, "true")
        /\ twice.seccomp = OrDefault(once.seccomp, "RuntimeDefault")
    BY <1>1, TemplateDefaults
  <2> HIDE DEF once, twice
  <2> QED
    BY <1>2, <2>1, <2>2, OrDefaultTwice
<1>5. twice.containers = once.containers
  <2>1. once.containers = [c \in Container |-> applyContainerSecurityDefaults(spec.containers[c])]
    BY TemplateDefaults
  <2>2. twice.containers = [c \in Container |-> applyContainerSecurityDefaults(once.containers[c])]
    BY <1>1, TemplateDefaults
  <2>3. \A c \in Container : spec.containers[c] \in ContainerSpec
    BY DEF JobSpec
  <2> QED
    BY <2>1, <2>2, <2>3, ContainerDefaultsTwice
<1> HIDE DEF once, twice
<1>6. twice = once
  BY <1>1, <1>3, <1>4, <1>5, JobFields
<1> QED
  BY <1>6 DEF once, twice

-----------------------------------------------------------------------------
(* The mutating webhook *)

LEMMA DefaultTTLType == defaultJobTTL \in Nat /\ defaultJobTTL # Nil
BY NilAssumption DEF defaultJobTTL

LEMMA TTLType ==
    ASSUME NEW spec \in CertificateJobSpec
    PROVE  OrDefault(spec.ttl, defaultJobTTL) \in Nat
BY DefaultTTLType DEF CertificateJobSpec, OrDefault

LEMMA DefaultTemplateFields ==
    ASSUME NEW t \in CertificateJobTemplate, NEW ttl \in Nat
    PROVE  LET new == DefaultTemplate(t, ttl) IN
           /\ new \in CertificateJobTemplate /\ new.name = t.name /\ new.labels = t.labels
           /\ new.template = ApplyJobSecurityDefaults(t.template, ttl)
<1> DEFINE template == ApplyJobSecurityDefaults(t.template, ttl)
<1>1. template \in JobSpec
  BY TemplateDefaults DEF CertificateJobTemplate
<1>2. DefaultTemplate(t, ttl) = [t EXCEPT !.template = template]
  BY DEF DefaultTemplate, CertificateJobTemplate
<1> HIDE DEF template
<1>3. LET new == DefaultTemplate(t, ttl) IN
      /\ new \in CertificateJobTemplate /\ new.name = t.name /\ new.labels = t.labels
      /\ new.template = template
  BY <1>1, <1>2 DEF CertificateJobTemplate
<1> QED
  BY <1>3 DEF template

LEMMA DefaultFields ==
    ASSUME NEW spec \in CertificateJobSpec
    PROVE  LET new == Default(spec) IN
           /\ new \in CertificateJobSpec
           /\ new.edges = spec.edges /\ new.ttl = OrDefault(spec.ttl, defaultJobTTL)
           /\ new.parallelism = OrDefault(spec.parallelism, 1)
           /\ new.failurePolicy = OrDefault(spec.failurePolicy, "StopDownstream")
           /\ Indices(new) = Indices(spec)
           /\ new.jobs = [i \in Indices(spec) |->
                              DefaultTemplate(spec.jobs[i], OrDefault(spec.ttl, defaultJobTTL))]
<1> DEFINE ttl == OrDefault(spec.ttl, defaultJobTTL)
           jobs == [i \in Indices(spec) |-> DefaultTemplate(spec.jobs[i], ttl)]
           parallelism == OrDefault(spec.parallelism, 1)
           policy == OrDefault(spec.failurePolicy, "StopDownstream")
<1>1. ttl \in Nat
  BY TTLType
<1>2. /\ spec.jobs \in Seq(CertificateJobTemplate) /\ Indices(spec) = 1 .. Len(spec.jobs)
      /\ Len(spec.jobs) \in Nat /\ \A i \in Indices(spec) : spec.jobs[i] \in CertificateJobTemplate
  BY DEF CertificateJobSpec, Indices
<1> HIDE DEF ttl
<1>3. jobs \in [1 .. Len(spec.jobs) -> CertificateJobTemplate]
  BY <1>1, <1>2, DefaultTemplateFields
<1>4. jobs \in Seq(CertificateJobTemplate)
  BY <1>2, <1>3, SeqDef
<1>5. parallelism \in Int \cup {Nil} /\ policy \in FailurePolicy \cup {Nil}
  BY DEF CertificateJobSpec, OrDefault, FailurePolicy
<1>6. Default(spec) = [spec EXCEPT !.parallelism = parallelism, !.ttl = ttl,
                                   !.failurePolicy = policy, !.jobs = jobs]
  BY DEF Default, ttl, CertificateJobSpec
<1>7. Len(jobs) = Len(spec.jobs)
  BY <1>2, <1>3, <1>4
<1>8. jobs = [i \in Indices(spec) |-> DefaultTemplate(spec.jobs[i], OrDefault(spec.ttl, defaultJobTTL))]
  BY DEF ttl
<1> HIDE DEF jobs, parallelism, policy
<1>9. LET new == Default(spec) IN
      /\ new \in CertificateJobSpec /\ new.edges = spec.edges /\ new.ttl = ttl
      /\ new.parallelism = parallelism /\ new.failurePolicy = policy /\ new.jobs = jobs
  BY <1>1, <1>4, <1>5, <1>6 DEF CertificateJobSpec
<1> QED
  BY <1>7, <1>8, <1>9 DEF ttl, parallelism, policy, Indices

LEMMA DefaultType == \A spec \in CertificateJobSpec : Default(spec) \in CertificateJobSpec
BY DefaultFields, Zenon

LEMMA SchemaDefaultFields ==
    ASSUME NEW spec \in CertificateJobSpec
    PROVE  LET new == SchemaDefault(spec) IN
           /\ new \in CertificateJobSpec
           /\ new.jobs = spec.jobs /\ new.edges = spec.edges
           /\ new.ttl = OrDefault(spec.ttl, defaultJobTTL)
           /\ new.parallelism = OrDefault(spec.parallelism, 1)
           /\ new.failurePolicy = OrDefault(spec.failurePolicy, "StopDownstream")
<1> DEFINE ttl == OrDefault(spec.ttl, defaultJobTTL)
           parallelism == OrDefault(spec.parallelism, 1)
           policy == OrDefault(spec.failurePolicy, "StopDownstream")
<1>1. ttl \in Nat
  BY TTLType
<1>2. parallelism \in Int \cup {Nil} /\ policy \in FailurePolicy \cup {Nil}
  BY DEF CertificateJobSpec, OrDefault, FailurePolicy
<1>3. SchemaDefault(spec) = [spec EXCEPT !.parallelism = parallelism, !.ttl = ttl,
                                         !.failurePolicy = policy]
  BY DEF SchemaDefault, CertificateJobSpec
<1> HIDE DEF ttl, parallelism, policy
<1>4. LET new == SchemaDefault(spec) IN
      /\ new \in CertificateJobSpec
      /\ new.jobs = spec.jobs /\ new.edges = spec.edges /\ new.ttl = ttl
      /\ new.parallelism = parallelism /\ new.failurePolicy = policy
  BY <1>1, <1>2, <1>3 DEF CertificateJobSpec
<1> QED
  BY <1>4 DEF ttl, parallelism, policy

LEMMA SpecFields ==
    \A r \in CertificateJobSpec :
        r = [jobs |-> r.jobs, edges |-> r.edges, parallelism |-> r.parallelism, ttl |-> r.ttl,
             failurePolicy |-> r.failurePolicy]
BY DEF CertificateJobSpec

LEMMA TemplateFields ==
    \A r \in CertificateJobTemplate :
        r = [name |-> r.name, labels |-> r.labels, template |-> r.template]
BY DEF CertificateJobTemplate

LEMMA DefaultTemplateTwice ==
    ASSUME NEW t \in CertificateJobTemplate, NEW ttl \in Nat, NEW ttl2 \in Nat
    PROVE  DefaultTemplate(DefaultTemplate(t, ttl), ttl2) = DefaultTemplate(t, ttl)
<1> DEFINE once == DefaultTemplate(t, ttl)
           twice == DefaultTemplate(once, ttl2)
<1>1. t.template \in JobSpec
  BY DEF CertificateJobTemplate
<1>2. /\ once \in CertificateJobTemplate
      /\ once.template = ApplyJobSecurityDefaults(t.template, ttl)
  BY DefaultTemplateFields
<1>3. /\ twice \in CertificateJobTemplate /\ twice.name = once.name /\ twice.labels = once.labels
      /\ twice.template = ApplyJobSecurityDefaults(once.template, ttl2)
  BY <1>2, DefaultTemplateFields
<1> HIDE DEF once, twice
<1>4. twice.template = once.template
  BY <1>1, <1>2, <1>3, TemplateDefaultsTwice
<1>5. twice = once
  BY <1>2, <1>3, <1>4, TemplateFields
<1> QED
  BY <1>5 DEF once, twice

\* The mutating webhook applied to what it returned changes nothing: it may be
\* called again on every update.
THEOREM DefaultIdempotent ==
    ASSUME NEW spec \in CertificateJobSpec
    PROVE  Default(Default(spec)) = Default(spec)
<1> DEFINE once == Default(spec)
           twice == Default(once)
           ttl == OrDefault(spec.ttl, defaultJobTTL)
<1>1. /\ once \in CertificateJobSpec /\ once.ttl = ttl
      /\ once.parallelism = OrDefault(spec.parallelism, 1)
      /\ once.failurePolicy = OrDefault(spec.failurePolicy, "StopDownstream")
      /\ Indices(once) = Indices(spec)
      /\ once.jobs = [i \in Indices(spec) |-> DefaultTemplate(spec.jobs[i], ttl)]
  BY DefaultFields
<1>2. /\ twice \in CertificateJobSpec /\ twice.edges = once.edges
      /\ twice.ttl = OrDefault(once.ttl, defaultJobTTL)
      /\ twice.parallelism = OrDefault(once.parallelism, 1)
      /\ twice.failurePolicy = OrDefault(once.failurePolicy, "StopDownstream")
      /\ twice.jobs = [i \in Indices(once) |-> DefaultTemplate(once.jobs[i], OrDefault(once.ttl, defaultJobTTL))]
  BY <1>1, DefaultFields
<1>3. ttl \in Nat
  BY TTLType
<1>4. \A i \in Indices(spec) : spec.jobs[i] \in CertificateJobTemplate
  BY DEF CertificateJobSpec, Indices
<1>5. defaultJobTTL # Nil /\ 1 # Nil /\ "StopDownstream" # Nil
  BY DefaultTTLType, NilAssumption, AdmissionAssumption DEF FailurePolicy
<1>6. OrDefault(ttl, defaultJobTTL) = ttl
  BY <1>5, OrDefaultTwice
<1> HIDE DEF once, twice, ttl
<1>7. twice.jobs = once.jobs
  BY <1>1, <1>2, <1>3, <1>4, <1>6, DefaultTemplateTwice
<1>8. /\ twice.ttl = once.ttl /\ twice.parallelism = once.parallelism
      /\ twice.failurePolicy = once.failurePolicy
  BY <1>1, <1>2, <1>5, <1>6, OrDefaultTwice
<1>9. twice = once
  BY <1>1, <1>2, <1>7, <1>8, SpecFields
<1> QED
  BY <1>9 DEF once, twice

-----------------------------------------------------------------------------
(* The Job of a template *)

Labelled(spec) == [spec EXCEPT !.podLabels = mergeMapsWithBasePrecedence(baseLabels, @)]

\* The template that the secret is injected into.
Prepared(spec, ttl) == ApplyJobSecurityDefaults(Labelled(spec), ttl)

LEMMA MergedLabels ==
    ASSUME NEW labels \in Labels
    PROVE  LET new == mergeMapsWithBasePrecedence(baseLabels, labels) IN
           /\ new \in Labels
           /\ \A k \in Reserved : new[k] = "operator"
           /\ \A k \in Key \ Reserved : new[k] = labels[k]
BY ReservedAssumption DEF mergeMapsWithBasePrecedence, baseLabels, Labels

LEMMA LabelledFields ==
    ASSUME NEW spec \in JobSpec
    PROVE  LET new == Labelled(spec) IN
           /\ new \in JobSpec
           /\ new.ttl = spec.ttl /\ new.hostAccess = spec.hostAccess /\ new.root = spec.root
           /\ new.automount = spec.automount /\ new.serviceLinks = spec.serviceLinks
           /\ new.runAsNonRoot = spec.runAsNonRoot /\ new.seccomp = spec.seccomp
           /\ new.volumes = spec.volumes /\ new.containers = spec.containers
           /\ new.podLabels = mergeMapsWithBasePrecedence(baseLabels, spec.podLabels)
<1> DEFINE labels == mergeMapsWithBasePrecedence(baseLabels, spec.podLabels)
<1>1. labels \in Labels
  BY MergedLabels DEF JobSpec
<1>2. Labelled(spec) = [spec EXCEPT !.podLabels = labels]
  BY DEF Labelled, JobSpec
<1> HIDE DEF labels
<1>3. LET new == Labelled(spec) IN
      /\ new \in JobSpec
      /\ new.ttl = spec.ttl /\ new.hostAccess = spec.hostAccess /\ new.root = spec.root
      /\ new.automount = spec.automount /\ new.serviceLinks = spec.serviceLinks
      /\ new.runAsNonRoot = spec.runAsNonRoot /\ new.seccomp = spec.seccomp
      /\ new.volumes = spec.volumes /\ new.containers = spec.containers
      /\ new.podLabels = labels
  BY <1>1, <1>2 DEF JobSpec
<1> QED
  BY <1>3 DEF labels

LEMMA PreparedFields ==
    ASSUME NEW spec \in JobSpec, NEW ttl \in Nat
    PROVE  LET new == Prepared(spec, ttl) IN
           /\ new \in JobSpec
           /\ new.podLabels = mergeMapsWithBasePrecedence(baseLabels, spec.podLabels)
           /\ new.hostAccess = spec.hostAccess /\ new.root = spec.root /\ new.volumes = spec.volumes
           /\ new.ttl = OrDefault(spec.ttl, ttl) /\ new.automount = "false"
           /\ new.serviceLinks = OrDefault(spec.serviceLinks, "false")
           /\ new.runAsNonRoot = OrDefault(spec.runAsNonRoot, "true")
           /\ new.seccomp = OrDefault(spec.seccomp, "RuntimeDefault")
           /\ new.containers = [c \in Container |-> applyContainerSecurityDefaults(spec.containers[c])]
<1> DEFINE labelled == Labelled(spec)
<1>1. /\ labelled \in JobSpec
      /\ labelled.ttl = spec.ttl /\ labelled.hostAccess = spec.hostAccess
      /\ labelled.root = spec.root /\ labelled.serviceLinks = spec.serviceLinks
      /\ labelled.runAsNonRoot = spec.runAsNonRoot /\ labelled.seccomp = spec.seccomp
      /\ labelled.volumes = spec.volumes /\ labelled.containers = spec.containers
      /\ labelled.podLabels = mergeMapsWithBasePrecedence(baseLabels, spec.podLabels)
  BY LabelledFields
<1>2. Prepared(spec, ttl) = ApplyJobSecurityDefaults(labelled, ttl)
  BY DEF Prepared
<1> HIDE DEF labelled
<1> QED
  BY <1>1, <1>2, TemplateDefaults

\* It makes no difference to the Job whether the template had its defaults before.
LEMMA PreparedDefaults ==
    ASSUME NEW spec \in JobSpec, NEW ttl \in Nat
    PROVE  Prepared(ApplyJobSecurityDefaults(spec, ttl), ttl) = Prepared(spec, ttl)
<1> DEFINE once == ApplyJobSecurityDefaults(spec, ttl)
           twice == ApplyJobSecurityDefaults(once, ttl)
           left == Prepared(once, ttl)
           right == Prepared(spec, ttl)
<1>1. once \in JobSpec /\ once.podLabels = spec.podLabels /\ twice = once
  BY TemplateDefaults, TemplateDefaultsTwice
<1> HIDE DEF once
<1>2. /\ left \in JobSpec /\ left.podLabels = mergeMapsWithBasePrecedence(baseLabels, once.podLabels)
      /\ left.ttl = OrDefault(once.ttl, ttl) /\ left.automount = "false"
      /\ left.serviceLinks = OrDefault(once.serviceLinks, "false")
      /\ left.runAsNonRoot = OrDefault(once.runAsNonRoot, "true")
      /\ left.seccomp = OrDefault(once.seccomp, "RuntimeDefault")
      /\ left.hostAccess = once.hostAccess /\ left.root = once.root /\ left.volumes = once.volumes
      /\ left.containers = [c \in Container |-> applyContainerSecurityDefaults(once.containers[c])]
  BY <1>1, PreparedFields
<1>3. /\ twice.ttl = OrDefault(once.ttl, ttl) /\ twice.automount = "false"
      /\ twice.serviceLinks = OrDefault(once.serviceLinks, "false")
      /\ twice.runAsNonRoot = OrDefault(once.runAsNonRoot, "true")
      /\ twice.seccomp = OrDefault(once.seccomp, "RuntimeDefault")
      /\ twice.hostAccess = once.hostAccess /\ twice.root = once.root /\ twice.volumes = once.volumes
      /\ twice.containers = [c \in Container |-> applyContainerSecurityDefaults(once.containers[c])]
  BY <1>1, TemplateDefaults
<1>4. /\ right \in JobSpec /\ right.podLabels = mergeMapsWithBasePrecedence(baseLabels, spec.podLabels)
      /\ right.ttl = OrDefault(spec.ttl, ttl) /\ right.automount = "false"
      /\ right.serviceLinks = OrDefault(spec.serviceLinks, "false")
      /\ right.runAsNonRoot = OrDefault(spec.runAsNonRoot, "true")
      /\ right.seccomp = OrDefault(spec.seccomp, "RuntimeDefault")
      /\ right.hostAccess = spec.hostAccess /\ right.root = spec.root /\ right.volumes = spec.volumes
      /\ right.containers = [c \in Container |-> applyContainerSecurityDefaults(spec.containers[c])]
  BY PreparedFields
<1>5. /\ once.ttl = OrDefault(spec.ttl, ttl) /\ once.automount = "false"
      /\ once.serviceLinks = OrDefault(spec.serviceLinks, "false")
      /\ once.runAsNonRoot = OrDefault(spec.runAsNonRoot, "true")
      /\ once.seccomp = OrDefault(spec.seccomp, "RuntimeDefault")
      /\ once.hostAccess = spec.hostAccess /\ once.root = spec.root /\ once.volumes = spec.volumes
      /\ once.containers = [c \in Container |-> applyContainerSecurityDefaults(spec.containers[c])]
  BY TemplateDefaults DEF once
<1> HIDE DEF twice, left, right
<1>6. left = right
  <2>1. /\ left.ttl = right.ttl /\ left.serviceLinks = right.serviceLinks
        /\ left.runAsNonRoot = right.runAsNonRoot /\ left.seccomp = right.seccomp
    BY <1>1, <1>2, <1>3, <1>4, <1>5
  <2>2. /\ left.podLabels = right.podLabels /\ left.automount = right.automount
        /\ left.hostAccess = right.hostAccess /\ left.root = right.root
        /\ left.volumes = right.volumes
    BY <1>1, <1>2, <1>4, <1>5
  <2>3. left.containers = right.containers
    <3>1. left.containers = once.containers
      BY <1>1, <1>2, <1>3, Zenon
    <3>2. right.containers = once.containers
      BY <1>4, <1>5, Zenon
    <3> QED
      BY <3>1, <3>2
  <2> QED
    BY <1>2, <1>4, <2>1, <2>2, <2>3, JobFields
<1> QED
  BY <1>6 DEF left, right, once

\* A non-empty set of indices has a first element.
LEMMA FirstExists ==
    ASSUME NEW S \in SUBSET Nat, S # {}
    PROVE  First(S) \in S /\ \A j \in S : First(S) <= j
<1> DEFINE less == OpToRel(<, Nat)
<1>1. IsWellFoundedOn(less, Nat)
  BY NatLessThanWellFounded
<1>2. less = {ss \in Nat \X Nat : ss[1] < ss[2]}
  BY Zenon DEF OpToRel
<1> HIDE DEF less
<1>3. PICK i \in S : \A j \in S : ~ (<<j, i>> \in less)
  BY <1>1, WFMin
<1>4. \A j \in S : i <= j
  <2>1. \A m, n \in Nat : m < n => <<m, n>> \in {ss \in Nat \X Nat : ss[1] < ss[2]}
    OBVIOUS
  <2>2. \A j \in S : ~ (j < i)
    BY <1>2, <1>3, <2>1
  <2> QED
    BY <2>2
<1> QED
  BY <1>4 DEF First

\* What the operator does to the volumes of the template.
LEMMA VolumesInjected ==
    ASSUME NEW volumes \in Seq(Volume), NEW secret \in SecretName
    PROVE  LET new == injectVolume(volumes, secret)
               first == First(SecretVolumes(new))
           IN  /\ new \in Seq(Volume) /\ Len(new) >= Len(volumes)
               /\ SecretVolumes(new) # {} /\ first \in 1 .. Len(new)
               /\ \A i \in 1 .. Len(new) : i \in 1 .. Len(volumes) =>
                      new[i].name = volumes[i].name /\ new[i].other = volumes[i].other
               /\ new[first].secret = secret
               /\ \A i \in 1 .. Len(volumes) : i # first => new[i] = volumes[i]
               /\ SecretVolumes(volumes) = {} =>
                      /\ Len(new) = Len(volumes) + 1 /\ new[Len(new)] = SecretVolume(secret)
                      /\ first = Len(new)
               /\ SecretVolumes(volumes) # {} =>
                      Len(new) = Len(volumes) /\ first \in SecretVolumes(volumes)
<1> DEFINE new == injectVolume(volumes, secret)
<1>1. Len(volumes) \in Nat /\ \A i \in 1 .. Len(volumes) : volumes[i] \in Volume
  OBVIOUS
<1>2. SecretVolume(secret) \in Volume /\ SecretVolume(secret).name = secretVolumeName
      /\ SecretVolume(secret).secret = secret
  BY NamesAssumption DEF SecretVolume, Volume
<1>3. CASE SecretVolumes(volumes) = {}
  <2>1. new = Append(volumes, SecretVolume(secret))
    BY <1>3 DEF injectVolume
  <2>2. /\ new \in Seq(Volume) /\ Len(new) = Len(volumes) + 1
        /\ new[Len(new)] = SecretVolume(secret)
        /\ \A i \in 1 .. Len(volumes) : new[i] = volumes[i]
    BY <1>2, <2>1
  <2> HIDE DEF new
  <2>3. SecretVolumes(new) = {Len(new)}
    BY <1>1, <1>2, <1>3, <2>2 DEF SecretVolumes
  <2>4. First({Len(new)}) = Len(new)
    BY <1>1, <2>2 DEF First
  <2> QED
    BY <1>1, <1>2, <1>3, <2>2, <2>3, <2>4 DEF new
<1>4. CASE SecretVolumes(volumes) # {}
  <2> DEFINE first == First(SecretVolumes(volumes))
             volume == [volumes[first] EXCEPT !.secret = secret]
  <2>1. first \in SecretVolumes(volumes) /\ first \in 1 .. Len(volumes)
    <3>1. SecretVolumes(volumes) \in SUBSET Nat
      BY <1>1 DEF SecretVolumes
    <3> QED
      BY <1>4, <3>1, FirstExists DEF SecretVolumes
  <2>2. /\ volume \in Volume /\ volume.name = volumes[first].name
        /\ volume.other = volumes[first].other /\ volume.secret = secret
    <3> HIDE DEF first
    <3> QED
      BY <1>1, <2>1 DEF Volume
  <2>3. new = [volumes EXCEPT ![first] = volume]
    BY <1>1, <1>4, <2>1 DEF injectVolume
  <2> HIDE DEF new, first, volume
  <2>4. /\ new \in Seq(Volume) /\ Len(new) = Len(volumes) /\ new[first] = volume
        /\ \A i \in 1 .. Len(volumes) : i # first => new[i] = volumes[i]
    BY <2>1, <2>2, <2>3
  <2>5. \A i \in 1 .. Len(volumes) : new[i].name = volumes[i].name /\ new[i].other = volumes[i].other
    BY <2>1, <2>2, <2>4
  <2>6. SecretVolumes(new) = SecretVolumes(volumes)
    BY <2>4, <2>5 DEF SecretVolumes
  <2>7. First(SecretVolumes(new)) = first
    BY <2>6 DEF first
  <2> QED
    BY <1>1, <1>4, <2>1, <2>2, <2>4, <2>5, <2>6, <2>7 DEF new
<1> QED
  BY <1>3, <1>4

\* The mount that ensureVolumeMount leaves in a container with these mounts.
MountMade(mounts) == [SecretMount EXCEPT !.subPath = KeepsSubPath(mounts)]

LEMMA MountFields ==
    \A r \in VolumeMount :
        r = [volume |-> r.volume, path |-> r.path, readOnly |-> r.readOnly, subPath |-> r.subPath]
BY DEF VolumeMount

LEMMA SameMount ==
    ASSUME NEW m \in VolumeMount, NEW n \in VolumeMount, m.volume = n.volume, m.path = n.path,
           m.readOnly = n.readOnly, m.subPath = n.subPath
    PROVE  m = n
BY MountFields, Zenon

LEMMA PathSet ==
    ASSUME NEW m \in VolumeMount, NEW path \in Path
    PROVE  LET new == [m EXCEPT !.path = path] IN
           /\ new \in VolumeMount /\ new.volume = m.volume /\ new.path = path
           /\ new.readOnly = m.readOnly /\ new.subPath = m.subPath
BY DEF VolumeMount

LEMMA ReadOnlySet ==
    ASSUME NEW m \in VolumeMount, NEW readOnly \in BOOLEAN
    PROVE  LET new == [m EXCEPT !.readOnly = readOnly] IN
           /\ new \in VolumeMount /\ new.volume = m.volume /\ new.path = m.path
           /\ new.readOnly = readOnly /\ new.subPath = m.subPath
BY DEF VolumeMount

LEMMA SubPathSet ==
    ASSUME NEW m \in VolumeMount, NEW subPath \in BOOLEAN
    PROVE  LET new == [m EXCEPT !.subPath = subPath] IN
           /\ new \in VolumeMount /\ new.volume = m.volume /\ new.path = m.path
           /\ new.readOnly = m.readOnly /\ new.subPath = subPath
BY DEF VolumeMount

LEMMA SecretMountFields ==
    /\ SecretMount \in VolumeMount /\ SecretMount.volume = secretVolumeName
    /\ SecretMount.path = secretMountPath /\ SecretMount.readOnly = TRUE
    /\ SecretMount.subPath = FALSE
<1>1. SecretMount \in VolumeMount
  BY NamesAssumption DEF SecretMount, VolumeMount
<1>2. SecretMount.volume = secretVolumeName /\ SecretMount.path = secretMountPath
  BY DEF SecretMount
<1>3. SecretMount.readOnly = TRUE /\ SecretMount.subPath = FALSE
  BY Zenon DEF SecretMount
<1> QED
  BY <1>1, <1>2, <1>3

\* The mount that is moved to the agreed path keeps its volume and its subPath.
LEMMA MountMoved ==
    ASSUME NEW m \in VolumeMount
    PROVE  LET new == [m EXCEPT !.path = secretMountPath, !.readOnly = TRUE] IN
           /\ new \in VolumeMount /\ new.volume = m.volume /\ new.path = secretMountPath
           /\ new.readOnly = TRUE /\ new.subPath = m.subPath
<1> DEFINE half == [m EXCEPT !.path = secretMountPath]
           new == [half EXCEPT !.readOnly = TRUE]
<1>1. /\ half \in VolumeMount /\ half.volume = m.volume /\ half.path = secretMountPath
      /\ half.subPath = m.subPath
  BY NamesAssumption, PathSet
<1>2. [m EXCEPT !.path = secretMountPath, !.readOnly = TRUE] = new
  BY DEF VolumeMount
<1> HIDE DEF half
<1>3. TRUE \in BOOLEAN
  OBVIOUS
<1>4. /\ new \in VolumeMount /\ new.volume = half.volume /\ new.path = half.path
      /\ new.readOnly = TRUE /\ new.subPath = half.subPath
  BY <1>1, <1>3, ReadOnlySet, Zenon
<1> HIDE DEF new
<1> QED
  BY <1>1, <1>2, <1>4, Zenon

LEMMA KeepsSubPathType ==
    ASSUME NEW mounts \in Seq(VolumeMount)
    PROVE  /\ KeepsSubPath(mounts) \in BOOLEAN
           /\ SecretMounts(mounts) # {} =>
                  LET first == First(SecretMounts(mounts)) IN
                  /\ first \in SecretMounts(mounts) /\ first \in 1 .. Len(mounts)
                  /\ mounts[first] \in VolumeMount /\ mounts[first].volume = secretVolumeName
                  /\ KeepsSubPath(mounts) = mounts[first].subPath
<1>1. CASE SecretMounts(mounts) = {}
  BY <1>1 DEF KeepsSubPath
<1>2. CASE SecretMounts(mounts) # {}
  <2> DEFINE first == First(SecretMounts(mounts))
  <2>1. first \in SecretMounts(mounts) /\ first \in 1 .. Len(mounts)
    <3>1. SecretMounts(mounts) \in SUBSET Nat
      BY DEF SecretMounts
    <3> QED
      BY <1>2, <3>1, FirstExists DEF SecretMounts
  <2>2. mounts[first] \in VolumeMount /\ mounts[first].volume = secretVolumeName
    BY <2>1 DEF SecretMounts
  <2>3. mounts[first].subPath \in BOOLEAN
    BY <2>2 DEF VolumeMount
  <2>4. KeepsSubPath(mounts) = mounts[first].subPath
    BY <1>2, <2>3, Zenon DEF KeepsSubPath
  <2> QED
    BY <1>2, <2>1, <2>2, <2>3, <2>4, Zenon
<1> QED
  BY <1>1, <1>2

LEMMA MountMadeFields ==
    ASSUME NEW mounts \in Seq(VolumeMount)
    PROVE  LET made == MountMade(mounts) IN
           /\ made \in VolumeMount /\ made.volume = secretVolumeName /\ made.path = secretMountPath
           /\ made.readOnly = TRUE /\ made.subPath = KeepsSubPath(mounts)
<1>1. KeepsSubPath(mounts) \in BOOLEAN
  BY KeepsSubPathType
<1> QED
  BY <1>1, SecretMountFields, SubPathSet, Zenon DEF MountMade

LEMMA MountsInjected ==
    ASSUME NEW mounts \in Seq(VolumeMount)
    PROVE  LET new == ensureVolumeMount(mounts) IN
           /\ new \in Seq(VolumeMount)
           /\ \E n \in 1 .. Len(new) :
                  /\ new[n] = MountMade(mounts)
                  /\ n \in SecretMounts(mounts) \/ (SecretMounts(mounts) = {} /\ n = Len(mounts) + 1)
                  /\ \A i \in 1 .. Len(new) : i # n => i \in 1 .. Len(mounts) /\ new[i] = mounts[i]
<1> DEFINE new == ensureVolumeMount(mounts)
           made == MountMade(mounts)
<1>1. Len(mounts) \in Nat /\ \A i \in 1 .. Len(mounts) : mounts[i] \in VolumeMount
  OBVIOUS
<1>2. /\ made \in VolumeMount /\ made.volume = secretVolumeName /\ made.path = secretMountPath
      /\ made.readOnly = TRUE /\ made.subPath = KeepsSubPath(mounts)
  BY MountMadeFields, Zenon
<1> HIDE DEF made
<1>3. CASE SecretMounts(mounts) = {}
  <2>1. made = SecretMount
    <3>1. KeepsSubPath(mounts) = FALSE
      BY <1>3 DEF KeepsSubPath
    <3> QED
      BY <1>2, <3>1, SecretMountFields, SameMount, Zenon
  <2>2. new = Append(mounts, made)
    BY <1>3, <2>1 DEF ensureVolumeMount
  <2>3. /\ new \in Seq(VolumeMount) /\ Len(new) = Len(mounts) + 1 /\ new[Len(new)] = made
        /\ \A i \in 1 .. Len(mounts) : new[i] = mounts[i]
    BY <1>1, <1>2, <2>2
  <2> HIDE DEF new
  <2> QED
    BY <1>1, <1>3, <2>3 DEF new, made
<1>4. CASE SecretMounts(mounts) # {}
  <2> DEFINE first == First(SecretMounts(mounts))
             moved == [mounts[first] EXCEPT !.path = secretMountPath, !.readOnly = TRUE]
  <2>1. /\ first \in SecretMounts(mounts) /\ first \in 1 .. Len(mounts)
        /\ mounts[first] \in VolumeMount /\ mounts[first].volume = secretVolumeName
        /\ KeepsSubPath(mounts) = mounts[first].subPath
    BY <1>4, KeepsSubPathType
  <2>2. new = [mounts EXCEPT ![first] = moved]
    BY <1>1, <1>4, <2>1 DEF ensureVolumeMount
  <2> HIDE DEF new, first
  <2>3. /\ moved \in VolumeMount /\ moved.volume = secretVolumeName
        /\ moved.path = secretMountPath /\ moved.readOnly = TRUE
        /\ moved.subPath = KeepsSubPath(mounts)
    BY <2>1, MountMoved, Zenon
  <2> HIDE DEF moved
  <2>4. moved = made
    BY <1>2, <2>3, SameMount, Zenon
  <2>5. /\ new \in Seq(VolumeMount) /\ Len(new) = Len(mounts) /\ new[first] = made
        /\ \A i \in 1 .. Len(mounts) : i # first => new[i] = mounts[i]
    BY <1>1, <1>2, <2>1, <2>2, <2>4
  <2> QED
    BY <2>1, <2>5 DEF new, made
<1> QED
  BY <1>3, <1>4

LEMMA ContainerInjected ==
    ASSUME NEW container \in ContainerSpec
    PROVE  LET new == MountSecret(container) IN
           /\ new \in ContainerSpec
           /\ new.elevated = container.elevated /\ new.seccomp = container.seccomp
           /\ new.allowPrivilegeEscalation = container.allowPrivilegeEscalation
           /\ new.runAsNonRoot = container.runAsNonRoot /\ new.drop = container.drop
           /\ new.mounts = ensureVolumeMount(container.mounts)
<1> DEFINE mounts == ensureVolumeMount(container.mounts)
<1>1. mounts \in Seq(VolumeMount)
  BY MountsInjected DEF ContainerSpec
<1> HIDE DEF mounts
<1>2. LET new == [container EXCEPT !.mounts = mounts] IN
      /\ new \in ContainerSpec
      /\ new.elevated = container.elevated /\ new.seccomp = container.seccomp
      /\ new.allowPrivilegeEscalation = container.allowPrivilegeEscalation
      /\ new.runAsNonRoot = container.runAsNonRoot /\ new.drop = container.drop
      /\ new.mounts = mounts
  BY <1>1 DEF ContainerSpec
<1>3. MountSecret(container) = [container EXCEPT !.mounts = mounts]
  BY DEF MountSecret, mounts, ContainerSpec
<1> QED
  BY <1>2, <1>3 DEF mounts

LEMMA SecretInjected ==
    ASSUME NEW spec \in JobSpec, NEW secret \in SecretName
    PROVE  LET new == injectCertificateSecret(spec, secret) IN
           /\ new \in JobSpec
           /\ new.ttl = spec.ttl /\ new.podLabels = spec.podLabels
           /\ new.hostAccess = spec.hostAccess /\ new.root = spec.root
           /\ new.automount = spec.automount /\ new.serviceLinks = spec.serviceLinks
           /\ new.runAsNonRoot = spec.runAsNonRoot /\ new.seccomp = spec.seccomp
           /\ new.volumes = injectVolume(spec.volumes, secret)
           /\ new.containers = [c \in Container |-> MountSecret(spec.containers[c])]
<1> DEFINE volumes == injectVolume(spec.volumes, secret)
           containers == [c \in Container |-> MountSecret(spec.containers[c])]
<1>1. volumes \in Seq(Volume)
  BY VolumesInjected DEF JobSpec
<1>2. containers \in [Container -> ContainerSpec]
  <2>1. \A c \in Container : spec.containers[c] \in ContainerSpec
    BY DEF JobSpec
  <2> QED
    BY <2>1, ContainerInjected
<1>3. injectCertificateSecret(spec, secret) =
          [spec EXCEPT !.volumes = volumes, !.containers = containers]
  BY SecretAssumption DEF injectCertificateSecret, JobSpec
<1> HIDE DEF volumes, containers
<1>4. LET new == injectCertificateSecret(spec, secret) IN
      /\ new \in JobSpec
      /\ new.ttl = spec.ttl /\ new.podLabels = spec.podLabels
      /\ new.hostAccess = spec.hostAccess /\ new.root = spec.root
      /\ new.automount = spec.automount /\ new.serviceLinks = spec.serviceLinks
      /\ new.runAsNonRoot = spec.runAsNonRoot /\ new.seccomp = spec.seccomp
      /\ new.volumes = volumes /\ new.containers = containers
  BY <1>1, <1>2, <1>3 DEF JobSpec
<1> QED
  BY <1>4 DEF volumes, containers

LEMMA BuildJobParts ==
    ASSUME NEW t \in CertificateJobTemplate, NEW ttl, NEW secret
    PROVE  /\ BuildJob(t, ttl, secret).labels = mergeMapsWithBasePrecedence(baseLabels, t.labels)
           /\ BuildJob(t, ttl, secret).spec = injectCertificateSecret(Prepared(t.template, ttl), secret)
           /\ BuildJob(t, ttl, secret) =
                  [labels |-> mergeMapsWithBasePrecedence(baseLabels, t.labels),
                   spec |-> injectCertificateSecret(Prepared(t.template, ttl), secret)]
BY DEF BuildJob, Prepared, Labelled

LEMMA JobType ==
    ASSUME NEW t \in CertificateJobTemplate, NEW ttl \in Nat, NEW secret \in SecretName
    PROVE  BuildJob(t, ttl, secret) \in [labels : Labels, spec : JobSpec]
<1>1. t.template \in JobSpec /\ t.labels \in Labels
  BY DEF CertificateJobTemplate
<1>2. Prepared(t.template, ttl) \in JobSpec
  BY <1>1, PreparedFields
<1>3. injectCertificateSecret(Prepared(t.template, ttl), secret) \in JobSpec
  BY <1>2, SecretInjected
<1>4. mergeMapsWithBasePrecedence(baseLabels, t.labels) \in Labels
  BY <1>1, MergedLabels
<1> QED
  BY <1>3, <1>4, BuildJobParts

LEMMA JobConforms ==
    ASSUME NEW t \in CertificateJobTemplate, NEW ttl \in Nat, NEW secret \in SecretName,
           ValidateJobTemplateSecurity(t.template)
    PROVE  Conforms(t, BuildJob(t, ttl, secret))
<1> DEFINE prepared == Prepared(t.template, ttl)
           spec == injectCertificateSecret(prepared, secret)
           built == BuildJob(t, ttl, secret)
<1>1. /\ t.template \in JobSpec /\ t.labels \in Labels /\ t.template.podLabels \in Labels
      /\ \A c \in Container : t.template.containers[c] \in ContainerSpec
  BY DEF CertificateJobTemplate, JobSpec
<1>2. /\ prepared \in JobSpec
      /\ prepared.podLabels = mergeMapsWithBasePrecedence(baseLabels, t.template.podLabels)
      /\ prepared.hostAccess = t.template.hostAccess /\ prepared.root = t.template.root
      /\ prepared.ttl = OrDefault(t.template.ttl, ttl) /\ prepared.automount = "false"
      /\ prepared.runAsNonRoot = OrDefault(t.template.runAsNonRoot, "true")
      /\ prepared.seccomp = OrDefault(t.template.seccomp, "RuntimeDefault")
      /\ prepared.containers =
             [c \in Container |-> applyContainerSecurityDefaults(t.template.containers[c])]
  BY <1>1, PreparedFields
<1> HIDE DEF prepared
<1>3. /\ spec.ttl = prepared.ttl /\ spec.podLabels = prepared.podLabels
      /\ spec.hostAccess = prepared.hostAccess /\ spec.root = prepared.root
      /\ spec.automount = prepared.automount
      /\ spec.runAsNonRoot = prepared.runAsNonRoot /\ spec.seccomp = prepared.seccomp
      /\ spec.containers = [c \in Container |-> MountSecret(prepared.containers[c])]
  BY <1>2, SecretInjected
<1>4. built.spec = spec /\ built.labels = mergeMapsWithBasePrecedence(baseLabels, t.labels)
  BY <1>1, BuildJobParts DEF prepared
<1> HIDE DEF spec, built
<1>5. \A c \in Container :
          LET old == t.template.containers[c]
              new == spec.containers[c]
          IN  /\ new.elevated = old.elevated
              /\ new.allowPrivilegeEscalation = OrDefault(old.allowPrivilegeEscalation, "false")
              /\ new.runAsNonRoot = OrDefault(old.runAsNonRoot, "true")
              /\ new.seccomp = OrDefault(old.seccomp, "RuntimeDefault")
              /\ ContainsCapability(new.drop)
  <2> TAKE c \in Container
  <2> DEFINE old == t.template.containers[c]
             mid == applyContainerSecurityDefaults(old)
             new == spec.containers[c]
  <2>1. old \in ContainerSpec /\ new = MountSecret(mid)
    BY <1>1, <1>2, <1>3
  <2>2. /\ mid \in ContainerSpec /\ mid.elevated = old.elevated
        /\ mid.allowPrivilegeEscalation = OrDefault(old.allowPrivilegeEscalation, "false")
        /\ mid.runAsNonRoot = OrDefault(old.runAsNonRoot, "true")
        /\ mid.seccomp = OrDefault(old.seccomp, "RuntimeDefault")
        /\ ContainsCapability(mid.drop)
    BY <2>1, ContainerDefaults
  <2> HIDE DEF mid, old, new
  <2>3. /\ new.elevated = mid.elevated /\ new.seccomp = mid.seccomp
        /\ new.allowPrivilegeEscalation = mid.allowPrivilegeEscalation
        /\ new.runAsNonRoot = mid.runAsNonRoot /\ new.drop = mid.drop
    BY <2>1, <2>2, ContainerInjected
  <2> QED
    BY <2>2, <2>3 DEF new, old
<1>6. ValidateJobTemplateSecurity(t.template)
  OBVIOUS
<1>7. /\ "false" # Nil /\ "true" # Nil /\ "RuntimeDefault" # Nil /\ ttl # Nil
  BY NilAssumption
<1>8. \A c \in Container :
          LET container == spec.containers[c] IN
          /\ ContainerAllowed(container)
          /\ container.allowPrivilegeEscalation = "false" /\ container.runAsNonRoot = "true"
          /\ container.seccomp # Nil /\ ContainsCapability(container.drop)
  <2> TAKE c \in Container
  <2>1. /\ t.template.containers[c].allowPrivilegeEscalation \in Bool
        /\ t.template.containers[c].runAsNonRoot \in Bool
    BY <1>1 DEF ContainerSpec
  <2>2. ContainerAllowed(t.template.containers[c])
    BY <1>6 DEF ValidateJobTemplateSecurity
  <2> QED
    BY <1>5, <1>7, <2>1, <2>2 DEF ContainerAllowed, OrDefault, Bool
<1>9. spec.runAsNonRoot = "true" /\ spec.seccomp # Nil /\ spec.ttl # Nil
  <2>1. t.template.runAsNonRoot \in Bool /\ t.template.runAsNonRoot # "false"
    BY <1>1, <1>6 DEF JobSpec, ValidateJobTemplateSecurity
  <2> QED
    BY <1>2, <1>3, <1>7, <2>1 DEF OrDefault, Bool
<1>10. ValidateJobTemplateSecurity(spec) /\ Hardened(spec)
  BY <1>2, <1>3, <1>6, <1>8, <1>9 DEF ValidateJobTemplateSecurity, Hardened
<1> QED
  BY <1>1, <1>2, <1>3, <1>4, <1>10, MergedLabels DEF Conforms, built

LEMMA JobProvidesSecret ==
    ASSUME NEW t \in CertificateJobTemplate, NEW ttl \in Nat, NEW secret \in SecretName,
           PodValid(BuildJob(t, ttl, secret).spec)
    PROVE  FindsSecret(t.template, BuildJob(t, ttl, secret).spec, secret)
<1> DEFINE prepared == Prepared(t.template, ttl)
           spec == injectCertificateSecret(prepared, secret)
<1>1. /\ t.template \in JobSpec /\ t.template.volumes \in Seq(Volume)
      /\ \A c \in Container : t.template.containers[c] \in ContainerSpec
  BY DEF CertificateJobTemplate, JobSpec
<1>2. /\ prepared \in JobSpec /\ prepared.volumes = t.template.volumes
      /\ prepared.containers =
             [c \in Container |-> applyContainerSecurityDefaults(t.template.containers[c])]
  BY <1>1, PreparedFields
<1>3. BuildJob(t, ttl, secret).spec = spec
  BY BuildJobParts
<1> HIDE DEF prepared
<1>4. /\ spec.volumes = injectVolume(t.template.volumes, secret)
      /\ spec.containers = [c \in Container |-> MountSecret(prepared.containers[c])]
  BY <1>2, SecretInjected
<1>5. PodValid(spec)
  BY <1>3
<1> HIDE DEF spec
<1>6. \E v \in 1 .. Len(spec.volumes) : spec.volumes[v] = SecretVolume(secret)
  <2> DEFINE first == First(SecretVolumes(spec.volumes))
  <2>1. /\ spec.volumes \in Seq(Volume) /\ first \in 1 .. Len(spec.volumes)
        /\ spec.volumes[first].secret = secret /\ SecretVolumes(spec.volumes) # {}
    BY <1>1, <1>4, VolumesInjected
  <2>2. spec.volumes[first].name = secretVolumeName
    <3>1. SecretVolumes(spec.volumes) \in SUBSET Nat
      BY <2>1 DEF SecretVolumes
    <3>2. first \in SecretVolumes(spec.volumes)
      BY <2>1, <3>1, FirstExists
    <3> QED
      BY <3>2 DEF SecretVolumes
  <2> HIDE DEF first
  <2>3. spec.volumes[first] \in Volume /\ ~ spec.volumes[first].other
    <3>1. spec.volumes[first] \in Volume
      BY <2>1
    <3>2. spec.volumes[first].other <=> spec.volumes[first].secret = Nil
      BY <1>5, <2>1, Zenon DEF PodValid
    <3> QED
      BY <2>1, <3>1, <3>2, SecretAssumption
  <2>4. spec.volumes[first] = SecretVolume(secret)
    BY <2>1, <2>2, <2>3 DEF SecretVolume, Volume
  <2> QED
    BY <2>1, <2>4
<1>7. ASSUME NEW c \in Container
      PROVE  LET mounts == spec.containers[c].mounts IN
             \E i \in 1 .. Len(mounts) : mounts[i] = MountMade(t.template.containers[c].mounts)
  <2> DEFINE old == t.template.containers[c]
             mid == applyContainerSecurityDefaults(old)
  <2>1. old \in ContainerSpec /\ spec.containers[c] = MountSecret(mid)
    BY <1>1, <1>2, <1>4
  <2>2. mid \in ContainerSpec /\ mid.mounts = old.mounts
    BY <2>1, ContainerDefaults
  <2> HIDE DEF mid, old
  <2>3. spec.containers[c].mounts = ensureVolumeMount(old.mounts) /\ old.mounts \in Seq(VolumeMount)
    BY <2>1, <2>2, ContainerInjected DEF ContainerSpec
  <2> QED
    BY <2>3, MountsInjected DEF old
<1> QED
  BY <1>3, <1>6, <1>7 DEF FindsSecret, MountMade

\* The two conjuncts of PodValid, for the volumes and for the mounts of a container.
VolumesValid(volumes) ==
    \A i, j \in 1 .. Len(volumes) : /\ volumes[i].name = volumes[j].name => i = j
                                    /\ volumes[i].other <=> volumes[i].secret = Nil

MountsValid(mounts, volumes) ==
    \A i, j \in 1 .. Len(mounts) :
        /\ mounts[i].path = mounts[j].path => i = j
        /\ \E v \in 1 .. Len(volumes) : volumes[v].name = mounts[i].volume

MountsLeaveSecretAlone(mounts) ==
    \A i, j \in 1 .. Len(mounts) :
        \/ mounts[i].volume # secretVolumeName /\ mounts[i].path # secretMountPath
        \/ mounts[i].volume = secretVolumeName /\ (mounts[j].volume = secretVolumeName => i = j)

LEMMA VolumesStayValid ==
    ASSUME NEW volumes \in Seq(Volume), NEW secret \in SecretName, VolumesValid(volumes),
           \A v \in SecretVolumes(volumes) : ~ volumes[v].other
    PROVE  VolumesValid(injectVolume(volumes, secret))
<1> DEFINE new == injectVolume(volumes, secret)
           first == First(SecretVolumes(new))
<1>1. /\ new \in Seq(Volume) /\ first \in 1 .. Len(new) /\ new[first].secret = secret
      /\ \A i \in 1 .. Len(new) : i \in 1 .. Len(volumes) =>
             new[i].name = volumes[i].name /\ new[i].other = volumes[i].other
      /\ \A i \in 1 .. Len(volumes) : i # first => new[i] = volumes[i]
      /\ SecretVolumes(volumes) = {} => /\ Len(new) = Len(volumes) + 1 /\ first = Len(new)
                                       /\ new[Len(new)] = SecretVolume(secret)
      /\ SecretVolumes(volumes) # {} => Len(new) = Len(volumes) /\ first \in SecretVolumes(volumes)
  BY VolumesInjected
<1>2. Len(volumes) \in Nat /\ secret # Nil
  BY SecretAssumption
<1>3. SecretVolume(secret).name = secretVolumeName /\ SecretVolume(secret).other = FALSE
  BY DEF SecretVolume
<1>4. \A i \in 1 .. Len(volumes) : i \in SecretVolumes(volumes) <=> volumes[i].name = secretVolumeName
  BY DEF SecretVolumes
<1> HIDE DEF new, first
<1>5. \A i, j \in 1 .. Len(new) : new[i].name = new[j].name => i = j
  BY <1>1, <1>2, <1>3, <1>4 DEF VolumesValid
<1>6. new[first].other = FALSE
  <2>1. CASE SecretVolumes(volumes) = {}
    BY <1>1, <1>3, <2>1
  <2>2. CASE SecretVolumes(volumes) # {}
    <3>1. first \in 1 .. Len(volumes) /\ volumes[first].other = FALSE
      BY <1>1, <2>2 DEF SecretVolumes, Volume
    <3> QED
      BY <1>1, <3>1
  <2> QED
    BY <2>1, <2>2
<1>7. \A i \in 1 .. Len(new) : new[i].other <=> new[i].secret = Nil
  <2> TAKE i \in 1 .. Len(new)
  <2>1. CASE i = first
    BY <1>1, <1>2, <1>6, <2>1
  <2>2. CASE i # first
    <3>1. i \in 1 .. Len(volumes) /\ new[i] = volumes[i]
      BY <1>1, <1>2, <2>2
    <3> QED
      BY <3>1 DEF VolumesValid
  <2> QED
    BY <2>1, <2>2
<1> QED
  BY <1>5, <1>7 DEF VolumesValid, new

LEMMA MountsStayValid ==
    ASSUME NEW volumes \in Seq(Volume), NEW secret \in SecretName, NEW mounts \in Seq(VolumeMount),
           MountsValid(mounts, volumes), MountsLeaveSecretAlone(mounts)
    PROVE  MountsValid(ensureVolumeMount(mounts), injectVolume(volumes, secret))
<1> DEFINE vs == injectVolume(volumes, secret)
           first == First(SecretVolumes(vs))
           new == ensureVolumeMount(mounts)
<1>1. /\ Len(vs) >= Len(volumes) /\ SecretVolumes(vs) # {} /\ vs \in Seq(Volume)
      /\ \A i \in 1 .. Len(vs) : i \in 1 .. Len(volumes) => vs[i].name = volumes[i].name
  BY VolumesInjected
<1>2. PICK n \in 1 .. Len(new) :
          /\ new[n] = MountMade(mounts)
          /\ n \in SecretMounts(mounts) \/ (SecretMounts(mounts) = {} /\ n = Len(mounts) + 1)
          /\ \A i \in 1 .. Len(new) : i # n => i \in 1 .. Len(mounts) /\ new[i] = mounts[i]
  BY MountsInjected
<1> HIDE DEF vs, new
<1>3. MountMade(mounts).path = secretMountPath /\ MountMade(mounts).volume = secretVolumeName
  BY MountMadeFields, Zenon
<1>4. Len(volumes) \in Nat /\ Len(vs) \in Nat
  BY <1>1
<1>5. \E v \in 1 .. Len(vs) : vs[v].name = secretVolumeName
  BY <1>1 DEF SecretVolumes
<1>6. \A i \in 1 .. Len(mounts) : \E v \in 1 .. Len(vs) : vs[v].name = mounts[i].volume
  <2> TAKE i \in 1 .. Len(mounts)
  <2>1. PICK v \in 1 .. Len(volumes) : volumes[v].name = mounts[i].volume
    BY DEF MountsValid
  <2> QED
    BY <1>1, <1>4, <2>1
<1>7. \A i \in 1 .. Len(new) : i # n => new[i].path # secretMountPath
  <2> SUFFICES ASSUME NEW i \in 1 .. Len(new), i # n, mounts[i].path = secretMountPath
               PROVE  FALSE
    BY <1>2
  <2>1. i \in 1 .. Len(mounts)
    BY <1>2
  <2>2. mounts[i].volume = secretVolumeName
    BY <2>1 DEF MountsLeaveSecretAlone
  <2>3. n \in 1 .. Len(mounts) /\ mounts[n].volume = secretVolumeName
    BY <1>2, <2>1, <2>2 DEF SecretMounts
  <2> QED
    BY <2>1, <2>2, <2>3 DEF MountsLeaveSecretAlone
<1>8. \A i, j \in 1 .. Len(new) : new[i].path = new[j].path => i = j
  BY <1>2, <1>3, <1>7 DEF MountsValid
<1>9. \A i \in 1 .. Len(new) : \E v \in 1 .. Len(vs) : vs[v].name = new[i].volume
  BY <1>2, <1>3, <1>5, <1>6
<1> QED
  BY <1>8, <1>9 DEF MountsValid, vs, new

LEMMA JobStaysValid ==
    ASSUME NEW t \in CertificateJobTemplate, NEW ttl \in Nat, NEW secret \in SecretName,
           PodValid(t.template), LeavesSecretAlone(t.template)
    PROVE  PodValid(BuildJob(t, ttl, secret).spec)
<1> DEFINE prepared == Prepared(t.template, ttl)
           spec == injectCertificateSecret(prepared, secret)
<1>1. /\ t.template \in JobSpec /\ t.template.volumes \in Seq(Volume)
      /\ \A c \in Container : t.template.containers[c] \in ContainerSpec
  BY DEF CertificateJobTemplate, JobSpec
<1>2. /\ prepared \in JobSpec /\ prepared.volumes = t.template.volumes
      /\ prepared.containers =
             [c \in Container |-> applyContainerSecurityDefaults(t.template.containers[c])]
  BY <1>1, PreparedFields
<1>3. BuildJob(t, ttl, secret).spec = spec
  BY BuildJobParts
<1> HIDE DEF prepared
<1>4. /\ spec.volumes = injectVolume(t.template.volumes, secret)
      /\ spec.containers = [c \in Container |-> MountSecret(prepared.containers[c])]
  BY <1>2, SecretInjected
<1> HIDE DEF spec
<1>5. VolumesValid(spec.volumes)
  <2>1. VolumesValid(t.template.volumes)
    BY DEF VolumesValid, PodValid
  <2>2. \A v \in SecretVolumes(t.template.volumes) : ~ t.template.volumes[v].other
    BY DEF LeavesSecretAlone
  <2> QED
    BY <1>1, <1>4, <2>1, <2>2, VolumesStayValid
<1>6. \A c \in Container : MountsValid(spec.containers[c].mounts, spec.volumes)
  <2> TAKE c \in Container
  <2> DEFINE old == t.template.containers[c]
             mid == applyContainerSecurityDefaults(old)
  <2>1. old \in ContainerSpec /\ spec.containers[c] = MountSecret(mid)
    BY <1>1, <1>2, <1>4
  <2>2. mid \in ContainerSpec /\ mid.mounts = old.mounts
    BY <2>1, ContainerDefaults
  <2> HIDE DEF mid, old
  <2>3. spec.containers[c].mounts = ensureVolumeMount(old.mounts) /\ old.mounts \in Seq(VolumeMount)
    BY <2>1, <2>2, ContainerInjected DEF ContainerSpec
  <2>4. MountsValid(old.mounts, t.template.volumes) /\ MountsLeaveSecretAlone(old.mounts)
    BY DEF PodValid, LeavesSecretAlone, MountsValid, MountsLeaveSecretAlone, old
  <2> QED
    BY <1>1, <1>4, <2>3, <2>4, MountsStayValid
<1>7. PodValid(spec)
  BY <1>5, <1>6 DEF PodValid, VolumesValid, MountsValid
<1> QED
  BY <1>3, <1>7

LEMMA BuildNodeDefaulted ==
    ASSUME NEW spec \in CertificateJobSpec, NEW i \in Indices(spec), NEW secret \in SecretName
    PROVE  BuildNode(Default(spec), i, secret) = BuildNode(spec, i, secret)
<1> DEFINE ttl == OrDefault(spec.ttl, defaultJobTTL)
           new == Default(spec)
           t == spec.jobs[i]
           u == new.jobs[i]
<1>1. ttl \in Nat /\ t \in CertificateJobTemplate
  BY TTLType DEF CertificateJobSpec, Indices
<1>2. new.ttl = ttl /\ u = DefaultTemplate(t, ttl)
  <2>1. new.ttl = ttl /\ new.jobs = [j \in Indices(spec) |-> DefaultTemplate(spec.jobs[j], ttl)]
    BY DefaultFields
  <2> HIDE DEF ttl, new
  <2> QED
    BY <2>1
<1>3. requestedJobTTL(spec) = ttl /\ requestedJobTTL(new) = ttl
  BY <1>1, <1>2, NilAssumption DEF requestedJobTTL, OrDefault
<1>4. BuildNode(new, i, secret) = BuildJob(u, ttl, secret)
      /\ BuildNode(spec, i, secret) = BuildJob(t, ttl, secret)
  BY <1>3 DEF BuildNode
<1> HIDE DEF ttl, new, t, u
<1>5. /\ u \in CertificateJobTemplate /\ u.labels = t.labels
      /\ u.template = ApplyJobSecurityDefaults(t.template, ttl)
  BY <1>1, <1>2, DefaultTemplateFields
<1>6. Prepared(u.template, ttl) = Prepared(t.template, ttl)
  BY <1>1, <1>5, PreparedDefaults DEF CertificateJobTemplate
<1>7. BuildJob(u, ttl, secret) = BuildJob(t, ttl, secret)
  BY <1>1, <1>5, <1>6, BuildJobParts
<1> QED
  BY <1>4, <1>7 DEF new

-----------------------------------------------------------------------------
(* Objects, requests and Jobs *)

\* The defaults of the schema are in place.
Complete(spec) == spec.parallelism # Nil /\ spec.ttl # Nil /\ spec.failurePolicy # Nil

LEMMA CompleteUnchanged ==
    ASSUME NEW spec \in CertificateJobSpec, Complete(spec)
    PROVE  SchemaDefault(spec) = spec
<1> DEFINE new == SchemaDefault(spec)
<1>1. /\ new \in CertificateJobSpec /\ new.jobs = spec.jobs /\ new.edges = spec.edges
      /\ new.ttl = OrDefault(spec.ttl, defaultJobTTL)
      /\ new.parallelism = OrDefault(spec.parallelism, 1)
      /\ new.failurePolicy = OrDefault(spec.failurePolicy, "StopDownstream")
  BY SchemaDefaultFields
<1> HIDE DEF new
<1>2. new.ttl = spec.ttl /\ new.parallelism = spec.parallelism /\ new.failurePolicy = spec.failurePolicy
  BY <1>1 DEF Complete, OrDefault
<1>3. new = spec
  BY <1>1, <1>2, SpecFields
<1> QED
  BY <1>3 DEF new

LEMMA OrDefaultSet ==
    ASSUME NEW pointer, NEW default, default # Nil
    PROVE  OrDefault(pointer, default) # Nil
BY DEF OrDefault

LEMMA DefaultsComplete ==
    ASSUME NEW spec \in CertificateJobSpec
    PROVE  Complete(SchemaDefault(spec)) /\ Complete(Default(spec))
<1>1. defaultJobTTL # Nil /\ 1 # Nil /\ "StopDownstream" # Nil
  BY DefaultTTLType, NilAssumption, AdmissionAssumption DEF FailurePolicy
<1>2. Complete(SchemaDefault(spec))
  <2> DEFINE new == SchemaDefault(spec)
  <2>1. /\ new.ttl = OrDefault(spec.ttl, defaultJobTTL)
        /\ new.parallelism = OrDefault(spec.parallelism, 1)
        /\ new.failurePolicy = OrDefault(spec.failurePolicy, "StopDownstream")
    BY SchemaDefaultFields
  <2> HIDE DEF new
  <2>2. Complete(new)
    BY <1>1, <2>1, OrDefaultSet DEF Complete
  <2> QED
    BY <2>2 DEF new
<1>3. Complete(Default(spec))
  <2> DEFINE new == Default(spec)
  <2>1. /\ new.ttl = OrDefault(spec.ttl, defaultJobTTL)
        /\ new.parallelism = OrDefault(spec.parallelism, 1)
        /\ new.failurePolicy = OrDefault(spec.failurePolicy, "StopDownstream")
    BY DefaultFields
  <2> HIDE DEF new
  <2>2. Complete(new)
    BY <1>1, <2>1, OrDefaultSet DEF Complete
  <2> QED
    BY <2>2 DEF new
<1> QED
  BY <1>2, <1>3

LEMMA DefaultsStaySecure ==
    ASSUME NEW spec \in JobSpec, NEW ttl \in Nat, ValidateJobTemplateSecurity(spec)
    PROVE  ValidateJobTemplateSecurity(ApplyJobSecurityDefaults(spec, ttl))
<1> DEFINE new == ApplyJobSecurityDefaults(spec, ttl)
<1>1. /\ new.hostAccess = spec.hostAccess /\ new.root = spec.root /\ new.automount = "false"
      /\ new.runAsNonRoot = OrDefault(spec.runAsNonRoot, "true")
      /\ new.containers = [c \in Container |-> applyContainerSecurityDefaults(spec.containers[c])]
  BY TemplateDefaults
<1> HIDE DEF new
<1>2. \A c \in Container : ContainerAllowed(new.containers[c])
  <2> TAKE c \in Container
  <2> DEFINE old == spec.containers[c]
  <2>1. old \in ContainerSpec /\ ContainerAllowed(old)
    BY DEF JobSpec, ValidateJobTemplateSecurity
  <2>2. /\ applyContainerSecurityDefaults(old).elevated = old.elevated
        /\ applyContainerSecurityDefaults(old).allowPrivilegeEscalation =
               OrDefault(old.allowPrivilegeEscalation, "false")
        /\ applyContainerSecurityDefaults(old).runAsNonRoot = OrDefault(old.runAsNonRoot, "true")
    BY <2>1, ContainerDefaults
  <2>3. new.containers[c] = applyContainerSecurityDefaults(old)
    BY <1>1
  <2> HIDE DEF old
  <2> QED
    BY <2>1, <2>2, <2>3 DEF ContainerAllowed, OrDefault
<1>3. ValidateJobTemplateSecurity(new)
  BY <1>1, <1>2 DEF ValidateJobTemplateSecurity, OrDefault
<1> QED
  BY <1>3 DEF new

\* What Default writes into a spec that is complete passes the checks the spec passed.
LEMMA DefaultStaysValid ==
    ASSUME NEW spec \in CertificateJobSpec, Complete(spec), SchemaValid(spec),
           validateCertificateJob(spec)
    PROVE  SchemaValid(Default(spec)) /\ validateCertificateJob(Default(spec))
<1> DEFINE ttl == OrDefault(spec.ttl, defaultJobTTL)
           new == Default(spec)
<1>1. /\ new \in CertificateJobSpec /\ new.ttl = ttl /\ ttl \in Nat
      /\ new.parallelism = OrDefault(spec.parallelism, 1) /\ Indices(new) = Indices(spec)
      /\ new.jobs = [i \in Indices(spec) |-> DefaultTemplate(spec.jobs[i], ttl)]
  BY DefaultFields, TTLType
<1>2. ttl = spec.ttl /\ OrDefault(spec.parallelism, 1) = spec.parallelism
  BY DEF Complete, OrDefault
<1> HIDE DEF new, ttl
<1>3. Len(new.jobs) = Len(spec.jobs)
  <2>1. Len(new.jobs) \in Nat /\ Len(spec.jobs) \in Nat
    BY <1>1 DEF CertificateJobSpec
  <2> QED
    BY <1>1, <2>1 DEF Indices
<1>4. \A i \in Indices(spec) :
          LET old == spec.jobs[i] IN
          /\ new.jobs[i].name = old.name /\ new.jobs[i].labels = old.labels
          /\ new.jobs[i].template.podLabels = old.template.podLabels
          /\ ValidateJobTemplateSecurity(old.template) =>
                 ValidateJobTemplateSecurity(new.jobs[i].template)
  <2> TAKE i \in Indices(spec)
  <2> DEFINE old == spec.jobs[i]
  <2>1. old \in CertificateJobTemplate /\ old.template \in JobSpec
    <3>1. old \in CertificateJobTemplate
      BY DEF CertificateJobSpec, Indices
    <3> HIDE DEF old
    <3> QED
      BY <3>1 DEF CertificateJobTemplate
  <2>2. new.jobs[i] = DefaultTemplate(old, ttl)
    BY <1>1
  <2> HIDE DEF old
  <2>3. /\ new.jobs[i].name = old.name /\ new.jobs[i].labels = old.labels
        /\ new.jobs[i].template = ApplyJobSecurityDefaults(old.template, ttl)
    BY <1>1, <2>1, <2>2, DefaultTemplateFields
  <2>4. ApplyJobSecurityDefaults(old.template, ttl).podLabels = old.template.podLabels
    BY <1>1, <2>1, TemplateDefaults
  <2>5. ValidateJobTemplateSecurity(old.template) =>
            ValidateJobTemplateSecurity(ApplyJobSecurityDefaults(old.template, ttl))
    BY <1>1, <2>1, DefaultsStaySecure
  <2>6. /\ new.jobs[i].template.podLabels = old.template.podLabels
        /\ ValidateJobTemplateSecurity(old.template) =>
               ValidateJobTemplateSecurity(new.jobs[i].template)
    BY <2>3, <2>4, <2>5
  <2> QED
    BY <2>3, <2>6 DEF old
<1>5. SchemaValid(new)
  <2>1. \A i \in Indices(new) : new.jobs[i].name # NoName
    BY <1>1, <1>4 DEF SchemaValid
  <2>2. Len(new.jobs) \in 1 .. 32 /\ new.parallelism \in 1 .. 20
    BY <1>1, <1>2, <1>3, Zenon DEF SchemaValid
  <2>3. 60 <= new.ttl /\ new.ttl <= oneWeek
    BY <1>1, <1>2 DEF SchemaValid
  <2> QED
    BY <2>1, <2>2, <2>3 DEF SchemaValid
<1>6. validateCertificateJob(new)
  BY <1>1, <1>2, <1>3, <1>4 DEF validateCertificateJob
<1> QED
  BY <1>5, <1>6 DEF new

\* An object or a request marked as completed is unchanged by another pass of the
\* webhook; a resubmitted request carries the stored spec, or what the webhook
\* makes of it.
RequestInv ==
    request # NoRequest =>
        /\ Complete(request.spec)
        /\ request.stage = "mutate" => ~ request.completed
        /\ request.completed => request.spec = Default(request.spec)
        /\ request.resubmitted =>
               stored # NoObject /\ request.spec \in {stored, Default(stored)}

StoredInv ==
    stored # NoObject => /\ Complete(stored)
                         /\ completed => stored = Default(stored)
                         /\ SchemaValid(stored)
                         /\ validated => validateCertificateJob(stored)

JobInv == JobsConform /\ SecretReachable /\ PodStaysValid

Inv == TypeOK /\ RequestInv /\ StoredInv /\ JobInv

LEMMA SendStep ==
    ASSUME Inv, NEW spec \in CertificateJobSpec, NEW resubmitted \in BOOLEAN,
           Send(spec, resubmitted), resubmitted => stored # NoObject /\ spec = stored
    PROVE  Inv'
<1> DEFINE new == SchemaDefault(spec)
<1>1. new \in CertificateJobSpec /\ Complete(new)
  BY SchemaDefaultFields, DefaultsComplete
<1>2. resubmitted => new = stored
  BY CompleteUnchanged DEF Inv, StoredInv
<1>3. request' = [stage |-> "mutate", spec |-> new, completed |-> FALSE,
                  resubmitted |-> resubmitted]
  BY DEF Send
<1> HIDE DEF new
<1>4. /\ request' \in Request /\ request'.stage = "mutate" /\ request'.spec = new
      /\ request'.completed = FALSE /\ request'.resubmitted = resubmitted
  BY <1>1, <1>3 DEF Request
<1> QED
  BY <1>1, <1>2, <1>4 DEF Send, Inv, TypeOK, RequestInv, StoredInv, JobInv, JobsConform, SecretReachable,
              PodStaysValid

LEMMA MutateStep ==
    ASSUME Inv, MutatingWebhook
    PROVE  Inv'
<1> DEFINE spec == IF mutating THEN Default(request.spec) ELSE request.spec
<1>1. /\ request # NoRequest /\ request \in Request /\ request.stage = "mutate"
      /\ request.spec \in CertificateJobSpec /\ mutating \in BOOLEAN
      /\ stored \in CertificateJobSpec \cup {NoObject}
  BY DEF MutatingWebhook, Inv, TypeOK, Request
<1>2. spec \in CertificateJobSpec
  <2>1. Default(request.spec) \in CertificateJobSpec
    BY <1>1, DefaultType
  <2>2. request.spec \in CertificateJobSpec
    BY <1>1
  <2> QED
    BY <2>1, <2>2, Zenon
<1>3. request' = [request EXCEPT !.stage = "validate", !.completed = mutating, !.spec = spec]
  BY <1>1 DEF MutatingWebhook, Request
<1>4. Complete(spec) /\ (mutating => spec = Default(spec))
  BY <1>1, DefaultIdempotent, DefaultsComplete DEF Inv, RequestInv
<1>5. request.resubmitted => spec \in {stored, Default(stored)}
  BY <1>1, DefaultIdempotent DEF Inv, RequestInv
<1> HIDE DEF spec
<1>6. /\ request' \in Request /\ request'.stage = "validate" /\ request'.spec = spec
      /\ request'.completed = mutating /\ request'.resubmitted = request.resubmitted
  BY <1>1, <1>2, <1>3 DEF Request
<1>7. RequestInv'
  BY <1>1, <1>4, <1>5, <1>6 DEF RequestInv, Inv, MutatingWebhook
<1> QED
  BY <1>6, <1>7 DEF MutatingWebhook, Inv, TypeOK, StoredInv, JobInv, JobsConform, SecretReachable,
              PodStaysValid

LEMMA StoreStep ==
    ASSUME Inv, Store \/ Reject
    PROVE  Inv'
<1>1. request \in Request /\ request # NoRequest /\ request.spec \in CertificateJobSpec
      /\ request.completed \in BOOLEAN
  BY DEF Store, Reject, AtValidation, Inv, TypeOK, Request
<1>2. CASE Store
  <2>1. TypeOK' /\ RequestInv'
    BY <1>1, <1>2 DEF Store, Inv, TypeOK, RequestInv
  <2>2. StoredInv'
    BY <1>1, <1>2 DEF Store, AtValidation, Inv, RequestInv, StoredInv
  <2>3. JobInv'
    BY <1>2 DEF Store, JobInv, JobsConform, SecretReachable, PodStaysValid
  <2> QED
    BY <2>1, <2>2, <2>3 DEF Inv
<1>3. CASE Reject
  BY <1>3 DEF Reject, Inv, TypeOK, RequestInv, StoredInv, JobInv, JobsConform, SecretReachable,
              PodStaysValid
<1> QED
  BY <1>2, <1>3

LEMMA ScheduleStep ==
    ASSUME Inv, NEW i \in Indices(stored), NEW secret \in SecretName, ScheduleNode(i, secret)
    PROVE  Inv'
<1> DEFINE t == stored.jobs[i]
           ttl == requestedJobTTL(stored)
           built == BuildJob(t, ttl, secret)
<1>1. stored \in CertificateJobSpec
  BY DEF ScheduleNode, Inv, TypeOK
<1>2. t \in CertificateJobTemplate /\ ttl \in Nat
  BY <1>1, TTLType DEF CertificateJobSpec, Indices, requestedJobTTL
<1>3. ValidateJobTemplateSecurity(t.template)
  <2>1. templatesValid(stored)
    BY DEF ScheduleNode, buildWorkflowGraph, workflowOf
  <2> QED
    BY <2>1 DEF templatesValid
<1>4. job' = [secret |-> secret, template |-> t, built |-> built]
  BY DEF ScheduleNode, BuildNode
<1> HIDE DEF t, ttl
<1>5. /\ built \in [labels : Labels, spec : JobSpec] /\ Conforms(t, built)
      /\ PodValid(built.spec) => FindsSecret(t.template, built.spec, secret)
      /\ PodValid(t.template) /\ LeavesSecretAlone(t.template) => PodValid(built.spec)
  BY <1>2, <1>3, JobType, JobConforms, JobProvidesSecret, JobStaysValid
<1> HIDE DEF built
<1>6. /\ job' \in BuiltJob /\ job'.secret = secret /\ job'.template = t /\ job'.built = built
  BY <1>2, <1>4, <1>5 DEF BuiltJob
<1>7. JobInv'
  BY <1>5, <1>6 DEF JobInv, JobsConform, SecretReachable, PodStaysValid
<1> QED
  BY <1>6, <1>7 DEF ScheduleNode, Inv, TypeOK, RequestInv, StoredInv

LEMMA InvInductive ==
    ASSUME Inv, [Next]_vars
    PROVE  Inv'
<1>1. ASSUME NEW spec \in Manifests, Submit(spec)
      PROVE  Inv'
  BY <1>1, AdmissionAssumption, SendStep DEF Submit
<1>2. CASE Resubmit
  <2>1. stored \in CertificateJobSpec
    BY <1>2 DEF Resubmit, Inv, TypeOK
  <2> QED
    BY <1>2, <2>1, SendStep DEF Resubmit
<1>3. ASSUME NEW m \in BOOLEAN, NEW v \in BOOLEAN, ConfigureWebhooks(m, v)
      PROVE  Inv'
  BY <1>3 DEF ConfigureWebhooks, Inv, TypeOK, RequestInv, StoredInv, JobInv, JobsConform,
              SecretReachable, PodStaysValid
<1>4. CASE UNCHANGED vars
  BY <1>4 DEF vars, Inv, TypeOK, RequestInv, StoredInv, JobInv, JobsConform, SecretReachable,
              PodStaysValid
<1> QED
  BY <1>1, <1>2, <1>3, <1>4, MutateStep, StoreStep, ScheduleStep DEF Next

\* Requests, objects and Jobs keep their types and the properties below hold, for
\* all templates, labels, containers and secrets, however often the webhooks are
\* switched on and off.
THEOREM AdmissionInvariance == Spec => []Inv
<1>1. Init => Inv
  BY DEF Init, Inv, TypeOK, RequestInv, StoredInv, JobInv, JobsConform, SecretReachable,
         PodStaysValid
<1>2. Inv /\ [Next]_vars => Inv'
  BY InvInductive
<1> QED
  BY <1>1, <1>2, PTL DEF Spec

\* Requests, objects and Jobs are well-typed.
THEOREM AdmissionTypes == Spec => []TypeOK
BY AdmissionInvariance, PTL DEF Inv

\* Every Job passes the security checks, is hardened and carries the labels of
\* the operator, with webhooks or without.
THEOREM JobsAlwaysConform == Spec => []JobsConform
BY AdmissionInvariance, PTL DEF Inv, JobInv

\* Every container of every Job whose pod can run finds the secret of the
\* certificate, the whole of it unless its own mount of the volume had a subPath.
THEOREM SecretAlwaysReachable == Spec => []SecretReachable
BY AdmissionInvariance, PTL DEF Inv, JobInv

\* injectCertificateSecret never makes an acceptable pod unacceptable.
THEOREM PodsStayValid == Spec => []PodStaysValid
BY AdmissionInvariance, PTL DEF Inv, JobInv

\* The loop of the controller over the templates accepts what the webhook's accepted.
THEOREM AdmittedAccepted == Spec => []AdmittedIsAccepted
<1>1. Inv => AdmittedIsAccepted
  <2> SUFFICES ASSUME Inv, stored # NoObject, validated, UniqueNames(stored)
               PROVE  /\ templatesValid(stored)
                      /\ stored.edges = {} => buildWorkflowGraph(workflowOf(stored))
    BY DEF AdmittedIsAccepted
  <2>1. validateCertificateJob(stored) /\ stored \in CertificateJobSpec
    BY DEF Inv, StoredInv, TypeOK
  <2>2. templatesValid(stored)
    BY <2>1 DEF validateCertificateJob, templatesValid
  <2>3. JobNames(stored) # {} /\ JobNames(stored) \subseteq Node
    <3>1. Len(stored.jobs) \in Nat /\ \A i \in Indices(stored) : stored.jobs[i] \in CertificateJobTemplate
      BY <2>1 DEF CertificateJobSpec, Indices
    <3>2. 1 \in Indices(stored)
      BY <2>1, <3>1 DEF validateCertificateJob, Indices
    <3>3. stored.jobs[1].name # NoName
      BY <2>1, <3>2 DEF validateCertificateJob
    <3> QED
      BY <3>1, <3>2, <3>3 DEF JobNames, CertificateJobTemplate
  <2>4. ASSUME stored.edges = {}
        PROVE  buildWorkflowGraph(workflowOf(stored))
    <3> DEFINE workflow == workflowOf(stored)
    <3>1. /\ workflow.jobs = JobNames(stored) /\ workflow.edges = {}
          /\ workflow.templatesValid = templatesValid(stored)
      BY <2>4 DEF workflowOf
    <3> HIDE DEF workflow
    <3>2. \A n \in Node : deps(workflow)[n] = {}
      BY <3>1 DEF deps
    <3>3. Acyclic(workflow.jobs, deps(workflow))
      BY <2>3, <3>1, <3>2 DEF Acyclic
    <3> QED
      BY <2>2, <2>3, <3>1, <3>3 DEF buildWorkflowGraph, workflow
  <2> QED
    BY <2>2, <2>4
<1> QED
  BY <1>1, AdmissionInvariance, PTL

\* An update that leaves a validated spec alone is never refused.
THEOREM NoOpUpdatesAccepted == Spec => []NoOpUpdateAccepted
<1>1. Inv => NoOpUpdateAccepted
  <2> SUFFICES ASSUME Inv, AtValidation, request.resubmitted, validated
               PROVE  SchemaValid(request.spec) /\ validateCertificateJob(request.spec)
    BY DEF NoOpUpdateAccepted
  <2>1. stored # NoObject /\ request.spec \in {stored, Default(stored)}
    BY DEF Inv, RequestInv, AtValidation
  <2>2. /\ stored \in CertificateJobSpec /\ Complete(stored) /\ SchemaValid(stored)
        /\ validateCertificateJob(stored)
    BY <2>1 DEF Inv, StoredInv, TypeOK
  <2>3. SchemaValid(Default(stored)) /\ validateCertificateJob(Default(stored))
    BY <2>2, DefaultStaysValid
  <2> QED
    BY <2>1, <2>2, <2>3
<1> QED
  BY <1>1, AdmissionInvariance, PTL

\* The mutating webhook never changes what Jobs are built.
THEOREM WebhookNeutral == Spec => []WebhookChangesNoJob
<1>1. Inv => WebhookChangesNoJob
  BY BuildNodeDefaulted DEF Inv, TypeOK, WebhookChangesNoJob
<1> QED
  BY <1>1, AdmissionInvariance, PTL

\* An update that leaves a completed spec alone does not change its hash.
THEOREM NoOpUpdates == Spec => NoOpUpdateKeepsSpec
<1>1. ASSUME Inv, [Next]_vars
      PROVE  [completed /\ request # NoRequest /\ request.resubmitted => UNCHANGED stored]_vars
  <2>1. ASSUME Store, completed, request # NoRequest, request.resubmitted
        PROVE  stored' = stored
    <3>1. stored # NoObject /\ request.spec \in {stored, Default(stored)}
      BY <1>1, <2>1 DEF Inv, RequestInv
    <3>2. stored = Default(stored)
      BY <1>1, <2>1, <3>1 DEF Inv, StoredInv
    <3> QED
      BY <2>1, <3>1, <3>2 DEF Store
  <2>2. CASE ~ Store
    BY <1>1, <2>2 DEF Next, vars, Submit, Resubmit, Send, MutatingWebhook, Reject, ScheduleNode,
                      ConfigureWebhooks
  <2> QED
    BY <2>1, <2>2
<1> QED
  BY <1>1, AdmissionInvariance, PTL DEF Spec, NoOpUpdateKeepsSpec
=============================================================================
