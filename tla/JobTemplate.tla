------------------------------ MODULE JobTemplate ------------------------------
(***************************************************************************)
(* Job templates: the checks and defaults of internal/jobsecurity, and the *)
(* Job that scheduleRunnableNodes builds from a template.                  *)
(*                                                                         *)
(* A nil pointer is Nil.  A nil security context or capability list is one *)
(* whose fields are all nil: the code treats them alike.  hostAccess and   *)
(* elevated stand for the settings that are refused and never defaulted    *)
(* (hostNetwork, hostPID, hostIPC, serviceAccountName, hostPath volumes,   *)
(* projected tokens; privileged, added capabilities, runAsUser 0).         *)
(* Container holds the names of init containers and containers: every loop *)
(* over the ones is repeated over the others.  A label key has the value   *)
(* of the operator, one of the user, or none.  Annotations are left out.   *)
(***************************************************************************)
EXTENDS Integers, Sequences

CONSTANTS
    Nil,         \* the nil pointer
    Key,         \* label keys
    Reserved,    \* reservedOperatorLabels
    Container,   \* init containers and containers of a pod
    SecretName,  \* names of secrets
    VolumeName, Path, Capability

ASSUME NilAssumption == Nil \notin Nat \cup {"true", "false", "RuntimeDefault", "Other"}

ASSUME ReservedAssumption == Reserved \subseteq Key

ASSUME SecretAssumption == Nil \notin SecretName

Bool == {"true", "false", Nil}

Labels == [Key -> {"operator", "user", "none"}]

SeccompProfile == {"RuntimeDefault", "Other", Nil}

secretVolumeName == "certificate-input"

secretMountPath == "/var/run/certificate-input"

ASSUME NamesAssumption ==
    "ALL" \in Capability /\ secretVolumeName \in VolumeName /\ secretMountPath \in Path

\* A volume names a secret, or has another source.
Volume == [name : VolumeName, secret : SecretName \cup {Nil}, other : BOOLEAN]

\* subPath: the mount shows one file or directory of the volume (SubPath, SubPathExpr).
VolumeMount == [volume : VolumeName, path : Path, readOnly : BOOLEAN, subPath : BOOLEAN]

ContainerSpec ==
    [elevated : BOOLEAN, allowPrivilegeEscalation : Bool, runAsNonRoot : Bool,
     seccomp : SeccompProfile, drop : Seq(Capability), mounts : Seq(VolumeMount)]

JobSpec ==
    [ttl : Nat \cup {Nil}, podLabels : Labels, hostAccess : BOOLEAN,
     automount : Bool, serviceLinks : Bool,
     root : BOOLEAN, runAsNonRoot : Bool, seccomp : SeccompProfile,
     volumes : Seq(Volume), containers : [Container -> ContainerSpec]]

-----------------------------------------------------------------------------
(* internal/jobsecurity *)

ValidateReservedLabels(labels) == \A k \in Reserved : labels[k] = "none"

ContainerAllowed(container) ==
    /\ ~ container.elevated
    /\ container.allowPrivilegeEscalation # "true"
    /\ container.runAsNonRoot # "false"

ValidateJobTemplateSecurity(spec) ==
    /\ ~ spec.hostAccess
    /\ spec.automount # "true"
    /\ ~ spec.root /\ spec.runAsNonRoot # "false"
    /\ \A c \in Container : ContainerAllowed(spec.containers[c])

OrDefault(pointer, default) == IF pointer = Nil THEN default ELSE pointer

ContainsCapability(drop) == \E i \in 1 .. Len(drop) : drop[i] = "ALL"

\* Defect: ALL is added to every list.
applyContainerSecurityDefaults_append(container) ==
    [container EXCEPT !.allowPrivilegeEscalation = OrDefault(@, "false"),
                      !.seccomp = OrDefault(@, "RuntimeDefault"),
                      !.runAsNonRoot = OrDefault(@, "true"),
                      !.drop = Append(@, "ALL")]

applyContainerSecurityDefaults(container) ==
    [container EXCEPT !.allowPrivilegeEscalation = OrDefault(@, "false"),
                      !.seccomp = OrDefault(@, "RuntimeDefault"),
                      !.runAsNonRoot = OrDefault(@, "true"),
                      !.drop = IF ContainsCapability(@) THEN @ ELSE Append(@, "ALL")]

\* Defect: the profile is created but its type is not set.
ApplyJobSecurityDefaults_noType(spec, defaultTTL) ==
    [spec EXCEPT !.ttl = OrDefault(@, defaultTTL),
                 !.automount = "false", !.serviceLinks = OrDefault(@, "false"),
                 !.seccomp = OrDefault(@, ""),
                 !.runAsNonRoot = OrDefault(@, "true"),
                 !.containers = [c \in Container |-> applyContainerSecurityDefaults(@[c])]]

ApplyJobSecurityDefaults(spec, defaultTTL) ==
    [spec EXCEPT !.ttl = OrDefault(@, defaultTTL),
                 !.automount = "false", !.serviceLinks = OrDefault(@, "false"),
                 !.seccomp = OrDefault(@, "RuntimeDefault"),
                 !.runAsNonRoot = OrDefault(@, "true"),
                 !.containers = [c \in Container |-> applyContainerSecurityDefaults(@[c])]]

-----------------------------------------------------------------------------
(* The Job of a node *)

mergeMapsWithBasePrecedence(base, extras) ==
    [k \in Key |-> IF base[k] # "none" THEN base[k] ELSE extras[k]]

baseLabels == [k \in Key |-> IF k \in Reserved THEN "operator" ELSE "none"]

\* The first entry of the right name is changed, or one is added.
First(S) == CHOOSE i \in S : \A j \in S : i <= j

SecretVolume(secret) == [name |-> secretVolumeName, secret |-> secret, other |-> FALSE]

SecretVolumes(volumes) == {i \in 1 .. Len(volumes) : volumes[i].name = secretVolumeName}

\* Defect: the volume is added even when the template has it.
injectVolume_append(volumes, secret) == Append(volumes, SecretVolume(secret))

injectVolume(volumes, secret) ==
    IF SecretVolumes(volumes) = {} THEN Append(volumes, SecretVolume(secret))
    ELSE [volumes EXCEPT ![First(SecretVolumes(volumes))].secret = secret]

SecretMount ==
    [volume |-> secretVolumeName, path |-> secretMountPath, readOnly |-> TRUE, subPath |-> FALSE]

SecretMounts(mounts) == {i \in 1 .. Len(mounts) : mounts[i].volume = secretVolumeName}

\* Defect: a mount the template has is left as it is.
ensureVolumeMount_keep(mounts) ==
    IF SecretMounts(mounts) = {} THEN Append(mounts, SecretMount) ELSE mounts

ensureVolumeMount(mounts) ==
    IF SecretMounts(mounts) = {} THEN Append(mounts, SecretMount)
    ELSE LET i == First(SecretMounts(mounts)) IN
         [mounts EXCEPT ![i].path = secretMountPath, ![i].readOnly = TRUE]

MountSecret(container) == [container EXCEPT !.mounts = ensureVolumeMount(@)]

\* Nil stands for an empty secretName.
injectCertificateSecret(spec, secret) ==
    IF secret = Nil THEN spec
    ELSE [spec EXCEPT !.volumes = injectVolume(@, secret),
                      !.containers = [c \in Container |-> MountSecret(spec.containers[c])]]

\* The Job of a template for a certificate that names the secret.
BuildJob(template, defaultTTL, secret) ==
    LET labelled == [template.template EXCEPT
                         !.podLabels = mergeMapsWithBasePrecedence(baseLabels, @)]
    IN  [labels |-> mergeMapsWithBasePrecedence(baseLabels, template.labels),
         spec |-> injectCertificateSecret(ApplyJobSecurityDefaults(labelled, defaultTTL), secret)]
=============================================================================
