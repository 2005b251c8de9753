------------------------------ MODULE MCAdmission ------------------------------
(***************************************************************************)
(* Admission with templates that differ from a plain one in one aspect.    *)
(***************************************************************************)
EXTENDS Admission

CONSTANTS reserved, other   \* label keys

Plain ==
    [elevated |-> FALSE, allowPrivilegeEscalation |-> Nil, runAsNonRoot |-> Nil,
     seccomp |-> Nil, drop |-> <<>>, mounts |-> <<>>]

PlainJob ==
    [ttl |-> Nil, podLabels |-> [k \in Key |-> "none"], hostAccess |-> FALSE,
     automount |-> Nil, serviceLinks |-> Nil, root |-> FALSE, runAsNonRoot |-> Nil,
     seccomp |-> Nil, volumes |-> <<>>, containers |-> [c \in Container |-> Plain]]

\* The containers of a template, each as in plain but for one.
Containers ==
    {[Plain EXCEPT !.elevated = TRUE], [Plain EXCEPT !.seccomp = "Other"]}
    \cup {[Plain EXCEPT !.allowPrivilegeEscalation = b] : b \in {"true", "false"}}
    \cup {[Plain EXCEPT !.runAsNonRoot = b] : b \in {"true", "false"}}
    \cup {[Plain EXCEPT !.drop = d] : d \in {<<"ALL">>, <<"NET_RAW">>, <<"ALL", "NET_RAW">>}}

Data == [name |-> "data", secret |-> Nil, other |-> TRUE]

MountAt(volume, path) ==
    [volume |-> volume, path |-> path, readOnly |-> FALSE, subPath |-> FALSE]

\* The last two clash with the operator's own mount.
Mounts ==
    {<<MountAt("data", "/data")>>,
     <<MountAt("data", "/data"), MountAt(secretVolumeName, "/tls")>>,
     <<[MountAt(secretVolumeName, "/tls") EXCEPT !.subPath = TRUE]>>,
     <<MountAt("data", secretMountPath)>>,
     <<MountAt(secretVolumeName, "/tls"), MountAt(secretVolumeName, secretMountPath)>>}

Templates ==
    {PlainJob, [PlainJob EXCEPT !.ttl = 60], [PlainJob EXCEPT !.hostAccess = TRUE],
     [PlainJob EXCEPT !.root = TRUE], [PlainJob EXCEPT !.seccomp = "Other"]}
    \cup {[PlainJob EXCEPT !.automount = b] : b \in {"true", "false"}}
    \cup {[PlainJob EXCEPT !.serviceLinks = b] : b \in {"true", "false"}}
    \cup {[PlainJob EXCEPT !.runAsNonRoot = b] : b \in {"true", "false"}}
    \cup {[PlainJob EXCEPT !.podLabels[k] = "user"] : k \in Key}
    \cup {[PlainJob EXCEPT !.containers[c] = container] : c \in Container, container \in Containers}
    \cup {[PlainJob EXCEPT !.volumes = <<Data>> \o v] :
             v \in {<<>>, <<SecretVolume("mine")>>, <<[SecretVolume(Nil) EXCEPT !.other = TRUE]>>}}
    \cup {[PlainJob EXCEPT !.volumes = <<Data, SecretVolume("mine")>>,
                           !.containers[c] = [Plain EXCEPT !.mounts = m]] :
             c \in Container, m \in Mounts}

Unlabelled == [k \in Key |-> "none"]

Job(name, template) == [name |-> name, labels |-> Unlabelled, template |-> template]

Spec1(template) ==
    [jobs |-> <<Job(1, template)>>, edges |-> {}, parallelism |-> Nil, ttl |-> Nil,
     failurePolicy |-> Nil]

Spec2 == [Spec1(PlainJob) EXCEPT !.jobs = <<Job(1, PlainJob), Job(2, [PlainJob EXCEPT !.ttl = 60])>>]

\* One job of each template; and for the other fields, one job or two.
SmallManifests ==
    {Spec1(template) : template \in Templates}
    \cup {[Spec1(PlainJob) EXCEPT !.ttl = ttl] : ttl \in {59, 60}}
    \cup {[Spec1(PlainJob) EXCEPT !.jobs = <<>>], [Spec1(PlainJob) EXCEPT !.jobs[1].name = NoName],
          [Spec1(PlainJob) EXCEPT !.failurePolicy = "BestEffort"]}
    \cup {[Spec1(PlainJob) EXCEPT !.jobs[1].labels[k] = "user"] : k \in Key}
    \cup {[Spec1(PlainJob) EXCEPT !.parallelism = p] : p \in {0, 2}}
    \cup {[Spec2 EXCEPT !.edges = e] : e \in {{}, {<<1, 2>>}, {<<1, 2>>, <<2, 1>>}, {<<2, 2>>}}}
    \cup {[Spec2 EXCEPT !.jobs[2].name = 1]}
=============================================================================
