SPECIFICATION Spec
CONSTANTS
    Node = {1, 2}
    NoJob = NoJob
    Nil = Nil
    Key = {reserved, other}
    Reserved = {reserved}
    reserved = reserved
    other = other
    Container = {"init", "main"}
    SecretName = {"tls", "mine"}
    VolumeName = {"certificate-input", "data"}
    Path = {"/var/run/certificate-input", "/data", "/tls"}
    Capability = {"ALL", "NET_RAW"}
    NoName = NoName
    Manifests <- SmallManifests
    NoObject = NoObject
    NoRequest = NoRequest
INVARIANTS
    TypeOK
    AdmittedIsAccepted
    JobsConform
    SecretReachable
    PodStaysValid
    NoOpUpdateAccepted
    WebhookChangesNoJob
PROPERTY
    NoOpUpdateKeepsSpec
