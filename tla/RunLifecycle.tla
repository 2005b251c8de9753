----------------------------- MODULE RunLifecycle -----------------------------
(***************************************************************************)
(* What the saved status promises of each certificate: at most one run at  *)
(* a time, a run keeps its input until it is finished, a new run starts    *)
(* only on another input, and from the beginning; a node that was started  *)
(* is never started again in the same run and a skipped one never starts;  *)
(* a finished run keeps its nodes as they are.  This is the reader's view  *)
(* of status.observedCertificates; README.md of the repository states it   *)
(* under "Workflow Semantics".                                             *)
(***************************************************************************)
CONSTANTS Cert, Node, Hash, NoHash

VARIABLE run   \* per certificate: the input hash, the phase and the node phases

Phase == {"Pending", "Running", "Succeeded", "Failed"}

Unfinished == {"Pending", "Running"}

Finished == {"Succeeded", "Failed"}

Started == {"Running", "Succeeded", "Failed"}

NodePhase == {"Absent", "Pending", "Skipped"} \cup Started

NoNodePhases == [n \in Node |-> "Absent"]

None == [hash |-> NoHash, phase |-> "Absent", nodes |-> NoNodePhases]

\* A run succeeds only when each of its nodes has succeeded or was skipped.
Run ==
    {r \in [hash : Hash \cup {NoHash}, phase : Phase, nodes : [Node -> NodePhase]] :
        r.phase = "Succeeded" => \A n \in Node : r.nodes[n] \in {"Absent", "Succeeded", "Skipped"}}
    \cup {None}

Init == run = [c \in Cert |-> None]

\* No input yet: the secret of the certificate cannot be read or it names none.
Await(old, new) ==
    /\ old.hash = NoHash /\ new.hash = NoHash
    /\ new.phase = "Failed" \/ (old.phase = "Absent" /\ new.phase = "Pending")
    /\ new.nodes = NoNodePhases

Start(old, new) ==
    /\ old.hash = NoHash \/ old.phase \in Finished
    /\ new.hash \in Hash \ {old.hash} /\ new.phase \in Unfinished
    /\ \A n \in Node : new.nodes[n] \in {"Absent", "Pending", "Running"}

\* A node of an active run.  A started node may even fail after it succeeded, when
\* its Job is deleted, but it is not started again.
NodeStep(old, new) ==
    \/ new = old
    \/ old \in {"Absent", "Pending"} /\ new \in {"Pending", "Running", "Skipped"}
    \/ old \in Started /\ new \in Started

Advance(old, new) ==
    /\ old.phase \in Unfinished /\ old.hash # NoHash
    /\ new.hash = old.hash /\ new.phase \in Phase
    /\ \A n \in Node : NodeStep(old.nodes[n], new.nodes[n])

\* A finished run is overwritten as Failed when its certificate loses its
\* secretName, and in no other way.
Invalidate(old, new) ==
    old.phase \in Finished /\ old.hash # NoHash /\ new = [old EXCEPT !.phase = "Failed"]

\* The certificate no longer matches, or the CertificateJob is deleted.
Forget(old, new) == new = None

Step(old, new) ==
    \/ new = old
    \/ Await(old, new) \/ Start(old, new)
    \/ Advance(old, new) \/ Invalidate(old, new) \/ Forget(old, new)

\* One status update may change the state of several certificates.
Next == run' \in [Cert -> Run] /\ \A c \in Cert : Step(run[c], run'[c])

Spec == Init /\ [][Next]_run
=============================================================================
