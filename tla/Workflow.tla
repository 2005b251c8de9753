------------------------------- MODULE Workflow -------------------------------
(***************************************************************************)
(* The workflow of one CertificateJob, as the pure functions of            *)
(* internal/controller/certificatejob_controller.go compute it: the graph  *)
(* of job templates, the per-node states of one run, which nodes may run,  *)
(* what a failure skips, and the phase derived for the run.                *)
(*                                                                         *)
(* A node name is its rank in the order of sort.Strings, so Node is a set  *)
(* of naturals.  The slice state.Nodes is a function on all of Node in     *)
(* which "Absent" marks a name that has no entry; JobName = "" is NoJob.   *)
(* Messages and timestamps are left out.                                   *)
(***************************************************************************)
EXTENDS Integers, FiniteSets

CONSTANTS
    Node,   \* names a job template may have
    NoJob   \* WorkflowNodeState.JobName = ""

ASSUME NodeAssumption == Node \subseteq Nat /\ IsFiniteSet(Node)

FailurePolicy == {"StopDownstream", "ContinueIndependent", "BestEffort"}

ExecutionPhase == {"Pending", "Running", "Succeeded", "Failed", "Skipped"}

(***************************************************************************)
(* CertificateJobSpec: the names of spec.jobs, spec.workflow.edges,        *)
(* spec.parallelism (0 stands for nil), spec.failurePolicy, and the labels *)
(* its certificateSelector selects.  templatesValid is the verdict of the  *)
(* name, label and security checks on the templates, selectorValid that of *)
(* LabelSelectorAsSelector.                                                *)
(***************************************************************************)
WorkflowSpec(Label) ==
    [jobs : SUBSET Node, edges : SUBSET (Node \X Node), parallelism : Nat,
     failurePolicy : FailurePolicy, selector : SUBSET Label,
     templatesValid : BOOLEAN, selectorValid : BOOLEAN]

-----------------------------------------------------------------------------
(* The graph *)

deps(spec) == [n \in Node |-> {m \in Node : <<m, n>> \in spec.edges}]

reverseDeps(spec) == [n \in Node |-> {m \in Node : <<n, m>> \in spec.edges}]

\* A graph has a cycle exactly when some non-empty set of nodes has, for each
\* of its members, a dependency inside the set.  WorkflowGraph.tla shows that
\* the loops of validateAcyclic decide this.
Acyclic(nodes, dep) ==
    ~ \E S \in SUBSET nodes : S # {} /\ \A n \in S : dep[n] \cap S # {}

\* Defect: the edges are linked and not checked for a cycle.
buildWorkflowGraph_noCycleCheck(spec) ==
    /\ spec.jobs # {}
    /\ spec.templatesValid
    /\ \A e \in spec.edges : {e[1], e[2]} \subseteq spec.jobs /\ e[1] # e[2]

\* buildWorkflowGraph returns no error.
buildWorkflowGraph(spec) ==
    /\ spec.jobs # {}
    /\ spec.templatesValid
    /\ \A e \in spec.edges : {e[1], e[2]} \subseteq spec.jobs /\ e[1] # e[2]
    /\ Acyclic(spec.jobs, deps(spec))

\* The nodes reachable from the roots by at least one edge: the least set that
\* holds the children of the roots and of its own members.
ClosedUnder(reverse, roots, S) == \A m \in roots \cup S : reverse[m] \subseteq S

descendantNodes(reverse, roots) ==
    {n \in Node : \A S \in SUBSET Node : ClosedUnder(reverse, roots, S) => n \in S}

requestedParallelism(spec) == IF spec.parallelism < 1 THEN 1 ELSE spec.parallelism

-----------------------------------------------------------------------------
(* Node states *)

WorkflowNodeState(Job) ==
    [phase : ExecutionPhase \cup {"Absent"}, job : Job \cup {NoJob}]

NoNodes == [n \in Node |-> [phase |-> "Absent", job |-> NoJob]]

\* Defect: the phase of a new node is not set.
PendingNode_noPhase == [phase |-> "", job |-> NoJob]

PendingNode == [phase |-> "Pending", job |-> NoJob]

isTerminalPhase(phase) == phase \in {"Succeeded", "Failed", "Skipped"}

NodesIn(nodes, phases) == {n \in Node : nodes[n].phase \in phases}

initializeNodeStates(spec) ==
    [n \in Node |-> IF n \in spec.jobs THEN PendingNode ELSE NoNodes[n]]

ensureWorkflowNodeStates(spec, nodes) ==
    [n \in Node |-> IF n \in spec.jobs /\ nodes[n].phase = "Absent"
                    THEN PendingNode ELSE nodes[n]]

\* Defect: a dependency counts as satisfied once it was started.
runnableNodes_anyStarted(policy, nodes, dep) ==
    {n \in NodesIn(nodes, {"Pending"}) :
        \A d \in dep[n] : nodes[d].phase # "Pending"}

runnableNodes(policy, nodes, dep) ==
    {n \in NodesIn(nodes, {"Pending"}) :
        \A d \in dep[n] : \/ nodes[d].phase \in {"Succeeded", "Skipped"}
                          \/ nodes[d].phase = "Failed" /\ policy = "BestEffort"}

\* Defect: ContinueIndependent skips like StopDownstream.
applyFailurePolicy_skipAll(policy, nodes, reverse, failed) ==
    [n \in Node |-> IF failed # {} /\ policy # "BestEffort" /\ nodes[n].phase = "Pending"
                    THEN [nodes[n] EXCEPT !.phase = "Skipped"] ELSE nodes[n]]

applyFailurePolicy(policy, nodes, reverse, failed) ==
    LET toSkip == CASE failed = {} \/ policy = "BestEffort" -> {}
                    [] failed # {} /\ policy = "ContinueIndependent" ->
                            descendantNodes(reverse, failed)
                    [] OTHER -> Node
    IN  [n \in Node |-> IF n \in toSkip /\ nodes[n].phase = "Pending"
                        THEN [nodes[n] EXCEPT !.phase = "Skipped"] ELSE nodes[n]]

deriveWorkflowPhase(nodes) ==
    IF NodesIn(nodes, {"Failed"}) # {}  THEN "Failed"
    ELSE IF NodesIn(nodes, {"Running"}) # {} THEN "Running"
    ELSE IF NodesIn(nodes, {"Pending"}) # {} THEN "Pending"
    ELSE "Succeeded"
=============================================================================
