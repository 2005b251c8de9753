---------------------------- MODULE WorkflowGraph ----------------------------
(***************************************************************************)
(* The graph loops of the controller: buildWorkflowGraph links the edges   *)
(* of the spec, validateAcyclic decides whether they have a cycle, and     *)
(* descendantNodes collects what a failure skips.  Workflow.tla defines    *)
(* the results as sets (Acyclic, descendantNodes); here they are computed  *)
(* as the code computes them, edge by edge, in the orders Go's maps allow. *)
(*                                                                         *)
(* The queues are sets: the order in which nodes leave them is left open,  *)
(* and a root that descendantNodes queues twice is looked at once more     *)
(* without effect.                                                         *)
(***************************************************************************)
EXTENDS Workflow

CONSTANT EdgeId   \* positions in spec.workflow.edges

ASSUME EdgeAssumption == EdgeId \subseteq Nat /\ IsFiniteSet(EdgeId)

VARIABLES
    jobNames,   \* names of spec.jobs
    edges,      \* the edge [from, to] at each position
    given,      \* positions in use; the same edge may be given twice
    pc,         \* the loop in progress, or the outcome
    todo,       \* edges the loop has not looked at yet
    indegree, queue, visited,   \* of validateAcyclic; queue also of descendantNodes
    passed,     \* history: the nodes counted by visited
    roots, seen \* of descendantNodes

graph == <<jobNames, edges, given>>
vars == <<graph, pc, todo, indegree, queue, visited, passed, roots, seen>>

Edge == [from : Node, to : Node]

Ends(e) == {edges[e].from, edges[e].to}

dependencies == [n \in Node |-> {edges[e].from : e \in {f \in given : edges[f].to = n}}]

dependents == [n \in Node |-> {edges[e].to : e \in {f \in given : edges[f].from = n}}]

\* What Workflow.tla sees of the input; the checks on the templates are passed.
workflow == [jobs |-> jobNames, edges |-> {<<edges[e].from, edges[e].to>> : e \in given},
             templatesValid |-> TRUE]

Init ==
    /\ jobNames \in (SUBSET Node) \ {{}}
    /\ given \in SUBSET EdgeId
    /\ edges \in [EdgeId -> Edge]
    /\ pc = "link" /\ todo = given
    /\ indegree = [n \in Node |-> 0] /\ queue = {} /\ visited = 0 /\ passed = {}
    /\ roots = {} /\ seen = {}

-----------------------------------------------------------------------------
(* buildWorkflowGraph: the edges in their order, up to the first bad one *)

Linkable(e) == Ends(e) \subseteq jobNames /\ edges[e].from # edges[e].to

First(e) == e \in todo /\ \A f \in todo : e <= f

LinkEdge(e) ==
    /\ pc = "link" /\ First(e) /\ Linkable(e)
    /\ todo' = todo \ {e}
    /\ UNCHANGED <<graph, pc, indegree, queue, visited, passed, roots, seen>>

RejectEdge(e) ==
    /\ pc = "link" /\ First(e) /\ ~ Linkable(e)
    /\ pc' = "rejected"
    /\ UNCHANGED <<graph, todo, indegree, queue, visited, passed, roots, seen>>

-----------------------------------------------------------------------------
(* validateAcyclic *)

StartCount ==
    /\ pc = "link" /\ todo = {}
    /\ pc' = "count" /\ todo' = given
    /\ UNCHANGED <<graph, indegree, queue, visited, passed, roots, seen>>

\* Defect: an edge given twice is counted once.
CountEdge_once(e) ==
    /\ pc = "count" /\ e \in todo
    /\ indegree' = [indegree EXCEPT ![edges[e].to] = 1]
    /\ todo' = todo \ {e}
    /\ UNCHANGED <<graph, pc, queue, visited, passed, roots, seen>>

CountEdge(e) ==
    /\ pc = "count" /\ e \in todo
    /\ indegree' = [indegree EXCEPT ![edges[e].to] = @ + 1]
    /\ todo' = todo \ {e}
    /\ UNCHANGED <<graph, pc, queue, visited, passed, roots, seen>>

Seed ==
    /\ pc = "count" /\ todo = {}
    /\ pc' = "visit"
    /\ queue' = {n \in jobNames : indegree[n] = 0}
    /\ UNCHANGED <<graph, todo, indegree, visited, passed, roots, seen>>

Visit(n) ==
    /\ pc = "visit" /\ todo = {} /\ n \in queue
    /\ queue' = queue \ {n}
    /\ visited' = visited + 1 /\ passed' = passed \cup {n}
    /\ todo' = {e \in given : edges[e].from = n}
    /\ UNCHANGED <<graph, pc, indegree, roots, seen>>

\* Defect: a node is queued as soon as one of its dependencies is visited.
RelaxEdge_anyDependency(e) ==
    /\ pc = "visit" /\ e \in todo
    /\ indegree' = [indegree EXCEPT ![edges[e].to] = @ - 1]
    /\ queue' = queue \cup {edges[e].to}
    /\ todo' = todo \ {e}
    /\ UNCHANGED <<graph, pc, visited, passed, roots, seen>>

RelaxEdge(e) ==
    LET next == edges[e].to IN
    /\ pc = "visit" /\ e \in todo
    /\ indegree' = [indegree EXCEPT ![next] = @ - 1]
    /\ queue' = IF indegree[next] = 1 THEN queue \cup {next} ELSE queue
    /\ todo' = todo \ {e}
    /\ UNCHANGED <<graph, pc, visited, passed, roots, seen>>

Verdict ==
    /\ pc = "visit" /\ todo = {} /\ queue = {}
    /\ pc' = IF visited = Cardinality(jobNames) THEN "acyclic" ELSE "cycle"
    /\ UNCHANGED <<graph, todo, indegree, queue, visited, passed, roots, seen>>

-----------------------------------------------------------------------------
(* descendantNodes, on a valid graph and the nodes found failed *)

\* A failed node may be one that the spec no longer has.
StartDescend(failed) ==
    /\ pc = "acyclic"
    /\ pc' = "descend" /\ roots' = failed /\ queue' = failed /\ seen' = {}
    /\ UNCHANGED <<graph, todo, indegree, visited, passed>>

\* Defect: children of the roots only.
Descend_oneLevel(n) ==
    /\ pc = "descend" /\ n \in queue
    /\ seen' = seen \cup dependents[n]
    /\ queue' = queue \ {n}
    /\ UNCHANGED <<graph, pc, todo, indegree, visited, passed, roots>>

\* Defect: a node is not taken off the queue.
Descend_noPop(n) ==
    /\ pc = "descend" /\ n \in queue
    /\ seen' = seen \cup dependents[n]
    /\ queue' = queue \cup (dependents[n] \ seen)
    /\ UNCHANGED <<graph, pc, todo, indegree, visited, passed, roots>>

\* Defect: a node seen before is queued again.
Descend_requeue(n) ==
    /\ pc = "descend" /\ n \in queue
    /\ seen' = seen \cup dependents[n]
    /\ queue' = (queue \ {n}) \cup dependents[n]
    /\ UNCHANGED <<graph, pc, todo, indegree, visited, passed, roots>>

Descend(n) ==
    /\ pc = "descend" /\ n \in queue
    /\ seen' = seen \cup dependents[n]
    /\ queue' = (queue \ {n}) \cup (dependents[n] \ seen)
    /\ UNCHANGED <<graph, pc, todo, indegree, visited, passed, roots>>

Descended ==
    /\ pc = "descend" /\ queue = {}
    /\ pc' = "descended"
    /\ UNCHANGED <<graph, todo, indegree, queue, visited, passed, roots, seen>>

Next ==
    \/ \E e \in EdgeId : LinkEdge(e) \/ RejectEdge(e) \/ CountEdge(e) \/ RelaxEdge(e)
    \/ \E n \in Node : Visit(n) \/ Descend(n)
    \/ StartCount \/ Seed \/ Verdict \/ Descended
    \/ \E failed \in (SUBSET Node) \ {{}} : StartDescend(failed)

Spec == Init /\ [][Next]_vars /\ WF_vars(Next)

-----------------------------------------------------------------------------
(* Properties *)

\* Type invariant.
TypeOK ==
    /\ jobNames \subseteq Node /\ edges \in [EdgeId -> Edge] /\ given \subseteq EdgeId
    /\ pc \in {"link", "rejected", "count", "visit", "acyclic", "cycle", "descend", "descended"}
    /\ todo \subseteq given
    /\ indegree \in [Node -> Nat] /\ visited \in Nat
    /\ queue \subseteq Node /\ passed \subseteq Node
    /\ roots \subseteq Node /\ seen \subseteq Node

\* The loops of buildWorkflowGraph and validateAcyclic accept a workflow exactly
\* when buildWorkflowGraph of Workflow.tla holds of it, whatever the order of the
\* maps they range over and however often an edge is given.
VerdictCorrect ==
    /\ pc \in {"acyclic", "descend", "descended"} => buildWorkflowGraph(workflow)
    /\ pc \in {"rejected", "cycle"} => ~ buildWorkflowGraph(workflow)

\* The loop of descendantNodes returns exactly the nodes that descendantNodes of
\* Workflow.tla holds: those reachable from the failed ones, and a failed node
\* itself only if an edge leads back to it.
DescendantsCorrect ==
    pc = "descended" => seen = descendantNodes(reverseDeps(workflow), roots)

Outcome == pc \in {"rejected", "cycle", "descended"}

\* The three loops end on every graph, cyclic ones included.
LoopsEnd == <>Outcome

LoopOrder == {<<"link", "rejected">>, <<"link", "count">>, <<"count", "visit">>,
              <<"visit", "acyclic">>, <<"visit", "cycle">>,
              <<"acyclic", "descend">>, <<"descend", "descended">>}

\* What a loop still has to look at: the edges not linked, counted or relaxed yet,
\* the nodes not visited or seen yet, and those queued.
Remaining ==
    CASE pc \in {"link", "count"} -> Cardinality(todo)
      [] pc = "visit" -> Cardinality({e \in given : edges[e].from \notin passed \/ e \in todo})
                         + Cardinality(jobNames \ passed)
      [] pc = "descend" -> Cardinality(queue) + Cardinality(Node \ seen)
      [] OTHER -> 0

\* Every iteration leaves its loop less to do, or the next loop begins: no node is
\* queued again once it was visited or seen, so no graph keeps a loop busy for ever.
LoopsProgress ==
    [][IF pc' = pc THEN Remaining' \in 0 .. (Remaining - 1) ELSE <<pc, pc'>> \in LoopOrder]_vars
=============================================================================
