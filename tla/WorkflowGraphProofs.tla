------------------------- MODULE WorkflowGraphProofs -------------------------
(***************************************************************************)
(* validateAcyclic and descendantNodes compute what Workflow.tla says they *)
(* return, for every finite set of nodes and every list of edges.          *)
(***************************************************************************)
EXTENDS WorkflowGraph, FiniteSetTheorems, TLAPS

\* Edges into n that the loop has not taken off its indegree yet.
Waiting(n) == {e \in given : edges[e].to = n /\ ~ (edges[e].from \in passed /\ e \notin todo)}

Counted(n) == {e \in given \ todo : edges[e].to = n}

\* Each member depends on a member: the nodes of a cycle.
Knot(S) == \A n \in S : dependencies[n] \cap S # {}

LinkInv ==
    /\ pc \in {"link", "count"} => passed = {} /\ visited = 0
    /\ pc = "link" => /\ \A n \in Node : indegree[n] = 0
                      /\ \A e \in given \ todo : Linkable(e)
    /\ pc \in {"count", "visit"} => \A e \in given : Linkable(e)
    /\ pc = "count" => \A n \in Node : indegree[n] = Cardinality(Counted(n))

VisitInv ==
    pc = "visit" =>
        /\ passed \subseteq jobNames /\ visited = Cardinality(passed)
        /\ \A e \in todo : edges[e].from \in passed
        /\ queue \cap passed = {}
        /\ queue \cup passed = {n \in jobNames : indegree[n] = 0}
        /\ \A n \in Node : indegree[n] = Cardinality(Waiting(n))
        /\ \A S \in SUBSET jobNames : Knot(S) => S \cap (queue \cup passed) = {}

VerdictInv ==
    /\ jobNames # {}
    /\ pc \in {"acyclic", "descend", "descended"} =>
           Acyclic(jobNames, dependencies) /\ \A e \in given : Linkable(e)
    /\ pc = "cycle" => ~ Acyclic(jobNames, dependencies)
    /\ pc = "rejected" => \E e \in given : ~ Linkable(e)

DescendInv ==
    pc \in {"descend", "descended"} =>
        /\ \A S \in SUBSET Node : ClosedUnder(dependents, roots, S) => seen \subseteq S
        /\ queue \subseteq roots \cup seen
        /\ \A m \in (roots \cup seen) \ queue : dependents[m] \subseteq seen
        /\ pc = "descended" => queue = {}

\* The inductive invariant: indegree counts the edges not taken off yet, the
\* nodes at indegree 0 are those queued or visited, and no node of a cycle ever
\* is; what descendantNodes has seen is reachable, and closed but for its queue.
Inv == TypeOK /\ LinkInv /\ VisitInv /\ VerdictInv /\ DescendInv

-----------------------------------------------------------------------------

\* Every step that leaves the graph alone leaves its derived relations alone.
LEMMA GraphUnchanged ==
    ASSUME UNCHANGED graph
    PROVE  /\ dependencies' = dependencies /\ dependents' = dependents
           /\ \A e : Linkable(e)' <=> Linkable(e)
           /\ \A S : Knot(S)' <=> Knot(S)
           /\ Acyclic(jobNames, dependencies)' <=> Acyclic(jobNames, dependencies)
BY DEF graph, dependencies, dependents, Linkable, Ends, Knot, Acyclic

\* A set of edges that are given is finite, and empty exactly at cardinality 0.
LEMMA EdgeSets ==
    ASSUME TypeOK, NEW E, E \subseteq given
    PROVE  /\ IsFiniteSet(E) /\ Cardinality(E) \in Nat /\ (Cardinality(E) = 0 <=> E = {})
           /\ \A e \in E : Cardinality(E \ {e}) = Cardinality(E) - 1
           /\ \A e : e \notin E => Cardinality(E \cup {e}) = Cardinality(E) + 1
<1>1. E \subseteq EdgeId
  BY DEF TypeOK
<1>2. IsFiniteSet(E)
  BY <1>1, EdgeAssumption, FS_Subset
<1> QED
  BY <1>2, FS_CardinalityType, FS_EmptySet, FS_RemoveElement, FS_AddElement

LEMMA InitInv == Init => Inv
<1> SUFFICES ASSUME Init PROVE Inv
  OBVIOUS
<1>1. TypeOK
  BY DEF Init, TypeOK
<1> QED
  BY <1>1 DEF Init, Inv, LinkInv, VisitInv, VerdictInv, DescendInv, TypeOK

-----------------------------------------------------------------------------
(* One lemma per loop *)

LEMMA LinkSteps ==
    ASSUME Inv, NEW e, LinkEdge(e) \/ RejectEdge(e) \/ StartCount
    PROVE  Inv'
<1> USE DEF Inv
<1>1. UNCHANGED graph
  BY DEF LinkEdge, RejectEdge, StartCount
<1>2. TypeOK'
  BY DEF TypeOK, LinkEdge, RejectEdge, StartCount, graph
<1>3. LinkInv'
  <2>1. CASE LinkEdge(e)
    BY <2>1, <1>1, GraphUnchanged DEF LinkInv, LinkEdge, graph, TypeOK, First
  <2>2. CASE RejectEdge(e)
    BY <2>2 DEF LinkInv, RejectEdge
  <2>3. CASE StartCount
    <3>1. \A n \in Node : Counted(n)' = {}
      BY <2>3 DEF StartCount, Counted, graph
    <3>2. \A n \in Node : indegree'[n] = Cardinality(Counted(n))'
      BY <2>3, <3>1, FS_EmptySet DEF StartCount, LinkInv
    <3>3. \A f \in given' : Linkable(f)'
      BY <2>3, <1>1, GraphUnchanged DEF StartCount, LinkInv, graph
    <3> QED
      BY <2>3, <3>2, <3>3 DEF StartCount, LinkInv
  <2> QED
    BY <2>1, <2>2, <2>3
<1>4. VisitInv' /\ DescendInv'
  BY DEF LinkEdge, RejectEdge, StartCount, VisitInv, DescendInv
<1>5. VerdictInv'
  <2>1. CASE RejectEdge(e)
    <3>1. e \in given' /\ ~ Linkable(e)'
      BY <2>1, <1>1, GraphUnchanged DEF RejectEdge, First, TypeOK, graph
    <3> QED
      BY <2>1, <3>1, <1>1 DEF RejectEdge, VerdictInv, graph
  <2> QED
    BY <2>1, <1>1 DEF LinkEdge, StartCount, VerdictInv, graph
<1> QED
  BY <1>2, <1>3, <1>4, <1>5

LEMMA CountStep ==
    ASSUME Inv, NEW e \in EdgeId, CountEdge(e)
    PROVE  Inv'
<1> USE DEF Inv
<1> DEFINE next == edges[e].to
<1>0. UNCHANGED graph /\ pc = "count" /\ pc' = "count" /\ e \in given /\ next \in Node
  BY DEF CountEdge, TypeOK, Edge
<1>1. TypeOK'
  BY <1>0 DEF CountEdge, TypeOK, graph
<1>2. \A n \in Node : indegree'[n] = Cardinality(Counted(n))'
  <2> SUFFICES ASSUME NEW n \in Node PROVE indegree'[n] = Cardinality(Counted(n)')
    OBVIOUS
  <2>0. indegree[n] = Cardinality(Counted(n)) /\ Counted(n) \subseteq given
    BY <1>0 DEF LinkInv, Counted
  <2>1. CASE n = next
    <3>1. Counted(n)' = Counted(n) \cup {e} /\ e \notin Counted(n)
      BY <2>1, <1>0 DEF Counted, CountEdge, graph
    <3>2. Cardinality(Counted(n) \cup {e}) = Cardinality(Counted(n)) + 1
      BY <2>0, <3>1, EdgeSets
    <3> QED
      BY <2>0, <2>1, <3>1, <3>2 DEF CountEdge, TypeOK
  <2>2. CASE n # next
    <3>1. Counted(n)' = Counted(n)
      BY <2>2, <1>0 DEF Counted, CountEdge, graph
    <3> QED
      BY <2>0, <2>2, <3>1 DEF CountEdge, TypeOK
  <2> QED
    BY <2>1, <2>2
<1>3. LinkInv'
  BY <1>0, <1>2, GraphUnchanged DEF LinkInv, CountEdge, graph
<1>4. VisitInv' /\ VerdictInv' /\ DescendInv'
  BY <1>0 DEF VisitInv, VerdictInv, DescendInv, graph
<1> QED
  BY <1>1, <1>3, <1>4

\* A node that is queued has all its dependencies visited, so no cycle holds it.
LEMMA ReadyNotInKnot ==
    ASSUME TypeOK, NEW n \in Node, Waiting(n) = {}, NEW S \in SUBSET jobNames, Knot(S),
           S \cap passed = {}
    PROVE  n \notin S
<1> SUFFICES ASSUME n \in S PROVE FALSE
  OBVIOUS
<1>1. PICK d \in dependencies[n] : d \in S
  BY DEF Knot
<1>2. PICK e \in given : edges[e].to = n /\ edges[e].from = d
  BY <1>1 DEF dependencies
<1>3. e \in Waiting(n)
  BY <1>1, <1>2 DEF Waiting
<1> QED
  BY <1>3

LEMMA SeedStep ==
    ASSUME Inv, Seed
    PROVE  Inv'
<1> USE DEF Inv
<1>0. UNCHANGED <<graph, todo, indegree, visited, passed>> /\ pc = "count" /\ pc' = "visit" /\ todo = {}
  BY DEF Seed
<1>1. TypeOK'
  BY <1>0 DEF Seed, TypeOK, graph
<1>2. LinkInv' /\ VerdictInv' /\ DescendInv'
  BY <1>0, GraphUnchanged DEF LinkInv, VerdictInv, DescendInv, graph
<1>3. passed = {} /\ visited = 0
  BY <1>0 DEF LinkInv
<1>4. \A n \in Node : Waiting(n) = Counted(n) /\ Waiting(n)' = Waiting(n)
  BY <1>0, <1>3 DEF Waiting, Counted, graph
<1>5. \A n \in Node : indegree[n] = Cardinality(Waiting(n)) /\ Waiting(n) \subseteq given
  BY <1>0, <1>4 DEF LinkInv, Waiting
<1>6. \A S \in SUBSET jobNames : Knot(S) => S \cap queue' = {}
  <2> SUFFICES ASSUME NEW S \in SUBSET jobNames, Knot(S), NEW n \in queue' PROVE n \notin S
    OBVIOUS
  <2>1. n \in Node /\ indegree[n] = 0
    BY DEF Seed, TypeOK
  <2>2. Waiting(n) = {}
    BY <2>1, <1>5, EdgeSets
  <2> QED
    BY <2>1, <2>2, <1>3, ReadyNotInKnot
<1>7. VisitInv'
  <2>1. visited' = Cardinality(passed')
    BY <1>0, <1>3, FS_EmptySet
  <2>2. \A n \in Node : indegree'[n] = Cardinality(Waiting(n))'
    BY <1>0, <1>4, <1>5
  <2>3. \A S \in SUBSET jobNames' : Knot(S)' => S \cap (queue' \cup passed') = {}
    BY <1>0, <1>3, <1>6, GraphUnchanged DEF graph
  <2> QED
    BY <1>0, <1>3, <2>1, <2>2, <2>3 DEF VisitInv, Seed, graph
<1> QED
  BY <1>1, <1>2, <1>7

LEMMA VisitStep ==
    ASSUME Inv, NEW n \in Node, Visit(n)
    PROVE  Inv'
<1> USE DEF Inv
<1>0. /\ UNCHANGED <<graph, indegree>> /\ pc = "visit" /\ pc' = "visit" /\ todo = {}
      /\ n \in queue /\ n \in jobNames /\ n \notin passed
  BY DEF Visit, VisitInv
<1>1. TypeOK'
  BY <1>0 DEF Visit, TypeOK, graph
<1>2. LinkInv' /\ VerdictInv' /\ DescendInv'
  BY <1>0, GraphUnchanged DEF LinkInv, VerdictInv, DescendInv, graph
<1>3. \A m \in Node : Waiting(m)' = Waiting(m)
  BY <1>0 DEF Waiting, Visit, graph
<1>4. queue' \cup passed' = queue \cup passed /\ queue' \cap passed' = {}
  BY <1>0 DEF Visit, VisitInv
<1>5. visited' = Cardinality(passed')
  <2>1. IsFiniteSet(passed)
    BY NodeAssumption, FS_Subset DEF TypeOK
  <2>2. Cardinality(passed \cup {n}) = Cardinality(passed) + 1
    BY <2>1, <1>0, FS_AddElement
  <2> QED
    BY <2>2, <1>0 DEF Visit, VisitInv
<1>6. VisitInv'
  <2>1. \A S \in SUBSET jobNames' : Knot(S)' => S \cap (queue' \cup passed') = {}
    BY <1>0, <1>4, GraphUnchanged DEF VisitInv, graph
  <2>2. \A m \in Node : indegree'[m] = Cardinality(Waiting(m))'
    BY <1>0, <1>3 DEF VisitInv
  <2>3. \A e \in todo' : edges'[e].from \in passed'
    BY <1>0 DEF Visit, graph
  <2> QED
    BY <1>0, <1>4, <1>5, <2>1, <2>2, <2>3 DEF VisitInv, Visit, graph
<1> QED
  BY <1>1, <1>2, <1>6

LEMMA RelaxStep ==
    ASSUME Inv, NEW e \in EdgeId, RelaxEdge(e)
    PROVE  Inv'
<1> USE DEF Inv
<1> DEFINE next == edges[e].to
<1>0. /\ UNCHANGED <<graph, visited, passed>> /\ pc = "visit" /\ pc' = "visit" /\ e \in todo
      /\ todo' = todo \ {e} /\ e \in given /\ next \in Node /\ edges[e].from \in passed
  BY DEF RelaxEdge, VisitInv, TypeOK, Edge
<1>a. next \in jobNames
  BY <1>0 DEF LinkInv, Linkable, Ends
<1>1. \A n \in Node : indegree[n] = Cardinality(Waiting(n)) /\ Waiting(n) \subseteq given
  BY <1>0 DEF VisitInv, Waiting
<1>2. e \in Waiting(next) /\ Waiting(next)' = Waiting(next) \ {e}
  BY <1>0 DEF Waiting, graph
<1>3. \A n \in Node : n # next => Waiting(n)' = Waiting(n)
  BY <1>0 DEF Waiting, graph
<1>4. indegree[next] > 0 /\ Cardinality(Waiting(next)') = indegree[next] - 1
  BY <1>0, <1>1, <1>2, EdgeSets DEF TypeOK
<1>5. indegree' = [indegree EXCEPT ![next] = indegree[next] - 1]
  BY DEF RelaxEdge
<1>6. TypeOK'
  BY <1>0, <1>4, <1>5 DEF RelaxEdge, TypeOK, graph
<1>7. LinkInv' /\ VerdictInv' /\ DescendInv'
  BY <1>0, GraphUnchanged DEF LinkInv, VerdictInv, DescendInv, graph
<1>8. \A n \in Node : indegree'[n] = Cardinality(Waiting(n)')
  <2>1. next' = next
    BY <1>0 DEF graph
  <2>2. ASSUME NEW n \in Node, n = next PROVE indegree'[n] = Cardinality(Waiting(n)')
    BY <2>1, <2>2, <1>4, <1>5 DEF TypeOK
  <2>3. ASSUME NEW n \in Node, n # next PROVE indegree'[n] = Cardinality(Waiting(n)')
    BY <2>3, <1>1, <1>3, <1>5 DEF TypeOK
  <2> QED
    BY <2>2, <2>3
<1>9. next \notin queue \cup passed
  BY <1>0, <1>4 DEF VisitInv
<1>10. /\ queue' \cap passed' = {}
       /\ queue' \cup passed' = {n \in jobNames' : indegree'[n] = 0}
  <2>1. CASE indegree[next] = 1
    BY <2>1, <1>0, <1>a, <1>5, <1>9 DEF RelaxEdge, VisitInv, TypeOK, graph
  <2>2. CASE indegree[next] # 1
    BY <2>2, <1>0, <1>4, <1>5, <1>9 DEF RelaxEdge, VisitInv, TypeOK, graph
  <2> QED
    BY <2>1, <2>2
<1>11. \A S \in SUBSET jobNames : Knot(S) => S \cap (queue' \cup passed') = {}
  <2> SUFFICES ASSUME NEW S \in SUBSET jobNames, Knot(S) PROVE S \cap (queue' \cup passed') = {}
    OBVIOUS
  <2>1. S \cap (queue \cup passed) = {}
    BY <1>0 DEF VisitInv
  <2>2. CASE indegree[next] # 1
    BY <2>1, <2>2, <1>0 DEF RelaxEdge
  <2>3. CASE indegree[next] = 1
    <3>1. Waiting(next)' = {}
      BY <2>3, <1>0, <1>1, <1>2, <1>4, EdgeSets
    <3>2. TypeOK' /\ S \in SUBSET jobNames' /\ Knot(S)' /\ S \cap passed' = {}
      BY <1>0, <1>6, <2>1, GraphUnchanged DEF graph
    <3>3. next \notin S
      <4> SUFFICES ASSUME next \in S PROVE FALSE
        OBVIOUS
      <4>1. PICK d \in dependencies[next] : d \in S
        BY DEF Knot
      <4>2. PICK f \in given : edges[f].to = next /\ edges[f].from = d
        BY <4>1, <1>0 DEF dependencies
      <4>3. f \in Waiting(next)'
        BY <4>1, <4>2, <3>2, <1>0 DEF Waiting, graph
      <4> QED
        BY <4>3, <3>1
    <3> QED
      BY <2>1, <2>3, <3>3, <1>0 DEF RelaxEdge
  <2> QED
    BY <2>2, <2>3
<1>12. VisitInv'
  <2>1. \A S \in SUBSET jobNames' : Knot(S)' => S \cap (queue' \cup passed') = {}
    BY <1>0, <1>11, GraphUnchanged DEF graph
  <2> QED
    BY <1>0, <1>8, <1>10, <2>1 DEF VisitInv, graph
<1> QED
  BY <1>6, <1>7, <1>12

\* When the queue runs empty, the nodes not visited form a knot; none is left
\* exactly when the count of visited nodes is the count of nodes.
LEMMA VerdictStep ==
    ASSUME Inv, Verdict
    PROVE  Inv'
<1> USE DEF Inv
<1>0. UNCHANGED graph /\ pc = "visit" /\ queue = {} /\ todo = {} /\ pc' \in {"acyclic", "cycle"}
  BY DEF Verdict
<1>1. TypeOK' /\ LinkInv' /\ VisitInv' /\ DescendInv'
  BY <1>0 DEF Verdict, TypeOK, LinkInv, VisitInv, DescendInv, graph
<1>2. IsFiniteSet(jobNames) /\ passed \subseteq jobNames /\ visited = Cardinality(passed)
  BY <1>0, NodeAssumption, FS_Subset DEF TypeOK, VisitInv
<1>a. jobNames' # {} /\ \A e \in given' : Linkable(e)'
  BY <1>0, GraphUnchanged DEF LinkInv, VerdictInv, graph
<1>3. visited = Cardinality(jobNames) <=> passed = jobNames
  BY <1>2, FS_Subset
<1>4. CASE passed = jobNames
  <2>1. pc' = "acyclic"
    BY <1>3, <1>4 DEF Verdict
  <2>2. Acyclic(jobNames, dependencies)
    BY <1>0, <1>4 DEF Acyclic, VisitInv, Knot
  <2> QED
    BY <1>0, <1>1, <1>a, <2>1, <2>2, GraphUnchanged DEF VerdictInv
<1>5. CASE passed # jobNames
  <2> DEFINE S == jobNames \ passed
  <2>1. pc' = "cycle"
    BY <1>3, <1>5 DEF Verdict
  <2>2. \A n \in S : dependencies[n] \cap S # {}
    <3> SUFFICES ASSUME NEW n \in S PROVE dependencies[n] \cap S # {}
      OBVIOUS
    <3>1. n \in Node /\ indegree[n] # 0 /\ Waiting(n) \subseteq given
      BY <1>0 DEF VisitInv, TypeOK, Waiting
    <3>2. Waiting(n) # {}
      BY <1>0, <3>1, EdgeSets DEF VisitInv
    <3>3. PICK e \in Waiting(n) : TRUE
      BY <3>2
    <3>4. e \in given /\ edges[e].to = n /\ edges[e].from \notin passed
      BY <3>3, <1>0 DEF Waiting
    <3>5. edges[e].from \in jobNames
      BY <3>4, <1>0 DEF LinkInv, Linkable, Ends
    <3>6. edges[e].from \in dependencies[n]
      BY <3>1, <3>4 DEF dependencies
    <3> QED
      BY <3>4, <3>5, <3>6
  <2>3. S # {} /\ S \in SUBSET jobNames
    BY <1>2, <1>5
  <2>4. ~ Acyclic(jobNames, dependencies)
    BY <2>2, <2>3 DEF Acyclic
  <2> QED
    BY <1>0, <1>1, <1>a, <2>1, <2>4, GraphUnchanged DEF VerdictInv
<1> QED
  BY <1>4, <1>5

LEMMA DescendSteps ==
    ASSUME Inv, NEW n, NEW failed \in SUBSET Node,
           StartDescend(failed) \/ Descend(n) \/ Descended
    PROVE  Inv'
<1> USE DEF Inv
<1>0. UNCHANGED graph /\ pc \in {"acyclic", "descend"} /\ pc' \in {"descend", "descended"}
  BY DEF StartDescend, Descend, Descended
<1>1. dependents \in [Node -> SUBSET Node]
  BY DEF dependents, TypeOK, Edge
<1>2. TypeOK'
  <2>1. CASE Descend(n)
    BY <2>1, <1>1 DEF Descend, TypeOK, graph
  <2> QED
    BY <2>1 DEF StartDescend, Descend, Descended, TypeOK, graph
<1>3. LinkInv' /\ VisitInv'
  BY <1>0 DEF LinkInv, VisitInv
<1>4. VerdictInv'
  BY <1>0, GraphUnchanged DEF VerdictInv, graph
<1>5. DescendInv'
  <2>1. dependents' = dependents
    BY <1>0, GraphUnchanged
  <2>2. CASE StartDescend(failed)
    BY <2>2 DEF StartDescend, DescendInv
  <2>3. CASE Descended
    BY <2>1, <2>3 DEF Descended, DescendInv, ClosedUnder
  <2>4. CASE Descend(n)
    <3>1. n \in roots \cup seen /\ n \in queue /\ pc = "descend" /\ pc' = "descend" /\ roots' = roots
      BY <2>4 DEF Descend, DescendInv
    <3>2. \A S \in SUBSET Node : ClosedUnder(dependents, roots, S) => seen' \subseteq S
      BY <2>4, <3>1 DEF Descend, DescendInv, ClosedUnder
    <3>3. queue' \subseteq roots \cup seen'
      BY <2>4, <3>1 DEF Descend, DescendInv
    <3>4. \A m \in (roots \cup seen') \ queue' : dependents[m] \subseteq seen'
      BY <2>4, <3>1 DEF Descend, DescendInv
    <3> QED
      BY <2>1, <3>1, <3>2, <3>3, <3>4 DEF DescendInv, ClosedUnder
  <2> QED
    BY <2>2, <2>3, <2>4
<1> QED
  BY <1>2, <1>3, <1>4, <1>5

LEMMA InvStep == Inv /\ [Next]_vars => Inv'
<1> SUFFICES ASSUME Inv, [Next]_vars PROVE Inv'
  OBVIOUS
<1>1. CASE UNCHANGED vars
  <2>1. UNCHANGED graph
    BY <1>1 DEF vars
  <2>2. \A n : Waiting(n)' = Waiting(n) /\ Counted(n)' = Counted(n)
    BY <1>1 DEF vars, Waiting, Counted, graph
  <2> QED
    BY <1>1, <2>1, <2>2, GraphUnchanged DEF vars, graph, Inv, TypeOK, LinkInv, VisitInv,
       VerdictInv, DescendInv, ClosedUnder
<1>2. ASSUME NEW e \in EdgeId, LinkEdge(e) \/ RejectEdge(e) \/ CountEdge(e) \/ RelaxEdge(e)
      PROVE  Inv'
  BY <1>2, LinkSteps, CountStep, RelaxStep
<1>3. ASSUME NEW n \in Node, Visit(n) \/ Descend(n)
      PROVE  Inv'
  BY <1>3, VisitStep, DescendSteps
<1>4. CASE StartCount
  BY <1>4, LinkSteps
<1>5. CASE Descended
  <2>1. {} \in SUBSET Node
    OBVIOUS
  <2> QED
    BY <1>5, <2>1, DescendSteps
<1>6. ASSUME NEW failed \in SUBSET Node, StartDescend(failed)
      PROVE  Inv'
  BY <1>6, DescendSteps
<1> QED
  BY <1>1, <1>2, <1>3, <1>4, <1>5, <1>6, SeedStep, VerdictStep DEF Next

-----------------------------------------------------------------------------

\* At every point of the three loops the invariant holds.
THEOREM InvHolds == Spec => []Inv
<1>1. Inv /\ [Next]_vars => Inv'
  BY InvStep
<1> QED
  BY InitInv, <1>1, PTL DEF Spec

\* The loops keep their types: the indegree that validateAcyclic counts down never
\* goes below zero.
THEOREM GraphTypes == Spec => []TypeOK
<1>1. Inv => TypeOK
  BY DEF Inv
<1> QED
  BY InvHolds, <1>1, PTL

\* The relations the loops build are those of Workflow.tla.
LEMMA Relations ==
    ASSUME TypeOK
    PROVE  deps(workflow) = dependencies /\ reverseDeps(workflow) = dependents
<1>1. /\ workflow.edges = {<<edges[e].from, edges[e].to>> : e \in given}
      /\ \A e \in given : edges[e].from \in Node /\ edges[e].to \in Node
  BY DEF workflow, TypeOK, Edge
<1>2. \A m, n \in Node :
          <<m, n>> \in workflow.edges <=> \E e \in given : edges[e].from = m /\ edges[e].to = n
  BY <1>1
<1>3. ASSUME NEW n \in Node
      PROVE  /\ {m \in Node : <<m, n>> \in workflow.edges} = dependencies[n]
             /\ {m \in Node : <<n, m>> \in workflow.edges} = dependents[n]
  BY <1>1, <1>2 DEF dependencies, dependents
<1> QED
  BY <1>3 DEF deps, reverseDeps, dependencies, dependents

\* An edge that the loop links is one that buildWorkflowGraph lets pass.
LEMMA LinkableEdges ==
    ASSUME TypeOK
    PROVE  (\A e \in given : Linkable(e)) <=>
           \A e \in workflow.edges : {e[1], e[2]} \subseteq workflow.jobs /\ e[1] # e[2]
<1>1. \A x : x \in workflow.edges <=> \E e \in given : x = <<edges[e].from, edges[e].to>>
  BY DEF workflow
<1>2. \A e \in given : /\ <<edges[e].from, edges[e].to>>[1] = edges[e].from
                      /\ <<edges[e].from, edges[e].to>>[2] = edges[e].to
  OBVIOUS
<1>3. workflow.jobs = jobNames
  BY DEF workflow
<1> DEFINE good(x) == {x[1], x[2]} \subseteq workflow.jobs /\ x[1] # x[2]
<1>4. \A e \in given : good(<<edges[e].from, edges[e].to>>) <=> Linkable(e)
  BY <1>2, <1>3 DEF Linkable, Ends
<1> HIDE DEF good
<1>5. (\A e \in given : Linkable(e)) <=> \A x \in workflow.edges : good(x)
  BY <1>1, <1>4
<1> QED
  BY <1>5 DEF good

\* The loops accept exactly the workflows that buildWorkflowGraph describes: an edge
\* is rejected, or a cycle reported, exactly when there is one.
THEOREM AcyclicVerdict == Spec => []VerdictCorrect
<1>1. Inv => VerdictCorrect
  <2> SUFFICES ASSUME Inv PROVE VerdictCorrect
    OBVIOUS
  <2>1. deps(workflow) = dependencies /\ workflow.jobs = jobNames /\ workflow.templatesValid
    BY Relations DEF Inv, workflow
  <2>2. (\A e \in given : Linkable(e)) <=>
        \A e \in workflow.edges : {e[1], e[2]} \subseteq workflow.jobs /\ e[1] # e[2]
    BY LinkableEdges DEF Inv
  <2>3. buildWorkflowGraph(workflow) <=>
            /\ jobNames # {} /\ \A e \in given : Linkable(e)
            /\ Acyclic(jobNames, dependencies)
    BY <2>1, <2>2 DEF buildWorkflowGraph
  <2> QED
    BY <2>3 DEF Inv, VerdictInv, VerdictCorrect
<1> QED
  BY InvHolds, <1>1, PTL

\* descendantNodes is correct: it returns exactly the nodes reachable from the
\* failed ones.
THEOREM DescendantsReached == Spec => []DescendantsCorrect
<1>1. Inv => DescendantsCorrect
  <2> SUFFICES ASSUME Inv, pc = "descended" PROVE seen = descendantNodes(dependents, roots)
    BY Relations DEF DescendantsCorrect, Inv
  <2>1. seen \in SUBSET Node /\ ClosedUnder(dependents, roots, seen)
    BY DEF Inv, TypeOK, DescendInv, ClosedUnder
  <2>2. \A S \in SUBSET Node : ClosedUnder(dependents, roots, S) => seen \subseteq S
    BY DEF Inv, DescendInv
  <2> QED
    BY <2>1, <2>2 DEF descendantNodes
<1> QED
  BY InvHolds, <1>1, PTL

-----------------------------------------------------------------------------
(* The loops end: each iteration leaves less to do *)

LEMMA NodeSets ==
    ASSUME NEW S, S \subseteq Node
    PROVE  /\ IsFiniteSet(S) /\ Cardinality(S) \in Nat
           /\ \A n \in S : Cardinality(S \ {n}) = Cardinality(S) - 1
<1>1. IsFiniteSet(S)
  BY NodeAssumption, FS_Subset
<1> QED
  BY <1>1, FS_CardinalityType, FS_RemoveElement

Unrelaxed == {e \in given : edges[e].from \notin passed \/ e \in todo}

\* Linking and counting take an edge off todo.
LEMMA TodoProgress ==
    ASSUME Inv, NEW e \in EdgeId, LinkEdge(e) \/ CountEdge(e)
    PROVE  pc' = pc /\ Remaining' \in 0 .. (Remaining - 1)
<1>1. /\ pc \in {"link", "count"} /\ pc' = pc /\ e \in todo /\ todo' = todo \ {e}
      /\ todo \subseteq given /\ TypeOK
  BY DEF LinkEdge, CountEdge, First, Inv, TypeOK
<1>2. Remaining = Cardinality(todo) /\ Remaining' = Cardinality(todo \ {e})
  BY <1>1 DEF Remaining
<1>3. /\ Cardinality(todo \ {e}) = Cardinality(todo) - 1 /\ Cardinality(todo) \in Nat
      /\ Cardinality(todo \ {e}) \in Nat
  BY <1>1, EdgeSets
<1> QED
  BY <1>1, <1>2, <1>3

\* A visit takes a node off those to visit, and relaxing an edge takes it off those
\* to relax: a node that is visited stays so, and its edges are taken up once.
LEMMA VisitProgress ==
    ASSUME Inv, NEW n, NEW e, Visit(n) \/ RelaxEdge(e)
    PROVE  pc' = pc /\ Remaining' \in 0 .. (Remaining - 1)
<1> DEFINE left == jobNames \ passed
<1>1. /\ pc = "visit" /\ pc' = "visit" /\ UNCHANGED graph /\ TypeOK
      /\ jobNames \subseteq Node /\ todo \subseteq given
  BY DEF Visit, RelaxEdge, Inv, TypeOK
<1>2. /\ Remaining = Cardinality(Unrelaxed) + Cardinality(left)
      /\ Remaining' = Cardinality(Unrelaxed') + Cardinality(left')
  BY <1>1 DEF Remaining, Unrelaxed
<1>3. Unrelaxed \subseteq given /\ Unrelaxed' \subseteq given /\ left \subseteq Node /\ left' \subseteq Node
  BY <1>1 DEF Unrelaxed, graph
<1>4. /\ Cardinality(Unrelaxed) \in Nat /\ Cardinality(Unrelaxed') \in Nat
      /\ Cardinality(left) \in Nat /\ Cardinality(left') \in Nat
  BY <1>1, <1>3, EdgeSets, NodeSets
<1>5. CASE Visit(n)
  <2>0. n \in jobNames /\ n \notin passed
    BY <1>1, <1>5 DEF Visit, Inv, VisitInv
  <2>1. Unrelaxed' = Unrelaxed
    BY <1>1, <1>5, <2>0 DEF Visit, Unrelaxed, graph
  <2>2. n \in left /\ left' = left \ {n}
    BY <1>1, <1>5, <2>0 DEF Visit, graph
  <2>3. Cardinality(left \ {n}) = Cardinality(left) - 1
    BY <1>3, <2>2, NodeSets
  <2> HIDE DEF left
  <2> QED
    BY <1>1, <1>2, <1>4, <2>1, <2>2, <2>3
<1>6. CASE RelaxEdge(e)
  <2>1. left' = left
    BY <1>1, <1>6 DEF RelaxEdge, graph
  <2>2. e \in Unrelaxed /\ Unrelaxed' = Unrelaxed \ {e}
    BY <1>1, <1>6 DEF RelaxEdge, Unrelaxed, Inv, VisitInv, graph
  <2>3. Cardinality(Unrelaxed \ {e}) = Cardinality(Unrelaxed) - 1
    BY <1>1, <1>3, <2>2, EdgeSets
  <2> HIDE DEF left
  <2> QED
    BY <1>1, <1>2, <1>4, <2>1, <2>2, <2>3
<1> QED
  BY <1>5, <1>6

\* descendantNodes takes a node off its queue and adds only nodes it sees for the
\* first time.
LEMMA DescendProgress ==
    ASSUME Inv, NEW n \in Node, Descend(n)
    PROVE  pc' = pc /\ Remaining' \in 0 .. (Remaining - 1)
<1> DEFINE new == dependents[n] \ seen
           rest == queue \ {n}
           unseen == Node \ seen
<1>1. dependents[n] \subseteq Node /\ queue \subseteq Node /\ seen \subseteq Node
  BY DEF dependents, Inv, TypeOK, Edge
<1>2. /\ pc = "descend" /\ pc' = "descend" /\ n \in queue
      /\ queue' = rest \cup new /\ Node \ seen' = unseen \ new /\ new \subseteq unseen
  BY <1>1 DEF Descend
<1>3. /\ IsFiniteSet(rest) /\ IsFiniteSet(new) /\ IsFiniteSet(unseen)
      /\ Cardinality(rest) \in Nat /\ Cardinality(new) \in Nat /\ Cardinality(unseen) \in Nat
      /\ Cardinality(rest \cup new) \in Nat /\ Cardinality(rest \cap new) \in Nat
      /\ Cardinality(unseen \ new) \in Nat /\ Cardinality(rest) = Cardinality(queue) - 1
      /\ Cardinality(queue) \in Nat
  <2>1. /\ rest \subseteq Node /\ new \subseteq Node /\ unseen \subseteq Node
        /\ rest \cup new \subseteq Node /\ rest \cap new \subseteq Node /\ unseen \ new \subseteq Node
    BY <1>1
  <2> QED
    BY <1>1, <1>2, <2>1, NodeSets
<1>4. Cardinality(rest \cup new) = Cardinality(rest) + Cardinality(new) - Cardinality(rest \cap new)
  BY <1>3, FS_Union
<1>5. Cardinality(unseen \ new) = Cardinality(unseen) - Cardinality(new)
  <2>1. unseen \cap new = new
    BY <1>2
  <2>2. Cardinality(unseen \ new) = Cardinality(unseen) - Cardinality(unseen \cap new)
    BY <1>3, FS_Difference
  <2> QED
    BY <2>1, <2>2
<1>6. /\ Remaining = Cardinality(queue) + Cardinality(unseen)
      /\ Remaining' = Cardinality(rest \cup new) + Cardinality(unseen \ new)
  BY <1>2 DEF Remaining
<1> HIDE DEF rest, new, unseen
<1> QED
  BY <1>2, <1>3, <1>4, <1>5, <1>6

\* The loops of buildWorkflowGraph, validateAcyclic and descendantNodes end: what is
\* left to do is a natural number that every iteration makes smaller, and a loop that
\* was left is not entered again.
THEOREM LoopsMakeProgress == Spec => LoopsProgress
<1> DEFINE Progresses ==
        IF pc' = pc THEN Remaining' \in 0 .. (Remaining - 1) ELSE <<pc, pc'>> \in LoopOrder
<1>1. ASSUME Inv, Next PROVE Progresses
  <2>1. ASSUME NEW e \in EdgeId, LinkEdge(e) \/ CountEdge(e) PROVE Progresses
    BY <1>1, <2>1, TodoProgress
  <2>2. ASSUME NEW e \in EdgeId, RelaxEdge(e) PROVE Progresses
    BY <1>1, <2>2, VisitProgress
  <2>3. ASSUME NEW n \in Node, Descend(n) PROVE Progresses
    BY <1>1, <2>3, DescendProgress
  <2>4. ASSUME NEW n \in Node, Visit(n) PROVE Progresses
    BY <1>1, <2>4, VisitProgress
  <2>5. ASSUME NEW e, RejectEdge(e) PROVE Progresses
    BY <2>5 DEF RejectEdge, LoopOrder
  <2>6. CASE StartCount \/ Seed \/ Verdict \/ Descended
    BY <2>6 DEF StartCount, Seed, Verdict, Descended, LoopOrder
  <2>7. ASSUME NEW failed, StartDescend(failed) PROVE Progresses
    BY <2>7 DEF StartDescend, LoopOrder
  <2> QED
    BY <1>1, <2>1, <2>2, <2>3, <2>4, <2>5, <2>6, <2>7 DEF Next
<1>2. Inv /\ [Next]_vars => [Progresses]_vars
  BY <1>1
<1> QED
  BY InvHolds, <1>2, PTL DEF Spec, LoopsProgress
=============================================================================
