----------------------------- MODULE MCController -----------------------------
(***************************************************************************)
(* Small instances of CertificateJobController for TLC.                    *)
(***************************************************************************)
EXTENDS CertificateJobController

CONSTANTS on, off   \* labels

Workflow(jobNames, edges, parallelism, policy) ==
    [jobs |-> jobNames, edges |-> edges, parallelism |-> parallelism,
     failurePolicy |-> policy, selector |-> Label,
     templatesValid |-> TRUE, selectorValid |-> TRUE]

Single == Workflow({1}, {}, 1, "StopDownstream")

\* Two nodes in a row, under each policy that skips, and two in a circle.
Chain == Workflow({1, 2}, {<<1, 2>>}, 1, "StopDownstream")
Chains == [stop |-> Chain,
           independent |-> [Chain EXCEPT !.parallelism = 2,
                                         !.failurePolicy = "ContinueIndependent"],
           circle |-> [Chain EXCEPT !.edges = {<<1, 2>>, <<2, 1>>}]]

\* Two nodes that may run together.
Pair == [pair |-> Workflow({1, 2}, {}, 2, "ContinueIndependent")]

\* Specs that select every label or one, and two the controller refuses.
Selections == [every |-> Single,
               one   |-> [Single EXCEPT !.selector = {on}],
               cycle |-> [Single EXCEPT !.edges = {<<1, 1>>}],
               selector |-> [Single EXCEPT !.selectorValid = FALSE]]

OneJob == [single |-> Single]

\* One node; or two, started one at a time, without and with an edge.
Rows == [single |-> Single,
         apart  |-> [Workflow({1, 2}, {}, 1, "ContinueIndependent") EXCEPT !.selector = {on}],
         row    |-> [Workflow({1, 2}, {<<1, 2>>}, 1, "ContinueIndependent") EXCEPT !.selector = {on}]]

\* Two certificates with one node each, or one certificate with two nodes.
RowsInit ==
    /\ Init
    /\ \A c \in Cert : cert[c].label = off <=> api.spec # "single" /\ c = 2
    /\ api.spec # "single" => \A c \in Cert : secret[c].present

\* The edge is added or taken away, at any moment.
RowsEdit == api.spec # "single" /\ \E s \in {"apart", "row"} : UpdateSpec(s)

RowsJobs == \E k \in JobName : JobStarts(k) \/ JobCompletes(k) \/ JobFails(k)

RunsCreated == {k.run : k \in {l \in JobName : jobs[l] # "none"}}

\* Bound: with two nodes the run that follows the edited one is cut off at its
\* first Job.
RowsNext ==
    /\ api.spec # "single" => Cardinality(RunsCreated) <= 1
    /\ Worker \/ Watches \/ RowsEdit \/ RowsJobs

RowsSpec == RowsInit /\ [][RowsNext]_vars

\* Passes begin only when the caches show what is there.
PromptBegin == latest /\ jobCache = jobs /\ BeginPass

PromptNext ==
    \/ PromptBegin \/ (\E c \in Cert : HandleCertificate(c) \/ RunStep(c)) \/ EndPass
    \/ Watches \/ Edits \/ JobController

PromptSpec == Init /\ [][PromptNext]_vars

\* parallelism 1 for two independent nodes.
Narrow == [narrow |-> Workflow({1, 2}, {}, 1, "StopDownstream")]

\* 1 may fail; 2 -> 3 does not depend on it.
Branches == [branches |-> Workflow({1, 2, 3}, {<<2, 3>>}, 1, "ContinueIndependent")]

\* The second spec drops the last node of the chain.
Shrinking == [chain |-> Chain, head |-> Single]
=============================================================================
