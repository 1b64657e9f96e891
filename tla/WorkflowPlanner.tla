-------------------------- MODULE WorkflowPlanner ---------------------------
(***************************************************************************)
(* workflow/validation.py and workflow/planner.py: validate_workflow and   *)
(* build_execution_plan, run on every small graph.  One action is one      *)
(* iteration of a loop of the code, so that termination is a property.     *)
(*                                                                         *)
(* A node's dependency_ids is a list that may name a node twice, name the  *)
(* node itself or name no node at all; an occurrence is an element of      *)
(* refs.  definition.nodes is a list too, in which an id may be repeated:  *)
(* the dicts of the code are keyed by the id and hold it once, with the    *)
(* references of all its nodes, while len(nodes) counts every entry.  The  *)
(* order inside a stage (priority, then node_id) only decides the order of *)
(* submission and is abstracted: a stage is a set.                         *)
(***************************************************************************)
EXTENDS Naturals, Sequences, FiniteSets

CONSTANTS
    Ids,        \* node ids, numbered in lexicographic order
    MaxRefs,    \* bound: dependency references in a definition
    MaxRepeats  \* bound: entries of a definition whose id was listed before

ASSUME IdsAssumption ==
    Ids \subseteq Nat /\ IsFiniteSet(Ids) /\ MaxRefs \in Nat /\ MaxRepeats \in Nat

VARIABLES
    nodes,     \* ids of the nodes in the definition: node_id_set
    listed,    \* len(definition.nodes): more than there are ids when one is repeated
    refs,      \* dependency occurrences [from, to, nth]: from depends on to
    phase,     \* the loop that runs
    errors,    \* kinds of error reported so far
    degree,    \* in_degree / remaining, over the nodes still in the dict
    queue,     \* _detect_cycles: queue
    processed, \* _detect_cycles: how many nodes left the queue
    pending,   \* _detect_disconnected: occurrences not yet united
    parent,    \* _detect_disconnected: the union-find forest
    stages     \* build_execution_plan: the stages so far

plannerVars ==
    <<nodes, listed, refs, phase, errors, degree, queue, processed, pending, parent, stages>>

\* occurrences of node d among the dependency_ids of n; adj[d] holds n as often
Occurrences(n, d) == {r \in refs : r.from = n /\ r.to = d}

\* the dependency_ids of n as a set: dependency_snapshot[n]
DependsOn(n) == {r.to : r \in {q \in refs : q.from = n}}

\* an id is listed more than once
Repeated == listed > Cardinality(nodes)

InDegree == [n \in nodes |-> Cardinality({r \in refs : r.from = n})]

Once(pairs) == {[from |-> p[1], to |-> p[2], nth |-> 1] : p \in pairs}

\* definitions: up to MaxRefs references, at most one of them listed twice, and
\* up to MaxRepeats entries that repeat an id
PlannerInit ==
    /\ nodes \in SUBSET Ids
    /\ \E repeats \in 0..MaxRepeats : /\ nodes = {} => repeats = 0
                                    /\ listed = Cardinality(nodes) + repeats
    /\ \E pairs \in SUBSET (nodes \X Ids) :
         /\ Cardinality(pairs) <= MaxRefs
         /\ \E twice \in {{}} \cup {{p} : p \in pairs} :
              /\ Cardinality(pairs) + Cardinality(twice) <= MaxRefs
              /\ refs = Once(pairs) \cup {[r EXCEPT !.nth = 2] : r \in Once(twice)}
    /\ phase = "fields"
    /\ errors = {}
    /\ degree = <<>>
    /\ queue = {}
    /\ processed = 0
    /\ pending = {}
    /\ parent = <<>>
    /\ stages = <<>>

\* the checks after the cycle check start, or are skipped for one node or none
BeginUnion ==
    IF listed > 1
    THEN /\ phase' = "union"
         /\ pending' = {r \in refs : r.to \in nodes}
         /\ parent' = [n \in nodes |-> n]
    ELSE phase' = "verdict" /\ UNCHANGED <<pending, parent>>

-----------------------------------------------------------------------------
(* validate_workflow *)

\* checks 1 to 5: repeated ids; empty names, retry policy and payload of single
\* nodes (one error kind here); and references to unknown nodes
CheckFields ==
    /\ phase = "fields"
    /\ \E bad \in BOOLEAN :
         LET missing == \E r \in refs : r.to \notin nodes IN
         /\ errors' = (IF Repeated THEN {"duplicate"} ELSE {}) \cup
                      (IF bad THEN {"field"} ELSE {}) \cup
                      (IF missing THEN {"missing"} ELSE {})
         /\ IF missing
            THEN BeginUnion /\ UNCHANGED <<degree, queue>>
            ELSE /\ phase' = "cycles"
                 /\ degree' = InDegree
                 /\ queue' = {n \in nodes : InDegree[n] = 0}
                 /\ UNCHANGED <<pending, parent>>
    /\ UNCHANGED <<nodes, listed, refs, processed, stages>>

\* what is left of the degrees once node d has been processed
Released(d) == [n \in nodes |-> degree[n] - Cardinality(Occurrences(n, d))]

\* mutant: the node is looked at but stays in the queue
PeekNode ==
    /\ phase = "cycles"
    /\ queue # {}
    /\ LET d == CHOOSE n \in queue : \A m \in queue : n <= m IN
       /\ degree' = Released(d)
       /\ queue' = queue \cup {n \in nodes : degree[n] > 0 /\ Released(d)[n] = 0}
       /\ processed' = processed
    /\ UNCHANGED <<nodes, listed, refs, phase, errors, pending, parent, stages>>

\* _detect_cycles: the smallest queued node is processed, its dependents released
PopNode ==
    /\ phase = "cycles"
    /\ queue # {}
    /\ LET d == CHOOSE n \in queue : \A m \in queue : n <= m IN
       /\ degree' = Released(d)
       /\ queue' = (queue \ {d}) \cup {n \in nodes : degree[n] > 0 /\ Released(d)[n] = 0}
       /\ processed' = processed + 1
    /\ UNCHANGED <<nodes, listed, refs, phase, errors, pending, parent, stages>>

\* ids have been counted, list entries are what they are compared with
CyclesDone ==
    /\ phase = "cycles"
    /\ queue = {}
    /\ errors' = errors \cup IF processed < listed THEN {"cycle"} ELSE {}
    /\ BeginUnion
    /\ UNCHANGED <<nodes, listed, refs, degree, queue, processed, stages>>

\* find: up the parents to a node that is its own parent.  Path halving only
\* shortens later walks and is abstracted.
FindRoot(x) ==
    LET up[y \in nodes] == IF parent[y] = y THEN y ELSE up[parent[y]]
    IN  up[x]

\* mutant: a node is hung below another without looking for the roots
UniteDirect(r) == parent' = [parent EXCEPT ![r.from] = r.to]

\* union(node, dependency): the root of the one below the root of the other
Unite(r) == parent' = [parent EXCEPT ![FindRoot(r.from)] = FindRoot(r.to)]

\* the order of the occurrences is that of the caller's lists: any order
UniteNext ==
    /\ phase = "union"
    /\ \E r \in pending : Unite(r) /\ pending' = pending \ {r}
    /\ UNCHANGED <<nodes, listed, refs, phase, errors, degree, queue, processed, stages>>

UnionDone ==
    /\ phase = "union"
    /\ pending = {}
    /\ errors' = errors \cup
         IF Cardinality({FindRoot(n) : n \in nodes}) > 1
         THEN {"disconnected"} ELSE {}
    /\ phase' = "verdict"
    /\ UNCHANGED <<nodes, listed, refs, degree, queue, processed, pending, parent, stages>>

\* build_execution_plan refuses an invalid workflow
Verdict ==
    /\ phase = "verdict"
    /\ phase' = IF errors = {} THEN "stages" ELSE "rejected"
    /\ degree' = IF errors = {} THEN InDegree ELSE degree
    /\ UNCHANGED <<nodes, listed, refs, errors, queue, processed, pending, parent, stages>>

-----------------------------------------------------------------------------
(* build_execution_plan *)

\* the nodes of `remaining' whose in-degree is zero
Zeros == {n \in DOMAIN degree : degree[n] = 0}

\* mutant: a stage takes the nodes that wait for at most one dependency
BuildStageEager ==
    /\ phase = "stages"
    /\ LET stage == {n \in DOMAIN degree : degree[n] <= 1} IN
       IF stage = {} THEN phase' = "planned" /\ UNCHANGED <<degree, stages>>
       ELSE /\ stages' = Append(stages, stage)
            /\ degree' = [n \in DOMAIN degree \ stage |->
                 degree[n] - Cardinality({r \in refs : r.from = n /\ r.to \in stage})]
            /\ UNCHANGED phase
    /\ UNCHANGED <<nodes, listed, refs, errors, queue, processed, pending, parent>>

\* one round: every node that waits for nothing forms the next stage
BuildStage ==
    /\ phase = "stages"
    /\ IF Zeros = {} THEN phase' = "planned" /\ UNCHANGED <<degree, stages>>
       ELSE /\ stages' = Append(stages, Zeros)
            /\ degree' = [n \in DOMAIN degree \ Zeros |->
                 degree[n] - Cardinality({r \in refs : r.from = n /\ r.to \in Zeros})]
            /\ UNCHANGED phase
    /\ UNCHANGED <<nodes, listed, refs, errors, queue, processed, pending, parent>>

\* get_ready_nodes and get_blocked_nodes of the finished plan
PlannedNodes == UNION {stages[i] : i \in DOMAIN stages}
GetReadyNodes(completed) ==
    {n \in PlannedNodes \ completed : DependsOn(n) \subseteq completed}
GetBlockedNodes(completed) ==
    {n \in PlannedNodes \ completed : ~ (DependsOn(n) \subseteq completed)}

-----------------------------------------------------------------------------
PlannerNext == CheckFields \/ PopNode \/ CyclesDone \/ UniteNext \/ UnionDone
        \/ Verdict \/ BuildStage

\* plain loops of one thread: they run on as long as they can
PlannerSpec == PlannerInit /\ [][PlannerNext]_plannerVars /\ WF_plannerVars(PlannerNext)

-----------------------------------------------------------------------------
\* reference definitions, with no algorithm in them
HasCycle == \E ring \in SUBSET nodes :
    ring # {} /\ \A n \in ring : DependsOn(n) \cap ring # {}

IsSplit == \E part \in SUBSET nodes :
    /\ part # {} /\ part # nodes
    /\ \A n \in part : DependsOn(n) \cap nodes \subseteq part
    /\ \A n \in nodes \ part : DependsOn(n) \cap part = {}

\* validate_workflow: repeated ids are reported; Kahn's algorithm reports a cycle
\* exactly when some nodes wait for each other, and also, where there may be no
\* such nodes, when an id is repeated; union-find reports a split exactly when
\* the graph falls apart; with duplicated, self and missing references and for no
\* nodes at all.  So a definition without repeated ids gets no false report, and
\* none with a repeated id is accepted.
VerdictIsRight ==
    phase \in {"verdict", "stages", "planned", "rejected"} =>
        /\ ("duplicate" \in errors) <=> Repeated
        /\ ("missing" \in errors) <=> (\E n \in nodes : ~ (DependsOn(n) \subseteq nodes))
        /\ ("cycle" \in errors) <=>
             ("missing" \notin errors /\ (HasCycle \/ Repeated))
        /\ ("disconnected" \in errors) <=> IsSplit

\* build_execution_plan: every node is in exactly one stage; a node comes after
\* all its dependencies, and not later than the last of them demands.  And
\* get_ready_nodes on the finished plan: whatever has completed so far, some
\* node can run next until all have, and the blocked ones are all the others.
StagesFollowDependencies ==
    phase = "planned" =>
        /\ \A n \in nodes : \E i \in DOMAIN stages : n \in stages[i]
        /\ \A i, j \in DOMAIN stages : i # j => stages[i] \cap stages[j] = {}
        /\ \A i \in DOMAIN stages : \A n \in stages[i] :
             /\ DependsOn(n) \subseteq UNION {stages[j] : j \in 1..(i-1)}
             /\ i > 1 => DependsOn(n) \cap stages[i-1] # {}
        /\ \A done \in SUBSET nodes :
             /\ done # nodes => GetReadyNodes(done) # {}
             /\ GetReadyNodes(done) \cup GetBlockedNodes(done) = nodes \ done

\* Both loops end: planning any definition comes to a plan or a rejection.
PlanningEnds == <>(phase \in {"planned", "rejected"})

=============================================================================
