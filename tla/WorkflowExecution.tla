------------------------- MODULE WorkflowExecution --------------------------
(***************************************************************************)
(* workflow/state.py, executor.py and replay.py: the pure functions that   *)
(* move an execution, the lineage events they emit, and the replay that    *)
(* rebuilds an execution from its events.  Timestamps, reasons and ids of  *)
(* the execution are left out; an execution is looked at on its own.       *)
(***************************************************************************)
EXTENDS Naturals, Sequences, FiniteSets

CONSTANT Plans  \* the execution plans considered, see PlansAssumption

PlanNodes(p) == DOMAIN p.deps

\* What build_execution_plan yields for a valid definition (WorkflowPlanner):
\* deps: dependency_snapshot; stages: none without a node, every node in one,
\* after all its dependencies; max: retry_policy.max_attempts.
StagedPlan(p) ==
    /\ PlanNodes(p) \subseteq Nat /\ IsFiniteSet(PlanNodes(p))
    /\ p.deps \in [PlanNodes(p) -> SUBSET PlanNodes(p)]
    /\ p.max \in [PlanNodes(p) -> Nat \ {0}]
    /\ p.stages \in Seq(SUBSET PlanNodes(p)) /\ \A i \in DOMAIN p.stages : p.stages[i] # {}
    /\ \A n \in PlanNodes(p) : \E i \in DOMAIN p.stages :
         /\ n \in p.stages[i]
         /\ p.deps[n] \subseteq UNION {p.stages[j] : j \in 1..(i-1)}
         /\ \A j \in DOMAIN p.stages : n \in p.stages[j] => j = i

PlansAssumption == \A p \in Plans : StagedPlan(p)

ASSUME PlansAreStaged == PlansAssumption

\* TERMINAL_WORKFLOW_EXECUTION_STATES
TerminalExecutionState == {"completed", "cancelled"}

\* VALID_WORKFLOW_EXECUTION_TRANSITIONS
ExecutionMoves ==
    [initialized |-> {"ready", "cancelled"},
     ready       |-> {"executing", "cancelled"},
     executing   |-> {"completed", "failed", "blocked", "paused"},
     blocked     |-> {"executing", "failed", "cancelled"},
     paused      |-> {"executing", "cancelled"},
     failed      |-> {"cancelled"},
     completed   |-> {},
     cancelled   |-> {}]

NoStatus == "none"
NoNode == 0

NodeEvent(type, node, stage) ==
    [type |-> type, old |-> NoStatus, new |-> NoStatus, node |-> node, stage |-> stage]

StateEvent(old, new, stage) ==
    [type |-> "state_transition", old |-> old, new |-> new, node |-> NoNode,
     stage |-> stage]

-----------------------------------------------------------------------------
(* executor.py: results are [raises, exec, events]; a call that raises       *)
(* returns nothing to its caller                                             *)

\* initialize_execution: the row and the event
Initialized(p) ==
    [state |-> "initialized", stage |-> 0, completed |-> {}, failed |-> {},
     attempts |-> [n \in PlanNodes(p) |-> 0], version |-> 1]

InitEvent == StateEvent(NoStatus, "initialized", 0)

\* _transition
Moved(x, new) == [x EXCEPT !.state = new, !.version = @ + 1]
MoveEvent(x, new) == StateEvent(x.state, new, x.stage)

\* start_execution: initialized -> ready -> executing
Started(x) ==
    [raises |-> "ready" \notin ExecutionMoves[x.state],
     exec   |-> Moved(Moved(x, "ready"), "executing"),
     events |-> <<MoveEvent(x, "ready"), MoveEvent(Moved(x, "ready"), "executing")>>]

\* mutant: one completed dependency is enough
ReadyNodesAny(x, p) ==
    {n \in PlanNodes(p) \ (x.completed \cup x.failed) :
        p.deps[n] = {} \/ p.deps[n] \cap x.completed # {}}

\* get_ready_node_ids: neither completed nor failed, every dependency completed
ReadyNodes(x, p) ==
    {n \in PlanNodes(p) \ (x.completed \cup x.failed) : p.deps[n] \subseteq x.completed}

\* mutant: only the direct dependents of a failed node count as blocked
DirectlyBlocked(failed, p) ==
    {n \in PlanNodes(p) \ failed : p.deps[n] \cap failed # {}}

\* _compute_downstream_blocked: the search from the failed nodes along the
\* reversed edges visits the least set closed under "depends on a member"
DownstreamBlocked(failed, p) ==
    {n \in PlanNodes(p) \ failed :
        \A visited \in SUBSET PlanNodes(p) :
            (/\ failed \subseteq visited
             /\ \A m \in PlanNodes(p) : p.deps[m] \cap visited # {} => m \in visited)
            => n \in visited}

\* detect_outcome
DetectOutcome(x, p) ==
    IF x.state \in {"failed", "cancelled", "completed"} THEN x.state
    ELSE IF PlanNodes(p) \subseteq x.completed THEN "completed"
    ELSE IF x.failed = {} THEN "executing"
    ELSE IF PlanNodes(p) \ (x.completed \cup x.failed \cup DownstreamBlocked(x.failed, p)) # {}
    THEN "executing" ELSE "blocked"

\* _advance_stage_if_needed: where the loop over complete stages stops
Frontier(x, p) ==
    CHOOSE k \in x.stage..Len(p.stages) :
        /\ \A i \in (x.stage + 1)..k : p.stages[i] \subseteq x.completed
        /\ k < Len(p.stages) => ~ (p.stages[k + 1] \subseteq x.completed)

\* it counts one version and emits one event, with the old index, per stage
Advanced(x, p) ==
    [x EXCEPT !.stage = Frontier(x, p), !.version = @ + (Frontier(x, p) - x.stage)]

AdvanceEvents(x, p) ==
    [i \in 1..(Frontier(x, p) - x.stage) |->
        NodeEvent("stage_advanced", NoNode, x.stage + i - 1)]

\* the tail of both record functions: a state change when the outcome demands it
Settled(x, events, outcome, changes) ==
    IF outcome \in changes
    THEN [raises |-> outcome \notin ExecutionMoves[x.state],
          exec   |-> Moved(x, outcome),
          events |-> Append(events, MoveEvent(x, outcome))]
    ELSE [raises |-> FALSE, exec |-> x, events |-> events]

\* mutant: no look at the blocked outcome
NodeCompletedUnblocked(x, p, n) ==
    LET marked == [x EXCEPT !.completed = @ \cup {n}, !.version = @ + 1]
        moved  == Advanced(marked, p)
    IN  Settled(moved,
                <<NodeEvent("node_completed", n, x.stage)>> \o AdvanceEvents(marked, p),
                DetectOutcome(moved, p), {"completed"})

\* record_node_completed
NodeCompleted(x, p, n) ==
    LET marked == [x EXCEPT !.completed = @ \cup {n}, !.version = @ + 1]
        moved  == Advanced(marked, p)
    IN  Settled(moved,
                <<NodeEvent("node_completed", n, x.stage)>> \o AdvanceEvents(marked, p),
                DetectOutcome(moved, p), {"completed", "blocked"})

\* mutant: one attempt too many
RetryLeftLate(attempts, p, n) == attempts[n] <= p.max[n]

\* attempts_made < max_attempts, the failed attempt included
RetryLeft(attempts, p, n) == attempts[n] < p.max[n]

\* record_node_failed: the node stays ready while another attempt is allowed
NodeFailed(x, p, n) ==
    LET tried == [x EXCEPT !.attempts[n] = @ + 1, !.version = @ + 1]
        given == [tried EXCEPT !.failed = @ \cup {n}]
    IN  IF RetryLeft(tried.attempts, p, n)
        THEN [raises |-> FALSE, exec |-> tried,
              events |-> <<NodeEvent("node_retry", n, x.stage)>>]
        ELSE Settled(given, <<NodeEvent("node_failed", n, x.stage)>>,
                     DetectOutcome(given, p), {"blocked"})

-----------------------------------------------------------------------------
(* replay.py *)

\* the positions of the events of one type, and the last of some positions
At(events, type) == {i \in DOMAIN events : events[i].type = type}
LastOf(positions) == CHOOSE i \in positions : \A j \in positions : j <= i

\* the events that change the execution, each one version
Counted(events) == DOMAIN events \ At(events, "node_submitted")

\* mutant: only the final failure of a node counts as an attempt
AttemptsAt(events, n) == {i \in At(events, "node_failed") : events[i].node = n}

\* the events that record a failed attempt of node n
Attempts(events, n) ==
    {i \in At(events, "node_failed") \cup At(events, "node_retry") : events[i].node = n}

\* The loop that replay_execution and replay_from_snapshot share, field by
\* field: the last transition gives the state, the last advance the stage,
\* nodes are collected, failed attempts and versions are counted.
Applied(x, events) ==
    LET moves    == At(events, "state_transition")
        advances == At(events, "stage_advanced")
    IN
    [state |-> IF moves = {} THEN x.state ELSE events[LastOf(moves)].new,
     stage |-> IF advances = {} THEN x.stage ELSE events[LastOf(advances)].stage + 1,
     completed |-> x.completed \cup {events[i].node : i \in At(events, "node_completed")},
     failed |-> x.failed \cup {events[i].node : i \in At(events, "node_failed")},
     attempts |-> [n \in DOMAIN x.attempts |->
                    x.attempts[n] + Cardinality(Attempts(events, n))],
     version |-> x.version + Cardinality(Counted(events))]

\* replay_execution starts from nothing, with version 0
Replayed(events, p) == Applied([Initialized(p) EXCEPT !.version = 0], events)

\* the transitions follow VALID_WORKFLOW_EXECUTION_TRANSITIONS from `state' on
MovesFrom(state, events) ==
    LET moves == At(events, "state_transition") IN
    \A i \in moves :
        LET before == {j \in moves : j < i}
            old    == IF before = {} THEN state ELSE events[LastOf(before)].new
        IN  old # NoStatus => events[i].new \in ExecutionMoves[old]

NothingAfterTerminal(events) ==
    \A i \in At(events, "state_transition") :
        events[i].new \in TerminalExecutionState => i = Len(events)

\* no node completes twice or fails after it completed, given those completed
NodesOnce(completed, events) ==
    \A j \in DOMAIN events :
        events[j].type \in {"node_completed", "node_failed"} =>
            /\ events[j].node \notin completed
            /\ \A i \in At(events, "node_completed") :
                 i < j => events[i].node # events[j].node

\* validate_lineage finds no error
LineageValid(events) ==
    /\ events # <<>>
    /\ events[1].type = "state_transition" /\ events[1].new = "initialized"
    /\ MovesFrom(NoStatus, events)
    /\ LET moves == At(events, "state_transition") IN
       \A i \in moves : i > 1 /\ events[i].old # NoStatus =>
         events[i].old = events[LastOf({j \in moves : j < i})].new
    /\ NothingAfterTerminal(events)
    /\ NodesOnce({}, events)

\* _validate_delta_events finds no error
DeltaValid(snapshot, events) ==
    events # <<>> =>
        /\ snapshot.state \notin TerminalExecutionState
        /\ MovesFrom(snapshot.state, events)
        /\ NothingAfterTerminal(events)
        /\ NodesOnce(snapshot.completed, events)

=============================================================================
