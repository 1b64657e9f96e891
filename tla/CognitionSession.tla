-------------------------- MODULE CognitionSession --------------------------
(***************************************************************************)
(* session/reconstruction.py, the log of context assemblies and the        *)
(* sessions over it; session/activation_policy.py and session/execution.py,*)
(* the policies that produce assemblies.  What an assembly holds is        *)
(* abstract here (ContextAssembly models how it is computed).              *)
(***************************************************************************)
EXTENDS DatabaseCallers, ActivationTriggers

CONSTANTS
    Keys,        \* session keys: fingerprints of a context policy
    Contents,    \* what a reconstruction yields, its created_at included
    Rules,       \* [class, conditions] policies are created with
    Events,      \* trigger events callers bring
    MaxLog       \* bounds on rows, with one and with several writers:
                 \* [assemblies, sessions, transitions, policies, decisions]

\* operator_id is in the event or is not
ASSUME SessionAssumption == \A event \in Events : event.operator \in BOOLEAN

VARIABLES
    asms,       \* context_assembly_log; (key, content) stands for assembly_hash
    sessions,   \* cognition_session
    trans,      \* assembly_transition_log; `given' (from_assembly_id passed by the
                \* caller) and `late' (its session was closed by then) are ghosts
    policies,   \* activation_policies
    decisions,  \* activation_decision_log
    orphans     \* ghost: transitions whose policy execution died or failed

sessionVars == <<asms, sessions, trans, policies, decisions, orphans>>

None == 0

SessionInit ==
    /\ asms = <<>> /\ sessions = <<>> /\ trans = <<>>
    /\ policies = <<>> /\ decisions = <<>> /\ orphans = {}

Room(table, name) ==
    Len(table) < Bound(MaxLog.single[name], MaxLog.racing[name])

TransitionsOf(s) == {t \in DOMAIN trans : trans[t].session = s}

\* get_session_assemblies and replay_session_timeline: by sequence_index
Timeline(s) ==
    [n \in 1..Cardinality(TransitionsOf(s)) |->
        LET t == CHOOSE t \in TransitionsOf(s) :
                   Cardinality({u \in TransitionsOf(s) :
                                  trans[u].index < trans[t].index}) = n - 1
        IN trans[t].to]

-----------------------------------------------------------------------------
\* the policy execution that a call belongs to: the row it read, and what fired
Execution(p, event) ==
    [policy |-> p, snapshot |-> policies[p], event |-> event,
     outcome |-> EvaluateTrigger(policies[p], event)]

NoExecution == [policy |-> None]

\* log_assembly, called on its own ...
StartLog(c, key, content) ==
    /\ Room(asms, "assemblies")
    /\ Begin(c, [at |-> "find", key |-> key, content |-> content, session |-> None,
                 exec |-> NoExecution])
    /\ UNCHANGED sessionVars

\* ... or by execute_activation_policy: the policy is read, and fires
StartExecute(c, p, event, key, content, session) ==
    LET exec == Execution(p, event) IN
    /\ exec.outcome.fired
    /\ Room(asms, "assemblies") /\ Room(decisions, "decisions")
    /\ Begin(c, [at |-> "find", key |-> key, content |-> content, session |-> session,
                 exec |-> exec])
    /\ UNCHANGED sessionVars

\* a call that is to log its decision
Deciding(exec, to, transition) ==
    [at |-> "decide", exec |-> exec, to |-> to, transition |-> transition]

\* execute_activation_policy with log_non_firing of a policy that does not fire
StartDecline(c, p, event) ==
    LET exec == Execution(p, event) IN
    /\ ~exec.outcome.fired
    /\ Room(decisions, "decisions")
    /\ Begin(c, Deciding(exec, None, None))
    /\ UNCHANGED sessionVars

AssemblyOf(key, content) ==
    {a \in DOMAIN asms : asms[a].key = key /\ asms[a].content = content}

\* what follows the assembly: the transition, the decision, or the return
Logged(c, a) ==
    LET k == call[c] IN
    IF k.exec = NoExecution THEN Return(c)
    ELSE Continue(c, IF k.session = None THEN Deciding(k.exec, a, None)
                     ELSE [at |-> "session", session |-> k.session, to |-> a,
                           from |-> None, exec |-> k.exec])

\* the SELECT by hash; a row that is there is returned, superseded or not
FindAssembly(c) ==
    LET k == call[c]
        found == AssemblyOf(k.key, k.content)
    IN
    /\ Resume(c, "find")
    /\ IF found # {} THEN Logged(c, LastOf(found))
       ELSE Continue(c, [k EXCEPT !.at = "log"])
    /\ UNCHANGED sessionVars

SupersedeAssemblies(key) ==
    [a \in DOMAIN asms |-> IF asms[a].key = key /\ asms[a].status = "active"
                           THEN [asms[a] EXCEPT !.status = "superseded"] ELSE asms[a]]

\* the transaction; assembly_hash is UNIQUE, and the IntegrityError after a race
\* ends an execution as well
WriteAssembly(c) ==
    LET k == call[c] IN
    /\ Resume(c, "log")
    /\ IF AssemblyOf(k.key, k.content) # {} THEN Return(c) /\ UNCHANGED asms
       ELSE /\ asms' = Append(SupersedeAssemblies(k.key),
                              [key |-> k.key, content |-> k.content, status |-> "active"])
            /\ Logged(c, Len(asms) + 1)
    /\ UNCHANGED <<sessions, trans, policies, decisions, orphans>>

-----------------------------------------------------------------------------
\* open_cognition_session: several may be open for a key
OpenSession(c, key) ==
    /\ call[c] = Idle /\ Room(sessions, "sessions")
    /\ sessions' = Append(sessions, [key |-> key, status |-> "active", count |-> 0,
                                     initial |-> None, latest |-> None])
    /\ UNCHANGED <<asms, trans, policies, decisions, orphans, call>>

\* close_cognition_session; a closed session stays closed, so one step
CloseSession(c, s) ==
    /\ call[c] = Idle
    /\ sessions[s].status = "active"
    /\ sessions' = [sessions EXCEPT ![s].status = "closed"]
    /\ UNCHANGED <<asms, trans, policies, decisions, orphans, call>>

\* log_assembly_transition on its own; `from' is not checked against anything
StartTransition(c, s, to, from) ==
    /\ Begin(c, [at |-> "session", session |-> s, to |-> to, from |-> from,
                 exec |-> NoExecution])
    /\ UNCHANGED sessionVars

\* what follows a transition: the return, or the decision
Moved(c, transition) ==
    IF call[c].exec = NoExecution THEN Return(c)
    ELSE Continue(c, Deciding(call[c].exec, call[c].to, transition))

\* the ValueError or IntegrityError of a transition; an execution goes on
TransitionFails(c) == Moved(c, None)

\* the session row is read first: the count and the pointers are taken from it ...
ReadSession(c) ==
    LET k == call[c] IN
    /\ Resume(c, "session")
    /\ IF sessions[k.session].status # "active" THEN TransitionFails(c)
       ELSE Continue(c, [at |-> "sequence", session |-> k.session, to |-> k.to,
                         from |-> k.from, exec |-> k.exec, row |-> sessions[k.session]])
    /\ UNCHANGED sessionVars

\* ... then MAX(sequence_index), for the next one ...
NextIndex(s) ==
    IF TransitionsOf(s) = {} THEN 0
    ELSE LastOf({trans[t].index : t \in TransitionsOf(s)}) + 1

ReadSequence(c) ==
    LET k == call[c] IN
    /\ Resume(c, "sequence")
    /\ Continue(c, [at |-> "append", session |-> k.session, to |-> k.to,
                    from |-> k.from, exec |-> k.exec, row |-> k.row,
                    index |-> NextIndex(k.session)])
    /\ UNCHANGED sessionVars

TransitionRow(k) ==
    [session |-> k.session, index |-> k.index, to |-> k.to,
     from |-> IF k.from = None THEN k.row.latest ELSE k.from,
     policy |-> k.exec.policy, given |-> k.from # None,
     late |-> sessions[k.session].status = "closed"]

SessionAfter(k) ==
    [sessions EXCEPT ![k.session].count = k.row.count + 1,
                     ![k.session].latest = k.to,
                     ![k.session].initial = IF k.row.initial = None THEN k.to ELSE @]

\* mutant: the log has no UNIQUE constraint
AppendAnyTransition(c) ==
    LET k == call[c] IN
    /\ Resume(c, "append")
    /\ Room(trans, "transitions")
    /\ trans' = Append(trans, TransitionRow(k))
    /\ sessions' = SessionAfter(k)
    /\ Moved(c, Len(trans) + 1)
    /\ UNCHANGED <<asms, policies, decisions, orphans>>

\* ... then one transaction for the row and its session, unless the index has been
\* taken: UNIQUE (cognition_session_id, sequence_index)
AppendTransition(c) ==
    LET k == call[c] IN
    /\ Resume(c, "append")
    /\ Room(trans, "transitions")
    /\ IF \E t \in TransitionsOf(k.session) : trans[t].index = k.index
       THEN TransitionFails(c) /\ UNCHANGED <<trans, sessions>>
       ELSE /\ trans' = Append(trans, TransitionRow(k))
            /\ sessions' = SessionAfter(k)
            /\ Moved(c, Len(trans) + 1)
    /\ UNCHANGED <<asms, policies, decisions, orphans>>

-----------------------------------------------------------------------------
\* create_activation_policy
CreatePolicy(c, rule) ==
    /\ call[c] = Idle /\ Room(policies, "policies")
    /\ policies' = Append(policies, [class |-> rule.class, conditions |-> rule.conditions,
                                     status |-> "candidate"])
    /\ UNCHANGED <<asms, sessions, trans, decisions, orphans, call>>

\* activate_activation_policy and supersede_activation_policy; a status is left
\* for one other only and never entered again, so one step each
MovePolicy(c, p, old, new) ==
    /\ call[c] = Idle
    /\ <<old, new>> \in {<<"candidate", "active">>, <<"active", "superseded">>}
    /\ policies[p].status = old
    /\ policies' = [policies EXCEPT ![p].status = new]
    /\ UNCHANGED <<asms, sessions, trans, decisions, orphans, call>>

DecisionRow(k) ==
    [policy |-> k.exec.policy, snapshot |-> k.exec.snapshot, event |-> k.exec.event,
     fired |-> k.exec.outcome.fired, artifacts |-> k.exec.outcome.artifacts,
     assembly |-> k.to, transition |-> k.transition]

\* mutant: the policy row is read again for the snapshot
LogDecisionCurrent(c) ==
    LET k == call[c] IN
    /\ Resume(c, "decide")
    /\ decisions' = Append(decisions, [DecisionRow(k) EXCEPT !.snapshot = policies[k.exec.policy]])
    /\ Return(c)
    /\ UNCHANGED <<asms, sessions, trans, policies, orphans>>

\* log_activation_decision, with the policy row that was evaluated
LogDecision(c) ==
    LET k == call[c] IN
    /\ Resume(c, "decide")
    /\ decisions' = Append(decisions, DecisionRow(k))
    /\ Return(c)
    /\ UNCHANGED <<asms, sessions, trans, policies, orphans>>

\* a death; a transition whose decision is still to be written is orphaned
SessionDeath(c) ==
    /\ Die(c)
    /\ orphans' = IF call[c].at = "decide" THEN orphans \cup ({call[c].transition} \ {None})
                  ELSE orphans
    /\ UNCHANGED <<asms, sessions, trans, policies, decisions>>

AssemblyStep(c) ==
    \/ \E key \in Keys, content \in Contents : StartLog(c, key, content)
    \/ FindAssembly(c) \/ WriteAssembly(c)

TransitionStep(c) ==
    \/ \E key \in Keys : OpenSession(c, key)
    \/ \E s \in DOMAIN sessions : CloseSession(c, s)
    \/ \E s \in DOMAIN sessions, to \in DOMAIN asms, from \in 0..Len(asms) + 1 :
         StartTransition(c, s, to, from)
    \/ ReadSession(c) \/ ReadSequence(c) \/ AppendTransition(c)

PolicyStep(c) ==
    \/ \E p \in DOMAIN policies, event \in Events :
         \/ StartDecline(c, p, event)
         \/ \E key \in Keys, content \in Contents, s \in DOMAIN sessions \cup {None} :
              StartExecute(c, p, event, key, content, s)
    \/ \E rule \in Rules : CreatePolicy(c, rule)
    \/ \E p \in DOMAIN policies, old, new \in PolicyStatus : MovePolicy(c, p, old, new)
    \/ LogDecision(c)

SessionStep(c) == AssemblyStep(c) \/ TransitionStep(c) \/ PolicyStep(c) \/ SessionDeath(c)

SessionNext == (\E c \in writers : SessionStep(c)) /\ UNCHANGED writers

SessionSpec ==
    CallersInit /\ SessionInit /\ [][SessionNext]_<<sessionVars, writers, call>>

-----------------------------------------------------------------------------
\* detect_stale_active_activation_policies, for policies that are old enough
DetectStalePolicies ==
    {p \in DOMAIN policies :
        /\ policies[p].status = "active"
        /\ ~\E d \in DOMAIN decisions : decisions[d].policy = p /\ decisions[d].fired}

\* detect_fired_decisions_without_assembly
DetectFiredWithoutAssembly ==
    {d \in DOMAIN decisions : decisions[d].fired /\ decisions[d].assembly = None}

\* check_lineage_integrity and detect_orphaned_transitions: the broken rows
BrokenLineage ==
    [decision |-> {d \in DOMAIN decisions :
                     decisions[d].assembly \notin DOMAIN asms \cup {None}},
     to       |-> {t \in DOMAIN trans : trans[t].to \notin DOMAIN asms},
     from     |-> {t \in DOMAIN trans : trans[t].from \notin DOMAIN asms \cup {None}},
     session  |-> {t \in DOMAIN trans : trans[t].session \notin DOMAIN sessions}]

\* replay_activation_decision restores the outcome from the row
ReplayDecision(d) == Outcome(decisions[d].fired, decisions[d].artifacts)

(* Properties *)

\* log_assembly and log_assembly_transition, whoever writes: a key has one active
\* assembly, its newest row; the sequence indices of a session are 0, 1, ... in
\* the order of the rows, so its timeline replays every transition once; and a
\* session has pointers as soon as it has rows, all into its own timeline.  With
\* a single writer the count and the pointers are exact, each transition starts
\* where the one before it ended unless the caller said otherwise, and none is
\* written after the close.
TimelineHolds ==
    /\ \A key \in {asms[a].key : a \in DOMAIN asms} :
         LET rows == {a \in DOMAIN asms : asms[a].key = key} IN
         {a \in rows : asms[a].status = "active"} = {LastOf(rows)}
    /\ \A s \in DOMAIN sessions :
         LET ids == TransitionsOf(s)
             row == sessions[s]
             line == Timeline(s)
             before(t) == {u \in ids : u < t}
         IN
         /\ \A t \in ids : trans[t].index = Cardinality(before(t))
         /\ row.count <= Len(line)
         /\ IF ids = {} THEN row.initial = None /\ row.latest = None
            ELSE {row.initial, row.latest} \subseteq {line[n] : n \in DOMAIN line}
         /\ SingleWriter =>
              /\ row.count = Len(line)
              /\ ids # {} => row.initial = line[1] /\ row.latest = line[Len(line)]
              /\ \A t \in ids : /\ ~trans[t].late
                                /\ trans[t].given \/ trans[t].from =
                                     IF before(t) = {} THEN None ELSE trans[LastOf(before(t))].to

\* execute_activation_policy and replay_activation_decision: a decision replays to
\* what its own snapshot of the policy and its event give, whatever became of the
\* policy since, and only an active policy fired; a decision that fired has its
\* assembly, and its transition leads there for the same policy.  A transition of
\* a policy belongs to exactly one decision, to an execution that is running, or
\* to one that died, which alone lets a policy that was used look stale; and the
\* lineage reports name a caller's own from_assembly_id and nothing else.
DecisionsAreExplained ==
    /\ \A d \in DOMAIN decisions :
         LET row == decisions[d] IN
         /\ ReplayDecision(d) = EvaluateTrigger(row.snapshot, row.event)
         /\ row.fired => row.snapshot.status = "active"
         /\ row.fired <=> row.assembly # None
         /\ row.transition # None => /\ trans[row.transition].to = row.assembly
                                     /\ trans[row.transition].policy = row.policy
    /\ \A t \in {t \in DOMAIN trans : trans[t].policy # None} :
         Cardinality({d \in DOMAIN decisions : decisions[d].transition = t})
           + Cardinality({c \in Callers : call[c].at = "decide" /\ call[c].transition = t})
           + Cardinality(orphans \cap {t}) = 1
    /\ DetectFiredWithoutAssembly = {}
    /\ \A t \in DOMAIN trans : trans[t].policy \in DetectStalePolicies =>
         t \in orphans \/ \E c \in Callers : call[c].at = "decide" /\ call[c].transition = t
    /\ BrokenLineage.decision = {} /\ BrokenLineage.to = {} /\ BrokenLineage.session = {}
    /\ \A t \in BrokenLineage.from : trans[t].given

=============================================================================
