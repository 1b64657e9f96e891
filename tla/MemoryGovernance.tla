-------------------------- MODULE MemoryGovernance --------------------------
(***************************************************************************)
(* memory/service.py: the status of events, the links between them with    *)
(* the contradictions, and the confidence revisions with their approval.   *)
(* The operators Detect... are the reports of memory/governance.py.        *)
(***************************************************************************)
EXTENDS DatabaseCallers, MemoryEvents

CONSTANTS
    Confidences,     \* confidence values, 1..5
    Statuses,        \* statuses the operators give events
    Relations,       \* relationships the operators ask link_memory_events for
    MaxGovernance,   \* bound: rows of the four tables, with a single writer
    MaxContended     \* bound: the same when several writers race

\* VALID_RELATIONSHIPS
Relationships == {"supports", "contradicts", "supersedes", "refines", "derived_from",
                  "related_to", "blocks", "depends_on"}

ASSUME GovernanceAssumption ==
    /\ Confidences \subseteq 1..5
    /\ Statuses \subseteq MemoryStatus
    /\ Relations \subseteq Relationships
    /\ MaxGovernance \in Nat /\ MaxContended \in Nat

VARIABLES
    links,   \* memory_links; `attributed': created_by and reason are set; `seen' is
             \* a ghost: revisions when the ends were read
    confs    \* confidence_revisions; `from' is approved_candidate_revision_id

governanceVars == <<memory, revisions, links, confs>>

Live == {"active", "accepted"}

NoRevision == 0
NoArtifact == 0

GovernanceInit == memory = <<>> /\ revisions = <<>> /\ links = <<>> /\ confs = <<>>

GovernanceRoom ==
    Len(memory) + Len(revisions) + Len(links) + Len(confs) <
        Bound(MaxGovernance, MaxContended)

-----------------------------------------------------------------------------
\* add_memory_event with its confidence; one INSERT
AddEvent(c, confidence, status) ==
    /\ call[c] = Idle /\ GovernanceRoom
    /\ AddMemoryEvent([confidence |-> confidence, source |-> NoArtifact], status)
    /\ UNCHANGED <<links, confs, call>>

\* update_status: the row is read ...
StartUpdate(c, m, status) ==
    /\ GovernanceRoom
    /\ Begin(c, [at |-> "update", memory |-> m, old |-> memory[m].status,
                  version |-> memory[m].version, new |-> status])
    /\ UNCHANGED governanceVars

\* ... and written with its revision
Update(c) ==
    /\ Resume(c, "update")
    /\ WriteStatus(call[c].memory, call[c].old, call[c].version, call[c].new)
    /\ Return(c)
    /\ UNCHANGED <<links, confs>>

LinkRow(s, t, rel, attributed, seen) ==
    [source |-> s, target |-> t, relation |-> rel, status |-> "active",
     attributed |-> attributed, seen |-> seen]

\* UNIQUE (source_id, target_id, relationship)
LinkExists(s, t, rel) ==
    \E i \in DOMAIN links : /\ links[i].source = s /\ links[i].target = t
                            /\ links[i].relation = rel

\* link_memory_events: any relationship except contradicts, between any events, and
\* without created_by
LinkEvents(c, s, t, rel) ==
    /\ rel # "contradicts"
    /\ ~LinkExists(s, t, rel)
    /\ call[c] = Idle /\ GovernanceRoom
    /\ links' = Append(links, LinkRow(s, t, rel, FALSE, Len(revisions)))
    /\ UNCHANGED <<memory, revisions, confs, call>>

\* mutant: only the source is checked
StartContradictionLax(c, s, t) ==
    /\ memory[s].status \in Live
    /\ ~LinkExists(s, t, "contradicts")
    /\ GovernanceRoom
    /\ Begin(c, [at |-> "contradict", source |-> s, target |-> t,
                  seen |-> Len(revisions)])
    /\ UNCHANGED governanceVars

\* create_contradiction_link: both ends are live and the pair has no contradicts
\* row in this direction, active or retracted ...
StartContradiction(c, s, t) ==
    /\ memory[s].status \in Live /\ memory[t].status \in Live
    /\ ~LinkExists(s, t, "contradicts")
    /\ GovernanceRoom
    /\ Begin(c, [at |-> "contradict", source |-> s, target |-> t,
                  seen |-> Len(revisions)])
    /\ UNCHANGED governanceVars

\* ... then the INSERT, which the UNIQUE constraint refuses after a race
Contradict(c) ==
    LET k == call[c] IN
    /\ Resume(c, "contradict")
    /\ links' = IF LinkExists(k.source, k.target, "contradicts") THEN links
                ELSE Append(links, LinkRow(k.source, k.target, "contradicts", TRUE, k.seen))
    /\ Return(c)
    /\ UNCHANGED <<memory, revisions, confs>>

\* retract_contradiction_link: no step makes a retracted link active again, so
\* the check and the UPDATE are one step
RetractContradiction(c, l) ==
    /\ call[c] = Idle
    /\ links[l].relation = "contradicts" /\ links[l].status = "active"
    /\ links' = [links EXCEPT ![l].status = "retracted"]
    /\ UNCHANGED <<memory, revisions, confs, call>>

-----------------------------------------------------------------------------
OperatorRevisions(m) ==
    {i \in DOMAIN confs : confs[i].memory = m /\ confs[i].type = "operator"}

ActiveRevisions(m) == {i \in OperatorRevisions(m) : confs[i].status = "active"}

\* get_effective_confidence
EffectiveConfidence(m) ==
    IF ActiveRevisions(m) = {} THEN memory[m].origin.confidence
                               ELSE confs[LastOf(ActiveRevisions(m))].after

\* revise_confidence: confidence_before is read over a connection of its own ...
StartRevise(c, m, after, type) ==
    /\ GovernanceRoom
    /\ Begin(c, [at |-> "revise", memory |-> m, before |-> EffectiveConfidence(m),
                  after |-> after, type |-> type, from |-> NoRevision])
    /\ UNCHANGED governanceVars

\* approve_confidence_revision: the candidate must be proposed; it stays so, and
\* the call goes on as a revision by the operator ...
StartApprove(c, r) ==
    /\ confs[r].type = "candidate" /\ confs[r].status = "proposed"
    /\ GovernanceRoom
    /\ Begin(c, [at |-> "approve", memory |-> confs[r].memory,
                  after |-> confs[r].after, type |-> "operator", from |-> r])
    /\ UNCHANGED governanceVars

\* ... which reads confidence_before as any other
ReadEffective(c) ==
    LET k == call[c] IN
    /\ Resume(c, "approve")
    /\ Continue(c, [at |-> "revise", memory |-> k.memory, after |-> k.after,
                    before |-> EffectiveConfidence(k.memory), type |-> k.type,
                    from |-> k.from])
    /\ UNCHANGED governanceVars

\* mutant: the operator revisions of every event are superseded
SupersedeAllRevisions(m) ==
    [i \in DOMAIN confs |-> IF confs[i].type = "operator"
                            THEN [confs[i] EXCEPT !.status = "superseded"] ELSE confs[i]]

\* UPDATE ... SET status = 'superseded' for the event's active operator revisions
SupersedeRevisions(m) ==
    [i \in DOMAIN confs |-> IF i \in ActiveRevisions(m)
                            THEN [confs[i] EXCEPT !.status = "superseded"] ELSE confs[i]]

\* ... and one transaction supersedes the event's operator revision and inserts
\* the new row, or inserts a proposed candidate
WriteRevision(c) ==
    LET k == call[c]
        row(s) == [memory |-> k.memory, before |-> k.before, after |-> k.after,
                   type |-> k.type, status |-> s, from |-> k.from]
    IN
    /\ Resume(c, "revise")
    /\ confs' = IF k.type = "operator"
                THEN Append(SupersedeRevisions(k.memory), row("active"))
                ELSE Append(confs, row("proposed"))
    /\ Return(c)
    /\ UNCHANGED <<memory, revisions, links>>

\* reject_candidate_revision; nothing else changes a candidate, so one step
RejectCandidate(c, r) ==
    /\ call[c] = Idle
    /\ confs[r].type = "candidate" /\ confs[r].status = "proposed"
    /\ confs' = [confs EXCEPT ![r].status = "rejected"]
    /\ UNCHANGED <<memory, revisions, links, call>>

\* what the service does with the events that are there
ReviewCall(c) ==
    \/ \E m \in MemoryId, status \in Statuses : StartUpdate(c, m, status)
    \/ Update(c)
    \/ \E s, t \in MemoryId : \/ \E rel \in Relations : LinkEvents(c, s, t, rel)
                             \/ StartContradiction(c, s, t)
    \/ Contradict(c)
    \/ \E l \in DOMAIN links : RetractContradiction(c, l)
    \/ \E m \in MemoryId, after \in Confidences, type \in {"operator", "candidate"} :
         StartRevise(c, m, after, type)
    \/ \E r \in DOMAIN confs : StartApprove(c, r) \/ RejectCandidate(c, r)
    \/ ReadEffective(c) \/ WriteRevision(c)

GovernanceCall(c) ==
    \/ \E confidence \in Confidences, status \in Statuses : AddEvent(c, confidence, status)
    \/ ReviewCall(c)

GovernanceStep(c) ==
    \/ GovernanceCall(c)
    \/ Die(c) /\ UNCHANGED governanceVars

-----------------------------------------------------------------------------
\* detect_conflicts: active contradictions between live events
DetectConflicts ==
    {l \in DOMAIN links : /\ links[l].relation = "contradicts"
                          /\ links[l].status = "active"
                          /\ memory[links[l].source].status \in Live
                          /\ memory[links[l].target].status \in Live}

\* detect_unreviewed_confidence_candidates, for candidates that are old enough
DetectUnreviewedCandidates ==
    {r \in DOMAIN confs : confs[r].type = "candidate" /\ confs[r].status = "proposed"}

(* Properties *)

\* revise_confidence and approve_confidence_revision: whoever writes and however
\* often a candidate is approved, an event with operator revisions has exactly
\* one active one, the last, and it is the effective confidence.  An approval
\* carries its candidate's value to the candidate's own event, and the report of
\* unreviewed candidates loses a candidate only by a rejection.  With a single
\* writer every revision starts from what the one before it had made effective.
ConfidenceChains ==
    LET before(i) == {j \in OperatorRevisions(confs[i].memory) : j < i} IN
    /\ \A m \in MemoryId :
         LET ops == OperatorRevisions(m) IN
         ops # {} => /\ ActiveRevisions(m) = {LastOf(ops)}
                     /\ EffectiveConfidence(m) = confs[LastOf(ops)].after
    /\ \A i \in DOMAIN confs :
         /\ confs[i].from # NoRevision =>
              LET r == confs[confs[i].from] IN
              /\ confs[i].from < i /\ r.type = "candidate"
              /\ r.memory = confs[i].memory /\ r.after = confs[i].after
         /\ confs[i].type = "candidate" /\ confs[i].status # "rejected" =>
              i \in DetectUnreviewedCandidates
         /\ SingleWriter => confs[i].before =
              IF before(i) = {} THEN memory[confs[i].memory].origin.confidence
                                ELSE confs[LastOf(before(i))].after

\* create_contradiction_link: no pair has two rows in one direction, and a
\* contradiction that nobody retracted is reported by detect_conflicts or one of
\* its events has left active and accepted by a revision that was written after
\* the ends were checked; this holds however the calls race.
ContradictionsSurface ==
    /\ \A i, j \in DOMAIN links :
         /\ links[i].source = links[j].source /\ links[i].target = links[j].target
         /\ links[i].relation = links[j].relation
         => i = j
    /\ \A l \in DOMAIN links \ DetectConflicts :
         links[l].relation = "contradicts" /\ links[l].status = "active" =>
           \E i \in links[l].seen + 1 .. Len(revisions) :
             /\ revisions[i].memory \in {links[l].source, links[l].target}
             /\ revisions[i].new \notin Live
             /\ memory[revisions[i].memory].status \notin Live

=============================================================================
