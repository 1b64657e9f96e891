-------------------------- MODULE ContextAssembly ---------------------------
(***************************************************************************)
(* session/reconstruction.py reconstruct: the context of a session from    *)
(* the memory database.  memory/retrieval.py is called up to five times,   *)
(* each time over connections of its own, session/activation.py ranks what *)
(* came back, session/context_window.py cuts it to the budget, and then    *)
(* the contradictions inside it are read.  Other processes write between   *)
(* any two of these reads.                                                 *)
(***************************************************************************)
EXTENDS MemoryGovernance

CONSTANTS
    Memories,   \* contents of memory_events and memory_links to start from
    Policies    \* context policies; workflows and runtimes are the sizes of the
                \* items that come from the two other databases

VARIABLE context   \* the last reconstruction; `since' (the tables when it began)
                   \* and `activated' are ghosts

NoContext == [policy |-> "none"]

\* VALID_EVENT_TYPES
EventTypes == {"architecture_decision", "governance_rule", "hypothesis", "experiment",
               "validation_result", "adaptation", "regime_observation",
               "implementation_note", "open_question", "rejected_idea", "incident",
               "source_reference"}

GovernanceTypes == {"governance_rule", "architecture_decision"}
InvestigationTypes == {"open_question", "hypothesis"}
Unresolved == {"unresolved", "proposed"}
Excluded == {"rejected", "superseded", "archived", "deprecated"}

\* the columns of an event that the passes and the window read and nobody changes
Origin == [confidence : 1..5, source : {NoArtifact}, type : EventTypes, size : Nat,
           tagged : BOOLEAN, related : SUBSET Nat]

ASSUME ContextAssumption ==
    /\ \A m \in Memories :
         /\ m.events \in Seq([origin : Origin, status : MemoryStatus, version : Nat])
         /\ m.links \in Seq([source : DOMAIN m.events, target : DOMAIN m.events,
                            relation : Relationships, status : {"active", "retracted"},
                            attributed : BOOLEAN, seen : Nat])
    /\ Policies \subseteq
         [tagged : BOOLEAN, min : Nat, unresolved : BOOLEAN, investigations : BOOLEAN,
          adaptations : BOOLEAN, expand : BOOLEAN, candidates : Nat, chars : Nat,
          entries : Nat, governanceChars : Nat, investigationChars : Nat, ruleChars : Nat,
          decisionChars : Nat, workflows : Seq(Nat), runtimes : Seq(Nat)]

\* DOCTRINE_PRIORITY
Doctrine(type) ==
    CASE type = "governance_rule" -> 1
      [] type = "architecture_decision" -> 2
      [] type = "validation_result" -> 3
      [] type = "adaptation" -> 4
      [] type = "hypothesis" -> 5
      [] type = "implementation_note" -> 6
      [] OTHER -> 7

ContextInit ==
    /\ \E m \in Memories : memory = m.events /\ links = m.links
    /\ revisions = <<>> /\ confs = <<>>
    /\ context = NoContext

\* the later of two keys that are compared column by column
Before(k, l) ==
    \E i \in DOMAIN k : k[i] < l[i] /\ \A j \in 1..i - 1 : k[j] = l[j]

Flag(b) == IF b THEN 1 ELSE 0

\* the rows in the order of their keys
SortedBy(rows, key) ==
    [i \in 1..Cardinality(rows) |->
       CHOOSE r \in rows : Cardinality({s \in rows : Before(key[s], key[r])}) = i - 1]

-----------------------------------------------------------------------------
\* updated_at; every update in a second of its own
UpdatedAt(m) == IF RevisionsOf(m) = {} THEN 0 ELSE LastOf(RevisionsOf(m))

\* _assign_recency_ranks
Recency(ids, m) ==
    Cardinality({n \in ids : Before(<<UpdatedAt(m), m>>, <<UpdatedAt(n), n>>)})

\* _score_events; a row is a snapshot of its event
Score(ids, query, expanded) ==
    {[id |-> m, type |-> memory[m].origin.type, status |-> memory[m].status,
      confidence |-> memory[m].origin.confidence, size |-> memory[m].origin.size,
      expanded |-> expanded, recency |-> Recency(ids, m),
      overlap |-> Flag(query.tagged /\ memory[m].origin.tagged)] : m \in ids}

\* _fetch_candidates: min_confidence is compared with the stored confidence
Matches(query) ==
    {m \in MemoryId : /\ memory[m].origin.type \in query.types
                      /\ memory[m].status \in query.statuses
                      /\ memory[m].origin.confidence >= query.min
                      /\ query.tagged => memory[m].origin.tagged}

\* _expand_related: the other ends of all links, of whatever type and status, and
\* the events that the related_ids name; an id of no event is not found
Related(ids) ==
    LET touching == {l \in DOMAIN links : {links[l].source, links[l].target} \cap ids # {}}
        ends == UNION {{links[l].source, links[l].target} : l \in touching}
        named == UNION {memory[m].origin.related : m \in ids}
    IN ((ends \cup named) \cap MemoryId) \ ids

Ids(rows) == {r.id : r \in rows}

\* ScoredEvent.composite_key
CompositeKey(r) ==
    <<Flag(r.expanded), Doctrine(r.type), 5 - r.confidence, r.recency, 1 - r.overlap, r.id>>

\* the rest of retrieve: expansion, effective confidences, order and limit
Retrieved(rows, query) ==
    LET all == rows \cup IF query.expand THEN Score(Related(Ids(rows)), query, TRUE) ELSE {}
        scored == {[r EXCEPT !.confidence = EffectiveConfidence(r.id)] : r \in all}
        ahead(r) == {s \in scored : Before(CompositeKey(s), CompositeKey(r))}
    IN {r \in scored : Cardinality(ahead(r)) < query.limit}

\* mutant: the general pass does not leave the governance events out
PassesAllTypes(policy) ==
    LET query(types, statuses, min, tagged, expand) ==
          [types |-> types, statuses |-> statuses, min |-> min, tagged |-> tagged,
           expand |-> expand, limit |-> policy.candidates]
        optional(wanted, q) == IF wanted THEN <<q>> ELSE <<>>
    IN <<query(GovernanceTypes, Live, 1, FALSE, FALSE)>>
       \o optional(policy.unresolved, query(EventTypes, Unresolved, 1, FALSE, FALSE))
       \o optional(policy.investigations,
                   query(InvestigationTypes, Live, policy.min, FALSE, FALSE))
       \o optional(policy.adaptations,
                   query({"adaptation"}, MemoryStatus, policy.min, policy.tagged, FALSE))
       \o <<query(EventTypes, Live, policy.min, policy.tagged, policy.expand)>>

\* the passes of activate_memory
Passes(policy) ==
    LET query(types, statuses, min, tagged, expand) ==
          [types |-> types, statuses |-> statuses, min |-> min, tagged |-> tagged,
           expand |-> expand, limit |-> policy.candidates]
        optional(wanted, q) == IF wanted THEN <<q>> ELSE <<>>
    IN <<query(GovernanceTypes, Live, 1, FALSE, FALSE)>>
       \o optional(policy.unresolved, query(EventTypes, Unresolved, 1, FALSE, FALSE))
       \o optional(policy.investigations,
                   query(InvestigationTypes, Live, policy.min, FALSE, FALSE))
       \o optional(policy.adaptations,
                   query({"adaptation"}, MemoryStatus, policy.min, policy.tagged, FALSE))
       \o <<query(EventTypes \ GovernanceTypes, Live, policy.min, policy.tagged,
                  policy.expand)>>

\* _add: an event is taken from the first pass that returns it
AddUnseen(got, rows) == got \cup {r \in rows : r.id \notin Ids(got)}

-----------------------------------------------------------------------------
\* _activation_rank
ActivationKey(policy, r) ==
    LET tier == CASE r.type \in GovernanceTypes -> 0
                  [] policy.unresolved /\ r.status \in Unresolved
                       /\ r.type \notin GovernanceTypes -> 1
                  [] OTHER -> 2 + Flag(r.expanded)
    IN <<tier, Doctrine(r.type), 5 - r.confidence, r.recency, 1 - r.overlap, r.id>>

\* score_and_rank
Activated(policy, rows) == SortedBy(rows, [r \in rows |-> ActivationKey(policy, r)])

\* partition_by_section; a governance event that is unresolved is in two sections
InSection(tier, r) ==
    LET governance == r.type \in GovernanceTypes /\ r.status \notin Excluded
        unresolved == r.status \in Unresolved
        investigation == r.type \in InvestigationTypes /\ ~unresolved
    IN CASE tier = 0 -> governance
         [] tier = 1 -> unresolved
         [] tier = 3 -> investigation
         [] tier = 4 -> /\ ~governance /\ ~unresolved /\ ~investigation
                        /\ r.status \notin Excluded

\* the candidates of the window, tier by tier; sizes include the separator
Items(policy, rows) ==
    LET section(tier) ==
          LET chosen == Activated(policy, {r \in rows : InSection(tier, r)}) IN
          [i \in DOMAIN chosen |-> [tier |-> tier, row |-> chosen[i], size |-> chosen[i].size]]
        others(tier, sizes) ==
          [i \in DOMAIN sizes |-> [tier |-> tier, size |-> sizes[i]]]
    IN section(0) \o section(1) \o others(2, policy.workflows) \o section(3)
         \o section(4) \o others(5, policy.runtimes)

SubBudgets(policy) == policy.ruleChars > 0 /\ policy.decisionChars > 0

\* _fits, _governance_fits and _investigation_fits
Fits(policy, used, item) ==
    /\ used.chars + item.size <= policy.chars
    /\ used.entries < policy.entries
    /\ item.tier = 0 =>
         IF SubBudgets(policy)
         THEN IF item.row.type = "governance_rule"
              THEN used.rule + item.size <= policy.ruleChars
              ELSE used.decision + item.size <= policy.decisionChars
         ELSE policy.governanceChars > 0 =>
                used.governance + item.size <= policy.governanceChars
    /\ item.tier = 3 /\ policy.investigationChars > 0 =>
         used.investigation + item.size <= policy.investigationChars

\* mutant: the sub-budget of a governance type is not charged
AcceptUncharged(policy, used, item, i) ==
    [used EXCEPT
        !.chars = @ + item.size, !.entries = @ + 1, !.kept = @ \cup {i},
        !.governance = IF item.tier = 0 THEN @ + item.size ELSE @,
        !.investigation = IF item.tier = 3 THEN @ + item.size ELSE @]

\* _accept, _accept_governance and _accept_investigation
Accept(policy, used, item, i) ==
    LET governance(type) == /\ item.tier = 0 /\ SubBudgets(policy)
                            /\ item.row.type = type
    IN [used EXCEPT
          !.chars = @ + item.size, !.entries = @ + 1, !.kept = @ \cup {i},
          !.governance = IF item.tier = 0 THEN @ + item.size ELSE @,
          !.rule = IF governance("governance_rule") THEN @ + item.size ELSE @,
          !.decision = IF governance("architecture_decision") THEN @ + item.size ELSE @,
          !.investigation = IF item.tier = 3 THEN @ + item.size ELSE @]

NothingUsed == [chars |-> 0, entries |-> 0, governance |-> 0, rule |-> 0, decision |-> 0,
                investigation |-> 0, kept |-> {}]

\* apply_context_budget: one pass; what does not fit is skipped
ApplyBudget(policy, items) ==
    LET used[n \in 0..Len(items)] ==
          IF n = 0 THEN NothingUsed
          ELSE LET u == used[n - 1] IN
               IF Fits(policy, u, items[n]) THEN Accept(policy, u, items[n], n) ELSE u
    IN used[Len(items)]

\* the ids of a window: all_included_ids
IncludedIds(items, kept) == {items[i].row.id : i \in {i \in kept : items[i].tier \notin {2, 5}}}

\* resolve_assembly_contradictions
ContradictionsAmong(ids) ==
    {l \in DOMAIN links : /\ links[l].relation = "contradicts" /\ links[l].status = "active"
                          /\ links[l].source \in ids /\ links[l].target \in ids}

-----------------------------------------------------------------------------
StartReconstruct(c, policy) ==
    /\ Begin(c, [at |-> "fetch", policy |-> policy, pass |-> 1, got |-> {},
                 since |-> governanceVars])
    /\ UNCHANGED <<governanceVars, context>>

\* one pass reads its candidates ...
Fetch(c) ==
    LET k == call[c]
        query == Passes(k.policy)[k.pass] IN
    /\ Resume(c, "fetch")
    /\ Continue(c, [at |-> "score", policy |-> k.policy, pass |-> k.pass, got |-> k.got,
                    since |-> k.since, rows |-> Score(Matches(query), query, FALSE)])
    /\ UNCHANGED <<governanceVars, context>>

\* ... and then the links and the confidence revisions
FinishPass(c) ==
    LET k == call[c]
        query == Passes(k.policy)[k.pass] IN
    /\ Resume(c, "score")
    /\ Continue(c, [at |-> IF k.pass = Len(Passes(k.policy)) THEN "assemble" ELSE "fetch",
                    policy |-> k.policy, pass |-> k.pass + 1, since |-> k.since,
                    got |-> AddUnseen(k.got, Retrieved(k.rows, query))])
    /\ UNCHANGED <<governanceVars, context>>

\* the context made from what the passes returned
ContextOf(policy, got, since) ==
    LET items == Items(policy, got)
        used == ApplyBudget(policy, items)
    IN [policy |-> policy, items |-> items, kept |-> used.kept, chars |-> used.chars,
        pairs |-> ContradictionsAmong(IncludedIds(items, used.kept)),
        activated |-> Ids(got), since |-> since]

\* the contradictions are read last
Assemble(c) ==
    LET k == call[c] IN
    /\ Resume(c, "assemble")
    /\ context' = ContextOf(k.policy, k.got, k.since)
    /\ Return(c)
    /\ UNCHANGED governanceVars

ReconstructStep(c) ==
    \/ \E policy \in Policies : StartReconstruct(c, policy)
    \/ Fetch(c) \/ FinishPass(c) \/ Assemble(c)

Origins == UNION {{m.events[i].origin : i \in DOMAIN m.events} : m \in Memories}

\* add_memory_event of an event such as those to start from
AddOrigin(c, origin, status) ==
    /\ call[c] = Idle /\ GovernanceRoom
    /\ AddMemoryEvent(origin, status)
    /\ UNCHANGED <<links, confs, call>>

\* other processes write meanwhile, and a process may die
OtherStep(c) ==
    /\ \/ \E origin \in Origins, status \in Statuses : AddOrigin(c, origin, status)
       \/ ReviewCall(c)
       \/ Die(c) /\ UNCHANGED governanceVars
    /\ UNCHANGED context

ContextNext == (\E c \in writers : ReconstructStep(c) \/ OtherStep(c)) /\ UNCHANGED writers

contextVars == <<governanceVars, context, writers, call>>

ContextSpec == CallersInit /\ ContextInit /\ [][ContextNext]_contextVars

-----------------------------------------------------------------------------
\* what the first passes collect when nobody writes meanwhile
Collected(policy) ==
    LET got[n \in 0..Len(Passes(policy))] ==
          IF n = 0 THEN {}
          ELSE LET query == Passes(policy)[n] IN
               AddUnseen(got[n - 1], Retrieved(Score(Matches(query), query, FALSE), query))
    IN got

\* what reconstruct returns then
Reconstruct(policy) ==
    ContextOf(policy, Collected(policy)[Len(Passes(policy))], governanceVars)

\* verify_assembly_against_current_db
Verify(stored) ==
    LET current == Reconstruct(stored.policy)
        conf(ctx) == {<<ctx.items[i].row.id, ctx.items[i].row.confidence>> :
                        i \in {i \in ctx.kept : ctx.items[i].tier \notin {2, 5}}}
        old == IncludedIds(stored.items, stored.kept)
        new == IncludedIds(current.items, current.kept)
    IN [added |-> new \ old, removed |-> old \ new,
        rescored |-> {m \in old \cap new : \E x \in conf(stored) \ conf(current) : x[1] = m},
        contradicted |-> current.pairs \ stored.pairs,
        retracted |-> stored.pairs \ current.pairs]

NoDrift == [added |-> {}, removed |-> {}, rescored |-> {}, contradicted |-> {},
            retracted |-> {}]

(* Properties *)

\* the chars of the items at the positions in S
Spent(items, S) ==
    LET total[n \in 0..Len(items)] ==
          IF n = 0 THEN 0 ELSE total[n - 1] + IF n \in S THEN items[n].size ELSE 0
    IN total[Len(items)]

\* apply_context_budget, item by item: the window keeps an item exactly when the
\* items kept before it leave room in the budget and in the caps of its tier.  An
\* item that does not fit is passed over and a smaller later one may still be taken,
\* and the caps of governance may drop a governance item while later tiers are
\* kept.  The tiers come in order; no event is in the window twice, except an
\* unresolved governance event; one that was rejected is there only as an
\* investigation that a link brought in.
ContextIsBounded ==
    context # NoContext =>
      LET items == context.items
          policy == context.policy
          before(i) == context.kept \cap 1..i - 1
          sameTier(i) == {j \in before(i) : items[j].tier = items[i].tier}
          sameType(i) == {j \in sameTier(i) : items[j].row.type = items[i].row.type}
          within(cap, S, i) == Spent(items, S) + items[i].size <= cap
      IN
      /\ context.chars = Spent(items, context.kept)
      /\ \A i \in DOMAIN items : i \in context.kept <=>
           /\ within(policy.chars, before(i), i)
           /\ Cardinality(before(i)) < policy.entries
           /\ items[i].tier = 3 /\ policy.investigationChars > 0 =>
                within(policy.investigationChars, sameTier(i), i)
           /\ items[i].tier = 0 =>
                IF policy.ruleChars > 0 /\ policy.decisionChars > 0
                THEN within(IF items[i].row.type = "governance_rule" THEN policy.ruleChars
                            ELSE policy.decisionChars, sameType(i), i)
                ELSE policy.governanceChars > 0 =>
                       within(policy.governanceChars, sameTier(i), i)
      /\ \A i, j \in DOMAIN items :
           /\ i < j => items[i].tier <= items[j].tier
           /\ i # j /\ {items[i].tier, items[j].tier} \cap {2, 5} = {}
                /\ items[i].row.id = items[j].row.id =>
                items[i].row.type \in GovernanceTypes /\ items[i].row.status \in Unresolved
      /\ \A i \in DOMAIN items : items[i].tier \notin {2, 5}
           /\ items[i].row.status \in Excluded => items[i].tier = 3 /\ items[i].row.expanded

\* activate_memory and verify_assembly_against_current_db, whatever other processes
\* write meanwhile: an event they leave alone is activated when a pass asks for its
\* kind and the events of that kind fit the candidate limit, however many events
\* of the other kinds there are.  A context that was read undisturbed verifies
\* without drift until something is written; an event in a context that has been
\* rejected or superseded since is reported, and so is a retracted contradiction.
ContextMissesNothing ==
    context # NoContext =>
      LET policy == context.policy
          untouched == {m \in DOMAIN context.since[1] :
                          \A i \in RevisionsOf(m) : i <= Len(context.since[2])}
          room(types) == Cardinality({m \in MemoryId : memory[m].origin.type \in types})
                           <= policy.candidates
          general(m) == /\ memory[m].origin.confidence >= policy.min
                        /\ policy.tagged => memory[m].origin.tagged
          report == Verify(context)
      IN
      /\ \A m \in untouched :
           \/ /\ memory[m].origin.type \in GovernanceTypes
              /\ memory[m].status \in Live /\ room(GovernanceTypes)
           \/ /\ policy.unresolved
              /\ memory[m].status \in Unresolved /\ room(EventTypes)
           \/ /\ policy.investigations /\ memory[m].origin.type \in InvestigationTypes
              /\ memory[m].status \in Live /\ memory[m].origin.confidence >= policy.min
              /\ room(InvestigationTypes)
           \/ /\ policy.adaptations /\ memory[m].origin.type = "adaptation"
              /\ general(m) /\ room({"adaptation"})
           \/ /\ memory[m].origin.type \notin GovernanceTypes
              /\ memory[m].status \in Live /\ room(EventTypes \ GovernanceTypes)
              /\ general(m)
           => m \in context.activated
      /\ governanceVars = context.since => report = NoDrift
      /\ \A m \in IncludedIds(context.items, context.kept) :
           memory[m].status \in Excluded
             /\ memory[m].origin.type \notin InvestigationTypes => m \in report.removed
      /\ \A l \in context.pairs : links[l].status = "retracted" => l \in report.retracted

=============================================================================
