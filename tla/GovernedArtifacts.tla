------------------------- MODULE GovernedArtifacts --------------------------
(***************************************************************************)
(* The governed derived artifacts of the memory database:                  *)
(*   memory/embedding_pins.py  the embedding model a scope is pinned to    *)
(*   memory/embeddings.py      embeddings of memory events                 *)
(*   memory/compression.py     compression artifacts, their supersession,  *)
(*                             and the memory events seeded from them      *)
(* with memory/artifact_governance.py, which owns the status moves.        *)
(***************************************************************************)
EXTENDS MemoryGovernance

CONSTANTS
    Models,         \* embedding spaces: what compute_pin_identity hashes
    MaxPins,        \* bound: pins, with a single writer
    MaxEmbeddings,  \* bound: embeddings, with a single writer
    MaxArtifacts,   \* bound: compression artifacts, with a single writer
    MaxOfEach,      \* bound: rows of each of the three tables when writers race
    ChainLimit      \* _SUPERSESSION_CHAIN_DEPTH_LIMIT

ASSUME ArtifactAssumption ==
    /\ MaxPins \in Nat /\ MaxEmbeddings \in Nat /\ MaxArtifacts \in Nat
    /\ MaxOfEach \in Nat
    /\ ChainLimit \in Nat \ {0, 1}

VARIABLES
    pins,    \* embedding_model_pins: [model, status]
    embeds,  \* event_embeddings: [event, model, status, pin of the promotion]
    arts,    \* compression_artifacts: [sources, status, superseded_by]
    cut      \* ghost: seeded events whose call died before its last link

artifactVars == <<pins, embeds, arts, cut>>

None == 0

\* the confidence of a seeded event when neither the call nor the artifact has one
DefaultConfidence == 3

ArtifactStatus == {"candidate", "active", "superseded", "invalidated"}

ArtifactsInit == pins = <<>> /\ embeds = <<>> /\ arts = <<>> /\ cut = {}

ActiveRows(table) == {i \in DOMAIN table : table[i].status = "active"}

Superseded(table, rows) ==
    [i \in DOMAIN table |-> IF i \in rows THEN [table[i] EXCEPT !.status = "superseded"]
                                          ELSE table[i]]

-----------------------------------------------------------------------------
\* get_active_pin
ActivePin == IF ActiveRows(pins) = {} THEN None ELSE LastOf(ActiveRows(pins))

\* create_pin: the active pins are read before the transaction that supersedes
\* them and inserts the new one; supersede_pin has no insert
StartPin(c, model) ==
    /\ Len(pins) < Bound(MaxPins, MaxOfEach)
    /\ Begin(c, [at |-> "pin", model |-> model, old |-> ActiveRows(pins)])
    /\ UNCHANGED <<governanceVars, artifactVars>>

WritePin(c) ==
    /\ Resume(c, "pin")
    /\ pins' = Append(Superseded(pins, call[c].old),
                      [model |-> call[c].model, status |-> "active"])
    /\ Return(c)
    /\ UNCHANGED <<governanceVars, embeds, arts, cut>>

\* supersede_pin; a superseded pin stays so, so the check and the UPDATE are one
SupersedePin(c, p) ==
    /\ call[c] = Idle
    /\ pins[p].status = "active"
    /\ pins' = Superseded(pins, {p})
    /\ UNCHANGED <<governanceVars, embeds, arts, cut, call>>

EmbeddingsOf(m) == {e \in DOMAIN embeds : embeds[e].event = m}
ActiveEmbeddings(m) == EmbeddingsOf(m) \cap ActiveRows(embeds)

\* embed_event: a live row is returned; UNIQUE (event, content, producer) refuses
\* the INSERT while a superseded row is there.  No pin is needed
EmbedEvent(c, m, model) ==
    /\ call[c] = Idle
    /\ Len(embeds) < Bound(MaxEmbeddings, MaxOfEach)
    /\ \A e \in EmbeddingsOf(m) : embeds[e].model # model
    /\ embeds' = Append(embeds, [event |-> m, model |-> model, status |-> "candidate",
                                 pin |-> None])
    /\ UNCHANGED <<governanceVars, pins, arts, cut, call>>

\* promote_embedding: only a candidate ...
StartPromote(c, e) ==
    /\ embeds[e].status = "candidate"
    /\ Begin(c, [at |-> "match", embedding |-> e])
    /\ UNCHANGED <<governanceVars, artifactVars>>

\* mutant: only active rows of the same model are replaced
MatchPinOwn(c) ==
    LET k == call[c] IN
    /\ Resume(c, "match")
    /\ ActivePin # None
    /\ pins[ActivePin].model = embeds[k.embedding].model
    /\ Continue(c, [at |-> "mark", embedding |-> k.embedding, pin |-> ActivePin,
                    old |-> {e \in ActiveEmbeddings(embeds[k.embedding].event) :
                               embeds[e].model = embeds[k.embedding].model}])
    /\ UNCHANGED <<governanceVars, artifactVars>>

\* ... of the model that the active pin, read over a second connection, names;
\* then the active rows of the event are read
MatchPin(c) ==
    LET k == call[c] IN
    /\ Resume(c, "match")
    /\ ActivePin # None
    /\ pins[ActivePin].model = embeds[k.embedding].model
    /\ Continue(c, [at |-> "mark", embedding |-> k.embedding, pin |-> ActivePin,
                    old |-> ActiveEmbeddings(embeds[k.embedding].event)])
    /\ UNCHANGED <<governanceVars, artifactVars>>

\* no matching pin: GovernancePinError, the candidate stays
PinMismatch(c) ==
    /\ Resume(c, "match")
    /\ ActivePin # None => pins[ActivePin].model # embeds[call[c].embedding].model
    /\ Return(c)
    /\ UNCHANGED <<governanceVars, artifactVars>>

\* the SELECT of the first mark_superseded, or of mark_active, is the last read
\* outside the transaction; it raises when that row has moved
FirstMark(c) ==
    LET k == call[c]
        moved == IF k.old = {} THEN embeds[k.embedding].status # "candidate"
                 ELSE \E e \in k.old : /\ \A f \in k.old : e <= f
                                       /\ embeds[e].status # "active"
    IN
    /\ Resume(c, "mark")
    /\ IF moved THEN Return(c) ELSE Continue(c, [k EXCEPT !.at = "promote"])
    /\ UNCHANGED <<governanceVars, artifactVars>>

\* the transaction: the other rows are checked inside it, and one that has moved
\* rolls everything back
Promote(c) ==
    LET k == call[c]
        first == {e \in k.old : \A f \in k.old : e <= f}
        refused == /\ k.old # {}
                   /\ \/ \E e \in k.old \ first : embeds[e].status # "active"
                      \/ embeds[k.embedding].status # "candidate"
    IN
    /\ Resume(c, "promote")
    /\ embeds' = IF refused THEN embeds
                 ELSE [Superseded(embeds, k.old) EXCEPT
                         ![k.embedding].status = "active", ![k.embedding].pin = k.pin]
    /\ Return(c)
    /\ UNCHANGED <<governanceVars, pins, arts, cut>>

EmbeddingStep(c) ==
    \/ \E model \in Models : StartPin(c, model)
    \/ WritePin(c)
    \/ \E p \in DOMAIN pins : SupersedePin(c, p)
    \/ \E m \in MemoryId, model \in Models : EmbedEvent(c, m, model)
    \/ \E e \in DOMAIN embeds : StartPromote(c, e)
    \/ MatchPin(c) \/ PinMismatch(c) \/ FirstMark(c) \/ Promote(c)

-----------------------------------------------------------------------------
\* create_compression_artifact: a candidate made from the events of an assembly
CreateArtifact(c, sources) ==
    /\ call[c] = Idle
    /\ Len(arts) < Bound(MaxArtifacts, MaxOfEach)
    /\ arts' = Append(arts, [sources |-> sources, status |-> "candidate",
                             superseded_by |-> None])
    /\ UNCHANGED <<governanceVars, pins, embeds, cut, call>>

\* _PROMOTABLE_FROM, _INVALIDATABLE_FROM and the check of supersede
ArtifactMove == {<<"candidate", "active">>, <<"candidate", "invalidated">>,
                 <<"active", "invalidated">>, <<"active", "superseded">>}

\* promote, invalidate and supersede_compression_artifact: the status is read,
\* and for a supersession another artifact, of whatever status, is named ...
StartMove(c, a, to, by) ==
    /\ <<arts[a].status, to>> \in ArtifactMove
    /\ IF to = "superseded" THEN by \in DOMAIN arts \ {a} ELSE by = None
    /\ Begin(c, [at |-> "move", artifact |-> a, to |-> to, by |-> by])
    /\ UNCHANGED <<governanceVars, artifactVars>>

\* ... and the row is written
MoveArtifact(c) ==
    LET k == call[c] IN
    /\ Resume(c, "move")
    /\ arts' = [arts EXCEPT ![k.artifact].status = k.to,
                            ![k.artifact].superseded_by = IF k.to = "superseded" THEN k.by ELSE @]
    /\ Return(c)
    /\ UNCHANGED <<governanceVars, pins, embeds, cut>>

\* the events whose source names the artifact: _compression_source_key
SeedsOf(a) == {m \in MemoryId : memory[m].origin.source = a}

\* mutant: the source key is not looked up
StartSeedAgain(c, a) ==
    /\ arts[a].status = "active"
    /\ GovernanceRoom
    /\ Begin(c, [at |-> "seed", artifact |-> a])
    /\ UNCHANGED <<governanceVars, artifactVars>>

\* seed_memory_from_compression: an active artifact that has seeded nothing ...
StartSeed(c, a) ==
    /\ arts[a].status = "active"
    /\ SeedsOf(a) = {}
    /\ GovernanceRoom
    /\ Begin(c, [at |-> "seed", artifact |-> a])
    /\ UNCHANGED <<governanceVars, artifactVars>>

\* ... gets a proposed event, committed on its own ...
SeedEvent(c) ==
    LET k == call[c] IN
    /\ Resume(c, "seed")
    /\ AddMemoryEvent([confidence |-> DefaultConfidence, source |-> k.artifact], "proposed")
    /\ IF arts[k.artifact].sources = {} THEN Return(c)
       ELSE Continue(c, [at |-> "derive", event |-> Len(memory) + 1,
                         todo |-> arts[k.artifact].sources])
    /\ UNCHANGED <<links, confs, artifactVars>>

\* ... and a derived_from link for each source in id order, each its own commit; a
\* link that an operator has made meanwhile refuses the INSERT, and stays
SeedLink(c) ==
    LET k == call[c]
        s == CHOOSE s \in k.todo : \A t \in k.todo : s <= t
    IN
    /\ Resume(c, "derive")
    /\ links' = IF LinkExists(k.event, s, "derived_from") THEN links
                ELSE Append(links, LinkRow(k.event, s, "derived_from", TRUE, Len(revisions)))
    /\ IF k.todo = {s} THEN Return(c) ELSE Continue(c, [k EXCEPT !.todo = @ \ {s}])
    /\ UNCHANGED <<memory, revisions, confs, artifactVars>>

CompressionStep(c) ==
    \/ \E sources \in SUBSET MemoryId : CreateArtifact(c, sources)
    \/ \E a \in DOMAIN arts, to \in ArtifactStatus, by \in DOMAIN arts \cup {None} :
         StartMove(c, a, to, by)
    \/ MoveArtifact(c)

SeedingStep(c) ==
    \/ \E a \in DOMAIN arts : StartSeed(c, a)
    \/ SeedEvent(c) \/ SeedLink(c)

\* a death in any of these calls; the links a seeding still owes are never made
ArtifactDeath(c) ==
    /\ Die(c)
    /\ cut' = IF call[c].at = "derive" THEN cut \cup {call[c].event} ELSE cut
    /\ UNCHANGED <<governanceVars, pins, embeds, arts>>

\* the calls of memory/service.py and of the artifacts on one database
ArtifactStep(c) ==
    \/ GovernanceCall(c) /\ UNCHANGED artifactVars
    \/ EmbeddingStep(c) \/ CompressionStep(c) \/ SeedingStep(c) \/ ArtifactDeath(c)

ArtifactNext == (\E c \in writers : ArtifactStep(c)) /\ UNCHANGED writers

ArtifactSpec ==
    /\ CallersInit /\ GovernanceInit /\ ArtifactsInit
    /\ [][ArtifactNext]_<<governanceVars, artifactVars, writers, call>>

-----------------------------------------------------------------------------
\* one turn of the loop that follows superseded_by_artifact_id: the last artifact
\* has no replacement, one that was visited, or the next one of the walk
Follow(v) ==
    LET next == arts[v.ids[Len(v.ids)]].superseded_by
    IN IF v.at # "open" THEN v
       ELSE IF next = None THEN [v EXCEPT !.at = "end"]
       ELSE IF \E i \in DOMAIN v.ids : v.ids[i] = next THEN [v EXCEPT !.at = "cycle"]
       ELSE [v EXCEPT !.ids = Append(@, next)]

\* the walk from `a' after limit - 1 turns, the first artifact included
Walk(a, limit) ==
    LET w[n \in 1..limit] == IF n = 1 THEN [ids |-> <<a>>, at |-> "open"] ELSE Follow(w[n - 1])
    IN w[limit]

\* get_supersession_chain; chain_broken needs a missing row, and rows stay
GetSupersessionChain(a) ==
    LET w == Walk(a, ChainLimit) IN
    [ids |-> w.ids, cycle_detected |-> w.at = "cycle",
     truncated |-> w.at = "open" /\ arts[w.ids[Len(w.ids)]].superseded_by # None]

\* mutant: a walk that ends in a cycle is the cycle
WalkToCycle(a) ==
    LET ids == Walk(a, Len(arts) + 1).ids
    IN IF arts[ids[Len(ids)]].superseded_by = None THEN {} ELSE {ids[i] : i \in DOMAIN ids}

\* detect_supersession_cycles: the part of the walk from `a' that starts where it
\* closes ...
CycleFrom(a) ==
    LET ids == Walk(a, Len(arts) + 1).ids
        entry == arts[ids[Len(ids)]].superseded_by
    IN {ids[i] : i \in {i \in DOMAIN ids : \E j \in 1..i : ids[j] = entry}}

\* ... from every artifact that names a replacement
DetectSupersessionCycles ==
    {CycleFrom(a) : a \in {a \in DOMAIN arts : arts[a].superseded_by # None}} \ {{}}

\* detect_orphan_supersessions
DetectOrphanSupersessions ==
    {a \in DOMAIN arts : arts[a].status = "superseded" /\ arts[a].superseded_by = None}

\* detect_pending_replacement_supersessions
DetectPendingReplacements ==
    {a \in DOMAIN arts : /\ arts[a].status = "superseded"
                         /\ arts[a].superseded_by # None
                         /\ arts[arts[a].superseded_by].status # "active"}

\* detect_superseded_embeddings_without_active_replacement
DetectSupersededWithoutActive ==
    {e \in DOMAIN embeds : /\ embeds[e].status = "superseded"
                           /\ ActiveEmbeddings(embeds[e].event) = {}}

\* detect_unreviewed_compression_derived_memory, for events that are old enough
DetectUnreviewedSeeds ==
    {m \in MemoryId : memory[m].origin.source # NoArtifact /\ memory[m].status = "proposed"}

(* Properties *)

\* promote_embedding and create_pin: an embedding becomes active only for a pin of
\* its model, also when pins and promotions race.  With a single writer a scope
\* has at most one active pin, an event at most one active embedding; its
\* embeddings replace each other in the order of the pins, and the report of
\* superseded embeddings without a replacement stays empty.
EmbeddingsFollowPins ==
    /\ \A e \in DOMAIN embeds :
         IF embeds[e].status = "candidate" THEN embeds[e].pin = None
         ELSE embeds[e].pin # None /\ pins[embeds[e].pin].model = embeds[e].model
    /\ SingleWriter =>
         /\ \A p \in ActiveRows(pins) : p = Len(pins)
         /\ \A m \in MemoryId : \A e \in ActiveEmbeddings(m), f \in EmbeddingsOf(m) :
              /\ embeds[f].status = "active" => f = e
              /\ embeds[f].pin <= embeds[e].pin
         /\ DetectSupersededWithoutActive = {}

\* the artifacts that replace `a', one after the other
Replacements(a) ==
    LET s[n \in 0..Len(arts)] ==
          IF n = 0 THEN a
          ELSE IF s[n - 1] = None THEN None ELSE arts[s[n - 1]].superseded_by
    IN {s[n] : n \in 1..Len(arts)} \ {None}

OnCycle == {a \in DOMAIN arts : a \in Replacements(a)}

\* supersede_compression_artifact and the supersession reports: a replacement may
\* have any status, so legal calls can close a chain into a cycle; every such
\* cycle is reported once, with exactly its members, and every chain that runs
\* into one says so, unless it says that it was cut at the depth limit, with as
\* many artifacts as the limit allows.  With a single writer a superseded
\* artifact names its replacement, no other does, and a chain that is not
\* reported anywhere ends in an active artifact.
SupersessionIsReported ==
    /\ UNION DetectSupersessionCycles = OnCycle
    /\ \A x, y \in DetectSupersessionCycles : x = y \/ x \cap y = {}
    /\ \A a \in DOMAIN arts :
         LET chain == GetSupersessionChain(a)
             last == chain.ids[Len(chain.ids)]
         IN
         /\ IF chain.truncated THEN Len(chain.ids) = ChainLimit /\ ChainLimit <= Len(arts)
            ELSE chain.cycle_detected <=> ({a} \cup Replacements(a)) \cap OnCycle # {}
         /\ SingleWriter /\ arts[a].status = "superseded" =>
              \/ arts[last].status = "active" /\ ~chain.cycle_detected
              \/ \E i \in DOMAIN chain.ids : chain.ids[i] \in DetectPendingReplacements
    /\ SingleWriter =>
         /\ DetectOrphanSupersessions = {}
         /\ \A a \in DOMAIN arts : arts[a].superseded_by # None =>
                                     arts[a].status = "superseded"

\* seed_memory_from_compression: a seeded event is proposed until the operator
\* writes a revision, and is reported until then.  An operator may link it to any
\* event as derived_from too, but the links that say who seeded it lead to sources
\* of its artifact; a source has been linked when one after it is; and all sources
\* have been unless the call is still running or died.  With a single writer an
\* artifact seeds once.
SeedsAreTraceable ==
    \A m \in MemoryId : memory[m].origin.source # NoArtifact =>
        LET a == memory[m].origin.source
            derived == {l \in DOMAIN links : links[l].source = m /\
                                              links[l].relation = "derived_from"}
            linked == {links[l].target : l \in derived}
            own == {links[l].target : l \in {l \in derived : links[l].attributed}}
            running == \E c \in Callers : call[c].at = "derive" /\ call[c].event = m
        IN
        /\ own \subseteq arts[a].sources
        /\ \A s \in own, t \in arts[a].sources : t < s => t \in linked
        /\ arts[a].sources \subseteq linked \/ running \/ m \in cut
        /\ memory[m].status = ReplayedStatus(m, "proposed")
        /\ RevisionsOf(m) = {} => m \in DetectUnreviewedSeeds
        /\ SingleWriter => SeedsOf(a) = {m}

=============================================================================
