----------------------- MODULE MemoryGovernanceProofs -----------------------
(***************************************************************************)
(* Theorems about one memory database whose events, confidence revisions,  *)
(* contradictions, embeddings and compression artifacts are written by any *)
(* number of callers, with calls that die anywhere; and about the contexts *)
(* that sessions assemble from its events while others write.              *)
(***************************************************************************)
EXTENDS GovernedArtifacts, ContextAssembly, FiniteSetTheorems, WellFoundedInduction, TLAPS

EventRow == [origin : [confidence : 1..5, source : Nat],
             status : MemoryStatus, version : Nat]
StatusRow == [memory : Nat, old : MemoryStatus, new : MemoryStatus, version : Nat]
LinkRows == [source : Nat, target : Nat, relation : Relationships,
             status : {"active", "retracted"}, attributed : BOOLEAN, seen : Nat]
ConfidenceRow == [memory : Nat, before : 1..5, after : 1..5,
                  type : {"operator", "candidate"},
                  status : {"active", "superseded", "proposed", "rejected"}, from : Nat]
PinRow == [model : Models, status : {"active", "superseded"}]
EmbeddingRow == [event : Nat, model : Models,
                 status : {"candidate", "active", "superseded"}, pin : Nat]
ArtifactRow == [sources : SUBSET Nat, status : ArtifactStatus, superseded_by : Nat]

UpdateCall == [at : {"update"}, memory : Nat, old : MemoryStatus, version : Nat,
               new : MemoryStatus]
ContradictCall == [at : {"contradict"}, source : Nat, target : Nat, seen : Nat]
ApproveCall == [at : {"approve"}, memory : Nat, after : 1..5, type : {"operator"},
                from : Nat]
ReviseCall == [at : {"revise"}, memory : Nat, before : 1..5, after : 1..5,
               type : {"operator", "candidate"}, from : Nat]
PinCall == [at : {"pin"}, model : Models, old : SUBSET Nat]
MatchCall == [at : {"match"}, embedding : Nat]
MarkCall == [at : {"mark", "promote"}, embedding : Nat, pin : Nat, old : SUBSET Nat]
MoveCall == [at : {"move"}, artifact : Nat, to : ArtifactStatus, by : Nat]
SeedCall == [at : {"seed"}, artifact : Nat]
DeriveCall == [at : {"derive"}, event : Nat, todo : SUBSET Nat]

(* An artifact that is to be superseded has a replacement to name. *)
Replaces(k) == k.to = "superseded" => k.by \in DOMAIN arts

(* The rows that the locals of a call name are there. *)
Placed(k) ==
    \/ k = Idle
    \/ k \in UpdateCall \cup ApproveCall \cup ReviseCall /\ k.memory \in MemoryId
    \/ k \in ContradictCall /\ {k.source, k.target} \subseteq MemoryId
    \/ k \in PinCall
    \/ k \in MatchCall /\ k.embedding \in DOMAIN embeds
    \/ k \in MarkCall /\ k.embedding \in DOMAIN embeds /\ k.pin \in DOMAIN pins
                      /\ k.old \subseteq DOMAIN embeds
    \/ k \in MoveCall /\ k.artifact \in DOMAIN arts /\ Replaces(k)
    \/ k \in SeedCall /\ k.artifact \in DOMAIN arts
    \/ k \in DeriveCall /\ k.event \in MemoryId /\ k.todo \subseteq MemoryId /\ k.todo # {}

Tables ==
    /\ memory \in Seq(EventRow) /\ revisions \in Seq(StatusRow)
    /\ links \in Seq(LinkRows) /\ confs \in Seq(ConfidenceRow)
    /\ pins \in Seq(PinRow) /\ embeds \in Seq(EmbeddingRow) /\ arts \in Seq(ArtifactRow)

(* The artifact that an artifact is replaced by is there. *)
Referred == \A a \in DOMAIN arts : arts[a].superseded_by \in DOMAIN arts \cup {None}

(* The rows that a row names are there. *)
Rows ==
    /\ \A m \in MemoryId : memory[m].origin.source \in DOMAIN arts \cup {NoArtifact}
    /\ \A i \in DOMAIN revisions : revisions[i].memory \in MemoryId
    /\ \A l \in DOMAIN links : {links[l].source, links[l].target} \subseteq MemoryId
    /\ \A i \in DOMAIN confs : confs[i].memory \in MemoryId
    /\ \A e \in DOMAIN embeds : embeds[e].event \in MemoryId
    /\ \A a \in DOMAIN arts : arts[a].sources \subseteq MemoryId
    /\ Referred

Shapes ==
    /\ Tables /\ Rows
    /\ writers \subseteq Callers /\ DOMAIN call = Callers
    /\ \A c \in Callers : Placed(call[c]) /\ (c \notin writers => call[c] = Idle)

(* The last operator revision of an event is its only active one. *)
LatestIs(m, i) ==
    /\ i \in OperatorRevisions(m)
    /\ \A j \in OperatorRevisions(m) : j <= i
    /\ ActiveRevisions(m) = {i}

Latest == \A m \in Nat : OperatorRevisions(m) # {} => \E i \in DOMAIN confs : LatestIs(m, i)

(* What a row or a call was approved from is a candidate with the same value. *)
From(r, k) == /\ r \in DOMAIN confs /\ confs[r].type = "candidate"
              /\ confs[r].memory = k.memory /\ confs[r].after = k.after

Approved ==
    /\ \A i \in DOMAIN confs :
         confs[i].from # NoRevision => confs[i].from < i /\ From(confs[i].from, confs[i])
    /\ \A c \in Callers :
         /\ call[c].at = "approve" => From(call[c].from, call[c])
         /\ call[c].at = "revise" /\ call[c].from # NoRevision => From(call[c].from, call[c])

Proposed == \A i \in DOMAIN confs : confs[i].type = "candidate" =>
                                      confs[i].status \in {"proposed", "rejected"}

(* A revision starts from the one before it, and what a single caller read as *)
(* the effective confidence still is.                                         *)
Earlier(i) == {j \in OperatorRevisions(confs[i].memory) : j < i}

StartsFrom(i) ==
    \/ Earlier(i) = {} /\ confs[i].before = memory[confs[i].memory].origin.confidence
    \/ \E j \in Earlier(i) : /\ \A k \in Earlier(i) : k <= j
                            /\ confs[i].before = confs[j].after

Chained ==
    SingleWriter =>
      /\ \A i \in DOMAIN confs : StartsFrom(i)
      /\ \A c \in writers : call[c].at = "revise" =>
           call[c].before = EffectiveConfidence(call[c].memory)

(* A pair has one row, and an end that was live when it was checked and is not *)
(* any more has a later revision that says so.                                 *)
Pairs ==
    \A i, j \in DOMAIN links :
        /\ links[i].source = links[j].source /\ links[i].target = links[j].target
        /\ links[i].relation = links[j].relation
        => i = j

Explained(m, seen) ==
    /\ seen <= Len(revisions)
    /\ memory[m].status \notin Live =>
         \E i \in seen + 1 .. Len(revisions) :
           revisions[i].memory = m /\ revisions[i].new \notin Live

\* the same in the next state, of an event and a position of this one
ExplainedNext(m, seen) ==
    /\ seen <= Len(revisions')
    /\ memory'[m].status \notin Live =>
         \E i \in seen + 1 .. Len(revisions') :
           revisions'[i].memory = m /\ revisions'[i].new \notin Live

Watched ==
    /\ \A l \in DOMAIN links : links[l].relation = "contradicts" =>
         Explained(links[l].source, links[l].seen) /\ Explained(links[l].target, links[l].seen)
    /\ \A c \in Callers : call[c].at = "contradict" =>
         Explained(call[c].source, call[c].seen) /\ Explained(call[c].target, call[c].seen)

(* An embedding that was promoted names a pin of its model, and so does a    *)
(* promotion in progress; the rows it replaces have been promoted before.    *)
ByPin(p, e) == p \in DOMAIN pins /\ pins[p].model = embeds[e].model

Pinned ==
    /\ \A e \in DOMAIN embeds :
         IF embeds[e].status = "candidate" THEN embeds[e].pin = None
         ELSE ByPin(embeds[e].pin, e)
    /\ \A c \in Callers : call[c].at \in {"mark", "promote"} =>
         /\ ByPin(call[c].pin, call[c].embedding)
         /\ \A e \in call[c].old : embeds[e].status # "candidate"

(* With one writer the last pin alone can be active, an event has one active *)
(* embedding, promoted under the latest of its pins, as soon as it has one    *)
(* that was superseded, and what a call has read still holds.                 *)
Ranked ==
    /\ \A p \in ActiveRows(pins) : p = Len(pins)
    /\ \A e \in ActiveRows(embeds), f \in DOMAIN embeds : embeds[f].event = embeds[e].event =>
         /\ embeds[f].status = "active" => f = e
         /\ embeds[f].pin <= embeds[e].pin
    /\ \A f \in DOMAIN embeds : embeds[f].status = "superseded" =>
         \E e \in ActiveRows(embeds) : embeds[e].event = embeds[f].event

ReadStill(k) ==
    /\ k.at = "pin" => k.old = ActiveRows(pins)
    /\ k.at \in {"match", "mark", "promote"} => embeds[k.embedding].status = "candidate"
    /\ k.at \in {"mark", "promote"} =>
         k.pin = Len(pins) /\ k.old = ActiveEmbeddings(embeds[k.embedding].event)
    /\ k.at = "move" => <<arts[k.artifact].status, k.to>> \in ArtifactMove

(* The events a compression artifact seeded, their sources, what they are linked *)
(* to as derived, and which of these links the seedings made.                    *)
Seeds == {m \in MemoryId : memory[m].origin.source # NoArtifact}
Sources(m) == arts[memory[m].origin.source].sources
Derived(m) == {l \in DOMAIN links :
                 links[l].source = m /\ links[l].relation = "derived_from"}
Linked(m) == {links[l].target : l \in Derived(m)}
Own(m) == {links[l].target : l \in {l \in Derived(m) : links[l].attributed}}

(* The links a seeding made lead to sources, each below it linked before it, and *)
(* what a running call has left to link holds every source that is not linked.   *)
Traced ==
    /\ \A m \in Seeds :
         /\ Own(m) \subseteq Sources(m)
         /\ \A s \in Own(m), t \in Sources(m) : t < s => t \in Linked(m)
         /\ \/ Sources(m) \subseteq Linked(m) \/ m \in cut
            \/ \E c \in Callers : call[c].at = "derive" /\ call[c].event = m
    /\ \A c \in Callers : call[c].at = "derive" =>
         /\ call[c].event \in Seeds
         /\ call[c].todo \subseteq Sources(call[c].event)
         /\ Sources(call[c].event) \ call[c].todo \subseteq Linked(call[c].event)

(* A seeded event has the status its last revision gave it. *)
LastRevision(m, i) == i \in RevisionsOf(m) /\ \A j \in RevisionsOf(m) : j <= i

Reviewed ==
    \A m \in Seeds :
      \/ RevisionsOf(m) = {} /\ memory[m].status = "proposed"
      \/ \E i \in DOMAIN revisions : /\ LastRevision(m, i)
                                     /\ memory[m].status = revisions[i].new

(* With one writer an artifact seeds once. *)
SeededOnce ==
    /\ \A m, n \in Seeds : memory[m].origin.source = memory[n].origin.source => m = n
    /\ \A c \in writers : call[c].at = "seed" =>
         \A m \in Seeds : memory[m].origin.source # call[c].artifact

(* With one writer the superseded artifacts are those that name a replacement. *)
Settled ==
    \A a \in DOMAIN arts : arts[a].status = "superseded" <=> arts[a].superseded_by # None

Serial == SingleWriter =>
            /\ Ranked /\ SeededOnce /\ Settled
            /\ \A c \in writers : ReadStill(call[c])

IInv ==
    /\ Shapes /\ Latest /\ Approved /\ Proposed /\ Chained /\ Pairs /\ Watched
    /\ Pinned /\ Traced /\ Reviewed /\ Serial

-----------------------------------------------------------------------------
(* The latest revision is what LastOf and the effective confidence name. *)
LEMMA LatestIsEffective ==
    ASSUME Shapes, NEW m, NEW i, LatestIs(m, i)
    PROVE  /\ LastOf(OperatorRevisions(m)) = i
           /\ EffectiveConfidence(m) = confs[i].after
<1>1. OperatorRevisions(m) \subseteq Nat
  BY DEF Shapes, Tables, OperatorRevisions
<1>2. LastOf(OperatorRevisions(m)) = i
  BY <1>1 DEF LastOf, LatestIs
<1>3. LastOf({i}) = i
  BY <1>1 DEF LastOf, LatestIs
<1> QED
  BY <1>2, <1>3 DEF EffectiveConfidence, LatestIs

(* Without one the stored confidence counts. *)
LEMMA StoredIsEffective ==
    ASSUME NEW m, OperatorRevisions(m) = {}
    PROVE  EffectiveConfidence(m) = memory[m].origin.confidence
BY DEF EffectiveConfidence, ActiveRevisions

(* It is a confidence. *)
LEMMA EffectiveType ==
    ASSUME Shapes, Latest, NEW m \in MemoryId
    PROVE  EffectiveConfidence(m) \in 1..5
<1>1. m \in Nat /\ memory[m] \in EventRow
  BY DEF Shapes, Tables, MemoryId
<1>2. CASE OperatorRevisions(m) = {}
  BY <1>1, <1>2, StoredIsEffective DEF EventRow
<1>3. CASE OperatorRevisions(m) # {}
  <2>1. PICK i \in DOMAIN confs : LatestIs(m, i)
    BY <1>1, <1>3 DEF Latest
  <2>2. confs[i] \in ConfidenceRow
    BY <2>1 DEF Shapes, Tables
  <2> QED
    BY <2>1, <2>2, LatestIsEffective DEF ConfidenceRow
<1> QED
  BY <1>2, <1>3

(* The invariant gives the properties. *)
LEMMA ChainsFollow == IInv => ConfidenceChains
<1> SUFFICES ASSUME IInv PROVE ConfidenceChains
  OBVIOUS
<1> USE DEF IInv
<1>1. ASSUME NEW m \in MemoryId, OperatorRevisions(m) # {}
      PROVE  /\ ActiveRevisions(m) = {LastOf(OperatorRevisions(m))}
             /\ EffectiveConfidence(m) = confs[LastOf(OperatorRevisions(m))].after
  <2>1. m \in Nat
    BY DEF Shapes, Tables, MemoryId
  <2>2. PICK i \in DOMAIN confs : LatestIs(m, i)
    BY <1>1, <2>1 DEF Latest
  <2> QED
    BY <2>2, LatestIsEffective DEF LatestIs
<1>2. ASSUME NEW i \in DOMAIN confs, confs[i].from # NoRevision
      PROVE  LET r == confs[confs[i].from] IN
             /\ confs[i].from < i /\ r.type = "candidate"
             /\ r.memory = confs[i].memory /\ r.after = confs[i].after
  BY <1>2 DEF Approved, From
<1>3. ASSUME NEW i \in DOMAIN confs, confs[i].type = "candidate", confs[i].status # "rejected"
      PROVE  i \in DetectUnreviewedCandidates
  BY <1>3 DEF Proposed, DetectUnreviewedCandidates
<1>4. ASSUME NEW i \in DOMAIN confs, SingleWriter
      PROVE  LET before == {j \in OperatorRevisions(confs[i].memory) : j < i} IN
             confs[i].before = IF before = {} THEN memory[confs[i].memory].origin.confidence
                               ELSE confs[LastOf(before)].after
  <2>1. StartsFrom(i)
    BY <1>4 DEF Chained
  <2>2. ASSUME NEW j \in Earlier(i), \A k \in Earlier(i) : k <= j
        PROVE  LastOf(Earlier(i)) = j
    <3>1. Earlier(i) \subseteq Nat
      BY DEF Earlier, OperatorRevisions, Shapes, Tables
    <3> QED
      BY <2>2, <3>1 DEF LastOf
  <2> QED
    BY <2>1, <2>2 DEF StartsFrom, Earlier
<1> QED
  BY <1>1, <1>2, <1>3, <1>4 DEF ConfidenceChains

(* The same for the contradictions. *)
LEMMA SurfaceFollows == IInv => ContradictionsSurface
<1> SUFFICES ASSUME IInv PROVE ContradictionsSurface
  OBVIOUS
<1>1. ASSUME NEW l \in DOMAIN links \ DetectConflicts,
             links[l].relation = "contradicts", links[l].status = "active"
      PROVE  \E i \in links[l].seen + 1 .. Len(revisions) :
               /\ revisions[i].memory \in {links[l].source, links[l].target}
               /\ revisions[i].new \notin Live
               /\ memory[revisions[i].memory].status \notin Live
  <2>1. PICK m \in {links[l].source, links[l].target} : memory[m].status \notin Live
    BY <1>1 DEF DetectConflicts
  <2> QED
    BY <1>1, <2>1 DEF IInv, Watched, Explained
<1> QED
  BY <1>1 DEF IInv, Pairs, ContradictionsSurface

(* Empty tables and idle callers. *)
LEMMA InitHolds == CallersInit /\ GovernanceInit /\ ArtifactsInit => IInv
<1> SUFFICES ASSUME CallersInit, GovernanceInit, ArtifactsInit PROVE IInv
  OBVIOUS
<1> USE DEF CallersInit, GovernanceInit, ArtifactsInit, MemoryId
<1>1. Shapes
  BY DEF Shapes, Tables, Rows, Referred, Placed
<1>2. Latest /\ Approved /\ Proposed
  BY DEF Latest, OperatorRevisions, Approved, Proposed, Idle
<1>3. Chained /\ Pairs /\ Watched
  BY DEF Chained, Pairs, Watched, Idle
<1>4. Pinned /\ Traced /\ Reviewed
  BY DEF Pinned, Traced, Reviewed, Seeds, Idle
<1>5. Serial
  BY DEF Serial, Ranked, SeededOnce, Settled, ReadStill, ActiveRows, Seeds, Idle
<1> QED
  BY <1>1, <1>2, <1>3, <1>4, <1>5 DEF IInv

-----------------------------------------------------------------------------
(* What each call has in progress. *)
LEMMA LocalsHave ==
    ASSUME Shapes, NEW c \in Callers
    PROVE  /\ call[c].at = "update" => call[c] \in UpdateCall /\ call[c].memory \in MemoryId
           /\ call[c].at = "contradict" =>
                call[c] \in ContradictCall /\ {call[c].source, call[c].target} \subseteq MemoryId
           /\ call[c].at = "approve" => call[c] \in ApproveCall /\ call[c].memory \in MemoryId
           /\ call[c].at = "revise" => call[c] \in ReviseCall /\ call[c].memory \in MemoryId
           /\ call[c].at = "pin" => call[c] \in PinCall
           /\ call[c].at = "match" => call[c] \in MatchCall /\ call[c].embedding \in DOMAIN embeds
           /\ call[c].at \in {"mark", "promote"} =>
                /\ call[c] \in MarkCall /\ call[c].embedding \in DOMAIN embeds
                /\ call[c].pin \in DOMAIN pins /\ call[c].old \subseteq DOMAIN embeds
           /\ call[c].at = "move" => /\ call[c] \in MoveCall /\ call[c].artifact \in DOMAIN arts
                                    /\ Replaces(call[c])
           /\ call[c].at = "seed" => call[c] \in SeedCall /\ call[c].artifact \in DOMAIN arts
           /\ call[c].at = "derive" =>
                /\ call[c] \in DeriveCall /\ call[c].event \in MemoryId
                /\ call[c].todo \subseteq MemoryId /\ call[c].todo # {}
<1> DEFINE k == call[c]
<1>1. Placed(k)
  BY DEF Shapes
<1>2. k \in UpdateCall \cup ApproveCall \cup ReviseCall => k.at \in {"update", "approve", "revise"}
  BY DEF UpdateCall, ApproveCall, ReviseCall
<1>3. /\ k \in UpdateCall => k.at = "update"
      /\ k \in ApproveCall => k.at = "approve"
      /\ k \in ReviseCall => k.at = "revise"
      /\ k \in ContradictCall => k.at = "contradict"
      /\ k \in PinCall => k.at = "pin"
      /\ k \in MatchCall => k.at = "match"
      /\ k \in MarkCall => k.at \in {"mark", "promote"}
      /\ k \in MoveCall => k.at = "move"
      /\ k \in SeedCall => k.at = "seed"
      /\ k \in DeriveCall => k.at = "derive"
  BY DEF UpdateCall, ApproveCall, ReviseCall, ContradictCall, PinCall, MatchCall, MarkCall,
         MoveCall, SeedCall, DeriveCall
<1>4. k = Idle => k.at = "idle"
  BY DEF Idle
<1> HIDE DEF k
<1>5. \/ k.at = "idle"
      \/ k \in UpdateCall /\ k.memory \in MemoryId
      \/ k \in ApproveCall /\ k.memory \in MemoryId
      \/ k \in ReviseCall /\ k.memory \in MemoryId
      \/ k \in ContradictCall /\ {k.source, k.target} \subseteq MemoryId
      \/ k \in PinCall
      \/ k \in MatchCall /\ k.embedding \in DOMAIN embeds
      \/ k \in MarkCall /\ k.embedding \in DOMAIN embeds /\ k.pin \in DOMAIN pins
                        /\ k.old \subseteq DOMAIN embeds
      \/ k \in MoveCall /\ k.artifact \in DOMAIN arts /\ Replaces(k)
      \/ k \in SeedCall /\ k.artifact \in DOMAIN arts
      \/ k \in DeriveCall /\ k.event \in MemoryId /\ k.todo \subseteq MemoryId /\ k.todo # {}
  BY <1>1, <1>4 DEF Placed
<1>6. \/ k.at = "idle"
      \/ k.at = "update" /\ k \in UpdateCall /\ k.memory \in MemoryId
      \/ k.at = "approve" /\ k \in ApproveCall /\ k.memory \in MemoryId
      \/ k.at = "revise" /\ k \in ReviseCall /\ k.memory \in MemoryId
      \/ k.at = "contradict" /\ k \in ContradictCall /\ {k.source, k.target} \subseteq MemoryId
      \/ k.at = "pin" /\ k \in PinCall
      \/ k.at = "match" /\ k \in MatchCall /\ k.embedding \in DOMAIN embeds
      \/ /\ k.at \in {"mark", "promote"} /\ k \in MarkCall /\ k.embedding \in DOMAIN embeds
         /\ k.pin \in DOMAIN pins /\ k.old \subseteq DOMAIN embeds
      \/ k.at = "move" /\ k \in MoveCall /\ k.artifact \in DOMAIN arts /\ Replaces(k)
      \/ k.at = "seed" /\ k \in SeedCall /\ k.artifact \in DOMAIN arts
      \/ /\ k.at = "derive" /\ k \in DeriveCall /\ k.event \in MemoryId
         /\ k.todo \subseteq MemoryId /\ k.todo # {}
  BY <1>3, <1>5
<1>7. /\ k.at = "update" => k \in UpdateCall /\ k.memory \in MemoryId
      /\ k.at = "contradict" => k \in ContradictCall /\ {k.source, k.target} \subseteq MemoryId
      /\ k.at = "approve" => k \in ApproveCall /\ k.memory \in MemoryId
      /\ k.at = "revise" => k \in ReviseCall /\ k.memory \in MemoryId
      /\ k.at = "pin" => k \in PinCall
      /\ k.at = "match" => k \in MatchCall /\ k.embedding \in DOMAIN embeds
      /\ k.at \in {"mark", "promote"} =>
           /\ k \in MarkCall /\ k.embedding \in DOMAIN embeds
           /\ k.pin \in DOMAIN pins /\ k.old \subseteq DOMAIN embeds
      /\ k.at = "move" => k \in MoveCall /\ k.artifact \in DOMAIN arts /\ Replaces(k)
      /\ k.at = "seed" => k \in SeedCall /\ k.artifact \in DOMAIN arts
      /\ k.at = "derive" =>
           /\ k \in DeriveCall /\ k.event \in MemoryId
           /\ k.todo \subseteq MemoryId /\ k.todo # {}
  BY <1>6
<1> QED
  BY <1>7 DEF k

(* Which steps write which table. *)
LEMMA Writers ==
    ASSUME NEW c \in writers, ArtifactStep(c)
    PROVE  /\ \/ UNCHANGED <<memory, revisions>> \/ Update(c) \/ SeedEvent(c)
              \/ \E confidence \in Confidences, status \in Statuses :
                   AddEvent(c, confidence, status)
           /\ \/ UNCHANGED links \/ Contradict(c) \/ SeedLink(c)
              \/ \E s, t \in MemoryId, rel \in Relations : LinkEvents(c, s, t, rel)
              \/ \E l \in DOMAIN links : RetractContradiction(c, l)
           /\ \/ UNCHANGED confs \/ WriteRevision(c)
              \/ \E r \in DOMAIN confs : RejectCandidate(c, r)
           /\ \/ UNCHANGED pins \/ WritePin(c) \/ \E p \in DOMAIN pins : SupersedePin(c, p)
           /\ \/ UNCHANGED embeds \/ Promote(c)
              \/ \E m \in MemoryId, model \in Models : EmbedEvent(c, m, model)
           /\ \/ UNCHANGED arts \/ MoveArtifact(c)
              \/ \E sources \in SUBSET MemoryId : CreateArtifact(c, sources)
           /\ \/ UNCHANGED cut
              \/ ArtifactDeath(c)
<1> USE DEF governanceVars, artifactVars
<1>1. CASE GovernanceCall(c) /\ UNCHANGED artifactVars
  BY <1>1 DEF GovernanceCall, ReviewCall, AddEvent, AddMemoryEvent, StartUpdate, Update, LinkEvents,
              StartContradiction, Contradict, RetractContradiction, StartRevise, StartApprove,
              ReadEffective, WriteRevision, RejectCandidate
<1>2. CASE EmbeddingStep(c)
  BY <1>2 DEF EmbeddingStep, StartPin, WritePin, SupersedePin, EmbedEvent, StartPromote,
              MatchPin, PinMismatch, FirstMark, Promote
<1>3. CASE CompressionStep(c)
  BY <1>3 DEF CompressionStep, CreateArtifact, StartMove, MoveArtifact
<1>4. CASE SeedingStep(c)
  BY <1>4 DEF SeedingStep, StartSeed, SeedEvent, SeedLink
<1>5. CASE ArtifactDeath(c)
  BY <1>5 DEF ArtifactDeath
<1> QED
  BY <1>1, <1>2, <1>3, <1>4, <1>5 DEF ArtifactStep

-----------------------------------------------------------------------------
(* What a step may do to the events: nothing, ... *)

\* ... one more event, ...
Added(row) ==
    /\ row \in EventRow /\ revisions' = revisions /\ memory' \in Seq(EventRow)
    /\ Len(memory') = Len(memory) + 1 /\ memory'[Len(memory) + 1] = row
    /\ \A m \in MemoryId : memory'[m] = memory[m]

\* ... or another status with a revision of its own
Revised(m, new) ==
    /\ m \in MemoryId /\ new \in MemoryStatus
    /\ memory' \in Seq(EventRow) /\ Len(memory') = Len(memory)
    /\ \A i \in MemoryId : /\ memory'[i].origin = memory[i].origin
                           /\ memory'[i].status = IF i = m THEN new ELSE memory[i].status
    /\ revisions' \in Seq(StatusRow) /\ Len(revisions') = Len(revisions) + 1
    /\ revisions'[Len(revisions')].memory = m /\ revisions'[Len(revisions')].new = new
    /\ \A i \in DOMAIN revisions : revisions'[i] = revisions[i]

(* An INSERT adds its row. *)
LEMMA InsertAdds ==
    ASSUME Tables, NEW row \in EventRow, memory' = Append(memory, row), UNCHANGED revisions
    PROVE  Added(row)
BY DEF Added, Tables, MemoryId

(* A stored confidence and no artifact for the events of an operator, the  *)
(* artifact for a seeded one.                                              *)
LEMMA EventIsAdded ==
    ASSUME Shapes, NEW c \in writers
    PROVE  /\ \A confidence \in Confidences, status \in Statuses :
                AddEvent(c, confidence, status) =>
                  \E row : Added(row) /\ row.origin.source = NoArtifact
           /\ SeedEvent(c) => \E row : /\ Added(row) /\ row.status = "proposed"
                                       /\ row.origin.source = call[c].artifact
<1>1. ASSUME NEW confidence \in Confidences, NEW status \in Statuses,
             AddEvent(c, confidence, status)
      PROVE  \E row : Added(row) /\ row.origin.source = NoArtifact
  <2> DEFINE row == [origin |-> [confidence |-> confidence, source |-> NoArtifact],
                     status |-> status, version |-> 1]
  <2>1. row \in EventRow /\ row.origin.source = NoArtifact
    BY GovernanceAssumption DEF EventRow, NoArtifact
  <2>2. memory' = Append(memory, row) /\ UNCHANGED revisions
    BY <1>1 DEF AddEvent, AddMemoryEvent
  <2> HIDE DEF row
  <2> QED
    BY <2>1, <2>2, InsertAdds DEF Shapes
<1>2. ASSUME SeedEvent(c)
      PROVE  \E row : /\ Added(row) /\ row.status = "proposed"
                      /\ row.origin.source = call[c].artifact
  <2> DEFINE row == [origin |-> [confidence |-> DefaultConfidence, source |-> call[c].artifact],
                     status |-> "proposed", version |-> 1]
  <2>1. call[c].artifact \in Nat
    BY <1>2, LocalsHave DEF SeedEvent, Resume, Shapes, SeedCall
  <2>2. /\ row \in EventRow /\ row.origin.source = call[c].artifact
        /\ row.status = "proposed"
    BY <2>1 DEF EventRow, MemoryStatus, DefaultConfidence
  <2>3. memory' = Append(memory, row) /\ UNCHANGED revisions
    BY <1>2 DEF SeedEvent, AddMemoryEvent
  <2> HIDE DEF row
  <2> QED
    BY <2>2, <2>3, InsertAdds DEF Shapes
<1> QED
  BY <1>1, <1>2

(* update_status writes the status and the revision. *)
LEMMA UpdateRevises ==
    ASSUME Shapes, NEW c \in writers, Update(c)
    PROVE  Revised(call[c].memory, call[c].new)
<1> DEFINE k == call[c]
           row == [memory[k.memory] EXCEPT !.status = k.new, !.version = k.version + 1]
           revision == [memory |-> k.memory, old |-> k.old, new |-> k.new,
                        version |-> k.version + 1]
<1>1. k \in UpdateCall /\ k.memory \in MemoryId
  BY LocalsHave DEF Update, Resume, Shapes
<1>2. /\ memory' = [memory EXCEPT ![k.memory].status = k.new,
                                  ![k.memory].version = k.version + 1]
      /\ revisions' = Append(revisions, revision)
  BY DEF Update, WriteStatus
<1>3. /\ memory \in Seq(EventRow) /\ revisions \in Seq(StatusRow)
      /\ k.new \in MemoryStatus /\ k.version + 1 \in Nat /\ memory[k.memory] \in EventRow
  BY <1>1 DEF Shapes, Tables, UpdateCall, MemoryId
<1>4. /\ row \in EventRow /\ row.status = k.new /\ row.origin = memory[k.memory].origin
  BY <1>3 DEF EventRow
<1>5. memory' = [memory EXCEPT ![k.memory] = row]
  BY <1>1, <1>2, <1>3 DEF MemoryId, EventRow
<1>6. revision \in StatusRow /\ revision.memory = k.memory /\ revision.new = k.new
  BY <1>1, <1>3 DEF UpdateCall, StatusRow
<1> HIDE DEF k, row, revision
<1>7. /\ memory' \in Seq(EventRow) /\ Len(memory') = Len(memory)
      /\ \A i \in MemoryId : memory'[i] = IF i = k.memory THEN row ELSE memory[i]
  BY <1>1, <1>3, <1>4, <1>5 DEF MemoryId
<1>8. /\ revisions' \in Seq(StatusRow) /\ Len(revisions') = Len(revisions) + 1
      /\ revisions'[Len(revisions) + 1] = revision
      /\ \A i \in DOMAIN revisions : revisions'[i] = revisions[i]
  BY <1>2, <1>3, <1>6
<1>9. Revised(k.memory, k.new)
  BY <1>1, <1>3, <1>4, <1>6, <1>7, <1>8 DEF Revised
<1> QED
  BY <1>9 DEF k

(* There is nothing else. *)
LEMMA EventsChange ==
    ASSUME Shapes, NEW c \in writers, ArtifactStep(c)
    PROVE  \/ UNCHANGED <<memory, revisions>>
           \/ Update(c) /\ Revised(call[c].memory, call[c].new)
           \/ \E row : /\ Added(row)
                       /\ \/ row.origin.source = NoArtifact /\ ~SeedEvent(c)
                          \/ /\ SeedEvent(c) /\ row.status = "proposed"
                             /\ row.origin.source = call[c].artifact
<1>1. ASSUME NEW confidence \in Confidences, NEW status \in Statuses,
             AddEvent(c, confidence, status)
      PROVE  ~SeedEvent(c) /\ \E row : Added(row) /\ row.origin.source = NoArtifact
  <2>1. ~SeedEvent(c)
    BY <1>1 DEF AddEvent, SeedEvent, Resume, Idle
  <2> QED
    BY <1>1, <2>1, EventIsAdded
<1> QED
  BY <1>1, EventIsAdded, UpdateRevises, Writers

(* The shape of the rows a supersession touches. *)
LEMMA PinsSuperseded ==
    ASSUME Tables, NEW rows
    PROVE  /\ Superseded(pins, rows) \in Seq(PinRow)
           /\ DOMAIN Superseded(pins, rows) = DOMAIN pins
           /\ Len(Superseded(pins, rows)) = Len(pins)
           /\ \A i \in DOMAIN pins :
                /\ Superseded(pins, rows)[i].model = pins[i].model
                /\ Superseded(pins, rows)[i].status =
                     IF i \in rows THEN "superseded" ELSE pins[i].status
<1> DEFINE t == Superseded(pins, rows)
<1>1. DOMAIN t = 1..Len(pins) /\ Len(pins) \in Nat /\ DOMAIN pins = 1..Len(pins)
  BY DEF Superseded, Tables
<1>2. \A i \in DOMAIN pins :
        /\ t[i] \in PinRow /\ t[i].model = pins[i].model
        /\ t[i].status = IF i \in rows THEN "superseded" ELSE pins[i].status
  <2>1. \A i \in DOMAIN pins : pins[i] \in PinRow
    BY DEF Tables
  <2> QED
    BY <2>1 DEF Superseded, PinRow
<1>3. t = [i \in 1..Len(pins) |-> t[i]]
  BY <1>1 DEF Superseded
<1> HIDE DEF t
<1>4. t \in Seq(PinRow) /\ Len(t) = Len(pins)
  BY <1>1, <1>2, <1>3
<1> QED
  BY <1>1, <1>2, <1>4 DEF t

(* The same for embeddings. *)
LEMMA EmbeddingsSuperseded ==
    ASSUME Tables, NEW rows
    PROVE  /\ Superseded(embeds, rows) \in Seq(EmbeddingRow)
           /\ DOMAIN Superseded(embeds, rows) = DOMAIN embeds
           /\ \A i \in DOMAIN embeds :
                /\ Superseded(embeds, rows)[i].event = embeds[i].event
                /\ Superseded(embeds, rows)[i].model = embeds[i].model
                /\ Superseded(embeds, rows)[i].pin = embeds[i].pin
                /\ Superseded(embeds, rows)[i].status =
                     IF i \in rows THEN "superseded" ELSE embeds[i].status
<1> DEFINE t == Superseded(embeds, rows)
<1>1. DOMAIN t = 1..Len(embeds) /\ Len(embeds) \in Nat /\ DOMAIN embeds = 1..Len(embeds)
  BY DEF Superseded, Tables
<1>2. \A i \in DOMAIN embeds :
        /\ t[i] \in EmbeddingRow /\ t[i].event = embeds[i].event
        /\ t[i].model = embeds[i].model /\ t[i].pin = embeds[i].pin
        /\ t[i].status = IF i \in rows THEN "superseded" ELSE embeds[i].status
  <2>1. \A i \in DOMAIN embeds : embeds[i] \in EmbeddingRow
    BY DEF Tables
  <2> QED
    BY <2>1 DEF Superseded, EmbeddingRow
<1>3. t = [i \in 1..Len(embeds) |-> t[i]]
  BY <1>1 DEF Superseded
<1> HIDE DEF t
<1>4. t \in Seq(EmbeddingRow)
  BY <1>1, <1>2, <1>3
<1> QED
  BY <1>1, <1>2, <1>4 DEF t

(* A set of ids that is not empty has a least member. *)
LEMMA LeastOf ==
    ASSUME NEW S \in SUBSET Nat, S # {}
    PROVE  \E k \in S : \A j \in S : k <= j
<1> DEFINE R == {q \in Nat \X Nat : q[1] < q[2]}
<1>1. R = OpToRel(<, Nat)
  BY DEF OpToRel
<1>2. IsWellFoundedOn(R, Nat)
  BY <1>1, NatLessThanWellFounded
<1>3. PICK k \in S : \A j \in S : ~ (<<j, k>> \in R)
  <2> HIDE DEF R
  <2> QED
    BY <1>2, WFMin
<1>4. \A j \in S : ~ (j < k)
  BY <1>3
<1> QED
  BY <1>4

(* A set of ids of a table that is not empty has a greatest: LastOf. *)
LEMMA GreatestOf ==
    ASSUME NEW n \in Nat, NEW S \in SUBSET (1..n), S # {}
    PROVE  LastOf(S) \in S /\ \A j \in S : j <= LastOf(S)
<1> DEFINE T == {n - i : i \in S}
<1>1. T \subseteq Nat /\ T # {}
  <2>1. \A i \in S : n - i \in Nat
    OBVIOUS
  <2> QED
    BY <2>1
<1>2. PICK t \in T : \A u \in T : t <= u
  BY <1>1, LeastOf
<1>3. PICK k \in S : t = n - k
  BY <1>2
<1>4. ASSUME NEW j \in S
      PROVE  j <= k
  <2>1. n - k <= n - j
    BY <1>2, <1>3
  <2> QED
    BY <2>1
<1> QED
  BY <1>4 DEF LastOf

(* Pins keep their model, one that is not active stays so, and a new one is  *)
(* the last.                                                                 *)
LEMMA PinsChange ==
    ASSUME Shapes, NEW c \in writers, ArtifactStep(c)
    PROVE  /\ pins' \in Seq(PinRow) /\ DOMAIN pins \subseteq DOMAIN pins'
           /\ \A p \in DOMAIN pins :
                /\ pins'[p].model = pins[p].model
                /\ pins'[p].status = "active" => pins[p].status = "active"
           /\ \/ Len(pins') = Len(pins)
              \/ /\ WritePin(c) /\ Len(pins') = Len(pins) + 1
                 /\ \A p \in DOMAIN pins : p \in call[c].old => pins'[p].status = "superseded"
<1>1. CASE UNCHANGED pins
  BY <1>1 DEF Shapes, Tables
<1>2. ASSUME NEW p \in DOMAIN pins, SupersedePin(c, p)
      PROVE  /\ pins' \in Seq(PinRow) /\ DOMAIN pins' = DOMAIN pins /\ Len(pins') = Len(pins)
             /\ \A q \in DOMAIN pins :
                  /\ pins'[q].model = pins[q].model
                  /\ pins'[q].status = "active" => pins[q].status = "active"
  <2>1. pins' = Superseded(pins, {p})
    BY <1>2 DEF SupersedePin
  <2> QED
    BY <2>1, PinsSuperseded DEF Shapes
<1>3. CASE WritePin(c)
  <2> DEFINE row == [model |-> call[c].model, status |-> "active"]
             old == Superseded(pins, call[c].old)
  <2>1. row \in PinRow
    BY <1>3, LocalsHave DEF WritePin, Resume, Shapes, PinCall, PinRow
  <2>2. pins' = Append(old, row)
    BY <1>3 DEF WritePin
  <2>3. /\ old \in Seq(PinRow) /\ DOMAIN old = DOMAIN pins /\ Len(old) = Len(pins)
        /\ \A p \in DOMAIN pins :
             /\ old[p].model = pins[p].model
             /\ old[p].status = IF p \in call[c].old THEN "superseded" ELSE pins[p].status
    BY PinsSuperseded DEF Shapes
  <2> HIDE DEF row, old
  <2>4. /\ pins' \in Seq(PinRow) /\ Len(pins') = Len(pins) + 1
        /\ DOMAIN pins \subseteq DOMAIN pins' /\ \A p \in DOMAIN pins : pins'[p] = old[p]
    BY <2>1, <2>2, <2>3
  <2> QED
    BY <1>3, <2>3, <2>4
<1> QED
  BY <1>1, <1>2, <1>3, Writers

(* What a promotion leaves: its own row active under its pin, the rows it    *)
(* read superseded.                                                          *)
Promoted(k) ==
    /\ k.old # {} => embeds[k.embedding].status = "candidate"
    /\ embeds' \in Seq(EmbeddingRow) /\ DOMAIN embeds' = DOMAIN embeds
    /\ embeds'[k.embedding].status = "active" /\ embeds'[k.embedding].pin = k.pin
    /\ \A e \in DOMAIN embeds :
         /\ embeds'[e].event = embeds[e].event /\ embeds'[e].model = embeds[e].model
         /\ e # k.embedding =>
              /\ embeds'[e].pin = embeds[e].pin
              /\ embeds'[e].status = IF e \in k.old THEN "superseded" ELSE embeds[e].status

\* one more embedding, a candidate
Embedded(m, model) ==
    /\ embeds' \in Seq(EmbeddingRow) /\ DOMAIN embeds' = 1..Len(embeds) + 1
    /\ embeds'[Len(embeds) + 1] = [event |-> m, model |-> model, status |-> "candidate",
                                   pin |-> None]
    /\ \A e \in DOMAIN embeds : embeds'[e] = embeds[e]

(* What may happen to the embeddings. *)
LEMMA EmbeddingsChange ==
    ASSUME Shapes, NEW c \in writers, ArtifactStep(c)
    PROVE  \/ UNCHANGED embeds
           \/ Promote(c) /\ Promoted(call[c])
           \/ \E m \in MemoryId, model \in Models : EmbedEvent(c, m, model) /\ Embedded(m, model)
<1>1. ASSUME NEW m \in MemoryId, NEW model \in Models, EmbedEvent(c, m, model)
      PROVE  Embedded(m, model)
  <2> DEFINE row == [event |-> m, model |-> model, status |-> "candidate", pin |-> None]
  <2>1. row \in EmbeddingRow
    BY DEF EmbeddingRow, None, MemoryId, Shapes, Tables
  <2>2. embeds' = Append(embeds, row)
    BY <1>1 DEF EmbedEvent
  <2> HIDE DEF row
  <2>3. /\ embeds' \in Seq(EmbeddingRow) /\ DOMAIN embeds' = 1..Len(embeds) + 1
        /\ embeds'[Len(embeds) + 1] = row
        /\ \A e \in DOMAIN embeds : embeds'[e] = embeds[e]
    BY <2>1, <2>2 DEF Shapes, Tables
  <2> QED
    BY <2>3 DEF Embedded, row
<1>2. ASSUME Promote(c), ~UNCHANGED embeds
      PROVE  Promoted(call[c])
  <2> DEFINE k == call[c]
             old == Superseded(embeds, k.old)
             row == [old[k.embedding] EXCEPT !.status = "active", !.pin = k.pin]
  <2>1. /\ k.old # {} => embeds[k.embedding].status = "candidate"
        /\ embeds' = [old EXCEPT ![k.embedding].status = "active", ![k.embedding].pin = k.pin]
    BY <1>2 DEF Promote
  <2>2. k.embedding \in DOMAIN embeds /\ k.pin \in Nat
    BY <1>2, LocalsHave DEF Promote, Resume, Shapes, MarkCall
  <2>3. /\ old \in Seq(EmbeddingRow) /\ DOMAIN old = DOMAIN embeds
        /\ \A i \in DOMAIN embeds :
             /\ old[i].event = embeds[i].event /\ old[i].model = embeds[i].model
             /\ old[i].pin = embeds[i].pin
             /\ old[i].status = IF i \in k.old THEN "superseded" ELSE embeds[i].status
    BY EmbeddingsSuperseded DEF Shapes
  <2> HIDE DEF k, old
  <2>4. old[k.embedding] \in EmbeddingRow
    BY <2>2, <2>3
  <2>5. embeds' = [old EXCEPT ![k.embedding] = row]
    BY <2>1, <2>2, <2>3, <2>4 DEF EmbeddingRow
  <2>6. /\ row \in EmbeddingRow /\ row.status = "active" /\ row.pin = k.pin
        /\ row.event = old[k.embedding].event /\ row.model = old[k.embedding].model
    BY <2>2, <2>4 DEF EmbeddingRow
  <2> HIDE DEF row
  <2>7. /\ embeds' \in Seq(EmbeddingRow) /\ DOMAIN embeds' = DOMAIN embeds
        /\ \A i \in DOMAIN embeds : embeds'[i] = IF i = k.embedding THEN row ELSE old[i]
    BY <2>2, <2>3, <2>5, <2>6
  <2>8. Promoted(k)
    BY <2>1, <2>2, <2>3, <2>6, <2>7 DEF Promoted
  <2> QED
    BY <2>8 DEF k
<1> QED
  BY <1>1, <1>2, Writers

(* An artifact keeps its sources, a new one is a candidate made of events, and  *)
(* one that moves is the one of the call.                                       *)
Created == /\ DOMAIN arts' = 1 .. Len(arts) + 1
           /\ \A a \in DOMAIN arts : arts'[a] = arts[a]
           /\ arts'[Len(arts) + 1].status = "candidate"
           /\ arts'[Len(arts) + 1].superseded_by = None

MovedTo(k) ==
    /\ DOMAIN arts' = DOMAIN arts /\ k.at = "move" /\ k.artifact \in DOMAIN arts
    /\ k.to \in ArtifactStatus /\ Replaces(k)
    /\ \A a \in DOMAIN arts : a # k.artifact => arts'[a] = arts[a]
    /\ arts'[k.artifact].status = k.to
    /\ arts'[k.artifact].superseded_by =
         IF k.to = "superseded" THEN k.by ELSE arts[k.artifact].superseded_by

LEMMA ArtifactsChange ==
    ASSUME Shapes, NEW c \in writers, ArtifactStep(c)
    PROVE  /\ arts' \in Seq(ArtifactRow) /\ DOMAIN arts \subseteq DOMAIN arts'
           /\ \A a \in DOMAIN arts : arts'[a].sources = arts[a].sources
           /\ \A a \in DOMAIN arts' : arts'[a].sources \subseteq MemoryId
           /\ UNCHANGED arts \/ Created \/ MovedTo(call[c])
<1>1. CASE UNCHANGED arts
  BY <1>1 DEF Shapes, Tables, Rows
<1>2. ASSUME NEW sources \in SUBSET MemoryId, CreateArtifact(c, sources)
      PROVE  /\ arts' \in Seq(ArtifactRow) /\ DOMAIN arts \subseteq DOMAIN arts'
             /\ \A a \in DOMAIN arts : arts'[a].sources = arts[a].sources
             /\ \A a \in DOMAIN arts' : arts'[a].sources \subseteq MemoryId
             /\ Created
  <2> DEFINE row == [sources |-> sources, status |-> "candidate", superseded_by |-> None]
  <2>1. row \in ArtifactRow /\ row.sources = sources /\ row.status = "candidate"
        /\ row.superseded_by = None
    BY DEF ArtifactRow, ArtifactStatus, None, MemoryId, Shapes, Tables
  <2>2. arts' = Append(arts, row)
    BY <1>2 DEF CreateArtifact
  <2> HIDE DEF row
  <2> QED
    BY <2>1, <2>2 DEF Shapes, Tables, Rows, Created
<1>3. CASE MoveArtifact(c)
  <2> PICK k : k = call[c]
    OBVIOUS
  <2> DEFINE row == [arts[k.artifact] EXCEPT !.status = k.to,
                       !.superseded_by = IF k.to = "superseded" THEN k.by ELSE @]
  <2>1. k \in MoveCall /\ k.artifact \in DOMAIN arts /\ Replaces(k) /\ k.at = "move"
    BY <1>3, LocalsHave DEF MoveArtifact, Resume, Shapes
  <2>2. /\ arts' = [arts EXCEPT ![k.artifact] = row]
        /\ row \in ArtifactRow /\ row.sources = arts[k.artifact].sources
        /\ row.status = k.to
        /\ row.superseded_by =
             IF k.to = "superseded" THEN k.by ELSE arts[k.artifact].superseded_by
    <3>1. \A a \in DOMAIN arts : arts[a] \in ArtifactRow
      BY DEF Shapes, Tables
    <3>2. arts' = [arts EXCEPT ![k.artifact].status = k.to,
                     ![k.artifact].superseded_by = IF k.to = "superseded" THEN k.by ELSE @]
      BY <1>3 DEF MoveArtifact
    <3> QED
      BY <2>1, <3>1, <3>2 DEF ArtifactRow, MoveCall
  <2> HIDE DEF row
  <2>3. /\ arts' \in Seq(ArtifactRow) /\ DOMAIN arts' = DOMAIN arts
        /\ \A a \in DOMAIN arts : arts'[a].sources = arts[a].sources
        /\ \A a \in DOMAIN arts : a # k.artifact => arts'[a] = arts[a]
        /\ arts'[k.artifact] = row
    BY <2>1, <2>2 DEF Shapes, Tables
  <2>4. k.to \in ArtifactStatus
    BY <2>1 DEF MoveCall
  <2>5. MovedTo(k)
    BY <2>1, <2>2, <2>3, <2>4 DEF MovedTo
  <2> QED
    BY <2>3, <2>5 DEF Shapes, Rows
<1> QED
  BY <1>1, <1>2, <1>3, Writers

\* a link that changes its status only, ...
Retracted ==
    /\ links' \in Seq(LinkRows) /\ DOMAIN links' = DOMAIN links
    /\ \A l \in DOMAIN links :
         /\ links'[l].source = links[l].source /\ links'[l].target = links[l].target
         /\ links'[l].relation = links[l].relation /\ links'[l].seen = links[l].seen
         /\ links'[l].attributed = links[l].attributed

\* ... and one more link
LinkAdded(row) ==
    /\ row \in LinkRows /\ {row.source, row.target} \subseteq MemoryId
    /\ links' \in Seq(LinkRows) /\ DOMAIN links' = 1..Len(links) + 1
    /\ links'[Len(links) + 1] = row
    /\ \A l \in DOMAIN links : links'[l] = links[l]

(* The INSERT of a link between events. *)
LEMMA InsertLinks ==
    ASSUME Shapes, NEW row \in LinkRows, {row.source, row.target} \subseteq MemoryId,
           links' = Append(links, row)
    PROVE  LinkAdded(row)
BY DEF LinkAdded, Shapes, Tables

(* The source a seeding links next is the lowest of those that are left. *)
NextSource(k) == CHOOSE s \in k.todo : \A t \in k.todo : s <= t

(* It is one of them, and none of them is lower. *)
LEMMA NextIsLeast ==
    ASSUME Shapes, NEW c \in Callers, call[c].at = "derive"
    PROVE  /\ NextSource(call[c]) \in call[c].todo
           /\ \A t \in call[c].todo : NextSource(call[c]) <= t
<1>1. call[c].todo \in SUBSET Nat /\ call[c].todo # {}
  BY LocalsHave DEF DeriveCall
<1> QED
  BY <1>1, LeastOf DEF NextSource

(* The row a contradiction is to be, and that of the next source of a seeding. *)
ContradictionRow(k) == LinkRow(k.source, k.target, "contradicts", TRUE, k.seen)
SourceRow(k) == LinkRow(k.event, NextSource(k), "derived_from", TRUE, Len(revisions))

(* What may happen to the links. *)
LEMMA LinksChange ==
    ASSUME Shapes, NEW c \in writers, ArtifactStep(c)
    PROVE  \/ UNCHANGED links /\ ~SeedLink(c)
           \/ /\ UNCHANGED links /\ SeedLink(c)
              /\ LinkExists(call[c].event, NextSource(call[c]), "derived_from")
           \/ Retracted /\ ~SeedLink(c)
           \/ \E row : /\ LinkAdded(row) /\ row.relation # "contradicts" /\ ~row.attributed
                       /\ ~LinkExists(row.source, row.target, row.relation) /\ ~SeedLink(c)
           \/ \E row : /\ LinkAdded(row) /\ Contradict(c) /\ row = ContradictionRow(call[c])
                       /\ ~LinkExists(row.source, row.target, "contradicts")
           \/ \E row : /\ LinkAdded(row) /\ SeedLink(c) /\ row = SourceRow(call[c])
                       /\ ~LinkExists(row.source, row.target, "derived_from")
<1>0. c \in Callers
  BY DEF Shapes
<1>1. SeedLink(c) => Resume(c, "derive")
  BY DEF SeedLink
<1>2. ASSUME NEW l \in DOMAIN links, RetractContradiction(c, l)
      PROVE  Retracted /\ ~SeedLink(c)
  <2> DEFINE row == [links[l] EXCEPT !.status = "retracted"]
  <2>1. \A i \in DOMAIN links : links[i] \in LinkRows
    BY DEF Shapes, Tables
  <2>2. /\ row \in LinkRows /\ row.source = links[l].source /\ row.target = links[l].target
        /\ row.relation = links[l].relation /\ row.seen = links[l].seen
        /\ row.attributed = links[l].attributed
    BY <2>1 DEF LinkRows
  <2>3. links' = [links EXCEPT ![l] = row] /\ call[c] = Idle
    BY <1>2 DEF RetractContradiction
  <2> HIDE DEF row
  <2> QED
    BY <2>2, <2>3 DEF Retracted, Shapes, Tables, SeedLink, Resume, Idle
<1>3. ASSUME NEW s \in MemoryId, NEW t \in MemoryId, NEW rel \in Relations,
             LinkEvents(c, s, t, rel)
      PROVE  \E row : /\ LinkAdded(row) /\ row.relation # "contradicts" /\ ~row.attributed
                      /\ ~LinkExists(row.source, row.target, row.relation) /\ ~SeedLink(c)
  <2> DEFINE row == LinkRow(s, t, rel, FALSE, Len(revisions))
  <2>0. rel \in Relationships
    BY GovernanceAssumption
  <2>1. /\ row \in LinkRows /\ row.source = s /\ row.target = t /\ row.relation = rel
        /\ ~row.attributed
    BY <2>0 DEF LinkRow, LinkRows, Shapes, Tables, MemoryId
  <2>2. /\ links' = Append(links, row) /\ ~LinkExists(s, t, rel) /\ call[c] = Idle
        /\ rel # "contradicts"
    BY <1>3 DEF LinkEvents
  <2>3. ~SeedLink(c)
    BY <2>2 DEF SeedLink, Resume, Idle
  <2> HIDE DEF row
  <2>4. LinkAdded(row)
    BY <2>1, <2>2, InsertLinks
  <2> QED
    BY <2>1, <2>2, <2>3, <2>4
<1>4. ASSUME Contradict(c), ~UNCHANGED links
      PROVE  \E row : /\ LinkAdded(row) /\ row = ContradictionRow(call[c])
                      /\ ~LinkExists(row.source, row.target, "contradicts")
  <2> DEFINE row == ContradictionRow(call[c])
  <2>1. /\ call[c] \in ContradictCall
        /\ {call[c].source, call[c].target} \subseteq MemoryId
    BY <1>0, <1>4, LocalsHave DEF Contradict, Resume
  <2>2. row \in LinkRows /\ row.source = call[c].source /\ row.target = call[c].target
    BY <2>1 DEF ContradictionRow, LinkRow, LinkRows, ContradictCall, Relationships
  <2>3. links' = Append(links, row) /\ ~LinkExists(call[c].source, call[c].target, "contradicts")
    BY <1>4 DEF Contradict, ContradictionRow
  <2> HIDE DEF row
  <2>4. LinkAdded(row)
    BY <2>1, <2>2, <2>3, InsertLinks
  <2> QED
    BY <2>2, <2>3, <2>4 DEF row
<1>5. ASSUME SeedLink(c)
      PROVE  \/ /\ UNCHANGED links
                /\ LinkExists(call[c].event, NextSource(call[c]), "derived_from")
             \/ \E row : /\ LinkAdded(row) /\ row = SourceRow(call[c])
                         /\ ~LinkExists(row.source, row.target, "derived_from")
  <2> DEFINE row == SourceRow(call[c])
  <2>1. /\ call[c].event \in MemoryId /\ call[c].todo \subseteq MemoryId
        /\ NextSource(call[c]) \in call[c].todo
    BY <1>0, <1>1, <1>5, LocalsHave, NextIsLeast DEF Resume
  <2>2. row \in LinkRows /\ row.source = call[c].event /\ row.target = NextSource(call[c])
    BY <2>1 DEF SourceRow, LinkRow, LinkRows, Shapes, Tables, MemoryId, Relationships
  <2>3. links' = IF LinkExists(call[c].event, NextSource(call[c]), "derived_from") THEN links
                 ELSE Append(links, row)
    BY <1>5, Zenon DEF SeedLink, NextSource, SourceRow
  <2> HIDE DEF row
  <2>4. CASE LinkExists(call[c].event, NextSource(call[c]), "derived_from")
    BY <2>3, <2>4
  <2>5. CASE ~LinkExists(call[c].event, NextSource(call[c]), "derived_from")
    <3>1. links' = Append(links, row)
      BY <2>3, <2>5
    <3>2. LinkAdded(row)
      BY <2>1, <2>2, <3>1, InsertLinks
    <3> QED
      BY <2>2, <2>5, <3>2 DEF row
  <2> QED
    BY <2>4, <2>5
<1>6. Contradict(c) => ~SeedLink(c)
  BY DEF Contradict, SeedLink, Resume
<1>7. (\E l \in DOMAIN links : RetractContradiction(c, l)) => Retracted /\ ~SeedLink(c)
  BY <1>2
<1>8. (\E s, t \in MemoryId, rel \in Relations : LinkEvents(c, s, t, rel)) =>
        \E row : /\ LinkAdded(row) /\ row.relation # "contradicts" /\ ~row.attributed
                 /\ ~LinkExists(row.source, row.target, row.relation) /\ ~SeedLink(c)
  BY <1>3
<1>9. \/ UNCHANGED links \/ Contradict(c) \/ SeedLink(c)
      \/ \E s, t \in MemoryId, rel \in Relations : LinkEvents(c, s, t, rel)
      \/ \E l \in DOMAIN links : RetractContradiction(c, l)
  BY Writers
<1>10. CASE SeedLink(c)
  BY <1>5, <1>10
<1>11. CASE ~SeedLink(c)
  BY <1>4, <1>7, <1>8, <1>9, <1>11
<1> QED
  BY <1>10, <1>11

(* The revisions keep their type and name events. *)
LEMMA RevisionsTyped ==
    ASSUME Shapes, NEW c \in writers, ArtifactStep(c)
    PROVE  /\ confs' \in Seq(ConfidenceRow)
           /\ \A i \in DOMAIN confs' : confs'[i].memory \in MemoryId
<1>0. c \in Callers
  BY DEF Shapes
<1>1. CASE UNCHANGED confs
  BY <1>1 DEF Shapes, Tables, Rows
<1>2. ASSUME NEW r \in DOMAIN confs, RejectCandidate(c, r)
      PROVE  /\ confs' \in Seq(ConfidenceRow)
             /\ \A i \in DOMAIN confs' : confs'[i].memory \in MemoryId
  <2> DEFINE row == [confs[r] EXCEPT !.status = "rejected"]
  <2>1. confs[r] \in ConfidenceRow /\ confs \in Seq(ConfidenceRow)
    BY DEF Shapes, Tables
  <2>2. row \in ConfidenceRow /\ row.memory = confs[r].memory
    BY <2>1 DEF ConfidenceRow
  <2>3. confs' = [confs EXCEPT ![r] = row]
    BY <1>2 DEF RejectCandidate
  <2> HIDE DEF row
  <2> QED
    BY <2>1, <2>2, <2>3 DEF Shapes, Rows
<1>3. CASE WriteRevision(c)
  <2> DEFINE k == call[c]
             row(s) == [memory |-> k.memory, before |-> k.before, after |-> k.after,
                        type |-> k.type, status |-> s, from |-> k.from]
             t == SupersedeRevisions(k.memory)
  <2>1. k \in ReviseCall /\ k.memory \in MemoryId
    BY <1>0, <1>3, LocalsHave DEF WriteRevision, Resume
  <2>2. row("active") \in ConfidenceRow /\ row("proposed") \in ConfidenceRow
    BY <2>1 DEF ReviseCall, ConfidenceRow
  <2>3. /\ DOMAIN t = 1..Len(confs) /\ Len(confs) \in Nat
        /\ \A i \in 1..Len(confs) : t[i] \in ConfidenceRow /\ t[i].memory \in MemoryId
        /\ t = [i \in 1..Len(confs) |-> t[i]]
    <3>1. DOMAIN t = 1..Len(confs) /\ Len(confs) \in Nat
      BY DEF SupersedeRevisions, Shapes, Tables
    <3>2. \A i \in 1..Len(confs) : confs[i] \in ConfidenceRow /\ confs[i].memory \in MemoryId
      BY DEF Shapes, Tables, Rows
    <3>3. \A i \in 1..Len(confs) : t[i] \in ConfidenceRow /\ t[i].memory \in MemoryId
      BY <3>1, <3>2 DEF SupersedeRevisions, ConfidenceRow
    <3>4. t = [i \in 1..Len(confs) |-> t[i]]
      BY <3>1 DEF SupersedeRevisions
    <3> QED
      BY <3>1, <3>3, <3>4
  <2>4. \/ confs' = Append(t, row("active"))
        \/ confs' = Append(confs, row("proposed"))
    BY <1>3 DEF WriteRevision
  <2> HIDE DEF t
  <2>5. t \in Seq(ConfidenceRow) /\ \A i \in DOMAIN t : t[i].memory \in MemoryId
    BY <2>3
  <2>6. CASE confs' = Append(t, row("active"))
    BY <2>1, <2>2, <2>5, <2>6
  <2>7. CASE confs' = Append(confs, row("proposed"))
    BY <2>1, <2>2, <2>7 DEF Shapes, Tables, Rows
  <2> QED
    BY <2>4, <2>6, <2>7
<1> QED
  BY <1>1, <1>2, <1>3, Writers

-----------------------------------------------------------------------------
(* Rows are never deleted, and these columns never change. *)
Kept ==
    /\ MemoryId \subseteq MemoryId' /\ \A m \in MemoryId : memory'[m].origin = memory[m].origin
    /\ DOMAIN pins \subseteq DOMAIN pins'
    /\ \A p \in DOMAIN pins : pins'[p].model = pins[p].model
    /\ DOMAIN embeds \subseteq DOMAIN embeds'
    /\ \A e \in DOMAIN embeds : /\ embeds'[e].event = embeds[e].event
                                /\ embeds'[e].model = embeds[e].model
    /\ DOMAIN arts \subseteq DOMAIN arts'
    /\ \A a \in DOMAIN arts : arts'[a].sources = arts[a].sources

(* No step of a caller deletes a row or changes one of them. *)
LEMMA KeptStep ==
    ASSUME Shapes, NEW c \in writers, ArtifactStep(c)
    PROVE  Kept
<1>1. MemoryId \subseteq MemoryId' /\ \A m \in MemoryId : memory'[m].origin = memory[m].origin
  <2>1. CASE UNCHANGED <<memory, revisions>>
    BY <2>1 DEF MemoryId
  <2>2. CASE Revised(call[c].memory, call[c].new)
    BY <2>2 DEF Revised, MemoryId, Shapes, Tables
  <2>3. ASSUME NEW row, Added(row)
        PROVE  /\ MemoryId \subseteq MemoryId'
               /\ \A m \in MemoryId : memory'[m].origin = memory[m].origin
    BY <2>3 DEF Added, MemoryId, Shapes, Tables
  <2> QED
    BY <2>1, <2>2, <2>3, EventsChange
<1>2. /\ DOMAIN embeds \subseteq DOMAIN embeds'
      /\ \A e \in DOMAIN embeds : /\ embeds'[e].event = embeds[e].event
                                  /\ embeds'[e].model = embeds[e].model
  <2>1. CASE UNCHANGED embeds
    BY <2>1
  <2>2. CASE Promoted(call[c])
    BY <2>2 DEF Promoted
  <2>3. ASSUME NEW m, NEW model, Embedded(m, model)
        PROVE  /\ DOMAIN embeds \subseteq DOMAIN embeds'
               /\ \A e \in DOMAIN embeds : /\ embeds'[e].event = embeds[e].event
                                           /\ embeds'[e].model = embeds[e].model
    BY <2>3 DEF Embedded, Shapes, Tables
  <2> QED
    BY <2>1, <2>2, <2>3, EmbeddingsChange
<1> QED
  BY <1>1, <1>2, PinsChange, ArtifactsChange DEF Kept

(* The tables stay typed. *)
LEMMA TablesStep ==
    ASSUME Shapes, NEW c \in writers, ArtifactStep(c)
    PROVE  Tables'
<1>1. memory' \in Seq(EventRow) /\ revisions' \in Seq(StatusRow)
  <2>1. CASE UNCHANGED <<memory, revisions>>
    BY <2>1 DEF Shapes, Tables
  <2>2. CASE Revised(call[c].memory, call[c].new)
    BY <2>2 DEF Revised
  <2>3. ASSUME NEW row, Added(row)
        PROVE  memory' \in Seq(EventRow) /\ revisions' \in Seq(StatusRow)
    BY <2>3 DEF Added, Shapes, Tables
  <2> QED
    BY <2>1, <2>2, <2>3, EventsChange
<1>2. links' \in Seq(LinkRows)
  BY LinksChange DEF Retracted, LinkAdded, Shapes, Tables
<1>3. embeds' \in Seq(EmbeddingRow)
  BY EmbeddingsChange DEF Promoted, Embedded, Shapes, Tables
<1> QED
  BY <1>1, <1>2, <1>3, RevisionsTyped, PinsChange, ArtifactsChange DEF Tables

(* Rows name rows that are there. *)
LEMMA RowsStep ==
    ASSUME Shapes, NEW c \in writers, ArtifactStep(c)
    PROVE  Rows'
<1>0. Kept
  BY KeptStep
<1>1. \A m \in MemoryId' : memory'[m].origin.source \in DOMAIN arts' \cup {NoArtifact}
  <2>1. \A m \in MemoryId : memory'[m].origin.source \in DOMAIN arts' \cup {NoArtifact}
    BY <1>0 DEF Kept, Shapes, Rows
  <2>2. CASE UNCHANGED <<memory, revisions>>
    BY <2>1, <2>2 DEF MemoryId
  <2>3. CASE Revised(call[c].memory, call[c].new)
    <3>1. MemoryId' = MemoryId
      BY <2>3 DEF Revised, MemoryId, Shapes, Tables
    <3> QED
      BY <2>1, <3>1
  <2>4. ASSUME NEW row, Added(row), row.origin.source \in DOMAIN arts \cup {NoArtifact}
        PROVE  \A m \in MemoryId' : memory'[m].origin.source \in DOMAIN arts' \cup {NoArtifact}
    <3>1. \A m \in MemoryId' : m \in MemoryId \/ memory'[m] = row
      BY <2>4 DEF Added, MemoryId, Shapes, Tables
    <3> QED
      BY <1>0, <2>1, <2>4, <3>1 DEF Kept
  <2>5. SeedEvent(c) => call[c].artifact \in DOMAIN arts
    BY LocalsHave DEF SeedEvent, Resume, Shapes
  <2> QED
    BY <2>2, <2>3, <2>4, <2>5, EventsChange
<1>2. \A i \in DOMAIN revisions' : revisions'[i].memory \in MemoryId'
  <2>1. CASE revisions' = revisions
    BY <1>0, <2>1 DEF Kept, Shapes, Rows
  <2>2. CASE Revised(call[c].memory, call[c].new)
    <3>1. \A i \in DOMAIN revisions' : i \in DOMAIN revisions \/ i = Len(revisions')
      BY <2>2 DEF Revised, Shapes, Tables
    <3>2. \A i \in DOMAIN revisions : revisions'[i] = revisions[i]
      BY <2>2 DEF Revised
    <3>3. revisions'[Len(revisions')].memory \in MemoryId
      BY <2>2 DEF Revised
    <3> QED
      BY <1>0, <3>1, <3>2, <3>3 DEF Kept, Shapes, Rows
  <2> QED
    BY <2>1, <2>2, EventsChange DEF Added
<1>3. \A l \in DOMAIN links' : {links'[l].source, links'[l].target} \subseteq MemoryId
  <2>1. CASE UNCHANGED links
    BY <2>1 DEF Shapes, Rows
  <2>2. CASE Retracted
    BY <2>2 DEF Retracted, Shapes, Rows
  <2>3. ASSUME NEW row, LinkAdded(row)
        PROVE  \A l \in DOMAIN links' : {links'[l].source, links'[l].target} \subseteq MemoryId
    <3>1. \A l \in DOMAIN links' :
            \/ l \in DOMAIN links /\ links'[l] = links[l]
            \/ links'[l] = row
      BY <2>3 DEF LinkAdded, Shapes, Tables
    <3> QED
      BY <2>3, <3>1 DEF LinkAdded, Shapes, Rows
  <2> QED
    BY <2>1, <2>2, <2>3, LinksChange
<1>4. \A e \in DOMAIN embeds' : embeds'[e].event \in MemoryId
  <2>1. \A e \in DOMAIN embeds : embeds'[e].event \in MemoryId
    BY <1>0 DEF Kept, Shapes, Rows
  <2>2. ASSUME NEW m \in MemoryId, NEW model, Embedded(m, model)
        PROVE  \A e \in DOMAIN embeds' : embeds'[e].event \in MemoryId
    <3>1. \A e \in DOMAIN embeds' : e \in DOMAIN embeds \/ e = Len(embeds) + 1
      BY <2>2 DEF Embedded, Shapes, Tables
    <3>2. embeds'[Len(embeds) + 1].event = m
      BY <2>2 DEF Embedded
    <3> QED
      BY <2>1, <3>1, <3>2
  <2>3. Promoted(call[c]) => DOMAIN embeds' = DOMAIN embeds
    BY DEF Promoted
  <2> QED
    BY <2>1, <2>2, <2>3, EmbeddingsChange
<1>5. MemoryId \subseteq MemoryId'
  BY <1>0 DEF Kept
<1>6. Referred'
  <2>0. Referred /\ Len(arts) \in Nat /\ DOMAIN arts = 1 .. Len(arts)
    BY DEF Shapes, Tables, Rows
  <2>1. CASE UNCHANGED arts
    BY <2>0, <2>1 DEF Referred
  <2>2. CASE Created
    BY <2>0, <2>2 DEF Created, Referred
  <2>3. CASE MovedTo(call[c])
    BY <2>0, <2>3 DEF MovedTo, Replaces, Referred
  <2> QED
    BY <2>1, <2>2, <2>3, ArtifactsChange
<1> QED
  BY <1>1, <1>2, <1>3, <1>4, <1>5, <1>6, RevisionsTyped, ArtifactsChange DEF Rows

-----------------------------------------------------------------------------
(* A call moves by itself: it ends, or it has read what its next step needs. *)
Alone(c) == DOMAIN call' = Callers /\ \A d \in Callers : d # c => call'[d] = call[d]

Moved(c) ==
    \/ call'[c] = Idle
    \/ \E m \in MemoryId, status \in Statuses : StartUpdate(c, m, status)
    \/ \E s, t \in MemoryId : StartContradiction(c, s, t)
    \/ \E m \in MemoryId, after \in Confidences, type \in {"operator", "candidate"} :
         StartRevise(c, m, after, type)
    \/ \E r \in DOMAIN confs : StartApprove(c, r)
    \/ ReadEffective(c)
    \/ \E model \in Models : StartPin(c, model)
    \/ \E e \in DOMAIN embeds : StartPromote(c, e)
    \/ MatchPin(c)
    \/ FirstMark(c) /\ call'[c] = [call[c] EXCEPT !.at = "promote"]
    \/ \E a \in DOMAIN arts, to \in ArtifactStatus, by \in DOMAIN arts \cup {None} :
         StartMove(c, a, to, by)
    \/ \E a \in DOMAIN arts : StartSeed(c, a)
    \/ /\ SeedEvent(c) /\ arts[call[c].artifact].sources # {}
       /\ call'[c] = [at |-> "derive", event |-> Len(memory) + 1,
                      todo |-> arts[call[c].artifact].sources]
    \/ /\ SeedLink(c) /\ call[c].todo # {NextSource(call[c])}
       /\ call'[c] = [call[c] EXCEPT !.todo = @ \ {NextSource(call[c])}]

(* A step moves one caller, in one of these ways. *)
LEMMA Calls ==
    ASSUME Shapes, NEW c \in writers, ArtifactStep(c)
    PROVE  Alone(c) /\ Moved(c)
<1>0. c \in Callers /\ DOMAIN call = Callers
  BY DEF Shapes
<1>1. ASSUME NEW l, Begin(c, l) \/ Continue(c, l)
      PROVE  Alone(c) /\ call'[c] = l
  BY <1>0, <1>1 DEF Begin, Continue, Alone
<1>2. Return(c) => Alone(c) /\ Moved(c)
  <2>1. Return(c) => Alone(c) /\ call'[c] = Idle
    BY <1>0 DEF Return, Alone
  <2> QED
    BY <2>1 DEF Moved
<1>3. UNCHANGED call /\ call[c] = Idle => Alone(c) /\ Moved(c)
  BY <1>0 DEF Alone, Moved
<1>4. CASE GovernanceCall(c)
  <2>1. \/ \E confidence \in Confidences, status \in Statuses : AddEvent(c, confidence, status)
        \/ \E s, t \in MemoryId, rel \in Relations : LinkEvents(c, s, t, rel)
        \/ \E l \in DOMAIN links : RetractContradiction(c, l)
        \/ \E r \in DOMAIN confs : RejectCandidate(c, r)
        => UNCHANGED call /\ call[c] = Idle
    BY DEF AddEvent, LinkEvents, RetractContradiction, RejectCandidate
  <2>2. Update(c) \/ Contradict(c) \/ WriteRevision(c) => Return(c)
    BY DEF Update, Contradict, WriteRevision
  <2>3. \/ \E m \in MemoryId, status \in Statuses : StartUpdate(c, m, status)
        \/ \E s, t \in MemoryId : StartContradiction(c, s, t)
        \/ \E m \in MemoryId, after \in Confidences, type \in {"operator", "candidate"} :
             StartRevise(c, m, after, type)
        \/ \E r \in DOMAIN confs : StartApprove(c, r)
        \/ ReadEffective(c)
        => Alone(c) /\ Moved(c)
    <3>1. \/ \E m \in MemoryId, status \in Statuses : StartUpdate(c, m, status)
          \/ \E s, t \in MemoryId : StartContradiction(c, s, t)
          \/ \E m \in MemoryId, after \in Confidences, type \in {"operator", "candidate"} :
               StartRevise(c, m, after, type)
          \/ \E r \in DOMAIN confs : StartApprove(c, r)
          \/ ReadEffective(c)
          => Alone(c)
      BY <1>1 DEF StartUpdate, StartContradiction, StartRevise, StartApprove, ReadEffective
    <3> QED
      BY <3>1 DEF Moved
  <2> QED
    BY <1>2, <1>3, <1>4, <2>1, <2>2, <2>3 DEF GovernanceCall, ReviewCall
<1>5. CASE EmbeddingStep(c)
  <2>1. \/ \E p \in DOMAIN pins : SupersedePin(c, p)
        \/ \E m \in MemoryId, model \in Models : EmbedEvent(c, m, model)
        => UNCHANGED call /\ call[c] = Idle
    BY DEF SupersedePin, EmbedEvent
  <2>2. WritePin(c) \/ PinMismatch(c) \/ Promote(c) => Return(c)
    BY DEF WritePin, PinMismatch, Promote
  <2>3. \/ \E model \in Models : StartPin(c, model)
        \/ \E e \in DOMAIN embeds : StartPromote(c, e)
        \/ MatchPin(c)
        => Alone(c) /\ Moved(c)
    <3>1. \/ \E model \in Models : StartPin(c, model)
          \/ \E e \in DOMAIN embeds : StartPromote(c, e)
          \/ MatchPin(c)
          => Alone(c)
      BY <1>1 DEF StartPin, StartPromote, MatchPin
    <3> QED
      BY <3>1 DEF Moved
  <2>4. CASE FirstMark(c)
    <3>1. Return(c) \/ Continue(c, [call[c] EXCEPT !.at = "promote"])
      BY <2>4 DEF FirstMark
    <3>2. ASSUME Continue(c, [call[c] EXCEPT !.at = "promote"])
          PROVE  Alone(c) /\ call'[c] = [call[c] EXCEPT !.at = "promote"]
      BY <1>1, <3>2
    <3> QED
      BY <1>2, <2>4, <3>1, <3>2 DEF Moved
  <2> QED
    BY <1>2, <1>3, <1>5, <2>1, <2>2, <2>3, <2>4 DEF EmbeddingStep
<1>6. CASE CompressionStep(c)
  <2>1. (\E sources \in SUBSET MemoryId : CreateArtifact(c, sources))
        => UNCHANGED call /\ call[c] = Idle
    BY DEF CreateArtifact
  <2>2. MoveArtifact(c) => Return(c)
    BY DEF MoveArtifact
  <2>3. (\E a \in DOMAIN arts, to \in ArtifactStatus, by \in DOMAIN arts \cup {None} :
           StartMove(c, a, to, by))
        => Alone(c) /\ Moved(c)
    <3>1. (\E a \in DOMAIN arts, to \in ArtifactStatus, by \in DOMAIN arts \cup {None} :
             StartMove(c, a, to, by)) => Alone(c)
      BY <1>1 DEF StartMove
    <3> QED
      BY <3>1 DEF Moved
  <2> QED
    BY <1>2, <1>3, <1>6, <2>1, <2>2, <2>3 DEF CompressionStep
<1>7. ASSUME NEW a \in DOMAIN arts, StartSeed(c, a)
      PROVE  Alone(c) /\ Moved(c)
  <2>1. Alone(c)
    BY <1>1, <1>7 DEF StartSeed
  <2> QED
    BY <1>7, <2>1 DEF Moved
<1>8. CASE SeedEvent(c)
  <2> DEFINE s == arts[call[c].artifact].sources
             l == [at |-> "derive", event |-> Len(memory) + 1, todo |-> s]
  <2>0. IF s = {} THEN Return(c) ELSE Continue(c, l)
    BY <1>8, Zenon DEF SeedEvent
  <2>1. Return(c) \/ (s # {} /\ Continue(c, l))
    BY <2>0 DEF Return, Continue
  <2>2. Continue(c, l) => Alone(c) /\ call'[c] = l
    BY <1>1
  <2> QED
    BY <1>2, <1>8, <2>1, <2>2 DEF Moved
<1>9. CASE SeedLink(c)
  <2> DEFINE s == NextSource(call[c])
             l == [call[c] EXCEPT !.todo = @ \ {s}]
  <2>0. IF call[c].todo = {s} THEN Return(c) ELSE Continue(c, l)
    BY <1>9, Zenon DEF SeedLink, NextSource
  <2>1. Return(c) \/ (call[c].todo # {s} /\ Continue(c, l))
    BY <2>0 DEF Return, Continue
  <2>2. Continue(c, l) => Alone(c) /\ call'[c] = l
    BY <1>1
  <2> QED
    BY <1>2, <1>9, <2>1, <2>2 DEF Moved
<1>10. CASE ArtifactDeath(c)
  BY <1>2, <1>10 DEF ArtifactDeath, Die
<1> QED
  BY <1>4, <1>5, <1>6, <1>7, <1>8, <1>9, <1>10 DEF ArtifactStep, SeedingStep

(* The locals of the calls name rows that are there. *)
PlacedNext(k) ==
    \/ k = Idle
    \/ k \in UpdateCall \cup ApproveCall \cup ReviseCall /\ k.memory \in MemoryId'
    \/ k \in ContradictCall /\ {k.source, k.target} \subseteq MemoryId'
    \/ k \in PinCall
    \/ k \in MatchCall /\ k.embedding \in DOMAIN embeds'
    \/ k \in MarkCall /\ k.embedding \in DOMAIN embeds' /\ k.pin \in DOMAIN pins'
                      /\ k.old \subseteq DOMAIN embeds'
    \/ /\ k \in MoveCall /\ k.artifact \in DOMAIN arts'
       /\ k.to = "superseded" => k.by \in DOMAIN arts'
    \/ k \in SeedCall /\ k.artifact \in DOMAIN arts'
    \/ k \in DeriveCall /\ k.event \in MemoryId' /\ k.todo \subseteq MemoryId' /\ k.todo # {}

(* They stay there. *)
LEMMA StillPlaced ==
    ASSUME Kept, NEW k, Placed(k)
    PROVE  PlacedNext(k)
BY DEF Kept, Placed, PlacedNext, Replaces

(* What a step begins with names rows that are there, before or after it. *)
LEMMA StartIsPlaced ==
    ASSUME Shapes, Latest, NEW c \in writers, ArtifactStep(c), Moved(c), Alone(c)
    PROVE  Placed(call'[c]) \/ PlacedNext(call'[c])
<1> DEFINE new == call'[c]
           old == call[c]
<1>0. c \in Callers /\ DOMAIN call = Callers
  BY DEF Shapes
<1>1. CASE call'[c] = Idle
  BY <1>1 DEF Placed
<1>2. ASSUME NEW m \in MemoryId, NEW status \in Statuses, StartUpdate(c, m, status)
      PROVE  Placed(call'[c])
  <2> DEFINE l == [at |-> "update", memory |-> m, old |-> memory[m].status,
                   version |-> memory[m].version, new |-> status]
  <2>1. m \in Nat /\ memory[m] \in EventRow /\ status \in MemoryStatus
    BY GovernanceAssumption DEF Shapes, Tables, MemoryId
  <2>2. l \in UpdateCall /\ l.memory \in MemoryId
    BY <2>1 DEF UpdateCall, EventRow
  <2>3. call'[c] = l
    BY <1>0, <1>2 DEF StartUpdate, Begin
  <2> HIDE DEF l
  <2> QED
    BY <2>2, <2>3 DEF Placed
<1>3. ASSUME NEW s \in MemoryId, NEW t \in MemoryId, StartContradiction(c, s, t)
      PROVE  Placed(call'[c])
  <2> DEFINE l == [at |-> "contradict", source |-> s, target |-> t, seen |-> Len(revisions)]
  <2>1. l \in ContradictCall /\ {l.source, l.target} \subseteq MemoryId
    BY DEF ContradictCall, Shapes, Tables, MemoryId
  <2>2. call'[c] = l
    BY <1>0, <1>3 DEF StartContradiction, Begin
  <2> HIDE DEF l
  <2> QED
    BY <2>1, <2>2 DEF Placed
<1>4. ASSUME NEW m \in MemoryId, NEW after \in Confidences,
             NEW type \in {"operator", "candidate"}, StartRevise(c, m, after, type)
      PROVE  Placed(call'[c])
  <2> DEFINE l == [at |-> "revise", memory |-> m, before |-> EffectiveConfidence(m),
                   after |-> after, type |-> type, from |-> NoRevision]
  <2>1. m \in Nat /\ after \in 1..5 /\ EffectiveConfidence(m) \in 1..5
    BY GovernanceAssumption, EffectiveType DEF Shapes, Tables, MemoryId
  <2>2. l \in ReviseCall /\ l.memory \in MemoryId
    BY <2>1 DEF ReviseCall, NoRevision
  <2>3. call'[c] = l
    BY <1>0, <1>4 DEF StartRevise, Begin
  <2> HIDE DEF l
  <2> QED
    BY <2>2, <2>3 DEF Placed
<1>5. ASSUME NEW r \in DOMAIN confs, StartApprove(c, r)
      PROVE  Placed(call'[c])
  <2> DEFINE l == [at |-> "approve", memory |-> confs[r].memory,
                   after |-> confs[r].after, type |-> "operator", from |-> r]
  <2>1. r \in Nat /\ confs[r] \in ConfidenceRow /\ confs[r].memory \in MemoryId
    BY DEF Shapes, Tables, Rows
  <2>2. l \in ApproveCall /\ l.memory \in MemoryId
    BY <2>1 DEF ApproveCall, ConfidenceRow
  <2>3. call'[c] = l
    BY <1>0, <1>5 DEF StartApprove, Begin
  <2> HIDE DEF l
  <2> QED
    BY <2>2, <2>3 DEF Placed
<1>6. CASE ReadEffective(c)
  <2> DEFINE l == [at |-> "revise", memory |-> old.memory, after |-> old.after,
                   before |-> EffectiveConfidence(old.memory), type |-> old.type,
                   from |-> old.from]
  <2>1. old \in ApproveCall /\ old.memory \in MemoryId
    BY <1>0, <1>6, LocalsHave DEF ReadEffective, Resume
  <2>2. EffectiveConfidence(old.memory) \in 1..5
    BY <2>1, EffectiveType
  <2>3. l \in ReviseCall /\ l.memory \in MemoryId
    BY <2>1, <2>2 DEF ReviseCall, ApproveCall
  <2>4. call'[c] = l
    BY <1>0, <1>6 DEF ReadEffective, Continue
  <2> HIDE DEF l
  <2> QED
    BY <2>3, <2>4 DEF Placed
<1>7. ASSUME NEW model \in Models, StartPin(c, model)
      PROVE  Placed(call'[c])
  <2> DEFINE l == [at |-> "pin", model |-> model, old |-> ActiveRows(pins)]
  <2>1. l \in PinCall
    BY DEF PinCall, ActiveRows, Shapes, Tables
  <2>2. call'[c] = l
    BY <1>0, <1>7 DEF StartPin, Begin
  <2> HIDE DEF l
  <2> QED
    BY <2>1, <2>2 DEF Placed
<1>8. ASSUME NEW e \in DOMAIN embeds, StartPromote(c, e)
      PROVE  Placed(call'[c])
  <2> DEFINE l == [at |-> "match", embedding |-> e]
  <2>1. l \in MatchCall /\ l.embedding \in DOMAIN embeds
    BY DEF MatchCall, Shapes, Tables
  <2>2. call'[c] = l
    BY <1>0, <1>8 DEF StartPromote, Begin
  <2> HIDE DEF l
  <2> QED
    BY <2>1, <2>2 DEF Placed
<1>9. CASE MatchPin(c)
  <2> DEFINE l == [at |-> "mark", embedding |-> old.embedding, pin |-> ActivePin,
                   old |-> ActiveEmbeddings(embeds[old.embedding].event)]
  <2>1. old \in MatchCall /\ old.embedding \in DOMAIN embeds
    BY <1>0, <1>9, LocalsHave DEF MatchPin, Resume
  <2>2. ActivePin \in DOMAIN pins
    <3>1. ActiveRows(pins) # {} /\ ActivePin = LastOf(ActiveRows(pins))
      BY <1>9 DEF MatchPin, ActivePin
    <3>2. ActiveRows(pins) \subseteq 1..Len(pins) /\ Len(pins) \in Nat
      BY DEF ActiveRows, Shapes, Tables
    <3>3. LastOf(ActiveRows(pins)) \in ActiveRows(pins)
      BY <3>1, <3>2, GreatestOf
    <3> QED
      BY <3>1, <3>3 DEF ActiveRows
  <2>3. ActiveEmbeddings(embeds[old.embedding].event) \subseteq DOMAIN embeds
    BY DEF ActiveEmbeddings, EmbeddingsOf
  <2>4. DOMAIN embeds \subseteq Nat /\ DOMAIN pins \subseteq Nat
    BY DEF Shapes, Tables
  <2>5. /\ l \in MarkCall /\ l.embedding \in DOMAIN embeds /\ l.pin \in DOMAIN pins
        /\ l.old \subseteq DOMAIN embeds
    BY <2>1, <2>2, <2>3, <2>4 DEF MarkCall, MatchCall
  <2>6. call'[c] = l
    BY <1>0, <1>9 DEF MatchPin, Continue
  <2> HIDE DEF l
  <2> QED
    BY <2>5, <2>6 DEF Placed
<1>10. CASE FirstMark(c) /\ call'[c] = [old EXCEPT !.at = "promote"]
  <2> DEFINE l == [old EXCEPT !.at = "promote"]
  <2>1. /\ old \in MarkCall /\ old.embedding \in DOMAIN embeds
        /\ old.pin \in DOMAIN pins /\ old.old \subseteq DOMAIN embeds
    BY <1>0, <1>10, LocalsHave DEF FirstMark, Resume
  <2>2. /\ l \in MarkCall /\ l.embedding \in DOMAIN embeds /\ l.pin \in DOMAIN pins
        /\ l.old \subseteq DOMAIN embeds
    BY <2>1 DEF MarkCall
  <2>3. call'[c] = l
    BY <1>10
  <2> HIDE DEF l
  <2> QED
    BY <2>2, <2>3 DEF Placed
<1>11. ASSUME NEW a \in DOMAIN arts, NEW to \in ArtifactStatus, NEW by \in DOMAIN arts \cup {None},
              StartMove(c, a, to, by)
       PROVE  Placed(call'[c])
  <2> DEFINE l == [at |-> "move", artifact |-> a, to |-> to, by |-> by]
  <2>1. l \in MoveCall /\ l.artifact \in DOMAIN arts /\ Replaces(l)
    BY <1>11 DEF MoveCall, Shapes, Tables, None, StartMove, Replaces
  <2>2. call'[c] = l
    BY <1>0, <1>11 DEF StartMove, Begin
  <2> HIDE DEF l
  <2> QED
    BY <2>1, <2>2 DEF Placed
<1>12. ASSUME NEW a \in DOMAIN arts, StartSeed(c, a)
       PROVE  Placed(call'[c])
  <2> DEFINE l == [at |-> "seed", artifact |-> a]
  <2>1. l \in SeedCall /\ l.artifact \in DOMAIN arts
    BY DEF SeedCall, Shapes, Tables
  <2>2. call'[c] = l
    BY <1>0, <1>12 DEF StartSeed, Begin
  <2> HIDE DEF l
  <2> QED
    BY <2>1, <2>2 DEF Placed
<1>13. CASE /\ SeedEvent(c) /\ arts[old.artifact].sources # {}
            /\ call'[c] = [at |-> "derive", event |-> Len(memory) + 1,
                           todo |-> arts[old.artifact].sources]
  <2> DEFINE l == [at |-> "derive", event |-> Len(memory) + 1,
                   todo |-> arts[old.artifact].sources]
  <2>1. old.artifact \in DOMAIN arts
    BY <1>0, <1>13, LocalsHave DEF SeedEvent, Resume
  <2>2. /\ arts[old.artifact].sources \subseteq MemoryId /\ MemoryId \subseteq Nat
        /\ Len(memory) \in Nat
    BY <2>1 DEF Shapes, Tables, Rows, MemoryId
  <2>3. Len(memory) + 1 \in MemoryId' /\ MemoryId \subseteq MemoryId'
    <3>1. PICK row : Added(row)
      BY <1>13, EventIsAdded
    <3> QED
      BY <2>2, <3>1 DEF Added, MemoryId, Shapes, Tables
  <2> PICK n, s : n = Len(memory) + 1 /\ s = arts[old.artifact].sources
    OBVIOUS
  <2>4. /\ l \in DeriveCall /\ l.event \in MemoryId' /\ l.todo \subseteq MemoryId'
        /\ l.todo # {}
    <3>0. n \in Nat /\ s \subseteq MemoryId /\ s # {} /\ MemoryId \subseteq Nat
      BY <1>13, <2>2
    <3>1. n \in Nat /\ n \in MemoryId' /\ s \subseteq Nat /\ s \subseteq MemoryId' /\ s # {}
      BY <2>3, <3>0
    <3>2. l = [at |-> "derive", event |-> n, todo |-> s]
      OBVIOUS
    <3>3. l \in DeriveCall /\ l.event = n /\ l.todo = s
      BY <3>1, <3>2 DEF DeriveCall
    <3> HIDE DEF l
    <3> QED
      BY <3>1, <3>3
  <2>5. call'[c] = l
    BY <1>13
  <2> HIDE DEF l
  <2> QED
    BY <2>4, <2>5 DEF PlacedNext
<1>14. CASE /\ SeedLink(c) /\ old.todo # {NextSource(old)}
            /\ call'[c] = [old EXCEPT !.todo = @ \ {NextSource(old)}]
  <2> DEFINE l == [old EXCEPT !.todo = @ \ {NextSource(old)}]
  <2>1. /\ old \in DeriveCall /\ old.event \in MemoryId /\ old.todo \subseteq MemoryId
        /\ old.todo # {} /\ NextSource(old) \in old.todo
    BY <1>0, <1>14, LocalsHave, NextIsLeast DEF SeedLink, Resume
  <2>2. l.event = old.event /\ l.todo = old.todo \ {NextSource(old)} /\ l \in DeriveCall
    BY <2>1 DEF DeriveCall
  <2>3. l.todo # {}
    BY <1>14, <2>1, <2>2
  <2>4. call'[c] = l
    BY <1>14
  <2> HIDE DEF l
  <2> QED
    BY <2>1, <2>2, <2>3, <2>4 DEF Placed
<1> QED
  BY <1>1, <1>2, <1>3, <1>4, <1>5, <1>6, <1>7, <1>8, <1>9, <1>10, <1>11, <1>12, <1>13, <1>14
     DEF Moved

(* Types are kept by every step. *)
LEMMA ShapesStep ==
    ASSUME Shapes, Latest, NEW c \in writers, ArtifactStep(c), UNCHANGED writers
    PROVE  Shapes'
<1>1. Kept /\ Alone(c) /\ Moved(c) /\ Tables' /\ Rows'
  BY KeptStep, Calls, TablesStep, RowsStep
<1>2. PlacedNext(call'[c])
  BY <1>1, StartIsPlaced, StillPlaced
<1>3. \A d \in Callers : d # c => PlacedNext(call'[d])
  BY <1>1, StillPlaced DEF Alone, Shapes
<1>4. \A d \in Callers : PlacedNext(call'[d])
  BY <1>2, <1>3
<1>5. \A d \in Callers : Placed(call[d])'
  BY <1>4 DEF Placed, PlacedNext, Replaces
<1>6. \A d \in Callers : d \notin writers => call'[d] = Idle
  BY <1>1 DEF Alone, Shapes
<1> QED
  BY <1>1, <1>5, <1>6 DEF Alone, Shapes

(* Which step begins, or goes on with, which call. *)
Begun(c) ==
    /\ call'[c].at = "contradict" => \E s, t \in MemoryId : StartContradiction(c, s, t)
    /\ call'[c].at = "approve" => \E r \in DOMAIN confs : StartApprove(c, r)
    /\ call'[c].at = "revise" =>
         \/ ReadEffective(c)
         \/ \E m \in MemoryId, after \in Confidences, type \in {"operator", "candidate"} :
              StartRevise(c, m, after, type)
    /\ call'[c].at = "pin" => \E model \in Models : StartPin(c, model)
    /\ call'[c].at = "match" => \E e \in DOMAIN embeds : StartPromote(c, e)
    /\ call'[c].at = "mark" => MatchPin(c)
    /\ call'[c].at = "promote" =>
         FirstMark(c) /\ call'[c] = [call[c] EXCEPT !.at = "promote"]
    /\ call'[c].at = "move" =>
         \E a \in DOMAIN arts, to \in ArtifactStatus, by \in DOMAIN arts \cup {None} :
           StartMove(c, a, to, by)
    /\ call'[c].at = "seed" => \E a \in DOMAIN arts : StartSeed(c, a)
    /\ call'[c].at = "derive" =>
         \/ /\ SeedEvent(c)
            /\ call'[c] = [at |-> "derive", event |-> Len(memory) + 1,
                           todo |-> arts[call[c].artifact].sources]
         \/ /\ SeedLink(c) /\ call[c].todo # {NextSource(call[c])}
            /\ call'[c] = [call[c] EXCEPT !.todo = @ \ {NextSource(call[c])}]

(* A call is at a position because one of the steps before it took it there. *)
LEMMA Begins ==
    ASSUME Shapes, NEW c \in writers, ArtifactStep(c)
    PROVE  Begun(c)
<1>0. c \in Callers /\ DOMAIN call = Callers
  BY DEF Shapes
<1>1. Moved(c)
  BY Calls
<1>2. ASSUME NEW l, Begin(c, l) \/ Continue(c, l)
      PROVE  call'[c] = l
  BY <1>0, <1>2 DEF Begin, Continue
<1>3. CASE call'[c] = Idle
  BY <1>3 DEF Begun, Idle
<1>4. ASSUME NEW m \in MemoryId, NEW status \in Statuses, StartUpdate(c, m, status)
      PROVE  Begun(c)
  <2>1. PICK l : call'[c] = l /\ l.at = "update"
    BY <1>2, <1>4 DEF StartUpdate
  <2> QED
    BY <2>1 DEF Begun
<1>5. ASSUME NEW s \in MemoryId, NEW t \in MemoryId, StartContradiction(c, s, t)
      PROVE  Begun(c)
  <2>1. PICK l : call'[c] = l /\ l.at = "contradict"
    BY <1>2, <1>5 DEF StartContradiction
  <2> QED
    BY <1>5, <2>1 DEF Begun
<1>6. ASSUME NEW m \in MemoryId, NEW after \in Confidences,
             NEW type \in {"operator", "candidate"}, StartRevise(c, m, after, type)
      PROVE  Begun(c)
  <2>1. PICK l : call'[c] = l /\ l.at = "revise"
    BY <1>2, <1>6 DEF StartRevise
  <2> QED
    BY <1>6, <2>1 DEF Begun
<1>7. ASSUME NEW r \in DOMAIN confs, StartApprove(c, r)
      PROVE  Begun(c)
  <2>1. PICK l : call'[c] = l /\ l.at = "approve"
    BY <1>2, <1>7 DEF StartApprove
  <2> QED
    BY <1>7, <2>1 DEF Begun
<1>8. CASE ReadEffective(c)
  <2>1. PICK l : call'[c] = l /\ l.at = "revise"
    BY <1>2, <1>8 DEF ReadEffective
  <2> QED
    BY <1>8, <2>1 DEF Begun
<1>9. ASSUME NEW model \in Models, StartPin(c, model)
      PROVE  Begun(c)
  <2>1. PICK l : call'[c] = l /\ l.at = "pin"
    BY <1>2, <1>9 DEF StartPin
  <2> QED
    BY <1>9, <2>1 DEF Begun
<1>10. ASSUME NEW e \in DOMAIN embeds, StartPromote(c, e)
       PROVE  Begun(c)
  <2>1. PICK l : call'[c] = l /\ l.at = "match"
    BY <1>2, <1>10 DEF StartPromote
  <2> QED
    BY <1>10, <2>1 DEF Begun
<1>11. CASE MatchPin(c)
  <2>1. PICK l : call'[c] = l /\ l.at = "mark"
    BY <1>2, <1>11 DEF MatchPin
  <2> QED
    BY <1>11, <2>1 DEF Begun
<1>12. CASE FirstMark(c) /\ call'[c] = [call[c] EXCEPT !.at = "promote"]
  <2>1. call'[c].at = "promote"
    BY <1>0, <1>12, LocalsHave DEF FirstMark, Resume, MarkCall
  <2> QED
    BY <1>12, <2>1 DEF Begun
<1>13. ASSUME NEW a \in DOMAIN arts, NEW to \in ArtifactStatus,
              NEW by \in DOMAIN arts \cup {None}, StartMove(c, a, to, by)
       PROVE  Begun(c)
  <2>1. PICK l : call'[c] = l /\ l.at = "move"
    BY <1>2, <1>13 DEF StartMove
  <2> QED
    BY <1>13, <2>1 DEF Begun
<1>14. ASSUME NEW a \in DOMAIN arts, StartSeed(c, a)
       PROVE  Begun(c)
  <2>1. PICK l : call'[c] = l /\ l.at = "seed"
    BY <1>2, <1>14 DEF StartSeed
  <2> QED
    BY <1>14, <2>1 DEF Begun
<1>15. CASE /\ SeedEvent(c)
            /\ call'[c] = [at |-> "derive", event |-> Len(memory) + 1,
                           todo |-> arts[call[c].artifact].sources]
  <2>1. call'[c].at = "derive"
    BY <1>15
  <2> QED
    BY <1>15, <2>1 DEF Begun
<1>16. CASE /\ SeedLink(c) /\ call[c].todo # {NextSource(call[c])}
            /\ call'[c] = [call[c] EXCEPT !.todo = @ \ {NextSource(call[c])}]
  <2>1. call'[c].at = "derive"
    BY <1>0, <1>16, LocalsHave DEF SeedLink, Resume, DeriveCall
  <2> QED
    BY <1>16, <2>1 DEF Begun
<1> QED
  BY <1>1, <1>3, <1>4, <1>5, <1>6, <1>7, <1>8, <1>9, <1>10, <1>11, <1>12, <1>13, <1>14, <1>15,
     <1>16 DEF Moved

(* Another call stays where it is. *)
LEMMA OthersStay ==
    ASSUME Shapes, NEW c \in writers, ArtifactStep(c), NEW d \in Callers, d # c
    PROVE  call'[d] = call[d]
BY Calls DEF Alone

(* A revision keeps everything but its status; a new one is the last and comes *)
(* from the call.                                                              *)
SameRevision(i) ==
    /\ confs'[i].memory = confs[i].memory /\ confs'[i].type = confs[i].type
    /\ confs'[i].before = confs[i].before /\ confs'[i].after = confs[i].after
    /\ confs'[i].from = confs[i].from

(* Revisions are never changed but in status, and new ones come from the   *)
(* calls that write them.                                                  *)
LEMMA RevisionsStay ==
    ASSUME Shapes, NEW c \in writers, ArtifactStep(c)
    PROVE  /\ \A i \in DOMAIN confs : i \in DOMAIN confs' /\ SameRevision(i)
           /\ \A i \in DOMAIN confs' \ DOMAIN confs :
                /\ WriteRevision(c) /\ call[c] \in ReviseCall
                /\ i = Len(confs) + 1
                /\ confs'[i].memory = call[c].memory /\ confs'[i].type = call[c].type
                /\ confs'[i].before = call[c].before /\ confs'[i].after = call[c].after
                /\ confs'[i].from = call[c].from
<1>0. c \in Callers
  BY DEF Shapes, Tables
<1>1. CASE UNCHANGED confs
  BY <1>1 DEF SameRevision
<1>2. ASSUME NEW r \in DOMAIN confs, RejectCandidate(c, r)
      PROVE  DOMAIN confs' = DOMAIN confs /\ \A i \in DOMAIN confs : SameRevision(i)
  <2>1. \A i \in DOMAIN confs : confs[i] \in ConfidenceRow
    BY DEF Shapes, Tables
  <2> QED
    BY <1>2, <2>1 DEF RejectCandidate, SameRevision, ConfidenceRow
<1>3. CASE WriteRevision(c)
  <2> DEFINE k == call[c]
             row(s) == [memory |-> k.memory, before |-> k.before, after |-> k.after,
                        type |-> k.type, status |-> s, from |-> k.from]
             old == IF k.type = "operator" THEN SupersedeRevisions(k.memory) ELSE confs
             new == IF k.type = "operator" THEN row("active") ELSE row("proposed")
  <2>1. k \in ReviseCall
    BY <1>0, <1>3, LocalsHave DEF WriteRevision, Resume
  <2>2. confs' = Append(old, new)
    BY <1>3 DEF WriteRevision
  <2>3. /\ DOMAIN old = 1..Len(confs) /\ Len(confs) \in Nat /\ DOMAIN confs = 1..Len(confs)
        /\ \A i \in DOMAIN confs :
             /\ old[i].memory = confs[i].memory /\ old[i].type = confs[i].type
             /\ old[i].before = confs[i].before /\ old[i].after = confs[i].after
             /\ old[i].from = confs[i].from
    <3>1. \A i \in DOMAIN confs : confs[i] \in ConfidenceRow
      BY DEF Shapes, Tables
    <3> QED
      BY <3>1 DEF SupersedeRevisions, ConfidenceRow, Shapes, Tables
  <2>4. Len(old) = Len(confs)
    BY <2>3
  <2>5. /\ new.memory = k.memory /\ new.type = k.type /\ new.before = k.before
        /\ new.after = k.after /\ new.from = k.from
    OBVIOUS
  <2> HIDE DEF old, new
  <2>6. /\ DOMAIN confs' = 1..Len(confs) + 1
        /\ \A i \in 1..Len(confs) : confs'[i] = old[i]
        /\ confs'[Len(confs) + 1] = new
    BY <2>2, <2>3, <2>4
  <2> QED
    BY <1>3, <2>1, <2>3, <2>5, <2>6 DEF SameRevision
<1> QED
  BY <1>1, <1>2, <1>3, Writers

-----------------------------------------------------------------------------
(* A revision by the operator replaces the one that was active. *)
LEMMA LatestStep ==
    ASSUME Shapes, Latest, Shapes', NEW c \in writers, ArtifactStep(c)
    PROVE  Latest'
<1> SUFFICES ASSUME NEW m \in Nat, OperatorRevisions(m)' # {}
             PROVE  \E i \in DOMAIN confs' : LatestIs(m, i)'
  BY DEF Latest
<1>0. c \in Callers /\ Len(confs) \in Nat /\ DOMAIN confs = 1..Len(confs)
  BY DEF Shapes, Tables
<1>1. ASSUME DOMAIN confs \subseteq DOMAIN confs',
             OperatorRevisions(m)' = OperatorRevisions(m),
             ActiveRevisions(m)' = ActiveRevisions(m)
      PROVE  \E i \in DOMAIN confs' : LatestIs(m, i)'
  BY <1>1 DEF Latest, LatestIs
<1>2. CASE UNCHANGED confs
  BY <1>1, <1>2 DEF OperatorRevisions, ActiveRevisions
<1>3. ASSUME NEW r \in DOMAIN confs, RejectCandidate(c, r)
      PROVE  \E i \in DOMAIN confs' : LatestIs(m, i)'
  <2>1. /\ DOMAIN confs' = DOMAIN confs /\ confs[r].type = "candidate"
        /\ \A i \in DOMAIN confs : /\ confs'[i].memory = confs[i].memory
                                   /\ confs'[i].type = confs[i].type
                                   /\ i # r => confs'[i].status = confs[i].status
    <3>1. \A i \in DOMAIN confs : confs[i] \in ConfidenceRow
      BY DEF Shapes, Tables
    <3> QED
      BY <1>3, <3>1 DEF RejectCandidate, ConfidenceRow
  <2>2. OperatorRevisions(m)' = OperatorRevisions(m)
    BY <2>1 DEF OperatorRevisions
  <2>3. ActiveRevisions(m)' = ActiveRevisions(m)
    BY <2>1, <2>2 DEF ActiveRevisions, OperatorRevisions
  <2> QED
    BY <1>1, <2>1, <2>2, <2>3
<1>4. CASE WriteRevision(c)
  <2> DEFINE k == call[c]
             n == Len(confs) + 1
             row(s) == [memory |-> k.memory, before |-> k.before, after |-> k.after,
                        type |-> k.type, status |-> s, from |-> k.from]
             t == SupersedeRevisions(k.memory)
  <2>1. k \in ReviseCall
    BY <1>0, <1>4, LocalsHave DEF WriteRevision, Resume
  <2>2. CASE k.type # "operator"
    <3>1. /\ DOMAIN confs' = 1..n /\ confs'[n].type # "operator"
          /\ \A i \in DOMAIN confs : confs'[i] = confs[i]
      BY <1>0, <1>4, <2>2 DEF WriteRevision, Shapes, Tables
    <3>2. OperatorRevisions(m)' = OperatorRevisions(m)
      BY <1>0, <3>1 DEF OperatorRevisions
    <3>3. ActiveRevisions(m)' = ActiveRevisions(m)
      BY <1>0, <3>1, <3>2 DEF ActiveRevisions, OperatorRevisions
    <3> QED
      BY <1>0, <1>1, <3>1, <3>2, <3>3
  <2>3. CASE k.type = "operator"
    <3>1. /\ DOMAIN t = 1..Len(confs)
          /\ \A i \in DOMAIN confs :
               /\ t[i].memory = confs[i].memory /\ t[i].type = confs[i].type
               /\ i \notin ActiveRevisions(k.memory) => t[i] = confs[i]
               /\ i \in ActiveRevisions(k.memory) => t[i].status = "superseded"
      <4>1. \A i \in DOMAIN confs : confs[i] \in ConfidenceRow
        BY DEF Shapes, Tables
      <4> QED
        BY <1>0, <4>1 DEF SupersedeRevisions, ConfidenceRow
    <3>2. confs' = Append(t, row("active"))
      BY <1>4, <2>3 DEF WriteRevision
    <3>3. Len(t) = Len(confs)
      BY <1>0, <3>1
    <3>4. /\ DOMAIN confs' = 1..n /\ confs'[n] = row("active")
          /\ \A i \in DOMAIN confs : confs'[i] = t[i]
      <4> HIDE DEF t
      <4> QED
        BY <1>0, <3>1, <3>2, <3>3
    <3> HIDE DEF t
    <3>5. OperatorRevisions(m)' =
            OperatorRevisions(m) \cup (IF m = k.memory THEN {n} ELSE {})
      BY <1>0, <2>3, <3>1, <3>4 DEF OperatorRevisions
    <3>6. CASE m = k.memory
      <4>1. n \in OperatorRevisions(m)' /\ \A j \in OperatorRevisions(m)' : j <= n
        BY <1>0, <3>5, <3>6 DEF OperatorRevisions
      <4>2. \A i \in DOMAIN confs : i \notin ActiveRevisions(m)'
        BY <1>0, <3>1, <3>4, <3>6 DEF ActiveRevisions, OperatorRevisions
      <4>3. ActiveRevisions(m)' = {n}
        BY <1>0, <3>4, <4>1, <4>2 DEF ActiveRevisions, OperatorRevisions
      <4> QED
        BY <1>0, <3>4, <4>1, <4>3 DEF LatestIs
    <3>7. CASE m # k.memory
      <4>1. OperatorRevisions(m)' = OperatorRevisions(m)
        BY <3>5, <3>7
      <4>2. ASSUME NEW i \in OperatorRevisions(m) PROVE confs'[i] = confs[i]
        BY <1>0, <3>1, <3>4, <3>7, <4>2 DEF OperatorRevisions, ActiveRevisions
      <4>3. ActiveRevisions(m)' = ActiveRevisions(m)
        BY <4>1, <4>2 DEF ActiveRevisions
      <4> QED
        BY <1>0, <1>1, <3>4, <4>1, <4>3
    <3> QED
      BY <3>6, <3>7
  <2> QED
    BY <2>2, <2>3
<1> QED
  BY <1>2, <1>3, <1>4, Writers

(* What was approved stays what it was, and a call carries it unchanged. *)
LEMMA ApprovedStep ==
    ASSUME Shapes, Approved, NEW c \in writers, ArtifactStep(c)
    PROVE  Approved'
<1> DEFINE Now(r, m, a) == /\ r \in DOMAIN confs' /\ confs'[r].type = "candidate"
                           /\ confs'[r].memory = m /\ confs'[r].after = a
<1>0. c \in Callers
  BY DEF Shapes, Tables
<1>1. ASSUME NEW r, NEW k, From(r, k) PROVE Now(r, k.memory, k.after)
  BY <1>1, RevisionsStay DEF From, SameRevision
<1>2. ASSUME NEW i \in DOMAIN confs', confs'[i].from # NoRevision
      PROVE  confs'[i].from < i /\ Now(confs'[i].from, confs'[i].memory, confs'[i].after)
  <2>1. CASE i \in DOMAIN confs
    <3>1. SameRevision(i)
      BY <2>1, RevisionsStay
    <3>2. confs[i].from < i /\ From(confs[i].from, confs[i])
      BY <1>2, <2>1, <3>1 DEF Approved, SameRevision
    <3>3. Now(confs[i].from, confs[i].memory, confs[i].after)
      BY <1>1, <3>2
    <3> QED
      BY <3>1, <3>2, <3>3 DEF SameRevision
  <2>2. CASE i \notin DOMAIN confs
    <3>1. /\ i = Len(confs) + 1 /\ WriteRevision(c)
          /\ confs'[i].memory = call[c].memory /\ confs'[i].after = call[c].after
          /\ confs'[i].from = call[c].from
      BY <1>2, <2>2, RevisionsStay
    <3>2. call[c].at = "revise" /\ call[c].from # NoRevision
      BY <1>2, <3>1 DEF WriteRevision, Resume
    <3>3. From(call[c].from, call[c])
      BY <1>0, <3>2 DEF Approved
    <3>4. call[c].from < i
      BY <3>1, <3>3 DEF From, Shapes, Tables
    <3>5. Now(call[c].from, call[c].memory, call[c].after)
      BY <1>1, <3>3
    <3> QED
      BY <3>1, <3>4, <3>5
  <2> QED
    BY <2>1, <2>2
<1>3. ASSUME NEW d \in Callers,
             \/ call'[d].at = "approve"
             \/ call'[d].at = "revise" /\ call'[d].from # NoRevision
      PROVE  Now(call'[d].from, call'[d].memory, call'[d].after)
  <2>1. CASE d # c
    <3>1. call'[d] = call[d]
      BY <2>1, OthersStay
    <3>2. From(call[d].from, call[d])
      BY <1>3, <3>1 DEF Approved
    <3> QED
      BY <1>1, <3>1, <3>2
  <2>2. ASSUME NEW r \in DOMAIN confs, StartApprove(c, r)
        PROVE  Now(call'[c].from, call'[c].memory, call'[c].after)
    BY <1>0, <2>2 DEF StartApprove, Begin, Shapes, Tables, governanceVars
  <2>3. ASSUME ReadEffective(c)
        PROVE  Now(call'[c].from, call'[c].memory, call'[c].after)
    <3>1. From(call[c].from, call[c])
      BY <1>0, <2>3 DEF Approved, ReadEffective, Resume
    <3>2. /\ call'[c].from = call[c].from /\ call'[c].memory = call[c].memory
          /\ call'[c].after = call[c].after
      BY <1>0, <2>3 DEF ReadEffective, Continue, Shapes, Tables
    <3>3. Now(call[c].from, call[c].memory, call[c].after)
      BY <1>1, <3>1
    <3> HIDE DEF Now
    <3> QED
      BY <3>2, <3>3
  <2>4. ASSUME NEW m \in MemoryId, NEW after \in Confidences,
               NEW type \in {"operator", "candidate"}, StartRevise(c, m, after, type)
        PROVE  call'[c].from = NoRevision /\ call'[c].at = "revise"
    BY <1>0, <2>4 DEF StartRevise, Begin, Shapes, Tables
  <2> HIDE DEF Now
  <2>5. CASE d = c
    <3>1. CASE call'[c].at = "approve"
      BY <2>2, <2>5, <3>1, Begins DEF Begun
    <3>2. CASE call'[c].at = "revise" /\ call'[c].from # NoRevision
      <4>0. \/ ReadEffective(c)
            \/ \E m \in MemoryId, after \in Confidences, type \in {"operator", "candidate"} :
                 StartRevise(c, m, after, type)
        BY <3>2, Begins DEF Begun
      <4>1. CASE ReadEffective(c)
        BY <2>3, <2>5, <4>1
      <4>2. ASSUME NEW m \in MemoryId, NEW after \in Confidences,
                   NEW type \in {"operator", "candidate"}, StartRevise(c, m, after, type)
            PROVE  FALSE
        BY <2>4, <3>2, <4>2
      <4> QED
        BY <4>0, <4>1, <4>2
    <3> QED
      BY <1>3, <2>5, <3>1, <3>2
  <2> QED
    BY <2>1, <2>5
<1> QED
  BY <1>2, <1>3 DEF Approved, From

(* Only a rejection changes a candidate. *)
LEMMA ProposedStep ==
    ASSUME Shapes, Proposed, NEW c \in writers, ArtifactStep(c)
    PROVE  Proposed'
<1>0. c \in Callers /\ Len(confs) \in Nat /\ DOMAIN confs = 1..Len(confs)
  BY DEF Shapes, Tables
<1>1. CASE UNCHANGED confs
  BY <1>1 DEF Proposed
<1>2. ASSUME NEW r \in DOMAIN confs, RejectCandidate(c, r)
      PROVE  Proposed'
  <2>1. \A i \in DOMAIN confs : confs[i] \in ConfidenceRow
    BY DEF Shapes, Tables
  <2> QED
    BY <1>2, <2>1 DEF RejectCandidate, Proposed, ConfidenceRow
<1>3. CASE WriteRevision(c)
  <2> DEFINE k == call[c]
             t == SupersedeRevisions(k.memory)
  <2>1. CASE k.type # "operator"
    BY <1>0, <1>3, <2>1 DEF WriteRevision, Proposed, Shapes, Tables
  <2>2. CASE k.type = "operator"
    <3>1. /\ DOMAIN t = 1..Len(confs)
          /\ \A i \in DOMAIN confs : confs[i].type = "candidate" => t[i] = confs[i]
          /\ \A i \in DOMAIN confs : t[i].type = confs[i].type
      <4>1. \A i \in DOMAIN confs : confs[i] \in ConfidenceRow
        BY DEF Shapes, Tables
      <4> QED
        BY <1>0, <4>1 DEF SupersedeRevisions, ActiveRevisions, OperatorRevisions, ConfidenceRow
    <3>2. Len(t) = Len(confs)
      BY <1>0, <3>1
    <3>3. confs' = Append(t, [memory |-> k.memory, before |-> k.before, after |-> k.after,
                              type |-> k.type, status |-> "active", from |-> k.from])
      BY <1>3, <2>2 DEF WriteRevision
    <3> HIDE DEF t
    <3>4. /\ DOMAIN confs' = 1..Len(confs) + 1 /\ confs'[Len(confs) + 1].type = "operator"
          /\ \A i \in DOMAIN confs : confs'[i] = t[i]
      BY <1>0, <2>2, <3>1, <3>2, <3>3
    <3> QED
      BY <1>0, <3>1, <3>4 DEF Proposed
  <2> QED
    BY <2>1, <2>2
<1> QED
  BY <1>1, <1>2, <1>3, Writers

(* With a single caller nothing is written between its reading and its writing. *)
LEMMA ChainedStep ==
    ASSUME Shapes, Latest, Chained, NEW c \in writers, ArtifactStep(c), UNCHANGED writers
    PROVE  Chained'
<1> SUFFICES ASSUME SingleWriter
             PROVE  /\ \A i \in DOMAIN confs' : StartsFrom(i)'
                    /\ \A d \in writers : call'[d].at = "revise" =>
                         call'[d].before = EffectiveConfidence(call[d].memory)'
  BY DEF Chained, SingleWriter
<1>0. c \in Callers /\ Len(confs) \in Nat /\ DOMAIN confs = 1..Len(confs)
  BY DEF Shapes, Tables, Rows
<1>1. ASSUME NEW i \in DOMAIN confs
      PROVE  StartsFrom(i)'
  <2>1. /\ SameRevision(i) /\ confs[i].memory \in MemoryId
        /\ \A j \in DOMAIN confs : j \in DOMAIN confs' /\ SameRevision(j)
        /\ \A j \in DOMAIN confs' : j < i => j \in DOMAIN confs
    BY <1>0, RevisionsStay DEF Shapes, Tables, Rows
  <2>2. Earlier(i)' = Earlier(i)
    BY <2>1 DEF Earlier, OperatorRevisions, SameRevision
  <2>3. memory'[confs'[i].memory].origin = memory[confs[i].memory].origin
    BY <2>1, KeptStep DEF SameRevision, Kept
  <2>4. StartsFrom(i)
    BY DEF Chained
  <2>5. \A j \in Earlier(i) : confs'[j].after = confs[j].after
    BY <2>1 DEF Earlier, OperatorRevisions, SameRevision
  <2> QED
    BY <2>1, <2>2, <2>3, <2>4, <2>5 DEF StartsFrom, SameRevision
<1>2. ASSUME NEW i \in DOMAIN confs' \ DOMAIN confs
      PROVE  StartsFrom(i)'
  <2> DEFINE m == call[c].memory
  <2>1. /\ WriteRevision(c) /\ call[c] \in ReviseCall /\ i = Len(confs) + 1
        /\ confs'[i].memory = m /\ confs'[i].before = call[c].before
    BY RevisionsStay
  <2>2. /\ m \in MemoryId /\ m \in Nat /\ memory' = memory
        /\ call[c].before = EffectiveConfidence(m)
    <3>1. call[c].at = "revise" /\ memory' = memory
      BY <2>1 DEF WriteRevision, Resume
    <3>2. m \in MemoryId
      BY <1>0, <3>1, LocalsHave
    <3>3. m \in Nat
      BY <3>2 DEF Shapes, Tables, MemoryId
    <3>4. call[c].before = EffectiveConfidence(m)
      BY <3>1 DEF Chained
    <3> QED
      BY <3>1, <3>2, <3>3, <3>4
  <2>3. Earlier(i)' = OperatorRevisions(m)
    <3>1. \A j \in DOMAIN confs : j \in DOMAIN confs' /\ SameRevision(j)
      BY RevisionsStay
    <3>2. \A j \in DOMAIN confs' : j \in DOMAIN confs \/ j = i
      BY <2>1, RevisionsStay
    <3> QED
      BY <1>0, <2>1, <3>1, <3>2 DEF Earlier, OperatorRevisions, SameRevision
  <2>4. CASE OperatorRevisions(m) = {}
    BY <2>1, <2>2, <2>3, <2>4, StoredIsEffective DEF StartsFrom
  <2>5. CASE OperatorRevisions(m) # {}
    <3>1. PICK j \in DOMAIN confs : LatestIs(m, j)
      BY <2>2, <2>5 DEF Latest
    <3>2. EffectiveConfidence(m) = confs[j].after
      BY <3>1, LatestIsEffective
    <3>3. confs'[j].after = confs[j].after
      BY RevisionsStay DEF SameRevision
    <3>4. j \in OperatorRevisions(m) /\ \A k \in OperatorRevisions(m) : k <= j
      BY <3>1 DEF LatestIs
    <3> QED
      BY <2>1, <2>2, <2>3, <3>2, <3>3, <3>4 DEF StartsFrom
  <2> QED
    BY <2>4, <2>5
<1>3. ASSUME NEW d \in writers, call'[d].at = "revise"
      PROVE  call'[d].before = EffectiveConfidence(call[d].memory)'
  <2>1. d = c
    BY DEF SingleWriter
  <2>2. ASSUME UNCHANGED governanceVars, NEW m
        PROVE  EffectiveConfidence(m)' = EffectiveConfidence(m)
    BY <2>2 DEF governanceVars, EffectiveConfidence, ActiveRevisions, OperatorRevisions
  <2>3. /\ UNCHANGED governanceVars
        /\ call'[c].before = EffectiveConfidence(call'[c].memory)
    <3>1. CASE ReadEffective(c)
      BY <1>0, <3>1 DEF ReadEffective, Continue, Shapes, Tables, Rows
    <3>2. ASSUME NEW m \in MemoryId, NEW after \in Confidences,
                 NEW type \in {"operator", "candidate"}, StartRevise(c, m, after, type)
          PROVE  /\ UNCHANGED governanceVars
                 /\ call'[c].before = EffectiveConfidence(call'[c].memory)
      BY <1>0, <3>2 DEF StartRevise, Begin, Shapes, Tables, Rows
    <3> QED
      <4>1. \/ ReadEffective(c)
            \/ \E m \in MemoryId, after \in Confidences, type \in {"operator", "candidate"} :
                 StartRevise(c, m, after, type)
        BY <1>3, <2>1, Begins DEF Begun
      <4> QED
        BY <3>1, <3>2, <4>1
  <2> QED
    BY <2>1, <2>3 DEF governanceVars, EffectiveConfidence, ActiveRevisions,
                      OperatorRevisions
<1> QED
  BY <1>1, <1>2, <1>3

(* The UNIQUE constraint keeps pairs apart. *)
LEMMA PairsStep ==
    ASSUME Shapes, Pairs, NEW c \in writers, ArtifactStep(c)
    PROVE  Pairs'
<1>0. Len(links) \in Nat /\ DOMAIN links = 1..Len(links)
  BY DEF Shapes, Tables
<1>1. CASE UNCHANGED links
  BY <1>1 DEF Pairs
<1>2. CASE Retracted
  BY <1>2 DEF Retracted, Pairs
<1>3. ASSUME NEW row, LinkAdded(row), ~LinkExists(row.source, row.target, row.relation)
      PROVE  Pairs'
  BY <1>0, <1>3 DEF LinkAdded, Pairs, LinkExists
<1>4. /\ ContradictionRow(call[c]).relation = "contradicts"
      /\ SourceRow(call[c]).relation = "derived_from"
  BY DEF LinkRow, ContradictionRow, SourceRow
<1> QED
  BY <1>1, <1>2, <1>3, <1>4, LinksChange

(* An event leaves the live statuses with a revision of its own. *)
LEMMA ExplainedStep ==
    ASSUME Shapes, NEW c \in writers, ArtifactStep(c), NEW m \in MemoryId, NEW n \in Nat,
           Explained(m, n)
    PROVE  ExplainedNext(m, n)
<1>0. Len(revisions) \in Nat /\ DOMAIN revisions = 1..Len(revisions)
  BY DEF Shapes, Tables
<1>1. CASE UNCHANGED <<memory, revisions>>
  BY <1>1 DEF Explained, ExplainedNext
<1>2. ASSUME NEW row, Added(row)
      PROVE  ExplainedNext(m, n)
  BY <1>2 DEF Added, Explained, ExplainedNext
<1>3. CASE Revised(call[c].memory, call[c].new)
  <2> PICK k, new : k = call[c].memory /\ new = call[c].new
    OBVIOUS
  <2>1. /\ Len(revisions') = Len(revisions) + 1
        /\ revisions'[Len(revisions')].memory = k /\ revisions'[Len(revisions')].new = new
        /\ \A i \in DOMAIN revisions : revisions'[i] = revisions[i]
        /\ memory'[m].status = IF m = k THEN new ELSE memory[m].status
    BY <1>3 DEF Revised
  <2> QED
    BY <1>0, <2>1 DEF Explained, ExplainedNext
<1> QED
  BY <1>1, <1>2, <1>3, EventsChange

(* A contradiction is written with the position at which its ends were checked. *)
LEMMA WatchedStep ==
    ASSUME Shapes, Watched, NEW c \in writers, ArtifactStep(c)
    PROVE  Watched'
<1>0. c \in Callers /\ Len(links) \in Nat /\ DOMAIN links = 1..Len(links)
  BY DEF Shapes, Tables
<1> DEFINE Both(s, t, n) == ExplainedNext(s, n) /\ ExplainedNext(t, n)
<1>1. ASSUME NEW l \in DOMAIN links, links[l].relation = "contradicts"
      PROVE  Both(links[l].source, links[l].target, links[l].seen)
  <2>1. links[l] \in LinkRows /\ links[l].source \in MemoryId /\ links[l].target \in MemoryId
    BY DEF Shapes, Tables, Rows
  <2>2. Explained(links[l].source, links[l].seen) /\ Explained(links[l].target, links[l].seen)
    BY <1>1 DEF Watched
  <2> QED
    BY <2>1, <2>2, ExplainedStep DEF LinkRows
<1>2. ASSUME NEW d \in Callers, call[d].at = "contradict"
      PROVE  Both(call[d].source, call[d].target, call[d].seen)
  <2>1. call[d] \in ContradictCall /\ call[d].source \in MemoryId /\ call[d].target \in MemoryId
    BY <1>2, LocalsHave
  <2>2. Explained(call[d].source, call[d].seen) /\ Explained(call[d].target, call[d].seen)
    BY <1>2 DEF Watched
  <2> QED
    BY <2>1, <2>2, ExplainedStep DEF ContradictCall
<1>3. ASSUME NEW l \in DOMAIN links', links'[l].relation = "contradicts"
      PROVE  Both(links'[l].source, links'[l].target, links'[l].seen)
  <2>1. CASE UNCHANGED links
    BY <1>1, <1>3, <2>1
  <2>2. CASE Retracted
    <3>1. /\ l \in DOMAIN links
          /\ links'[l].source = links[l].source /\ links'[l].target = links[l].target
          /\ links'[l].seen = links[l].seen /\ links'[l].relation = links[l].relation
      BY <1>3, <2>2 DEF Retracted
    <3> QED
      BY <1>1, <1>3, <3>1
  <2>3. ASSUME NEW row, LinkAdded(row)
        PROVE  (l \in DOMAIN links /\ links'[l] = links[l]) \/ links'[l] = row
    BY <1>0, <1>3, <2>3 DEF LinkAdded
  <2>4. ASSUME NEW row, LinkAdded(row), row.relation # "contradicts"
        PROVE  Both(links'[l].source, links'[l].target, links'[l].seen)
    BY <1>1, <1>3, <2>3, <2>4
  <2>5. ASSUME NEW row, LinkAdded(row), Contradict(c), row = ContradictionRow(call[c])
        PROVE  Both(links'[l].source, links'[l].target, links'[l].seen)
    <3>1. row.source = call[c].source /\ row.target = call[c].target /\ row.seen = call[c].seen
      BY <2>5 DEF LinkRow, ContradictionRow
    <3>2. Both(call[c].source, call[c].target, call[c].seen)
      BY <1>0, <1>2, <2>5 DEF Contradict, Resume
    <3> HIDE DEF Both
    <3> QED
      BY <1>1, <1>3, <2>3, <2>5, <3>1, <3>2
  <2>6. SourceRow(call[c]).relation = "derived_from"
    BY DEF LinkRow, SourceRow
  <2> HIDE DEF Both
  <2> QED
    BY <2>1, <2>2, <2>4, <2>5, <2>6, LinksChange
<1>4. ASSUME NEW d \in Callers, call'[d].at = "contradict"
      PROVE  Both(call'[d].source, call'[d].target, call'[d].seen)
  <2>1. CASE d # c
    BY <1>2, <1>4, <2>1, OthersStay
  <2>2. ASSUME NEW s \in MemoryId, NEW t \in MemoryId, StartContradiction(c, s, t)
        PROVE  Both(call'[c].source, call'[c].target, call'[c].seen)
    BY <1>0, <2>2 DEF StartContradiction, Begin, Shapes, Tables, governanceVars, ExplainedNext
  <2> HIDE DEF Both
  <2> QED
    BY <1>4, <2>1, <2>2, Begins DEF Begun
<1> QED
  BY <1>3, <1>4 DEF Watched, Explained, ExplainedNext

-----------------------------------------------------------------------------
(* The active pin is one of the pins. *)
LEMMA ActivePinIsThere ==
    ASSUME Shapes, ActivePin # None
    PROVE  ActivePin \in ActiveRows(pins)
<1>1. Len(pins) \in Nat /\ ActiveRows(pins) \in SUBSET (1..Len(pins))
  BY DEF ActiveRows, Shapes, Tables
<1> QED
  BY <1>1, GreatestOf DEF ActivePin

(* An embedding that is not a candidate never is again. *)
LEMMA PromotedStays ==
    ASSUME Shapes, NEW c \in writers, ArtifactStep(c), NEW e \in DOMAIN embeds,
           embeds[e].status # "candidate"
    PROVE  embeds'[e].status # "candidate"
<1>1. CASE UNCHANGED embeds
  BY <1>1
<1>2. CASE Promoted(call[c])
  <2>1. CASE e = call[c].embedding
    BY <1>2, <2>1 DEF Promoted
  <2>2. CASE e # call[c].embedding
    BY <1>2, <2>2 DEF Promoted
  <2> QED
    BY <2>1, <2>2
<1>3. ASSUME NEW m \in MemoryId, NEW model \in Models, Embedded(m, model)
      PROVE  embeds'[e].status # "candidate"
  BY <1>3 DEF Embedded
<1> QED
  BY <1>1, <1>2, <1>3, EmbeddingsChange

\* ByPin in the next state, of ids of this one
ByPinNext(p, e) == p \in DOMAIN pins' /\ pins'[p].model = embeds'[e].model

(* A promotion names the pin it was matched with. *)
LEMMA PinnedStep ==
    ASSUME Shapes, Pinned, NEW c \in writers, ArtifactStep(c)
    PROVE  Pinned'
<1>0. c \in Callers
  BY DEF Shapes
<1>1. ASSUME NEW p, NEW e \in DOMAIN embeds, ByPin(p, e)
      PROVE  ByPinNext(p, e)
  BY <1>1, KeptStep DEF ByPin, ByPinNext, Kept
<1>2. ASSUME NEW e \in DOMAIN embeds'
      PROVE  IF embeds'[e].status = "candidate" THEN embeds'[e].pin = None
             ELSE ByPinNext(embeds'[e].pin, e)
  <2>1. ASSUME e \in DOMAIN embeds, embeds'[e].pin = embeds[e].pin,
               (embeds'[e].status = "candidate") <=> (embeds[e].status = "candidate")
        PROVE  IF embeds'[e].status = "candidate" THEN embeds'[e].pin = None
               ELSE ByPinNext(embeds'[e].pin, e)
    <3>1. CASE embeds[e].status = "candidate"
      BY <2>1, <3>1 DEF Pinned
    <3>2. CASE embeds[e].status # "candidate"
      <4>1. ByPinNext(embeds[e].pin, e)
        <5>1. PICK p : p = embeds[e].pin
          OBVIOUS
        <5>2. ByPinNext(p, e)
          BY <1>1, <2>1, <3>2, <5>1 DEF Pinned
        <5> QED
          BY <2>1, <5>1, <5>2
      <4> QED
        BY <2>1, <3>2, <4>1
    <3> QED
      BY <3>1, <3>2
  <2>2. CASE UNCHANGED embeds
    BY <2>1, <2>2
  <2>3. CASE Promote(c) /\ Promoted(call[c])
    <3>1. PICK k : k = call[c]
      OBVIOUS
    <3>2. /\ k.embedding \in DOMAIN embeds /\ ByPin(k.pin, k.embedding)
          /\ \A f \in k.old : embeds[f].status # "candidate"
      BY <1>0, <2>3, <3>1, LocalsHave DEF Promote, Resume, Pinned
    <3>3. e \in DOMAIN embeds
      BY <2>3 DEF Promoted
    <3>4. CASE e = k.embedding
      BY <1>1, <2>3, <3>1, <3>2, <3>4 DEF Promoted, ByPinNext
    <3>5. CASE e # k.embedding
      <4>1. /\ embeds'[e].pin = embeds[e].pin
            /\ embeds'[e].status = IF e \in k.old THEN "superseded" ELSE embeds[e].status
        BY <2>3, <3>1, <3>3, <3>5 DEF Promoted
      <4> QED
        BY <2>1, <3>2, <3>3, <4>1
    <3> QED
      BY <3>4, <3>5
  <2>4. ASSUME NEW m \in MemoryId, NEW model \in Models, Embedded(m, model)
        PROVE  IF embeds'[e].status = "candidate" THEN embeds'[e].pin = None
               ELSE ByPinNext(embeds'[e].pin, e)
    <3>1. CASE e \in DOMAIN embeds
      BY <2>1, <2>4, <3>1 DEF Embedded
    <3>2. CASE e \notin DOMAIN embeds
      BY <2>4, <3>2 DEF Embedded, Shapes, Tables
    <3> QED
      BY <3>1, <3>2
  <2> QED
    BY <2>2, <2>3, <2>4, EmbeddingsChange
<1>3. ASSUME NEW d \in Callers, call'[d].at \in {"mark", "promote"}
      PROVE  /\ ByPinNext(call'[d].pin, call'[d].embedding)
             /\ \A e \in call'[d].old : embeds'[e].status # "candidate"
  <2>1. ASSUME NEW p, NEW f \in DOMAIN embeds, ByPin(p, f), NEW old \in SUBSET DOMAIN embeds,
               \A e \in old : embeds[e].status # "candidate",
               call'[d].pin = p, call'[d].embedding = f, call'[d].old = old
        PROVE  /\ ByPinNext(call'[d].pin, call'[d].embedding)
               /\ \A e \in call'[d].old : embeds'[e].status # "candidate"
    <3>1. ByPinNext(p, f)
      BY <1>1, <2>1
    <3>2. \A e \in old : embeds'[e].status # "candidate"
      BY <2>1, PromotedStays
    <3> QED
      BY <2>1, <3>1, <3>2
  <2>2. ASSUME call[d].at \in {"mark", "promote"}, call'[d].pin = call[d].pin,
               call'[d].embedding = call[d].embedding, call'[d].old = call[d].old
        PROVE  /\ ByPinNext(call'[d].pin, call'[d].embedding)
               /\ \A e \in call'[d].old : embeds'[e].status # "candidate"
    <3>1. PICK k : k = call[d]
      OBVIOUS
    <3>2. /\ k.embedding \in DOMAIN embeds /\ ByPin(k.pin, k.embedding)
          /\ k.old \in SUBSET DOMAIN embeds
          /\ \A e \in k.old : embeds[e].status # "candidate"
      BY <2>2, <3>1, LocalsHave DEF Pinned
    <3> QED
      BY <2>1, <2>2, <3>1, <3>2
  <2>3. CASE d # c
    BY <1>3, <2>2, <2>3, OthersStay
  <2>4. CASE d = c /\ call'[c].at = "mark"
    <3>1. MatchPin(c)
      BY <2>4, Begins DEF Begun
    <3>2. call[c].embedding \in DOMAIN embeds
      BY <1>0, <3>1, LocalsHave DEF MatchPin, Resume
    <3>3. PICK p, f, old : /\ p = ActivePin /\ f = call[c].embedding
                           /\ old = ActiveEmbeddings(embeds[call[c].embedding].event)
      OBVIOUS
    <3>4. call'[c].pin = p /\ call'[c].embedding = f /\ call'[c].old = old
      BY <1>0, <3>1, <3>3 DEF MatchPin, Continue, Shapes
    <3>5. ByPin(p, f)
      BY <3>1, <3>3, ActivePinIsThere DEF MatchPin, ByPin, ActiveRows
    <3>6. old \in SUBSET DOMAIN embeds /\ \A e \in old : embeds[e].status # "candidate"
      BY <3>3 DEF ActiveEmbeddings, EmbeddingsOf, ActiveRows
    <3> QED
      BY <2>1, <2>4, <3>2, <3>3, <3>4, <3>5, <3>6
  <2>5. CASE d = c /\ call'[c].at = "promote"
    <3>1. FirstMark(c) /\ call'[c] = [call[c] EXCEPT !.at = "promote"]
      BY <2>5, Begins DEF Begun
    <3>2. call[c].at = "mark" /\ call[c] \in MarkCall
      BY <1>0, <3>1, LocalsHave DEF FirstMark, Resume
    <3>3. /\ call'[c].pin = call[c].pin /\ call'[c].embedding = call[c].embedding
          /\ call'[c].old = call[c].old
      BY <3>1, <3>2 DEF MarkCall
    <3> QED
      BY <2>2, <2>5, <3>2, <3>3
  <2> QED
    BY <1>3, <2>3, <2>4, <2>5
<1> QED
  BY <1>2, <1>3 DEF Pinned, ByPin, ByPinNext

-----------------------------------------------------------------------------
(* Only a seeding adds a seed, with its artifact as the source. *)
LEMMA SeedsChange ==
    ASSUME Shapes, NEW c \in writers, ArtifactStep(c)
    PROVE  /\ \A m \in Seeds : m \in Seeds' /\ Sources(m)' = Sources(m)
           /\ \A m \in Seeds' \ Seeds :
                /\ SeedEvent(c) /\ m = Len(memory) + 1 /\ m \notin MemoryId
                /\ memory'[m].status = "proposed" /\ revisions' = revisions
                /\ memory'[m].origin.source = call[c].artifact
<1>1. ASSUME NEW m \in Seeds
      PROVE  m \in Seeds' /\ Sources(m)' = Sources(m)
  <2>1. /\ m \in MemoryId /\ memory[m].origin.source # NoArtifact
        /\ memory[m].origin.source \in DOMAIN arts
    BY DEF Seeds, Shapes, Rows
  <2> QED
    BY <2>1, KeptStep DEF Kept, Seeds, Sources
<1>2. ASSUME NEW m \in MemoryId, m \in Seeds'
      PROVE  m \in Seeds
  BY <1>2, KeptStep DEF Kept, Seeds
<1>3. ASSUME NEW m \in Seeds', m \notin MemoryId
      PROVE  /\ SeedEvent(c) /\ m = Len(memory) + 1
             /\ memory'[m].status = "proposed" /\ revisions' = revisions
             /\ memory'[m].origin.source = call[c].artifact
  <2>0. m \in MemoryId' /\ memory'[m].origin.source # NoArtifact
    BY DEF Seeds
  <2>1. CASE UNCHANGED <<memory, revisions>>
    BY <1>3, <2>0, <2>1 DEF MemoryId
  <2>2. CASE Revised(call[c].memory, call[c].new)
    BY <1>3, <2>0, <2>2 DEF Revised, MemoryId, Shapes, Tables
  <2>3. ASSUME NEW row, Added(row)
        PROVE  m = Len(memory) + 1 /\ memory'[m] = row /\ revisions' = revisions
    BY <1>3, <2>0, <2>3 DEF Added, MemoryId, Shapes, Tables
  <2> QED
    BY <2>0, <2>1, <2>2, <2>3, EventsChange
<1> QED
  BY <1>1, <1>2, <1>3

(* The links stay, and only a seeding adds one of its own, to the next source. *)
LEMMA LinkedChange ==
    ASSUME Shapes, NEW c \in writers, ArtifactStep(c), NEW m
    PROVE  /\ Linked(m) \subseteq Linked(m)'
           /\ ~ (SeedLink(c) /\ m = call[c].event) => Own(m)' = Own(m)
           /\ SeedLink(c) /\ m = call[c].event =>
                /\ Own(m)' \subseteq Own(m) \cup {NextSource(call[c])}
                /\ NextSource(call[c]) \in Linked(m)'
<1>0. Len(links) \in Nat /\ DOMAIN links = 1..Len(links)
  BY DEF Shapes, Tables
<1>1. CASE UNCHANGED links
  <2>1. Linked(m)' = Linked(m) /\ Own(m)' = Own(m)
    BY <1>1 DEF Linked, Own, Derived
  <2>2. LinkExists(m, NextSource(call[c]), "derived_from") => NextSource(call[c]) \in Linked(m)
    BY DEF LinkExists, Linked, Derived
  <2>3. ASSUME NEW row, LinkAdded(row)
        PROVE  FALSE
    BY <1>0, <1>1, <2>3 DEF LinkAdded
  <2> QED
    BY <1>1, <2>1, <2>2, <2>3, LinksChange
<1>2. CASE Retracted /\ ~SeedLink(c)
  BY <1>2 DEF Linked, Own, Derived, Retracted
<1>3. ASSUME NEW row, LinkAdded(row)
      PROVE  /\ Linked(m)' = Linked(m) \cup
                  IF row.source = m /\ row.relation = "derived_from" THEN {row.target} ELSE {}
             /\ Own(m)' = Own(m) \cup
                  IF row.source = m /\ row.relation = "derived_from" /\ row.attributed
                  THEN {row.target} ELSE {}
  BY <1>0, <1>3 DEF Linked, Own, Derived, LinkAdded
<1>4. ASSUME NEW row, LinkAdded(row), ~row.attributed \/ row.relation = "contradicts"
      PROVE  Linked(m) \subseteq Linked(m)' /\ Own(m)' = Own(m)
  BY <1>3, <1>4
<1>5. Contradict(c) => ~SeedLink(c)
  BY DEF Contradict, SeedLink, Resume
<1>6. ContradictionRow(call[c]).relation = "contradicts"
  BY DEF LinkRow, ContradictionRow
<1>7. ASSUME NEW row, LinkAdded(row), row = SourceRow(call[c])
      PROVE  /\ Linked(m) \subseteq Linked(m)'
             /\ m # call[c].event => Own(m)' = Own(m)
             /\ m = call[c].event => /\ Own(m)' \subseteq Own(m) \cup {NextSource(call[c])}
                                     /\ NextSource(call[c]) \in Linked(m)'
  <2>1. /\ row.source = call[c].event /\ row.target = NextSource(call[c])
        /\ row.relation = "derived_from"
    BY <1>7 DEF LinkRow, SourceRow
  <2> QED
    BY <1>3, <1>7, <2>1
<1> QED
  BY <1>1, <1>2, <1>4, <1>5, <1>6, <1>7, LinksChange

(* A seeding that still owes links makes the next one or dies. *)
LEMMA DeriveGoesOn ==
    ASSUME NEW c \in writers, ArtifactStep(c), call[c].at = "derive"
    PROVE  SeedLink(c) \/ ArtifactDeath(c)
<1>1. call[c] # Idle /\ \A l : ~Begin(c, l)
  BY DEF Idle, Begin
<1>2. \A at : Resume(c, at) => at = "derive"
  BY DEF Resume
<1>3. ASSUME GovernanceCall(c)
      PROVE  FALSE
  <2>1. ~ (Update(c) \/ Contradict(c) \/ ReadEffective(c) \/ WriteRevision(c))
    BY <1>2 DEF Update, Contradict, ReadEffective, WriteRevision
  <2>2. ~ \E m \in MemoryId, status \in Statuses : StartUpdate(c, m, status)
    BY <1>1 DEF StartUpdate
  <2>3. ~ \E s, t \in MemoryId : \/ \E rel \in Relations : LinkEvents(c, s, t, rel)
                                \/ StartContradiction(c, s, t)
    BY <1>1 DEF LinkEvents, StartContradiction
  <2>4. ~ \E m \in MemoryId, after \in Confidences, type \in {"operator", "candidate"} :
            StartRevise(c, m, after, type)
    BY <1>1 DEF StartRevise
  <2>5. ~ \E r \in DOMAIN confs : StartApprove(c, r) \/ RejectCandidate(c, r)
    BY <1>1 DEF StartApprove, RejectCandidate
  <2>6. ~ \E l \in DOMAIN links : RetractContradiction(c, l)
    BY <1>1 DEF RetractContradiction
  <2>7. ~ \E confidence \in Confidences, status \in Statuses : AddEvent(c, confidence, status)
    BY <1>1 DEF AddEvent
  <2> QED
    BY <1>3, <2>1, <2>2, <2>3, <2>4, <2>5, <2>6, <2>7 DEF GovernanceCall, ReviewCall
<1>4. ASSUME EmbeddingStep(c)
      PROVE  FALSE
  <2>1. ~ (WritePin(c) \/ MatchPin(c) \/ PinMismatch(c) \/ FirstMark(c) \/ Promote(c))
    BY <1>2 DEF WritePin, MatchPin, PinMismatch, FirstMark, Promote
  <2>2. /\ ~ \E model \in Models : StartPin(c, model)
        /\ ~ \E p \in DOMAIN pins : SupersedePin(c, p)
        /\ ~ \E m \in MemoryId, model \in Models : EmbedEvent(c, m, model)
        /\ ~ \E e \in DOMAIN embeds : StartPromote(c, e)
    BY <1>1 DEF StartPin, SupersedePin, EmbedEvent, StartPromote
  <2> QED
    BY <1>4, <2>1, <2>2 DEF EmbeddingStep
<1>5. ASSUME CompressionStep(c)
      PROVE  FALSE
  BY <1>1, <1>2, <1>5 DEF CompressionStep, CreateArtifact, StartMove, MoveArtifact
<1>6. ~SeedEvent(c) /\ \A a : ~StartSeed(c, a)
  BY <1>1, <1>2 DEF SeedEvent, StartSeed
<1> QED
  BY <1>3, <1>4, <1>5, <1>6 DEF ArtifactStep, SeedingStep

(* What a death leaves, and that nothing else touches the ghost. *)
LEMMA CutGrows ==
    ASSUME NEW c \in writers, ArtifactStep(c)
    PROVE  /\ cut \subseteq cut'
           /\ ArtifactDeath(c) /\ call[c].at = "derive" => call[c].event \in cut'
BY Writers DEF ArtifactDeath

(* A seeding begins with an event that has no link yet, and owes all of them. *)
LEMMA SeedBegins ==
    ASSUME Shapes, NEW c \in writers, ArtifactStep(c), NEW m \in Seeds' \ Seeds
    PROVE  /\ Own(m)' = {}
           /\ Sources(m)' = {} \/ /\ call'[c].at = "derive" /\ call'[c].event = m
                                  /\ call'[c].todo = Sources(m)'
<1>0. c \in Callers /\ DOMAIN call = Callers
  BY DEF Shapes
<1>1. /\ SeedEvent(c) /\ m = Len(memory) + 1 /\ m \notin MemoryId
      /\ memory'[m].origin.source = call[c].artifact
  BY SeedsChange
<1>2. call[c].artifact \in DOMAIN arts /\ UNCHANGED <<links, arts>>
  BY <1>0, <1>1, LocalsHave DEF SeedEvent, Resume, artifactVars
<1>3. Own(m)' = {}
  BY <1>1, <1>2 DEF Own, Derived, Shapes, Rows
<1>4. Sources(m)' = arts[call[c].artifact].sources
  BY <1>1, <1>2 DEF Sources
<1> DEFINE s == arts[call[c].artifact].sources
           l == [at |-> "derive", event |-> Len(memory) + 1, todo |-> s]
<1>5. IF s = {} THEN Return(c) ELSE Continue(c, l)
  BY <1>1, Zenon DEF SeedEvent
<1>6. CASE s = {}
  BY <1>3, <1>4, <1>6
<1>7. CASE s # {}
  <2>1. Continue(c, l)
    BY <1>5, <1>7 DEF Return, Continue
  <2>2. call'[c] = l
    BY <1>0, <2>1 DEF Continue
  <2> QED
    BY <1>1, <1>3, <1>4, <2>2
<1> QED
  BY <1>6, <1>7

(* A seeding links the lowest source that is left and ends with the last. *)
LEMMA SeedLinks ==
    ASSUME Shapes, Traced, NEW c \in writers, ArtifactStep(c), SeedLink(c)
    PROVE  LET m == call[c].event s == NextSource(call[c]) IN
           /\ m \in Seeds /\ s \in Sources(m)
           /\ \A t \in Sources(m) : t < s => t \in Linked(m)
           /\ \/ Sources(m) \subseteq Linked(m) \cup {s}
              \/ /\ call'[c].at = "derive" /\ call'[c].event = m
                 /\ call'[c].todo = call[c].todo \ {s}
<1>0. c \in Callers /\ DOMAIN call = Callers
  BY DEF Shapes
<1>1. call[c].at = "derive" /\ call[c] \in DeriveCall /\ call[c].todo \subseteq MemoryId
  BY <1>0, LocalsHave DEF SeedLink, Resume
<1> DEFINE m == call[c].event
           s == NextSource(call[c])
           l == [call[c] EXCEPT !.todo = @ \ {s}]
<1>2. /\ m \in Seeds /\ call[c].todo \subseteq Sources(m)
      /\ Sources(m) \ call[c].todo \subseteq Linked(m)
  BY <1>0, <1>1 DEF Traced
<1>3. s \in call[c].todo /\ \A t \in call[c].todo : s <= t
  BY <1>0, <1>1, NextIsLeast
<1>4. ASSUME NEW t \in Sources(m), t < s
      PROVE  t \in Linked(m)
  <2>1. call[c].todo \subseteq Nat
    BY <1>1 DEF MemoryId, Shapes, Tables
  <2>2. t \notin call[c].todo
    BY <1>3, <1>4, <2>1
  <2> QED
    BY <1>2, <2>2
<1>5. IF call[c].todo = {s} THEN Return(c) ELSE Continue(c, l)
  BY Zenon DEF SeedLink, NextSource
<1>6. CASE call[c].todo = {s}
  <2>1. Sources(m) \subseteq Linked(m) \cup {s}
    BY <1>2, <1>6
  <2> QED
    BY <1>2, <1>3, <1>4, <2>1
<1>7. CASE call[c].todo # {s}
  <2>1. Continue(c, l)
    BY <1>5, <1>7 DEF Return, Continue
  <2>2. call'[c] = l
    BY <1>0, <2>1 DEF Continue
  <2>3. l.at = "derive" /\ l.event = m /\ l.todo = call[c].todo \ {s}
    BY <1>1 DEF DeriveCall
  <2> HIDE DEF l, m, s
  <2>4. call'[c].at = "derive" /\ call'[c].event = m /\ call'[c].todo = call[c].todo \ {s}
    BY <2>2, <2>3
  <2> QED
    BY <1>2, <1>3, <1>4, <2>4 DEF m, s
<1> QED
  BY <1>6, <1>7

(* The links of seedings are to sources, those below them linked, and a running *)
(* call has the rest.                                                           *)
LEMMA TracedStep ==
    ASSUME Shapes, Traced, NEW c \in writers, ArtifactStep(c)
    PROVE  Traced'
<1>0. c \in Callers /\ arts \in Seq(ArtifactRow)
  BY DEF Shapes, Tables
<1> DEFINE Good(m) ==
             /\ Own(m)' \subseteq Sources(m)'
             /\ \A x \in Own(m)', t \in Sources(m)' : t < x => t \in Linked(m)'
             /\ \/ Sources(m)' \subseteq Linked(m)' \/ m \in cut'
                \/ \E d \in Callers : call'[d].at = "derive" /\ call'[d].event = m
           Owes(d, m) ==
             /\ call'[d].event = m /\ m \in Seeds'
             /\ call'[d].todo \subseteq Sources(m)'
             /\ Sources(m)' \ call'[d].todo \subseteq Linked(m)'
<1>1. ASSUME NEW m \in Seeds' \ Seeds
      PROVE  Good(m)
  BY <1>0, SeedBegins
<1>2. ASSUME NEW m \in Seeds
      PROVE  Good(m)
  <2>1. Sources(m)' = Sources(m)
    BY SeedsChange
  <2>2. /\ Own(m) \subseteq Sources(m)
        /\ \A x \in Own(m), t \in Sources(m) : t < x => t \in Linked(m)
    BY DEF Traced
  <2>3. Linked(m) \subseteq Linked(m)'
    BY LinkedChange
  <2>4. CASE SeedLink(c) /\ m = call[c].event
    <3>1. PICK s : s = NextSource(call[c])
      OBVIOUS
    <3>2. Own(m)' \subseteq Own(m) \cup {s} /\ s \in Linked(m)'
      BY <2>4, <3>1, LinkedChange
    <3>3. /\ s \in Sources(m) /\ \A t \in Sources(m) : t < s => t \in Linked(m)
          /\ \/ Sources(m) \subseteq Linked(m) \cup {s}
             \/ call'[c].at = "derive" /\ call'[c].event = m
      BY <2>4, <3>1, SeedLinks
    <3>4. ASSUME NEW x \in Own(m)', NEW t \in Sources(m), t < x
          PROVE  t \in Linked(m)'
      BY <2>2, <2>3, <3>2, <3>3, <3>4
    <3> QED
      BY <1>0, <2>1, <2>2, <2>3, <3>2, <3>3, <3>4
  <2>5. CASE ~ (SeedLink(c) /\ m = call[c].event)
    <3>1. Own(m)' = Own(m)
      BY <2>5, LinkedChange
    <3>2. \/ Sources(m) \subseteq Linked(m) \/ m \in cut'
          \/ \E d \in Callers : call'[d].at = "derive" /\ call'[d].event = m
      <4>1. CASE Sources(m) \subseteq Linked(m) \/ m \in cut
        BY <4>1, CutGrows
      <4>2. ASSUME NEW d \in Callers, call[d].at = "derive", call[d].event = m
            PROVE  \/ m \in cut'
                   \/ call'[d].at = "derive" /\ call'[d].event = m
        <5>1. CASE d # c
          BY <4>2, <5>1, OthersStay
        <5>2. CASE d = c
          BY <2>5, <4>2, <5>2, DeriveGoesOn, CutGrows
        <5> QED
          BY <5>1, <5>2
      <4> QED
        BY <4>1, <4>2 DEF Traced
    <3> QED
      BY <2>1, <2>2, <2>3, <3>1, <3>2
  <2> QED
    BY <2>4, <2>5
<1> HIDE DEF Good, Owes
<1>3. ASSUME NEW d \in Callers, d # c, call'[d].at = "derive"
      PROVE  \E m : Owes(d, m)
  <2>1. PICK m : m = call[d].event
    OBVIOUS
  <2>2. call'[d] = call[d]
    BY <1>3, OthersStay
  <2>3. m \in Seeds /\ call[d].todo \subseteq Sources(m) /\ Sources(m) \ call[d].todo \subseteq Linked(m)
    BY <1>3, <2>1, <2>2 DEF Traced
  <2>4. m \in Seeds' /\ Sources(m)' = Sources(m) /\ Linked(m) \subseteq Linked(m)'
    BY <2>3, SeedsChange, LinkedChange
  <2>5. Owes(d, m)
    BY <2>1, <2>2, <2>3, <2>4 DEF Owes
  <2> QED
    BY <2>5
<1>4. ASSUME call'[c].at = "derive"
      PROVE  \E m : Owes(c, m)
  <2>1. CASE SeedEvent(c) /\ call'[c] = [at |-> "derive", event |-> Len(memory) + 1,
                                         todo |-> arts[call[c].artifact].sources]
    <3>1. PICK m : m = Len(memory) + 1
      OBVIOUS
    <3>2. call'[c].event = m
      BY <2>1, <3>1
    <3>3. m \in Seeds' \ Seeds
      <4>1. call[c].artifact \in DOMAIN arts /\ call[c].artifact # NoArtifact
        BY <1>0, <2>1, LocalsHave DEF SeedEvent, Resume, NoArtifact
      <4>2. PICK row : Added(row) /\ row.origin.source = call[c].artifact
        BY <2>1, EventIsAdded
      <4> QED
        BY <3>1, <4>1, <4>2 DEF Added, Seeds, MemoryId, Shapes, Tables
    <3>4. Sources(m)' = call'[c].todo
      <4>1. UNCHANGED arts /\ memory'[m].origin.source = call[c].artifact
        BY <2>1, <3>3, SeedsChange DEF SeedEvent, artifactVars
      <4> QED
        BY <2>1, <4>1 DEF Sources
    <3>5. Owes(c, m)
      BY <3>2, <3>3, <3>4 DEF Owes
    <3> QED
      BY <3>5
  <2>2. CASE /\ SeedLink(c) /\ call[c].todo # {NextSource(call[c])}
             /\ call'[c] = [call[c] EXCEPT !.todo = @ \ {NextSource(call[c])}]
    <3>1. PICK m, s : m = call[c].event /\ s = NextSource(call[c])
      OBVIOUS
    <3>2. call[c].at = "derive" /\ call[c] \in DeriveCall
      BY <1>0, <2>2, LocalsHave DEF SeedLink, Resume
    <3>3. /\ m \in Seeds /\ m \in Seeds' /\ Sources(m)' = Sources(m)
          /\ call[c].todo \subseteq Sources(m) /\ Sources(m) \ call[c].todo \subseteq Linked(m)
      BY <1>0, <3>1, <3>2, SeedsChange DEF Traced
    <3>4. Linked(m) \cup {s} \subseteq Linked(m)'
      BY <2>2, <3>1, LinkedChange
    <3>5. call'[c].event = m /\ call'[c].todo = call[c].todo \ {s}
      BY <2>2, <3>1, <3>2 DEF DeriveCall
    <3>6. Owes(c, m)
      BY <3>3, <3>4, <3>5 DEF Owes
    <3> QED
      BY <3>6
  <2> QED
    BY <1>4, <2>1, <2>2, Begins DEF Begun
<1>5. ASSUME NEW d \in Callers, call'[d].at = "derive"
      PROVE  \E m : Owes(d, m)
  BY <1>3, <1>4, <1>5
<1>6. ASSUME NEW d \in Callers, call'[d].at = "derive"
      PROVE  (/\ call[d].event \in Seeds
              /\ call[d].todo \subseteq Sources(call[d].event)
              /\ Sources(call[d].event) \ call[d].todo \subseteq Linked(call[d].event))'
  <2>1. PICK m : Owes(d, m)
    BY <1>5, <1>6
  <2> QED
    BY <2>1 DEF Owes, Sources, Linked, Derived
<1>7. \A m \in Seeds' : Good(m)
  BY <1>1, <1>2
<1> QED
  BY <1>6, <1>7 DEF Traced, Good

-----------------------------------------------------------------------------
(* A status changes with a revision that is the last of its event. *)
LEMMA ReviewedStep ==
    ASSUME Shapes, Reviewed, NEW c \in writers, ArtifactStep(c)
    PROVE  Reviewed'
<1>0. Len(revisions) \in Nat /\ DOMAIN revisions = 1..Len(revisions)
  BY DEF Shapes, Tables
<1> DEFINE Good(m) ==
             \/ RevisionsOf(m)' = {} /\ memory'[m].status = "proposed"
             \/ \E i \in DOMAIN revisions' :
                  /\ i \in RevisionsOf(m)' /\ \A j \in RevisionsOf(m)' : j <= i
                  /\ memory'[m].status = revisions'[i].new
<1>1. ASSUME NEW m \in Seeds' \ Seeds
      PROVE  Good(m)
  <2>1. m \notin MemoryId /\ memory'[m].status = "proposed" /\ revisions' = revisions
    BY SeedsChange
  <2>2. RevisionsOf(m)' = {}
    BY <2>1 DEF RevisionsOf, Shapes, Rows
  <2> QED
    BY <2>1, <2>2
<1>2. ASSUME NEW m \in Seeds
      PROVE  Good(m)
  <2>0. m \in MemoryId
    BY DEF Seeds
  <2>1. ASSUME memory'[m].status = memory[m].status, RevisionsOf(m)' = RevisionsOf(m),
               \A i \in RevisionsOf(m) : i \in DOMAIN revisions' /\ revisions'[i] = revisions[i]
        PROVE  Good(m)
    BY <2>1 DEF Reviewed, LastRevision
  <2>2. CASE UNCHANGED <<memory, revisions>>
    BY <2>1, <2>2 DEF RevisionsOf
  <2>3. ASSUME NEW row, Added(row)
        PROVE  Good(m)
    BY <2>0, <2>1, <2>3 DEF Added, RevisionsOf
  <2>4. CASE Revised(call[c].memory, call[c].new)
    <3>1. PICK k, new : k = call[c].memory /\ new = call[c].new
      OBVIOUS
    <3>2. /\ memory'[m].status = IF m = k THEN new ELSE memory[m].status
          /\ DOMAIN revisions' = 1..Len(revisions) + 1
          /\ revisions'[Len(revisions) + 1].memory = k
          /\ revisions'[Len(revisions) + 1].new = new
          /\ \A i \in DOMAIN revisions : revisions'[i] = revisions[i]
      BY <1>0, <2>0, <2>4, <3>1 DEF Revised
    <3>3. RevisionsOf(m)' = RevisionsOf(m) \cup
                              IF m = k THEN {Len(revisions) + 1} ELSE {}
      BY <1>0, <3>2 DEF RevisionsOf
    <3>4. CASE m = k
      <4>1. Len(revisions) + 1 \in RevisionsOf(m)'
        BY <3>3, <3>4
      <4>2. \A j \in RevisionsOf(m)' : j <= Len(revisions) + 1
        BY <1>0, <3>3, <3>4 DEF RevisionsOf
      <4> QED
        BY <1>0, <3>2, <3>4, <4>1, <4>2
    <3>5. CASE m # k
      BY <1>0, <2>1, <3>2, <3>3, <3>5 DEF RevisionsOf
    <3> QED
      BY <3>4, <3>5
  <2> HIDE DEF Good
  <2> QED
    BY <2>2, <2>3, <2>4, EventsChange
<1>3. \A m \in Seeds' : Good(m)
  BY <1>1, <1>2
<1> QED
  BY <1>3 DEF Reviewed, LastRevision

(* With one writer the pin that is written last is the only active one. *)
LEMMA PinsRankedStep ==
    ASSUME Shapes, Ranked, NEW c \in writers, ArtifactStep(c), ReadStill(call[c])
    PROVE  \A p \in ActiveRows(pins)' : p = Len(pins')
<1>0. Len(pins) \in Nat /\ DOMAIN pins = 1..Len(pins) /\ \A p \in ActiveRows(pins) : p = Len(pins)
  BY DEF Shapes, Tables, Ranked
<1>1. /\ pins' \in Seq(PinRow)
      /\ \A p \in DOMAIN pins : pins'[p].status = "active" => p \in ActiveRows(pins)
  BY PinsChange DEF ActiveRows
<1>2. CASE Len(pins') = Len(pins)
  BY <1>0, <1>1, <1>2 DEF ActiveRows
<1>3. CASE /\ WritePin(c) /\ Len(pins') = Len(pins) + 1
           /\ \A p \in DOMAIN pins : p \in call[c].old => pins'[p].status = "superseded"
  <2>1. call[c].old = ActiveRows(pins)
    BY <1>3 DEF WritePin, Resume, ReadStill
  <2>2. \A p \in DOMAIN pins : pins'[p].status # "active"
    BY <1>1, <1>3, <2>1
  <2> QED
    BY <1>0, <1>1, <1>3, <2>2 DEF ActiveRows
<1> QED
  BY <1>2, <1>3, PinsChange

(* With one writer a promotion replaces what is active and comes after it. *)
LEMMA EmbeddingsRankedStep ==
    ASSUME Shapes, Pinned, Ranked, NEW c \in writers, ArtifactStep(c), ReadStill(call[c])
    PROVE  /\ \A e \in ActiveRows(embeds)', f \in DOMAIN embeds' :
                embeds'[f].event = embeds'[e].event =>
                  /\ embeds'[f].status = "active" => f = e
                  /\ embeds'[f].pin <= embeds'[e].pin
           /\ \A f \in DOMAIN embeds' : embeds'[f].status = "superseded" =>
                \E e \in ActiveRows(embeds)' : embeds'[e].event = embeds'[f].event
<1>0. /\ c \in Callers /\ Len(embeds) \in Nat /\ DOMAIN embeds = 1..Len(embeds)
      /\ \A e \in DOMAIN embeds : embeds[e].pin \in Nat
  <2>1. \A e \in DOMAIN embeds : embeds[e] \in EmbeddingRow
    BY DEF Shapes, Tables
  <2> QED
    BY <2>1 DEF Shapes, Tables, EmbeddingRow
<1>1. CASE UNCHANGED embeds
  BY <1>1 DEF Ranked, ActiveRows
<1>2. ASSUME NEW m \in MemoryId, NEW model \in Models, Embedded(m, model)
      PROVE  /\ \A e \in ActiveRows(embeds)', f \in DOMAIN embeds' :
                  embeds'[f].event = embeds'[e].event =>
                    /\ embeds'[f].status = "active" => f = e
                    /\ embeds'[f].pin <= embeds'[e].pin
             /\ \A f \in DOMAIN embeds' : embeds'[f].status = "superseded" =>
                  \E e \in ActiveRows(embeds)' : embeds'[e].event = embeds'[f].event
  <2>1. /\ DOMAIN embeds' = 1..Len(embeds) + 1
        /\ embeds'[Len(embeds) + 1].status = "candidate" /\ embeds'[Len(embeds) + 1].pin = 0
        /\ \A e \in DOMAIN embeds : embeds'[e] = embeds[e]
    BY <1>2 DEF Embedded, None
  <2>2. ActiveRows(embeds)' = ActiveRows(embeds)
    BY <1>0, <2>1 DEF ActiveRows
  <2>3. \A e \in ActiveRows(embeds) : e \in DOMAIN embeds /\ embeds'[e] = embeds[e]
    BY <2>1 DEF ActiveRows
  <2>4. \A f \in DOMAIN embeds' : f \in DOMAIN embeds \/ f = Len(embeds) + 1
    BY <1>0, <2>1
  <2>5. ASSUME NEW e \in ActiveRows(embeds)', NEW f \in DOMAIN embeds',
               embeds'[f].event = embeds'[e].event
        PROVE  /\ embeds'[f].status = "active" => f = e
               /\ embeds'[f].pin <= embeds'[e].pin
    <3>1. e \in ActiveRows(embeds) /\ e \in DOMAIN embeds /\ embeds'[e] = embeds[e]
      BY <2>2, <2>3
    <3>2. CASE f \in DOMAIN embeds
      BY <2>1, <2>5, <3>1, <3>2 DEF Ranked
    <3>3. CASE f = Len(embeds) + 1
      BY <1>0, <2>1, <3>1, <3>3
    <3> QED
      BY <2>4, <3>2, <3>3
  <2>6. ASSUME NEW f \in DOMAIN embeds', embeds'[f].status = "superseded"
        PROVE  \E e \in ActiveRows(embeds)' : embeds'[e].event = embeds'[f].event
    <3>1. f \in DOMAIN embeds /\ embeds'[f] = embeds[f]
      BY <2>1, <2>4, <2>6
    <3>2. PICK e \in ActiveRows(embeds) : embeds[e].event = embeds[f].event
      BY <2>6, <3>1 DEF Ranked
    <3> QED
      BY <2>2, <2>3, <3>1, <3>2
  <2> QED
    BY <2>5, <2>6
<1>3. CASE Promote(c) /\ Promoted(call[c])
  <2>1. PICK k, m : k = call[c] /\ m = embeds[k.embedding].event
    OBVIOUS
  <2>2. /\ k.embedding \in DOMAIN embeds /\ k.pin = Len(pins) /\ k.old = ActiveEmbeddings(m)
        /\ embeds[k.embedding].status = "candidate" /\ Len(pins) \in Nat
    <3>1. k.at = "promote"
      BY <1>3, <2>1 DEF Promote, Resume
    <3> QED
      BY <1>0, <2>1, <3>1, LocalsHave DEF ReadStill, Shapes, Tables
  <2>3. /\ DOMAIN embeds' = DOMAIN embeds
        /\ embeds'[k.embedding].status = "active" /\ embeds'[k.embedding].pin = Len(pins)
        /\ \A e \in DOMAIN embeds :
             /\ embeds'[e].event = embeds[e].event
             /\ e # k.embedding =>
                  /\ embeds'[e].pin = embeds[e].pin
                  /\ embeds'[e].status = IF e \in ActiveEmbeddings(m) THEN "superseded"
                                         ELSE embeds[e].status
    BY <1>3, <2>1, <2>2 DEF Promoted
  <2>4. ASSUME NEW e \in DOMAIN embeds, embeds[e].event = m, e # k.embedding
        PROVE  embeds'[e].status # "active"
    BY <2>3, <2>4 DEF ActiveEmbeddings, EmbeddingsOf, ActiveRows
  <2>5. ASSUME NEW e \in DOMAIN embeds, embeds[e].event # m
        PROVE  embeds'[e].status = embeds[e].status /\ embeds'[e].pin = embeds[e].pin
    BY <2>1, <2>3, <2>5 DEF ActiveEmbeddings, EmbeddingsOf
  <2>6. \A e \in DOMAIN embeds : embeds[e].pin <= Len(pins)
    <3>1. \A e \in DOMAIN embeds : embeds[e].pin = 0 \/ embeds[e].pin \in DOMAIN pins
      BY DEF Pinned, ByPin, None
    <3>2. \A p \in DOMAIN pins : p <= Len(pins)
      BY <2>2 DEF Shapes, Tables
    <3> QED
      BY <2>2, <3>1, <3>2
  <2>7. ASSUME NEW e \in ActiveRows(embeds)', NEW f \in DOMAIN embeds',
               embeds'[f].event = embeds'[e].event
        PROVE  /\ embeds'[f].status = "active" => f = e
               /\ embeds'[f].pin <= embeds'[e].pin
    <3>1. e \in DOMAIN embeds /\ embeds'[e].status = "active" /\ f \in DOMAIN embeds
      BY <2>3 DEF ActiveRows
    <3>2. embeds[f].event = embeds[e].event
      BY <2>3, <2>7, <3>1
    <3>3. CASE embeds[e].event = m
      BY <2>2, <2>3, <2>4, <2>6, <3>1, <3>2, <3>3
    <3>4. CASE embeds[e].event # m
      <4>1. e \in ActiveRows(embeds)
        BY <2>5, <3>1, <3>4 DEF ActiveRows
      <4> QED
        BY <2>5, <3>1, <3>2, <3>4, <4>1 DEF Ranked
    <3> QED
      BY <3>3, <3>4
  <2>8. ASSUME NEW f \in DOMAIN embeds', embeds'[f].status = "superseded"
        PROVE  \E e \in ActiveRows(embeds)' : embeds'[e].event = embeds'[f].event
    <3>1. CASE embeds[f].event = m
      <4>1. k.embedding \in ActiveRows(embeds)'
        BY <2>2, <2>3 DEF ActiveRows
      <4> QED
        BY <2>1, <2>2, <2>3, <3>1, <4>1
    <3>2. CASE embeds[f].event # m
      <4>1. PICK e \in ActiveRows(embeds) : embeds[e].event = embeds[f].event
        BY <2>3, <2>5, <2>8, <3>2 DEF Ranked
      <4>2. e \in ActiveRows(embeds)'
        BY <2>3, <2>5, <3>2, <4>1 DEF ActiveRows
      <4> QED
        BY <2>3, <4>1, <4>2 DEF ActiveRows
    <3> QED
      BY <3>1, <3>2
  <2> QED
    BY <2>7, <2>8
<1> QED
  BY <1>1, <1>2, <1>3, EmbeddingsChange

(* With one writer what a call has read still holds at its next step. *)
LEMMA ReadStillStep ==
    ASSUME Shapes, Ranked, NEW c \in writers, ArtifactStep(c), ReadStill(call[c])
    PROVE  ReadStill(call[c])'
<1>0. c \in Callers /\ DOMAIN call = Callers
  BY DEF Shapes
<1>1. CASE call'[c].at = "pin"
  <2>1. PICK model \in Models : StartPin(c, model)
    BY <1>1, Begins DEF Begun
  <2>2. call'[c].old = ActiveRows(pins) /\ UNCHANGED pins
    BY <1>0, <2>1 DEF StartPin, Begin, artifactVars
  <2> QED
    BY <1>1, <2>2 DEF ReadStill, ActiveRows
<1>2. CASE call'[c].at = "match"
  <2>1. PICK e \in DOMAIN embeds : StartPromote(c, e)
    BY <1>2, Begins DEF Begun
  <2>2. call'[c].embedding = e /\ embeds[e].status = "candidate" /\ UNCHANGED embeds
    BY <1>0, <2>1 DEF StartPromote, Begin, artifactVars
  <2> QED
    BY <1>2, <2>2 DEF ReadStill
<1>3. CASE call'[c].at = "mark"
  <2>1. MatchPin(c)
    BY <1>3, Begins DEF Begun
  <2>2. PICK f, old : f = call[c].embedding /\ old = ActiveEmbeddings(embeds[f].event)
    OBVIOUS
  <2>3. /\ call'[c].embedding = f /\ call'[c].old = old /\ call'[c].pin = ActivePin
        /\ UNCHANGED <<pins, embeds>>
    BY <1>0, <2>1, <2>2 DEF MatchPin, Continue, artifactVars
  <2>4. embeds[f].status = "candidate"
    BY <2>1, <2>2 DEF MatchPin, Resume, ReadStill
  <2>5. ActivePin = Len(pins)
    BY <2>1, ActivePinIsThere DEF MatchPin, Ranked
  <2> QED
    BY <1>3, <2>2, <2>3, <2>4, <2>5 DEF ReadStill, ActiveEmbeddings, EmbeddingsOf, ActiveRows
<1>4. CASE call'[c].at = "promote"
  <2>1. FirstMark(c) /\ call'[c] = [call[c] EXCEPT !.at = "promote"]
    BY <1>4, Begins DEF Begun
  <2>2. call[c].at = "mark" /\ call[c] \in MarkCall /\ UNCHANGED <<pins, embeds>>
    BY <1>0, <2>1, LocalsHave DEF FirstMark, Resume, artifactVars
  <2>3. /\ call'[c].embedding = call[c].embedding /\ call'[c].old = call[c].old
        /\ call'[c].pin = call[c].pin
    BY <2>1, <2>2 DEF MarkCall
  <2> QED
    BY <1>4, <2>2, <2>3 DEF ReadStill, ActiveEmbeddings, EmbeddingsOf, ActiveRows
<1>5. CASE call'[c].at = "move"
  <2>1. PICK a \in DOMAIN arts, to \in ArtifactStatus, by \in DOMAIN arts \cup {None} :
          StartMove(c, a, to, by)
    BY <1>5, Begins DEF Begun
  <2>2. /\ call'[c].artifact = a /\ call'[c].to = to /\ UNCHANGED arts
        /\ <<arts[a].status, to>> \in ArtifactMove
    BY <1>0, <2>1 DEF StartMove, Begin, artifactVars
  <2> QED
    BY <1>5, <2>2 DEF ReadStill
<1> QED
  BY <1>1, <1>2, <1>3, <1>4, <1>5 DEF ReadStill

(* With one writer an artifact moves from the status that its call has read. *)
LEMMA SettledStep ==
    ASSUME Shapes, Settled, NEW c \in writers, ArtifactStep(c), ReadStill(call[c])
    PROVE  Settled'
<1>0. Len(arts) \in Nat /\ DOMAIN arts = 1 .. Len(arts)
  BY DEF Shapes, Tables
<1>1. CASE UNCHANGED arts
  BY <1>1 DEF Settled
<1>2. CASE Created
  BY <1>0, <1>2 DEF Created, Settled
<1>3. CASE MovedTo(call[c])
  <2> PICK k : k = call[c]
    OBVIOUS
  <2>1. <<arts[k.artifact].status, k.to>> \in ArtifactMove
    BY <1>3 DEF MovedTo, ReadStill
  <2>2. arts[k.artifact].status # "superseded" /\ arts[k.artifact].superseded_by = None
    BY <1>3, <2>1 DEF MovedTo, Settled, ArtifactMove
  <2>3. k.to = "superseded" => k.by # None
    BY <1>0, <1>3 DEF MovedTo, Replaces, None
  <2> QED
    BY <1>3, <2>2, <2>3 DEF MovedTo, Settled
<1> QED
  BY <1>1, <1>2, <1>3, ArtifactsChange


(* With one writer an artifact that has seeded is not seeded again. *)
LEMMA SeededOnceStep ==
    ASSUME SingleWriter, Shapes, SeededOnce, NEW c \in writers, ArtifactStep(c),
           UNCHANGED writers
    PROVE  SeededOnce'
<1>0. c \in Callers /\ DOMAIN call = Callers /\ \A d \in writers' : d = c
  BY DEF Shapes, SingleWriter
<1>1. ASSUME NEW m \in Seeds
      PROVE  memory'[m].origin.source = memory[m].origin.source
  BY KeptStep DEF Kept, Seeds
<1>2. ASSUME NEW m \in Seeds' \ Seeds
      PROVE  /\ m = Len(memory) + 1
             /\ \A n \in Seeds : memory[n].origin.source # memory'[m].origin.source
  <2>1. /\ SeedEvent(c) /\ m = Len(memory) + 1
        /\ memory'[m].origin.source = call[c].artifact
    BY SeedsChange
  <2> QED
    BY <2>1 DEF SeededOnce, SeedEvent, Resume
<1>3. ASSUME NEW m \in Seeds', NEW n \in Seeds',
             memory'[m].origin.source = memory'[n].origin.source
      PROVE  m = n
  BY <1>1, <1>2, <1>3 DEF SeededOnce
<1>4. ASSUME call'[c].at = "seed", NEW m \in Seeds'
      PROVE  memory'[m].origin.source # call'[c].artifact
  <2>1. PICK a \in DOMAIN arts : StartSeed(c, a)
    BY <1>4, Begins DEF Begun
  <2>2. UNCHANGED memory /\ call'[c].artifact = a /\ SeedsOf(a) = {}
    BY <1>0, <2>1 DEF StartSeed, Begin, governanceVars
  <2> QED
    BY <2>2 DEF SeedsOf, Seeds, MemoryId
<1> QED
  BY <1>0, <1>3, <1>4 DEF SeededOnce

(* With one writer the four hold together. *)
LEMMA SerialStep ==
    ASSUME Shapes, Pinned, Serial, NEW c \in writers, ArtifactStep(c), UNCHANGED writers
    PROVE  Serial'
<1> SUFFICES ASSUME SingleWriter
             PROVE  Ranked' /\ SeededOnce' /\ Settled' /\ \A d \in writers : ReadStill(call[d])'
  BY DEF Serial, SingleWriter
<1>1. Ranked /\ SeededOnce /\ Settled /\ ReadStill(call[c]) /\ \A d \in writers : d = c
  BY DEF Serial, SingleWriter
<1>2. Ranked'
  BY <1>1, PinsRankedStep, EmbeddingsRankedStep DEF Ranked
<1> QED
  BY <1>1, <1>2, SeededOnceStep, SettledStep, ReadStillStep

-----------------------------------------------------------------------------
(* The invariant gives the property of the embeddings. *)
LEMMA PinsFollow == IInv => EmbeddingsFollowPins
<1> SUFFICES ASSUME IInv PROVE EmbeddingsFollowPins
  OBVIOUS
<1>1. Shapes /\ Pinned /\ Serial
  BY DEF IInv
<1>2. ASSUME NEW e \in DOMAIN embeds
      PROVE  IF embeds[e].status = "candidate" THEN embeds[e].pin = None
             ELSE embeds[e].pin # None /\ pins[embeds[e].pin].model = embeds[e].model
  BY <1>1 DEF Pinned, ByPin, None, Shapes, Tables
<1>3. ASSUME SingleWriter
      PROVE  Ranked
  BY <1>1, <1>3 DEF Serial
<1>4. ASSUME SingleWriter, NEW m \in MemoryId, NEW e \in ActiveEmbeddings(m),
             NEW f \in EmbeddingsOf(m)
      PROVE  /\ embeds[f].status = "active" => f = e
             /\ embeds[f].pin <= embeds[e].pin
  BY <1>3, <1>4 DEF Ranked, ActiveEmbeddings, EmbeddingsOf
<1>5. ASSUME SingleWriter
      PROVE  DetectSupersededWithoutActive = {}
  <2>1. ASSUME NEW f \in DOMAIN embeds, embeds[f].status = "superseded"
        PROVE  ActiveEmbeddings(embeds[f].event) # {}
    BY <1>3, <1>5, <2>1 DEF Ranked, ActiveEmbeddings, EmbeddingsOf, ActiveRows
  <2> QED
    BY <2>1 DEF DetectSupersededWithoutActive
<1>6. SingleWriter => \A p \in ActiveRows(pins) : p = Len(pins)
  BY <1>3 DEF Ranked
<1> QED
  BY <1>2, <1>4, <1>5, <1>6 DEF EmbeddingsFollowPins

(* And that of the seeded events. *)
LEMMA SeedsFollow == IInv => SeedsAreTraceable
<1> SUFFICES ASSUME IInv, NEW m \in MemoryId, memory[m].origin.source # NoArtifact
             PROVE  LET a == memory[m].origin.source
                        derived == {l \in DOMAIN links : links[l].source = m /\
                                                          links[l].relation = "derived_from"}
                        linked == {links[l].target : l \in derived}
                        own == {links[l].target : l \in {l \in derived : links[l].attributed}}
                        running == \E c \in Callers : call[c].at = "derive" /\ call[c].event = m
                    IN
                    /\ own \subseteq arts[a].sources
                    /\ \A s \in own, t \in arts[a].sources : t < s => t \in linked
                    /\ arts[a].sources \subseteq linked \/ running \/ m \in cut
                    /\ memory[m].status = ReplayedStatus(m, "proposed")
                    /\ RevisionsOf(m) = {} => m \in DetectUnreviewedSeeds
                    /\ SingleWriter => SeedsOf(a) = {m}
  BY DEF SeedsAreTraceable
<1>0. Shapes /\ Traced /\ Reviewed /\ Serial /\ m \in Seeds
  BY DEF IInv, Seeds
<1>1. /\ Own(m) \subseteq Sources(m)
      /\ \A s \in Own(m), t \in Sources(m) : t < s => t \in Linked(m)
      /\ \/ Sources(m) \subseteq Linked(m) \/ m \in cut
         \/ \E c \in Callers : call[c].at = "derive" /\ call[c].event = m
  BY <1>0 DEF Traced
<1>2. memory[m].status = ReplayedStatus(m, "proposed")
  <2>1. CASE RevisionsOf(m) = {} /\ memory[m].status = "proposed"
    BY <2>1 DEF ReplayedStatus
  <2>2. ASSUME NEW i \in DOMAIN revisions, LastRevision(m, i),
               memory[m].status = revisions[i].new
        PROVE  memory[m].status = ReplayedStatus(m, "proposed")
    <3>1. RevisionsOf(m) \subseteq Nat
      BY <1>0 DEF RevisionsOf, Shapes, Tables
    <3>2. i = CHOOSE i_1 \in RevisionsOf(m) : \A j \in RevisionsOf(m) : j <= i_1
      BY <2>2, <3>1 DEF LastRevision
    <3> QED
      BY <2>2, <3>2 DEF ReplayedStatus, LastRevision
  <2> QED
    BY <1>0, <2>1, <2>2 DEF Reviewed
<1>3. RevisionsOf(m) = {} => m \in DetectUnreviewedSeeds
  BY <1>2 DEF ReplayedStatus, DetectUnreviewedSeeds
<1>4. SingleWriter => SeedsOf(memory[m].origin.source) = {m}
  BY <1>0 DEF Serial, SeededOnce, SeedsOf, Seeds
<1> QED
  BY <1>1, <1>2, <1>3, <1>4 DEF Linked, Own, Derived, Sources

(* A stuttering step keeps the invariant. *)
(* Following a pointer: what is reached, when it is reached first, and that   *)
(* it ends or turns in a cycle.  R maps each of N things to one of them or to *)
(* None, where it stays.                                                      *)

Pointers(N, R) == N \in Nat /\ R \in [0..N -> 0..N] /\ R[0] = 0

(* The first n things from a on, and all of them. *)
Prefix(R, a, n, f) == f[0] = a /\ \A i \in 1..n : f[i] = R[f[i - 1]]

Infinite(R, a, p) ==
    DOMAIN p = Nat /\ p[0] = a /\ \A n \in Nat : p[n + 1] = R[p[n]]

Onward(R, a) == CHOOSE p : Infinite(R, a, p)

LEMMA PrefixExists ==
    ASSUME NEW R, NEW a, NEW n \in Nat
    PROVE  \E f : Prefix(R, a, n, f)
<1> DEFINE Bad == {k \in Nat : ~ \E f : Prefix(R, a, k, f)}
<1>1. Bad = {}
  <2> SUFFICES ASSUME Bad # {} PROVE FALSE OBVIOUS
  <2>1. PICK k \in Bad : \A j \in Bad : k <= j
    <3>1. Bad \in SUBSET Nat OBVIOUS
    <3> HIDE DEF Bad
    <3> QED BY <3>1, LeastOf
  <2>2. k # 0
    <3> DEFINE f == [i \in 0..0 |-> a]
    <3>1. Prefix(R, a, 0, f) BY DEF Prefix
    <3> QED BY <3>1
  <2>3. k - 1 \in Nat /\ k - 1 \notin Bad BY <2>1, <2>2
  <2>4. PICK f : Prefix(R, a, k - 1, f) BY <2>3
  <2> DEFINE g == [i \in 0..k |-> IF i < k THEN f[i] ELSE R[f[k - 1]]]
  <2>5. f[0] = a /\ \A i \in 1..k - 1 : f[i] = R[f[i - 1]]
    BY <2>3, <2>4 DEF Prefix
  <2>6. g[0] = a /\ \A i \in 1..k : g[i] = R[g[i - 1]]
    BY <2>2, <2>3, <2>5
  <2>7. Prefix(R, a, k, g) BY <2>6 DEF Prefix
  <2> QED BY <2>7
<1> QED BY <1>1

LEMMA PrefixesAgree ==
    ASSUME NEW R, NEW a, NEW n \in Nat, NEW m \in Nat, NEW f, NEW g,
           Prefix(R, a, n, f), Prefix(R, a, m, g), NEW i \in Nat, i <= n, i <= m
    PROVE  f[i] = g[i]
<1> DEFINE Bad == {j \in Nat : j <= n /\ j <= m /\ f[j] # g[j]}
<1>0. /\ f[0] = a /\ \A j \in 1..n : f[j] = R[f[j - 1]]
      /\ g[0] = a /\ \A j \in 1..m : g[j] = R[g[j - 1]]
  BY DEF Prefix
<1>1. Bad = {}
  <2> SUFFICES ASSUME Bad # {} PROVE FALSE OBVIOUS
  <2>1. PICK k \in Bad : \A j \in Bad : k <= j
    <3>1. Bad \in SUBSET Nat OBVIOUS
    <3> HIDE DEF Bad
    <3> QED BY <3>1, LeastOf
  <2>2. k # 0 BY <1>0
  <2>3. k - 1 \in Nat /\ k - 1 \notin Bad BY <2>1, <2>2
  <2>4. f[k - 1] = g[k - 1] BY <2>3
  <2>5. f[k] = R[f[k - 1]] /\ g[k] = R[g[k - 1]] BY <1>0, <2>2
  <2> QED BY <2>4, <2>5
<1> QED BY <1>1

LEMMA OnwardExists ==
    ASSUME NEW R, NEW a
    PROVE  Infinite(R, a, Onward(R, a))
<1> DEFINE F(n) == CHOOSE f : Prefix(R, a, n, f)
           p == [n \in Nat |-> F(n)[n]]
<1>1. \A n \in Nat : Prefix(R, a, n, F(n))
  BY PrefixExists
<1> HIDE DEF F
<1>2. p[0] = a
  <2>1. Prefix(R, a, 0, F(0)) BY <1>1
  <2> QED BY <2>1 DEF Prefix
<1>3. ASSUME NEW n \in Nat PROVE p[n + 1] = R[p[n]]
  <2>1. Prefix(R, a, n, F(n)) /\ Prefix(R, a, n + 1, F(n + 1)) BY <1>1
  <2>2. F(n + 1)[n + 1] = R[F(n + 1)[n]]
    <3>1. n + 1 \in 1..n + 1 OBVIOUS
    <3>2. F(n + 1)[n + 1] = R[F(n + 1)[(n + 1) - 1]] BY <2>1, <3>1 DEF Prefix
    <3> QED BY <3>2
  <2>3. F(n + 1)[n] = F(n)[n]
    <3>1. n <= n /\ n <= n + 1 OBVIOUS
    <3> QED BY <2>1, <3>1, PrefixesAgree
  <2> QED BY <2>2, <2>3
<1>4. Infinite(R, a, p) BY <1>2, <1>3 DEF Infinite
<1> QED BY <1>4 DEF Onward

LEMMA InfiniteIsUnique ==
    ASSUME NEW R, NEW a, NEW p, NEW q, Infinite(R, a, p), Infinite(R, a, q), NEW n \in Nat
    PROVE  p[n] = q[n]
<1> DEFINE Bad == {j \in Nat : p[j] # q[j]}
<1>0. /\ p[0] = a /\ \A j \in Nat : p[j + 1] = R[p[j]]
      /\ q[0] = a /\ \A j \in Nat : q[j + 1] = R[q[j]]
  BY DEF Infinite
<1>1. Bad = {}
  <2> SUFFICES ASSUME Bad # {} PROVE FALSE OBVIOUS
  <2>1. PICK k \in Bad : \A j \in Bad : k <= j
    <3>1. Bad \in SUBSET Nat OBVIOUS
    <3> HIDE DEF Bad
    <3> QED BY <3>1, LeastOf
  <2>2. k # 0 BY <1>0
  <2>3. k - 1 \in Nat /\ k - 1 \notin Bad /\ (k - 1) + 1 = k BY <2>1, <2>2
  <2>4. p[k - 1] = q[k - 1] BY <2>3
  <2>5. p[k] = R[p[k - 1]] /\ q[k] = R[q[k - 1]]
    <3>1. p[(k - 1) + 1] = R[p[k - 1]] /\ q[(k - 1) + 1] = R[q[k - 1]] BY <1>0, <2>3
    <3> QED BY <3>1, <2>3
  <2> QED BY <2>4, <2>5
<1> QED BY <1>1

(* The n-th thing after a. *)
Nth(R, a, n) == Onward(R, a)[n]

LEMMA NthStep ==
    ASSUME NEW R, NEW a, NEW n \in Nat
    PROVE  Nth(R, a, 0) = a /\ Nth(R, a, n + 1) = R[Nth(R, a, n)]
BY OnwardExists DEF Nth, Infinite

(* Going on from the i-th thing. *)
LEMMA NthShift ==
    ASSUME NEW R, NEW a, NEW i \in Nat, NEW m \in Nat
    PROVE  Nth(R, a, i + m) = Nth(R, Nth(R, a, i), m)
<1> DEFINE b == Nth(R, a, i)
           p == [n \in Nat |-> Nth(R, a, i + n)]
<1>1. p[0] = b
  <2>1. i + 0 = i OBVIOUS
  <2> QED BY <2>1
<1>2. ASSUME NEW n \in Nat PROVE p[n + 1] = R[p[n]]
  <2>1. i + n \in Nat /\ i + (n + 1) = (i + n) + 1 /\ n + 1 \in Nat OBVIOUS
  <2>2. Nth(R, a, (i + n) + 1) = R[Nth(R, a, i + n)] BY <2>1, NthStep
  <2> QED BY <2>1, <2>2
<1>3. Infinite(R, b, p) BY <1>1, <1>2 DEF Infinite
<1>4. p[m] = Nth(R, a, i + m) OBVIOUS
<1> HIDE DEF p, b
<1>5. p[m] = Onward(R, b)[m] BY <1>3, OnwardExists, InfiniteIsUnique
<1> QED BY <1>4, <1>5 DEF Nth, b

LEMMA NthType ==
    ASSUME NEW N, NEW R, Pointers(N, R), NEW a \in 0..N, NEW n \in Nat
    PROVE  Nth(R, a, n) \in 0..N
<1> DEFINE Bad == {j \in Nat : Nth(R, a, j) \notin 0..N}
<1>1. Bad = {}
  <2> SUFFICES ASSUME Bad # {} PROVE FALSE OBVIOUS
  <2>1. PICK k \in Bad : \A j \in Bad : k <= j
    <3>1. Bad \in SUBSET Nat OBVIOUS
    <3> HIDE DEF Bad
    <3> QED BY <3>1, LeastOf
  <2>2. k # 0 BY NthStep
  <2>3. k - 1 \in Nat /\ k - 1 \notin Bad /\ (k - 1) + 1 = k BY <2>1, <2>2
  <2>4. Nth(R, a, k - 1) \in 0..N BY <2>3
  <2>5. Nth(R, a, (k - 1) + 1) = R[Nth(R, a, k - 1)] BY <2>3, NthStep
  <2> QED BY <2>3, <2>4, <2>5 DEF Pointers
<1> QED BY <1>1

LEMMA NoneStays ==
    ASSUME NEW N, NEW R, Pointers(N, R), NEW n \in Nat
    PROVE  Nth(R, 0, n) = 0
<1> DEFINE p == [k \in Nat |-> 0]
<1>1. Infinite(R, 0, p) BY DEF Infinite, Pointers
<1>2. p[n] = 0 OBVIOUS
<1> HIDE DEF p
<1> QED BY <1>1, <1>2, OnwardExists, InfiniteIsUnique DEF Nth

LEMMA EndStays ==
    ASSUME NEW N, NEW R, Pointers(N, R), NEW a, NEW i \in Nat, NEW n \in Nat,
           Nth(R, a, i) = 0, i <= n
    PROVE  Nth(R, a, n) = 0
<1>1. n - i \in Nat /\ i + (n - i) = n OBVIOUS
<1>2. Nth(R, a, i + (n - i)) = Nth(R, 0, n - i) BY <1>1, NthShift
<1> QED BY <1>1, <1>2, NoneStays

(* As many different things as there are. *)
LEMMA Distinct ==
    ASSUME NEW N \in Nat, NEW k \in Nat, NEW f, \A i \in 1..k : f[i] \in 1..N,
           \A i, j \in 1..k : f[i] = f[j] => i = j
    PROVE  k <= N
<1> SUFFICES ASSUME N < k PROVE FALSE OBVIOUS
<1> DEFINE g == [i \in 1..k |-> f[i]]
<1>1. IsFiniteSet(1..k) /\ Cardinality(1..k) = k
  BY FS_Interval
<1>2. IsFiniteSet(1..N) /\ Cardinality(1..N) = N
  BY FS_Interval
<1>3. g \in [1..k -> 1..N] OBVIOUS
<1>4. PICK x, y \in 1..k : x # y /\ g[x] = g[y]
  <2> HIDE DEF g
  <2> QED BY <1>1, <1>2, <1>3, FS_PigeonHole
<1> QED BY <1>4

(* What is reached is reached in N steps. *)
LEMMA ReachedEarly ==
    ASSUME NEW N, NEW R, Pointers(N, R), NEW a \in 0..N, NEW m \in Nat, m # 0,
           Nth(R, a, m) # 0
    PROVE  \E i \in 1..N : Nth(R, a, i) = Nth(R, a, m)
<1> DEFINE x == Nth(R, a, m)
           S == {i \in Nat : i # 0 /\ Nth(R, a, i) = x}
<1>1. PICK i \in S : \A j \in S : i <= j
  <2>1. S \in SUBSET Nat /\ m \in S OBVIOUS
  <2> HIDE DEF S
  <2> QED BY <2>1, LeastOf
<1>2. i \in Nat /\ i # 0 /\ Nth(R, a, i) = x OBVIOUS
<1>3. \A j \in Nat : j # 0 /\ Nth(R, a, j) = x => i <= j BY <1>1
<1> DEFINE f == [j \in 1..i |-> Nth(R, a, j)]
<1> HIDE DEF S
<1>4. ASSUME NEW j \in 1..i PROVE Nth(R, a, j) \in 1..N
  <2>1. Nth(R, a, j) # 0
    <3> SUFFICES ASSUME Nth(R, a, j) = 0 PROVE FALSE OBVIOUS
    <3>1. j \in Nat /\ j <= i OBVIOUS
    <3>2. Nth(R, a, i) = 0 BY <1>2, <3>1, EndStays
    <3> QED BY <1>2, <3>2
  <2>2. Nth(R, a, j) \in 0..N BY <1>2, NthType
  <2>3. N \in Nat BY DEF Pointers
  <2> QED BY <2>1, <2>2, <2>3
<1>5. ASSUME NEW j \in 1..i, NEW k \in 1..i, Nth(R, a, j) = Nth(R, a, k), j < k PROVE FALSE
  <2>1. i - k \in Nat /\ k + (i - k) = i /\ j + (i - k) \in Nat /\ j + (i - k) < i
        /\ j + (i - k) # 0 /\ j \in Nat /\ k \in Nat
    BY <1>2, <1>5
  <2>2. Nth(R, a, k + (i - k)) = Nth(R, Nth(R, a, k), i - k) BY <2>1, NthShift
  <2>3. Nth(R, a, j + (i - k)) = Nth(R, Nth(R, a, j), i - k) BY <2>1, NthShift
  <2>4. Nth(R, a, j + (i - k)) = x BY <2>1, <2>2, <2>3, <1>2, <1>5
  <2>5. i <= j + (i - k) BY <1>3, <2>1, <2>4
  <2> QED BY <2>1, <2>5, <1>2
<1>6. \A j \in 1..i : f[j] \in 1..N BY <1>4
<1>7. \A j, k \in 1..i : f[j] = f[k] => j = k
  <2> SUFFICES ASSUME NEW j \in 1..i, NEW k \in 1..i, f[j] = f[k], j # k PROVE FALSE
    OBVIOUS
  <2>1. Nth(R, a, j) = Nth(R, a, k) OBVIOUS
  <2>2. j < k \/ k < j OBVIOUS
  <2> QED BY <2>1, <2>2, <1>5
<1>8. i <= N
  <2>1. N \in Nat BY DEF Pointers
  <2> HIDE DEF f
  <2> QED BY <2>1, <1>2, <1>6, <1>7, Distinct
<1> QED BY <1>2, <1>8

(* The things reached from x, x included, and those that are reached again.   *)
Reach(R, x) == {Nth(R, x, n) : n \in Nat}

Turns(R, x) == x # 0 /\ \E m \in Nat : m # 0 /\ Nth(R, x, m) = x

LEMMA ReachGoesOn ==
    ASSUME NEW R, NEW x, NEW y \in Reach(R, x)
    PROVE  Reach(R, y) \subseteq Reach(R, x)
<1>1. PICK i \in Nat : y = Nth(R, x, i) BY DEF Reach
<1>2. ASSUME NEW m \in Nat PROVE Nth(R, y, m) \in Reach(R, x)
  <2>1. i + m \in Nat /\ Nth(R, x, i + m) = Nth(R, y, m) BY <1>1, NthShift
  <2> QED BY <2>1 DEF Reach
<1> QED BY <1>2 DEF Reach

LEMMA TurnsAgain ==
    ASSUME NEW R, NEW x, Turns(R, x), NEW j \in Nat
    PROVE  \E t \in Nat : j <= t /\ Nth(R, x, t) = x
<1> DEFINE Bad == {k \in Nat : ~ \E t \in Nat : k <= t /\ Nth(R, x, t) = x}
<1>1. PICK m \in Nat : m # 0 /\ Nth(R, x, m) = x BY DEF Turns
<1>2. Bad = {}
  <2> SUFFICES ASSUME Bad # {} PROVE FALSE OBVIOUS
  <2>1. PICK k \in Bad : \A i \in Bad : k <= i
    <3>1. Bad \in SUBSET Nat OBVIOUS
    <3> HIDE DEF Bad
    <3> QED BY <3>1, LeastOf
  <2>2. k # 0
    <3>1. 0 <= m BY <1>1
    <3> QED BY <1>1, <3>1
  <2>3. k - 1 \in Nat /\ k - 1 \notin Bad BY <2>1, <2>2
  <2>4. PICK t \in Nat : k - 1 <= t /\ Nth(R, x, t) = x BY <2>3
  <2>5. t + m \in Nat /\ k <= t + m BY <1>1, <2>4
  <2>6. Nth(R, x, t + m) = x BY <1>1, <2>4, NthShift
  <2> QED BY <2>5, <2>6
<1> QED BY <1>2

LEMMA EndsNowhere ==
    ASSUME NEW N, NEW R, Pointers(N, R), NEW a, NEW k \in Nat, Nth(R, a, k) = 0,
           NEW x \in Reach(R, a)
    PROVE  ~ Turns(R, x)
<1> SUFFICES ASSUME Turns(R, x) PROVE FALSE OBVIOUS
<1>1. PICK i \in Nat : x = Nth(R, a, i) BY DEF Reach
<1>2. PICK t \in Nat : k <= t /\ Nth(R, x, t) = x BY TurnsAgain
<1>3. i + t \in Nat /\ k <= i + t BY <1>2
<1>4. Nth(R, a, i + t) = 0 BY <1>3, EndStays
<1>5. Nth(R, a, i + t) = x BY <1>1, <1>2, NthShift
<1> QED BY <1>4, <1>5 DEF Turns

LEMMA TurnsBack ==
    ASSUME NEW N, NEW R, Pointers(N, R), NEW x, Turns(R, x), NEW y \in Reach(R, x)
    PROVE  x \in Reach(R, y) /\ Reach(R, y) = Reach(R, x) /\ Turns(R, y)
<1>1. PICK i \in Nat : y = Nth(R, x, i) BY DEF Reach
<1>2. PICK t \in Nat : i <= t /\ Nth(R, x, t) = x BY TurnsAgain
<1>3. t - i \in Nat /\ i + (t - i) = t BY <1>2
<1>4. Nth(R, y, t - i) = x
  <2>1. Nth(R, x, i + (t - i)) = Nth(R, y, t - i) BY <1>1, <1>3, NthShift
  <2> QED BY <2>1, <1>2, <1>3
<1>5. x \in Reach(R, y) BY <1>3, <1>4 DEF Reach
<1>6. Reach(R, y) = Reach(R, x) BY <1>5, ReachGoesOn
<1>7. y # 0
  <2> SUFFICES ASSUME y = 0 PROVE FALSE OBVIOUS
  <2>1. Nth(R, x, i) = 0 BY <1>1
  <2>2. ~ Turns(R, x)
    <3>1. Nth(R, x, 0) = x BY NthStep
    <3>2. x \in Reach(R, x) BY <3>1 DEF Reach
    <3> QED BY <2>1, <3>2, EndsNowhere
  <2> QED BY <2>2
<1>8. PICK m \in Nat : m # 0 /\ Nth(R, x, m) = x BY DEF Turns
<1>9. Nth(R, y, (t - i) + (m + i)) = y
  <2>1. Nth(R, y, (t - i) + (m + i)) = Nth(R, x, m + i) BY <1>3, <1>4, <1>8, NthShift
  <2>2. Nth(R, x, m + i) = Nth(R, x, i) BY <1>8, NthShift
  <2> QED BY <2>1, <2>2, <1>1
<1>10. (t - i) + (m + i) \in Nat /\ (t - i) + (m + i) # 0 BY <1>3, <1>8
<1> QED BY <1>5, <1>6, <1>7, <1>9, <1>10 DEF Turns

(* A walk that comes back to its j-th thing has found a cycle.                *)
LEMMA Closes ==
    ASSUME NEW R, NEW a, NEW k \in Nat, NEW j \in Nat, j < k,
           Nth(R, a, j) = Nth(R, a, k), Nth(R, a, j) # 0
    PROVE  /\ Turns(R, Nth(R, a, j))
           /\ {Nth(R, a, i) : i \in j .. k - 1} = Reach(R, Nth(R, a, j))
<1> DEFINE y == Nth(R, a, j)
           l == k - j
           C == {Nth(R, a, i) : i \in j .. k - 1}
<1>1. l \in Nat /\ l # 0 /\ j + l = k OBVIOUS
<1>2. \A m \in Nat : Nth(R, a, j + m) = Nth(R, y, m)
  BY NthShift
<1>3. Nth(R, y, l) = y
  <2> HIDE DEF l
  <2>1. Nth(R, a, j + l) = Nth(R, y, l) BY <1>1, <1>2
  <2> QED BY <1>1, <2>1
<1>4. Turns(R, y) BY <1>1, <1>3 DEF Turns
<1>5. ASSUME NEW i \in j .. k - 1 PROVE Nth(R, a, i) \in Reach(R, y)
  <2>1. i - j \in Nat /\ j + (i - j) = i OBVIOUS
  <2>2. Nth(R, a, j + (i - j)) = Nth(R, y, i - j) BY <1>2, <2>1
  <2> HIDE DEF y
  <2> QED BY <2>1, <2>2 DEF Reach
<1> DEFINE Bad == {m \in Nat : Nth(R, y, m) \notin C}
<1>6. Bad = {}
  <2> SUFFICES ASSUME Bad # {} PROVE FALSE OBVIOUS
  <2>1. PICK m \in Bad : \A i \in Bad : m <= i
    <3>1. Bad \in SUBSET Nat OBVIOUS
    <3> HIDE DEF Bad
    <3> QED BY <3>1, LeastOf
  <2>2. m \in Nat /\ Nth(R, y, m) \notin C OBVIOUS
  <2>3. ~ (m < l)
    <3> SUFFICES ASSUME m < l PROVE FALSE OBVIOUS
    <3>1. j + m \in j .. k - 1 BY <2>2
    <3>2. Nth(R, a, j + m) \in C BY <3>1
    <3>3. Nth(R, a, j + m) = Nth(R, y, m) BY <2>2, <1>2
    <3> QED BY <2>2, <3>2, <3>3
  <2>4. m - l \in Nat /\ l + (m - l) = m /\ ~ (m <= m - l) BY <2>2, <2>3, <1>1
  <2> HIDE DEF y, l, C
  <2>5. Nth(R, y, l + (m - l)) = Nth(R, Nth(R, y, l), m - l) BY <1>1, <2>4, NthShift
  <2>6. Nth(R, y, m) = Nth(R, y, m - l) BY <1>3, <2>4, <2>5
  <2>7. m - l \in Bad BY <2>2, <2>4, <2>6
  <2> QED BY <2>1, <2>4, <2>7
<1>7. Reach(R, y) \subseteq C
  <2> HIDE DEF C, y
  <2> QED BY <1>6 DEF Reach
<1>8. C \subseteq Reach(R, y) BY <1>5
<1> QED BY <1>4, <1>7, <1>8

-----------------------------------------------------------------------------
(* The supersession chains of the artifacts *)

Named == [x \in 0 .. Len(arts) |-> IF x = None THEN None ELSE arts[x].superseded_by]

\* the n-th replacement of an artifact
Later(a, n) == Nth(Named, a, n)

LEMMA NamedPoints ==
    ASSUME arts \in Seq(ArtifactRow), Referred
    PROVE  /\ Len(arts) \in Nat /\ DOMAIN arts = 1 .. Len(arts)
           /\ Pointers(Len(arts), Named)
<1>1. Len(arts) \in Nat /\ DOMAIN arts = 1 .. Len(arts)
  OBVIOUS
<1>2. ASSUME NEW x \in 0 .. Len(arts)
      PROVE  Named[x] \in 0 .. Len(arts)
  BY <1>1 DEF Named, Referred, None
<1>3. Named[0] = 0
  BY <1>1 DEF Named, None
<1> QED BY <1>1, <1>2, <1>3 DEF Pointers, Named

LEMMA ReplacementsAre ==
    ASSUME arts \in Seq(ArtifactRow), Referred, NEW a \in DOMAIN arts
    PROVE  Replacements(a) = {Later(a, n) : n \in 1 .. Len(arts)} \ {None}
<1>0. /\ Len(arts) \in Nat /\ DOMAIN arts = 1 .. Len(arts) /\ Pointers(Len(arts), Named)
      /\ a \in 0 .. Len(arts)
  BY NamedPoints
<1> DEFINE Eq(s) == s = [n \in 0..Len(arts) |->
                       IF n = 0 THEN a
                       ELSE IF s[n - 1] = None THEN None ELSE arts[s[n - 1]].superseded_by]
           t == [n \in 0..Len(arts) |-> Later(a, n)]
           s == CHOOSE s : Eq(s)
<1>1. Eq(t)
  <2>1. ASSUME NEW n \in 0..Len(arts)
        PROVE  Later(a, n) = IF n = 0 THEN a
                             ELSE IF t[n - 1] = None THEN None ELSE arts[t[n - 1]].superseded_by
    <3>1. CASE n = 0 BY <3>1, NthStep DEF Later
    <3>2. CASE n # 0
      <4>1. n - 1 \in 0..Len(arts) /\ n - 1 \in Nat /\ (n - 1) + 1 = n BY <1>0, <3>2
      <4>2. Later(a, n - 1) \in 0 .. Len(arts) BY <1>0, <4>1, NthType DEF Later
      <4>3. Later(a, n) = Named[Later(a, n - 1)] BY <4>1, NthStep DEF Later
      <4>4. t[n - 1] = Later(a, n - 1) BY <4>1
      <4> HIDE DEF t
      <4> QED BY <3>2, <4>2, <4>3, <4>4 DEF Named
    <3> QED BY <3>1, <3>2
  <2> QED BY <2>1
<1>2. Eq(s) BY <1>1
<1> HIDE DEF s, t
<1>3. \A n \in 0..Len(arts) : s[n] = IF n = 0 THEN a
                       ELSE IF s[n - 1] = None THEN None ELSE arts[s[n - 1]].superseded_by
  BY <1>2
<1> DEFINE Bad == {n \in 0..Len(arts) : s[n] # Later(a, n)}
<1>4. Bad = {}
  <2> SUFFICES ASSUME Bad # {} PROVE FALSE OBVIOUS
  <2>1. PICK n \in Bad : \A i \in Bad : n <= i
    <3>1. Bad \in SUBSET Nat OBVIOUS
    <3> HIDE DEF Bad
    <3> QED BY <3>1, LeastOf
  <2>2. n \in 0..Len(arts) /\ s[n] # Later(a, n) OBVIOUS
  <2>3. n # 0
    <3>1. 0 \in 0..Len(arts) BY <1>0
    <3> QED BY <1>3, <2>2, <3>1, NthStep DEF Later
  <2>4. n - 1 \in 0..Len(arts) /\ n - 1 \in Nat /\ (n - 1) + 1 = n /\ ~ (n <= n - 1)
    BY <1>0, <2>2, <2>3
  <2>5. s[n - 1] = Later(a, n - 1) BY <2>1, <2>4
  <2>6. Later(a, n - 1) \in 0 .. Len(arts) BY <1>0, <2>4, NthType DEF Later
  <2>7. Later(a, n) = Named[Later(a, n - 1)]
    <3>1. Nth(Named, a, (n - 1) + 1) = Named[Nth(Named, a, n - 1)] BY <2>4, NthStep
    <3> QED BY <2>4, <3>1 DEF Later
  <2>8. s[n] = Later(a, n) BY <1>3, <2>2, <2>3, <2>5, <2>6, <2>7 DEF Named
  <2> QED BY <2>2, <2>8
<1>5. \A n \in 1..Len(arts) : s[n] = Later(a, n) BY <1>4
<1>6. Replacements(a) = {s[n] : n \in 1..Len(arts)} \ {None}
  BY DEF Replacements, s
<1> QED BY <1>5, <1>6

\* a replacement, however far away
LEMMA ReplacementsReach ==
    ASSUME arts \in Seq(ArtifactRow), Referred, NEW a \in DOMAIN arts
    PROVE  /\ {a} \cup Replacements(a) = Reach(Named, a) \ {None}
           /\ a \in Replacements(a) <=> Turns(Named, a)
<1>0. /\ Len(arts) \in Nat /\ DOMAIN arts = 1 .. Len(arts) /\ Pointers(Len(arts), Named)
      /\ a \in 0 .. Len(arts) /\ a # None
  BY NamedPoints DEF None
<1>1. Replacements(a) = {Later(a, n) : n \in 1 .. Len(arts)} \ {None}
  BY ReplacementsAre
<1>2. ASSUME NEW m \in Nat, m # 0, Later(a, m) # None
      PROVE  Later(a, m) \in Replacements(a)
  <2>1. \E i \in 1 .. Len(arts) : Later(a, i) = Later(a, m)
    BY <1>0, <1>2, ReachedEarly DEF Later, None
  <2> QED BY <1>1, <1>2, <2>1
<1>3. ASSUME NEW x \in Replacements(a)
      PROVE  x # None /\ \E m \in Nat : m # 0 /\ x = Later(a, m)
  <2>1. PICK n \in 1 .. Len(arts) : x = Later(a, n) BY <1>1
  <2>2. n \in Nat /\ n # 0 BY <1>0
  <2> QED BY <1>1, <2>1, <2>2
<1>4. Later(a, 0) = a BY NthStep DEF Later
<1>5. Reach(Named, a) = {Later(a, n) : n \in Nat} BY DEF Reach, Later
<1>6. {a} \cup Replacements(a) \subseteq Reach(Named, a) \ {None}
  BY <1>0, <1>3, <1>4, <1>5
<1>7. Reach(Named, a) \ {None} \subseteq {a} \cup Replacements(a)
  BY <1>2, <1>4, <1>5
<1>8. a \in Replacements(a) <=> Turns(Named, a)
  BY <1>0, <1>2, <1>3 DEF Turns, Later, None
<1> QED BY <1>6, <1>7, <1>8

LEMMA OnCycleIs ==
    ASSUME arts \in Seq(ArtifactRow), Referred
    PROVE  OnCycle = {a \in DOMAIN arts : Turns(Named, a)}
BY ReplacementsReach DEF OnCycle

\* the walk closes at the k-th replacement, and not before
Stops(a, k) == Later(a, k) = None \/ \E j \in 0 .. k - 1 : Later(a, j) = Later(a, k)

FirstStop(a, k) == /\ k \in 1 .. Len(arts) /\ Stops(a, k)
                   /\ \A j \in 1 .. k - 1 : ~ Stops(a, j)

LaterIds(a, n) == [i \in 1 .. n |-> Later(a, i - 1)]

\* the walk from a after n - 1 turns, when it closes at k
WalkAt(a, k, n) ==
    IF n <= k THEN [ids |-> LaterIds(a, n), at |-> "open"]
    ELSE [ids |-> LaterIds(a, k), at |-> IF Later(a, k) = None THEN "end" ELSE "cycle"]

LEMMA LaterType ==
    ASSUME arts \in Seq(ArtifactRow), Referred, NEW a \in DOMAIN arts, NEW n \in Nat
    PROVE  /\ Later(a, n) \in 0 .. Len(arts)
           /\ Later(a, n) # None => Later(a, n) \in DOMAIN arts
           /\ Later(a, 0) = a
           /\ Later(a, n) # None => Later(a, n + 1) = arts[Later(a, n)].superseded_by
<1>0. /\ Len(arts) \in Nat /\ DOMAIN arts = 1 .. Len(arts) /\ Pointers(Len(arts), Named)
      /\ a \in 0 .. Len(arts)
  BY NamedPoints
<1>1. Later(a, n) \in 0 .. Len(arts) BY <1>0, NthType DEF Later
<1>2. Later(a, 0) = a /\ Later(a, n + 1) = Named[Later(a, n)] BY NthStep DEF Later
<1> QED BY <1>0, <1>1, <1>2 DEF Named, None

LEMMA OpenSoFar ==
    ASSUME arts \in Seq(ArtifactRow), Referred, NEW a \in DOMAIN arts, NEW k \in Nat,
           \A j \in 1 .. k - 1 : ~ Stops(a, j)
    PROVE  /\ \A i \in 0 .. k - 1 : Later(a, i) \in DOMAIN arts /\ Later(a, i) # None
           /\ \A i, j \in 0 .. k - 1 : Later(a, i) = Later(a, j) => i = j
<1>0. Len(arts) \in Nat /\ DOMAIN arts = 1 .. Len(arts)
  BY NamedPoints
<1>1. ASSUME NEW i \in 0 .. k - 1
      PROVE  Later(a, i) \in DOMAIN arts /\ Later(a, i) # None
  <2>1. CASE i = 0 BY <1>0, <2>1, LaterType DEF None
  <2>2. CASE i # 0
    <3>1. i \in 1 .. k - 1 /\ i \in Nat BY <2>2
    <3>2. ~ Stops(a, i) BY <3>1
    <3>3. Later(a, i) # None BY <3>2 DEF Stops
    <3> QED BY <3>1, <3>3, LaterType
  <2> QED BY <2>1, <2>2
<1>2. ASSUME NEW i \in 0 .. k - 1, NEW j \in 0 .. k - 1, j < i
      PROVE  Later(a, i) # Later(a, j)
  <2>1. i \in 1 .. k - 1 /\ j \in 0 .. i - 1 BY <1>2
  <2>2. ~ Stops(a, i) BY <2>1
  <2> QED BY <2>1, <2>2 DEF Stops
<1>3. ASSUME NEW i \in 0 .. k - 1, NEW j \in 0 .. k - 1, Later(a, i) = Later(a, j)
      PROVE  i = j
  <2>1. i < j \/ j < i \/ i = j OBVIOUS
  <2> QED BY <1>2, <1>3, <2>1
<1> QED BY <1>1, <1>3

\* there are too few artifacts for a walk that never closes
LEMMA StopExists ==
    ASSUME arts \in Seq(ArtifactRow), Referred, NEW a \in DOMAIN arts
    PROVE  \E k : FirstStop(a, k)
<1>0. Len(arts) \in Nat /\ DOMAIN arts = 1 .. Len(arts)
  BY NamedPoints
<1> DEFINE S == {k \in 1 .. Len(arts) : Stops(a, k)}
           n == Len(arts) + 1
<1>1. S # {}
  <2> SUFFICES ASSUME S = {} PROVE FALSE OBVIOUS
  <2>1. n \in Nat /\ n - 1 = Len(arts) /\ ~ (n <= Len(arts)) BY <1>0
  <2>2. \A j \in 1 .. n - 1 : ~ Stops(a, j) BY <2>1
  <2> DEFINE f == LaterIds(a, n)
  <2> HIDE DEF n
  <2>3. /\ \A i \in 0 .. n - 1 : Later(a, i) \in DOMAIN arts
        /\ \A i, j \in 0 .. n - 1 : Later(a, i) = Later(a, j) => i = j
    BY <2>1, <2>2, OpenSoFar
  <2>4. \A i \in 1 .. n : f[i] = Later(a, i - 1) /\ i - 1 \in 0 .. n - 1
    BY <2>1 DEF LaterIds
  <2>5. \A i \in 1 .. n : f[i] \in 1 .. Len(arts) BY <2>3, <2>4, <1>0
  <2>6. ASSUME NEW i \in 1 .. n, NEW j \in 1 .. n, f[i] = f[j] PROVE i = j
    <3>1. i - 1 = j - 1 BY <2>3, <2>4, <2>6
    <3> QED BY <3>1
  <2> HIDE DEF f
  <2>7. n <= Len(arts) BY <1>0, <2>1, <2>5, <2>6, Distinct
  <2> QED BY <2>1, <2>7
<1>2. PICK k \in S : \A j \in S : k <= j
  <2>1. S \in SUBSET Nat BY <1>0
  <2> HIDE DEF S
  <2> QED BY <1>1, <2>1, LeastOf
<1>3. k \in 1 .. Len(arts) /\ Stops(a, k) OBVIOUS
<1>4. ASSUME NEW j \in 1 .. k - 1 PROVE ~ Stops(a, j)
  <2> SUFFICES ASSUME Stops(a, j) PROVE FALSE OBVIOUS
  <2>1. j \in 1 .. Len(arts) /\ ~ (k <= j) BY <1>0, <1>3
  <2> QED BY <1>2, <2>1
<1> QED BY <1>3, <1>4 DEF FirstStop

LEMMA FirstStopHas ==
    ASSUME arts \in Seq(ArtifactRow), Referred, NEW a \in DOMAIN arts, NEW k, FirstStop(a, k)
    PROVE  /\ k \in Nat /\ k # 0 /\ k <= Len(arts)
           /\ \A i \in 0 .. k - 1 : Later(a, i) \in DOMAIN arts /\ Later(a, i) # None
           /\ \A i, j \in 0 .. k - 1 : Later(a, i) = Later(a, j) => i = j
           /\ Later(a, k) = None \/ \E j \in 0 .. k - 1 : Later(a, j) = Later(a, k)
<1>0. Len(arts) \in Nat
  BY NamedPoints
<1>1. k \in 1 .. Len(arts) /\ Stops(a, k) /\ \A j \in 1 .. k - 1 : ~ Stops(a, j)
  BY DEF FirstStop
<1>2. k \in Nat /\ k # 0 /\ k <= Len(arts)
  BY <1>0, <1>1
<1>3. /\ \A i \in 0 .. k - 1 : Later(a, i) \in DOMAIN arts /\ Later(a, i) # None
      /\ \A i, j \in 0 .. k - 1 : Later(a, i) = Later(a, j) => i = j
  BY <1>1, <1>2, OpenSoFar
<1> QED BY <1>1, <1>2, <1>3 DEF Stops

LEMMA IdsAre ==
    ASSUME arts \in Seq(ArtifactRow), Referred, NEW a \in DOMAIN arts, NEW n \in Nat
    PROVE  /\ LaterIds(a, n) \in Seq(0 .. Len(arts))
           /\ Len(LaterIds(a, n)) = n /\ DOMAIN LaterIds(a, n) = 1 .. n
           /\ \A i \in 1 .. n : LaterIds(a, n)[i] = Later(a, i - 1)
           /\ LaterIds(a, n + 1) = Append(LaterIds(a, n), Later(a, n))
<1>1. \A i \in 1 .. n : Later(a, i - 1) \in 0 .. Len(arts)
  BY LaterType
<1>2. /\ LaterIds(a, n) \in Seq(0 .. Len(arts))
      /\ Len(LaterIds(a, n)) = n /\ DOMAIN LaterIds(a, n) = 1 .. n
      /\ \A i \in 1 .. n : LaterIds(a, n)[i] = Later(a, i - 1)
  BY <1>1 DEF LaterIds
<1>3. \A i \in 1 .. n + 1 : Later(a, i - 1) \in 0 .. Len(arts)
  BY LaterType
<1>4. LaterIds(a, n + 1) \in Seq(0 .. Len(arts)) /\ Len(LaterIds(a, n + 1)) = n + 1
      /\ \A i \in 1 .. n + 1 : LaterIds(a, n + 1)[i] = Later(a, i - 1)
  BY <1>3 DEF LaterIds
<1> DEFINE s == LaterIds(a, n)
           t == LaterIds(a, n + 1)
           e == Later(a, n)
<1>5. e \in 0 .. Len(arts) BY LaterType
<1>6. ASSUME NEW i \in 1 .. n PROVE t[i] = s[i]
  <2>1. i \in 1 .. n + 1 OBVIOUS
  <2>2. s[i] = Later(a, i - 1) BY <1>2
  <2>3. t[i] = Later(a, i - 1) BY <1>4, <2>1
  <2> QED BY <2>2, <2>3
<1>7. t[n + 1] = e
  <2>1. n + 1 \in 1 .. n + 1 /\ (n + 1) - 1 = n OBVIOUS
  <2> QED BY <2>1, <1>4
<1>8. s \in Seq(0 .. Len(arts)) /\ Len(s) = n BY <1>2
<1>9. t \in Seq(0 .. Len(arts)) /\ Len(t) = n + 1 BY <1>4
<1> HIDE DEF s, t, e
<1>10. t = Append(s, e) BY <1>5, <1>6, <1>7, <1>8, <1>9
<1> QED BY <1>2, <1>10 DEF s, t, e

LEMMA FollowIs ==
    ASSUME arts \in Seq(ArtifactRow), Referred, NEW a \in DOMAIN arts, NEW k, FirstStop(a, k),
           NEW n \in Nat \ {0}
    PROVE  Follow(WalkAt(a, k, n)) = WalkAt(a, k, n + 1)
<1> DEFINE v == WalkAt(a, k, n)
<1>0. /\ k \in Nat /\ k # 0
      /\ \A i \in 0 .. k - 1 : Later(a, i) \in DOMAIN arts /\ Later(a, i) # None
      /\ \A i, j \in 0 .. k - 1 : Later(a, i) = Later(a, j) => i = j
      /\ Later(a, k) = None \/ \E j \in 0 .. k - 1 : Later(a, j) = Later(a, k)
  BY FirstStopHas
<1>1. CASE k < n
  <2>1. v = [ids |-> LaterIds(a, k), at |-> IF Later(a, k) = None THEN "end" ELSE "cycle"]
        /\ WalkAt(a, k, n + 1) = v
    BY <1>0, <1>1 DEF WalkAt
  <2>2. v.at # "open" BY <2>1
  <2> HIDE DEF v
  <2>3. Follow(v) = v BY <2>2 DEF Follow
  <2> QED BY <2>1, <2>3 DEF v
<1>2. CASE n <= k
  <2>1. v = [ids |-> LaterIds(a, n), at |-> "open"] BY <1>2 DEF WalkAt
  <2> DEFINE ids == LaterIds(a, n)
             next == arts[ids[Len(ids)]].superseded_by
  <2>2. /\ Len(ids) = n /\ DOMAIN ids = 1 .. n
        /\ \A i \in 1 .. n : ids[i] = Later(a, i - 1)
        /\ LaterIds(a, n + 1) = Append(ids, Later(a, n))
    BY IdsAre
  <2>3. next = Later(a, n)
    <3>1. n \in 1 .. n /\ n - 1 \in Nat /\ n - 1 \in 0 .. k - 1 /\ (n - 1) + 1 = n
      BY <1>0, <1>2
    <3>2. ids[Len(ids)] = Later(a, n - 1) BY <2>2, <3>1
    <3>3. Later(a, (n - 1) + 1) = arts[Later(a, n - 1)].superseded_by
      BY <1>0, <3>1, LaterType
    <3> HIDE DEF ids
    <3> QED BY <3>1, <3>2, <3>3
  <2>4. v.ids = ids /\ v.at = "open" BY <2>1
  <2>5. Follow(v) = IF v.at # "open" THEN v
                    ELSE IF next = None THEN [v EXCEPT !.at = "end"]
                    ELSE IF \E i \in DOMAIN v.ids : v.ids[i] = next
                    THEN [v EXCEPT !.at = "cycle"]
                    ELSE [v EXCEPT !.ids = Append(v.ids, next)]
    BY <2>4 DEF Follow
  <2> HIDE DEF next, ids, v
  <2>6. CASE n = k /\ Later(a, k) = None
    <3>1. Follow(v) = [v EXCEPT !.at = "end"] BY <2>3, <2>4, <2>5, <2>6
    <3>2. Follow(v) = [ids |-> ids, at |-> "end"] BY <2>1, <3>1 DEF ids
    <3>3. WalkAt(a, k, n + 1) = [ids |-> ids, at |-> "end"]
      BY <1>0, <2>6 DEF WalkAt, ids
    <3> QED BY <3>2, <3>3 DEF v
  <2>7. CASE n = k /\ Later(a, k) # None
    <3>1. PICK j \in 0 .. k - 1 : Later(a, j) = Later(a, k) BY <1>0, <2>7
    <3>2. j + 1 \in 1 .. n /\ (j + 1) - 1 = j BY <1>0, <2>7
    <3>3. ids[j + 1] = next BY <2>2, <2>3, <2>7, <3>1, <3>2
    <3>4. \E i \in DOMAIN v.ids : v.ids[i] = next BY <2>2, <2>4, <3>2, <3>3
    <3>5. Follow(v) = [v EXCEPT !.at = "cycle"] BY <2>3, <2>4, <2>5, <2>7, <3>4
    <3>6. Follow(v) = [ids |-> ids, at |-> "cycle"] BY <2>1, <3>5 DEF ids
    <3>7. WalkAt(a, k, n + 1) = [ids |-> ids, at |-> "cycle"]
      BY <1>0, <2>7 DEF WalkAt, ids
    <3> QED BY <3>6, <3>7 DEF v
  <2>8. CASE n < k
    <3>1. n \in 0 .. k - 1 BY <1>0, <2>8
    <3>2. Later(a, n) # None BY <1>0, <3>1
    <3>3. \A i \in 1 .. n : ids[i] # next
      <4> SUFFICES ASSUME NEW i \in 1 .. n, ids[i] = next PROVE FALSE OBVIOUS
      <4>1. Later(a, i - 1) = Later(a, n) BY <2>2, <2>3
      <4>2. i - 1 \in 0 .. k - 1 /\ i - 1 # n BY <3>1, <1>0
      <4> QED BY <4>1, <4>2, <3>1, <1>0
    <3>4. ~ \E i \in DOMAIN v.ids : v.ids[i] = next BY <2>2, <2>4, <3>3
    <3>5. Follow(v) = [v EXCEPT !.ids = Append(v.ids, next)]
      BY <2>3, <2>4, <2>5, <3>2, <3>4
    <3>6. Follow(v) = [ids |-> Append(ids, next), at |-> "open"]
      BY <2>1, <2>4, <3>5 DEF ids
    <3>7. WalkAt(a, k, n + 1) = [ids |-> LaterIds(a, n + 1), at |-> "open"]
      BY <1>0, <2>8 DEF WalkAt
    <3> QED BY <2>2, <2>3, <3>6, <3>7 DEF v
  <2> QED BY <1>0, <1>2, <2>6, <2>7, <2>8
<1> QED BY <1>0, <1>1, <1>2

LEMMA WalkIs ==
    ASSUME arts \in Seq(ArtifactRow), Referred, NEW a \in DOMAIN arts, NEW k, FirstStop(a, k),
           NEW limit \in Nat \ {0}
    PROVE  Walk(a, limit) = WalkAt(a, k, limit)
<1> DEFINE first == [ids |-> <<a>>, at |-> "open"]
           Eq(w) == w = [n \in 1..limit |-> IF n = 1 THEN first ELSE Follow(w[n - 1])]
           t == [n \in 1..limit |-> WalkAt(a, k, n)]
           w == CHOOSE w : Eq(w)
<1>0. k \in Nat /\ k # 0 BY FirstStopHas
<1>1. WalkAt(a, k, 1) = first
  <2>1. WalkAt(a, k, 1) = [ids |-> LaterIds(a, 1), at |-> "open"] BY <1>0 DEF WalkAt
  <2>2. LaterIds(a, 1) = <<a>>
    <3>1. \A i \in 1 .. 1 : Later(a, i - 1) = a BY LaterType
    <3>2. LaterIds(a, 1) = [i \in 1 .. 1 |-> a] BY <3>1 DEF LaterIds
    <3> QED BY <3>2
  <2> QED BY <2>1, <2>2
<1> HIDE DEF first
<1>2. Eq(t)
  <2>1. ASSUME NEW n \in 1..limit
        PROVE  WalkAt(a, k, n) = IF n = 1 THEN first ELSE Follow(t[n - 1])
    <3>1. CASE n = 1 BY <1>1, <3>1
    <3>2. CASE n # 1
      <4>1. n - 1 \in 1..limit /\ n - 1 \in Nat \ {0} /\ (n - 1) + 1 = n BY <3>2
      <4>2. Follow(WalkAt(a, k, n - 1)) = WalkAt(a, k, (n - 1) + 1) BY <4>1, FollowIs
      <4> QED BY <3>2, <4>1, <4>2
    <3> QED BY <3>1, <3>2
  <2> QED BY <2>1
<1>3. Eq(w) BY <1>2
<1> HIDE DEF w, t
<1>4. \A n \in 1..limit : w[n] = IF n = 1 THEN first ELSE Follow(w[n - 1])
  BY <1>3
<1> DEFINE Bad == {n \in 1..limit : w[n] # WalkAt(a, k, n)}
<1>5. Bad = {}
  <2> SUFFICES ASSUME Bad # {} PROVE FALSE OBVIOUS
  <2>1. PICK n \in Bad : \A i \in Bad : n <= i
    <3>1. Bad \in SUBSET Nat OBVIOUS
    <3> HIDE DEF Bad
    <3> QED BY <3>1, LeastOf
  <2>2. n \in 1..limit /\ w[n] # WalkAt(a, k, n) OBVIOUS
  <2>3. n # 1 BY <1>1, <1>4, <2>2
  <2>4. n - 1 \in 1..limit /\ n - 1 \in Nat \ {0} /\ (n - 1) + 1 = n /\ ~ (n <= n - 1)
    BY <2>2, <2>3
  <2>5. w[n - 1] = WalkAt(a, k, n - 1) BY <2>1, <2>4
  <2>6. Follow(WalkAt(a, k, n - 1)) = WalkAt(a, k, (n - 1) + 1) BY <2>4, FollowIs
  <2>7. w[n] = Follow(w[n - 1]) BY <1>4, <2>2, <2>3
  <2> QED BY <2>2, <2>4, <2>5, <2>6, <2>7
<1>6. limit \in 1..limit OBVIOUS
<1>7. w[limit] = WalkAt(a, k, limit) BY <1>5, <1>6
<1>8. Walk(a, limit) = w[limit]
  BY DEF Walk, w, first
<1> QED BY <1>7, <1>8

\* the part of the walk that detect_supersession_cycles reports is everything that
\* can be reached from where it closes
LEMMA CycleFromIs ==
    ASSUME arts \in Seq(ArtifactRow), Referred, NEW a \in DOMAIN arts, NEW k, FirstStop(a, k)
    PROVE  /\ Later(a, k) = None => CycleFrom(a) = {}
           /\ Later(a, k) # None => /\ Turns(Named, Later(a, k))
                                    /\ CycleFrom(a) = Reach(Named, Later(a, k))
<1>0. /\ k \in Nat /\ k # 0 /\ k <= Len(arts)
      /\ \A i \in 0 .. k - 1 : Later(a, i) \in DOMAIN arts /\ Later(a, i) # None
      /\ \A i, j \in 0 .. k - 1 : Later(a, i) = Later(a, j) => i = j
      /\ Later(a, k) = None \/ \E j \in 0 .. k - 1 : Later(a, j) = Later(a, k)
  BY FirstStopHas
<1>1. Len(arts) \in Nat /\ Len(arts) + 1 \in Nat \ {0} /\ ~ (Len(arts) + 1 <= k)
  BY <1>0, NamedPoints
<1> DEFINE ids == LaterIds(a, k)
           entry == arts[ids[Len(ids)]].superseded_by
           S == {i \in DOMAIN ids : \E j \in 1 .. i : ids[j] = entry}
<1>2. Walk(a, Len(arts) + 1).ids = ids
  <2>1. Walk(a, Len(arts) + 1) = WalkAt(a, k, Len(arts) + 1) BY <1>1, WalkIs
  <2> QED BY <2>1, <1>1 DEF WalkAt
<1>3. CycleFrom(a) = {ids[i] : i \in S}
  BY <1>2 DEF CycleFrom
<1>4. /\ Len(ids) = k /\ DOMAIN ids = 1 .. k
      /\ \A i \in 1 .. k : ids[i] = Later(a, i - 1)
  BY <1>0, IdsAre
<1>5. entry = Later(a, k)
  <2>1. k \in 1 .. k /\ k - 1 \in Nat /\ k - 1 \in 0 .. k - 1 /\ (k - 1) + 1 = k
    BY <1>0
  <2>2. ids[Len(ids)] = Later(a, k - 1) BY <1>4, <2>1
  <2>3. Later(a, (k - 1) + 1) = arts[Later(a, k - 1)].superseded_by
    BY <1>0, <2>1, LaterType
  <2> HIDE DEF ids
  <2> QED BY <2>1, <2>2, <2>3
<1> HIDE DEF ids, entry
<1>6. CASE Later(a, k) = None
  <2>1. \A j \in 1 .. k : ids[j] # entry
    <3> SUFFICES ASSUME NEW j \in 1 .. k PROVE ids[j] # entry OBVIOUS
    <3>1. j - 1 \in 0 .. k - 1 BY <1>0
    <3> QED BY <3>1, <1>0, <1>4, <1>5, <1>6
  <2>2. S = {}
    <3> SUFFICES ASSUME NEW i \in S PROVE FALSE OBVIOUS
    <3>1. i \in 1 .. k BY <1>4
    <3>2. PICK j \in 1 .. i : ids[j] = entry OBVIOUS
    <3>3. j \in 1 .. k BY <1>0, <3>1
    <3> QED BY <3>2, <3>3, <2>1
  <2> QED BY <1>3, <1>6, <2>2
<1>7. CASE Later(a, k) # None
  <2>1. PICK j \in 0 .. k - 1 : Later(a, j) = Later(a, k) BY <1>0, <1>7
  <2>2. j \in Nat /\ j < k BY <1>0
  <2>3. /\ Turns(Named, Later(a, j))
        /\ {Later(a, i) : i \in j .. k - 1} = Reach(Named, Later(a, j))
    BY <1>0, <1>7, <2>1, <2>2, Closes DEF Later, None
  <2>4. \A i \in 1 .. k : i \in S <=> i - 1 \in j .. k - 1
    <3> SUFFICES ASSUME NEW i \in 1 .. k PROVE i \in S <=> i - 1 \in j .. k - 1 OBVIOUS
    <3>1. ASSUME i \in S PROVE i - 1 \in j .. k - 1
      <4>1. PICK l \in 1 .. i : ids[l] = entry BY <3>1
      <4>2. l \in 1 .. k /\ l - 1 \in 0 .. k - 1 BY <1>0
      <4>3. Later(a, l - 1) = Later(a, j) BY <1>4, <1>5, <2>1, <4>1, <4>2
      <4>4. l - 1 = j BY <1>0, <4>2, <4>3
      <4> QED BY <4>4, <1>0
    <3>2. ASSUME i - 1 \in j .. k - 1 PROVE i \in S
      <4>1. j + 1 \in 1 .. i /\ j + 1 \in 1 .. k /\ (j + 1) - 1 = j BY <1>0, <3>2, <2>2
      <4>2. ids[j + 1] = entry BY <1>4, <1>5, <2>1, <4>1
      <4> QED BY <1>4, <4>1, <4>2
    <3> QED BY <3>1, <3>2
  <2>5. S \subseteq 1 .. k BY <1>4
  <2> HIDE DEF S
  <2>6. {ids[i] : i \in S} \subseteq {Later(a, i) : i \in j .. k - 1}
    BY <1>4, <2>4, <2>5
  <2>7. {Later(a, i) : i \in j .. k - 1} \subseteq {ids[i] : i \in S}
    <3> SUFFICES ASSUME NEW i \in j .. k - 1 PROVE \E n \in S : Later(a, i) = ids[n] OBVIOUS
    <3>1. i + 1 \in 1 .. k /\ (i + 1) - 1 = i BY <1>0, <2>2
    <3> QED BY <3>1, <1>4, <2>4
  <2> QED BY <1>3, <1>7, <2>1, <2>3, <2>6, <2>7
<1> QED BY <1>6, <1>7

LEMMA InReach == ASSUME NEW R, NEW x PROVE x \in Reach(R, x)
BY NthStep DEF Reach

LEMMA CyclesAre ==
    ASSUME arts \in Seq(ArtifactRow), Referred
    PROVE  DetectSupersessionCycles =
             {Reach(Named, y) : y \in {y \in DOMAIN arts : Turns(Named, y)}}
<1>0. Len(arts) \in Nat /\ DOMAIN arts = 1 .. Len(arts) /\ Pointers(Len(arts), Named)
  BY NamedPoints
<1>1. ASSUME NEW c \in DetectSupersessionCycles
      PROVE  \E y \in DOMAIN arts : Turns(Named, y) /\ c = Reach(Named, y)
  <2>1. PICK a \in DOMAIN arts : c = CycleFrom(a) /\ c # {} BY DEF DetectSupersessionCycles
  <2>2. PICK k : FirstStop(a, k) BY StopExists
  <2>3. k \in Nat BY <2>2, FirstStopHas
  <2>4. Later(a, k) # None BY <2>1, <2>2, CycleFromIs
  <2>5. Later(a, k) \in DOMAIN arts BY <2>3, <2>4, LaterType
  <2> QED BY <2>1, <2>2, <2>4, <2>5, CycleFromIs
<1>2. ASSUME NEW y \in DOMAIN arts, Turns(Named, y)
      PROVE  Reach(Named, y) \in DetectSupersessionCycles
  <2>1. PICK k : FirstStop(y, k) BY StopExists
  <2>2. k \in Nat BY <2>1, FirstStopHas
  <2>3. \A n \in Nat : Later(y, n) # None
    BY <1>0, <1>2, InReach, EndsNowhere DEF Later, None
  <2>4. CycleFrom(y) = Reach(Named, Later(y, k)) BY <2>1, <2>2, <2>3, CycleFromIs
  <2>5. Later(y, k) \in Reach(Named, y) BY <2>2 DEF Reach, Later
  <2>6. CycleFrom(y) = Reach(Named, y) BY <1>0, <1>2, <2>4, <2>5, TurnsBack
  <2>7. Reach(Named, y) # {} BY InReach
  <2>8. arts[y].superseded_by # None
    <3>1. Later(y, 0) = y /\ y # None BY <1>0, LaterType DEF None
    <3>2. Later(y, 0 + 1) = arts[y].superseded_by BY <3>1, LaterType
    <3> QED BY <2>3, <3>2
  <2> QED BY <2>6, <2>7, <2>8 DEF DetectSupersessionCycles
<1> QED BY <1>1, <1>2

LEMMA CyclesAreReported ==
    ASSUME arts \in Seq(ArtifactRow), Referred
    PROVE  /\ UNION DetectSupersessionCycles = OnCycle
           /\ \A x, y \in DetectSupersessionCycles : x = y \/ x \cap y = {}
<1>0. Len(arts) \in Nat /\ DOMAIN arts = 1 .. Len(arts) /\ Pointers(Len(arts), Named)
  BY NamedPoints
<1> DEFINE T == {y \in DOMAIN arts : Turns(Named, y)}
           D == DetectSupersessionCycles
<1>1. D = {Reach(Named, y) : y \in T} BY CyclesAre
<1>2. OnCycle = T BY OnCycleIs
<1>3. ASSUME NEW y \in T, NEW z \in Reach(Named, y)
      PROVE  z \in T /\ Reach(Named, z) = Reach(Named, y)
  <2>1. Turns(Named, z) /\ Reach(Named, z) = Reach(Named, y) BY <1>0, TurnsBack
  <2>2. PICK n \in Nat : z = Later(y, n) BY DEF Reach, Later
  <2>3. z \in DOMAIN arts BY <2>1, <2>2, LaterType DEF Turns, None
  <2> QED BY <2>1, <2>3
<1>4. \A y \in T : y \in Reach(Named, y) BY InReach
<1> HIDE DEF T, D
<1>5. UNION D = T BY <1>1, <1>3, <1>4
<1>6. ASSUME NEW x \in D, NEW y \in D, NEW z \in x \cap y PROVE x = y
  <2>1. PICK v \in T : x = Reach(Named, v) BY <1>1
  <2>2. PICK w \in T : y = Reach(Named, w) BY <1>1
  <2> QED BY <2>1, <2>2, <1>3
<1> QED BY <1>2, <1>5, <1>6 DEF D

LEMMA ChainsAreReported ==
    ASSUME arts \in Seq(ArtifactRow), Referred, SingleWriter => Settled, NEW a \in DOMAIN arts
    PROVE  LET chain == GetSupersessionChain(a)
               last == chain.ids[Len(chain.ids)]
           IN
           /\ IF chain.truncated THEN Len(chain.ids) = ChainLimit /\ ChainLimit <= Len(arts)
              ELSE chain.cycle_detected <=> ({a} \cup Replacements(a)) \cap OnCycle # {}
           /\ SingleWriter /\ arts[a].status = "superseded" =>
                \/ arts[last].status = "active" /\ ~chain.cycle_detected
                \/ \E i \in DOMAIN chain.ids : chain.ids[i] \in DetectPendingReplacements
<1> DEFINE chain == GetSupersessionChain(a)
           last == chain.ids[Len(chain.ids)]
<1>0. Len(arts) \in Nat /\ DOMAIN arts = 1 .. Len(arts) /\ Pointers(Len(arts), Named)
  BY NamedPoints
<1>1. ChainLimit \in Nat \ {0} /\ ChainLimit \in Nat /\ 2 <= ChainLimit
  BY ArtifactAssumption
<1>2. PICK k : FirstStop(a, k) BY StopExists
<1>3. /\ k \in Nat /\ k # 0 /\ k <= Len(arts)
      /\ \A i \in 0 .. k - 1 : Later(a, i) \in DOMAIN arts /\ Later(a, i) # None
      /\ Later(a, k) = None \/ \E j \in 0 .. k - 1 : Later(a, j) = Later(a, k)
  BY <1>2, FirstStopHas
<1> DEFINE w == Walk(a, ChainLimit)
<1>4. w = WalkAt(a, k, ChainLimit) BY <1>1, <1>2, WalkIs
<1>5. /\ chain.ids = w.ids /\ chain.cycle_detected = (w.at = "cycle")
      /\ chain.truncated = (w.at = "open" /\ arts[w.ids[Len(w.ids)]].superseded_by # None)
  BY DEF GetSupersessionChain
<1> HIDE DEF w, chain
\* how many artifacts are listed
<1> DEFINE n == IF ChainLimit <= k THEN ChainLimit ELSE k
<1>6. n \in Nat /\ n # 0 /\ n <= k /\ n <= ChainLimit BY <1>1, <1>3
<1>7. w.ids = LaterIds(a, n) BY <1>4 DEF WalkAt
<1>8. /\ Len(w.ids) = n /\ DOMAIN w.ids = 1 .. n
      /\ \A i \in 1 .. n : w.ids[i] = Later(a, i - 1)
  BY <1>6, <1>7, IdsAre
<1>9. w.ids[Len(w.ids)] = Later(a, n - 1) /\ arts[Later(a, n - 1)].superseded_by = Later(a, n)
  <2> HIDE DEF n
  <2>1. n \in 1 .. n /\ n - 1 \in Nat /\ n - 1 \in 0 .. k - 1 /\ (n - 1) + 1 = n
    BY <1>3, <1>6
  <2>2. Later(a, (n - 1) + 1) = arts[Later(a, n - 1)].superseded_by
    BY <1>3, <2>1, LaterType
  <2> QED BY <1>8, <2>1, <2>2
<1>10. /\ w.at = IF ChainLimit <= k THEN "open" ELSE IF Later(a, k) = None THEN "end" ELSE "cycle"
  BY <1>4 DEF WalkAt
<1>11. ({a} \cup Replacements(a)) \cap OnCycle = {x \in Reach(Named, a) : Turns(Named, x)}
  <2>1. {a} \cup Replacements(a) = Reach(Named, a) \ {None} BY ReplacementsReach
  <2>2. OnCycle = {x \in DOMAIN arts : Turns(Named, x)} BY OnCycleIs
  <2>3. ASSUME NEW x \in Reach(Named, a), x # None PROVE x \in DOMAIN arts
    <3>1. PICK i \in Nat : x = Later(a, i) BY DEF Reach, Later
    <3> QED BY <2>3, <3>1, LaterType
  <2>4. \A x : Turns(Named, x) => x # None BY DEF Turns, None
  <2> QED BY <2>1, <2>2, <2>3, <2>4
<1>12. IF chain.truncated THEN Len(chain.ids) = ChainLimit /\ ChainLimit <= Len(arts)
       ELSE chain.cycle_detected <=> ({a} \cup Replacements(a)) \cap OnCycle # {}
  <2>1. CASE chain.truncated
    <3>1. w.at = "open" BY <1>5, <2>1
    <3>2. ChainLimit <= k BY <1>10, <3>1
    <3>3. Len(chain.ids) = ChainLimit BY <1>5, <1>8, <3>2
    <3>4. ChainLimit <= Len(arts) BY <1>0, <1>1, <1>3, <3>2
    <3> QED BY <2>1, <3>3, <3>4
  <2>2. CASE ~ chain.truncated
    <3>1. CASE w.at = "cycle"
      <4>1. ~ (ChainLimit <= k) /\ Later(a, k) # None BY <1>10, <3>1
      <4>2. Turns(Named, Later(a, k)) BY <1>2, <4>1, CycleFromIs
      <4>3. Later(a, k) \in Reach(Named, a) BY <1>3 DEF Reach, Later
      <4> QED BY <1>5, <1>11, <2>2, <3>1, <4>2, <4>3
    <3>2. CASE w.at # "cycle"
      <4>1. Later(a, n) = None
        <5>1. CASE ChainLimit <= k
          <6>1. w.at = "open" BY <1>10, <5>1
          <6> QED BY <1>5, <1>9, <2>2, <6>1
        <5>2. CASE ~ (ChainLimit <= k)
          <6>1. n = k /\ Later(a, k) = None BY <1>10, <3>2, <5>2
          <6> QED BY <6>1
        <5> QED BY <5>1, <5>2
      <4>2. \A x \in Reach(Named, a) : ~ Turns(Named, x)
        <5> HIDE DEF n
        <5> QED BY <1>0, <1>6, <4>1, EndsNowhere DEF Later, None
      <4> QED BY <1>5, <1>11, <2>2, <3>2, <4>2
    <3> QED BY <3>1, <3>2
  <2> QED BY <2>1, <2>2
<1>14. ASSUME SingleWriter, arts[a].status = "superseded"
       PROVE  \/ arts[last].status = "active" /\ ~chain.cycle_detected
              \/ \E i \in DOMAIN chain.ids : chain.ids[i] \in DetectPendingReplacements
  <2>0. Settled BY <1>14
  <2> DEFINE b == arts[a].superseded_by
  <2>1. b # None BY <1>14, <2>0 DEF Settled
  <2>2. b \in DOMAIN arts BY <2>1 DEF Referred
  <2>3. Later(a, 0) = a /\ Later(a, 1) = b
    <3>1. a # None BY <1>0 DEF None
    <3>2. Later(a, 0) = a /\ Later(a, 0 + 1) = arts[Later(a, 0)].superseded_by
      BY <3>1, LaterType
    <3> QED BY <3>2
  <2>4. CASE arts[b].status # "active"
    <3>1. a \in DetectPendingReplacements
      BY <1>14, <2>1, <2>4 DEF DetectPendingReplacements
    <3>2. 1 \in DOMAIN chain.ids /\ chain.ids[1] = a
      <4>1. 1 \in 1 .. n /\ 1 - 1 = 0 BY <1>6
      <4> HIDE DEF n
      <4> QED BY <1>5, <1>8, <2>3, <4>1
    <3> QED BY <3>1, <3>2
  <2>5. CASE arts[b].status = "active"
    <3>1. arts[b].superseded_by = None BY <2>0, <2>2, <2>5 DEF Settled
    <3>2. Later(a, 2) = None
      <4>1. Later(a, 1 + 1) = arts[Later(a, 1)].superseded_by
        BY <2>1, <2>3, LaterType
      <4> QED BY <2>3, <3>1, <4>1
    <3>3. a # b BY <1>14, <2>5
    <3>4. k # 1
      <4> SUFFICES ASSUME k = 1 PROVE FALSE OBVIOUS
      <4>1. \E j \in 0 .. 0 : Later(a, j) = Later(a, 1) BY <1>3, <2>1, <2>3
      <4> QED BY <4>1, <2>3, <3>3
    <3>5. k = 2
      <4>1. ~ (2 \in 0 .. k - 1) BY <1>3, <3>2
      <4> QED BY <1>3, <3>4, <4>1
    <3>6. n = 2 BY <1>1, <3>5
    <3>7. last = b
      <4>1. n - 1 = 1 BY <3>6
      <4> HIDE DEF n
      <4> QED BY <1>5, <1>9, <2>3, <4>1
    <3>8. w.at # "cycle" BY <1>10, <3>2, <3>5
    <3> QED BY <1>5, <2>5, <3>7, <3>8
  <2> QED BY <2>4, <2>5
<1> QED BY <1>12, <1>14 DEF chain, last

LEMMA SupersessionFollows ==
    ASSUME IInv
    PROVE  SupersessionIsReported
<1>0. arts \in Seq(ArtifactRow) /\ Referred /\ (SingleWriter => Settled)
  BY DEF IInv, Shapes, Tables, Rows, Serial
<1>1. SingleWriter =>
        /\ DetectOrphanSupersessions = {}
        /\ \A a \in DOMAIN arts : arts[a].superseded_by # None => arts[a].status = "superseded"
  BY <1>0 DEF Settled, DetectOrphanSupersessions
<1> QED BY <1>0, <1>1, CyclesAreReported, ChainsAreReported DEF SupersessionIsReported

-----------------------------------------------------------------------------
LEMMA Stuttering ==
    ASSUME IInv, UNCHANGED <<governanceVars, artifactVars, writers, call>>
    PROVE  IInv'
<1> USE DEF governanceVars, artifactVars, IInv
<1>1. Shapes'
  BY DEF Shapes, Tables, Rows, Referred, Placed, Replaces, MemoryId
<1>2. Latest' /\ Approved' /\ Proposed'
  BY DEF Latest, LatestIs, OperatorRevisions, ActiveRevisions, Approved, From, Proposed
<1>3. Chained'
  <2>1. \A i \in DOMAIN confs : StartsFrom(i) => StartsFrom(i)'
    BY DEF StartsFrom, Earlier, OperatorRevisions
  <2>2. ASSUME NEW m
        PROVE  EffectiveConfidence(m)' = EffectiveConfidence(m)
    BY DEF EffectiveConfidence, OperatorRevisions, ActiveRevisions
  <2>3. ASSUME NEW c, call[c].before = EffectiveConfidence(call[c].memory)
        PROVE  (call[c].before = EffectiveConfidence(call[c].memory))'
    BY <2>3 DEF EffectiveConfidence, OperatorRevisions, ActiveRevisions
  <2> QED
    BY <2>1, <2>3 DEF Chained, SingleWriter
<1>4. Pairs' /\ Watched'
  BY DEF Pairs, Watched, Explained
<1>5. Pinned'
  BY DEF Pinned, ByPin
<1>6. Traced'
  <2>1. Seeds' = Seeds
    BY DEF Seeds, MemoryId
  <2>2. ASSUME NEW m
        PROVE  Linked(m)' = Linked(m) /\ Own(m)' = Own(m) /\ Sources(m)' = Sources(m)
    BY DEF Linked, Own, Derived, Sources
  <2>3. ASSUME NEW c \in Callers, call[c].todo \subseteq Sources(call[c].event),
               Sources(call[c].event) \ call[c].todo \subseteq Linked(call[c].event)
        PROVE  (/\ call[c].todo \subseteq Sources(call[c].event)
                /\ Sources(call[c].event) \ call[c].todo \subseteq Linked(call[c].event))'
    BY <2>3 DEF Linked, Derived, Sources
  <2> QED
    BY <2>1, <2>2, <2>3 DEF Traced
<1>7. Reviewed'
  BY DEF Reviewed, Seeds, MemoryId, RevisionsOf, LastRevision
<1>8. Serial'
  <2>1. Ranked => Ranked'
    BY DEF Ranked, ActiveRows
  <2>2. SeededOnce => SeededOnce'
    BY DEF SeededOnce, Seeds, MemoryId
  <2>3. ASSUME NEW c \in writers, ReadStill(call[c])
        PROVE  ReadStill(call[c])'
    BY <2>3 DEF ReadStill, ActiveEmbeddings, EmbeddingsOf, ActiveRows
  <2>4. Settled => Settled'
    BY DEF Settled
  <2> QED
    BY <2>1, <2>2, <2>3, <2>4 DEF Serial, SingleWriter
<1> QED
  BY <1>1, <1>2, <1>3, <1>4, <1>5, <1>6, <1>7, <1>8

(* Every step of a caller keeps the invariant. *)
LEMMA StepHolds ==
    ASSUME IInv, [ArtifactNext]_<<governanceVars, artifactVars, writers, call>>
    PROVE  IInv'
<1>1. ASSUME NEW c \in writers, ArtifactStep(c), UNCHANGED writers
      PROVE  IInv'
  <2> USE DEF IInv
  <2>1. Shapes'
    BY <1>1, ShapesStep
  <2>2. Latest' /\ Approved' /\ Proposed'
    BY <1>1, <2>1, LatestStep, ApprovedStep, ProposedStep
  <2>3. Chained'
    BY <1>1, ChainedStep
  <2>4. Pairs' /\ Watched'
    BY <1>1, PairsStep, WatchedStep
  <2>5. Pinned' /\ Traced' /\ Reviewed'
    BY <1>1, PinnedStep, TracedStep, ReviewedStep
  <2>6. Serial'
    BY <1>1, SerialStep
  <2> QED
    BY <2>1, <2>2, <2>3, <2>4, <2>5, <2>6
<1> QED
  BY <1>1, Stuttering DEF ArtifactNext

(* The invariant holds however the calls on one database are mixed. *)
LEMMA InvariantHolds == ArtifactSpec => []IInv
<1>1. CallersInit /\ GovernanceInit /\ ArtifactsInit => IInv
  BY InitHolds
<1>2. IInv /\ [ArtifactNext]_<<governanceVars, artifactVars, writers, call>> => IInv'
  BY StepHolds
<1> QED
  BY <1>1, <1>2, PTL DEF ArtifactSpec

(* revise_confidence and approve_confidence_revision: one active revision per *)
(* event, approvals that carry their candidate's value, and, for one writer,  *)
(* revisions that start where the one before them ended.                      *)
THEOREM ConfidenceIsChained == ArtifactSpec => []ConfidenceChains
BY InvariantHolds, ChainsFollow, PTL

(* create_contradiction_link, update_status and detect_conflicts: an active  *)
(* contradiction is reported, or a later revision says why it no longer is.  *)
THEOREM ContradictionsShow == ArtifactSpec => []ContradictionsSurface
BY InvariantHolds, SurfaceFollows, PTL

(* promote_embedding and create_pin: a promoted embedding has the model of its *)
(* pin however the calls race, and with one writer the embeddings of an event  *)
(* follow the order of the pins, one of them active.                           *)
THEOREM EmbeddingsComeFromPins == ArtifactSpec => []EmbeddingsFollowPins
BY InvariantHolds, PinsFollow, PTL

(* get_supersession_chain, detect_supersession_cycles and the other supersession *)
(* reports, for any number of artifacts and any depth limit of at least two:     *)
(* every cycle is reported once and whole, every chain that runs into one says   *)
(* so or says that it was cut, and with one writer a superseded artifact has an  *)
(* active replacement or is reported.                                            *)
THEOREM SupersessionsAreReported == ArtifactSpec => []SupersessionIsReported
BY InvariantHolds, SupersessionFollows, PTL

(* seed_memory_from_compression: however seedings, status changes, deaths and   *)
(* the links of operators, derived_from too, are mixed, the links a seeding made *)
(* lead to sources of its artifact, a source is linked when one after it is, all *)
(* sources are linked unless a call for the event runs or died, and the event's  *)
(* status is what its revisions say; with one writer an artifact seeds once.     *)
THEOREM SeedsCanBeTraced == ArtifactSpec => []SeedsAreTraceable
BY InvariantHolds, SeedsFollow, PTL
-----------------------------------------------------------------------------
(* The order of rows and the accounts of a window *)

Key == [1 .. 6 -> Int]

\* Keys are ordered: no key is before itself, the order is transitive, and of two
\* keys that differ one is before the other.
LEMMA KeysAreOrdered ==
    ASSUME NEW k \in Key, NEW l \in Key
    PROVE  /\ ~ Before(k, k)
           /\ \A m \in Key : Before(k, l) /\ Before(l, m) => Before(k, m)
           /\ k # l => Before(k, l) \/ Before(l, k)
<1>0. DOMAIN k = 1 .. 6 /\ DOMAIN l = 1 .. 6 /\ \A i \in 1 .. 6 : k[i] \in Int /\ l[i] \in Int
  BY DEF Key
<1>1. ~ Before(k, k) BY <1>0 DEF Before
<1>2. ASSUME NEW m \in Key, Before(k, l), Before(l, m) PROVE Before(k, m)
  <2>0. DOMAIN m = 1 .. 6 /\ \A i \in 1 .. 6 : m[i] \in Int BY DEF Key
  <2>1. PICK i \in 1 .. 6 : k[i] < l[i] /\ \A j \in 1 .. i - 1 : k[j] = l[j]
    BY <1>2, <1>0 DEF Before
  <2>2. PICK n \in 1 .. 6 : l[n] < m[n] /\ \A j \in 1 .. n - 1 : l[j] = m[j]
    BY <1>2, <1>0 DEF Before
  <2>3. CASE i <= n
    <3>1. k[i] < m[i]
      <4>1. CASE i = n BY <4>1, <2>0, <2>1, <2>2, <1>0
      <4>2. CASE i < n
        <5>1. i \in 1 .. n - 1 BY <4>2
        <5> QED BY <5>1, <2>1, <2>2
      <4> QED BY <4>1, <4>2, <2>3
    <3>2. \A j \in 1 .. i - 1 : k[j] = m[j] BY <2>1, <2>2, <2>3
    <3> QED BY <3>1, <3>2, <1>0 DEF Before
  <2>4. CASE n < i
    <3>1. k[n] < m[n]
      <4>1. n \in 1 .. i - 1 BY <2>4
      <4> QED BY <4>1, <2>1, <2>2
    <3>2. \A j \in 1 .. n - 1 : k[j] = m[j] BY <2>1, <2>2, <2>4
    <3> QED BY <3>1, <3>2, <1>0 DEF Before
  <2> QED BY <2>3, <2>4
<1>3. ASSUME k # l PROVE Before(k, l) \/ Before(l, k)
  <2> DEFINE D == {i \in 1 .. 6 : k[i] # l[i]}
  <2>1. D # {} BY <1>3, <1>0 DEF Key
  <2>2. D \subseteq Nat OBVIOUS
  <2>3. PICK i \in D : \A j \in D : i <= j BY <2>1, <2>2, LeastOf
  <2>4. \A j \in 1 .. i - 1 : k[j] = l[j] /\ l[j] = k[j] BY <2>3
  <2>5. k[i] < l[i] \/ l[i] < k[i] BY <1>0
  <2> QED BY <2>3, <2>4, <2>5, <1>0 DEF Before
<1> QED BY <1>1, <1>2, <1>3

\* The rows that come before r in their order.
Ahead(S, key, r) == {s \in S : Before(key[s], key[r])}

\* `SortedBy' returns every row once: rows have different ranks, and as many ranks
\* as there are rows are taken.
LEMMA SortedOnce ==
    ASSUME NEW S, IsFiniteSet(S), NEW key \in [S -> Key],
           \A r, s \in S : key[r] = key[s] => r = s
    PROVE  LET t == SortedBy(S, key) IN
           /\ t \in Seq(S) /\ Len(t) = Cardinality(S)
           /\ \A i, j \in DOMAIN t : t[i] = t[j] => i = j
<1> DEFINE n == Cardinality(S)
           rank == [r \in S |-> Cardinality(Ahead(S, key, r))]
           t == SortedBy(S, key)
<1>0. n \in Nat BY FS_CardinalityType
<1>1. \A r \in S : IsFiniteSet(Ahead(S, key, r)) /\ Cardinality(Ahead(S, key, r)) \in Nat
  <2> TAKE r \in S
  <2>1. Ahead(S, key, r) \in SUBSET S BY DEF Ahead
  <2> QED BY <2>1, FS_Subset, FS_CardinalityType
<1>2. \A r \in S : Cardinality(Ahead(S, key, r)) \in 0 .. n - 1
  <2> TAKE r \in S
  <2>1. Ahead(S, key, r) \in SUBSET (S \ {r}) BY KeysAreOrdered DEF Ahead
  <2>2. IsFiniteSet(S \ {r}) /\ Cardinality(S \ {r}) = n - 1 BY FS_RemoveElement
  <2>3. Cardinality(Ahead(S, key, r)) <= n - 1 BY <2>1, <2>2, FS_Subset
  <2> QED BY <2>3, <1>1, <1>0
<1>3. ASSUME NEW r \in S, NEW s \in S, Before(key[r], key[s])
      PROVE  rank[r] < rank[s]
  <2>1. Ahead(S, key, r) \in SUBSET Ahead(S, key, s) BY <1>3, KeysAreOrdered DEF Ahead
  <2>2. r \in Ahead(S, key, s) /\ r \notin Ahead(S, key, r)
    BY <1>3, KeysAreOrdered DEF Ahead
  <2>3. /\ Cardinality(Ahead(S, key, r)) <= Cardinality(Ahead(S, key, s))
        /\ Cardinality(Ahead(S, key, r)) # Cardinality(Ahead(S, key, s))
    BY <2>1, <2>2, <1>1, FS_Subset
  <2> QED BY <2>3, <1>1
<1>4. \A r, s \in S : rank[r] = rank[s] => r = s
  <2> SUFFICES ASSUME NEW r \in S, NEW s \in S, r # s PROVE rank[r] # rank[s]
    OBVIOUS
  <2>1. Before(key[r], key[s]) \/ Before(key[s], key[r]) BY KeysAreOrdered
  <2>2. rank[r] < rank[s] \/ rank[s] < rank[r] BY <2>1, <1>3
  <2> QED BY <2>2, <1>1
<1>5. rank \in [S -> 0 .. n - 1] BY <1>2
<1>6. rank \in Injection(S, 0 .. n - 1) BY <1>4, <1>5 DEF Injection, IsInjective
<1>7. IsFiniteSet(0 .. n - 1) /\ Cardinality(0 .. n - 1) = n
  <2>1. 0 \in Int /\ n - 1 \in Int BY <1>0
  <2>2. IsFiniteSet(0 .. n - 1)
        /\ Cardinality(0 .. n - 1) = IF 0 > n - 1 THEN 0 ELSE n - 1 - 0 + 1
    BY <2>1, FS_Interval
  <2> QED BY <2>2, <1>0
<1>8. rank \in Surjection(S, 0 .. n - 1) BY <1>6, <1>7, FS_Injection
<1>9. \A i \in 1 .. n : \E r \in S : rank[r] = i - 1
  <2> HIDE DEF rank, n
  <2>1. \A x \in 0 .. n - 1 : \E r \in S : rank[r] = x BY <1>8 DEF Surjection
  <2>2. \A i \in 1 .. n : i - 1 \in 0 .. n - 1 BY <1>0
  <2> QED BY <2>1, <2>2
<1>10. t = [i \in 1 .. n |-> CHOOSE r \in S : Cardinality(Ahead(S, key, r)) = i - 1]
  BY DEF SortedBy, Ahead
<1>11. \A i \in 1 .. n : t[i] \in S /\ rank[t[i]] = i - 1
  <2> TAKE i \in 1 .. n
  <2>1. PICK r \in S : Cardinality(Ahead(S, key, r)) = i - 1 BY <1>9
  <2>2. t[i] = CHOOSE q \in S : Cardinality(Ahead(S, key, q)) = i - 1 BY <1>10
  <2> HIDE DEF t
  <2>3. t[i] \in S /\ Cardinality(Ahead(S, key, t[i])) = i - 1 BY <2>1, <2>2
  <2> QED BY <2>3
<1>12. DOMAIN t = 1 .. n BY <1>10
<1> HIDE DEF t, rank, n
<1>13. t \in [1 .. n -> S] BY <1>10, <1>11
<1>14. t \in Seq(S) /\ Len(t) = n BY <1>13, <1>0
<1>15. \A i, j \in DOMAIN t : t[i] = t[j] => i = j BY <1>11, <1>12, <1>0
<1> QED BY <1>14, <1>15 DEF t, n

\* f goes on from `zero' step by step.
Steps(N, V, zero, step, f) ==
    /\ f \in [0 .. N -> V] /\ f[0] = zero
    /\ \A n \in 1 .. N : f[n] = step[n][f[n - 1]]

\* A value for every position of 0 .. N is found by going on from one to the next.
LEMMA StepsExist ==
    ASSUME NEW N \in Nat, NEW V, NEW zero \in V, NEW step \in [1 .. N -> [V -> V]]
    PROVE  \E f : Steps(N, V, zero, step, f)
<1> DEFINE Upto(f, k) == f[0] = zero /\ \A n \in 1 .. k : f[n] = step[n][f[n - 1]]
           Bad == {k \in 0 .. N : ~ \E f \in [0 .. N -> V] : Upto(f, k)}
<1>1. Bad = {}
  <2> SUFFICES ASSUME Bad # {} PROVE FALSE OBVIOUS
  <2>1. PICK k \in Bad : \A j \in Bad : k <= j
    <3>1. Bad \subseteq Nat OBVIOUS
    <3> QED BY <3>1, LeastOf
  <2>2. k \in 0 .. N OBVIOUS
  <2>3. k # 0
    <3>1. [n \in 0 .. N |-> zero] \in [0 .. N -> V] OBVIOUS
    <3>2. Upto([n \in 0 .. N |-> zero], 0) OBVIOUS
    <3> QED BY <3>1, <3>2
  <2>4. k - 1 \in 0 .. N /\ k - 1 \notin Bad
    <3>1. k - 1 \in 0 .. N /\ ~ (k <= k - 1) BY <2>2, <2>3
    <3> HIDE DEF Bad
    <3> QED BY <3>1, <2>1
  <2>5. PICK f \in [0 .. N -> V] : Upto(f, k - 1) BY <2>4
  <2> DEFINE g == [f EXCEPT ![k] = step[k][f[k - 1]]]
  <2>6. f[k - 1] \in V /\ step[k][f[k - 1]] \in V BY <2>2, <2>3, <2>4
  <2>7. g \in [0 .. N -> V] BY <2>6
  <2>8. /\ g[k] = step[k][f[k - 1]] /\ \A n \in 0 .. N : n # k => g[n] = f[n]
    BY <2>2
  <2> HIDE DEF g
  <2>9. Upto(g, k)
    <3>1. g[0] = zero BY <2>3, <2>5, <2>8, <2>2
    <3>2. ASSUME NEW n \in 1 .. k PROVE g[n] = step[n][g[n - 1]]
      <4>1. g[n - 1] = f[n - 1] /\ n \in 0 .. N BY <2>2, <2>8
      <4>2. CASE n = k BY <4>1, <4>2, <2>8
      <4>3. CASE n # k
        <5>1. n \in 1 .. k - 1 BY <4>3, <2>2
        <5>2. g[n] = f[n] BY <4>1, <4>3, <2>8
        <5> QED BY <5>1, <5>2, <4>1, <2>5
      <4> QED BY <4>2, <4>3
    <3> QED BY <3>1, <3>2
  <2> QED BY <2>7, <2>9
<1>2. N \in 0 .. N OBVIOUS
<1>3. PICK f \in [0 .. N -> V] : Upto(f, N) BY <1>1, <1>2
<1> QED BY <1>3 DEF Steps

\* Positions that are reached from 0 one by one are all of them.
LEMMA AllReached ==
    ASSUME NEW N \in Nat, NEW G \in SUBSET (0 .. N), 0 \in G,
           \A n \in 1 .. N : n - 1 \in G => n \in G
    PROVE  \A n \in 0 .. N : n \in G
<1> DEFINE Bad == (0 .. N) \ G
<1> SUFFICES ASSUME Bad # {} PROVE FALSE OBVIOUS
<1>1. Bad \subseteq Nat OBVIOUS
<1>2. PICK k \in Bad : \A j \in Bad : k <= j BY <1>1, LeastOf
<1>3. k \in 1 .. N /\ k \notin G
  <2>1. k \in 0 .. N /\ k \notin G OBVIOUS
  <2> QED BY <2>1
<1>4. k - 1 \in 0 .. N /\ ~ (k <= k - 1) BY <1>3
<1>5. k - 1 \in G
  <2> HIDE DEF Bad
  <2>1. k - 1 \notin Bad BY <1>2, <1>4
  <2> QED BY <2>1, <1>4 DEF Bad
<1> QED BY <1>3, <1>5

Sized(items) == Len(items) \in Nat /\ \A n \in 1 .. Len(items) : items[n].size \in Nat

\* The chars of the positions of S up to each position.
Totals(items, S, f) ==
    /\ f \in [0 .. Len(items) -> Nat] /\ f[0] = 0
    /\ \A n \in 1 .. Len(items) : f[n] = f[n - 1] + IF n \in S THEN items[n].size ELSE 0

\* `Spent' is the last of these sums.
LEMMA SpentIsTotal ==
    ASSUME NEW items, Sized(items), NEW S
    PROVE  /\ \E f : Totals(items, S, f)
           /\ \A f : Totals(items, S, f) => Spent(items, S) = f[Len(items)]
<1> DEFINE N == Len(items)
           add == [n \in 1 .. N |-> [v \in Nat |-> v + IF n \in S THEN items[n].size ELSE 0]]
           Good(g) == g = [n \in 0 .. N |-> IF n = 0 THEN 0
                            ELSE g[n - 1] + IF n \in S THEN items[n].size ELSE 0]
           total == CHOOSE g : Good(g)
<1>0. N \in Nat /\ \A n \in 1 .. N : items[n].size \in Nat BY DEF Sized
<1>1. add \in [1 .. N -> [Nat -> Nat]] BY <1>0
<1> HIDE DEF N
<1>2. PICK f : Steps(N, Nat, 0, add, f)
  <2> HIDE DEF add
  <2>1. 0 \in Nat OBVIOUS
  <2> QED BY <1>0, <1>1, <2>1, StepsExist
<1>3. \A n \in 1 .. N : f[n] = f[n - 1] + IF n \in S THEN items[n].size ELSE 0
  <2> TAKE n \in 1 .. N
  <2>1. n \in 1 .. N /\ f[n - 1] \in Nat BY <1>0, <1>2 DEF Steps
  <2> QED BY <2>1, <1>2 DEF Steps
<1>4. Totals(items, S, f) BY <1>2, <1>3 DEF Totals, Steps, N
<1>5. Good(f)
  <2>1. \A n \in 0 .. N : f[n] = IF n = 0 THEN 0
                            ELSE f[n - 1] + IF n \in S THEN items[n].size ELSE 0
    BY <1>2, <1>3, <1>0 DEF Steps
  <2> QED BY <2>1, <1>2 DEF Steps
<1>6. Good(total)
  <2> HIDE DEF Good
  <2> QED BY <1>5
<1>7. Spent(items, S) = total[N] BY DEF Spent, N
<1> HIDE DEF total
<1>8. ASSUME NEW h, Totals(items, S, h) PROVE total[N] = h[N]
  <2> DEFINE G == {n \in 0 .. N : total[n] = h[n]}
  <2>0. h[0] = 0 /\ \A n \in 1 .. N : h[n] = h[n - 1] + IF n \in S THEN items[n].size ELSE 0
    BY <1>8 DEF Totals, N
  <2>1. 0 \in G BY <1>6, <1>0, <2>0
  <2>2. ASSUME NEW n \in 1 .. N, n - 1 \in G PROVE n \in G
    <3>1. total[n] = total[n - 1] + IF n \in S THEN items[n].size ELSE 0 BY <1>6, <1>0
    <3> QED BY <3>1, <2>2, <2>0, <1>0
  <2>3. G \in SUBSET (0 .. N) OBVIOUS
  <2> HIDE DEF G
  <2>4. N \in G
    <3>1. \A n \in 0 .. N : n \in G BY <2>1, <2>2, <2>3, <1>0, AllReached
    <3> QED BY <3>1, <1>0
  <2> QED BY <2>4 DEF G
<1> QED BY <1>4, <1>7, <1>8 DEF N

\* Nothing is spent on no item, and one item more costs its size.
LEMMA SpentAdds ==
    ASSUME NEW items, Sized(items)
    PROVE  /\ Spent(items, {}) = 0
           /\ \A S : Spent(items, S) \in Nat
           /\ \A S : \A n \in 1 .. Len(items) : n \notin S =>
                Spent(items, S \cup {n}) = Spent(items, S) + items[n].size
<1> DEFINE N == Len(items)
<1>0. N \in Nat /\ \A n \in 1 .. N : items[n].size \in Nat BY DEF Sized
<1>1. Spent(items, {}) = 0
  <2>1. Totals(items, {}, [n \in 0 .. N |-> 0]) BY <1>0 DEF Totals
  <2>2. Spent(items, {}) = [n \in 0 .. N |-> 0][N] BY <2>1, SpentIsTotal
  <2> QED BY <2>2, <1>0
<1>2. ASSUME NEW S PROVE Spent(items, S) \in Nat
  <2>1. PICK f : Totals(items, S, f) BY SpentIsTotal
  <2>2. Spent(items, S) = f[N] BY <2>1, SpentIsTotal
  <2> QED BY <2>1, <2>2, <1>0 DEF Totals
<1>3. ASSUME NEW S, NEW n \in 1 .. N, n \notin S
      PROVE  Spent(items, S \cup {n}) = Spent(items, S) + items[n].size
  <2>1. PICK f : Totals(items, S, f) BY SpentIsTotal
  <2>2. Spent(items, S) = f[N] BY <2>1, SpentIsTotal
  <2>3. /\ f \in [0 .. N -> Nat] /\ f[0] = 0
        /\ \A i \in 1 .. N : f[i] = f[i - 1] + IF i \in S THEN items[i].size ELSE 0
    BY <2>1 DEF Totals
  <2> DEFINE g == [i \in 0 .. N |-> IF i < n THEN f[i] ELSE f[i] + items[n].size]
  <2>4. g \in [0 .. N -> Nat] /\ g[0] = 0 BY <2>3, <1>0
  <2>5. ASSUME NEW i \in 1 .. N
        PROVE  g[i] = g[i - 1] + IF i \in S \cup {n} THEN items[i].size ELSE 0
    <3>0. /\ i \in 0 .. N /\ i - 1 \in 0 .. N
          /\ f[i] \in Nat /\ f[i - 1] \in Nat /\ items[i].size \in Nat /\ items[n].size \in Nat
          /\ f[i] = f[i - 1] + IF i \in S THEN items[i].size ELSE 0
      <4>1. i \in 0 .. N /\ i - 1 \in 0 .. N BY <1>0
      <4>2. items[i].size \in Nat /\ items[n].size \in Nat BY <1>0
      <4>3. f[i] \in Nat /\ f[i - 1] \in Nat BY <2>3, <4>1
      <4> QED BY <4>1, <4>2, <4>3, <2>3
    <3>1. g[i] = (IF i < n THEN f[i] ELSE f[i] + items[n].size)
          /\ g[i - 1] = (IF i - 1 < n THEN f[i - 1] ELSE f[i - 1] + items[n].size)
      BY <3>0
    <3> HIDE DEF g
    <3>2. CASE i < n BY <3>0, <3>1, <3>2
    <3>3. CASE i = n BY <3>0, <3>1, <3>3, <1>3
    <3>4. CASE i > n BY <3>0, <3>1, <3>4
    <3> QED BY <3>2, <3>3, <3>4
  <2>6. Totals(items, S \cup {n}, g)
    <3> HIDE DEF g
    <3> QED BY <2>4, <2>5 DEF Totals
  <2>7. Spent(items, S \cup {n}) = g[N]
    <3> HIDE DEF g
    <3> QED BY <2>6, SpentIsTotal
  <2>8. g[N] = f[N] + items[n].size BY <1>0
  <2> QED BY <2>2, <2>7, <2>8
<1> QED BY <1>1, <1>2, <1>3

-----------------------------------------------------------------------------
(* The window *)

Policy == [tagged : BOOLEAN, min : Nat, unresolved : BOOLEAN, investigations : BOOLEAN,
           adaptations : BOOLEAN, expand : BOOLEAN, candidates : Nat, chars : Nat,
           entries : Nat, governanceChars : Nat, investigationChars : Nat, ruleChars : Nat,
           decisionChars : Nat, workflows : Seq(Nat), runtimes : Seq(Nat)]

Used == [chars : Nat, entries : Nat, governance : Nat, rule : Nat, decision : Nat,
         investigation : Nat, kept : SUBSET Nat]

InTier(items, K, t) == {j \in K : items[j].tier = t}
OfType(items, K, type) == {j \in K : items[j].tier = 0 /\ items[j].row.type = type}

\* The counters of the budget are what the kept items say.
Accounts(policy, items, n, u) ==
    /\ u \in Used /\ u.kept \subseteq 1 .. n
    /\ u.chars = Spent(items, u.kept) /\ u.entries = Cardinality(u.kept)
    /\ u.governance = Spent(items, InTier(items, u.kept, 0))
    /\ u.investigation = Spent(items, InTier(items, u.kept, 3))
    /\ SubBudgets(policy) =>
         /\ u.rule = Spent(items, OfType(items, u.kept, "governance_rule"))
         /\ u.decision = Spent(items, OfType(items, u.kept, "architecture_decision"))

\* Tier 0 holds the two governance types.
Items0(items) ==
    /\ Sized(items)
    /\ \A n \in 1 .. Len(items) : items[n].tier = 0 => items[n].row.type \in GovernanceTypes

LEMMA NothingIsAccounted ==
    ASSUME NEW policy, NEW items, Items0(items)
    PROVE  Accounts(policy, items, 0, NothingUsed)
<1>1. Spent(items, {}) = 0 BY SpentAdds DEF Items0
<1>2. /\ NothingUsed \in Used /\ NothingUsed.kept = {} /\ NothingUsed.chars = 0
      /\ NothingUsed.entries = 0 /\ NothingUsed.governance = 0 /\ NothingUsed.rule = 0
      /\ NothingUsed.decision = 0 /\ NothingUsed.investigation = 0
  BY DEF NothingUsed, Used
<1>3. /\ InTier(items, {}, 0) = {} /\ InTier(items, {}, 3) = {}
      /\ OfType(items, {}, "governance_rule") = {}
      /\ OfType(items, {}, "architecture_decision") = {}
  BY DEF InTier, OfType
<1>4. Cardinality({}) = 0 BY FS_EmptySet
<1> QED BY <1>1, <1>2, <1>3, <1>4 DEF Accounts

LEMMA AcceptType ==
    ASSUME NEW policy, NEW item, item.size \in Nat, NEW n \in Nat, NEW u \in Used
    PROVE  Accept(policy, u, item, n) \in Used
<1>0. /\ u.chars \in Nat /\ u.entries \in Nat /\ u.governance \in Nat /\ u.rule \in Nat
      /\ u.decision \in Nat /\ u.investigation \in Nat /\ u.kept \cup {n} \in SUBSET Nat
  BY DEF Used
<1>1. PICK g \in Nat : g = IF item.tier = 0 THEN u.governance + item.size ELSE u.governance
    BY <1>0
<1>2. PICK r \in Nat : r = IF item.tier = 0 /\ SubBudgets(policy)
                                  /\ item.row.type = "governance_rule"
                            THEN u.rule + item.size ELSE u.rule
    BY <1>0
<1>3. PICK d \in Nat : d = IF item.tier = 0 /\ SubBudgets(policy)
                                  /\ item.row.type = "architecture_decision"
                            THEN u.decision + item.size ELSE u.decision
    BY <1>0
<1>4. PICK i \in Nat :
          i = IF item.tier = 3 THEN u.investigation + item.size ELSE u.investigation
    BY <1>0
<1>5. PICK a \in Nat : a = u.chars + item.size BY <1>0
<1>6. PICK b \in Nat : b = u.entries + 1 BY <1>0
<1>7. PICK k \in SUBSET Nat : k = u.kept \cup {n} BY <1>0
<1>8. Accept(policy, u, item, n) =
        [u EXCEPT !.chars = a, !.entries = b, !.kept = k, !.governance = g, !.rule = r,
                  !.decision = d, !.investigation = i]
    BY <1>1, <1>2, <1>3, <1>4, <1>5, <1>6, <1>7 DEF Accept
<1> QED BY <1>8 DEF Used

\* `_accept' charges the item that it keeps to each counter of its own.
LEMMA AcceptAccounts ==
    ASSUME NEW policy, NEW items, Items0(items), NEW n \in 1 .. Len(items), NEW u,
           Accounts(policy, items, n - 1, u)
    PROVE  /\ Accounts(policy, items, n, Accept(policy, u, items[n], n))
           /\ Accept(policy, u, items[n], n).kept = u.kept \cup {n}
<1> DEFINE w == Accept(policy, u, items[n], n)
           size == items[n].size
           K == u.kept
<1>0. /\ u \in Used /\ Len(items) \in Nat /\ size \in Nat /\ K \subseteq 1 .. n - 1
      /\ n \notin K /\ n \in Nat /\ Sized(items)
  BY DEF Accounts, Items0, Sized
<1> HIDE DEF size
<1>1. /\ w \in Used /\ w.kept = K \cup {n} /\ w.chars = u.chars + size
      /\ w.entries = u.entries + 1
      /\ w.governance = u.governance + IF items[n].tier = 0 THEN size ELSE 0
      /\ w.investigation = u.investigation + IF items[n].tier = 3 THEN size ELSE 0
      /\ SubBudgets(policy) =>
           /\ w.rule = u.rule + IF items[n].tier = 0 /\ items[n].row.type = "governance_rule"
                                THEN size ELSE 0
           /\ w.decision = u.decision +
                IF items[n].tier = 0 /\ items[n].row.type = "architecture_decision"
                THEN size ELSE 0
  <2>1. /\ u.chars \in Nat /\ u.entries \in Nat /\ u.governance \in Nat /\ u.rule \in Nat
        /\ u.decision \in Nat /\ u.investigation \in Nat /\ u.kept \in SUBSET Nat
    BY <1>0 DEF Used
  <2>2. /\ w.chars = u.chars + size /\ w.entries = u.entries + 1 /\ w.kept = K \cup {n}
        /\ w.governance = (IF items[n].tier = 0 THEN u.governance + size ELSE u.governance)
        /\ w.investigation =
             (IF items[n].tier = 3 THEN u.investigation + size ELSE u.investigation)
        /\ w.rule = (IF items[n].tier = 0 /\ SubBudgets(policy)
                         /\ items[n].row.type = "governance_rule"
                     THEN u.rule + size ELSE u.rule)
        /\ w.decision = (IF items[n].tier = 0 /\ SubBudgets(policy)
                             /\ items[n].row.type = "architecture_decision"
                         THEN u.decision + size ELSE u.decision)
    BY <1>0 DEF Accept, Used, size
  <2>4. w \in Used BY <1>0, AcceptType DEF size
  <2> HIDE DEF w
  <2> QED BY <2>1, <2>2, <2>4
<1>2. w.kept \subseteq 1 .. n BY <1>0, <1>1
<1> HIDE DEF w
<1>3. w.chars = Spent(items, w.kept) BY <1>0, <1>1, SpentAdds DEF Accounts, size
<1>4. w.entries = Cardinality(w.kept)
  <2>1. IsFiniteSet(K)
    <3>1. n - 1 \in Int /\ 1 \in Int BY <1>0
    <3>2. IsFiniteSet(1 .. n - 1) BY <3>1, FS_Interval
    <3> QED BY <3>2, <1>0, FS_Subset
  <2>2. Cardinality(K \cup {n}) = Cardinality(K) + 1 BY <2>1, <1>0, FS_AddElement
  <2> QED BY <2>2, <1>1 DEF Accounts
<1>5. ASSUME NEW t \in {0, 3}
      PROVE  Spent(items, InTier(items, w.kept, t)) = Spent(items, InTier(items, K, t))
                                               + IF items[n].tier = t THEN size ELSE 0
  <2>1. Spent(items, InTier(items, K, t)) \in Nat BY SpentAdds, <1>0
  <2>2. CASE items[n].tier = t
    <3>1. InTier(items, w.kept, t) = InTier(items, K, t) \cup {n} BY <1>1, <2>2 DEF InTier
    <3>2. n \notin InTier(items, K, t) BY <1>0 DEF InTier
    <3> QED BY <3>1, <3>2, <2>2, SpentAdds, <1>0 DEF size
  <2>3. CASE items[n].tier # t
    <3>1. InTier(items, w.kept, t) = InTier(items, K, t) BY <1>1, <2>3 DEF InTier
    <3> QED BY <3>1, <2>3, <2>1
  <2> QED BY <2>2, <2>3
<1>6. ASSUME NEW type
      PROVE  Spent(items, OfType(items, w.kept, type)) = Spent(items, OfType(items, K, type))
               + IF items[n].tier = 0 /\ items[n].row.type = type THEN size ELSE 0
  <2>1. Spent(items, OfType(items, K, type)) \in Nat BY SpentAdds, <1>0
  <2>2. CASE items[n].tier = 0 /\ items[n].row.type = type
    <3>1. OfType(items, w.kept, type) = OfType(items, K, type) \cup {n}
      BY <1>1, <2>2 DEF OfType
    <3>2. n \notin OfType(items, K, type) BY <1>0 DEF OfType
    <3> QED BY <3>1, <3>2, <2>2, SpentAdds, <1>0 DEF size
  <2>3. CASE ~ (items[n].tier = 0 /\ items[n].row.type = type)
    <3>1. OfType(items, w.kept, type) = OfType(items, K, type) BY <1>1, <2>3 DEF OfType
    <3> QED BY <3>1, <2>3, <2>1
  <2> QED BY <2>2, <2>3
<1>7. /\ w.governance = Spent(items, InTier(items, w.kept, 0))
      /\ w.investigation = Spent(items, InTier(items, w.kept, 3))
  BY <1>1, <1>5 DEF Accounts
<1>8. SubBudgets(policy) =>
        /\ w.rule = Spent(items, OfType(items, w.kept, "governance_rule"))
        /\ w.decision = Spent(items, OfType(items, w.kept, "architecture_decision"))
  <2>1. SUFFICES ASSUME SubBudgets(policy)
                 PROVE  /\ w.rule = Spent(items, OfType(items, w.kept, "governance_rule"))
                        /\ w.decision =
                             Spent(items, OfType(items, w.kept, "architecture_decision"))
    OBVIOUS
  <2>2. /\ u.rule = Spent(items, OfType(items, K, "governance_rule"))
        /\ u.decision = Spent(items, OfType(items, K, "architecture_decision"))
    BY <2>1 DEF Accounts
  <2>3. w.rule = Spent(items, OfType(items, w.kept, "governance_rule"))
    <3>1. Spent(items, OfType(items, w.kept, "governance_rule")) =
            Spent(items, OfType(items, K, "governance_rule"))
              + IF items[n].tier = 0 /\ items[n].row.type = "governance_rule"
                THEN size ELSE 0
      BY <1>6
    <3> QED BY <2>1, <2>2, <1>1, <3>1
  <2>4. w.decision = Spent(items, OfType(items, w.kept, "architecture_decision"))
    <3>1. Spent(items, OfType(items, w.kept, "architecture_decision")) =
            Spent(items, OfType(items, K, "architecture_decision"))
              + IF items[n].tier = 0 /\ items[n].row.type = "architecture_decision"
                THEN size ELSE 0
      BY <1>6
    <3> QED BY <2>1, <2>2, <1>1, <3>1
  <2> QED BY <2>3, <2>4
<1> QED BY <1>1, <1>2, <1>3, <1>4, <1>7, <1>8 DEF Accounts, w

\* What the window spends is what it keeps, and an item is kept exactly when it fits
\* what was kept before it.
LEMMA BudgetIsKept ==
    ASSUME NEW policy, NEW items, Items0(items)
    PROVE  LET u == ApplyBudget(policy, items) IN
           /\ Accounts(policy, items, Len(items), u)
           /\ \A i \in 1 .. Len(items) : \E v :
                /\ Accounts(policy, items, i - 1, v)
                /\ v.kept = u.kept \cap (1 .. i - 1)
                /\ i \in u.kept <=> Fits(policy, v, items[i])
<1> DEFINE N == Len(items)
           take(n, v) == IF Fits(policy, v, items[n]) THEN Accept(policy, v, items[n], n) ELSE v
           step == [n \in 1 .. N |-> [v \in Used |-> take(n, v)]]
           Good(g) == g = [n \in 0 .. N |-> IF n = 0 THEN NothingUsed ELSE take(n, g[n - 1])]
           used == CHOOSE g : Good(g)
<1>0. N \in Nat /\ \A n \in 1 .. N : items[n].size \in Nat BY DEF Items0, Sized
<1>1. \A n \in 1 .. N : \A v \in Used : take(n, v) \in Used
  <2> TAKE n \in 1 .. N
  <2> TAKE v \in Used
  <2>1. n \in Nat BY <1>0
  <2>2. Accept(policy, v, items[n], n) \in Used BY <1>0, <2>1, AcceptType
  <2> QED BY <2>2
<1>2. NothingUsed \in Used BY DEF NothingUsed, Used
<1>a. ApplyBudget(policy, items) = used[N] BY DEF ApplyBudget
<1> HIDE DEF N, take
<1>3. step \in [1 .. N -> [Used -> Used]] BY <1>1
<1>4. PICK f : Steps(N, Used, NothingUsed, step, f)
  <2> HIDE DEF step
  <2> QED BY <1>0, <1>2, <1>3, StepsExist
<1>5. Good(f)
  <2>1. \A n \in 0 .. N : f[n] = IF n = 0 THEN NothingUsed ELSE take(n, f[n - 1])
    <3>1. SUFFICES ASSUME NEW n \in 1 .. N PROVE f[n] = take(n, f[n - 1])
      BY <1>4, <1>0 DEF Steps
    <3>2. f[n - 1] \in Used /\ f[n] = step[n][f[n - 1]] BY <1>4, <1>0 DEF Steps
    <3> QED BY <3>2
  <2> QED BY <2>1, <1>4 DEF Steps
<1>6. Good(used)
  <2> HIDE DEF Good
  <2> QED BY <1>5
<1> HIDE DEF used
<1>7. used[0] = NothingUsed BY <1>6, <1>0
<1>8. \A n \in 1 .. N : used[n] = take(n, used[n - 1]) BY <1>6, <1>0
<1> HIDE DEF Good
<1> DEFINE A == {n \in 0 .. N : Accounts(policy, items, n, used[n])}
<1>9. \A n \in 0 .. N : Accounts(policy, items, n, used[n])
  <2>1. 0 \in A BY <1>0, <1>7, NothingIsAccounted
  <2>2. ASSUME NEW n \in 1 .. N, n - 1 \in A PROVE n \in A
    <3>1. Accounts(policy, items, n - 1, used[n - 1]) /\ n \in 0 .. N BY <2>2
    <3>2. CASE Fits(policy, used[n - 1], items[n])
      <4>1. used[n] = Accept(policy, used[n - 1], items[n], n) BY <1>8, <3>2 DEF take
      <4>2. n \in 1 .. Len(items) BY DEF N
      <4> QED BY <3>1, <4>1, <4>2, AcceptAccounts
    <3>3. CASE ~ Fits(policy, used[n - 1], items[n])
      <4>1. used[n] = used[n - 1] BY <1>8, <3>3 DEF take
      <4>2. 1 .. n - 1 \subseteq 1 .. n OBVIOUS
      <4> QED BY <3>1, <4>1, <4>2 DEF Accounts
    <3> QED BY <3>2, <3>3
  <2>3. A \in SUBSET (0 .. N) OBVIOUS
  <2> HIDE DEF A
  <2>4. \A n \in 0 .. N : n \in A BY <2>1, <2>2, <2>3, <1>0, AllReached
  <2> QED BY <2>4 DEF A
<1>10. ASSUME NEW n \in 1 .. N
       PROVE  used[n].kept = used[n - 1].kept \cup
                IF Fits(policy, used[n - 1], items[n]) THEN {n} ELSE {}
  <2>1. Accounts(policy, items, n - 1, used[n - 1]) BY <1>9, <1>0
  <2>2. CASE Fits(policy, used[n - 1], items[n])
    <3>1. used[n] = Accept(policy, used[n - 1], items[n], n) BY <1>8, <2>2 DEF take
    <3>2. n \in 1 .. Len(items) BY DEF N
    <3>3. PICK v : v = used[n - 1] OBVIOUS
    <3>4. Accept(policy, v, items[n], n).kept = v.kept \cup {n}
      <4>1. Accounts(policy, items, n - 1, v) BY <2>1, <3>3
      <4> QED BY <4>1, <3>2 DEF Accept, Accounts, Used
    <3> QED BY <3>1, <3>3, <3>4, <2>2
  <2>3. CASE ~ Fits(policy, used[n - 1], items[n])
    <3>1. used[n] = used[n - 1] BY <1>8, <2>3 DEF take
    <3> QED BY <3>1, <2>3
  <2> QED BY <2>2, <2>3
<1>11. ASSUME NEW i \in 0 .. N
       PROVE  used[i].kept = used[N].kept \cap (1 .. i)
  <2> DEFINE G == {n \in 0 .. N : n >= i => used[i].kept = used[n].kept \cap (1 .. i)}
  <2>1. used[i].kept \subseteq 1 .. i BY <1>9 DEF Accounts
  <2>2. 0 \in G
    <3>1. i <= 0 => i = 0 OBVIOUS
    <3> QED BY <3>1, <2>1, <1>0
  <2>3. ASSUME NEW n \in 1 .. N, n - 1 \in G PROVE n \in G
    <3>1. CASE n = i BY <3>1, <2>1, <1>0
    <3>2. CASE n < i BY <3>2, <1>0
    <3>3. CASE n > i
      <4>1. used[i].kept = used[n - 1].kept \cap (1 .. i) BY <2>3, <3>3, <1>0
      <4>2. n \notin 1 .. i BY <3>3
      <4>3. used[n].kept \cap (1 .. i) = used[n - 1].kept \cap (1 .. i) BY <4>2, <1>10
      <4> QED BY <4>1, <4>3, <1>0
    <3> QED BY <3>1, <3>2, <3>3
  <2>4. G \in SUBSET (0 .. N) OBVIOUS
  <2> HIDE DEF G
  <2>5. N \in G
    <3>1. \A n \in 0 .. N : n \in G BY <2>2, <2>3, <2>4, <1>0, AllReached
    <3> QED BY <3>1, <1>0
  <2> QED BY <2>5, <1>0 DEF G
<1>12. ASSUME NEW i \in 1 .. N
       PROVE  /\ Accounts(policy, items, i - 1, used[i - 1])
              /\ used[i - 1].kept = used[N].kept \cap (1 .. i - 1)
              /\ i \in used[N].kept <=> Fits(policy, used[i - 1], items[i])
  <2>1. i - 1 \in 0 .. N /\ i \in 0 .. N /\ i \in 1 .. i /\ i \notin 1 .. i - 1 BY <1>0
  <2>2. Accounts(policy, items, i - 1, used[i - 1]) BY <2>1, <1>9
  <2>3. used[i - 1].kept = used[N].kept \cap (1 .. i - 1) BY <2>1, <1>11
  <2>4. used[i].kept = used[N].kept \cap (1 .. i) BY <2>1, <1>11
  <2>5. i \in used[N].kept <=> i \in used[i].kept BY <2>4, <2>1
  <2>6. i \notin used[i - 1].kept BY <2>3, <2>1
  <2>7. i \in used[i].kept <=> Fits(policy, used[i - 1], items[i]) BY <2>6, <1>10
  <2> QED BY <2>2, <2>3, <2>5, <2>7
<1>13. Accounts(policy, items, N, used[N]) BY <1>9, <1>0
<1> QED BY <1>a, <1>12, <1>13 DEF N

RowSet == [id : Nat, type : EventTypes, status : MemoryStatus, confidence : 1 .. 5, size : Nat,
           expanded : BOOLEAN, recency : Nat, overlap : {0, 1}]

ItemSet == [tier : {0, 1, 3, 4}, row : RowSet, size : Nat] \cup [tier : {2, 5}, size : Nat]

\* One row per event; what was rejected came in over a link or as an adaptation.
GoodRows(rows) ==
    /\ rows \subseteq RowSet /\ IsFiniteSet(rows)
    /\ \A r, s \in rows : r.id = s.id => r = s
    /\ \A r \in rows : r.status \in Excluded => r.expanded \/ r.type = "adaptation"

\* Items of the tiers lo .. hi, in order, each row in its section and once in a tier.
Tiered(rows, s, lo, hi) ==
    /\ s \in Seq(ItemSet)
    /\ \A i \in 1 .. Len(s) : lo <= s[i].tier /\ s[i].tier <= hi
    /\ \A i, j \in 1 .. Len(s) : i < j => s[i].tier <= s[j].tier
    /\ \A i \in 1 .. Len(s) : s[i].tier \notin {2, 5} =>
         s[i].row \in rows /\ InSection(s[i].tier, s[i].row)
    /\ \A i, j \in 1 .. Len(s) :
         i # j /\ s[i].tier = s[j].tier /\ s[i].tier \notin {2, 5} => s[i].row # s[j].row

LEMMA KeyOfRow ==
    ASSUME NEW policy \in Policy, NEW r \in RowSet
    PROVE  ActivationKey(policy, r) \in Key /\ ActivationKey(policy, r)[6] = r.id
<1>1. Doctrine(r.type) \in Int BY DEF Doctrine
<1>2. /\ 5 - r.confidence \in Int /\ r.recency \in Int /\ 1 - r.overlap \in Int /\ r.id \in Int
  BY DEF RowSet
<1>3. \A b : Flag(b) \in Int BY DEF Flag
<1>4. PICK t \in Int : t = CASE r.type \in GovernanceTypes -> 0
                  [] policy.unresolved /\ r.status \in Unresolved
                       /\ r.type \notin GovernanceTypes -> 1
                  [] OTHER -> 2 + Flag(r.expanded)
  <2>1. CASE r.type \in GovernanceTypes BY <2>1
  <2>2. CASE r.type \notin GovernanceTypes /\ policy.unresolved /\ r.status \in Unresolved
    BY <2>2
  <2>3. CASE r.type \notin GovernanceTypes /\ ~ (policy.unresolved /\ r.status \in Unresolved)
    <3>1. 2 + Flag(r.expanded) \in Int BY <1>3
    <3> QED BY <2>3, <3>1
  <2> QED BY <2>1, <2>2, <2>3
<1>5. ActivationKey(policy, r) = <<t, Doctrine(r.type), 5 - r.confidence, r.recency,
                                    1 - r.overlap, r.id>>
  BY <1>4 DEF ActivationKey
<1> QED BY <1>1, <1>2, <1>5 DEF Key

Section(policy, rows, tier) ==
    LET chosen == Activated(policy, {r \in rows : InSection(tier, r)})
    IN [i \in DOMAIN chosen |-> [tier |-> tier, row |-> chosen[i], size |-> chosen[i].size]]

Others(tier, sizes) == [i \in DOMAIN sizes |-> [tier |-> tier, size |-> sizes[i]]]

LEMMA SectionIsTiered ==
    ASSUME NEW policy \in Policy, NEW rows, GoodRows(rows), NEW tier \in {0, 1, 3, 4}
    PROVE  Tiered(rows, Section(policy, rows, tier), tier, tier)
<1> DEFINE S == {r \in rows : InSection(tier, r)}
           key == [r \in S |-> ActivationKey(policy, r)]
           chosen == Activated(policy, S)
           s == Section(policy, rows, tier)
<1>1. IsFiniteSet(S) /\ S \subseteq RowSet /\ \A r, q \in S : r.id = q.id => r = q
  <2>1. S \in SUBSET rows OBVIOUS
  <2> QED BY <2>1, FS_Subset DEF GoodRows
<1>2. \A r \in S : r \in rows /\ InSection(tier, r) OBVIOUS
<1>a. chosen = SortedBy(S, key) BY DEF Activated
<1>b. s = [i \in DOMAIN chosen |-> [tier |-> tier, row |-> chosen[i], size |-> chosen[i].size]]
  BY DEF Section
<1> HIDE DEF S, chosen, s
<1>3. key \in [S -> Key] /\ \A r \in S : key[r][6] = r.id BY <1>1, KeyOfRow
<1> HIDE DEF key
<1>4. \A r, q \in S : key[r] = key[q] => r = q BY <1>1, <1>3
<1>5. /\ chosen \in Seq(S)
      /\ \A i, j \in DOMAIN chosen : chosen[i] = chosen[j] => i = j
  BY <1>1, <1>3, <1>4, <1>a, SortedOnce
<1>6. Len(chosen) \in Nat /\ DOMAIN chosen = 1 .. Len(chosen) BY <1>5
<1>7. \A i \in 1 .. Len(chosen) : chosen[i] \in S BY <1>5
<1>8. \A i \in 1 .. Len(chosen) : /\ s[i] = [tier |-> tier, row |-> chosen[i], size |-> chosen[i].size]
                                  /\ s[i] \in ItemSet
  <2> TAKE i \in 1 .. Len(chosen)
  <2>1. s[i] = [tier |-> tier, row |-> chosen[i], size |-> chosen[i].size] BY <1>b, <1>6
  <2>2. chosen[i] \in RowSet BY <1>7, <1>1
  <2>3. chosen[i].size \in Nat BY <2>2 DEF RowSet
  <2> QED BY <2>1, <2>2, <2>3 DEF ItemSet
<1>9. s \in Seq(ItemSet) /\ Len(s) = Len(chosen) BY <1>b, <1>6, <1>8
<1>10. \A i \in 1 .. Len(s) : /\ s[i].tier = tier /\ s[i].row = chosen[i]
                              /\ s[i].row \in rows /\ InSection(tier, s[i].row)
  <2> TAKE i \in 1 .. Len(s)
  <2>1. i \in 1 .. Len(chosen) BY <1>9
  <2>2. s[i] = [tier |-> tier, row |-> chosen[i], size |-> chosen[i].size] BY <1>8, <2>1
  <2>3. s[i].tier = tier /\ s[i].row = chosen[i] BY ONLY <2>2
  <2>4. chosen[i] \in rows /\ InSection(tier, chosen[i]) BY <2>1, <1>7, <1>2
  <2> QED BY <2>3, <2>4
<1>11. \A i, j \in 1 .. Len(s) : i # j => s[i].row # s[j].row BY <1>5, <1>6, <1>9, <1>10
<1>12. tier <= tier OBVIOUS
<1> QED BY <1>9, <1>10, <1>11, <1>12 DEF Tiered, s

LEMMA OthersAreTiered ==
    ASSUME NEW rows, NEW tier \in {2, 5}, NEW sizes \in Seq(Nat)
    PROVE  Tiered(rows, Others(tier, sizes), tier, tier)
<1> DEFINE s == Others(tier, sizes)
<1>1. s = [i \in DOMAIN sizes |-> [tier |-> tier, size |-> sizes[i]]] BY DEF Others
<1>2. Len(sizes) \in Nat /\ DOMAIN sizes = 1 .. Len(sizes)
      /\ \A i \in 1 .. Len(sizes) : sizes[i] \in Nat
  OBVIOUS
<1> HIDE DEF s
<1>3. \A i \in 1 .. Len(sizes) : s[i] = [tier |-> tier, size |-> sizes[i]] /\ s[i] \in ItemSet
  BY <1>1, <1>2 DEF ItemSet
<1>4. s \in Seq(ItemSet) /\ Len(s) = Len(sizes) BY <1>1, <1>2, <1>3
<1>5. \A i \in 1 .. Len(s) : s[i].tier = tier
  <2> TAKE i \in 1 .. Len(s)
  <2>1. s[i] = [tier |-> tier, size |-> sizes[i]] BY <1>3, <1>4
  <2> QED BY ONLY <2>1
<1> QED BY <1>4, <1>5 DEF Tiered, s

LEMMA TiersFollow ==
    ASSUME NEW rows, NEW s, NEW t, NEW a \in Nat, NEW b \in Nat, NEW c \in Nat, NEW d \in Nat,
           Tiered(rows, s, a, b), Tiered(rows, t, c, d), a <= b, b < c, c <= d
    PROVE  Tiered(rows, s \o t, a, d)
<1> DEFINE u == s \o t
           n == Len(s)
<1>1. s \in Seq(ItemSet) /\ t \in Seq(ItemSet) BY DEF Tiered
<1>2. n \in Nat /\ Len(t) \in Nat /\ Len(u) = n + Len(t) /\ u \in Seq(ItemSet) BY <1>1
<1>3. /\ \A i \in 1 .. n : u[i] = s[i]
      /\ \A i \in 1 .. Len(u) : i > n => i - n \in 1 .. Len(t) /\ u[i] = t[i - n]
  BY <1>1
<1> HIDE DEF u, n
<1>4. \A i \in 1 .. n : u[i].tier \in Nat /\ a <= u[i].tier /\ u[i].tier <= b
  <2> TAKE i \in 1 .. n
  <2>1. s[i] \in ItemSet BY <1>1 DEF n
  <2>2. s[i].tier \in Nat BY <2>1 DEF ItemSet
  <2> QED BY <2>2, <1>3 DEF Tiered, n
<1>5. \A i \in 1 .. Len(u) : i > n => u[i].tier \in Nat /\ c <= u[i].tier /\ u[i].tier <= d
  <2> SUFFICES ASSUME NEW i \in 1 .. Len(u), i > n
               PROVE  u[i].tier \in Nat /\ c <= u[i].tier /\ u[i].tier <= d
    OBVIOUS
  <2>1. i - n \in 1 .. Len(t) /\ u[i] = t[i - n] BY <1>3
  <2>2. t[i - n] \in ItemSet BY <1>1, <2>1
  <2>3. t[i - n].tier \in Nat BY <2>2 DEF ItemSet
  <2> QED BY <2>1, <2>3 DEF Tiered
<1>6. \A i \in 1 .. Len(u) : i <= n \/ i > n BY <1>2
<1>7. \A i \in 1 .. Len(u) : i <= n => i \in 1 .. n BY <1>2
<1>8. \A i \in 1 .. Len(u) : u[i].tier \in Nat /\ a <= u[i].tier /\ u[i].tier <= d
  BY <1>4, <1>5, <1>6, <1>7
<1>9. ASSUME NEW i \in 1 .. Len(u), NEW j \in 1 .. Len(u), i < j
      PROVE  u[i].tier <= u[j].tier
  <2>1. CASE j <= n
    <3>1. i \in 1 .. n /\ j \in 1 .. n BY <2>1, <1>9, <1>2
    <3> QED BY <3>1, <1>3, <1>9 DEF Tiered, n
  <2>2. CASE i <= n /\ j > n BY <2>2, <1>4, <1>5, <1>7
  <2>3. CASE i > n
    <3>1. j > n /\ i - n < j - n BY <2>3, <1>9, <1>2
    <3> QED BY <3>1, <2>3, <1>3 DEF Tiered
  <2> QED BY <2>1, <2>2, <2>3, <1>6, <1>2
<1>10. \A i \in 1 .. Len(u) : u[i].tier \notin {2, 5} =>
         u[i].row \in rows /\ InSection(u[i].tier, u[i].row)
  <2> TAKE i \in 1 .. Len(u)
  <2>1. CASE i <= n
    <3>1. i \in 1 .. Len(s) /\ u[i] = s[i] BY <2>1, <1>7, <1>3 DEF n
    <3> QED BY <3>1 DEF Tiered
  <2>2. CASE i > n
    <3>1. i - n \in 1 .. Len(t) /\ u[i] = t[i - n] BY <2>2, <1>3
    <3> QED BY <3>1 DEF Tiered
  <2> QED BY <2>1, <2>2, <1>6
<1>11. ASSUME NEW i \in 1 .. Len(u), NEW j \in 1 .. Len(u),
              i # j, u[i].tier = u[j].tier, u[i].tier \notin {2, 5}
       PROVE  u[i].row # u[j].row
  <2>1. CASE i <= n /\ j <= n
    <3>1. i \in 1 .. Len(s) /\ j \in 1 .. Len(s) /\ u[i] = s[i] /\ u[j] = s[j]
      BY <2>1, <1>7, <1>3 DEF n
    <3> QED BY <3>1, <1>11 DEF Tiered
  <2>2. CASE i > n /\ j > n
    <3>1. /\ i - n \in 1 .. Len(t) /\ u[i] = t[i - n]
          /\ j - n \in 1 .. Len(t) /\ u[j] = t[j - n] /\ i - n # j - n
      BY <2>2, <1>3, <1>11, <1>2
    <3> QED BY <3>1, <1>11 DEF Tiered
  <2>3. CASE i <= n /\ j > n BY <2>3, <1>4, <1>5, <1>7, <1>11
  <2>4. CASE i > n /\ j <= n BY <2>4, <1>4, <1>5, <1>7, <1>11
  <2> QED BY <2>1, <2>2, <2>3, <2>4, <1>6
<1> QED BY <1>2, <1>8, <1>9, <1>10, <1>11 DEF Tiered, u

\* The candidates of a window go tier by tier.
LEMMA ItemsAreTiered ==
    ASSUME NEW policy \in Policy, NEW rows, GoodRows(rows)
    PROVE  Tiered(rows, Items(policy, rows), 0, 5)
<1> DEFINE S(t) == Section(policy, rows, t)
<1>1. policy.workflows \in Seq(Nat) /\ policy.runtimes \in Seq(Nat) BY DEF Policy
<1>2. Items(policy, rows) = S(0) \o S(1) \o Others(2, policy.workflows) \o S(3)
                              \o S(4) \o Others(5, policy.runtimes)
  BY DEF Items, Section, Others
<1>3. Tiered(rows, S(0), 0, 0) /\ Tiered(rows, S(1), 1, 1) /\ Tiered(rows, S(3), 3, 3)
      /\ Tiered(rows, S(4), 4, 4)
  BY SectionIsTiered
<1>4. Tiered(rows, Others(2, policy.workflows), 2, 2)
      /\ Tiered(rows, Others(5, policy.runtimes), 5, 5)
  BY <1>1, OthersAreTiered
<1> HIDE DEF S
<1>5. Tiered(rows, S(0) \o S(1), 0, 1) BY <1>3, TiersFollow
<1>6. Tiered(rows, S(0) \o S(1) \o Others(2, policy.workflows), 0, 2)
  BY <1>5, <1>4, TiersFollow
<1>7. Tiered(rows, S(0) \o S(1) \o Others(2, policy.workflows) \o S(3), 0, 3)
  BY <1>6, <1>3, TiersFollow
<1>8. Tiered(rows, S(0) \o S(1) \o Others(2, policy.workflows) \o S(3) \o S(4), 0, 4)
  BY <1>7, <1>3, TiersFollow
<1>9. Tiered(rows, S(0) \o S(1) \o Others(2, policy.workflows) \o S(3) \o S(4)
                     \o Others(5, policy.runtimes), 0, 5)
  BY <1>8, <1>4, TiersFollow
<1> QED BY <1>2, <1>9

\* What ContextIsBounded says of a context.
Bounded(items, policy, kept, chars) ==
    LET before(i) == kept \cap 1..i - 1
        sameTier(i) == {j \in before(i) : items[j].tier = items[i].tier}
        sameType(i) == {j \in sameTier(i) : items[j].row.type = items[i].row.type}
        within(cap, S, i) == Spent(items, S) + items[i].size <= cap
    IN
    /\ chars = Spent(items, kept)
    /\ \A i \in DOMAIN items : i \in kept <=>
         /\ within(policy.chars, before(i), i)
         /\ Cardinality(before(i)) < policy.entries
         /\ items[i].tier = 3 /\ policy.investigationChars > 0 =>
              within(policy.investigationChars, sameTier(i), i)
         /\ items[i].tier = 0 =>
              IF policy.ruleChars > 0 /\ policy.decisionChars > 0
              THEN within(IF items[i].row.type = "governance_rule" THEN policy.ruleChars
                          ELSE policy.decisionChars, sameType(i), i)
              ELSE policy.governanceChars > 0 =>
                     within(policy.governanceChars, sameTier(i), i)
    /\ \A i, j \in DOMAIN items :
         /\ i < j => items[i].tier <= items[j].tier
         /\ i # j /\ {items[i].tier, items[j].tier} \cap {2, 5} = {}
              /\ items[i].row.id = items[j].row.id =>
              items[i].row.type \in GovernanceTypes /\ items[i].row.status \in Unresolved
    /\ \A i \in DOMAIN items : items[i].tier \notin {2, 5}
         /\ items[i].row.status \in Excluded => items[i].tier = 3 /\ items[i].row.expanded

LEMMA BoundedIsContext == ContextIsBounded <=> (context # NoContext =>
    Bounded(context.items, context.policy, context.kept, context.chars))
BY DEF ContextIsBounded, Bounded

\* The budget takes an item exactly when the accounts of what it kept have room.
LEMMA FitsIsRoom ==
    ASSUME NEW policy, NEW items, Items0(items), NEW i \in 1 .. Len(items), NEW v,
           Accounts(policy, items, i - 1, v)
    PROVE  LET sameTier == {j \in v.kept : items[j].tier = items[i].tier}
               sameType == {j \in sameTier : items[j].row.type = items[i].row.type}
               within(cap, S) == Spent(items, S) + items[i].size <= cap
           IN Fits(policy, v, items[i]) <=>
                /\ within(policy.chars, v.kept)
                /\ Cardinality(v.kept) < policy.entries
                /\ items[i].tier = 3 /\ policy.investigationChars > 0 =>
                     within(policy.investigationChars, sameTier)
                /\ items[i].tier = 0 =>
                     IF policy.ruleChars > 0 /\ policy.decisionChars > 0
                     THEN within(IF items[i].row.type = "governance_rule"
                                 THEN policy.ruleChars ELSE policy.decisionChars, sameType)
                     ELSE policy.governanceChars > 0 =>
                            within(policy.governanceChars, sameTier)
<1> DEFINE sameTier == {j \in v.kept : items[j].tier = items[i].tier}
           sameType == {j \in sameTier : items[j].row.type = items[i].row.type}
<1>1. /\ v.chars = Spent(items, v.kept) /\ v.entries = Cardinality(v.kept)
      /\ v.governance = Spent(items, InTier(items, v.kept, 0))
      /\ v.investigation = Spent(items, InTier(items, v.kept, 3))
  BY DEF Accounts
<1>2. SubBudgets(policy) =>
         /\ v.rule = Spent(items, OfType(items, v.kept, "governance_rule"))
         /\ v.decision = Spent(items, OfType(items, v.kept, "architecture_decision"))
  BY DEF Accounts
<1>3. \A t : items[i].tier = t => sameTier = InTier(items, v.kept, t) BY DEF InTier
<1>4. \A t : items[i].tier = 0 /\ items[i].row.type = t => sameType = OfType(items, v.kept, t)
  BY DEF OfType
<1>5. items[i].tier = 0 =>
        items[i].row.type = "governance_rule" \/ items[i].row.type = "architecture_decision"
  BY DEF Items0, GovernanceTypes
<1> HIDE DEF sameTier, sameType
<1>6. CASE items[i].tier = 0
  <2>1. v.governance = Spent(items, sameTier) BY <1>1, <1>3, <1>6
  <2>2. SubBudgets(policy) /\ items[i].row.type = "governance_rule" =>
          v.rule = Spent(items, sameType)
    BY <1>2, <1>4, <1>6
  <2>3. SubBudgets(policy) /\ items[i].row.type # "governance_rule" =>
          v.decision = Spent(items, sameType)
    BY <1>2, <1>4, <1>5, <1>6
  <2>4. items[i].tier # 3 BY <1>6
  <2> QED BY <2>1, <2>2, <2>3, <2>4, <1>1, <1>6 DEF Fits, SubBudgets, sameTier, sameType
<1>7. CASE items[i].tier = 3
  <2>1. v.investigation = Spent(items, sameTier) BY <1>1, <1>3, <1>7
  <2>2. items[i].tier # 0 BY <1>7
  <2> QED BY <2>1, <2>2, <1>1, <1>7 DEF Fits, sameTier, sameType
<1>8. CASE items[i].tier # 0 /\ items[i].tier # 3
  BY <1>1, <1>8 DEF Fits, sameTier, sameType
<1> QED BY <1>6, <1>7, <1>8

LEMMA ItemsAreSized ==
    ASSUME NEW policy \in Policy, NEW got, GoodRows(got)
    PROVE  Items0(Items(policy, got))
<1> DEFINE items == Items(policy, got)
<1>2. Tiered(got, items, 0, 5) BY ItemsAreTiered
<1> HIDE DEF items
<1>3. /\ items \in Seq(ItemSet) /\ Len(items) \in Nat /\ DOMAIN items = 1 .. Len(items)
      /\ \A i \in 1 .. Len(items) : items[i] \in ItemSet
  BY <1>2 DEF Tiered
<1>4. \A i \in 1 .. Len(items) : /\ items[i].tier \in Nat /\ items[i].size \in Nat
                                 /\ items[i].tier \notin {2, 5} => items[i].tier \in {0, 1, 3, 4}
  BY <1>3 DEF ItemSet
<1>5. Items0(items)
  <2>1. ASSUME NEW i \in 1 .. Len(items), items[i].tier = 0
        PROVE  items[i].row.type \in GovernanceTypes
    <3>1. InSection(0, items[i].row) BY <2>1, <1>2 DEF Tiered
    <3> QED BY <3>1 DEF InSection
  <2> QED BY <2>1, <1>3, <1>4 DEF Items0, Sized
<1> QED BY <1>5 DEF items

LEMMA WindowIsBounded ==
    ASSUME NEW policy \in Policy, NEW got, GoodRows(got), NEW since
    PROVE  LET x == ContextOf(policy, got, since)
           IN Bounded(x.items, x.policy, x.kept, x.chars)
<1> DEFINE items == Items(policy, got)
           u == ApplyBudget(policy, items)
           x == ContextOf(policy, got, since)
<1>1. x.items = items /\ x.policy = policy /\ x.kept = u.kept /\ x.chars = u.chars
  BY DEF ContextOf
<1>2. Tiered(got, items, 0, 5) BY ItemsAreTiered
<1> HIDE DEF items
<1>3. /\ items \in Seq(ItemSet) /\ Len(items) \in Nat /\ DOMAIN items = 1 .. Len(items)
      /\ \A i \in 1 .. Len(items) : items[i] \in ItemSet
  BY <1>2 DEF Tiered
<1>4. \A i \in 1 .. Len(items) : /\ items[i].tier \in Nat /\ items[i].size \in Nat
                                 /\ items[i].tier \notin {2, 5} => items[i].tier \in {0, 1, 3, 4}
  BY <1>3 DEF ItemSet
<1>5. Items0(items) BY ItemsAreSized DEF items
<1>6. /\ Accounts(policy, items, Len(items), u)
      /\ \A i \in 1 .. Len(items) : \E v :
           /\ Accounts(policy, items, i - 1, v)
           /\ v.kept = u.kept \cap (1 .. i - 1)
           /\ i \in u.kept <=> Fits(policy, v, items[i])
  BY <1>5, BudgetIsKept
<1> HIDE DEF u, x
<1> DEFINE before(i) == u.kept \cap 1..i - 1
           sameTier(i) == {j \in before(i) : items[j].tier = items[i].tier}
           sameType(i) == {j \in sameTier(i) : items[j].row.type = items[i].row.type}
           within(cap, S, i) == Spent(items, S) + items[i].size <= cap
<1>7. u.chars = Spent(items, u.kept) BY <1>6 DEF Accounts
<1>8. ASSUME NEW i \in 1 .. Len(items)
      PROVE  i \in u.kept <=>
         /\ within(policy.chars, before(i), i)
         /\ Cardinality(before(i)) < policy.entries
         /\ items[i].tier = 3 /\ policy.investigationChars > 0 =>
              within(policy.investigationChars, sameTier(i), i)
         /\ items[i].tier = 0 =>
              IF policy.ruleChars > 0 /\ policy.decisionChars > 0
              THEN within(IF items[i].row.type = "governance_rule" THEN policy.ruleChars
                          ELSE policy.decisionChars, sameType(i), i)
              ELSE policy.governanceChars > 0 =>
                     within(policy.governanceChars, sameTier(i), i)
  <2>1. PICK v : /\ Accounts(policy, items, i - 1, v)
                 /\ v.kept = u.kept \cap (1 .. i - 1)
                 /\ i \in u.kept <=> Fits(policy, v, items[i])
    BY <1>6
  <2>2. v.kept = before(i) BY <2>1
  <2> HIDE DEF before
  <2> QED BY <2>1, <2>2, <1>5, FitsIsRoom
<1>9. ASSUME NEW i \in 1 .. Len(items), items[i].tier \notin {2, 5}
      PROVE  /\ items[i].row \in got /\ items[i].row.type \in EventTypes
             /\ InSection(items[i].tier, items[i].row) /\ items[i].tier \in {0, 1, 3, 4}
  <2>1. items[i].row \in got /\ InSection(items[i].tier, items[i].row)
    BY <1>2, <1>9 DEF Tiered
  <2> QED BY <2>1, <1>4, <1>9 DEF GoodRows, RowSet
<1>10. ASSUME NEW i \in 1 .. Len(items), NEW j \in 1 .. Len(items), i # j,
              items[i].tier \notin {2, 5}, items[j].tier \notin {2, 5},
              items[i].row.id = items[j].row.id
       PROVE  items[i].row.type \in GovernanceTypes /\ items[i].row.status \in Unresolved
  <2>1. PICK r : r = items[i].row OBVIOUS
  <2>2. items[j].row = r BY <1>9, <1>10, <2>1 DEF GoodRows
  <2>3. items[i].tier # items[j].tier BY <2>1, <2>2, <1>2, <1>10 DEF Tiered
  <2>4. /\ InSection(items[i].tier, r) /\ InSection(items[j].tier, r)
        /\ items[i].tier \in {0, 1, 3, 4} /\ items[j].tier \in {0, 1, 3, 4}
    BY <2>1, <2>2, <1>9, <1>10
  <2>5. r.type \in GovernanceTypes /\ r.status \in Unresolved
    BY <2>3, <2>4 DEF InSection, GovernanceTypes, InvestigationTypes, Unresolved, Excluded
  <2> QED BY <2>1, <2>5
<1>11. ASSUME NEW i \in 1 .. Len(items), items[i].tier \notin {2, 5},
              items[i].row.status \in Excluded
       PROVE  items[i].tier = 3 /\ items[i].row.expanded
  <2>1. PICK r \in got : r = items[i].row BY <1>9, <1>11
  <2>2. InSection(items[i].tier, r) /\ items[i].tier \in {0, 1, 3, 4} BY <2>1, <1>9, <1>11
  <2>3. items[i].tier = 3 /\ r.type \in InvestigationTypes
    BY <2>1, <2>2, <1>11 DEF InSection, Unresolved, Excluded
  <2>4. r.expanded BY <2>1, <2>3, <1>11 DEF GoodRows, InvestigationTypes
  <2> QED BY <2>1, <2>3, <2>4
<1>12. \A i, j \in 1 .. Len(items) : i < j => items[i].tier <= items[j].tier
  BY <1>2 DEF Tiered
<1>13. Bounded(items, policy, u.kept, u.chars)
  <2>1. \A i, j \in DOMAIN items :
         /\ i < j => items[i].tier <= items[j].tier
         /\ i # j /\ {items[i].tier, items[j].tier} \cap {2, 5} = {}
              /\ items[i].row.id = items[j].row.id =>
              items[i].row.type \in GovernanceTypes /\ items[i].row.status \in Unresolved
    <3> TAKE i, j \in DOMAIN items
    <3>1. i \in 1 .. Len(items) /\ j \in 1 .. Len(items) BY <1>3
    <3>2. {items[i].tier, items[j].tier} \cap {2, 5} = {} =>
            items[i].tier \notin {2, 5} /\ items[j].tier \notin {2, 5}
      OBVIOUS
    <3> QED BY <3>1, <3>2, <1>10, <1>12
  <2>2. \A i \in DOMAIN items : items[i].tier \notin {2, 5}
         /\ items[i].row.status \in Excluded => items[i].tier = 3 /\ items[i].row.expanded
    BY <1>3, <1>11
  <2> QED BY <2>1, <2>2, <1>3, <1>7, <1>8 DEF Bounded
<1> QED BY <1>1, <1>13 DEF x

-----------------------------------------------------------------------------
(* The passes *)

TypedRow == [origin : Origin, status : MemoryStatus, version : Nat]
AnyLink == [source : Nat, target : Nat, relation : Relationships, status : {"active", "retracted"},
            attributed : BOOLEAN, seen : Nat]

\* The tables a reconstruction reads.
ReadTables ==
    /\ memory \in Seq(TypedRow) /\ revisions \in Seq(StatusRow)
    /\ links \in Seq(AnyLink) /\ confs \in Seq(ConfidenceRow)
    /\ \A l \in DOMAIN links : {links[l].source, links[l].target} \subseteq MemoryId
    /\ \A r \in DOMAIN confs : confs[r].memory \in MemoryId

Query == [types : SUBSET EventTypes, statuses : SUBSET MemoryStatus, min : Nat, tagged : BOOLEAN,
          expand : BOOLEAN, limit : Nat]

\* A query for what is not excluded, or for adaptations.
GoodQuery(q) ==
    q \in Query /\ (q.statuses \cap Excluded = {} \/ q.types = {"adaptation"})

LEMMA TablesHave ==
    ASSUME ReadTables
    PROVE  /\ IsFiniteSet(MemoryId) /\ MemoryId \subseteq Nat
           /\ \A m \in MemoryId : memory[m] \in TypedRow /\ memory[m].origin \in Origin
           /\ \A m \in MemoryId : EffectiveConfidence(m) \in 1 .. 5
<1>1. Len(memory) \in Nat /\ MemoryId = 1 .. Len(memory) BY DEF ReadTables, MemoryId
<1>2. IsFiniteSet(MemoryId)
  <2>1. 1 \in Int /\ Len(memory) \in Int BY <1>1
  <2> QED BY <2>1, <1>1, FS_Interval
<1>3. \A m \in MemoryId : memory[m] \in TypedRow /\ memory[m].origin \in Origin
  <2> TAKE m \in MemoryId
  <2>1. memory[m] \in TypedRow BY <1>1 DEF ReadTables
  <2> QED BY <2>1 DEF TypedRow
<1>4. ASSUME NEW m \in MemoryId PROVE EffectiveConfidence(m) \in 1 .. 5
  <2>1. CASE ActiveRevisions(m) = {}
    <3>1. memory[m].origin.confidence \in 1 .. 5 BY <1>3 DEF Origin
    <3> QED BY <2>1, <3>1 DEF EffectiveConfidence
  <2>2. CASE ActiveRevisions(m) # {}
    <3>1. Len(confs) \in Nat /\ ActiveRevisions(m) \in SUBSET (1 .. Len(confs))
      BY DEF ReadTables, ActiveRevisions, OperatorRevisions
    <3>2. LastOf(ActiveRevisions(m)) \in ActiveRevisions(m) BY <3>1, <2>2, GreatestOf
    <3>3. confs[LastOf(ActiveRevisions(m))] \in ConfidenceRow BY <3>1, <3>2 DEF ReadTables
    <3>4. confs[LastOf(ActiveRevisions(m))].after \in 1 .. 5 BY <3>3 DEF ConfidenceRow
    <3> QED BY <2>2, <3>4 DEF EffectiveConfidence
  <2> QED BY <2>1, <2>2
<1> QED BY <1>1, <1>2, <1>3, <1>4

\* Rows of different events are no more than the events.
LEMMA RowsCount ==
    ASSUME NEW S, NEW T, IsFiniteSet(T), \A r \in S : r.id \in T,
           \A r, s \in S : r.id = s.id => r = s
    PROVE  IsFiniteSet(S) /\ Cardinality(S) <= Cardinality(T)
<1> DEFINE f == [r \in S |-> r.id]
<1>1. f \in [S -> T] /\ \A r, s \in S : f[r] = f[s] => r = s OBVIOUS
<1> HIDE DEF f
<1>2. f \in Injection(S, T) BY <1>1 DEF Injection, IsInjective
<1> QED BY <1>2, FS_Injection

\* Rows of events that are there: one of each.
EventRows(rows) ==
    /\ rows \subseteq RowSet /\ \A r \in rows : r.id \in MemoryId
    /\ \A r, s \in rows : r.id = s.id => r = s

\* A row is as the event is now.
Current(rows) == \A r \in rows : /\ r.status = memory[r.id].status
                                 /\ r.type = memory[r.id].origin.type

LEMMA ScoreHas ==
    ASSUME ReadTables, NEW ids \in SUBSET MemoryId, NEW q \in Query, NEW e \in BOOLEAN
    PROVE  /\ EventRows(Score(ids, q, e)) /\ Current(Score(ids, q, e))
           /\ Ids(Score(ids, q, e)) = ids
           /\ \A r \in Score(ids, q, e) : r.expanded = e
<1> DEFINE row(m) == [id |-> m, type |-> memory[m].origin.type, status |-> memory[m].status,
      confidence |-> memory[m].origin.confidence, size |-> memory[m].origin.size,
      expanded |-> e, recency |-> Recency(ids, m),
      overlap |-> Flag(q.tagged /\ memory[m].origin.tagged)]
<1>1. Score(ids, q, e) = {row(m) : m \in ids} BY DEF Score
<1>2. \A m \in ids : row(m) \in RowSet
  <2> TAKE m \in ids
  <2>1. m \in Nat /\ memory[m] \in TypedRow /\ memory[m].origin \in Origin BY TablesHave
  <2>2. /\ memory[m].origin.type \in EventTypes /\ memory[m].status \in MemoryStatus
        /\ memory[m].origin.confidence \in 1 .. 5 /\ memory[m].origin.size \in Nat
    BY <2>1 DEF Origin, TypedRow
  <2>3. Recency(ids, m) \in Nat
    <3>1. {n \in ids : Before(<<UpdatedAt(m), m>>, <<UpdatedAt(n), n>>)} \in SUBSET MemoryId
      OBVIOUS
    <3>2. IsFiniteSet({n \in ids : Before(<<UpdatedAt(m), m>>, <<UpdatedAt(n), n>>)})
      BY <3>1, TablesHave, FS_Subset
    <3> QED BY <3>2, FS_CardinalityType DEF Recency
  <2>4. Flag(q.tagged /\ memory[m].origin.tagged) \in {0, 1} BY DEF Flag
  <2> QED BY <2>1, <2>2, <2>3, <2>4 DEF RowSet
<1>3. \A m \in ids : /\ row(m).id = m /\ row(m).expanded = e
                     /\ row(m).status = memory[m].status
                     /\ row(m).type = memory[m].origin.type
  OBVIOUS
<1> HIDE DEF row
<1>4. \A r \in Score(ids, q, e) : /\ r \in RowSet /\ r.id \in ids /\ r = row(r.id)
                                  /\ r.expanded = e /\ r.status = memory[r.id].status
                                  /\ r.type = memory[r.id].origin.type
  BY <1>1, <1>2, <1>3
<1>5. Ids(Score(ids, q, e)) = ids BY <1>1, <1>3 DEF Ids
<1>6. \A r, s \in Score(ids, q, e) : r.id = s.id => r = s BY <1>4
<1> QED BY <1>4, <1>5, <1>6 DEF EventRows, Current

Scored(all) == {[r EXCEPT !.confidence = EffectiveConfidence(r.id)] : r \in all}

Candidates(rows, q) ==
    rows \cup IF q.expand THEN Score(Related(Ids(rows)), q, TRUE) ELSE {}

LEMMA RetrievedIs ==
    ASSUME NEW rows, NEW q
    PROVE  Retrieved(rows, q) =
             {r \in Scored(Candidates(rows, q)) :
                Cardinality({s \in Scored(Candidates(rows, q)) :
                               Before(CompositeKey(s), CompositeKey(r))}) < q.limit}
BY DEF Retrieved, Scored, Candidates

\* The candidates of a pass are the rows it found and, expanded, the ends of links.
LEMMA CandidatesHave ==
    ASSUME ReadTables, NEW q \in Query, NEW rows, EventRows(rows),
           \A r \in rows : r.expanded = FALSE
    PROVE  /\ EventRows(Candidates(rows, q)) /\ rows \subseteq Candidates(rows, q)
           /\ \A r \in Candidates(rows, q) : r \in rows \/ r.expanded = TRUE
           /\ Current(rows) => Current(Candidates(rows, q))
<1> DEFINE ids == Related(Ids(rows))
           more == Score(ids, q, TRUE)
<1>1. ids \subseteq MemoryId /\ ids \cap Ids(rows) = {}
  <2>1. ASSUME NEW m \in ids PROVE m \in MemoryId /\ m \notin Ids(rows)
    <3>1. PICK U : ids = (U \cap MemoryId) \ Ids(rows) BY DEF Related
    <3> QED BY <3>1
  <2> QED BY <2>1
<1> HIDE DEF ids
<1>2. /\ EventRows(more) /\ Current(more) /\ Ids(more) = ids
      /\ \A r \in more : r.expanded = TRUE
  <2>1. TRUE \in BOOLEAN OBVIOUS
  <2> QED BY <1>1, <2>1, ScoreHas
<1> HIDE DEF more
<1>3. Candidates(rows, q) = rows \cup IF q.expand THEN more ELSE {}
  BY DEF Candidates, more, ids
<1>4. \A r \in rows : \A s \in more : r.id # s.id BY <1>1, <1>2 DEF Ids
<1>5. EventRows(rows \cup more) BY <1>2, <1>4 DEF EventRows
<1>6. CASE q.expand
  <2>1. Candidates(rows, q) = rows \cup more BY <1>3, <1>6
  <2> QED BY <2>1, <1>2, <1>5 DEF Current
<1>7. CASE ~ q.expand
  <2>1. Candidates(rows, q) = rows BY <1>3, <1>7
  <2> QED BY <2>1
<1> QED BY <1>6, <1>7

LEMMA ScoredHas ==
    ASSUME ReadTables, NEW all, EventRows(all)
    PROVE  /\ EventRows(Scored(all)) /\ Ids(Scored(all)) = Ids(all)
           /\ Current(all) => Current(Scored(all))
           /\ \A s \in Scored(all) : \E r \in all :
                r.id = s.id /\ r.expanded = s.expanded /\ r.status = s.status /\ r.type = s.type
           /\ \A r \in all : \E s \in Scored(all) : r.id = s.id /\ r.expanded = s.expanded
<1> DEFINE row(r) == [r EXCEPT !.confidence = EffectiveConfidence(r.id)]
<1>1. Scored(all) = {row(r) : r \in all} BY DEF Scored
<1>2. \A r \in all : /\ row(r) \in RowSet /\ row(r).id = r.id /\ row(r).expanded = r.expanded
                     /\ row(r).status = r.status /\ row(r).type = r.type
  <2> TAKE r \in all
  <2>1. r \in RowSet /\ r.id \in MemoryId BY DEF EventRows
  <2>2. EffectiveConfidence(r.id) \in 1 .. 5 BY <2>1, TablesHave
  <2> QED BY <2>1, <2>2 DEF RowSet
<1> HIDE DEF row
<1>3. \A s \in Scored(all) : \E r \in all :
        s = row(r) /\ r.id = s.id /\ r.expanded = s.expanded /\ r.status = s.status
        /\ r.type = s.type
  BY <1>1, <1>2
<1>4. \A r \in all : row(r) \in Scored(all) BY <1>1
<1>5. EventRows(Scored(all))
  <2>1. \A s \in Scored(all) : s \in RowSet /\ s.id \in MemoryId
    BY <1>2, <1>3 DEF EventRows
  <2>2. ASSUME NEW s \in Scored(all), NEW t \in Scored(all), s.id = t.id PROVE s = t
    <3>1. PICK r \in all : s = row(r) /\ r.id = s.id BY <1>3
    <3>2. PICK u \in all : t = row(u) /\ u.id = t.id BY <1>3
    <3>3. r = u BY <3>1, <3>2, <2>2 DEF EventRows
    <3> QED BY <3>1, <3>2, <3>3
  <2> QED BY <2>1, <2>2 DEF EventRows
<1>6. Ids(Scored(all)) = Ids(all)
  <2>1. \A m \in Ids(Scored(all)) : m \in Ids(all) BY <1>3 DEF Ids
  <2>2. \A m \in Ids(all) : m \in Ids(Scored(all)) BY <1>2, <1>4 DEF Ids
  <2> QED BY <2>1, <2>2
<1>7. ASSUME Current(all) PROVE Current(Scored(all)) BY <1>3, <1>7 DEF Current
<1> QED BY <1>2, <1>3, <1>4, <1>5, <1>6, <1>7

LEMMA CompositeKeyHas ==
    ASSUME NEW r \in RowSet
    PROVE  /\ CompositeKey(r) \in Key /\ CompositeKey(r)[6] = r.id
           /\ CompositeKey(r)[1] = IF r.expanded THEN 1 ELSE 0
<1>1. Doctrine(r.type) \in Int BY DEF Doctrine
<1>2. /\ 5 - r.confidence \in Int /\ r.recency \in Int /\ 1 - r.overlap \in Int /\ r.id \in Int
  BY DEF RowSet
<1>3. Flag(r.expanded) \in Int /\ Flag(r.expanded) = IF r.expanded THEN 1 ELSE 0 BY DEF Flag
<1>4. CompositeKey(r) = <<Flag(r.expanded), Doctrine(r.type), 5 - r.confidence, r.recency,
                          1 - r.overlap, r.id>>
  BY DEF CompositeKey
<1> QED BY <1>1, <1>2, <1>3, <1>4 DEF Key

\* The events of these types.
Kind(types) == {m \in MemoryId : memory[m].origin.type \in types}

\* What a pass found: non-expanded rows of its types and statuses.
FoundBy(rows, q) ==
    /\ EventRows(rows)
    /\ \A r \in rows : /\ r.expanded = FALSE /\ r.type \in q.types /\ r.status \in q.statuses
                       /\ r.id \in Kind(q.types)

\* Expanded rows come last: when the events of its types fit the limit, a pass
\* returns everything that it found.
LEMMA NothingCrowdedOut ==
    ASSUME ReadTables, NEW q \in Query, NEW rows, FoundBy(rows, q),
           Cardinality(Kind(q.types)) <= q.limit
    PROVE  Ids(rows) \subseteq Ids(Retrieved(rows, q))
<1> DEFINE all == Candidates(rows, q)
           scored == Scored(all)
<1>1. EventRows(rows) /\ \A r \in rows : r.expanded = FALSE BY DEF FoundBy
<1>2. /\ EventRows(all) /\ rows \subseteq all
      /\ \A r \in all : r \in rows \/ r.expanded = TRUE
  BY <1>1, CandidatesHave
<1>a. Retrieved(rows, q) =
        {r \in scored : Cardinality({s \in scored :
                                       Before(CompositeKey(s), CompositeKey(r))}) < q.limit}
  BY RetrievedIs
<1> HIDE DEF all
<1>3. /\ EventRows(scored)
      /\ \A s \in scored : \E r \in all : r.id = s.id /\ r.expanded = s.expanded
      /\ \A r \in all : \E s \in scored : r.id = s.id /\ r.expanded = s.expanded
  BY <1>2, ScoredHas
<1> HIDE DEF scored
<1>4. ASSUME NEW m \in Ids(rows) PROVE m \in Ids(Retrieved(rows, q))
  <2>1. PICK r \in rows : r.id = m BY DEF Ids
  <2>2. PICK t \in scored : t.id = m /\ t.expanded = FALSE BY <2>1, <1>1, <1>2, <1>3
  <2> DEFINE ahead == {s \in scored : Before(CompositeKey(s), CompositeKey(t))}
             kind == Kind(q.types)
  <2>3. ASSUME NEW s \in ahead PROVE s.id \in kind \ {m}
    <3>0. s \in RowSet /\ t \in RowSet /\ Before(CompositeKey(s), CompositeKey(t))
      BY <1>3 DEF EventRows
    <3>1. /\ CompositeKey(s) \in Key /\ CompositeKey(t) \in Key
          /\ CompositeKey(s)[1] = (IF s.expanded THEN 1 ELSE 0) /\ CompositeKey(t)[1] = 0
      BY <3>0, <2>2, CompositeKeyHas
    <3>2. s.expanded = FALSE
      <4> SUFFICES ASSUME s.expanded # FALSE PROVE FALSE OBVIOUS
      <4>1. s.expanded = TRUE BY <3>0 DEF RowSet
      <4>2. CompositeKey(s)[1] = 1 BY <3>1, <4>1
      <4>3. PICK i \in DOMAIN CompositeKey(s) :
              /\ CompositeKey(s)[i] < CompositeKey(t)[i]
              /\ \A j \in 1 .. i - 1 : CompositeKey(s)[j] = CompositeKey(t)[j]
        BY <3>0 DEF Before
      <4>4. i \in 1 .. 6 BY <3>1 DEF Key
      <4>5. i # 1 BY <4>2, <4>3, <3>1
      <4>6. 1 \in 1 .. i - 1 BY <4>4, <4>5
      <4> QED BY <4>6, <4>3, <4>2, <3>1
    <3>3. s # t BY <3>0, <3>1, KeysAreOrdered
    <3>4. s.id # m BY <3>3, <2>2, <1>3 DEF EventRows
    <3>5. PICK u \in all : u.id = s.id /\ u.expanded = s.expanded BY <1>3
    <3>6. u \in rows BY <3>5, <3>2, <1>2
    <3> QED BY <3>4, <3>5, <3>6 DEF FoundBy
  <2>4. IsFiniteSet(kind) /\ Cardinality(kind) \in Nat
    <3>1. kind \in SUBSET MemoryId BY DEF Kind
    <3> QED BY <3>1, TablesHave, FS_Subset, FS_CardinalityType
  <2>5. m \in kind BY <2>1 DEF FoundBy
  <2>6. \A r1, s1 \in ahead : r1.id = s1.id => r1 = s1 BY <1>3 DEF EventRows
  <2> HIDE DEF ahead, kind
  <2>7. IsFiniteSet(kind \ {m}) /\ Cardinality(kind \ {m}) = Cardinality(kind) - 1
    BY <2>4, <2>5, FS_RemoveElement
  <2>8. IsFiniteSet(ahead) /\ Cardinality(ahead) <= Cardinality(kind) - 1
    BY <2>3, <2>6, <2>7, RowsCount
  <2>9. Cardinality(ahead) < q.limit
    <3>1. Cardinality(ahead) \in Nat BY <2>8, FS_CardinalityType
    <3>2. q.limit \in Nat BY DEF Query
    <3>3. Cardinality(kind) <= q.limit BY DEF kind
    <3> QED BY <3>1, <3>2, <3>3, <2>4, <2>8
  <2>10. t \in Retrieved(rows, q) BY <1>a, <2>9, <2>2 DEF ahead
  <2> QED BY <2>10, <2>2 DEF Ids
<1> QED BY <1>4

LEMMA FewerRows ==
    ASSUME NEW S, EventRows(S), NEW T \in SUBSET S
    PROVE  EventRows(T) /\ (Current(S) => Current(T))
<1>1. \A r \in T : r \in S OBVIOUS
<1> QED BY <1>1 DEF EventRows, Current

\* What a pass returns can join what was collected.
LEMMA RetrievedGood ==
    ASSUME ReadTables, NEW q, GoodQuery(q), NEW rows, FoundBy(rows, q)
    PROVE  /\ GoodRows(Retrieved(rows, q)) /\ EventRows(Retrieved(rows, q))
           /\ Current(rows) => Current(Retrieved(rows, q))
<1> DEFINE all == Candidates(rows, q)
           scored == Scored(all)
<1>0. q \in Query BY DEF GoodQuery
<1>1. EventRows(rows) /\ \A r \in rows : r.expanded = FALSE BY DEF FoundBy
<1>2. /\ EventRows(all) /\ \A r \in all : r \in rows \/ r.expanded = TRUE
      /\ Current(rows) => Current(all)
  BY <1>0, <1>1, CandidatesHave
<1>3. Retrieved(rows, q) \in SUBSET scored BY RetrievedIs
<1> HIDE DEF all
<1>4. /\ EventRows(scored)
      /\ Current(all) => Current(scored)
      /\ \A s \in scored : \E r \in all :
           r.id = s.id /\ r.expanded = s.expanded /\ r.status = s.status /\ r.type = s.type
  BY <1>2, ScoredHas
<1> HIDE DEF scored
<1> DEFINE T == Retrieved(rows, q)
<1>5. T \in SUBSET scored BY <1>3
<1> HIDE DEF T
<1>6. EventRows(T) /\ (Current(scored) => Current(T))
  <2>1. PICK S, R : S = scored /\ R = T OBVIOUS
  <2>2. EventRows(S) /\ R \in SUBSET S BY <2>1, <1>4, <1>5
  <2>3. EventRows(R) /\ (Current(S) => Current(R)) BY <2>2, FewerRows
  <2> QED BY <2>1, <2>3
<1>7. IsFiniteSet(T)
  <2>1. IsFiniteSet(MemoryId) BY TablesHave
  <2>2. \A r \in T : r.id \in MemoryId BY <1>6 DEF EventRows
  <2>3. \A r, s \in T : r.id = s.id => r = s BY <1>6 DEF EventRows
  <2> QED BY <2>1, <2>2, <2>3, RowsCount
<1>8. ASSUME NEW s \in T, s.status \in Excluded
      PROVE  s.expanded \/ s.type = "adaptation"
  <2>0. s \in scored BY <1>5
  <2>1. PICK r \in all : r.expanded = s.expanded /\ r.status = s.status /\ r.type = s.type
    BY <2>0, <1>4
  <2>2. CASE r.expanded = TRUE BY <2>1, <2>2
  <2>3. CASE r \in rows
    <3>1. r.type \in q.types /\ r.status \in q.statuses BY <2>3 DEF FoundBy
    <3> QED BY <3>1, <2>1, <1>8 DEF GoodQuery
  <2> QED BY <2>2, <2>3, <1>2
<1>9. GoodRows(T)
  <2>1. T \subseteq RowSet /\ \A r, s \in T : r.id = s.id => r = s BY <1>6 DEF EventRows
  <2> QED BY <2>1, <1>7, <1>8 DEF GoodRows
<1> QED BY <1>2, <1>4, <1>6, <1>9 DEF T

LEMMA AddUnseenHas ==
    ASSUME NEW got, NEW rows, GoodRows(got), GoodRows(rows)
    PROVE  /\ GoodRows(AddUnseen(got, rows))
           /\ Ids(AddUnseen(got, rows)) = Ids(got) \cup Ids(rows)
<1> DEFINE new == {r \in rows : r.id \notin Ids(got)}
<1>1. AddUnseen(got, rows) = got \cup new BY DEF AddUnseen
<1>2. IsFiniteSet(new) BY FS_Subset DEF GoodRows
<1>3. IsFiniteSet(got \cup new) BY <1>2, FS_Union DEF GoodRows
<1>4. new \subseteq rows /\ \A r \in new : \A s \in got : r.id # s.id BY DEF Ids
<1>5. \A m \in Ids(rows) : m \in Ids(got) \/ m \in Ids(new) BY DEF Ids
<1>6. Ids(got \cup new) = Ids(got) \cup Ids(new) /\ Ids(new) \subseteq Ids(rows) BY DEF Ids
<1> HIDE DEF new
<1>7. GoodRows(got \cup new) BY <1>3, <1>4 DEF GoodRows
<1> QED BY <1>1, <1>5, <1>6, <1>7

\* The queries of the passes.
Asks(policy, types, statuses, min, tagged, expand) ==
    [types |-> types, statuses |-> statuses, min |-> min, tagged |-> tagged,
     expand |-> expand, limit |-> policy.candidates]

Optional(wanted, q) == IF wanted THEN <<q>> ELSE <<>>

Rules(policy) == Asks(policy, GovernanceTypes, Live, 1, FALSE, FALSE)
Opens(policy) == Asks(policy, EventTypes, Unresolved, 1, FALSE, FALSE)
Inquiries(policy) == Asks(policy, InvestigationTypes, Live, policy.min, FALSE, FALSE)
Adaptations(policy) == Asks(policy, {"adaptation"}, MemoryStatus, policy.min, policy.tagged, FALSE)
General(policy) == Asks(policy, EventTypes \ GovernanceTypes, Live, policy.min, policy.tagged,
                        policy.expand)

LEMMA PassesAre ==
    ASSUME NEW policy \in Policy
    PROVE  /\ Passes(policy) \in Seq(Query) /\ Len(Passes(policy)) \in Nat \ {0}
           /\ \A n \in 1 .. Len(Passes(policy)) : GoodQuery(Passes(policy)[n])
           /\ \E n \in 1 .. Len(Passes(policy)) : Passes(policy)[n] = Rules(policy)
           /\ policy.unresolved =>
                \E n \in 1 .. Len(Passes(policy)) : Passes(policy)[n] = Opens(policy)
           /\ policy.investigations =>
                \E n \in 1 .. Len(Passes(policy)) : Passes(policy)[n] = Inquiries(policy)
           /\ policy.adaptations =>
                \E n \in 1 .. Len(Passes(policy)) : Passes(policy)[n] = Adaptations(policy)
           /\ \E n \in 1 .. Len(Passes(policy)) : Passes(policy)[n] = General(policy)
<1> DEFINE Q == {q \in Query : GoodQuery(q)}
           o == Optional(policy.unresolved, Opens(policy))
           i == Optional(policy.investigations, Inquiries(policy))
           a == Optional(policy.adaptations, Adaptations(policy))
           r == <<Rules(policy)>>
           g == <<General(policy)>>
<1>1. Passes(policy) = r \o o \o i \o a \o g
  BY DEF Passes, Rules, Opens, Inquiries, Adaptations, General, Asks, Optional
<1>2. /\ Rules(policy) \in Q /\ Opens(policy) \in Q /\ Inquiries(policy) \in Q
      /\ Adaptations(policy) \in Q /\ General(policy) \in Q
  <2>1. /\ GovernanceTypes \subseteq EventTypes /\ InvestigationTypes \subseteq EventTypes
        /\ "adaptation" \in EventTypes
    BY DEF GovernanceTypes, InvestigationTypes, EventTypes
  <2>2. /\ Live \subseteq MemoryStatus /\ Live \cap Excluded = {}
        /\ Unresolved \subseteq MemoryStatus /\ Unresolved \cap Excluded = {}
    BY DEF Live, MemoryStatus, Excluded, Unresolved
  <2>3. /\ policy.min \in Nat /\ policy.tagged \in BOOLEAN /\ policy.expand \in BOOLEAN
        /\ policy.candidates \in Nat /\ 1 \in Nat
    BY DEF Policy
  <2>4. \A types, statuses, min, tagged, expand :
          /\ types \subseteq EventTypes /\ statuses \subseteq MemoryStatus /\ min \in Nat
          /\ tagged \in BOOLEAN /\ expand \in BOOLEAN
          /\ statuses \cap Excluded = {} \/ types = {"adaptation"}
          => Asks(policy, types, statuses, min, tagged, expand) \in Q
    BY <2>3 DEF Asks, Query, GoodQuery
  <2> HIDE DEF Q
  <2>5. Rules(policy) \in Q /\ Opens(policy) \in Q BY <2>1, <2>2, <2>3, <2>4 DEF Rules, Opens
  <2>6. Inquiries(policy) \in Q BY <2>1, <2>2, <2>3, <2>4 DEF Inquiries
  <2>7. Adaptations(policy) \in Q BY <2>1, <2>3, <2>4 DEF Adaptations
  <2>8. General(policy) \in Q BY <2>2, <2>3, <2>4 DEF General
  <2> QED BY <2>5, <2>6, <2>7, <2>8
<1>q. Q \subseteq Query /\ \A q \in Q : GoodQuery(q) OBVIOUS
<1>3. /\ r \in Seq(Q) /\ Len(r) = 1 /\ r[1] = Rules(policy)
      /\ g \in Seq(Q) /\ Len(g) = 1 /\ g[1] = General(policy)
  <2> HIDE DEF Q
  <2> QED BY <1>2
<1>4. /\ o \in Seq(Q) /\ (policy.unresolved => Len(o) = 1 /\ o[1] = Opens(policy))
      /\ i \in Seq(Q) /\ (policy.investigations => Len(i) = 1 /\ i[1] = Inquiries(policy))
      /\ a \in Seq(Q) /\ (policy.adaptations => Len(a) = 1 /\ a[1] = Adaptations(policy))
  <2> HIDE DEF Q
  <2>1. o \in Seq(Q) /\ (policy.unresolved => Len(o) = 1 /\ o[1] = Opens(policy))
    BY <1>2 DEF Optional
  <2>2. i \in Seq(Q) /\ (policy.investigations => Len(i) = 1 /\ i[1] = Inquiries(policy))
    BY <1>2 DEF Optional
  <2>3. a \in Seq(Q) /\ (policy.adaptations => Len(a) = 1 /\ a[1] = Adaptations(policy))
    BY <1>2 DEF Optional
  <2> QED BY <2>1, <2>2, <2>3
<1> HIDE DEF Q, r, o, i, a, g
<1> DEFINE In(q, s) == \E n \in 1 .. Len(s) : s[n] = q
<1>5. ASSUME NEW s \in Seq(Q), NEW t \in Seq(Q), NEW q
      PROVE  s \o t \in Seq(Q) /\ (In(q, s) => In(q, s \o t)) /\ (In(q, t) => In(q, s \o t))
  <2>1. Len(s) \in Nat /\ Len(t) \in Nat OBVIOUS
  <2>2. ASSUME NEW n \in 1 .. Len(s), s[n] = q PROVE In(q, s \o t)
    <3>1. n \in 1 .. Len(s \o t) /\ (s \o t)[n] = q BY <2>1, <2>2
    <3> QED BY <3>1
  <2>3. ASSUME NEW n \in 1 .. Len(t), t[n] = q PROVE In(q, s \o t)
    <3>1. Len(s) + n \in 1 .. Len(s \o t) /\ (s \o t)[Len(s) + n] = q BY <2>1, <2>3
    <3> QED BY <3>1
  <2> QED BY <2>2, <2>3
<1>6. In(Rules(policy), r) /\ In(General(policy), g)
  <2>1. 1 \in 1 .. Len(r) /\ 1 \in 1 .. Len(g) BY <1>3
  <2> QED BY <2>1, <1>3
<1>7. /\ policy.unresolved => In(Opens(policy), o)
      /\ policy.investigations => In(Inquiries(policy), i)
      /\ policy.adaptations => In(Adaptations(policy), a)
  <2>1. policy.unresolved => In(Opens(policy), o)
    <3> SUFFICES ASSUME policy.unresolved PROVE In(Opens(policy), o) OBVIOUS
    <3>1. Len(o) = 1 /\ o[1] = Opens(policy) BY <1>4
    <3>2. 1 \in 1 .. Len(o) BY <3>1
    <3> QED BY <3>1, <3>2
  <2>2. policy.investigations => In(Inquiries(policy), i)
    <3> SUFFICES ASSUME policy.investigations PROVE In(Inquiries(policy), i) OBVIOUS
    <3>1. Len(i) = 1 /\ i[1] = Inquiries(policy) BY <1>4
    <3>2. 1 \in 1 .. Len(i) BY <3>1
    <3> QED BY <3>1, <3>2
  <2>3. policy.adaptations => In(Adaptations(policy), a)
    <3> SUFFICES ASSUME policy.adaptations PROVE In(Adaptations(policy), a) OBVIOUS
    <3>1. Len(a) = 1 /\ a[1] = Adaptations(policy) BY <1>4
    <3>2. 1 \in 1 .. Len(a) BY <3>1
    <3> QED BY <3>1, <3>2
  <2> QED BY <2>1, <2>2, <2>3
<1> HIDE DEF In
<1>8. PICK s1 : s1 = r \o o OBVIOUS
<1>9. /\ s1 \in Seq(Q) /\ In(Rules(policy), s1)
      /\ policy.unresolved => In(Opens(policy), s1)
  BY <1>3, <1>4, <1>5, <1>6, <1>7, <1>8
<1>10. PICK s2 : s2 = s1 \o i OBVIOUS
<1>11. /\ s2 \in Seq(Q) /\ In(Rules(policy), s2)
       /\ policy.unresolved => In(Opens(policy), s2)
       /\ policy.investigations => In(Inquiries(policy), s2)
  BY <1>4, <1>5, <1>7, <1>9, <1>10
<1>12. PICK s3 : s3 = s2 \o a OBVIOUS
<1>13. /\ s3 \in Seq(Q) /\ In(Rules(policy), s3)
       /\ policy.unresolved => In(Opens(policy), s3)
       /\ policy.investigations => In(Inquiries(policy), s3)
       /\ policy.adaptations => In(Adaptations(policy), s3)
  BY <1>4, <1>5, <1>7, <1>11, <1>12
<1>14. PICK p : p = s3 \o g OBVIOUS
<1>15. /\ p \in Seq(Q) /\ In(Rules(policy), p) /\ In(General(policy), p)
       /\ policy.unresolved => In(Opens(policy), p)
       /\ policy.investigations => In(Inquiries(policy), p)
       /\ policy.adaptations => In(Adaptations(policy), p)
  BY <1>3, <1>5, <1>6, <1>13, <1>14
<1>16. Passes(policy) = p BY <1>1, <1>8, <1>10, <1>12, <1>14
<1>17. Len(p) \in Nat /\ \A n \in 1 .. Len(p) : p[n] \in Q BY <1>15
<1>18. Len(p) # 0 BY <1>15, <1>17 DEF In
<1>19. p \in Seq(Query) BY <1>15, <1>17, <1>q
<1> QED BY <1>15, <1>16, <1>17, <1>18, <1>19, <1>q DEF In

\* What a pass that reads the tables at once returns.
PassRows(q) == Retrieved(Score(Matches(q), q, FALSE), q)

LEMMA MatchesFound ==
    ASSUME ReadTables, NEW q \in Query
    PROVE  /\ FoundBy(Score(Matches(q), q, FALSE), q)
           /\ Current(Score(Matches(q), q, FALSE))
           /\ Ids(Score(Matches(q), q, FALSE)) = Matches(q)
<1> DEFINE rows == Score(Matches(q), q, FALSE)
<1>1. Matches(q) \in SUBSET MemoryId BY DEF Matches
<1>2. FALSE \in BOOLEAN OBVIOUS
<1>3. /\ EventRows(rows) /\ Current(rows) /\ Ids(rows) = Matches(q)
      /\ \A r \in rows : r.expanded = FALSE
  BY <1>1, <1>2, ScoreHas
<1> HIDE DEF rows
<1>4. ASSUME NEW r \in rows
      PROVE  r.type \in q.types /\ r.status \in q.statuses /\ r.id \in Kind(q.types)
  <2>1. r.id \in Matches(q) BY <1>3 DEF Ids
  <2>2. r.status = memory[r.id].status /\ r.type = memory[r.id].origin.type
    BY <1>3 DEF Current
  <2> QED BY <2>1, <2>2 DEF Matches, Kind
<1>5. FoundBy(rows, q) BY <1>3, <1>4 DEF FoundBy
<1> QED BY <1>3, <1>5 DEF rows

LEMMA PassRowsHave ==
    ASSUME ReadTables, NEW q, GoodQuery(q)
    PROVE  GoodRows(PassRows(q)) /\ Current(PassRows(q)) /\ PassRows(q) \subseteq RowSet
<1>0. q \in Query BY DEF GoodQuery
<1>1. PICK rows : rows = Score(Matches(q), q, FALSE) OBVIOUS
<1>2. FoundBy(rows, q) /\ Current(rows) BY <1>0, <1>1, MatchesFound
<1>3. GoodRows(Retrieved(rows, q)) /\ Current(Retrieved(rows, q)) BY <1>2, RetrievedGood
<1> QED BY <1>1, <1>3 DEF PassRows, GoodRows

\* The collection of an undisturbed reconstruction, pass by pass.
LEMMA CollectedIs ==
    ASSUME ReadTables, NEW policy \in Policy
    PROVE  /\ Collected(policy)[0] = {}
           /\ \A n \in 1 .. Len(Passes(policy)) :
                Collected(policy)[n] = AddUnseen(Collected(policy)[n - 1],
                                                 PassRows(Passes(policy)[n]))
           /\ \A n \in 0 .. Len(Passes(policy)) :
                GoodRows(Collected(policy)[n]) /\ Current(Collected(policy)[n])
<1> DEFINE p == Passes(policy)
           N == Len(p)
           take(n, v) == AddUnseen(v, PassRows(p[n]))
           V == SUBSET RowSet
           step == [n \in 1 .. N |-> [v \in V |-> take(n, v)]]
           Good(g) == g = [n \in 0 .. N |-> IF n = 0 THEN {} ELSE take(n, g[n - 1])]
           got == CHOOSE g : Good(g)
<1>0. N \in Nat /\ \A n \in 1 .. N : GoodQuery(p[n]) BY PassesAre
<1>a. Collected(policy) = got BY DEF Collected, PassRows
<1> HIDE DEF p, N
<1>1. \A n \in 1 .. N : GoodRows(PassRows(p[n])) /\ Current(PassRows(p[n]))
                        /\ PassRows(p[n]) \subseteq RowSet
  BY <1>0, PassRowsHave
<1>2. \A n \in 1 .. N : \A v \in V : take(n, v) \in V
  BY <1>1 DEF AddUnseen
<1>3. {} \in V OBVIOUS
<1> HIDE DEF take, V
<1>4. step \in [1 .. N -> [V -> V]] BY <1>2
<1>5. PICK f : Steps(N, V, {}, step, f)
  <2> HIDE DEF step
  <2> QED BY <1>0, <1>3, <1>4, StepsExist
<1>6. Good(f)
  <2>1. \A n \in 0 .. N : f[n] = IF n = 0 THEN {} ELSE take(n, f[n - 1])
    <3>1. SUFFICES ASSUME NEW n \in 1 .. N PROVE f[n] = take(n, f[n - 1])
      BY <1>5, <1>0 DEF Steps
    <3>2. f[n - 1] \in V /\ f[n] = step[n][f[n - 1]] BY <1>5, <1>0 DEF Steps
    <3> QED BY <3>2
  <2> QED BY <2>1, <1>5 DEF Steps
<1>7. Good(got)
  <2> HIDE DEF Good
  <2> QED BY <1>6
<1> HIDE DEF got
<1>8. got[0] = {} BY <1>7, <1>0
<1>9. ASSUME NEW n \in 1 .. N PROVE got[n] = take(n, got[n - 1])
  <2>1. n \in 0 .. N /\ n # 0 BY <1>0
  <2> QED BY <2>1, <1>7
<1> HIDE DEF Good
<1> DEFINE A == {n \in 0 .. N : GoodRows(got[n]) /\ Current(got[n])}
<1>10. \A n \in 0 .. N : GoodRows(got[n]) /\ Current(got[n])
  <2>1. 0 \in A
    <3>1. GoodRows({}) BY FS_EmptySet DEF GoodRows
    <3>2. Current({}) BY DEF Current
    <3> QED BY <3>1, <3>2, <1>0, <1>8
  <2>2. ASSUME NEW n \in 1 .. N, n - 1 \in A PROVE n \in A
    <3>1. GoodRows(got[n - 1]) /\ Current(got[n - 1]) /\ n \in 0 .. N BY <2>2
    <3>2. PICK v : v = got[n - 1] OBVIOUS
    <3>3. PICK r : r = PassRows(p[n]) OBVIOUS
    <3>4. GoodRows(r) /\ Current(r) BY <1>1, <3>3
    <3>5. got[n] = AddUnseen(v, r) BY <1>9, <3>2, <3>3 DEF take
    <3>6. GoodRows(AddUnseen(v, r)) BY <3>1, <3>2, <3>4, AddUnseenHas
    <3>7. Current(AddUnseen(v, r)) BY <3>1, <3>2, <3>4 DEF AddUnseen, Current
    <3> QED BY <3>1, <3>5, <3>6, <3>7
  <2>3. A \in SUBSET (0 .. N) OBVIOUS
  <2> HIDE DEF A
  <2>4. \A n \in 0 .. N : n \in A BY <2>1, <2>2, <2>3, <1>0, AllReached
  <2> QED BY <2>4 DEF A
<1> QED BY <1>a, <1>8, <1>9, <1>10 DEF take, p, N

-----------------------------------------------------------------------------
(* What a reconstruction knows while others write *)

\* The tables as they were, and what can never be taken back since.
Since(t) ==
    /\ t[1] \in Seq(TypedRow) /\ t[2] \in Seq(StatusRow)
    /\ t[3] \in Seq(AnyLink) /\ t[4] \in Seq(ConfidenceRow)
    /\ Len(t[1]) <= Len(memory) /\ Len(t[2]) <= Len(revisions)
    /\ Len(t[3]) <= Len(links) /\ Len(t[4]) <= Len(confs)
    /\ \A l \in DOMAIN t[3] : t[3][l].status = "retracted" => links[l].status = "retracted"
    /\ \A r \in DOMAIN t[4] : t[4][r].status = "rejected" => confs[r].status = "rejected"

\* The events of then that nobody has revised since.
Untouched(t) == {m \in DOMAIN t[1] : \A i \in RevisionsOf(m) : i <= Len(t[2])}

\* The events that a pass asked for, were they not too many, are among these.
Found(t, ids, q) ==
    \A m \in Untouched(t) :
      m \in Matches(q) /\ Cardinality(Kind(q.types)) <= q.limit => m \in ids

\* A reconstruction at its next pass; undisturbed it is as if it read all at once.
Reading(k) ==
    /\ k.at \in {"fetch", "score", "assemble"} /\ k.policy \in Policies
    /\ Since(k.since) /\ GoodRows(k.got)
    /\ k.pass \in 1 .. Len(Passes(k.policy)) + 1
    /\ k.at = "assemble" <=> k.pass = Len(Passes(k.policy)) + 1
    /\ \A n \in 1 .. k.pass - 1 : Found(k.since, Ids(k.got), Passes(k.policy)[n])
    /\ k.since = governanceVars => k.got = Collected(k.policy)[k.pass - 1]

\* Between its two reads it has the rows that it found.
Scoring(k) ==
    LET q == Passes(k.policy)[k.pass] IN
    /\ FoundBy(k.rows, q)
    /\ \A m \in Untouched(k.since) : m \in Matches(q) => m \in Ids(k.rows)
    /\ k.since = governanceVars => k.rows = Score(Matches(q), q, FALSE)

Reader(k) == Reading(k) /\ (k.at = "score" => Scoring(k))

CallHolds(k) ==
    \/ k = Idle
    \/ k \in UpdateCall \cup ApproveCall \cup ReviseCall /\ k.memory \in MemoryId
    \/ k \in ContradictCall /\ {k.source, k.target} \subseteq MemoryId
    \/ Reader(k)

ContextHolds(x) ==
    /\ x.policy \in Policies /\ Since(x.since)
    /\ Bounded(x.items, x.policy, x.kept, x.chars)
    /\ \A n \in 1 .. Len(Passes(x.policy)) : Found(x.since, x.activated, Passes(x.policy)[n])
    /\ x.since = governanceVars => x = Reconstruct(x.policy)

ContextInv ==
    /\ ReadTables
    /\ writers \subseteq Callers /\ DOMAIN call = Callers
    /\ \A c \in Callers : CallHolds(call[c])
    /\ context = NoContext \/ ContextHolds(context)

\* What a step that writes does to the tables.
Written ==
    /\ Len(memory) <= Len(memory') /\ Len(revisions) <= Len(revisions')
    /\ Len(links) <= Len(links') /\ Len(confs) <= Len(confs')
    /\ \A m \in MemoryId : /\ memory'[m].origin = memory[m].origin
                           /\ \/ memory'[m] = memory[m]
                              \/ \E i \in DOMAIN revisions' :
                                   i > Len(revisions) /\ revisions'[i].memory = m
    /\ \A i \in DOMAIN revisions : revisions'[i] = revisions[i]
    /\ \A l \in DOMAIN links : links[l].status = "retracted" => links'[l].status = "retracted"
    /\ \A r \in DOMAIN confs : confs[r].status = "rejected" => confs'[r].status = "rejected"
    /\ \/ Len(memory) < Len(memory') \/ Len(revisions) < Len(revisions')
       \/ Len(links) < Len(links') \/ Len(confs) < Len(confs')
       \/ \E l \in DOMAIN links : links[l].status # "retracted" /\ links'[l].status = "retracted"
       \/ \E r \in DOMAIN confs : confs[r].status # "rejected" /\ confs'[r].status = "rejected"

LEMMA TablesAre ==
    ASSUME ReadTables
    PROVE  /\ Len(memory) \in Nat /\ DOMAIN memory = 1 .. Len(memory)
           /\ Len(revisions) \in Nat /\ DOMAIN revisions = 1 .. Len(revisions)
           /\ Len(links) \in Nat /\ DOMAIN links = 1 .. Len(links)
           /\ Len(confs) \in Nat /\ DOMAIN confs = 1 .. Len(confs)
           /\ \A m \in DOMAIN memory : memory[m] \in TypedRow
           /\ \A l \in DOMAIN links : links[l] \in AnyLink
           /\ \A r \in DOMAIN confs : confs[r] \in ConfidenceRow
BY DEF ReadTables

LEMMA TablesAreNext ==
    ASSUME ReadTables'
    PROVE  /\ Len(memory') \in Nat /\ DOMAIN memory' = 1 .. Len(memory')
           /\ Len(revisions') \in Nat /\ DOMAIN revisions' = 1 .. Len(revisions')
           /\ Len(links') \in Nat /\ DOMAIN links' = 1 .. Len(links')
           /\ Len(confs') \in Nat /\ DOMAIN confs' = 1 .. Len(confs')
BY DEF ReadTables

\* Once something is written the tables are never again as they were.
LEMMA SinceKept ==
    ASSUME ReadTables, ReadTables', Written, NEW t, Since(t)
    PROVE  Since(t)' /\ t # governanceVars'
<1>1. /\ Len(memory) \in Nat /\ Len(revisions) \in Nat /\ Len(links) \in Nat
      /\ Len(confs) \in Nat /\ DOMAIN links = 1 .. Len(links) /\ DOMAIN confs = 1 .. Len(confs)
  BY TablesAre
<1>2. /\ Len(memory') \in Nat /\ Len(revisions') \in Nat /\ Len(links') \in Nat
      /\ Len(confs') \in Nat
  BY TablesAreNext
<1>3. /\ Len(t[1]) \in Nat /\ Len(t[2]) \in Nat /\ Len(t[3]) \in Nat /\ Len(t[4]) \in Nat
      /\ DOMAIN t[3] = 1 .. Len(t[3]) /\ DOMAIN t[4] = 1 .. Len(t[4])
  BY DEF Since
<1>a. /\ Len(t[1]) <= Len(memory) /\ Len(t[2]) <= Len(revisions)
      /\ Len(t[3]) <= Len(links) /\ Len(t[4]) <= Len(confs)
  BY DEF Since
<1>b. /\ Len(memory) <= Len(memory') /\ Len(revisions) <= Len(revisions')
      /\ Len(links) <= Len(links') /\ Len(confs) <= Len(confs')
  BY DEF Written
<1>4. DOMAIN t[3] \subseteq DOMAIN links /\ DOMAIN t[4] \subseteq DOMAIN confs
  BY <1>1, <1>3, <1>a
<1>5. /\ Len(t[1]) <= Len(memory') /\ Len(t[2]) <= Len(revisions')
      /\ Len(t[3]) <= Len(links') /\ Len(t[4]) <= Len(confs')
  <2>1. \A i, j, k \in Nat : i <= j /\ j <= k => i <= k OBVIOUS
  <2>2. Len(t[1]) <= Len(memory') BY <2>1, <1>1, <1>2, <1>3, <1>a, <1>b, Zenon
  <2>3. Len(t[2]) <= Len(revisions') BY <2>1, <1>1, <1>2, <1>3, <1>a, <1>b, Zenon
  <2>4. Len(t[3]) <= Len(links') BY <2>1, <1>1, <1>2, <1>3, <1>a, <1>b, Zenon
  <2>5. Len(t[4]) <= Len(confs') BY <2>1, <1>1, <1>2, <1>3, <1>a, <1>b, Zenon
  <2> QED BY <2>2, <2>3, <2>4, <2>5
<1>6. \A l \in DOMAIN t[3] : t[3][l].status = "retracted" => links'[l].status = "retracted"
  BY <1>4 DEF Since, Written
<1>7. \A r \in DOMAIN t[4] : t[4][r].status = "rejected" => confs'[r].status = "rejected"
  BY <1>4 DEF Since, Written
<1>8. ASSUME t = governanceVars' PROVE FALSE
  <2>1. t[1] = memory' /\ t[2] = revisions' /\ t[3] = links' /\ t[4] = confs'
    BY <1>8 DEF governanceVars
  <2>2. /\ ~ (Len(memory) < Len(memory')) /\ ~ (Len(revisions) < Len(revisions'))
        /\ ~ (Len(links) < Len(links')) /\ ~ (Len(confs) < Len(confs'))
    BY <2>1, <1>1, <1>2, <1>a
  <2>3. DOMAIN links = DOMAIN t[3] /\ DOMAIN confs = DOMAIN t[4]
    <3>1. PICK i, j, k : i = Len(t[3]) /\ j = Len(links) /\ k = Len(links') OBVIOUS
    <3>2. PICK u, v, w : u = Len(t[4]) /\ v = Len(confs) /\ w = Len(confs') OBVIOUS
    <3>3. i \in Nat /\ j \in Nat /\ k \in Nat /\ u \in Nat /\ v \in Nat /\ w \in Nat
      BY <1>1, <1>2, <1>3, <3>1, <3>2
    <3>4. i <= j /\ j <= k /\ i = k /\ u <= v /\ v <= w /\ u = w
      BY <1>a, <1>b, <2>1, <3>1, <3>2
    <3>5. i = j /\ u = v BY <3>3, <3>4
    <3> QED BY <3>1, <3>2, <3>5, <1>1, <1>3
  <2> QED BY <2>1, <2>2, <2>3 DEF Written, Since
<1> QED BY <1>3, <1>5, <1>6, <1>7, <1>8 DEF Since

\* An event that is untouched after a step was so before it, and is unchanged.
LEMMA UntouchedKept ==
    ASSUME ReadTables, ReadTables', Written, NEW t, Since(t), NEW m \in Untouched(t)'
    PROVE  m \in Untouched(t) /\ m \in MemoryId /\ memory'[m] = memory[m]
<1>1. m \in DOMAIN t[1] /\ \A i \in DOMAIN revisions' : revisions'[i].memory = m => i <= Len(t[2])
  BY DEF Untouched, RevisionsOf
<1>2. /\ Len(memory) \in Nat /\ DOMAIN memory = 1 .. Len(memory)
      /\ Len(revisions) \in Nat /\ DOMAIN revisions = 1 .. Len(revisions)
  BY TablesAre
<1>3. Len(revisions') \in Nat /\ DOMAIN revisions' = 1 .. Len(revisions') BY TablesAreNext
<1>4. Len(t[1]) \in Nat /\ DOMAIN t[1] = 1 .. Len(t[1]) /\ Len(t[2]) \in Nat BY DEF Since
<1>5. m \in MemoryId BY <1>1, <1>2, <1>4 DEF Since, MemoryId
<1>6. \A i \in DOMAIN revisions : i \in DOMAIN revisions' /\ revisions'[i] = revisions[i]
  BY <1>2, <1>3 DEF Written
<1>7. m \in Untouched(t) BY <1>1, <1>6 DEF Untouched, RevisionsOf
<1>8. ~ \E i \in DOMAIN revisions' : i > Len(revisions) /\ revisions'[i].memory = m
  BY <1>1, <1>2, <1>3, <1>4 DEF Since
<1> QED BY <1>5, <1>7, <1>8 DEF Written

\* No event leaves its kind.
LEMMA KindGrows ==
    ASSUME ReadTables, ReadTables', Written, NEW types
    PROVE  /\ Kind(types) \subseteq Kind(types)'
           /\ Cardinality(Kind(types)) \in Nat /\ Cardinality(Kind(types))' \in Nat
           /\ Cardinality(Kind(types)) <= Cardinality(Kind(types))'
<1>1. MemoryId = 1 .. Len(memory) /\ MemoryId' = 1 .. Len(memory')
      /\ Len(memory) \in Nat /\ Len(memory') \in Nat
  BY TablesAre, TablesAreNext DEF MemoryId
<1>2. MemoryId \subseteq MemoryId' BY <1>1 DEF Written
<1>3. Kind(types) \subseteq Kind(types)' BY <1>2 DEF Kind, Written
<1>4. IsFiniteSet(1 .. Len(memory'))
  <2>1. 1 \in Int /\ Len(memory') \in Int BY <1>1
  <2> QED BY <2>1, FS_Interval
<1>5. PICK S, T : S = Kind(types) /\ T = Kind(types)' OBVIOUS
<1>6. T \subseteq 1 .. Len(memory') BY <1>1, <1>5 DEF Kind
<1>7. IsFiniteSet(T) BY <1>4, <1>6, FS_Subset
<1>8. S \subseteq T BY <1>3, <1>5
<1>9. IsFiniteSet(S) /\ Cardinality(S) <= Cardinality(T) BY <1>7, <1>8, FS_Subset
<1> QED BY <1>3, <1>5, <1>7, <1>9, FS_CardinalityType

LEMMA FoundKept ==
    ASSUME ReadTables, ReadTables', Written, NEW t, Since(t), NEW ids, NEW q \in Query,
           Found(t, ids, q)
    PROVE  Found(t, ids, q)'
<1>1. SUFFICES ASSUME NEW m \in Untouched(t)', m \in Matches(q)',
                      Cardinality(Kind(q.types))' <= q.limit
               PROVE  m \in ids
  BY DEF Found
<1>2. m \in Untouched(t) /\ m \in MemoryId /\ memory'[m] = memory[m] BY UntouchedKept
<1>3. m \in Matches(q) BY <1>1, <1>2 DEF Matches
<1>4. Cardinality(Kind(q.types)) <= q.limit
  <2>1. PICK a, b : a = Cardinality(Kind(q.types)) /\ b = Cardinality(Kind(q.types))' OBVIOUS
  <2>2. a \in Nat /\ b \in Nat /\ a <= b BY <2>1, KindGrows
  <2>3. q.limit \in Nat BY DEF Query
  <2> QED BY <1>1, <2>1, <2>2, <2>3
<1> QED BY <1>2, <1>3, <1>4 DEF Found

LEMMA ScoringKept ==
    ASSUME ReadTables, ReadTables', Written, NEW k, Reader(k), k.at = "score"
    PROVE  Scoring(k)'
<1>1. PICK q : q = Passes(k.policy)[k.pass] OBVIOUS
<1>2. Since(k.since) BY DEF Reader, Reading
<1>3. FoundBy(k.rows, q) /\ \A m \in Untouched(k.since) : m \in Matches(q) => m \in Ids(k.rows)
  BY <1>1 DEF Reader, Scoring
<1>4. FoundBy(k.rows, q)'
  <2>1. Kind(q.types) \subseteq Kind(q.types)' BY KindGrows
  <2>2. \A r \in k.rows : r.id \in MemoryId'
    <3>1. \A r \in k.rows : r.id \in Kind(q.types)' BY <1>3, <2>1 DEF FoundBy
    <3> QED BY <3>1 DEF Kind
  <2> QED BY <1>3, <2>1, <2>2 DEF FoundBy, EventRows
<1>5. ASSUME NEW m \in Untouched(k.since)', m \in Matches(q)' PROVE m \in Ids(k.rows)
  <2>1. m \in Untouched(k.since) /\ m \in MemoryId /\ memory'[m] = memory[m]
    BY <1>2, UntouchedKept
  <2>2. m \in Matches(q) BY <1>5, <2>1 DEF Matches
  <2> QED BY <1>3, <2>1, <2>2
<1>6. k.since # governanceVars' BY <1>2, SinceKept
<1>7. Ids(k.rows)' = Ids(k.rows) BY DEF Ids
<1> QED BY <1>1, <1>4, <1>5, <1>6, <1>7 DEF Scoring

LEMMA PoliciesAre == Policies \subseteq Policy
BY ContextAssumption DEF Policy

LEMMA ReaderKept ==
    ASSUME ReadTables, ReadTables', Written, NEW k, Reader(k)
    PROVE  Reader(k)'
<1>1. Reading(k) BY DEF Reader
<1>2. k.policy \in Policy /\ Since(k.since) BY <1>1, PoliciesAre DEF Reading
<1>3. Since(k.since)' /\ k.since # governanceVars' BY <1>2, SinceKept
<1>4. ASSUME NEW n \in 1 .. k.pass - 1
      PROVE  Found(k.since, Ids(k.got), Passes(k.policy)[n])'
  <2>1. n \in 1 .. Len(Passes(k.policy))
    <3>1. PICK N \in Nat : N = Len(Passes(k.policy)) BY <1>2, PassesAre
    <3>2. k.pass \in 1 .. N + 1 BY <1>1, <3>1 DEF Reading
    <3> QED BY <3>1, <3>2
  <2>2. Passes(k.policy)[n] \in Query BY <2>1, <1>2, PassesAre DEF GoodQuery
  <2>3. Found(k.since, Ids(k.got), Passes(k.policy)[n]) BY <1>1 DEF Reading
  <2>4. PICK ids, q : ids = Ids(k.got) /\ q = Passes(k.policy)[n] OBVIOUS
  <2>5. Found(k.since, ids, q)' BY <1>2, <2>2, <2>3, <2>4, FoundKept
  <2> QED BY <2>4, <2>5
<1>5. Reading(k)' BY <1>1, <1>3, <1>4 DEF Reading, GoodRows
<1>6. k.at = "score" => Scoring(k)' BY ScoringKept
<1> QED BY <1>5, <1>6 DEF Reader

\* Whoever reads tables that did not change reads the same.
LEMMA SameTables ==
    ASSUME UNCHANGED governanceVars
    PROVE  /\ memory' = memory /\ revisions' = revisions /\ links' = links /\ confs' = confs
           /\ governanceVars' = governanceVars
BY DEF governanceVars

LEMMA SameRows ==
    ASSUME UNCHANGED governanceVars, NEW q
    PROVE  /\ Matches(q)' = Matches(q)
           /\ Score(Matches(q), q, FALSE)' = Score(Matches(q), q, FALSE)
           /\ PassRows(q)' = PassRows(q)
<1>1. memory' = memory /\ revisions' = revisions /\ links' = links /\ confs' = confs
  BY SameTables
<1>2. Matches(q)' = Matches(q) BY <1>1 DEF Matches, MemoryId
<1>3. Score(Matches(q), q, FALSE)' = Score(Matches(q), q, FALSE)
  BY <1>1 DEF Score, Matches, MemoryId, Recency, UpdatedAt, RevisionsOf
<1>4. PassRows(q)' = PassRows(q)
  BY <1>1 DEF PassRows, Retrieved, Score, Matches, MemoryId, Recency, UpdatedAt, RevisionsOf,
              Related, EffectiveConfidence, ActiveRevisions, OperatorRevisions
<1> QED BY <1>2, <1>3, <1>4

LEMMA SameCollected ==
    ASSUME UNCHANGED governanceVars, NEW policy
    PROVE  Collected(policy)' = Collected(policy)
<1>1. memory' = memory /\ revisions' = revisions /\ links' = links /\ confs' = confs
  BY SameTables
<1> QED
  BY <1>1 DEF Collected, Retrieved, Score, Matches, MemoryId, Recency, UpdatedAt, RevisionsOf,
              Related, EffectiveConfidence, ActiveRevisions, OperatorRevisions

LEMMA SameContext ==
    ASSUME UNCHANGED governanceVars, NEW policy
    PROVE  Reconstruct(policy)' = Reconstruct(policy)
<1>1. memory' = memory /\ revisions' = revisions /\ links' = links /\ confs' = confs
      /\ governanceVars' = governanceVars
  BY SameTables
<1>2. Collected(policy)' = Collected(policy) BY SameCollected
<1> QED BY <1>1, <1>2 DEF Reconstruct, ContextOf, ContradictionsAmong

LEMMA SameSince ==
    ASSUME UNCHANGED governanceVars, NEW t
    PROVE  Since(t)' = Since(t) /\ Untouched(t)' = Untouched(t)
<1>1. memory' = memory /\ revisions' = revisions /\ links' = links /\ confs' = confs
  BY SameTables
<1>2. Since(t)' = Since(t) BY <1>1 DEF Since
<1>3. Untouched(t)' = Untouched(t) BY <1>1 DEF Untouched, RevisionsOf
<1> QED BY <1>2, <1>3

LEMMA SameFound ==
    ASSUME UNCHANGED governanceVars, NEW t, NEW ids, NEW q
    PROVE  /\ Found(t, ids, q)' = Found(t, ids, q)
           /\ FoundBy(ids, q)' = FoundBy(ids, q)
<1>1. memory' = memory /\ revisions' = revisions BY SameTables
<1>2. Found(t, ids, q)' = Found(t, ids, q)
  BY <1>1 DEF Found, Untouched, RevisionsOf, Matches, MemoryId, Kind
<1>3. FoundBy(ids, q)' = FoundBy(ids, q)
  BY <1>1 DEF FoundBy, EventRows, MemoryId, Kind
<1> QED BY <1>2, <1>3

LEMMA ReaderSame ==
    ASSUME UNCHANGED governanceVars, NEW k, Reader(k)
    PROVE  Reader(k)'
<1>1. governanceVars' = governanceVars BY SameTables
<1>2. /\ Since(k.since)' = Since(k.since) /\ Untouched(k.since)' = Untouched(k.since)
  BY SameSince
<1>3. Collected(k.policy)' = Collected(k.policy) BY SameCollected
<1>4. Reading(k) BY DEF Reader
<1>5. \A n \in 1 .. k.pass - 1 : Found(k.since, Ids(k.got), Passes(k.policy)[n])'
  <2> TAKE n \in 1 .. k.pass - 1
  <2>1. PICK ids, q : ids = Ids(k.got) /\ q = Passes(k.policy)[n] OBVIOUS
  <2>2. Found(k.since, ids, q) BY <1>4, <2>1 DEF Reading
  <2>3. Found(k.since, ids, q)' BY <2>2, SameFound
  <2> QED BY <2>1, <2>3
<1>6. Reading(k)' BY <1>1, <1>2, <1>3, <1>4, <1>5 DEF Reading
<1>7. ASSUME k.at = "score" PROVE Scoring(k)'
  <2>1. PICK q : q = Passes(k.policy)[k.pass] OBVIOUS
  <2>2. Scoring(k) BY <1>7 DEF Reader
  <2>3. /\ Matches(q)' = Matches(q)
        /\ Score(Matches(q), q, FALSE)' = Score(Matches(q), q, FALSE)
    BY SameRows
  <2>4. FoundBy(k.rows, q)' = FoundBy(k.rows, q) BY SameFound
  <2> QED BY <1>1, <1>2, <2>1, <2>2, <2>3, <2>4 DEF Scoring
<1> QED BY <1>6, <1>7 DEF Reader

LEMMA CallKept ==
    ASSUME ReadTables, ReadTables', UNCHANGED governanceVars \/ Written, NEW k, CallHolds(k)
    PROVE  CallHolds(k)'
<1>1. MemoryId \subseteq MemoryId'
  <2>1. CASE UNCHANGED governanceVars
    <3>1. memory' = memory BY <2>1, SameTables
    <3> QED BY <3>1 DEF MemoryId
  <2>2. CASE Written BY <2>2, TablesAre, TablesAreNext DEF MemoryId, Written
  <2> QED BY <2>1, <2>2
<1>2. CASE Reader(k)
  <2>1. CASE UNCHANGED governanceVars BY <2>1, <1>2, ReaderSame DEF CallHolds
  <2>2. CASE Written BY <2>2, <1>2, ReaderKept DEF CallHolds
  <2> QED BY <2>1, <2>2
<1>3. CASE ~ Reader(k) BY <1>3, <1>1 DEF CallHolds
<1> QED BY <1>2, <1>3

LEMMA ContextKept ==
    ASSUME ReadTables, ReadTables', UNCHANGED governanceVars \/ Written, NEW x, ContextHolds(x)
    PROVE  ContextHolds(x)'
<1>0. x.policy \in Policy /\ x.policy \in Policies /\ Since(x.since)
  BY PoliciesAre DEF ContextHolds
<1>1. PICK p, t : p = x.policy /\ t = x.since OBVIOUS
<1>2. CASE UNCHANGED governanceVars
  <2>1. Since(t)' = Since(t) BY <1>2, SameSince
  <2>2. Reconstruct(p)' = Reconstruct(p) BY <1>2, SameContext
  <2>3. governanceVars' = governanceVars BY <1>2, SameTables
  <2>4. \A n \in 1 .. Len(Passes(p)) : Found(t, x.activated, Passes(p)[n])'
    <3> TAKE n \in 1 .. Len(Passes(p))
    <3>1. PICK q : q = Passes(p)[n] OBVIOUS
    <3>2. Found(t, x.activated, q) BY <1>1, <3>1 DEF ContextHolds
    <3>3. Found(t, x.activated, q)' BY <3>2, <1>2, SameFound
    <3> QED BY <3>1, <3>3
  <2>5. Bounded(x.items, x.policy, x.kept, x.chars)' BY DEF ContextHolds, Bounded, Spent
  <2> QED BY <1>0, <1>1, <2>1, <2>2, <2>3, <2>4, <2>5 DEF ContextHolds
<1>3. CASE Written
  <2>1. Since(t)' /\ t # governanceVars' BY <1>0, <1>1, <1>3, SinceKept
  <2>2. \A n \in 1 .. Len(Passes(p)) : Found(t, x.activated, Passes(p)[n])'
    <3> TAKE n \in 1 .. Len(Passes(p))
    <3>1. PICK q : q = Passes(p)[n] OBVIOUS
    <3>2. q \in Query BY <1>0, <1>1, <3>1, PassesAre DEF GoodQuery
    <3>3. Found(t, x.activated, q) BY <1>1, <3>1 DEF ContextHolds
    <3>4. Found(t, x.activated, q)' BY <1>0, <1>1, <1>3, <3>2, <3>3, FoundKept
    <3> QED BY <3>1, <3>4
  <2>3. Bounded(x.items, x.policy, x.kept, x.chars)' BY DEF ContextHolds, Bounded, Spent
  <2> QED BY <1>0, <1>1, <2>1, <2>2, <2>3 DEF ContextHolds
<1> QED BY <1>2, <1>3

\* A step keeps the invariant when it keeps the tables typed, writes as it may, and
\* leaves a call or a context as they should be.
LEMMA ContextInvKept ==
    ASSUME ContextInv, ReadTables', UNCHANGED governanceVars \/ Written, UNCHANGED writers,
           DOMAIN call' = Callers,
           \A d \in Callers : call'[d] = call[d] \/ CallHolds(call[d])',
           UNCHANGED context \/ ContextHolds(context)'
    PROVE  ContextInv'
<1>0. ReadTables BY DEF ContextInv
<1>1. \A d \in Callers : CallHolds(call[d])'
  <2> TAKE d \in Callers
  <2>1. CASE call'[d] = call[d]
    <3>1. PICK k : k = call[d] OBVIOUS
    <3>2. CallHolds(k) BY <3>1 DEF ContextInv
    <3>3. CallHolds(k)' BY <1>0, <3>2, CallKept
    <3> QED BY <2>1, <3>1, <3>3
  <2>2. CASE CallHolds(call[d])' BY <2>2
  <2> QED BY <2>1, <2>2
<1>2. context' = NoContext \/ ContextHolds(context)'
  <2>1. CASE UNCHANGED context /\ context = NoContext BY <2>1 DEF NoContext
  <2>2. CASE UNCHANGED context /\ context # NoContext
    <3>1. PICK x : x = context OBVIOUS
    <3>2. ContextHolds(x) BY <3>1, <2>2 DEF ContextInv
    <3>3. ContextHolds(x)' BY <1>0, <3>2, ContextKept
    <3> QED BY <2>2, <3>1, <3>3
  <2>3. CASE ContextHolds(context)' BY <2>3
  <2> QED BY <2>1, <2>2, <2>3
<1> QED BY <1>1, <1>2 DEF ContextInv, NoContext

-----------------------------------------------------------------------------
(* Every step keeps the invariant *)

LEMMA SameTyping ==
    ASSUME ReadTables, UNCHANGED governanceVars
    PROVE  ReadTables'
BY SameTables DEF ReadTables, MemoryId

\* A call is begun, goes on or ends without a write.
LEMMA CallStep ==
    ASSUME ContextInv, UNCHANGED <<governanceVars, writers>>, NEW c \in Callers, NEW k,
           call' = [call EXCEPT ![c] = k], CallHolds(k),
           UNCHANGED context \/ ContextHolds(context)'
    PROVE  ContextInv'
<1>0. ReadTables /\ DOMAIN call = Callers BY DEF ContextInv
<1>1. UNCHANGED governanceVars /\ UNCHANGED writers OBVIOUS
<1>2. ReadTables' BY <1>0, <1>1, SameTyping
<1>3. CallHolds(k)' BY <1>0, <1>1, <1>2, CallKept
<1>4. call'[c] = k /\ DOMAIN call' = Callers /\ \A d \in Callers : d # c => call'[d] = call[d]
  BY <1>0
<1>5. \A d \in Callers : call'[d] = call[d] \/ CallHolds(call[d])'
  <2> TAKE d \in Callers
  <2>1. CASE d = c BY <2>1, <1>3, <1>4
  <2>2. CASE d # c BY <2>2, <1>4
  <2> QED BY <2>1, <2>2
<1> QED BY <1>1, <1>2, <1>4, <1>5, ContextInvKept

\* A call writes and returns, or is over at once.
LEMMA WriteStep ==
    ASSUME ContextInv, ReadTables', UNCHANGED governanceVars \/ Written,
           UNCHANGED <<context, writers>>, NEW c \in Callers,
           UNCHANGED call \/ call' = [call EXCEPT ![c] = Idle]
    PROVE  ContextInv'
<1>1. DOMAIN call = Callers BY DEF ContextInv
<1>2. DOMAIN call' = Callers /\ \A d \in Callers : call'[d] = call[d] \/ call'[d] = Idle
  BY <1>1
<1>3. \A d \in Callers : call'[d] = call[d] \/ CallHolds(call[d])' BY <1>2 DEF CallHolds, Idle
<1> QED BY <1>2, <1>3, ContextInvKept

LEMMA ReaderIsReader ==
    ASSUME NEW k, CallHolds(k), k.at \in {"fetch", "score", "assemble"}
    PROVE  Reader(k)
BY DEF CallHolds, Idle, UpdateCall, ApproveCall, ReviseCall, ContradictCall

LEMMA NowIsSince ==
    ASSUME ReadTables
    PROVE  Since(governanceVars)
<1>1. PICK t : t = governanceVars OBVIOUS
<1>2. t[1] = memory /\ t[2] = revisions /\ t[3] = links /\ t[4] = confs
  BY <1>1 DEF governanceVars
<1>3. /\ Len(memory) \in Nat /\ Len(revisions) \in Nat /\ Len(links) \in Nat
      /\ Len(confs) \in Nat
  BY TablesAre
<1> QED BY <1>1, <1>2, <1>3 DEF Since, ReadTables

LEMMA StartReconstructStep ==
    ASSUME ContextInv, NEW c \in Callers, NEW policy \in Policies,
           StartReconstruct(c, policy), UNCHANGED writers
    PROVE  ContextInv'
<1>0. ReadTables /\ policy \in Policy BY PoliciesAre DEF ContextInv
<1>1. PICK k : k = [at |-> "fetch", policy |-> policy, pass |-> 1, got |-> {},
                    since |-> governanceVars]
  OBVIOUS
<1>2. /\ call' = [call EXCEPT ![c] = k] /\ UNCHANGED <<governanceVars, writers>>
      /\ UNCHANGED context
  BY <1>1 DEF StartReconstruct, Begin
<1>3. k.at = "fetch" /\ k.policy = policy /\ k.pass = 1 /\ k.got = {} /\ k.since = governanceVars
  BY <1>1
<1>4. Len(Passes(policy)) \in Nat \ {0} BY <1>0, PassesAre
<1>5. GoodRows({}) BY FS_EmptySet DEF GoodRows
<1>6. Collected(policy)[0] = {} BY <1>0, CollectedIs
<1>7. Since(k.since) BY <1>0, <1>3, NowIsSince
<1>8. Reader(k) BY <1>3, <1>4, <1>5, <1>6, <1>7 DEF Reader, Reading
<1> QED BY <1>2, <1>8, CallStep DEF CallHolds

LEMMA FetchStep ==
    ASSUME ContextInv, NEW c \in Callers, Fetch(c), UNCHANGED writers
    PROVE  ContextInv'
<1>0. ReadTables BY DEF ContextInv
<1>1. PICK k : k = call[c] OBVIOUS
<1>2. k.at = "fetch" /\ CallHolds(k) BY <1>1 DEF Fetch, Resume, ContextInv
<1>3. Reading(k) BY <1>2, ReaderIsReader DEF Reader
<1>4. PICK q : q = Passes(k.policy)[k.pass] OBVIOUS
<1>5. PICK rows : rows = Score(Matches(q), q, FALSE) OBVIOUS
<1>6. PICK j : j = [at |-> "score", policy |-> k.policy, pass |-> k.pass, got |-> k.got,
                    since |-> k.since, rows |-> rows]
  OBVIOUS
<1>7. /\ call' = [call EXCEPT ![c] = j] /\ UNCHANGED <<governanceVars, writers>>
      /\ UNCHANGED context
  BY <1>1, <1>4, <1>5, <1>6 DEF Fetch, Continue
<1>8. /\ j.at = "score" /\ j.policy = k.policy /\ j.pass = k.pass /\ j.got = k.got
      /\ j.since = k.since /\ j.rows = rows
  BY <1>6
<1>9. k.policy \in Policy /\ Len(Passes(k.policy)) \in Nat
  BY <1>3, PoliciesAre, PassesAre DEF Reading
<1>10. k.pass \in 1 .. Len(Passes(k.policy)) BY <1>2, <1>3, <1>9 DEF Reading
<1>11. q \in Query BY <1>4, <1>9, <1>10, PassesAre DEF GoodQuery
<1>12. FoundBy(rows, q) /\ Ids(rows) = Matches(q) BY <1>0, <1>5, <1>11, MatchesFound
<1>13. Reading(j) BY <1>2, <1>3, <1>8 DEF Reading
<1>14. Scoring(j) BY <1>4, <1>5, <1>8, <1>12 DEF Scoring
<1> QED BY <1>7, <1>13, <1>14, CallStep DEF CallHolds, Reader

LEMMA FinishPassStep ==
    ASSUME ContextInv, NEW c \in Callers, FinishPass(c), UNCHANGED writers
    PROVE  ContextInv'
<1>0. ReadTables BY DEF ContextInv
<1>1. PICK k : k = call[c] OBVIOUS
<1>2. k.at = "score" /\ CallHolds(k) BY <1>1 DEF FinishPass, Resume, ContextInv
<1>3. Reading(k) /\ Scoring(k) BY <1>2, ReaderIsReader DEF Reader
<1>4. PICK q : q = Passes(k.policy)[k.pass] OBVIOUS
<1>5. PICK new : new = Retrieved(k.rows, q) OBVIOUS
<1>6. PICK got : got = AddUnseen(k.got, new) OBVIOUS
<1>7. PICK N : N = Len(Passes(k.policy)) OBVIOUS
<1>8. PICK j : j = [at |-> IF k.pass = N THEN "assemble" ELSE "fetch", policy |-> k.policy,
                    pass |-> k.pass + 1, since |-> k.since, got |-> got]
  OBVIOUS
<1>9. /\ call' = [call EXCEPT ![c] = j] /\ UNCHANGED <<governanceVars, writers>>
      /\ UNCHANGED context
  BY <1>1, <1>4, <1>5, <1>6, <1>7, <1>8 DEF FinishPass, Continue
<1>10. /\ j.at = (IF k.pass = N THEN "assemble" ELSE "fetch") /\ j.policy = k.policy
       /\ j.pass = k.pass + 1 /\ j.since = k.since /\ j.got = got
  BY <1>8
<1>11. k.policy \in Policy /\ N \in Nat BY <1>3, <1>7, PoliciesAre, PassesAre DEF Reading
<1>12. k.pass \in 1 .. N BY <1>2, <1>3, <1>7, <1>11 DEF Reading
<1>13. GoodQuery(q) /\ q \in Query BY <1>4, <1>7, <1>11, <1>12, PassesAre DEF GoodQuery
<1>14. /\ FoundBy(k.rows, q)
       /\ \A m \in Untouched(k.since) : m \in Matches(q) => m \in Ids(k.rows)
       /\ k.since = governanceVars => k.rows = Score(Matches(q), q, FALSE)
  BY <1>3, <1>4 DEF Scoring
<1>15. GoodRows(new) BY <1>0, <1>5, <1>13, <1>14, RetrievedGood
<1>16. GoodRows(got) /\ Ids(got) = Ids(k.got) \cup Ids(new)
  BY <1>3, <1>6, <1>15, AddUnseenHas DEF Reading
<1>17. Found(k.since, Ids(got), q)
  <2>1. Cardinality(Kind(q.types)) <= q.limit => Ids(k.rows) \subseteq Ids(new)
    BY <1>0, <1>5, <1>13, <1>14, NothingCrowdedOut
  <2> QED BY <2>1, <1>14, <1>16 DEF Found
<1>18. \A n \in 1 .. k.pass : Found(k.since, Ids(got), Passes(k.policy)[n])
  <2> TAKE n \in 1 .. k.pass
  <2>1. CASE n = k.pass BY <2>1, <1>4, <1>17
  <2>2. CASE n # k.pass
    <3>1. n \in 1 .. k.pass - 1 BY <2>2, <1>11, <1>12
    <3>2. Found(k.since, Ids(k.got), Passes(k.policy)[n]) BY <3>1, <1>3 DEF Reading
    <3> QED BY <3>2, <1>16 DEF Found
  <2> QED BY <2>1, <2>2
<1>19. k.since = governanceVars => got = Collected(k.policy)[k.pass]
  <2> SUFFICES ASSUME k.since = governanceVars PROVE got = Collected(k.policy)[k.pass]
    OBVIOUS
  <2>1. new = PassRows(q) BY <1>5, <1>14 DEF PassRows
  <2>2. k.got = Collected(k.policy)[k.pass - 1] BY <1>3 DEF Reading
  <2>3. Collected(k.policy)[k.pass] = AddUnseen(Collected(k.policy)[k.pass - 1], PassRows(q))
    BY <1>0, <1>4, <1>7, <1>11, <1>12, CollectedIs
  <2> QED BY <2>1, <2>2, <2>3, <1>6
<1>20. /\ j.pass \in 1 .. N + 1 /\ j.pass - 1 = k.pass
       /\ j.at = "assemble" <=> j.pass = N + 1
  BY <1>10, <1>11, <1>12
<1>21. j.at \in {"fetch", "score", "assemble"} /\ j.at # "score" BY <1>10
<1>22. j.policy \in Policies /\ Since(j.since) BY <1>3, <1>10 DEF Reading
<1>23. Reading(j) BY <1>7, <1>10, <1>16, <1>18, <1>19, <1>20, <1>21, <1>22 DEF Reading
<1> QED BY <1>9, <1>21, <1>23, CallStep DEF CallHolds, Reader

LEMMA AssembleStep ==
    ASSUME ContextInv, NEW c \in Callers, Assemble(c), UNCHANGED writers
    PROVE  ContextInv'
<1>0. ReadTables BY DEF ContextInv
<1>1. PICK k : k = call[c] OBVIOUS
<1>2. k.at = "assemble" /\ CallHolds(k) BY <1>1 DEF Assemble, Resume, ContextInv
<1>3. Reading(k) BY <1>2, ReaderIsReader DEF Reader
<1>4. PICK x : x = ContextOf(k.policy, k.got, k.since) OBVIOUS
<1>5. /\ call' = [call EXCEPT ![c] = Idle] /\ UNCHANGED <<governanceVars, writers>>
      /\ context' = x
  BY <1>1, <1>4 DEF Assemble, Return
<1>6. x.policy = k.policy /\ x.since = k.since /\ x.activated = Ids(k.got)
  BY <1>4 DEF ContextOf
<1>7. k.policy \in Policy /\ Len(Passes(k.policy)) \in Nat
  BY <1>3, PoliciesAre, PassesAre DEF Reading
<1>8. k.pass - 1 = Len(Passes(k.policy)) BY <1>2, <1>3, <1>7 DEF Reading
<1>9. Bounded(x.items, x.policy, x.kept, x.chars)
  BY <1>3, <1>4, <1>7, WindowIsBounded DEF Reading
<1>10. k.since = governanceVars => x = Reconstruct(k.policy)
  BY <1>3, <1>4, <1>8 DEF Reading, Reconstruct
<1>11. ContextHolds(x) BY <1>3, <1>6, <1>8, <1>9, <1>10 DEF ContextHolds, Reading
<1>12. UNCHANGED governanceVars BY <1>5
<1>13. ReadTables' BY <1>0, <1>12, SameTyping
<1>14. ContextHolds(x)' BY <1>0, <1>11, <1>12, <1>13, ContextKept
<1>15. ContextHolds(context)' BY <1>5, <1>14
<1> QED BY <1>5, <1>15, CallStep DEF CallHolds

LEMMA RowAppended ==
    ASSUME NEW S, NEW s \in Seq(S), NEW x \in S
    PROVE  /\ Append(s, x) \in Seq(S) /\ Len(s) \in Nat /\ Len(Append(s, x)) = Len(s) + 1
           /\ DOMAIN s = 1 .. Len(s) /\ DOMAIN Append(s, x) = 1 .. Len(s) + 1
           /\ \A i \in 1 .. Len(s) : Append(s, x)[i] = s[i]
           /\ Append(s, x)[Len(s) + 1] = x
OBVIOUS

LEMMA AddOriginStep ==
    ASSUME ContextInv, NEW c \in Callers, NEW origin \in Origins, NEW status \in Statuses,
           AddOrigin(c, origin, status), UNCHANGED <<context, writers>>
    PROVE  ContextInv'
<1>0. ReadTables BY DEF ContextInv
<1>1. PICK row : row = [origin |-> origin, status |-> status, version |-> 1] OBVIOUS
<1>2. /\ memory' = Append(memory, row) /\ revisions' = revisions /\ links' = links
      /\ confs' = confs /\ call' = call
  BY <1>1 DEF AddOrigin, AddMemoryEvent
<1>3. row \in TypedRow
  <2>1. PICK m \in Memories : \E i \in DOMAIN m.events : origin = m.events[i].origin
    BY DEF Origins
  <2>b. PICK e : e = m.events OBVIOUS
  <2>2. PICK i \in DOMAIN e : origin = e[i].origin BY <2>1, <2>b
  <2>3. e \in Seq(TypedRow) BY <2>b, ContextAssumption DEF TypedRow
  <2>4. e[i] \in TypedRow BY <2>2, <2>3
  <2>a. origin \in Origin BY <2>2, <2>4 DEF TypedRow
  <2>5. status \in MemoryStatus BY GovernanceAssumption
  <2> QED BY <1>1, <2>a, <2>5 DEF TypedRow
<1>4. memory \in Seq(TypedRow) BY <1>0 DEF ReadTables
<1>5. /\ memory' \in Seq(TypedRow) /\ Len(memory) \in Nat /\ Len(memory') = Len(memory) + 1
      /\ DOMAIN memory = 1 .. Len(memory) /\ DOMAIN memory' = 1 .. Len(memory) + 1
      /\ \A i \in 1 .. Len(memory) : memory'[i] = memory[i]
  BY <1>2, <1>3, <1>4, RowAppended
<1>6. DOMAIN memory \subseteq DOMAIN memory' BY <1>5
<1>7. ReadTables' BY <1>0, <1>2, <1>5, <1>6 DEF ReadTables, MemoryId
<1>8. Len(revisions) \in Nat /\ Len(links) \in Nat /\ Len(confs) \in Nat BY <1>0, TablesAre
<1>9. Written BY <1>2, <1>5, <1>8 DEF Written, MemoryId
<1> QED BY <1>2, <1>7, <1>9, WriteStep

LEMMA StartUpdateStep ==
    ASSUME ContextInv, NEW c \in Callers, NEW m \in MemoryId, NEW status \in Statuses,
           StartUpdate(c, m, status), UNCHANGED <<context, writers>>
    PROVE  ContextInv'
<1>0. ReadTables BY DEF ContextInv
<1>1. PICK k : k = [at |-> "update", memory |-> m, old |-> memory[m].status,
                    version |-> memory[m].version, new |-> status]
  OBVIOUS
<1>2. call' = [call EXCEPT ![c] = k] /\ UNCHANGED governanceVars
  BY <1>1 DEF StartUpdate, Begin
<1>3. m \in Nat /\ memory[m] \in TypedRow /\ status \in MemoryStatus
  BY <1>0, TablesHave, GovernanceAssumption
<1>4. memory[m].status \in MemoryStatus /\ memory[m].version \in Nat BY <1>3 DEF TypedRow
<1>5. k \in UpdateCall BY <1>1, <1>3, <1>4 DEF UpdateCall
<1>6. k.memory = m BY <1>1
<1>7. CallHolds(k) BY <1>5, <1>6 DEF CallHolds
<1> QED BY <1>2, <1>7, CallStep

LEMMA UpdateStep ==
    ASSUME ContextInv, NEW c \in Callers, Update(c), UNCHANGED <<context, writers>>
    PROVE  ContextInv'
<1>0. ReadTables BY DEF ContextInv
<1>1. PICK k : k = call[c] OBVIOUS
<1>2. k.at = "update" /\ CallHolds(k) BY <1>1 DEF Update, Resume, ContextInv
<1>3. k \in UpdateCall /\ k.memory \in MemoryId
  BY <1>2 DEF CallHolds, Idle, ApproveCall, ReviseCall, ContradictCall, Reader, Reading
<1>4. PICK m, row : /\ m = k.memory
                    /\ row = [memory |-> k.memory, old |-> k.old, new |-> k.new,
                              version |-> k.version + 1]
  OBVIOUS
<1>5. /\ memory' = [memory EXCEPT ![m].status = k.new, ![m].version = k.version + 1]
      /\ revisions' = Append(revisions, row) /\ links' = links /\ confs' = confs
      /\ call' = [call EXCEPT ![c] = Idle]
  BY <1>1, <1>4 DEF Update, WriteStatus, Return
<1>6. k.memory \in Nat /\ k.old \in MemoryStatus /\ k.new \in MemoryStatus /\ k.version \in Nat
  BY <1>3 DEF UpdateCall
<1>7. row \in StatusRow /\ row.memory = m
  <2>1. k.version + 1 \in Nat BY <1>6
  <2> QED BY <1>4, <1>6, <2>1 DEF StatusRow
<1>8. /\ memory \in Seq(TypedRow) /\ revisions \in Seq(StatusRow) /\ m \in DOMAIN memory
      /\ Len(memory) \in Nat /\ DOMAIN memory = 1 .. Len(memory)
      /\ Len(links) \in Nat /\ Len(confs) \in Nat
  BY <1>0, <1>3, <1>4, TablesAre DEF ReadTables, MemoryId
<1>9. PICK new : new = [memory[m] EXCEPT !.status = k.new, !.version = k.version + 1] OBVIOUS
<1>10. new \in TypedRow /\ new.origin = memory[m].origin
  <2>1. memory[m] \in TypedRow BY <1>8
  <2>2. k.version + 1 \in Nat BY <1>6
  <2> QED BY <1>6, <1>9, <2>1, <2>2 DEF TypedRow
<1>11. memory' = [memory EXCEPT ![m] = new] BY <1>5, <1>8, <1>9
<1>12. /\ memory' \in Seq(TypedRow) /\ Len(memory') = Len(memory)
       /\ DOMAIN memory' = DOMAIN memory /\ memory'[m] = new
       /\ \A i \in DOMAIN memory : i # m => memory'[i] = memory[i]
  BY <1>8, <1>10, <1>11
<1>13. /\ revisions' \in Seq(StatusRow) /\ Len(revisions) \in Nat
       /\ Len(revisions') = Len(revisions) + 1
       /\ DOMAIN revisions = 1 .. Len(revisions) /\ DOMAIN revisions' = 1 .. Len(revisions) + 1
       /\ \A i \in 1 .. Len(revisions) : revisions'[i] = revisions[i]
       /\ revisions'[Len(revisions) + 1] = row
  BY <1>5, <1>7, <1>8, RowAppended
<1>14. ReadTables' BY <1>0, <1>5, <1>12, <1>13 DEF ReadTables, MemoryId
<1>15. \E i \in DOMAIN revisions' : i > Len(revisions) /\ revisions'[i].memory = m
  <2>1. Len(revisions) + 1 \in DOMAIN revisions' /\ Len(revisions) + 1 > Len(revisions)
    BY <1>13
  <2> QED BY <2>1, <1>7, <1>13
<1>16. \A i \in MemoryId : /\ memory'[i].origin = memory[i].origin
                           /\ memory'[i] = memory[i] \/ i = m
  BY <1>10, <1>12 DEF MemoryId
<1>17. \A e \in MemoryId : /\ memory'[e].origin = memory[e].origin
                           /\ \/ memory'[e] = memory[e]
                              \/ \E i \in DOMAIN revisions' :
                                   i > Len(revisions) /\ revisions'[i].memory = e
  BY <1>15, <1>16
<1>18. \A i \in DOMAIN revisions : revisions'[i] = revisions[i] BY <1>13
<1>19. Len(revisions) < Len(revisions') /\ Len(revisions) <= Len(revisions') BY <1>13
<1>20. /\ Len(memory) <= Len(memory') /\ Len(links) <= Len(links') /\ Len(confs) <= Len(confs')
  BY <1>5, <1>8, <1>12
<1>21. Written BY <1>5, <1>17, <1>18, <1>19, <1>20 DEF Written
<1> QED BY <1>5, <1>14, <1>21, WriteStep

\* A row of memory_links is inserted.
LEMMA LinkInserted ==
    ASSUME ReadTables, NEW s \in MemoryId, NEW t \in MemoryId, NEW rel \in Relationships,
           NEW att \in BOOLEAN, NEW seen \in Nat,
           links' = Append(links, LinkRow(s, t, rel, att, seen)),
           UNCHANGED <<memory, revisions, confs>>
    PROVE  ReadTables' /\ Written
<1>1. PICK row : row = LinkRow(s, t, rel, att, seen) OBVIOUS
<1>2. s \in Nat /\ t \in Nat BY TablesHave
<1>3. row \in AnyLink /\ row.source = s /\ row.target = t BY <1>1, <1>2 DEF LinkRow, AnyLink
<1>4. links \in Seq(AnyLink) /\ links' = Append(links, row) BY <1>1 DEF ReadTables
<1>5. /\ links' \in Seq(AnyLink) /\ Len(links) \in Nat /\ Len(links') = Len(links) + 1
      /\ DOMAIN links = 1 .. Len(links) /\ DOMAIN links' = 1 .. Len(links) + 1
      /\ \A l \in 1 .. Len(links) : links'[l] = links[l]
      /\ links'[Len(links) + 1] = row
  BY <1>3, <1>4, RowAppended
<1>6. \A l \in DOMAIN links' : l \in DOMAIN links \/ l = Len(links) + 1 BY <1>5
<1>7. \A l \in DOMAIN links' : {links'[l].source, links'[l].target} \subseteq MemoryId
  BY <1>3, <1>5, <1>6 DEF ReadTables
<1>8. ReadTables' BY <1>5, <1>7 DEF ReadTables, MemoryId
<1>9. Len(memory) \in Nat /\ Len(revisions) \in Nat /\ Len(confs) \in Nat BY TablesAre
<1>10. Written BY <1>5, <1>9 DEF Written
<1> QED BY <1>8, <1>10

LEMMA LinkEventsStep ==
    ASSUME ContextInv, NEW c \in Callers, NEW s \in MemoryId, NEW t \in MemoryId,
           NEW rel \in Relations, LinkEvents(c, s, t, rel), UNCHANGED <<context, writers>>
    PROVE  ContextInv'
<1>0. ReadTables BY DEF ContextInv
<1>1. /\ links' = Append(links, LinkRow(s, t, rel, FALSE, Len(revisions)))
      /\ UNCHANGED <<memory, revisions, confs>> /\ UNCHANGED call
  BY DEF LinkEvents
<1>2. Len(revisions) \in Nat BY <1>0, TablesAre
<1>4. rel \in Relationships BY GovernanceAssumption
<1>3. ReadTables' /\ Written BY <1>0, <1>1, <1>2, <1>4, LinkInserted
<1> QED BY <1>1, <1>3, WriteStep

LEMMA StartContradictionStep ==
    ASSUME ContextInv, NEW c \in Callers, NEW s \in MemoryId, NEW t \in MemoryId,
           StartContradiction(c, s, t), UNCHANGED <<context, writers>>
    PROVE  ContextInv'
<1>0. ReadTables BY DEF ContextInv
<1>1. PICK k : k = [at |-> "contradict", source |-> s, target |-> t, seen |-> Len(revisions)]
  OBVIOUS
<1>2. call' = [call EXCEPT ![c] = k] /\ UNCHANGED governanceVars
  BY <1>1 DEF StartContradiction, Begin
<1>3. s \in Nat /\ t \in Nat /\ Len(revisions) \in Nat BY <1>0, TablesHave, TablesAre
<1>4. k \in ContradictCall /\ k.source = s /\ k.target = t BY <1>1, <1>3 DEF ContradictCall
<1>5. CallHolds(k) BY <1>4 DEF CallHolds
<1> QED BY <1>2, <1>5, CallStep

LEMMA ContradictStep ==
    ASSUME ContextInv, NEW c \in Callers, Contradict(c), UNCHANGED <<context, writers>>
    PROVE  ContextInv'
<1>0. ReadTables BY DEF ContextInv
<1>1. PICK k : k = call[c] OBVIOUS
<1>2. k.at = "contradict" /\ CallHolds(k) BY <1>1 DEF Contradict, Resume, ContextInv
<1>3. k \in ContradictCall /\ k.source \in MemoryId /\ k.target \in MemoryId
  BY <1>2 DEF CallHolds, Idle, UpdateCall, ApproveCall, ReviseCall, Reader, Reading
<1>4. /\ links' = (IF LinkExists(k.source, k.target, "contradicts") THEN links
                   ELSE Append(links, LinkRow(k.source, k.target, "contradicts", TRUE, k.seen)))
      /\ call' = [call EXCEPT ![c] = Idle] /\ UNCHANGED <<memory, revisions, confs>>
  BY <1>1 DEF Contradict, Return
<1>5. CASE LinkExists(k.source, k.target, "contradicts")
  <2>1. UNCHANGED governanceVars BY <1>4, <1>5 DEF governanceVars
  <2>2. ReadTables' BY <1>0, <2>1, SameTyping
  <2> QED BY <1>4, <2>1, <2>2, WriteStep
<1>6. CASE ~ LinkExists(k.source, k.target, "contradicts")
  <2>1. links' = Append(links, LinkRow(k.source, k.target, "contradicts", TRUE, k.seen))
    BY <1>4, <1>6
  <2>2. k.seen \in Nat BY <1>3 DEF ContradictCall
  <2>4. "contradicts" \in Relationships BY DEF Relationships
  <2>3. ReadTables' /\ Written BY <1>0, <1>3, <1>4, <2>1, <2>2, <2>4, LinkInserted
  <2> QED BY <1>4, <2>3, WriteStep
<1> QED BY <1>5, <1>6

LEMMA RetractStep ==
    ASSUME ContextInv, NEW c \in Callers, NEW l \in DOMAIN links,
           RetractContradiction(c, l), UNCHANGED <<context, writers>>
    PROVE  ContextInv'
<1>0. ReadTables BY DEF ContextInv
<1>1. PICK row : row = [links[l] EXCEPT !.status = "retracted"] OBVIOUS
<1>2. /\ links' = [links EXCEPT ![l] = row] /\ links[l].status = "active"
      /\ UNCHANGED <<memory, revisions, confs>> /\ UNCHANGED call
  BY <1>1 DEF RetractContradiction
<1>3. /\ links \in Seq(AnyLink) /\ Len(links) \in Nat /\ DOMAIN links = 1 .. Len(links)
      /\ links[l] \in AnyLink /\ Len(memory) \in Nat /\ Len(revisions) \in Nat
      /\ Len(confs) \in Nat
  BY <1>0, TablesAre DEF ReadTables
<1>4. /\ row \in AnyLink /\ row.status = "retracted" /\ row.source = links[l].source
      /\ row.target = links[l].target
  BY <1>1, <1>3 DEF AnyLink
<1>5. /\ links' \in Seq(AnyLink) /\ Len(links') = Len(links) /\ DOMAIN links' = DOMAIN links
      /\ links'[l] = row /\ \A i \in DOMAIN links : i # l => links'[i] = links[i]
  BY <1>2, <1>3, <1>4
<1>6. \A i \in DOMAIN links' : {links'[i].source, links'[i].target} \subseteq MemoryId
  BY <1>0, <1>4, <1>5 DEF ReadTables
<1>7. ReadTables' BY <1>0, <1>2, <1>5, <1>6 DEF ReadTables, MemoryId
<1>8. links[l].status # "retracted" /\ links'[l].status = "retracted" BY <1>2, <1>4, <1>5
<1>9. Written BY <1>2, <1>3, <1>5, <1>4, <1>8 DEF Written
<1> QED BY <1>2, <1>7, <1>9, WriteStep

LEMMA StartReviseStep ==
    ASSUME ContextInv, NEW c \in Callers, NEW m \in MemoryId, NEW after \in Confidences,
           NEW type \in {"operator", "candidate"},
           StartRevise(c, m, after, type), UNCHANGED <<context, writers>>
    PROVE  ContextInv'
<1>0. ReadTables BY DEF ContextInv
<1>1. PICK k : k = [at |-> "revise", memory |-> m, before |-> EffectiveConfidence(m),
                    after |-> after, type |-> type, from |-> NoRevision]
  OBVIOUS
<1>2. call' = [call EXCEPT ![c] = k] /\ UNCHANGED governanceVars
  BY <1>1 DEF StartRevise, Begin
<1>3. m \in Nat /\ EffectiveConfidence(m) \in 1 .. 5 /\ after \in 1 .. 5 /\ NoRevision \in Nat
  BY <1>0, TablesHave, GovernanceAssumption DEF NoRevision
<1>4. k \in ReviseCall BY <1>1, <1>3 DEF ReviseCall
<1>5. k.memory = m BY <1>1
<1>6. CallHolds(k) BY <1>4, <1>5 DEF CallHolds
<1> QED BY <1>2, <1>6, CallStep

LEMMA StartApproveStep ==
    ASSUME ContextInv, NEW c \in Callers, NEW r \in DOMAIN confs,
           StartApprove(c, r), UNCHANGED <<context, writers>>
    PROVE  ContextInv'
<1>0. ReadTables BY DEF ContextInv
<1>1. PICK k : k = [at |-> "approve", memory |-> confs[r].memory, after |-> confs[r].after,
                    type |-> "operator", from |-> r]
  OBVIOUS
<1>2. call' = [call EXCEPT ![c] = k] /\ UNCHANGED governanceVars
  BY <1>1 DEF StartApprove, Begin
<1>3. confs[r] \in ConfidenceRow /\ confs[r].memory \in MemoryId /\ r \in Nat
  BY <1>0, TablesAre DEF ReadTables
<1>4. confs[r].memory \in Nat /\ confs[r].after \in 1 .. 5 BY <1>3 DEF ConfidenceRow
<1>5. k \in ApproveCall BY <1>1, <1>3, <1>4 DEF ApproveCall
<1>6. k.memory = confs[r].memory BY <1>1
<1>7. CallHolds(k) BY <1>3, <1>5, <1>6 DEF CallHolds
<1> QED BY <1>2, <1>7, CallStep

LEMMA ReadEffectiveStep ==
    ASSUME ContextInv, NEW c \in Callers, ReadEffective(c), UNCHANGED <<context, writers>>
    PROVE  ContextInv'
<1>0. ReadTables BY DEF ContextInv
<1>1. PICK k : k = call[c] OBVIOUS
<1>2. k.at = "approve" /\ CallHolds(k) BY <1>1 DEF ReadEffective, Resume, ContextInv
<1>3. k \in ApproveCall /\ k.memory \in MemoryId
  BY <1>2 DEF CallHolds, Idle, UpdateCall, ReviseCall, ContradictCall, Reader, Reading
<1>4. PICK b : b = EffectiveConfidence(k.memory) OBVIOUS
<1>5. PICK j : j = [at |-> "revise", memory |-> k.memory, after |-> k.after, before |-> b,
                    type |-> k.type, from |-> k.from]
  OBVIOUS
<1>6. call' = [call EXCEPT ![c] = j] /\ UNCHANGED governanceVars
  BY <1>1, <1>4, <1>5 DEF ReadEffective, Continue
<1>7. b \in 1 .. 5 BY <1>0, <1>3, <1>4, TablesHave
<1>8. j \in ReviseCall BY <1>3, <1>5, <1>7 DEF ReviseCall, ApproveCall
<1>9. j.memory = k.memory BY <1>5
<1>10. CallHolds(j) BY <1>3, <1>8, <1>9 DEF CallHolds
<1> QED BY <1>6, <1>10, CallStep

LEMMA WriteRevisionStep ==
    ASSUME ContextInv, NEW c \in Callers, WriteRevision(c), UNCHANGED <<context, writers>>
    PROVE  ContextInv'
<1>0. ReadTables BY DEF ContextInv
<1>1. PICK k : k = call[c] OBVIOUS
<1>2. k.at = "revise" /\ CallHolds(k) BY <1>1 DEF WriteRevision, Resume, ContextInv
<1>3. k \in ReviseCall /\ k.memory \in MemoryId
  BY <1>2 DEF CallHolds, Idle, UpdateCall, ApproveCall, ContradictCall, Reader, Reading
<1>4. PICK row, old : /\ row = [memory |-> k.memory, before |-> k.before, after |-> k.after,
                                type |-> k.type,
                                status |-> IF k.type = "operator" THEN "active" ELSE "proposed",
                                from |-> k.from]
                      /\ old = IF k.type = "operator" THEN SupersedeRevisions(k.memory)
                               ELSE confs
  OBVIOUS
<1>5. /\ confs' = Append(old, row) /\ UNCHANGED <<memory, revisions, links>>
      /\ call' = [call EXCEPT ![c] = Idle]
  BY <1>1, <1>4 DEF WriteRevision, Return
<1>6. row \in ConfidenceRow /\ row.memory = k.memory
  BY <1>3, <1>4 DEF ConfidenceRow, ReviseCall
<1>7. /\ confs \in Seq(ConfidenceRow) /\ Len(confs) \in Nat /\ DOMAIN confs = 1 .. Len(confs)
      /\ Len(memory) \in Nat /\ Len(revisions) \in Nat /\ Len(links) \in Nat
  BY <1>0, TablesAre DEF ReadTables
<1>8. \A m : SupersedeRevisions(m) \in Seq(ConfidenceRow) /\ Len(SupersedeRevisions(m)) = Len(confs)
        /\ \A i \in DOMAIN confs :
             /\ SupersedeRevisions(m)[i].memory = confs[i].memory
             /\ confs[i].status = "rejected" => SupersedeRevisions(m)[i].status = "rejected"
  <2> TAKE m
  <2>1. PICK s : s = SupersedeRevisions(m) OBVIOUS
  <2>2. DOMAIN s = 1 .. Len(confs) BY <1>7, <2>1 DEF SupersedeRevisions
  <2>3. ASSUME NEW i \in DOMAIN confs
        PROVE  /\ s[i] \in ConfidenceRow /\ s[i].memory = confs[i].memory
               /\ confs[i].status = "rejected" => s[i].status = "rejected"
    <3>1. confs[i] \in ConfidenceRow BY <1>7
    <3>2. CASE i \in ActiveRevisions(m)
      <4>1. s[i] = [confs[i] EXCEPT !.status = "superseded"] BY <2>1, <3>2 DEF SupersedeRevisions
      <4>2. confs[i].status = "active" BY <3>2 DEF ActiveRevisions
      <4> QED BY <3>1, <4>1, <4>2 DEF ConfidenceRow
    <3>3. CASE i \notin ActiveRevisions(m)
      <4>1. s[i] = confs[i] BY <2>1, <3>3 DEF SupersedeRevisions
      <4> QED BY <3>1, <4>1
    <3> QED BY <3>2, <3>3
  <2>4. s = [i \in 1 .. Len(confs) |-> s[i]] BY <1>7, <2>1, <2>2 DEF SupersedeRevisions
  <2>5. s \in Seq(ConfidenceRow) /\ Len(s) = Len(confs) BY <1>7, <2>2, <2>3, <2>4
  <2> QED BY <2>1, <2>3, <2>5
<1>9. /\ old \in Seq(ConfidenceRow) /\ Len(old) = Len(confs)
      /\ \A i \in DOMAIN confs : /\ old[i].memory = confs[i].memory
                                 /\ confs[i].status = "rejected" => old[i].status = "rejected"
  BY <1>4, <1>7, <1>8
<1>10. /\ confs' \in Seq(ConfidenceRow) /\ Len(confs') = Len(confs) + 1
       /\ DOMAIN confs' = 1 .. Len(confs) + 1
       /\ \A i \in 1 .. Len(confs) : confs'[i] = old[i]
       /\ confs'[Len(confs) + 1] = row
  BY <1>5, <1>6, <1>9, RowAppended
<1>11. \A i \in DOMAIN confs' : i \in DOMAIN confs \/ i = Len(confs) + 1 BY <1>7, <1>10
<1>12. \A i \in DOMAIN confs' : confs'[i].memory \in MemoryId
  BY <1>0, <1>3, <1>6, <1>7, <1>9, <1>10, <1>11 DEF ReadTables
<1>13. ReadTables' BY <1>0, <1>5, <1>10, <1>12 DEF ReadTables, MemoryId
<1>14. Written BY <1>5, <1>7, <1>9, <1>10 DEF Written
<1> QED BY <1>5, <1>13, <1>14, WriteStep

LEMMA RejectCandidateStep ==
    ASSUME ContextInv, NEW c \in Callers, NEW r \in DOMAIN confs,
           RejectCandidate(c, r), UNCHANGED <<context, writers>>
    PROVE  ContextInv'
<1>0. ReadTables BY DEF ContextInv
<1>1. PICK row : row = [confs[r] EXCEPT !.status = "rejected"] OBVIOUS
<1>2. /\ confs' = [confs EXCEPT ![r] = row] /\ confs[r].status = "proposed"
      /\ UNCHANGED <<memory, revisions, links>> /\ UNCHANGED call
  BY <1>1 DEF RejectCandidate
<1>3. /\ confs \in Seq(ConfidenceRow) /\ Len(confs) \in Nat /\ DOMAIN confs = 1 .. Len(confs)
      /\ confs[r] \in ConfidenceRow /\ Len(memory) \in Nat /\ Len(revisions) \in Nat
      /\ Len(links) \in Nat
  BY <1>0, TablesAre DEF ReadTables
<1>4. row \in ConfidenceRow /\ row.status = "rejected" /\ row.memory = confs[r].memory
  BY <1>1, <1>3 DEF ConfidenceRow
<1>5. /\ confs' \in Seq(ConfidenceRow) /\ Len(confs') = Len(confs) /\ DOMAIN confs' = DOMAIN confs
      /\ confs'[r] = row /\ \A i \in DOMAIN confs : i # r => confs'[i] = confs[i]
  BY <1>2, <1>3, <1>4
<1>6. \A i \in DOMAIN confs' : confs'[i].memory \in MemoryId
  BY <1>0, <1>4, <1>5 DEF ReadTables
<1>7. ReadTables' BY <1>0, <1>2, <1>5, <1>6 DEF ReadTables, MemoryId
<1>8. confs[r].status # "rejected" /\ confs'[r].status = "rejected" BY <1>2, <1>4, <1>5
<1>9. Written BY <1>2, <1>3, <1>4, <1>5, <1>8 DEF Written
<1> QED BY <1>2, <1>7, <1>9, WriteStep

LEMMA DieStep ==
    ASSUME ContextInv, NEW c \in Callers, Die(c), UNCHANGED <<governanceVars, context, writers>>
    PROVE  ContextInv'
<1>1. call' = [call EXCEPT ![c] = Idle] BY DEF Die, Return
<1>2. CallHolds(Idle) BY DEF CallHolds
<1> QED BY <1>1, <1>2, CallStep

LEMMA ContextInvInit == CallersInit /\ ContextInit => ContextInv
<1> SUFFICES ASSUME CallersInit, ContextInit PROVE ContextInv OBVIOUS
<1>1. PICK m \in Memories : memory = m.events /\ links = m.links BY DEF ContextInit
<1>2. /\ m.events \in Seq([origin : Origin, status : MemoryStatus, version : Nat])
      /\ m.links \in Seq([source : DOMAIN m.events, target : DOMAIN m.events,
                          relation : Relationships, status : {"active", "retracted"},
                          attributed : BOOLEAN, seen : Nat])
  BY ContextAssumption
<1>3. memory \in Seq(TypedRow) BY <1>1, <1>2 DEF TypedRow
<1>4. Len(memory) \in Nat /\ DOMAIN memory = 1 .. Len(memory) BY <1>3
<1>5. \A l \in DOMAIN links : /\ links[l] \in AnyLink
                              /\ {links[l].source, links[l].target} \subseteq DOMAIN memory
  <2> TAKE l \in DOMAIN links
  <2>1. links[l] \in [source : DOMAIN memory, target : DOMAIN memory,
                      relation : Relationships, status : {"active", "retracted"},
                      attributed : BOOLEAN, seen : Nat]
    <3>1. PICK R : R = [source : DOMAIN memory, target : DOMAIN memory,
                        relation : Relationships, status : {"active", "retracted"},
                        attributed : BOOLEAN, seen : Nat]
      OBVIOUS
    <3>2. links \in Seq(R) BY <1>1, <1>2, <3>1
    <3>3. links[l] \in R BY <3>2
    <3> QED BY <3>1, <3>3, Zenon
  <2> QED BY <2>1, <1>4 DEF AnyLink
<1>6. links \in Seq(AnyLink)
  <2>1. Len(links) \in Nat /\ DOMAIN links = 1 .. Len(links)
        /\ links = [l \in 1 .. Len(links) |-> links[l]]
    BY <1>1, <1>2
  <2> QED BY <2>1, <1>5
<1>7. /\ revisions = <<>> /\ confs = <<>> /\ context = NoContext BY DEF ContextInit
<1>8. /\ revisions \in Seq(StatusRow) /\ confs \in Seq(ConfidenceRow) /\ DOMAIN confs = {}
  BY <1>7
<1>9. ReadTables BY <1>3, <1>5, <1>6, <1>8 DEF ReadTables, MemoryId
<1>10. /\ writers \subseteq Callers /\ DOMAIN call = Callers /\ \A c \in Callers : call[c] = Idle
  BY DEF CallersInit
<1> QED BY <1>7, <1>9, <1>10 DEF ContextInv, CallHolds

LEMMA ReviewCallStep ==
    ASSUME ContextInv, NEW c \in Callers, ReviewCall(c), UNCHANGED <<context, writers>>
    PROVE  ContextInv'
<1>1. CASE \E m \in MemoryId, status \in Statuses : StartUpdate(c, m, status)
  BY <1>1, StartUpdateStep
<1>2. CASE Update(c) BY <1>2, UpdateStep
<1>3. CASE \E s, t \in MemoryId : \/ \E rel \in Relations : LinkEvents(c, s, t, rel)
                                  \/ StartContradiction(c, s, t)
  BY <1>3, LinkEventsStep, StartContradictionStep
<1>4. CASE Contradict(c) BY <1>4, ContradictStep
<1>5. CASE \E l \in DOMAIN links : RetractContradiction(c, l) BY <1>5, RetractStep
<1>6. CASE \E m \in MemoryId, after \in Confidences, type \in {"operator", "candidate"} :
             StartRevise(c, m, after, type)
  BY <1>6, StartReviseStep
<1>7. CASE \E r \in DOMAIN confs : StartApprove(c, r) \/ RejectCandidate(c, r)
  BY <1>7, StartApproveStep, RejectCandidateStep
<1>8. CASE ReadEffective(c) BY <1>8, ReadEffectiveStep
<1>9. CASE WriteRevision(c) BY <1>9, WriteRevisionStep
<1> QED BY <1>1, <1>2, <1>3, <1>4, <1>5, <1>6, <1>7, <1>8, <1>9 DEF ReviewCall

LEMMA ContextInvNext == ContextInv /\ [ContextNext]_contextVars => ContextInv'
<1> SUFFICES ASSUME ContextInv, [ContextNext]_contextVars PROVE ContextInv' OBVIOUS
<1>1. CASE UNCHANGED contextVars
  <2>1. UNCHANGED governanceVars /\ UNCHANGED <<context, writers, call>>
    BY <1>1 DEF contextVars
  <2>2. ReadTables' BY <2>1, SameTyping DEF ContextInv
  <2>3. DOMAIN call' = Callers /\ \A d \in Callers : call'[d] = call[d]
    BY <2>1 DEF ContextInv
  <2> QED BY <2>1, <2>2, <2>3, ContextInvKept
<1>2. CASE ContextNext
  <2>1. PICK c \in writers : ReconstructStep(c) \/ OtherStep(c) BY <1>2 DEF ContextNext
  <2>2. c \in Callers /\ UNCHANGED writers BY <1>2 DEF ContextNext, ContextInv
  <2>3. CASE ReconstructStep(c)
    BY <2>2, <2>3, StartReconstructStep, FetchStep, FinishPassStep, AssembleStep
    DEF ReconstructStep
  <2>4. CASE OtherStep(c)
    <3>1. UNCHANGED context BY <2>4 DEF OtherStep
    <3>2. CASE \E origin \in Origins, status \in Statuses : AddOrigin(c, origin, status)
      BY <3>1, <3>2, <2>2, AddOriginStep
    <3>3. CASE ReviewCall(c) BY <3>1, <3>3, <2>2, ReviewCallStep
    <3>4. CASE Die(c) /\ UNCHANGED governanceVars BY <3>1, <3>4, <2>2, DieStep
    <3> QED BY <2>4, <3>2, <3>3, <3>4 DEF OtherStep
  <2> QED BY <2>1, <2>3, <2>4
<1> QED BY <1>1, <1>2

\* Whatever other processes write, a reconstruction in progress holds what its passes
\* have read (reconstruct, activate_memory), and if nobody wrote since it began, it
\* holds what one undisturbed reading of the tables gives.
THEOREM ContextInvariant == ContextSpec => []ContextInv
BY ContextInvInit, ContextInvNext, PTL DEF ContextSpec

\* The window of a context keeps an item exactly when the items kept before it leave
\* room in the budget and the caps of its tier, its tiers come in order, no event is
\* in it twice but an unresolved governance event, and what was rejected is there
\* only as an investigation behind a link (apply_context_budget), for every policy
\* and whatever other processes write during the reconstruction.
THEOREM ContextsAreBounded == ContextSpec => []ContextIsBounded
<1>1. ContextInv => ContextIsBounded
  BY BoundedIsContext DEF ContextInv, ContextHolds
<1> QED BY <1>1, ContextInvariant, PTL

-----------------------------------------------------------------------------
(* What a context misses and what its verification reports *)

\* A pass that asks for an event finds it unless the events of its kind are too many.
LEMMA AskedIsActivated ==
    ASSUME ContextInv, context # NoContext, NEW q,
           \E n \in 1 .. Len(Passes(context.policy)) : Passes(context.policy)[n] = q,
           NEW m \in Untouched(context.since), m \in Matches(q),
           Cardinality(Kind(q.types)) <= q.limit
    PROVE  m \in context.activated
<1>1. PICK n \in 1 .. Len(Passes(context.policy)) : Passes(context.policy)[n] = q OBVIOUS
<1>2. Found(context.since, context.activated, Passes(context.policy)[n])
  BY DEF ContextInv, ContextHolds
<1> QED BY <1>1, <1>2 DEF Found

LEMMA UntouchedIsActivated ==
    ASSUME ContextInv, context # NoContext, NEW m \in Untouched(context.since)
    PROVE  LET policy == context.policy
               room(types) == Cardinality(Kind(types)) <= policy.candidates
               general == /\ memory[m].origin.confidence >= policy.min
                          /\ policy.tagged => memory[m].origin.tagged
           IN \/ /\ memory[m].origin.type \in GovernanceTypes
                 /\ memory[m].status \in Live /\ room(GovernanceTypes)
              \/ /\ policy.unresolved
                 /\ memory[m].status \in Unresolved /\ room(EventTypes)
              \/ /\ policy.investigations /\ memory[m].origin.type \in InvestigationTypes
                 /\ memory[m].status \in Live /\ memory[m].origin.confidence >= policy.min
                 /\ room(InvestigationTypes)
              \/ /\ policy.adaptations /\ memory[m].origin.type = "adaptation"
                 /\ general /\ room({"adaptation"})
              \/ /\ memory[m].origin.type \notin GovernanceTypes
                 /\ memory[m].status \in Live /\ room(EventTypes \ GovernanceTypes)
                 /\ general
              => m \in context.activated
<1> DEFINE policy == context.policy
           room(types) == Cardinality(Kind(types)) <= policy.candidates
           general == /\ memory[m].origin.confidence >= policy.min
                      /\ policy.tagged => memory[m].origin.tagged
<1>0. ReadTables /\ policy \in Policy /\ Since(context.since)
  BY PoliciesAre DEF ContextInv, ContextHolds
<1>1. m \in MemoryId
  <2>1. m \in DOMAIN context.since[1] BY DEF Untouched
  <2>2. DOMAIN context.since[1] = 1 .. Len(context.since[1]) /\ Len(context.since[1]) \in Nat
        /\ Len(context.since[1]) <= Len(memory)
    BY <1>0 DEF Since
  <2> QED BY <2>1, <2>2, <1>0, TablesAre DEF MemoryId
<1>2. /\ memory[m].origin.type \in EventTypes /\ memory[m].status \in MemoryStatus
      /\ memory[m].origin.confidence \in 1 .. 5
  <2>1. memory[m] \in TypedRow /\ memory[m].origin \in Origin BY <1>0, <1>1, TablesHave
  <2> QED BY <2>1 DEF TypedRow, Origin
<1> HIDE DEF policy
<1>3. ASSUME memory[m].origin.type \in GovernanceTypes, memory[m].status \in Live,
             room(GovernanceTypes)
      PROVE  m \in context.activated
  <2>1. PICK q : q = Rules(policy) OBVIOUS
  <2>2. /\ q.types = GovernanceTypes /\ q.statuses = Live /\ q.min = 1 /\ q.tagged = FALSE
        /\ q.limit = policy.candidates
    BY <2>1 DEF Rules, Asks
  <2>3. m \in Matches(q) BY <1>1, <1>2, <1>3, <2>2 DEF Matches
  <2>4. \E n \in 1 .. Len(Passes(policy)) : Passes(policy)[n] = q BY <2>1, <1>0, PassesAre
  <2> QED BY <1>3, <2>2, <2>3, <2>4, AskedIsActivated DEF policy
<1>4. ASSUME policy.unresolved, memory[m].status \in Unresolved, room(EventTypes)
      PROVE  m \in context.activated
  <2>1. PICK q : q = Opens(policy) OBVIOUS
  <2>2. /\ q.types = EventTypes /\ q.statuses = Unresolved /\ q.min = 1 /\ q.tagged = FALSE
        /\ q.limit = policy.candidates
    BY <2>1 DEF Opens, Asks
  <2>3. m \in Matches(q) BY <1>1, <1>2, <1>4, <2>2 DEF Matches
  <2>4. \E n \in 1 .. Len(Passes(policy)) : Passes(policy)[n] = q
    BY <2>1, <1>0, <1>4, PassesAre
  <2> QED BY <1>4, <2>2, <2>3, <2>4, AskedIsActivated DEF policy
<1>5. ASSUME policy.investigations, memory[m].origin.type \in InvestigationTypes,
             memory[m].status \in Live, memory[m].origin.confidence >= policy.min,
             room(InvestigationTypes)
      PROVE  m \in context.activated
  <2>1. PICK q : q = Inquiries(policy) OBVIOUS
  <2>2. /\ q.types = InvestigationTypes /\ q.statuses = Live /\ q.min = policy.min
        /\ q.tagged = FALSE /\ q.limit = policy.candidates
    BY <2>1 DEF Inquiries, Asks
  <2>3. m \in Matches(q) BY <1>1, <1>2, <1>5, <2>2 DEF Matches
  <2>4. \E n \in 1 .. Len(Passes(policy)) : Passes(policy)[n] = q
    BY <2>1, <1>0, <1>5, PassesAre
  <2> QED BY <1>5, <2>2, <2>3, <2>4, AskedIsActivated DEF policy
<1>6. ASSUME policy.adaptations, memory[m].origin.type = "adaptation", general,
             room({"adaptation"})
      PROVE  m \in context.activated
  <2>1. PICK q : q = Adaptations(policy) OBVIOUS
  <2>2. /\ q.types = {"adaptation"} /\ q.statuses = MemoryStatus /\ q.min = policy.min
        /\ q.tagged = policy.tagged /\ q.limit = policy.candidates
    BY <2>1 DEF Adaptations, Asks
  <2>3. m \in Matches(q) BY <1>1, <1>2, <1>6, <2>2 DEF Matches
  <2>4. \E n \in 1 .. Len(Passes(policy)) : Passes(policy)[n] = q
    BY <2>1, <1>0, <1>6, PassesAre
  <2> QED BY <1>6, <2>2, <2>3, <2>4, AskedIsActivated DEF policy
<1>7. ASSUME memory[m].origin.type \notin GovernanceTypes, memory[m].status \in Live,
             room(EventTypes \ GovernanceTypes), general
      PROVE  m \in context.activated
  <2>1. PICK q : q = General(policy) OBVIOUS
  <2>2. /\ q.types = EventTypes \ GovernanceTypes /\ q.statuses = Live /\ q.min = policy.min
        /\ q.tagged = policy.tagged /\ q.limit = policy.candidates
    BY <2>1 DEF General, Asks
  <2>3. m \in Matches(q) BY <1>1, <1>2, <1>7, <2>2 DEF Matches
  <2>4. \E n \in 1 .. Len(Passes(policy)) : Passes(policy)[n] = q BY <2>1, <1>0, PassesAre
  <2> QED BY <1>7, <2>2, <2>3, <2>4, AskedIsActivated DEF policy
<1> QED BY <1>3, <1>4, <1>5, <1>6, <1>7 DEF policy

\* What reconstruct would return now holds an excluded event only as an investigation.
LEMMA ExcludedLeaves ==
    ASSUME ReadTables, NEW policy \in Policy,
           NEW m \in IncludedIds(Reconstruct(policy).items, Reconstruct(policy).kept),
           memory[m].status \in Excluded
    PROVE  memory[m].origin.type \in InvestigationTypes
<1>1. PICK got, items : /\ got = Collected(policy)[Len(Passes(policy))]
                        /\ items = Items(policy, got)
  OBVIOUS
<1>2. PICK u : u = ApplyBudget(policy, items) OBVIOUS
<1>3. Reconstruct(policy).items = items /\ Reconstruct(policy).kept = u.kept
  BY <1>1, <1>2 DEF Reconstruct, ContextOf
<1>4. GoodRows(got) /\ Current(got)
  <2>1. PICK N \in Nat : N = Len(Passes(policy)) BY PassesAre
  <2>2. N \in 0 .. N BY <2>1
  <2> QED BY <1>1, <2>1, <2>2, CollectedIs
<1>5. Items0(items) /\ Tiered(got, items, 0, 5)
  BY <1>1, <1>4, ItemsAreSized, ItemsAreTiered
<1>6. Accounts(policy, items, Len(items), u) BY <1>2, <1>5, BudgetIsKept
<1>7. PICK i \in u.kept : items[i].tier \notin {2, 5} /\ m = items[i].row.id
  BY <1>3 DEF IncludedIds
<1>8. i \in 1 .. Len(items) BY <1>6, <1>7 DEF Accounts
<1>9. PICK r \in got : r = items[i].row /\ InSection(items[i].tier, r)
  BY <1>5, <1>7, <1>8 DEF Tiered
<1>10. items[i].tier \in {0, 1, 3, 4}
  <2>1. items[i] \in ItemSet BY <1>5, <1>8 DEF Tiered
  <2> QED BY <2>1, <1>7 DEF ItemSet
<1>11. r.status = memory[m].status /\ r.type = memory[m].origin.type
  BY <1>4, <1>7, <1>9 DEF Current
<1> QED BY <1>9, <1>10, <1>11 DEF InSection, Excluded, Unresolved

\* Reconstructions that do not differ verify without drift.
LEMMA SameIsNoDrift ==
    ASSUME NEW x, x = Reconstruct(x.policy)
    PROVE  Verify(x) = NoDrift
<1> DEFINE conf(y) == {<<y.items[i].row.id, y.items[i].row.confidence>> :
                         i \in {i \in y.kept : y.items[i].tier \notin {2, 5}}}
           old == IncludedIds(x.items, x.kept)
<1>1. Verify(x) =
        [added |-> old \ old, removed |-> old \ old,
         rescored |-> {m \in old \cap old : \E y \in conf(x) \ conf(x) : y[1] = m},
         contradicted |-> x.pairs \ x.pairs, retracted |-> x.pairs \ x.pairs]
  BY DEF Verify
<1> HIDE DEF conf, old
<1>2. old \ old = {} /\ x.pairs \ x.pairs = {}
      /\ {m \in old \cap old : \E y \in conf(x) \ conf(x) : y[1] = m} = {}
  OBVIOUS
<1> QED BY <1>1, <1>2 DEF NoDrift

LEMMA NothingIsMissed == ContextInv => ContextMissesNothing
<1> SUFFICES ASSUME ContextInv, context # NoContext PROVE ContextMissesNothing
  BY DEF ContextMissesNothing
<1>0. ReadTables /\ context.policy \in Policy /\ ContextHolds(context)
  BY PoliciesAre DEF ContextInv, ContextHolds
<1>1. PICK now : now = Reconstruct(context.policy) OBVIOUS
<1>2. /\ Verify(context).removed = IncludedIds(context.items, context.kept)
                                     \ IncludedIds(now.items, now.kept)
      /\ Verify(context).retracted = context.pairs \ now.pairs
  BY <1>1 DEF Verify
<1>3. governanceVars = context.since => Verify(context) = NoDrift
  <2> SUFFICES ASSUME governanceVars = context.since PROVE Verify(context) = NoDrift OBVIOUS
  <2>1. context = Reconstruct(context.policy) BY <1>0 DEF ContextHolds
  <2>2. PICK x : x = context OBVIOUS
  <2>3. x = Reconstruct(x.policy) BY <2>1, <2>2
  <2>4. Verify(x) = NoDrift BY <2>3, SameIsNoDrift
  <2> QED BY <2>2, <2>4
<1>4. ASSUME NEW m \in IncludedIds(context.items, context.kept),
             memory[m].status \in Excluded, memory[m].origin.type \notin InvestigationTypes
      PROVE  m \in Verify(context).removed
  <2>1. m \notin IncludedIds(now.items, now.kept) BY <1>0, <1>1, <1>4, ExcludedLeaves
  <2> QED BY <2>1, <1>2
<1>5. ASSUME NEW l \in context.pairs, links[l].status = "retracted"
      PROVE  l \in Verify(context).retracted
  <2>1. now.pairs \subseteq {k \in DOMAIN links : links[k].status = "active"}
    BY <1>1 DEF Reconstruct, ContextOf, ContradictionsAmong
  <2>2. l \notin now.pairs BY <2>1, <1>5
  <2> QED BY <2>2, <1>2
<1> QED BY <1>3, <1>4, <1>5, UntouchedIsActivated DEF ContextMissesNothing, Untouched, Kind

\* An event that other processes leave alone is activated when a pass of the policy
\* asks for its kind and that kind fits the candidate limit; a context that was read
\* undisturbed verifies without drift until something is written; and an included
\* event that was rejected since, or a contradiction that was retracted, is reported
\* (activate_memory and verify_assembly_against_current_db).
THEOREM ContextsMissNothing == ContextSpec => []ContextMissesNothing
BY NothingIsMissed, ContextInvariant, PTL

=============================================================================
