------------------------------ MODULE MCMemory ------------------------------
(* The memory database on small sets for TLC.  Each behaviour exercises one  *)
(* area of the calls that ArtifactSpec mixes, or the ontology: the areas     *)
(* below share the events and their revisions only, so that their other      *)
(* steps commute.                                                            *)
EXTENDS GovernedArtifacts, Ontology

CONSTANTS c1, c2, m1, m2, w1, w2, w3

VARIABLE area

Areas == {"governance", "embeddings", "supersession", "seeding", "ontology"}

\* the callers run the same code and no property names one of them
MemorySymmetry == Permutations({c1, c2}) \cup Permutations({m1, m2})
                      \cup Permutations({w1, w2, w3})

\* the events the artifacts are about
Events(c, n) ==
    /\ Len(memory) < n
    /\ AddEvent(c, 2, "active")
    /\ UNCHANGED artifactVars

\* the operator links a seeded event: before, between and after the links of the
\* seeding, to the same events and to others
LinkSeed(c) ==
    /\ \E s, t \in MemoryId, rel \in Relations :
         memory[s].origin.source # NoArtifact /\ LinkEvents(c, s, t, rel)
    /\ UNCHANGED artifactVars

\* the review of seeded events
ReviewSeed(c) ==
    /\ \/ \E m \in DetectUnreviewedSeeds : StartUpdate(c, m, "active")
       \/ Update(c)
    /\ UNCHANGED artifactVars

MemoryStep(c) ==
    \/ /\ area = "governance"
       /\ GovernanceStep(c) /\ UNCHANGED artifactVars
       /\ Len(memory') <= 2
    \/ /\ area = "embeddings"
       /\ Events(c, Bound(2, 1)) \/ EmbeddingStep(c) \/ ArtifactDeath(c)
    \/ /\ area = "supersession"
       /\ CompressionStep(c) \/ ArtifactDeath(c)
    \/ /\ area = "seeding"
       /\ Events(c, 2) \/ LinkSeed(c) \/ ReviewSeed(c) \/ CompressionStep(c)
            \/ SeedingStep(c) \/ ArtifactDeath(c)
       /\ Len(arts') <= Bound(2, 1)

vars == <<governanceVars, artifactVars, ontologyVars, writers, call, area>>

Init ==
    /\ CallersInit /\ GovernanceInit /\ ArtifactsInit /\ OntologyInit
    /\ area \in Areas

Next ==
    /\ \/ /\ \E c \in writers : MemoryStep(c)
          /\ UNCHANGED <<ontologyVars, writers>>
       \/ /\ area = "ontology" /\ OntologyNext
          /\ UNCHANGED <<governanceVars, artifactVars>>
    /\ UNCHANGED area

Spec == Init /\ [][Next]_vars

=============================================================================
