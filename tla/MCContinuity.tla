---------------------------- MODULE MCContinuity ----------------------------
(* Two sites and the bundles between them on small sets for TLC.  The file  *)
(* and the semantic candidates share the events only: a behaviour has one.  *)
EXTENDS ContinuityBundle

CONSTANTS c1, c2, here, there, x1, x2, k1, k2

\* nothing names a caller, a site, a content or a candidate
ContinuitySymmetry == Permutations({c1, c2}) \cup Permutations({here, there})
                          \cup Permutations({x1, x2}) \cup Permutations({k1, k2})

\* two adapters found the same: their candidates differ in nothing an import compares
MCFields == [x \in Texts \cup Candidates \cup {Note, Seed} |->
               IF x \in Candidates THEN "found" ELSE x]

\* racing writers export everything, read a file that does not change, record one
\* candidate at each site, and seed no events
MCSingle == [events |-> 3, files |-> 2, chunks |-> 2, cands |-> 2,
             filters |-> BOOLEAN, rewrites |-> TRUE]
MCRacing == [events |-> 2, files |-> 1, chunks |-> 1, cands |-> 1,
             filters |-> {FALSE}, rewrites |-> FALSE]

VARIABLE area

Areas == {"file", "semantic"}

vars == <<continuityVars, writers, call, area>>

Init == CallersInit /\ ContinuityInit /\ area \in Areas

AreaStep(c) ==
    \/ area = "semantic" /\ NoteStep(c)
    \/ area = "file" /\ SingleWriter /\ (NoteStep(c) \/ ReviewStep(c))
    \/ area = "file" /\ FileStep(c)
    \/ area = "semantic" /\ (SemanticStep(c) \/ (SingleWriter /\ SeedStep(c)))

Next ==
    /\ UNCHANGED <<writers, area>>
    /\ \E c \in writers :
         \/ AreaStep(c) /\ UNCHANGED <<bundles, landed>>
         \/ BundleStep(c)

Spec == Init /\ [][Next]_vars

=============================================================================
