----------------------------- MODULE MCSessions -----------------------------
(* Sessions, policies, the contexts they assemble and the schema of the      *)
(* database that holds all of it, on small sets for TLC                      *)
EXTENDS CognitionSession, ContextAssembly, SchemaMigration

CONSTANTS c1, c2, k1, k2, x1, x2

\* the callers run the same code; no property names one of them, a key or a content
SessionSymmetry == Permutations({c1, c2}) \cup Permutations({k1, k2})
                       \cup Permutations({x1, x2})

Plain == [severity |-> "warning", detectors |-> {}, all |-> FALSE, min |-> 1, type |-> "any"]

\* one policy per way an evaluator decides
MCRules == {[class |-> "operator_request", conditions |-> Plain],
            [class |-> "governance_escalation",
             conditions |-> [Plain EXCEPT !.detectors = {"conflict", "stale"}, !.all = TRUE]],
            [class |-> "contradiction_change", conditions |-> [Plain EXCEPT !.min = 2]],
            [class |-> "confidence_revision", conditions |-> [Plain EXCEPT !.type = "operator"]],
            [class |-> "retrieval_drift", conditions |-> Plain]}

MCEvents == {[operator |-> TRUE, issues |-> {}, links |-> {1, 2}, revisions |-> {}],
             [operator |-> FALSE, issues |-> {<<"conflict", "critical">>, <<"stale", "warning">>},
              links |-> {1}, revisions |-> {<<1, "operator">>, <<2, "candidate">>}],
             [operator |-> FALSE, issues |-> {<<"conflict", "warning">>, <<"stale", "info">>},
              links |-> {}, revisions |-> {<<2, "candidate">>}]}

MCMaxLog == [single |-> [assemblies |-> 2, sessions |-> 1, transitions |-> 3,
                         policies |-> 1, decisions |-> 2],
             racing |-> [assemblies |-> 2, sessions |-> 1, transitions |-> 2,
                         policies |-> 1, decisions |-> 1]]

Reconstructing == \E d \in writers : call[d].at \in {"fetch", "score", "assemble"}

\* the writes that a reconstruction meets, or its context afterwards
Interference(c) ==
    /\ IF SingleWriter THEN context # NoContext ELSE context = NoContext
    /\ \/ \E m \in MemoryId, status \in Statuses : StartUpdate(c, m, status)
       \/ \E m \in MemoryId, after \in Confidences : StartRevise(c, m, after, "operator")
       \/ Update(c) \/ WriteRevision(c)
       \/ \E l \in DOMAIN links : RetractContradiction(c, l)

ContextArea(c) ==
    \/ /\ context = NoContext
       /\ Reconstructing => call[c] # Idle   \* readers do not meet
       /\ ReconstructStep(c)
    \/ Interference(c) /\ UNCHANGED context

\* events that the passes and the window tell apart
Row(type, status, confidence, size, tagged, related) ==
    [origin |-> [confidence |-> confidence, source |-> NoArtifact, type |-> type,
                 size |-> size, tagged |-> tagged, related |-> related],
     status |-> status, version |-> 1]

Kinds == {Row("governance_rule", "active", 2, 2, FALSE, {}),
          Row("architecture_decision", "active", 4, 1, FALSE, {}),
          Row("governance_rule", "proposed", 4, 1, TRUE, {}),
          Row("hypothesis", "active", 4, 2, TRUE, {1, 3}),
          Row("open_question", "deprecated", 4, 1, FALSE, {}),
          Row("incident", "active", 4, 2, TRUE, {9}),
          Row("incident", "unresolved", 2, 1, FALSE, {2}),
          Row("adaptation", "deprecated", 4, 1, TRUE, {})}

MCMemories ==
    [events : [1..3 -> Kinds], links : {<<LinkRow(1, 2, "supports", FALSE, 0)>>}]
      \cup [events : [1..2 -> {k \in Kinds : k.status \in Live}],
            links : {<<LinkRow(1, 2, "contradicts", TRUE, 0)>>}]

\* roomy, tight on candidates, tight on chars with sub-budgets, and selective
Wide == [tagged |-> FALSE, min |-> 1, unresolved |-> TRUE, investigations |-> TRUE,
         adaptations |-> TRUE, expand |-> TRUE, candidates |-> 5, chars |-> 9,
         entries |-> 9, governanceChars |-> 0, investigationChars |-> 0, ruleChars |-> 0,
         decisionChars |-> 0, workflows |-> <<1>>, runtimes |-> <<1>>]

MCPolicies ==
    {Wide,
     [Wide EXCEPT !.candidates = 2, !.unresolved = FALSE, !.governanceChars = 2,
                  !.investigationChars = 1],
     [Wide EXCEPT !.chars = 6, !.entries = 3, !.ruleChars = 3, !.decisionChars = 1],
     [Wide EXCEPT !.candidates = 1, !.tagged = TRUE, !.min = 3, !.adaptations = FALSE,
                  !.investigations = FALSE, !.expand = FALSE]}

\* what a context holds, sessions that callers move on themselves, sessions that
\* policies move on, and init_db, which runs before any of them
VARIABLE area

Areas == {"context", "timeline", "policies", "schema"}

\* racing writers log the assemblies before a session opens: the steps commute
AssembliesFirst == \/ SingleWriter \/ sessions' = <<>>
                   \/ \A c \in Callers : call'[c].at \notin {"find", "log"}

\* racing writers leave from_assembly_id to the session
InferredFrom == SingleWriter \/ \A c \in Callers : call'[c].at = "session" =>
                                                   call'[c].from = None

MoveOn(c) ==
    /\ SessionStep(c)
    /\ area = "timeline" => policies' = <<>> /\ AssembliesFirst /\ InferredFrom
    /\ area = "policies" =>
         /\ call[c] = Idle /\ call'[c] # Idle => call'[c].exec # NoExecution
         /\ \A a \in DOMAIN asms' : asms'[a].key = asms'[1].key

vars == <<sessionVars, governanceVars, context, schemaVars, writers, call, area>>

Init ==
    /\ CallersInit /\ SessionInit /\ SchemaInit
    /\ area \in Areas
    /\ area # "schema" => db.versions = <<>>
    /\ IF area = "context" THEN ContextInit /\ Len(memory) <= Bound(3, 2)
                           ELSE GovernanceInit /\ context = NoContext

Step(c) ==
    \/ /\ area \in {"timeline", "policies"}
       /\ MoveOn(c) /\ UNCHANGED <<governanceVars, context, schemaVars>>
    \/ area = "context" /\ ContextArea(c) /\ UNCHANGED <<sessionVars, schemaVars>>
    \/ area = "schema" /\ SchemaStep(c) /\ UNCHANGED <<sessionVars, governanceVars, context>>

Next == (\E c \in writers : Step(c)) /\ UNCHANGED <<writers, area>>

Spec == Init /\ [][Next]_vars

=============================================================================
