------------------------- MODULE ActivationTriggers -------------------------
(***************************************************************************)
(* session/activation_policy.py evaluate_trigger: whether a policy fires   *)
(* for an event.  A pure function of the policy row and of an event that   *)
(* the caller collected.                                                   *)
(***************************************************************************)
EXTENDS Naturals, FiniteSets

PolicyStatus == {"candidate", "active", "superseded"}

\* _SEVERITY_ORDER of an issue; any other severity never qualifies ...
Severity == [critical |-> 0, warning |-> 1, info |-> 2, other |-> 999]

\* ... and any other min_severity is taken for a warning
MinSeverity == [Severity EXCEPT !.other = Severity.warning]

\* what an evaluation returns; `artifacts' are the triggering ids, sorted
Outcome(fired, artifacts) == [fired |-> fired, artifacts |-> artifacts]

NotFired == Outcome(FALSE, {})

\* _eval_operator_request
EvalOperatorRequest(event) == Outcome(event.operator, {})

\* _eval_governance_escalation: issues are pairs of a detector and a severity
EvalGovernanceEscalation(conditions, event) ==
    LET severe == {i \in event.issues : Severity[i[2]] <= MinSeverity[conditions.severity]}
        named == {i \in severe : i[1] \in conditions.detectors}
    IN IF severe = {} THEN NotFired
       ELSE IF conditions.detectors = {} THEN Outcome(TRUE, {})
       ELSE Outcome(/\ named # {}
                    /\ conditions.all => conditions.detectors \subseteq {i[1] : i \in named},
                    {})

\* _eval_contradiction_change
EvalContradictionChange(conditions, event) ==
    IF Cardinality(event.links) < conditions.min THEN NotFired
    ELSE Outcome(TRUE, event.links)

\* _eval_confidence_revision: revisions are pairs of an id and a type
EvalConfidenceRevision(conditions, event) ==
    LET qualified == {r \in event.revisions : conditions.type \in {"any", r[2]}} IN
    IF Cardinality(qualified) < conditions.min THEN NotFired
    ELSE Outcome(TRUE, {r[1] : r \in qualified})

\* evaluate_trigger
EvaluateTrigger(policy, event) ==
    IF policy.status # "active" THEN NotFired
    ELSE CASE policy.class = "operator_request" -> EvalOperatorRequest(event)
           [] policy.class = "governance_escalation" ->
                EvalGovernanceEscalation(policy.conditions, event)
           [] policy.class = "contradiction_change" ->
                EvalContradictionChange(policy.conditions, event)
           [] policy.class = "confidence_revision" ->
                EvalConfidenceRevision(policy.conditions, event)
           [] OTHER -> NotFired

=============================================================================
