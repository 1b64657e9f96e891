------------------------------ MODULE Ontology ------------------------------
(***************************************************************************)
(* memory/ontology.py: the terms of one vocabulary, their aliases, and the *)
(* records written with a term.  A term leaves `active' once and never     *)
(* returns; alias resolution is a single lookup.                           *)
(***************************************************************************)
EXTENDS DatabaseCallers

CONSTANTS
    Words,      \* strings that may be registered as terms or as aliases
    NoWord,
    MaxUses,    \* bound: records written with a term
    MaxClock    \* bound: seconds; timestamps have no finer resolution

ASSUME OntologyAssumption == /\ NoWord \notin Words
                             /\ MaxUses \in Nat /\ MaxClock \in Nat

VARIABLES
    terms,    \* ontology_terms, by term
    aliases,  \* ontology_aliases, by alias: the term it stands for
    uses,     \* memory_events, memory_links and policies: the term, created_at and
              \* (ghost) the status the term had
    clock,
    left,     \* ghost: the order in which terms left `active', 0 before that
    banned    \* ghost: the aliases a term had when it was first forbidden

ontologyVars == <<terms, aliases, uses, clock, left, banned>>

TermStatus == {"active", "deprecated", "superseded", "forbidden"}

OntologyInit ==
    /\ terms = <<>> /\ aliases = <<>> /\ uses = <<>>
    /\ clock = 0
    /\ left = [w \in Words |-> 0] /\ banned = [w \in Words |-> {}]

Registered(w) == w \in DOMAIN terms
IsActive(w) == Registered(w) /\ terms[w].status = "active"
AliasesOf(w) == {a \in DOMAIN aliases : aliases[a] = w}

\* an INSERT into a table with a UNIQUE key: a second row of the key is refused
InsertRow(table, key, row) ==
    [k \in DOMAIN table \cup {key} |-> IF k \in DOMAIN table THEN table[k] ELSE row]

\* the terms that have left active
Gone == {v \in Words : left[v] # 0}

\* w leaves active, unless it has left before
Leave(w) ==
    left' = IF left[w] # 0 THEN left
            ELSE [left EXCEPT ![w] = 1 + Cardinality(Gone)]

-----------------------------------------------------------------------------
\* register_term: not an alias ...
StartRegister(c, w) ==
    /\ w \notin DOMAIN aliases
    /\ Begin(c, [at |-> "register", word |-> w])
    /\ UNCHANGED ontologyVars

\* ... and UNIQUE(vocabulary_name, term) refuses a second row
Register(c) ==
    LET w == call[c].word IN
    /\ Resume(c, "register")
    /\ terms' = InsertRow(terms, w, [status |-> "active", superseded_by |-> NoWord,
                                     deprecated_at |-> 0])
    /\ Return(c)
    /\ UNCHANGED <<aliases, uses, clock, left, banned>>

\* add_alias: a registered target that is not forbidden, and no shadowing ...
StartAlias(c, a, w) ==
    /\ a # w
    /\ Registered(w) /\ terms[w].status # "forbidden"
    /\ ~Registered(a)
    /\ Begin(c, [at |-> "alias", alias |-> a, word |-> w])
    /\ UNCHANGED ontologyVars

\* ... and UNIQUE(vocabulary_name, alias)
AddAlias(c) ==
    /\ Resume(c, "alias")
    /\ aliases' = InsertRow(aliases, call[c].alias, call[c].word)
    /\ Return(c)
    /\ UNCHANGED <<terms, uses, clock, left, banned>>

\* deprecate_term of an active term; the timestamp is taken before the UPDATE
StartDeprecate(c, w) ==
    /\ IsActive(w)
    /\ Begin(c, [at |-> "leave", word |-> w, to |-> "deprecated", by |-> NoWord,
                 now |-> clock])
    /\ UNCHANGED ontologyVars

\* mutant: the replacement only has to be registered
StartSupersedeLax(c, w, by) ==
    /\ IsActive(w) /\ by # w
    /\ Registered(by)
    /\ Begin(c, [at |-> "leave", word |-> w, to |-> "superseded", by |-> by,
                 now |-> clock])
    /\ UNCHANGED ontologyVars

\* supersede_term of an active term by another active one
StartSupersede(c, w, by) ==
    /\ IsActive(w) /\ by # w
    /\ IsActive(by)
    /\ Begin(c, [at |-> "leave", word |-> w, to |-> "superseded", by |-> by,
                 now |-> clock])
    /\ UNCHANGED ontologyVars

\* the UPDATE of either; deprecate_term leaves superseded_by alone
LeaveActive(c) ==
    LET k == call[c] IN
    /\ Resume(c, "leave")
    /\ terms' = [terms EXCEPT ![k.word] =
                    [status |-> k.to, deprecated_at |-> k.now,
                     superseded_by |-> IF k.to = "superseded" THEN k.by ELSE @.superseded_by]]
    /\ Leave(k.word)
    /\ Return(c)
    /\ UNCHANGED <<aliases, uses, clock, banned>>

\* forbid_term, from any status; terms are never deleted, so one step.  The
\* aliases stay
Forbid(c, w) ==
    /\ call[c] = Idle /\ Registered(w)
    /\ terms' = [terms EXCEPT ![w].status = "forbidden", ![w].deprecated_at = clock]
    /\ Leave(w)
    /\ banned' = IF terms[w].status = "forbidden" THEN banned
                 ELSE [banned EXCEPT ![w] = AliasesOf(w)]
    /\ UNCHANGED <<aliases, uses, clock, call>>

\* a record written with a registered term: no writer consults the ontology
Use(c, w) ==
    /\ call[c] = Idle /\ Registered(w)
    /\ Len(uses) < Bound(MaxUses, 0)
    /\ uses' = Append(uses, [word |-> w, at |-> clock, status |-> terms[w].status])
    /\ UNCHANGED <<terms, aliases, clock, left, banned, call>>

Tick ==
    /\ clock < Bound(MaxClock, 0)
    /\ clock' = clock + 1
    /\ UNCHANGED <<terms, aliases, uses, left, banned, call>>

OntologyStep(c) ==
    \/ \E w \in Words :
         \/ StartRegister(c, w) \/ StartDeprecate(c, w) \/ Forbid(c, w) \/ Use(c, w)
         \/ \E v \in Words : StartAlias(c, v, w) \/ StartSupersede(c, w, v)
    \/ Register(c) \/ AddAlias(c) \/ LeaveActive(c)
    \/ Die(c) /\ UNCHANGED ontologyVars

OntologyNext == (Tick \/ \E c \in writers : OntologyStep(c)) /\ UNCHANGED writers

OntologySpec ==
    CallersInit /\ OntologyInit /\ [][OntologyNext]_<<ontologyVars, writers, call>>

-----------------------------------------------------------------------------
\* resolve_alias: one lookup
ResolveAlias(a) == IF a \in DOMAIN aliases THEN aliases[a] ELSE NoWord

\* detect_alias_conflicts
DetectAliasConflicts == {a \in DOMAIN aliases : Registered(a)}

\* detect_deprecated_event_type_usage, ..._relationship_usage and
\* ..._trigger_class_usage: one query over three tables
DetectDeprecatedUsage ==
    {u \in DOMAIN uses : LET t == terms[uses[u].word] IN
                         /\ t.status \in {"deprecated", "superseded"}
                         /\ uses[u].at > t.deprecated_at}

(* Properties *)

\* add_alias, supersede_term, forbid_term and the usage reports, for a single
\* writer: an alias resolves in one lookup to a registered term and is never a
\* term itself; the replacement of a term is active or left active after it, so
\* supersession has no cycle; a forbidden term gets no alias after the ban,
\* though it keeps those it had; and the report never names a record that was
\* written while its term was active, nor misses one that was written in a later
\* second than a deprecation that still stands.  Racing calls still keep every
\* alias on a registered term.
TermsStayResolvable ==
    /\ \A a \in DOMAIN aliases : Registered(ResolveAlias(a))
    /\ SingleWriter =>
         /\ DetectAliasConflicts = {}
         /\ \A a \in DOMAIN aliases : ResolveAlias(ResolveAlias(a)) = NoWord
         /\ \A w \in DOMAIN terms :
              LET by == terms[w].superseded_by IN
              /\ by # NoWord => IsActive(by) \/ left[by] > left[w]
              /\ terms[w].status = "superseded" => by # NoWord
              /\ terms[w].status = "forbidden" => AliasesOf(w) \subseteq banned[w]
         /\ \A u \in DOMAIN uses :
              /\ u \in DetectDeprecatedUsage => uses[u].status # "active"
              /\ uses[u].status # "active" /\ terms[uses[u].word].status # "forbidden"
                   => uses[u].at >= terms[uses[u].word].deprecated_at

=============================================================================
