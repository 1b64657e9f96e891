--------------------------- MODULE DatabaseProofs ---------------------------
(***************************************************************************)
(* Theorems about the parts of the memory database that stand beside the   *)
(* governed artifacts, for any number of callers and calls that die        *)
(* anywhere: the ontology, the schema and its migration, the sessions with *)
(* the policies that write to them, and the bundles between databases.     *)
(* Each part has its invariant, IInv, SchemaInv, SessionInv and BundleInv, *)
(* stated at the head of its section.                                      *)
(***************************************************************************)
EXTENDS Ontology, SchemaMigration, CognitionSession, ContinuityBundle, FiniteSetTheorems,
        SequenceTheorems, WellFoundedInduction, TLAPS

-----------------------------------------------------------------------------
(* The ontology.                                                           *)

TermRow == [status : TermStatus, superseded_by : Words \cup {NoWord}, deprecated_at : Nat]
Usage == [word : Words, at : Nat, status : TermStatus]

RegisterCall == [at : {"register"}, word : Words]
AliasCall == [at : {"alias"}, alias : Words, word : Words]
LeaveCall == [at : {"leave"}, word : Words, to : {"deprecated", "superseded"},
              by : Words \cup {NoWord}, now : Nat]
Local == {Idle} \cup RegisterCall \cup AliasCall \cup LeaveCall

(* Types, and what racing calls cannot break either: rows are only added, so *)
(* whatever a call, an alias or a record was checked to name is still there. *)
Shapes ==
    /\ DOMAIN terms \subseteq Words /\ terms \in [DOMAIN terms -> TermRow]
    /\ DOMAIN aliases \subseteq Words /\ aliases \in [DOMAIN aliases -> DOMAIN terms]
    /\ uses \in Seq(Usage)
    /\ \A u \in DOMAIN uses : Registered(uses[u].word)
    /\ clock \in Nat
    /\ left \in [Words -> Nat] /\ IsFiniteSet(Gone) /\ banned \in [Words -> SUBSET Words]
    /\ writers \subseteq Callers
    /\ call \in [Callers -> Local]
    /\ \A c \in Callers : call[c].at \in {"alias", "leave"} => Registered(call[c].word)

(* What one caller found before its transaction still holds in it. *)
Checked ==
    \A c \in writers :
        /\ call[c].at = "register" => call[c].word \notin DOMAIN aliases
        /\ call[c].at = "alias" => /\ ~Registered(call[c].alias)
                                   /\ terms[call[c].word].status # "forbidden"
        /\ call[c].at = "leave" =>
             /\ IsActive(call[c].word)
             /\ call[c].now <= clock
             /\ \A u \in DOMAIN uses : uses[u].word = call[c].word => uses[u].at <= call[c].now
             /\ call[c].to = "superseded" => IsActive(call[c].by) /\ call[c].by # call[c].word

(* Aliases and terms are different words. *)
Apart == DOMAIN aliases \cap DOMAIN terms = {}

(* The order in which terms left: the last one has the largest number. *)
Ordered ==
    \A w \in Words : /\ left[w] # 0 <=> Registered(w) /\ ~IsActive(w)
                     /\ left[w] <= Cardinality(Gone)

(* A replacement was active when it was named, so it leaves later. *)
ReplacedRow(t, l, w) ==
    LET by == t[w].superseded_by IN
    /\ t[w].status = "active" => by = NoWord
    /\ t[w].status = "superseded" => by # NoWord
    /\ by # NoWord => by \in DOMAIN t /\ (t[by].status = "active" \/ l[by] > l[w])

Replaced == \A w \in DOMAIN terms : ReplacedRow(terms, left, w)

(* A forbidden term has no alias it did not have at the ban. *)
Closed == \A w \in DOMAIN terms :
    terms[w].status = "forbidden" => AliasesOf(w) \subseteq banned[w]

(* Records and the time at which their term left. *)
Dated ==
    /\ \A w \in DOMAIN terms : terms[w].deprecated_at <= clock
    /\ \A u \in DOMAIN uses :
         LET t == terms[uses[u].word] IN
         /\ uses[u].at <= clock
         /\ t.status = "active" => uses[u].status = "active"
         /\ uses[u].status = "active" /\ t.status \in {"deprecated", "superseded"}
              => uses[u].at <= t.deprecated_at
         /\ uses[u].status # "active" /\ t.status # "forbidden"
              => uses[u].at >= t.deprecated_at

Alone == SingleWriter => Checked /\ Apart /\ Ordered /\ Replaced /\ Closed /\ Dated

IInv == Shapes /\ Alone

-----------------------------------------------------------------------------
(* The invariant gives the property. *)
LEMMA InvariantSuffices == IInv => TermsStayResolvable
<1> SUFFICES ASSUME IInv PROVE TermsStayResolvable
  OBVIOUS
<1> USE DEF IInv, Shapes, Registered
<1>1. \A a \in DOMAIN aliases : Registered(ResolveAlias(a))
  BY DEF ResolveAlias
<1> SUFFICES ASSUME SingleWriter
             PROVE  /\ DetectAliasConflicts = {}
                    /\ \A a \in DOMAIN aliases : ResolveAlias(ResolveAlias(a)) = NoWord
                    /\ \A w \in DOMAIN terms :
                         LET by == terms[w].superseded_by IN
                         /\ by # NoWord => IsActive(by) \/ left[by] > left[w]
                         /\ terms[w].status = "superseded" => by # NoWord
                         /\ terms[w].status = "forbidden" => AliasesOf(w) \subseteq banned[w]
                    /\ \A u \in DOMAIN uses :
                         /\ u \in DetectDeprecatedUsage => uses[u].status # "active"
                         /\ uses[u].status # "active" /\ terms[uses[u].word].status # "forbidden"
                              => uses[u].at >= terms[uses[u].word].deprecated_at
  BY <1>1 DEF TermsStayResolvable
<1>2. DetectAliasConflicts = {}
  BY DEF DetectAliasConflicts, Alone, Apart
<1>3. \A a \in DOMAIN aliases : ResolveAlias(ResolveAlias(a)) = NoWord
  BY DEF ResolveAlias, Alone, Apart
<1>4. \A w \in DOMAIN terms :
        LET by == terms[w].superseded_by IN
        /\ by # NoWord => IsActive(by) \/ left[by] > left[w]
        /\ terms[w].status = "superseded" => by # NoWord
        /\ terms[w].status = "forbidden" => AliasesOf(w) \subseteq banned[w]
  BY DEF Alone, Replaced, ReplacedRow, Closed, IsActive
<1>5. ASSUME NEW u \in DOMAIN uses
      PROVE  /\ u \in DetectDeprecatedUsage => uses[u].status # "active"
             /\ uses[u].status # "active" /\ terms[uses[u].word].status # "forbidden"
                  => uses[u].at >= terms[uses[u].word].deprecated_at
  <2>1. uses[u] \in Usage
    BY <1>5, ElementOfSeq
  <2>2. terms[uses[u].word] \in TermRow
    OBVIOUS
  <2> QED
    BY <2>1, <2>2 DEF DetectDeprecatedUsage, Alone, Dated, Usage, TermRow
<1> QED
  BY <1>2, <1>3, <1>4, <1>5

(* Nothing is registered at first. *)
LEMMA InitHolds == CallersInit /\ OntologyInit => IInv
<1> SUFFICES ASSUME CallersInit, OntologyInit PROVE IInv
  OBVIOUS
<1> USE DEF CallersInit, OntologyInit
<1>1. DOMAIN terms = {} /\ DOMAIN aliases = {} /\ DOMAIN uses = {}
  OBVIOUS
<1>3. Gone = {}
  BY DEF Gone
<1>4. IsFiniteSet(Gone) /\ Cardinality(Gone) = 0
  BY <1>3, FS_EmptySet
<1>2. Shapes
  BY <1>1, <1>4 DEF Shapes, Local, Idle
<1>5. Ordered
  BY <1>1, <1>4 DEF Ordered, Registered
<1>6. Checked
  BY <1>1 DEF Checked, Idle
<1> QED
  BY <1>1, <1>2, <1>5, <1>6 DEF IInv, Alone, Apart, Replaced, Closed, Dated

(* A term that leaves is the last to have left; the others keep their place. *)
LEMMA LeaveGrows ==
    ASSUME left \in [Words -> Nat], IsFiniteSet(Gone), NEW w \in Words, Leave(w)
    PROVE  /\ left' \in [Words -> Nat] /\ IsFiniteSet(Gone')
           /\ \A v \in Words \ {w} : left'[v] = left[v]
           /\ left'[w] = IF left[w] # 0 THEN left[w] ELSE 1 + Cardinality(Gone)
           /\ Cardinality(Gone) \in Nat
           /\ Cardinality(Gone') = Cardinality(Gone) + (IF left[w] # 0 THEN 0 ELSE 1)
<1>1. Cardinality(Gone) \in Nat
  BY FS_CardinalityType
<1>2. CASE left[w] # 0
  BY <1>1, <1>2 DEF Leave, Gone
<1>3. CASE left[w] = 0
  <2>1. left' = [left EXCEPT ![w] = 1 + Cardinality(Gone)]
    BY <1>3 DEF Leave
  <2>2. left'[w] # 0 /\ left' \in [Words -> Nat]
    BY <1>1, <2>1
  <2>3. Gone' = Gone \cup {w} /\ w \notin Gone
    BY <1>3, <2>1, <2>2 DEF Gone
  <2> QED
    BY <1>1, <1>3, <2>1, <2>2, <2>3, FS_AddElement
<1> QED
  BY <1>2, <1>3

(* Types are kept by every step. *)
LEMMA ShapesStep == Shapes /\ [OntologyNext]_<<ontologyVars, writers, call>> => Shapes'
<1> SUFFICES ASSUME Shapes, [OntologyNext]_<<ontologyVars, writers, call>> PROVE Shapes'
  OBVIOUS
<1> USE DEF Shapes, ontologyVars
<1>0. left' = left => Gone' = Gone
  BY DEF Gone
<1>1. CASE UNCHANGED <<ontologyVars, writers, call>>
  BY <1>0, <1>1 DEF Registered
<1>2. CASE Tick /\ UNCHANGED writers
  BY <1>0, <1>2 DEF Tick, Registered
<1>3. ASSUME NEW c \in writers, OntologyStep(c), UNCHANGED writers
      PROVE  Shapes'
  <2> c \in Callers
    BY <1>3
  <2>1. ASSUME NEW w \in Words, StartRegister(c, w) PROVE Shapes'
    BY <1>0, <1>3, <2>1 DEF StartRegister, Begin, Registered, Local, RegisterCall
  <2>2. ASSUME NEW w \in Words, NEW v \in Words, StartAlias(c, v, w) PROVE Shapes'
    BY <1>0, <1>3, <2>2 DEF StartAlias, Begin, Registered, Local, AliasCall
  <2>3. ASSUME NEW w \in Words, StartDeprecate(c, w) PROVE Shapes'
    BY <1>0, <1>3, <2>3 DEF StartDeprecate, IsActive, Begin, Registered, Local, LeaveCall
  <2>4. ASSUME NEW w \in Words, NEW v \in Words, StartSupersede(c, w, v) PROVE Shapes'
    BY <1>0, <1>3, <2>4 DEF StartSupersede, IsActive, Begin, Registered, Local, LeaveCall
  <2>5. ASSUME NEW w \in Words, Forbid(c, w) PROVE Shapes'
    <3>1. DOMAIN terms' = DOMAIN terms /\ terms' \in [DOMAIN terms -> TermRow]
      BY <2>5, ZenonT(40) DEF Forbid, Registered, TermRow, TermStatus
    <3>2. left' \in [Words -> Nat] /\ IsFiniteSet(Gone')
      BY <2>5, LeaveGrows DEF Forbid
    <3>3. banned' \in [Words -> SUBSET Words]
      BY <2>5 DEF Forbid, AliasesOf
    <3> QED
      BY <1>0, <1>3, <2>5, <3>1, <3>2, <3>3 DEF Forbid, Registered
  <2>6. ASSUME NEW w \in Words, Use(c, w) PROVE Shapes'
    <3>1. [word |-> w, at |-> clock, status |-> terms[w].status] \in Usage
      BY <2>6 DEF Use, Registered, Usage, TermRow
    <3>2. uses' \in Seq(Usage) /\ \A u \in DOMAIN uses' : Registered(uses'[u].word)
      BY <2>6, <3>1 DEF Use, Registered
    <3> QED
      BY <1>0, <1>3, <2>6, <3>2 DEF Use, Registered
  <2>7. CASE Register(c)
    <3>1. call[c].word \in Words
      BY <2>7 DEF Register, Resume, Local, Idle, RegisterCall, AliasCall, LeaveCall
    <3>2. DOMAIN terms \subseteq DOMAIN terms' /\ DOMAIN terms' \subseteq Words
      BY <2>7, <3>1 DEF Register, InsertRow
    <3>3. terms' \in [DOMAIN terms' -> TermRow]
      BY <2>7 DEF Register, InsertRow, TermRow, TermStatus
    <3>4. call' \in [Callers -> Local]
      BY <2>7 DEF Register, Return, Local
    <3> QED
      BY <1>0, <1>3, <2>7, <3>2, <3>3, <3>4 DEF Register, Return, Registered, Idle
  <2>8. CASE AddAlias(c)
    <3>1. call[c].alias \in Words /\ call[c].word \in DOMAIN terms
      BY <2>8, SMTT(30) DEF AddAlias, Resume, Registered, Local, Idle, RegisterCall, AliasCall, LeaveCall
    <3>2. /\ DOMAIN aliases' \subseteq Words
          /\ aliases' \in [DOMAIN aliases' -> DOMAIN terms]
      BY <2>8, <3>1 DEF AddAlias, InsertRow
    <3>3. call' \in [Callers -> Local]
      BY <2>8 DEF AddAlias, Return, Local
    <3> QED
      BY <1>0, <1>3, <2>8, <3>2, <3>3 DEF AddAlias, Return, Registered, Idle
  <2>9. CASE LeaveActive(c)
    <3>1. call[c] \in LeaveCall /\ call[c].word \in DOMAIN terms
      BY <2>9 DEF LeaveActive, Resume, Registered, Local, Idle, RegisterCall, AliasCall, LeaveCall
    <3>2. DOMAIN terms' = DOMAIN terms /\ terms' \in [DOMAIN terms -> TermRow]
      <4> DEFINE k == call[c]
                 by == IF k.to = "superseded" THEN k.by ELSE terms[k.word].superseded_by
                 row == [status |-> k.to, superseded_by |-> by, deprecated_at |-> k.now]
      <4>1. terms[k.word] \in TermRow /\ by \in Words \cup {NoWord}
        BY <3>1 DEF LeaveCall, TermRow
      <4>2. row \in TermRow
        BY <3>1, <4>1 DEF LeaveCall, TermRow, TermStatus
      <4>3. terms' = [terms EXCEPT ![k.word] = row]
        BY <2>9 DEF LeaveActive
      <4> QED
        BY <3>1, <4>2, <4>3
    <3>3. left' \in [Words -> Nat] /\ IsFiniteSet(Gone')
      BY <2>9, <3>1, LeaveGrows DEF LeaveActive
    <3>4. call' \in [Callers -> Local]
      BY <2>9 DEF LeaveActive, Return, Local
    <3> QED
      BY <1>0, <1>3, <2>9, <3>2, <3>3, <3>4 DEF LeaveActive, Return, Registered, Idle
  <2>10. CASE Die(c) /\ UNCHANGED ontologyVars
    BY <1>0, <1>3, <2>10 DEF Die, Return, Local, Idle, Registered
  <2> QED
    BY <1>3, <2>1, <2>2, <2>3, <2>4, <2>5, <2>6, <2>7, <2>8, <2>9, <2>10 DEF OntologyStep
<1> QED
  BY <1>1, <1>2, <1>3 DEF OntologyNext

(* What one caller can rely on, it keeps: each call by itself. *)
LEMMA AloneStep ==
    ASSUME Shapes, Checked, Apart, Ordered, Replaced, Closed, Dated,
           NEW c \in writers, writers = {c}, writers' = writers, Shapes',
           OntologyStep(c)
    PROVE  Checked' /\ Apart' /\ Ordered' /\ Replaced' /\ Closed' /\ Dated'
<1> USE DEF ontologyVars
<1>0. c \in Callers /\ call[c] \in Local
  BY DEF Shapes
<1>1. ASSUME terms' = terms, aliases' = aliases, left' = left, banned' = banned
      PROVE  Apart' /\ Ordered' /\ Replaced' /\ Closed'
  BY <1>1 DEF Apart, Ordered, Gone, Replaced, ReplacedRow, Closed, AliasesOf, Registered, IsActive
<1>2. ASSUME terms' = terms, uses' = uses, clock' = clock
      PROVE  Dated'
  BY <1>2 DEF Dated
<1>3. ASSUME call'[c] = Idle
      PROVE  Checked'
  BY <1>3 DEF Checked, Idle
<1>4. ASSUME Return(c)
      PROVE  call'[c] = Idle
  BY <1>0, <1>4 DEF Return, Shapes
<1>5. ASSUME NEW l \in Local, Begin(c, l)
      PROVE  call'[c] = l
  BY <1>0, <1>5 DEF Begin, Shapes
<1>11. ASSUME NEW w \in Words, StartRegister(c, w)
       PROVE  Checked'
  <2>1. call'[c] = [at |-> "register", word |-> w]
    BY <1>0, <1>11 DEF StartRegister, Begin, Shapes
  <2> QED
    BY <1>11, <2>1 DEF StartRegister, Checked
<1>12. ASSUME NEW w \in Words, NEW v \in Words, StartAlias(c, v, w)
       PROVE  Checked'
  <2>1. call'[c] = [at |-> "alias", alias |-> v, word |-> w]
    BY <1>0, <1>12 DEF StartAlias, Begin, Shapes
  <2> QED
    BY <1>12, <2>1 DEF StartAlias, Checked, Registered
<1>13. ASSUME NEW w \in Words, NEW v \in Words \cup {NoWord}, NEW to, Begin(c, [at |-> "leave", word |-> w, to |-> to, by |-> v, now |-> clock]),
              IsActive(w), to = "superseded" => IsActive(v) /\ v # w, UNCHANGED ontologyVars
       PROVE  Checked'
  <2>1. call'[c] = [at |-> "leave", word |-> w, to |-> to, by |-> v, now |-> clock]
    BY <1>0, <1>13 DEF Begin, Shapes
  <2>2. clock <= clock /\ \A u \in DOMAIN uses : uses[u].at <= clock
    BY DEF Dated, Shapes
  <2> QED
    BY <1>13, <2>1, <2>2 DEF Checked, IsActive, Registered
<1>21. CASE Register(c)
  <2> DEFINE w == call[c].word
  <2>1. w \in Words /\ w \notin DOMAIN aliases
    BY <1>0, <1>21 DEF Register, Resume, Checked, Local, Idle, RegisterCall, AliasCall, LeaveCall
  <2>2. \A v \in DOMAIN terms : v \in DOMAIN terms' /\ terms'[v] = terms[v]
    BY <1>21 DEF Register, InsertRow
  <2>3. \A v \in DOMAIN terms' \ DOMAIN terms :
          v = w /\ terms'[v] = [status |-> "active", superseded_by |-> NoWord, deprecated_at |-> 0]
    BY <1>21 DEF Register, InsertRow
  <2>4. Gone' = Gone
    BY <1>21 DEF Register, Gone
  <2>5. Apart'
    BY <1>21, <2>1, <2>2, <2>3 DEF Register, Apart
  <2>6. Ordered'
    BY <1>21, <2>2, <2>3, <2>4 DEF Register, Ordered, Registered, IsActive, Shapes
  <2>7. Replaced'
    BY <1>21, <2>2, <2>3 DEF Register, Replaced, ReplacedRow
  <2>8. Closed'
    BY <1>21, <2>2, <2>3 DEF Register, Closed, AliasesOf
  <2>9. Dated'
    <3>1. \A v \in DOMAIN terms' : terms'[v].deprecated_at <= clock
      <4>1. clock \in Nat /\ \A v \in DOMAIN terms : terms[v].deprecated_at <= clock
        BY DEF Dated, Shapes
      <4>2. ASSUME NEW v \in DOMAIN terms' \ DOMAIN terms
            PROVE  terms'[v].deprecated_at <= clock
        BY <2>3, <4>1, <4>2
      <4> QED
        BY <2>2, <4>1, <4>2
    <3>2. \A u \in DOMAIN uses : terms'[uses[u].word] = terms[uses[u].word]
      BY <2>2 DEF Shapes, Registered
    <3> QED
      BY <1>21, <3>1, <3>2 DEF Register, Dated
  <2> QED
    BY <1>3, <1>4, <1>21, <2>5, <2>6, <2>7, <2>8, <2>9 DEF Register
<1>22. CASE AddAlias(c)
  <2> DEFINE a == call[c].alias
             w == call[c].word
  <2>1. ~Registered(a) /\ terms[w].status # "forbidden"
    BY <1>22 DEF AddAlias, Resume, Checked
  <2>2. \A b \in DOMAIN aliases' \ DOMAIN aliases : b = a /\ aliases'[b] = w
    BY <1>22 DEF AddAlias, InsertRow
  <2>3. \A b \in DOMAIN aliases : b \in DOMAIN aliases' /\ aliases'[b] = aliases[b]
    BY <1>22 DEF AddAlias, InsertRow
  <2>4. Apart'
    BY <1>22, <2>1, <2>2 DEF AddAlias, Apart, Registered
  <2>5. Closed'
    BY <1>22, <2>1, <2>2, <2>3 DEF AddAlias, Closed, AliasesOf
  <2>6. Ordered' /\ Replaced'
    BY <1>22 DEF AddAlias, Ordered, Gone, Replaced, Registered, IsActive
  <2> QED
    BY <1>2, <1>3, <1>4, <1>22, <2>4, <2>5, <2>6 DEF AddAlias
<1>23. CASE LeaveActive(c)
  <2> DEFINE k == call[c]
             w == k.word
  <2>0. \A v \in Words : left[v] \in Nat /\ left[v] <= Cardinality(Gone)
    BY DEF Ordered, Shapes
  <2>1. k \in LeaveCall /\ IsActive(w) /\ w \in Words
    BY <1>0, <1>23 DEF LeaveActive, Resume, Checked, Local, Idle, RegisterCall, AliasCall, LeaveCall
  <2>2. DOMAIN terms' = DOMAIN terms /\ \A v \in DOMAIN terms \ {w} : terms'[v] = terms[v]
    BY <1>23 DEF LeaveActive
  <2>3. /\ terms'[w].status = k.to /\ terms'[w].deprecated_at = k.now
        /\ terms'[w].superseded_by = IF k.to = "superseded" THEN k.by ELSE NoWord
    BY <1>23, <2>1 DEF LeaveActive, IsActive, Registered, Replaced, ReplacedRow
  <2>4. left[w] = 0
    BY <2>1 DEF Ordered
  <2>5. /\ \A v \in Words \ {w} : left'[v] = left[v]
        /\ left'[w] = 1 + Cardinality(Gone)
        /\ Cardinality(Gone) \in Nat /\ Cardinality(Gone') = Cardinality(Gone) + 1
    BY <1>23, <2>1, <2>4, LeaveGrows DEF LeaveActive, Shapes
  <2>6. k.to # "active" /\ k.to # "forbidden"
    BY <2>1 DEF LeaveCall
  <2>7. Apart' /\ Closed'
    BY <1>23, <2>2, <2>3, <2>6 DEF LeaveActive, Apart, Closed, AliasesOf
  <2>8. Ordered'
    BY <2>1, <2>2, <2>3, <2>5, <2>6 DEF Ordered, IsActive, Registered, Shapes
  <2>9. ASSUME NEW v \in DOMAIN terms'
        PROVE  ReplacedRow(terms', left', v)
    <3>1. CASE v = w
      <4>1. k.to = "superseded" => IsActive(k.by) /\ k.by # w
        BY <1>23, <2>1 DEF LeaveActive, Resume, Checked
      <4>2. k.to = "superseded" => k.by # NoWord
        BY <4>1, OntologyAssumption DEF IsActive, Registered, Shapes
      <4> QED
        BY <2>2, <2>3, <2>6, <3>1, <4>1, <4>2 DEF IsActive, Registered, ReplacedRow
    <3>2. CASE v # w
      <4> DEFINE by == terms[v].superseded_by
      <4>1. v \in DOMAIN terms /\ v \in Words /\ terms'[v] = terms[v] /\ left'[v] = left[v]
        BY <2>2, <2>5, <2>9, <3>2 DEF Shapes
      <4>2. /\ terms[v].status = "active" => by = NoWord
            /\ terms[v].status = "superseded" => by # NoWord
            /\ by # NoWord => by \in DOMAIN terms /\ (terms[by].status = "active" \/ left[by] > left[v])
        BY <4>1 DEF Replaced, ReplacedRow
      <4>3. ASSUME by # NoWord, by = w
            PROVE  left'[w] > left'[v]
        <5>1. left[v] <= Cardinality(Gone) /\ left[v] \in Nat
          BY <2>0, <4>1
        <5> QED
          BY <2>5, <4>1, <5>1
      <4>4. ASSUME by # NoWord, by # w
            PROVE  terms'[by] = terms[by] /\ left'[by] = left[by]
        BY <2>2, <2>5, <4>2, <4>4 DEF Shapes
      <4> QED
        BY <2>2, <4>1, <4>2, <4>3, <4>4 DEF ReplacedRow
    <3> QED
      BY <3>1, <3>2
  <2>10. Dated'
    <3>1. k.now <= clock /\ \A u \in DOMAIN uses : uses[u].word = w => uses[u].at <= k.now
      BY <1>23 DEF LeaveActive, Resume, Checked
    <3>2. \A v \in DOMAIN terms' : terms'[v].deprecated_at <= clock
      BY <2>2, <2>3, <3>1 DEF Dated
    <3>3. \A u \in DOMAIN uses : uses[u].word = w => uses[u].status = "active"
      BY <2>1 DEF Dated, IsActive
    <3> QED
      BY <1>23, <2>2, <2>3, <2>6, <3>1, <3>2, <3>3 DEF LeaveActive, Dated, Shapes, Registered
  <2> QED
    BY <1>3, <1>4, <1>23, <2>7, <2>8, <2>9, <2>10 DEF LeaveActive, Replaced
<1>24. ASSUME NEW w \in Words, Forbid(c, w)
       PROVE  Checked' /\ Apart' /\ Ordered' /\ Replaced' /\ Closed' /\ Dated'
  <2>0. \A v \in Words : left[v] \in Nat /\ left[v] <= Cardinality(Gone)
    BY DEF Ordered, Shapes
  <2>1. DOMAIN terms' = DOMAIN terms /\ \A v \in DOMAIN terms \ {w} : terms'[v] = terms[v]
    BY <1>24 DEF Forbid
  <2>2. /\ terms'[w].status = "forbidden" /\ terms'[w].deprecated_at = clock
        /\ terms'[w].superseded_by = terms[w].superseded_by
    <3>1. w \in DOMAIN terms /\ terms[w] \in TermRow
      BY <1>24 DEF Forbid, Registered, Shapes
    <3> QED
      BY <1>24, <3>1 DEF Forbid, TermRow
  <2>3. /\ \A v \in Words \ {w} : left'[v] = left[v]
        /\ left'[w] = IF left[w] # 0 THEN left[w] ELSE 1 + Cardinality(Gone)
        /\ Cardinality(Gone) \in Nat
        /\ Cardinality(Gone') = Cardinality(Gone) + (IF left[w] # 0 THEN 0 ELSE 1)
    BY <1>24, LeaveGrows DEF Forbid, Shapes
  <2>4. Checked'
    BY <1>3, <1>24 DEF Forbid
  <2>5. Apart'
    BY <1>24 DEF Forbid, Apart
  <2>6. Ordered'
    BY <1>24, <2>1, <2>2, <2>3 DEF Forbid, Ordered, IsActive, Registered, Shapes
  <2>7. ASSUME NEW v \in DOMAIN terms'
        PROVE  ReplacedRow(terms', left', v)
    <3> DEFINE by == terms[v].superseded_by
    <3>1. v \in DOMAIN terms /\ v \in Words /\ terms'[v].superseded_by = by
      BY <2>1, <2>2, <2>7 DEF Shapes
    <3>2. /\ terms[v].status = "active" => by = NoWord
          /\ terms[v].status = "superseded" => by # NoWord
          /\ by # NoWord => by \in DOMAIN terms /\ (terms[by].status = "active" \/ left[by] > left[v])
      BY <3>1 DEF Replaced, ReplacedRow
    <3>3. /\ terms'[v].status = "active" => by = NoWord
          /\ terms'[v].status = "superseded" => by # NoWord
      BY <2>1, <2>2, <3>1, <3>2
    <3>4. ASSUME by # NoWord
          PROVE  by \in DOMAIN terms' /\ (terms'[by].status = "active" \/ left'[by] > left'[v])
      <4>1. by \in DOMAIN terms /\ by \in Words
        BY <3>2, <3>4 DEF Shapes
      <4>2. left[v] # 0 /\ left[v] \in Nat /\ left[v] <= Cardinality(Gone) /\ left'[v] = left[v]
        BY <2>0, <2>3, <3>1, <3>2, <3>4 DEF Ordered, IsActive, Registered
      <4>3. CASE by = w /\ left[w] = 0
        BY <2>1, <2>3, <4>1, <4>2, <4>3
      <4>4. CASE by = w /\ left[w] # 0
        <5>1. terms[by].status # "active"
          BY <4>1, <4>4 DEF Ordered, IsActive, Registered
        <5> QED
          BY <2>1, <2>3, <3>2, <3>4, <4>1, <4>2, <4>4, <5>1
      <4>5. CASE by # w
        <5>1. terms'[by] = terms[by] /\ left'[by] = left[by]
          BY <2>1, <2>3, <4>1, <4>5
        <5> QED
          BY <2>1, <3>2, <3>4, <4>1, <4>2, <5>1
      <4> QED
        BY <4>3, <4>4, <4>5
    <3> QED
      BY <3>1, <3>3, <3>4 DEF ReplacedRow
  <2>8. Closed'
    BY <1>24, <2>1, <2>2 DEF Forbid, Closed, AliasesOf, Registered, Shapes
  <2>9. Dated'
    <3>1. ASSUME NEW v \in DOMAIN terms'
          PROVE  terms'[v].deprecated_at <= clock
      <4>1. clock <= clock /\ v \in DOMAIN terms
        BY <2>1, <3>1 DEF Shapes
      <4> QED
        BY <2>1, <2>2, <4>1 DEF Dated
    <3> QED
      BY <1>24, <2>1, <2>2, <3>1 DEF Forbid, Dated, Shapes, Registered
  <2> QED
    BY <2>4, <2>5, <2>6, <2>7, <2>8, <2>9 DEF Replaced
<1>25. ASSUME NEW w \in Words, Use(c, w)
       PROVE  Checked' /\ Apart' /\ Ordered' /\ Replaced' /\ Closed' /\ Dated'
  <2>1. uses' = Append(uses, [word |-> w, at |-> clock, status |-> terms[w].status])
    BY <1>25 DEF Use
  <2>2. \A u \in DOMAIN uses' : IF u \in DOMAIN uses THEN uses'[u] = uses[u]
          ELSE uses'[u] = [word |-> w, at |-> clock, status |-> terms[w].status]
    BY <2>1 DEF Shapes
  <2>3. Dated'
    BY <1>25, <2>2, SMTT(30) DEF Use, Dated, Shapes, TermRow, Registered
  <2> QED
    BY <1>1, <1>3, <1>25, <2>3 DEF Use
<1>26. CASE Die(c) /\ UNCHANGED ontologyVars
  BY <1>1, <1>2, <1>3, <1>4, <1>26 DEF Die
<1>27. ASSUME NEW w \in Words, StartDeprecate(c, w)
       PROVE  Checked' /\ UNCHANGED ontologyVars
  BY <1>13, <1>27 DEF StartDeprecate
<1>28. ASSUME NEW w \in Words, NEW v \in Words, StartSupersede(c, w, v)
       PROVE  Checked' /\ UNCHANGED ontologyVars
  BY <1>13, <1>28 DEF StartSupersede
<1>29. ASSUME UNCHANGED ontologyVars, Checked'
       PROVE  Checked' /\ Apart' /\ Ordered' /\ Replaced' /\ Closed' /\ Dated'
  BY <1>1, <1>2, <1>29
<1> QED
  BY <1>11, <1>12, <1>21, <1>22, <1>23, <1>24, <1>25, <1>26, <1>27, <1>28, <1>29
     DEF OntologyStep, StartRegister, StartAlias

(* A step that leaves the ontology alone keeps what a single writer can    *)
(* rely on.                                                                *)
LEMMA Stuttering ==
    ASSUME UNCHANGED <<ontologyVars, writers, call>>, Alone
    PROVE  Alone'
BY DEF ontologyVars, Alone, SingleWriter, Checked, Apart, Ordered, Replaced, Closed, Dated,
       Gone, AliasesOf, Registered, IsActive

(* A second passes: nothing was dated in the future. *)
LEMMA TickKeeps ==
    ASSUME Tick, UNCHANGED writers, Shapes, Alone
    PROVE  Alone'
<1> SUFFICES ASSUME SingleWriter
             PROVE  Checked' /\ Apart' /\ Ordered' /\ Replaced' /\ Closed' /\ Dated'
  BY DEF Alone, SingleWriter
<1>1. UNCHANGED <<terms, aliases, uses, left, banned, call, writers>> /\ clock' = clock + 1
  BY DEF Tick
<1>2. Apart' /\ Ordered' /\ Replaced' /\ Closed'
  BY <1>1 DEF Alone, Apart, Ordered, Gone, Replaced, Closed, AliasesOf, Registered, IsActive
<1>3. \A n \in Nat : n <= clock => n <= clock'
  BY <1>1 DEF Shapes
<1>4. Checked'
  <2>1. ASSUME NEW c \in writers, call[c].at = "leave"
        PROVE  call[c].now \in Nat
    BY <2>1 DEF Shapes, Local, Idle, RegisterCall, AliasCall, LeaveCall
  <2> QED
    BY <1>1, <1>3, <2>1 DEF Alone, Checked, Registered, IsActive
<1>5. Dated'
  <2>1. ASSUME NEW u \in DOMAIN uses
        PROVE  uses[u].at \in Nat
    <3>1. uses[u] \in Usage
      BY <2>1, ElementOfSeq DEF Shapes
    <3> QED
      BY <3>1 DEF Usage
  <2>2. \A w \in DOMAIN terms : terms[w].deprecated_at \in Nat
    BY DEF Shapes, TermRow
  <2> QED
    BY <1>1, <1>3, <2>1, <2>2 DEF Alone, Dated
<1> QED
  BY <1>2, <1>4, <1>5

(* Every step keeps the invariant, whichever callers share the database. *)
LEMMA StepHolds == IInv /\ [OntologyNext]_<<ontologyVars, writers, call>> => IInv'
<1> SUFFICES ASSUME IInv, [OntologyNext]_<<ontologyVars, writers, call>> PROVE IInv'
  OBVIOUS
<1>1. Shapes'
  BY ShapesStep DEF IInv
<1>2. CASE UNCHANGED <<ontologyVars, writers, call>>
  BY <1>1, <1>2, Stuttering DEF IInv
<1>3. CASE Tick /\ UNCHANGED writers
  BY <1>1, <1>3, TickKeeps DEF IInv
<1>4. ASSUME NEW c \in writers, OntologyStep(c), UNCHANGED writers
      PROVE  Alone'
  <2> SUFFICES ASSUME SingleWriter
               PROVE  Checked' /\ Apart' /\ Ordered' /\ Replaced' /\ Closed' /\ Dated'
    BY <1>4 DEF Alone, SingleWriter
  <2>1. writers = {c}
    BY <1>4 DEF SingleWriter
  <2> QED
    BY <1>1, <1>4, <2>1, AloneStep DEF IInv, Alone
<1> QED
  BY <1>1, <1>2, <1>3, <1>4 DEF IInv, OntologyNext

-----------------------------------------------------------------------------
(* For every vocabulary and any callers, dying or not: an alias stands for a *)
(* registered term; and when one writer at a time uses the database, aliases *)
(* resolve in one lookup, supersession has no cycle, a ban stops new aliases *)
(* and the usage reports name no record that was written in time             *)
(* (memory/ontology.py).                                                     *)
THEOREM TermsResolve == OntologySpec => []TermsStayResolvable
<1>1. CallersInit /\ OntologyInit => IInv
  BY InitHolds
<1>2. IInv /\ [OntologyNext]_<<ontologyVars, writers, call>> => IInv'
  BY StepHolds
<1>3. IInv => TermsStayResolvable
  BY InvariantSuffices
<1> QED
  BY <1>1, <1>2, <1>3, PTL DEF OntologySpec

-----------------------------------------------------------------------------
(* The schema and its migration.                                           *)

Database == [tables : SUBSET Nat, columns : SUBSET (Nat \X Nat), indices : SUBSET Nat,
             versions : Seq(0..Latest)]

InitCall ==
    {Idle} \cup [at : {"script"}, todo : SUBSET TableVersions]
           \cup [at : {"migrate"}, fresh : BOOLEAN, v : 3..Latest + 1]
           \cup [at : {"alter"}, fresh : BOOLEAN, v : 3..Latest, todo : SUBSET (Nat \X Nat)]

(* What a database of version v promises is there. *)
Holds(d, v) == /\ Schema(v).tables \subseteq d.tables
               /\ Schema(v).columns \subseteq d.columns
               /\ Schema(v).indices \subseteq d.indices

(* Version rows agree and promise what is there; a call that returned left the *)
(* latest one.                                                                 *)
Promised ==
    /\ \A i \in DOMAIN db.versions : /\ Holds(db, db.versions[i])
                                     /\ db.versions[i] = db.versions[1]
    /\ finished => Holds(db, Latest) /\ db.versions # <<>>

(* What a call has done so far.  It is called fresh if it found no version row; *)
(* rows that other fresh calls have added since are of the latest version.      *)
Progress(d, k) ==
    /\ k.at = "script" => TableVersions \ k.todo \subseteq d.tables
    /\ k.at \in {"migrate", "alter"} =>
         /\ TableVersions \subseteq d.tables
         /\ Holds(d, k.v - 1)
         /\ k.fresh => \A i \in DOMAIN d.versions : d.versions[i] = Latest
         /\ ~k.fresh => d.versions # <<>>

(* Nobody adds a column behind the back of a single caller. *)
Undisturbed ==
    /\ ~failed
    /\ \A c \in Callers : call[c].at = "alter" =>
         /\ ColumnsOf(call[c].v) \subseteq db.columns \cup call[c].todo
         /\ call[c].todo \subseteq ColumnsOf(call[c].v) \ db.columns

SchemaInv ==
    /\ db \in Database
    /\ writers \subseteq Callers
    /\ call \in [Callers -> InitCall]
    /\ \A c \in Callers : c \in writers \/ call[c] = Idle
    /\ Promised
    /\ \A c \in Callers : Progress(db, call[c])
    /\ SingleWriter => Undisturbed

Grows(d, e) == /\ d.tables \subseteq e.tables
               /\ d.columns \subseteq e.columns
               /\ d.indices \subseteq e.indices

-----------------------------------------------------------------------------
(* The first migrations add no columns. *)
LEMMA Additions == \A v \in Nat : AddedBy(v) \in Nat /\ (v < 3 => AddedBy(v) = 0)
BY DEF AddedBy

(* Versions before the third added no column and no index, and each later one *)
(* holds what the one before it held and what its migration adds.             *)
LEMMA SchemaGrows ==
    /\ Schema(2).columns = {} /\ Schema(2).indices = {}
    /\ \A v \in 3..16 :
         /\ Schema(v).columns = Schema(v - 1).columns \cup ColumnsOf(v)
         /\ Schema(v).indices \subseteq Schema(v - 1).indices \cup (IndexVersions \cap {v})
    /\ \A v \in Nat : /\ Schema(v).tables \subseteq TableVersions
                      /\ Schema(v).columns = UNION {ColumnsOf(u) : u \in 0..v}
<1>1. \A v : /\ Schema(v).columns = UNION {ColumnsOf(u) : u \in 0..v}
             /\ Schema(v).indices = IndexVersions \cap 0..v
             /\ Schema(v).tables = TableVersions \cap 0..v
  BY DEF Schema
<1>2. \A v \in 0..2 : ColumnsOf(v) = {} /\ v \notin IndexVersions
  BY Additions DEF ColumnsOf, IndexVersions
<1>3. Schema(2).columns = {} /\ Schema(2).indices = {}
  BY <1>1, <1>2
<1>4. ASSUME NEW v \in 3..16
      PROVE  /\ Schema(v).columns = Schema(v - 1).columns \cup ColumnsOf(v)
             /\ Schema(v).indices \subseteq Schema(v - 1).indices \cup (IndexVersions \cap {v})
  <2>1. 0..v = (0..(v - 1)) \cup {v}
    OBVIOUS
  <2> QED
    BY <1>1, <2>1
<1> QED
  BY <1>1, <1>3, <1>4

(* What a version holds, and a migration adds, are rows and numbers. *)
LEMMA ColumnTypes ==
    /\ TableVersions \subseteq Nat /\ IndexVersions \subseteq Nat
    /\ \A v \in Nat : ColumnsOf(v) \subseteq Nat \X Nat
    /\ \A t \in Nat : ColumnsIn(t) \subseteq Nat \X Nat
<1>1. TableVersions \subseteq Nat
  BY DEF TableVersions
<1>2. IndexVersions \subseteq Nat
  BY MigrationAssumption DEF IndexVersions
<1>3. \A v \in Nat : ColumnsOf(v) \subseteq Nat \X Nat
  BY Additions DEF ColumnsOf
<1>4. 1..Latest \subseteq Nat
  BY MigrationAssumption
<1> QED
  BY <1>1, <1>2, <1>3, <1>4 DEF ColumnsIn

(* A set of naturals that is not empty has a least member. *)
LEMMA LeastOf ==
    ASSUME NEW S \in SUBSET Nat, S # {}
    PROVE  \E k \in S : \A j \in S : k <= j
<1> DEFINE R == {q \in Nat \X Nat : q[1] < q[2]}
<1>1. R = OpToRel(<, Nat)
  BY DEF OpToRel
<1>2. IsWellFoundedOn(R, Nat)
  BY <1>1, NatLessThanWellFounded
<1>3. PICK k \in S : \A j \in S : ~ (<<j, k>> \in R)
  <2> HIDE DEF R
  <2> QED
    BY <1>2, WFMin
<1>4. \A j \in S : ~ (j < k)
  BY <1>3
<1> QED
  BY <1>4

(* The column that ALTER adds next is one of those that are left. *)
LEMMA NextColumn ==
    ASSUME NEW todo \in SUBSET (Nat \X Nat), todo # {}
    PROVE  (CHOOSE x \in todo : \A y \in todo : x[2] <= y[2]) \in todo
<1>1. {y[2] : y \in todo} \in SUBSET Nat /\ {y[2] : y \in todo} # {}
  OBVIOUS
<1>2. PICK n \in {y[2] : y \in todo} : \A m \in {y[2] : y \in todo} : n <= m
  BY <1>1, LeastOf
<1>3. PICK x \in todo : x[2] = n
  BY <1>2
<1>4. \A y \in todo : x[2] <= y[2]
  BY <1>2, <1>3
<1> QED
  BY <1>4

(* Nothing is ever taken away, so what held of a database holds. *)
LEMMA GrowsKeeps ==
    ASSUME NEW d, NEW e, Grows(d, e)
    PROVE  /\ \A v : Holds(d, v) => Holds(e, v)
           /\ \A k : Progress(d, k) /\ e.versions = d.versions => Progress(e, k)
BY DEF Grows, Holds, Progress

(* The version that init_db reads is the first row's. *)
LEMMA FirstRow ==
    ASSUME NEW V, NEW s \in Seq(V), s # <<>>
    PROVE  Head(s) = s[1] /\ 1 \in DOMAIN s /\ Head(s) \in V
<1>1. Len(s) \in Nat /\ Len(s) # 0 /\ DOMAIN s = 1..Len(s)
  OBVIOUS
<1>2. Head(s) = s[1]
  OBVIOUS
<1> QED
  BY <1>1, <1>2

(* Promises that are not added to are kept. *)
LEMMA PromisesKept ==
    ASSUME Promised, Grows(db, db'), db'.versions = db.versions, finished' = finished
    PROVE  Promised'
<1>1. \A i \in DOMAIN db'.versions : /\ Holds(db', db'.versions[i])
                                     /\ db'.versions[i] = db'.versions[1]
  BY GrowsKeeps DEF Promised
<1>2. finished' => Holds(db', Latest) /\ db'.versions # <<>>
  BY GrowsKeeps DEF Promised
<1> QED
  BY <1>1, <1>2 DEF Promised

(* The invariant gives the property. *)
LEMMA SchemaSuffices == SchemaInv => SchemaMatchesVersion
BY DEF SchemaInv, SchemaMatchesVersion, Promised, Holds, Undisturbed

(* A database of an old version holds what that version says. *)
LEMMA SchemaInitHolds == CallersInit /\ SchemaInit => SchemaInv
<1> SUFFICES ASSUME CallersInit, SchemaInit PROVE SchemaInv
  OBVIOUS
<1>1. PICK v \in OldVersions :
         db = [tables |-> Schema(v).tables, columns |-> Schema(v).columns,
               indices |-> Schema(v).indices,
               versions |-> IF v = 0 THEN <<>> ELSE <<v>>]
  BY DEF SchemaInit
<1>2. v \in 0..16 /\ Latest = 16
  BY MigrationAssumption
<1>3. Holds(db, v)
  BY <1>1 DEF Holds
<1>4. db \in Database
  <2>1. Schema(v).tables \subseteq Nat /\ Schema(v).indices \subseteq Nat
    BY <1>2, SchemaGrows, ColumnTypes DEF Schema
  <2>2. Schema(v).columns \subseteq Nat \X Nat
    BY <1>2, SchemaGrows, ColumnTypes
  <2>3. <<>> \in Seq(0..Latest) /\ <<v>> \in Seq(0..Latest)
    BY <1>2
  <2> QED
    BY <1>1, <2>1, <2>2, <2>3 DEF Database
<1>5. \A i \in DOMAIN db.versions : i = 1 /\ db.versions[i] = v
  BY <1>1
<1>6. call \in [Callers -> InitCall] /\ \A c \in Callers : call[c] = Idle
  BY DEF CallersInit, InitCall
<1>7. ~finished /\ ~failed /\ writers \subseteq Callers
  BY DEF SchemaInit, CallersInit
<1> QED
  BY <1>3, <1>4, <1>5, <1>6, <1>7 DEF SchemaInv, Promised, Progress, Undisturbed, Idle

-----------------------------------------------------------------------------
(* A step of one caller keeps what its call has done and what the others rely on. *)
LEMMA CallKeeps ==
    ASSUME SchemaInv, NEW c \in writers, writers' = writers, NEW k \in InitCall,
           call' = [call EXCEPT ![c] = k],
           db' \in Database, Grows(db, db'),
           db'.versions = db.versions \/ /\ db'.versions # <<>>
                                         /\ \A i \in DOMAIN db'.versions : db'.versions[i] = Latest,
           Progress(db', k), Promised',
           SingleWriter => /\ ~failed'
                           /\ k.at = "alter" =>
                                /\ ColumnsOf(k.v) \subseteq db'.columns \cup k.todo
                                /\ k.todo \subseteq ColumnsOf(k.v) \ db'.columns
    PROVE  SchemaInv'
<1>1. c \in Callers
  BY DEF SchemaInv
<1>2. call' \in [Callers -> InitCall] /\ call'[c] = k
      /\ \A b \in Callers : b # c => call'[b] = call[b]
  BY <1>1 DEF SchemaInv
<1>3. \A b \in Callers : b \in writers' \/ call'[b] = Idle
  BY <1>2 DEF SchemaInv
<1>4. ASSUME NEW b \in Callers PROVE Progress(db', call'[b])
  <2>1. CASE b = c
    BY <1>2, <2>1
  <2>2. CASE b # c /\ db'.versions = db.versions
    BY <1>2, <2>2, GrowsKeeps DEF SchemaInv
  <2>3. CASE b # c /\ db'.versions # <<>> /\ \A i \in DOMAIN db'.versions : db'.versions[i] = Latest
    <3>1. Progress(db, call[b])
      BY DEF SchemaInv
    <3> QED
      BY <1>2, <2>3, <3>1, GrowsKeeps DEF Progress, Grows
  <2> QED
    BY <2>1, <2>2, <2>3
<1>5. SingleWriter' => Undisturbed'
  <2> SUFFICES ASSUME SingleWriter' PROVE Undisturbed'
    OBVIOUS
  <2>1. SingleWriter
    BY DEF SingleWriter
  <2>2. \A b \in Callers : b # c => call[b] = Idle
    BY <2>1 DEF SingleWriter, SchemaInv
  <2> QED
    BY <1>2, <2>1, <2>2 DEF Undisturbed, Idle
<1> QED
  BY <1>2, <1>3, <1>4, <1>5 DEF SchemaInv

(* The steps that leave the database alone need their new locals only. *)
LEMMA CallMoves ==
    ASSUME SchemaInv, NEW c \in writers, writers' = writers, NEW k \in InitCall,
           call' = [call EXCEPT ![c] = k], db' = db,
           Progress(db, k), Promised', SingleWriter => ~failed',
           SingleWriter /\ k.at = "alter" =>
                /\ ColumnsOf(k.v) \subseteq db.columns \cup k.todo
                /\ k.todo \subseteq ColumnsOf(k.v) \ db.columns
    PROVE  SchemaInv'
<1>1. db' \in Database /\ Grows(db, db') /\ db'.versions = db.versions /\ Progress(db', k)
  BY DEF SchemaInv, Grows
<1> QED
  BY <1>1, CallKeeps

LEMMA SchemaStepHolds ==
    ASSUME SchemaInv, [SchemaNext]_<<schemaVars, writers, call>>
    PROVE  SchemaInv'
<1> USE DEF schemaVars
<1>0. Latest = 16
  BY MigrationAssumption
<1>1. CASE UNCHANGED <<schemaVars, writers, call>>
  BY <1>1 DEF SchemaInv, Promised, Undisturbed, SingleWriter
<1>2. ASSUME NEW c \in writers, SchemaStep(c), writers' = writers
      PROVE  SchemaInv'
  <2> DEFINE k == call[c]
  <2>0. c \in Callers /\ k \in InitCall /\ Progress(db, k) /\ Promised /\ db \in Database
    BY DEF SchemaInv
  <2>a. SingleWriter => /\ ~failed
                        /\ k.at = "alter" =>
                             /\ ColumnsOf(k.v) \subseteq db.columns \cup k.todo
                             /\ k.todo \subseteq ColumnsOf(k.v) \ db.columns
    BY <2>0 DEF SchemaInv, Undisturbed
  <2>b. Idle \in InitCall /\ \A d : Progress(d, Idle)
    BY DEF InitCall, Progress, Idle
  <2>c. Schema(Latest).tables \subseteq TableVersions
    BY <1>0, SchemaGrows
  <2>1. CASE StartInit(c)
    <3> DEFINE l == [at |-> "script", todo |-> TableVersions]
    <3>1. l \in InitCall /\ Progress(db, l)
      BY DEF InitCall, Progress
    <3>2. call' = [call EXCEPT ![c] = l] /\ UNCHANGED schemaVars
      BY <2>1 DEF StartInit, Begin
    <3>3. Promised'
      BY <2>0, <3>2 DEF Promised
    <3> QED
      BY <1>2, <2>a, <3>1, <3>2, <3>3, CallMoves
  <2>2. CASE CreateTable(c)
    <3> DEFINE t == CHOOSE t \in k.todo : \A u \in k.todo : t <= u
               l == [at |-> "script", todo |-> k.todo \ {t}]
    <3>0. k.at = "script" /\ k.todo \in SUBSET TableVersions /\ k.todo # {}
      BY <2>0, <2>2 DEF CreateTable, Resume, InitCall, Idle
    <3>1. l \in InitCall
      BY <3>0 DEF InitCall
    <3>2. t \in k.todo
      <4>1. \E n \in k.todo : \A u \in k.todo : n <= u
        BY <3>0, ColumnTypes, LeastOf
      <4> QED
        BY <4>1
    <3>3. t \in Nat /\ ColumnsIn(t) \subseteq Nat \X Nat
      BY <3>0, <3>2, ColumnTypes
    <3>4. /\ db' = IF t \in db.tables THEN db
                   ELSE [db EXCEPT !.tables = @ \cup {t}, !.columns = @ \cup ColumnsIn(t)]
          /\ call' = [call EXCEPT ![c] = l] /\ UNCHANGED <<finished, failed>>
      BY <2>2 DEF CreateTable, Continue
    <3>5. db' \in Database /\ Grows(db, db') /\ db'.versions = db.versions /\ t \in db'.tables
      <4>1. CASE t \in db.tables
        BY <2>0, <3>4, <4>1 DEF Grows
      <4>2. CASE t \notin db.tables
        <5>1. db' = [db EXCEPT !.tables = @ \cup {t}, !.columns = @ \cup ColumnsIn(t)]
          BY <3>4, <4>2
        <5>2. /\ db'.tables = db.tables \cup {t} /\ db'.columns = db.columns \cup ColumnsIn(t)
              /\ db'.indices = db.indices /\ db'.versions = db.versions
          BY <2>0, <5>1 DEF Database
        <5>3. db.tables \cup {t} \in SUBSET Nat
              /\ db.columns \cup ColumnsIn(t) \in SUBSET (Nat \X Nat)
          BY <2>0, <3>3 DEF Database
        <5> QED
          BY <2>0, <5>1, <5>2, <5>3 DEF Database, Grows
      <4> QED
        BY <4>1, <4>2
    <3>6. Progress(db', l)
      BY <2>0, <3>0, <3>5 DEF Progress, Grows
    <3>7. Promised'
      BY <2>0, <3>4, <3>5, PromisesKept
    <3> QED
      BY <1>2, <2>a, <3>1, <3>4, <3>5, <3>6, <3>7, CallKeeps
  <2>3. CASE ReadVersion(c)
    <3>0. k.at = "script" /\ k.todo = {} /\ TableVersions \subseteq db.tables
      BY <2>0, <2>3 DEF ReadVersion, Resume, Progress
    <3>1. db.versions # <<>> => /\ Head(db.versions) = db.versions[1] /\ 1 \in DOMAIN db.versions
                                /\ Head(db.versions) \in 0..Latest
      <4>1. db.versions \in Seq(0..Latest)
        BY <2>0 DEF Database
      <4> QED
        BY <4>1, FirstRow
    <3>2. CASE db.versions # <<>> /\ Head(db.versions) >= Latest
      <4>1. Return(c) /\ finished' = TRUE /\ UNCHANGED <<db, failed>>
        BY <2>3, <3>2 DEF ReadVersion
      <4>2. Holds(db, Latest)
        BY <1>0, <2>0, <3>1, <3>2 DEF Promised
      <4>3. Promised'
        BY <2>0, <3>2, <4>1, <4>2 DEF Promised
      <4> QED
        BY <1>2, <2>a, <2>b, <4>1, <4>3, CallMoves DEF Return, Idle
    <3>3. CASE ~(db.versions # <<>> /\ Head(db.versions) >= Latest)
      <4> DEFINE from == IF db.versions = <<>> THEN 0 ELSE Head(db.versions)
      <4>0. PICK b \in BOOLEAN : b = (db.versions = <<>>)
        OBVIOUS
      <4> DEFINE l == [at |-> "migrate", fresh |-> b,
                       v |-> IF from < 3 THEN 3 ELSE from + 1]
      <4>1. call' = [call EXCEPT ![c] = l] /\ UNCHANGED schemaVars
        BY <2>3, <3>3, <4>0 DEF ReadVersion, Continue
      <4>2. from \in 0..15
        BY <1>0, <3>1, <3>3
      <4>3. l \in InitCall
        <5> DEFINE v == IF from < 3 THEN 3 ELSE from + 1
        <5>1. v \in 3..Latest + 1
          <6> HIDE DEF from
          <6> QED
            BY <1>0, <4>2
        <5>2. l = [at |-> "migrate", fresh |-> b, v |-> v]
          OBVIOUS
        <5> HIDE DEF l, v
        <5>3. l \in [at : {"migrate"}, fresh : BOOLEAN, v : 3..Latest + 1]
          BY <4>0, <5>1, <5>2
        <5> QED
          BY <5>3 DEF InitCall
      <4>4. Holds(db, l.v - 1)
        <5>1. CASE from < 3
          <6>1. l.v - 1 = 2
            BY <5>1
          <6> QED
            BY <3>0, <6>1, SchemaGrows DEF Holds
        <5>2. CASE from >= 3
          <6>1. l.v - 1 = from /\ db.versions # <<>> /\ from = Head(db.versions)
            BY <4>2, <5>2
          <6> QED
            BY <2>0, <3>1, <6>1 DEF Promised
        <5> QED
          BY <4>2, <5>1, <5>2
      <4>5. Progress(db, l)
        <5>1. b <=> db.versions = <<>>
          BY <4>0
        <5>2. b => DOMAIN db.versions = {}
          BY <5>1
        <5> QED
          BY <3>0, <4>4, <5>1, <5>2 DEF Progress
      <4>6. Promised'
        BY <2>0, <4>1 DEF Promised
      <4> QED
        BY <1>2, <2>a, <4>1, <4>3, <4>5, <4>6, CallMoves
    <3> QED
      BY <3>2, <3>3
  <2>4. CASE StartMigration(c)
    <3> DEFINE l == [at |-> "alter", fresh |-> k.fresh, v |-> k.v,
                     todo |-> ColumnsOf(k.v) \ db.columns]
    <3>0. k.at = "migrate" /\ k.fresh \in BOOLEAN /\ k.v \in 3..Latest
      BY <1>0, <2>0, <2>4 DEF StartMigration, Resume, InitCall, Idle
    <3>1. l \in InitCall
      BY <1>0, <3>0, ColumnTypes DEF InitCall
    <3>2. call' = [call EXCEPT ![c] = l] /\ UNCHANGED schemaVars
      BY <2>4 DEF StartMigration, Continue
    <3>3. Progress(db, l)
      BY <2>0, <3>0 DEF Progress
    <3>4. Promised'
      BY <2>0, <3>2 DEF Promised
    <3>5. /\ ColumnsOf(l.v) \subseteq db.columns \cup l.todo
          /\ l.todo \subseteq ColumnsOf(l.v) \ db.columns
      OBVIOUS
    <3> QED
      BY <1>2, <2>a, <3>1, <3>2, <3>3, <3>4, <3>5, CallMoves
  <2>5. CASE AddColumn(c)
    <3> DEFINE col == CHOOSE x \in k.todo : \A y \in k.todo : x[2] <= y[2]
               l == [k EXCEPT !.todo = @ \ {col}]
    <3>0. /\ k \in [at : {"alter"}, fresh : BOOLEAN, v : 3..Latest, todo : SUBSET (Nat \X Nat)]
          /\ k.todo # {}
      BY <2>0, <2>5 DEF AddColumn, Resume, InitCall, Idle
    <3>1. col \in k.todo /\ col \in Nat \X Nat
      BY <3>0, NextColumn
    <3>2. CASE col \in db.columns
      <4>1. Fail(c)
        BY <2>5, <3>2 DEF AddColumn
      <4>2. ~SingleWriter
        BY <2>a, <3>0, <3>1, <3>2
      <4>3. Promised'
        BY <2>0, <4>1 DEF Promised, Fail
      <4> QED
        BY <1>2, <2>b, <4>1, <4>2, <4>3, CallMoves DEF Fail, Return
    <3>3. CASE col \notin db.columns
      <4>1. /\ db' = [db EXCEPT !.columns = @ \cup {col}]
            /\ call' = [call EXCEPT ![c] = l] /\ UNCHANGED <<finished, failed>>
        BY <2>5, <3>3 DEF AddColumn, Continue
      <4>2. /\ l = [at |-> "alter", fresh |-> k.fresh, v |-> k.v, todo |-> k.todo \ {col}]
            /\ l \in InitCall
        BY <3>0 DEF InitCall
      <4>3. /\ db' \in Database /\ Grows(db, db') /\ db'.versions = db.versions
            /\ db'.columns = db.columns \cup {col}
        BY <2>0, <3>1, <4>1 DEF Database, Grows
      <4>4. Progress(db', l)
        BY <2>0, <3>0, <4>2, <4>3, GrowsKeeps DEF Progress
      <4>5. Promised'
        BY <2>0, <4>1, <4>3, PromisesKept
      <4>6. SingleWriter => /\ ~failed'
                            /\ ColumnsOf(l.v) \subseteq db'.columns \cup l.todo
                            /\ l.todo \subseteq ColumnsOf(l.v) \ db'.columns
        BY <2>a, <3>0, <4>1, <4>2, <4>3
      <4> QED
        BY <1>2, <4>1, <4>2, <4>3, <4>4, <4>5, <4>6, CallKeeps
    <3> QED
      BY <3>2, <3>3
  <2>6. CASE CreateIndices(c)
    <3>0. k.at = "alter" /\ k.fresh \in BOOLEAN /\ k.v \in 3..Latest /\ k.todo = {}
      BY <2>0, <2>6 DEF CreateIndices, Resume, InitCall, Idle
    <3>1. CASE ~(ColumnsOf(k.v) \subseteq db.columns)
      <4>1. Fail(c)
        BY <2>6, <3>1 DEF CreateIndices
      <4>2. ~SingleWriter
        BY <2>a, <3>0, <3>1
      <4>3. Promised'
        BY <2>0, <4>1 DEF Promised, Fail
      <4> QED
        BY <1>2, <2>b, <4>1, <4>2, <4>3, CallMoves DEF Fail, Return
    <3>2. CASE ColumnsOf(k.v) \subseteq db.columns
      <4> DEFINE l == [at |-> "migrate", fresh |-> k.fresh, v |-> k.v + 1]
      <4>1. /\ db' = [db EXCEPT !.indices = @ \cup (IndexVersions \cap {k.v})]
            /\ call' = [call EXCEPT ![c] = l] /\ UNCHANGED <<finished, failed>>
        BY <2>6, <3>2 DEF CreateIndices, Continue
      <4>2. l \in InitCall
        BY <1>0, <3>0 DEF InitCall
      <4>3. /\ db' \in Database /\ Grows(db, db') /\ db'.versions = db.versions
            /\ db'.tables = db.tables /\ db'.columns = db.columns
            /\ db'.indices = db.indices \cup (IndexVersions \cap {k.v})
        BY <2>0, <4>1, ColumnTypes DEF Database, Grows
      <4>4. Holds(db', l.v - 1)
        <5>1. Holds(db, k.v - 1) /\ TableVersions \subseteq db.tables /\ l.v - 1 = k.v
          BY <1>0, <2>0, <3>0 DEF Progress
        <5>2. k.v \in 3..16 /\ k.v \in Nat
          BY <1>0, <3>0
        <5> QED
          BY <3>2, <4>3, <5>1, <5>2, SchemaGrows DEF Holds
      <4>5. Progress(db', l)
        BY <2>0, <3>0, <4>3, <4>4 DEF Progress
      <4>6. Promised'
        BY <2>0, <4>1, <4>3, PromisesKept
      <4> QED
        BY <1>2, <2>a, <4>1, <4>2, <4>3, <4>5, <4>6, CallKeeps
    <3> QED
      BY <3>1, <3>2
  <2>7. CASE StampVersion(c)
    <3>0. k.at = "migrate" /\ k.fresh \in BOOLEAN /\ k.v = Latest + 1
      BY <1>0, <2>0, <2>7 DEF StampVersion, Resume, InitCall, Idle
    <3>1. /\ db' = [db EXCEPT !.versions = IF k.fresh THEN Append(@, Latest)
                                           ELSE [i \in DOMAIN @ |-> Latest]]
          /\ call' = [call EXCEPT ![c] = Idle] /\ finished' = TRUE /\ failed' = failed
      BY <2>7 DEF StampVersion, Return
    <3>2. Holds(db, Latest)
      BY <1>0, <2>0, <3>0 DEF Progress
    <3>3. /\ db'.tables = db.tables /\ db'.columns = db.columns /\ db'.indices = db.indices
          /\ db'.versions = IF k.fresh THEN Append(db.versions, Latest)
                            ELSE [i \in DOMAIN db.versions |-> Latest]
      BY <2>0, <3>1 DEF Database
    <3>4. /\ db'.versions \in Seq(0..Latest) /\ db'.versions # <<>>
          /\ \A i \in DOMAIN db'.versions : db'.versions[i] = Latest
      <4>0. db.versions \in Seq(0..Latest) /\ Latest \in 0..Latest
        BY <1>0, <2>0 DEF Database
      <4> DEFINE V == db.versions
                 W == db'.versions
      <4>1. CASE k.fresh
        <5>1. \A i \in 1..Len(V) : V[i] = Latest
          BY <2>0, <3>0, <4>0, <4>1 DEF Progress
        <5>2. W = Append(V, Latest)
          BY <3>3, <4>1
        <5> HIDE DEF V, W
        <5>3. W \in Seq(0..Latest) /\ W # <<>> /\ Len(W) = Len(V) + 1 /\ Len(V) \in Nat
              /\ W[Len(V) + 1] = Latest /\ \A i \in 1..Len(V) : W[i] = V[i]
          BY <4>0, <5>2, AppendProperties DEF V
        <5>4. \A i \in DOMAIN W : W[i] = Latest
          BY <5>1, <5>3
        <5> QED
          BY <5>3, <5>4 DEF W
      <4>2. CASE ~k.fresh
        <5>1. V # <<>>
          BY <2>0, <3>0, <4>2 DEF Progress
        <5>2. W = [i \in DOMAIN V |-> Latest]
          BY <3>3, <4>2
        <5> HIDE DEF V, W
        <5>3. DOMAIN V = 1..Len(V) /\ Len(V) \in Nat
          BY <4>0 DEF V
        <5>4. W \in Seq(0..Latest) /\ \A i \in DOMAIN W : W[i] = Latest
          BY <4>0, <5>2, <5>3
        <5>5. Len(V) # 0
          BY <4>0, <5>1 DEF V
        <5>6. 1 \in DOMAIN W
          BY <5>2, <5>3, <5>5
        <5> QED
          BY <5>4, <5>6 DEF W
      <4> QED
        BY <4>1, <4>2
    <3>5. db' \in Database /\ Grows(db, db')
      BY <2>0, <3>1, <3>3, <3>4 DEF Database, Grows
    <3>6. 1 \in DOMAIN db'.versions
      BY <3>4
    <3>7. Promised'
      BY <3>1, <3>2, <3>4, <3>5, <3>6, GrowsKeeps DEF Promised
    <3> QED
      BY <1>2, <2>a, <2>b, <3>1, <3>4, <3>5, <3>7, CallKeeps DEF Idle
  <2>8. CASE Die(c) /\ UNCHANGED schemaVars
    <3>1. Promised'
      BY <2>0, <2>8 DEF Promised
    <3> QED
      BY <1>2, <2>a, <2>b, <2>8, <3>1, CallMoves DEF Die, Return, Idle
  <2> QED
    BY <1>2, <2>1, <2>2, <2>3, <2>4, <2>5, <2>6, <2>7, <2>8 DEF SchemaStep
<1> QED
  BY <1>1, <1>2 DEF SchemaNext

-----------------------------------------------------------------------------
(* Whatever version a database was left at, however many processes open it at *)
(* once and wherever they die: its version row never promises what the file   *)
(* does not hold, a call that returned leaves the whole schema, and a single  *)
(* process can always run an interrupted migration again (init_db).           *)
THEOREM SchemaIsPromised == SchemaSpec => []SchemaMatchesVersion
<1>1. CallersInit /\ SchemaInit => SchemaInv
  BY SchemaInitHolds
<1>2. SchemaInv /\ [SchemaNext]_<<schemaVars, writers, call>> => SchemaInv'
  BY SchemaStepHolds
<1>3. SchemaInv => SchemaMatchesVersion
  BY SchemaSuffices
<1> QED
  BY <1>1, <1>2, <1>3, PTL DEF SchemaSpec

-----------------------------------------------------------------------------
(* Sessions, transitions and policy executions.                            *)

AssemblyRow == [key : Keys, content : Contents, status : {"active", "superseded"}]
SessionRow == [key : Keys, status : {"active", "closed"}, count : Nat, initial : Nat,
               latest : Nat]
TransitionRows == [session : Nat, index : Nat, to : Nat, from : Nat, policy : Nat,
                   given : BOOLEAN, late : BOOLEAN]
PolicyRow == [class : {r.class : r \in Rules}, conditions : {r.conditions : r \in Rules},
              status : PolicyStatus]
Outcomes == {EvaluateTrigger(s, e) : s \in PolicyRow, e \in Events}
Decision == [policy : Nat, snapshot : PolicyRow, event : Events, fired : BOOLEAN,
             artifacts : {o.artifacts : o \in Outcomes}, assembly : Nat, transition : Nat]

Executions == [policy : Nat, snapshot : PolicyRow, event : Events, outcome : Outcomes]
Exec == Executions \cup {NoExecution}

LogCall == [at : {"find", "log"}, key : Keys, content : Contents, session : Nat, exec : Exec]
MoveCall == [at : {"session"}, session : Nat, to : Nat, from : Nat, exec : Exec]
IndexCall == [at : {"sequence"}, session : Nat, to : Nat, from : Nat, exec : Exec,
              row : SessionRow]
AppendCall == [at : {"append"}, session : Nat, to : Nat, from : Nat, exec : Exec,
               row : SessionRow, index : Nat]
DecideCall == [at : {"decide"}, exec : Executions, to : Nat, transition : Nat]

SessionCall == {Idle} \cup LogCall \cup MoveCall \cup IndexCall \cup AppendCall \cup DecideCall

Tables ==
    /\ asms \in Seq(AssemblyRow) /\ sessions \in Seq(SessionRow)
    /\ trans \in Seq(TransitionRows) /\ policies \in Seq(PolicyRow)
    /\ decisions \in Seq(Decision) /\ orphans \subseteq DOMAIN trans
    /\ writers \subseteq Callers /\ call \in [Callers -> SessionCall]
    /\ \A c \in Callers : c \in writers \/ call[c] = Idle

(* The active assembly of a key is its newest row. *)
Newest ==
    \A a \in DOMAIN asms :
        asms[a].status = "active" <=>
            \A b \in DOMAIN asms : asms[b].key = asms[a].key => b <= a

(* The rows of a session: TransitionsOf, of any log. *)
Rows(T, s) == {t \in DOMAIN T : T[t].session = s}
Size(T, s) == Cardinality(Rows(T, s))

(* The indices of a session are 0, 1, ... in the order of its rows. *)
Gapless ==
    /\ \A s \in DOMAIN sessions : /\ IsFiniteSet(Rows(trans, s))
                                  /\ \A n \in 0..Size(trans, s) - 1 :
                                        \E t \in Rows(trans, s) : trans[t].index = n
    /\ \A t \in DOMAIN trans :
         LET s == trans[t].session IN
         /\ s \in DOMAIN sessions
         /\ trans[t].index < Size(trans, s)
         /\ trans[t].index = Cardinality({u \in Rows(trans, s) : u < t})
         /\ \A u \in Rows(trans, s) : u < t => trans[u].index < trans[t].index

(* The pointers of a session name its own transitions, whoever wrote them. *)
Pointed ==
    \A s \in DOMAIN sessions :
        /\ sessions[s].count <= Size(trans, s)
        /\ IF Rows(trans, s) = {} THEN sessions[s].initial = None /\ sessions[s].latest = None
           ELSE {sessions[s].initial, sessions[s].latest}
                    \subseteq {trans[t].to : t \in Rows(trans, s)}

(* Rows name rows that are there. *)
Linked ==
    \A t \in DOMAIN trans :
        /\ trans[t].to \in DOMAIN asms
        /\ trans[t].policy \in DOMAIN policies \cup {None}
        /\ trans[t].given \/ trans[t].from \in DOMAIN asms \cup {None}

(* A decision says what its own snapshot and event give. *)
Decided ==
    \A d \in DOMAIN decisions :
        LET row == decisions[d] IN
        /\ Outcome(row.fired, row.artifacts) = EvaluateTrigger(row.snapshot, row.event)
        /\ row.fired <=> row.assembly # None
        /\ row.assembly \in DOMAIN asms \cup {None}
        /\ row.transition # None => /\ row.transition \in DOMAIN trans
                                    /\ trans[row.transition].to = row.assembly
                                    /\ trans[row.transition].policy = row.policy

(* What a call read still is as it was, or has only grown. *)
Fired(exec) ==
    exec # NoExecution => /\ exec.policy \in DOMAIN policies
                          /\ exec.outcome = EvaluateTrigger(exec.snapshot, exec.event)

Holding(k) ==
    /\ k.at # "idle" => Fired(k.exec)
    /\ k.at \in {"find", "log", "session", "sequence", "append"} /\ k.exec # NoExecution =>
         k.exec.outcome.fired
    /\ k.at \in {"find", "log"} => k.session \in DOMAIN sessions \cup {None}
    /\ k.at \in {"session", "sequence", "append"} =>
         k.session \in DOMAIN sessions /\ k.to \in DOMAIN asms
    /\ k.at \in {"sequence", "append"} =>
         /\ k.row.count <= Size(trans, k.session)
         /\ k.row.initial # None => Rows(trans, k.session) # {}
         /\ k.row.latest \in DOMAIN asms \cup {None}
    /\ k.at = "append" => k.index <= Size(trans, k.session)
    /\ k.at = "decide" =>
         /\ k.exec.outcome.fired <=> k.to # None
         /\ k.to \in DOMAIN asms \cup {None}
         /\ k.transition # None => /\ k.transition \in DOMAIN trans
                                   /\ trans[k.transition].to = k.to
                                   /\ trans[k.transition].policy = k.exec.policy

(* Who answers for a transition of a policy: one decision, one call that is to  *)
(* write it, or nobody any more.                                                *)
DecisionsOf(t) == {d \in DOMAIN decisions : decisions[d].transition = t}
CallsOf(t) == {c \in Callers : call[c].at = "decide" /\ call[c].transition = t}

Answered(t) ==
    \/ (\E d \in DOMAIN decisions : DecisionsOf(t) = {d}) /\ CallsOf(t) = {} /\ t \notin orphans
    \/ DecisionsOf(t) = {} /\ (\E c \in Callers : CallsOf(t) = {c}) /\ t \notin orphans
    \/ DecisionsOf(t) = {} /\ CallsOf(t) = {} /\ t \in orphans

Accounted == \A t \in DOMAIN trans : trans[t].policy # None => Answered(t)

(* What a single writer can rely on besides. *)
Exact ==
    /\ \A s \in DOMAIN sessions : sessions[s].count = Size(trans, s)
    /\ \A t \in DOMAIN trans :
         LET row == trans[t]
             s == row.session
         IN /\ ~row.late
            /\ row.index = 0 => /\ sessions[s].initial = row.to
                                /\ row.given \/ row.from = None
            /\ row.index + 1 = Size(trans, s) => sessions[s].latest = row.to
            /\ \A u \in Rows(trans, s) :
                 trans[u].index + 1 = row.index => row.given \/ row.from = trans[u].to
    /\ \A c \in Callers :
         LET k == call[c] IN
         /\ k.at \in {"sequence", "append"} => /\ k.row = sessions[k.session]
                                               /\ k.row.status = "active"
         /\ k.at = "append" => k.index = Size(trans, k.session)

SessionInv ==
    /\ Tables /\ Newest /\ Gapless /\ Pointed /\ Linked /\ Decided
    /\ \A c \in Callers : Holding(call[c])
    /\ Accounted
    /\ SingleWriter => Exact

-----------------------------------------------------------------------------
(* The last of a bounded set of row ids. *)
LEMMA LastOfIs ==
    ASSUME NEW S, NEW k \in S, S \subseteq Nat, \A j \in S : j <= k
    PROVE  LastOf(S) = k
<1>1. \A i \in S : (\A j \in S : j <= i) => i = k
  OBVIOUS
<1> QED
  BY <1>1 DEF LastOf

LEMMA GreatestOf ==
    ASSUME NEW n \in Nat, NEW S, S \subseteq 1..n, S # {}
    PROVE  LastOf(S) \in S /\ \A j \in S : j <= LastOf(S)
<1> DEFINE T == {n - i : i \in S}
<1>1. T \in SUBSET Nat /\ T # {}
  <2>1. \A i \in S : n - i \in Nat
    OBVIOUS
  <2> QED
    BY <2>1
<1>2. PICK m \in T : \A j \in T : m <= j
  BY <1>1, LeastOf
<1>3. PICK k \in S : m = n - k
  BY <1>2
<1>4. ASSUME NEW j \in S PROVE j <= k
  <2>1. n - k <= n - j
    BY <1>2, <1>3, <1>4
  <2>2. k \in 1..n /\ j \in 1..n
    BY <1>3, <1>4
  <2> QED
    BY <2>1, <2>2
<1>5. LastOf(S) = k
  <2>1. S \subseteq Nat
    OBVIOUS
  <2> QED
    BY <1>3, <1>4, <2>1, LastOfIs
<1> QED
  BY <1>3, <1>4, <1>5

-----------------------------------------------------------------------------
(* evaluate_trigger always decides, and for no policy but an active one. *)
LEMMA OutcomeOf ==
    ASSUME NEW s \in PolicyRow, NEW e \in Events
    PROVE  LET o == EvaluateTrigger(s, e) IN
           /\ o = Outcome(o.fired, o.artifacts) /\ o.fired \in BOOLEAN
           /\ o.fired => s.status = "active"
<1> USE DEF Outcome, NotFired
<1> DEFINE Good(o) == o = [fired |-> o.fired, artifacts |-> o.artifacts] /\ o.fired \in BOOLEAN
<1>1. Good(NotFired) /\ ~NotFired.fired
  OBVIOUS
<1>2. Good(EvalOperatorRequest(e))
  BY SessionAssumption DEF EvalOperatorRequest
<1>3. Good(EvalGovernanceEscalation(s.conditions, e))
  BY DEF EvalGovernanceEscalation
<1>4. Good(EvalContradictionChange(s.conditions, e))
  BY DEF EvalContradictionChange
<1>5. Good(EvalConfidenceRevision(s.conditions, e))
  BY DEF EvalConfidenceRevision
<1> HIDE DEF Outcome, NotFired, Good
<1>6. Good(EvaluateTrigger(s, e)) /\ (EvaluateTrigger(s, e).fired => s.status = "active")
  <2>1. CASE s.status # "active"
    BY <1>1, <2>1 DEF EvaluateTrigger
  <2>2. CASE s.status = "active"
    <3>1. EvaluateTrigger(s, e) \in {NotFired, EvalOperatorRequest(e),
             EvalGovernanceEscalation(s.conditions, e), EvalContradictionChange(s.conditions, e),
             EvalConfidenceRevision(s.conditions, e)}
      BY <2>2 DEF EvaluateTrigger
    <3> QED
      BY <1>1, <1>2, <1>3, <1>4, <1>5, <2>2, <3>1
  <2> QED
    BY <2>1, <2>2
<1> QED
  BY <1>6 DEF Good, Outcome

(* The rows of a session and how its log grows. *)
LEMMA RowsOf == \A s : TransitionsOf(s) = Rows(trans, s)
BY DEF TransitionsOf, Rows

-----------------------------------------------------------------------------
(* A timeline lists the transitions of its session by their indices. *)
LEMMA TimelineOf ==
    ASSUME Tables, Gapless, NEW s \in DOMAIN sessions
    PROVE  LET ids == Rows(trans, s)
               line == Timeline(s)
           IN /\ Len(line) = Size(trans, s) /\ DOMAIN line = 1..Size(trans, s)
              /\ Size(trans, s) \in Nat
              /\ \A t \in ids : trans[t].index + 1 \in 1..Size(trans, s)
                                /\ line[trans[t].index + 1] = trans[t].to
<1> DEFINE ids == TransitionsOf(s)
           N == Cardinality(TransitionsOf(s))
           line == Timeline(s)
           rank(t) == Cardinality({u \in ids : trans[u].index < trans[t].index})
<1>0. ids = Rows(trans, s) /\ N = Size(trans, s)
  BY RowsOf DEF Size
<1>1. IsFiniteSet(ids) /\ N \in Nat
  BY <1>0, FS_CardinalityType DEF Gapless, Size
<1> HIDE DEF ids, N
<1>2. \A t \in ids : /\ t \in Nat /\ trans[t].index \in Nat /\ trans[t].index < N
                     /\ \A u \in ids : u < t => trans[u].index < trans[t].index
  <2>1. \A t \in ids : t \in DOMAIN trans /\ trans[t].session = s
    BY <1>0 DEF Rows
  <2>2. \A t \in DOMAIN trans : trans[t].index \in Nat /\ t \in Nat
    <3>1. \A t \in DOMAIN trans : trans[t] \in TransitionRows /\ t \in Nat
      BY DEF Tables
    <3> QED
      BY <3>1 DEF TransitionRows
  <2>3. \A t \in ids : /\ trans[t].index < N
                       /\ \A u \in ids : u < t => trans[u].index < trans[t].index
    BY <1>0, <2>1 DEF Gapless
  <2> QED
    BY <2>1, <2>2, <2>3
<1>a. \A t \in ids : trans[t].index = Cardinality({u \in ids : u < t})
  BY <1>0 DEF Rows, Gapless
<1>3. ASSUME NEW t \in ids
      PROVE  rank(t) = trans[t].index
  <2>1. ASSUME NEW u \in ids
        PROVE  trans[u].index < trans[t].index <=> u < t
    BY <1>2, <1>3, <2>1
  <2>2. {u \in ids : trans[u].index < trans[t].index} = {u \in ids : u < t}
    BY <2>1
  <2> QED
    BY <1>3, <1>a, <2>2
<1>4. \A t, u \in ids : trans[t].index = trans[u].index => t = u
  BY <1>2
<1>5. line = [n \in 1..N |-> LET t == CHOOSE t \in ids : rank(t) = n - 1 IN trans[t].to]
  BY DEF Timeline, ids, N
<1> HIDE DEF rank, line
<1>6. ASSUME NEW t \in ids
      PROVE  trans[t].index + 1 \in 1..N /\ line[trans[t].index + 1] = trans[t].to
  <2> DEFINE n == trans[t].index + 1
  <2>1. n \in 1..N /\ n - 1 = trans[t].index
    BY <1>1, <1>2, <1>6
  <2>2. \A u \in ids : rank(u) = n - 1 <=> u = t
    BY <1>3, <1>4, <1>6, <2>1
  <2>3. (CHOOSE u \in ids : rank(u) = n - 1) = t
    BY <1>6, <2>2
  <2> QED
    BY <1>5, <2>1, <2>3
<1>7. Len(line) = N /\ DOMAIN line = 1..N
  BY <1>1, <1>5
<1> QED
  BY <1>0, <1>1, <1>6, <1>7 DEF line

(* The part of a timeline that whoever writes keeps, and what one writer adds. *)
LEMMA TimelineIs ==
    ASSUME Tables, Gapless, Pointed, SingleWriter => Exact, NEW s \in DOMAIN sessions
    PROVE  LET ids == TransitionsOf(s)
               row == sessions[s]
               line == Timeline(s)
               before(t) == {u \in ids : u < t}
           IN
           /\ \A t \in ids : trans[t].index = Cardinality(before(t))
           /\ row.count <= Len(line)
           /\ IF ids = {} THEN row.initial = None /\ row.latest = None
              ELSE {row.initial, row.latest} \subseteq {line[n] : n \in DOMAIN line}
           /\ SingleWriter =>
                /\ row.count = Len(line)
                /\ ids # {} => row.initial = line[1] /\ row.latest = line[Len(line)]
                /\ \A t \in ids : /\ ~trans[t].late
                                  /\ trans[t].given \/ trans[t].from =
                                       IF before(t) = {} THEN None
                                       ELSE trans[LastOf(before(t))].to
<1> DEFINE ids == TransitionsOf(s)
           row == sessions[s]
           line == Timeline(s)
           N == Size(trans, s)
           before(t) == {u \in ids : u < t}
<1>0. ids = Rows(trans, s)
  BY RowsOf
<1>1. /\ Len(line) = N /\ DOMAIN line = 1..N /\ N \in Nat
      /\ \A t \in ids : trans[t].index + 1 \in 1..N /\ line[trans[t].index + 1] = trans[t].to
  BY <1>0, TimelineOf
<1>2. \A t \in ids : trans[t].index = Cardinality(before(t))
  BY DEF Gapless, TransitionsOf, Rows
<1>3. \A t \in ids : /\ t \in DOMAIN trans /\ t \in Nat /\ trans[t].session = s
                     /\ trans[t].index \in Nat
  <2>1. \A t \in DOMAIN trans : trans[t] \in TransitionRows /\ t \in Nat
    BY DEF Tables
  <2> QED
    BY <1>0, <2>1 DEF TransitionRows, Rows
<1>4. /\ IsFiniteSet(ids) /\ N = Cardinality(ids)
      /\ \A n \in 0..N - 1 : \E t \in ids : trans[t].index = n
      /\ \A t, u \in ids : u < t => trans[u].index < trans[t].index
  <2>1. IsFiniteSet(ids) /\ N = Cardinality(ids)
    BY <1>0 DEF Gapless, Size
  <2>2. \A n \in 0..N - 1 : \E t \in ids : trans[t].index = n
    BY <1>0 DEF Gapless
  <2> HIDE DEF ids
  <2>3. ASSUME NEW t \in ids, NEW u \in ids, u < t
        PROVE  trans[u].index < trans[t].index
    BY <1>0, <1>3, <2>3 DEF Gapless
  <2> QED
    BY <2>1, <2>2, <2>3
<1> HIDE DEF ids, line, N
<1>5. row.count <= Len(line)
  BY <1>1 DEF Pointed, N
<1>6. IF ids = {} THEN row.initial = None /\ row.latest = None
      ELSE {row.initial, row.latest} \subseteq {line[n] : n \in DOMAIN line}
  <2>1. CASE ids = {}
    BY <1>0, <2>1 DEF Pointed
  <2>2. CASE ids # {}
    <3>1. {row.initial, row.latest} \subseteq {trans[t].to : t \in ids}
      BY <1>0, <2>2 DEF Pointed
    <3> QED
      BY <1>1, <2>2, <3>1
  <2> QED
    BY <2>1, <2>2
<1>7. ASSUME SingleWriter
      PROVE  /\ row.count = Len(line)
             /\ ids # {} => row.initial = line[1] /\ row.latest = line[Len(line)]
             /\ \A t \in ids : /\ ~trans[t].late
                               /\ trans[t].given \/ trans[t].from =
                                    IF before(t) = {} THEN None
                                    ELSE trans[LastOf(before(t))].to
  <2> USE <1>7
  <2>1. row.count = Len(line)
    BY <1>1 DEF Exact, N
  <2>2. ASSUME ids # {}
        PROVE  row.initial = line[1] /\ row.latest = line[Len(line)]
    <3>1. N # 0
      BY <1>4, <2>2, FS_EmptySet
    <3>2. 0 \in 0..N - 1 /\ N - 1 \in 0..N - 1 /\ N - 1 + 1 = N
      BY <1>1, <3>1
    <3>3. PICK t \in ids : trans[t].index = 0
      BY <1>4, <3>2
    <3>4. PICK u \in ids : trans[u].index = N - 1
      BY <1>4, <3>2
    <3>5. row.initial = trans[t].to /\ row.latest = trans[u].to
      BY <1>3, <3>2, <3>3, <3>4 DEF Exact, N
    <3>6. line[0 + 1] = trans[t].to /\ line[N - 1 + 1] = trans[u].to
      BY <1>1, <3>3, <3>4
    <3> QED
      BY <1>1, <3>2, <3>5, <3>6
  <2>3. ASSUME NEW t \in ids
        PROVE  /\ ~trans[t].late
               /\ trans[t].given \/ trans[t].from =
                    IF before(t) = {} THEN None ELSE trans[LastOf(before(t))].to
    <3>1. ~trans[t].late
      BY <1>3, <2>3 DEF Exact
    <3>2. CASE before(t) = {}
      <4>1. trans[t].index = 0
        BY <1>2, <2>3, <3>2, FS_EmptySet
      <4> QED
        BY <1>3, <2>3, <3>1, <3>2, <4>1 DEF Exact
    <3>3. CASE before(t) # {}
      <4> DEFINE u == LastOf(before(t))
      <4>1. before(t) \subseteq 1..t
        <5>1. \A v \in ids : v \in 1..Len(trans)
          BY <1>0 DEF Rows, Tables
        <5> QED
          BY <1>3, <5>1
      <4>2. u \in before(t) /\ \A v \in before(t) : v <= u
        BY <1>3, <3>3, <4>1, GreatestOf
      <4>3. before(t) = before(u) \cup {u} /\ u \notin before(u)
        <5>1. u \in ids /\ u < t /\ u \in Nat /\ t \in Nat
          BY <1>3, <2>3, <4>2
        <5>2. \A v \in ids : v < t <=> v < u \/ v = u
          <6> HIDE DEF u
          <6>1. \A v \in ids : v \in Nat /\ (v < t => v <= u)
            BY <1>3, <4>2
          <6> QED
            BY <5>1, <6>1
        <5> HIDE DEF u
        <5>3. ~(u < u)
          BY <5>1
        <5>4. u \notin before(u)
          BY <5>3
        <5>5. before(t) = {v \in ids : v < u \/ v = u}
          BY <5>2
        <5>6. {v \in ids : v < u \/ v = u} = before(u) \cup {u}
          BY <5>1, Zenon
        <5> QED
          BY <5>4, <5>5, <5>6
      <4>4. IsFiniteSet(before(u))
        BY <1>4, FS_Subset
      <4>5. Cardinality(before(t)) = Cardinality(before(u)) + 1
        BY <4>3, <4>4, FS_AddElement
      <4>6. trans[u].index + 1 = trans[t].index
        BY <1>2, <4>2, <4>5
      <4>7. trans[t].given \/ trans[t].from = trans[u].to
        BY <1>0, <1>3, <2>3, <4>2, <4>6 DEF Exact
      <4> QED
        BY <3>1, <3>3, <4>7
    <3> QED
      BY <3>2, <3>3
  <2> QED
    BY <2>1, <2>2, <2>3
<1> QED
  BY <1>2, <1>5, <1>6, <1>7 DEF ids, line

LEMMA TimelineSuffices == SessionInv => TimelineHolds
<1> SUFFICES ASSUME SessionInv PROVE TimelineHolds
  OBVIOUS
<1> USE DEF SessionInv
<1>1. ASSUME NEW key \in {asms[a].key : a \in DOMAIN asms}
      PROVE  LET rows == {a \in DOMAIN asms : asms[a].key = key} IN
             {a \in rows : asms[a].status = "active"} = {LastOf(rows)}
  <2> DEFINE rows == {a \in DOMAIN asms : asms[a].key = key}
  <2>1. Len(asms) \in Nat /\ rows \subseteq 1..Len(asms) /\ rows # {}
    BY <1>1 DEF Tables
  <2>2. LastOf(rows) \in rows /\ \A b \in rows : b <= LastOf(rows)
    <3> HIDE DEF rows
    <3> QED
      BY <2>1, GreatestOf
  <2>3. \A a \in rows : asms[a].status = "active" <=> \A b \in rows : b <= a
    BY DEF Newest
  <2>4. \A a \in rows : (\A b \in rows : b <= a) <=> a = LastOf(rows)
    <3> HIDE DEF rows
    <3>1. rows \subseteq Nat
      BY <2>1
    <3> QED
      BY <2>2, <3>1, LastOfIs
  <2> HIDE DEF rows
  <2>5. {a \in rows : asms[a].status = "active"} = {LastOf(rows)}
    BY <2>2, <2>3, <2>4
  <2> QED
    BY <2>5 DEF rows
<1> QED
  BY <1>1, TimelineIs DEF TimelineHolds

(* Every transition of a policy is answered for, so that only a death lets a *)
(* policy that was used look stale.                                          *)
LEMMA DecisionsSuffice == SessionInv => DecisionsAreExplained
<1> SUFFICES ASSUME SessionInv PROVE DecisionsAreExplained
  OBVIOUS
<1> USE DEF SessionInv
<1>0. /\ \A d \in DOMAIN decisions : decisions[d] \in Decision
      /\ \A t \in DOMAIN trans : trans[t] \in TransitionRows /\ t \in Nat \ {0}
      /\ \A a \in DOMAIN asms : a # None
  BY DEF Tables, None
<1>1. ASSUME NEW d \in DOMAIN decisions
      PROVE  LET row == decisions[d] IN
             /\ ReplayDecision(d) = EvaluateTrigger(row.snapshot, row.event)
             /\ row.fired => row.snapshot.status = "active"
             /\ row.fired <=> row.assembly # None
             /\ row.transition # None => /\ trans[row.transition].to = row.assembly
                                         /\ trans[row.transition].policy = row.policy
  <2> DEFINE row == decisions[d]
  <2>1. row.snapshot \in PolicyRow /\ row.event \in Events
    BY <1>0 DEF Decision
  <2>2. Outcome(row.fired, row.artifacts) = EvaluateTrigger(row.snapshot, row.event)
    BY DEF Decided
  <2>3. row.fired = EvaluateTrigger(row.snapshot, row.event).fired
    BY <2>2 DEF Outcome
  <2>4. row.fired => row.snapshot.status = "active"
    BY <2>1, <2>3, OutcomeOf
  <2>5. ReplayDecision(d) = Outcome(row.fired, row.artifacts)
    BY DEF ReplayDecision
  <2> QED
    BY <2>2, <2>4, <2>5 DEF Decided
<1>2. ASSUME NEW t \in DOMAIN trans, trans[t].policy # None
      PROVE  /\ Cardinality(DecisionsOf(t)) + Cardinality(CallsOf(t))
                  + Cardinality(orphans \cap {t}) = 1
             /\ trans[t].policy \in DetectStalePolicies => t \in orphans \/ CallsOf(t) # {}
  <2>0. /\ Cardinality({}) = 0 /\ \A x : Cardinality({x}) = 1
        /\ t \in orphans => orphans \cap {t} = {t}
        /\ t \notin orphans => orphans \cap {t} = {}
    BY FS_EmptySet, FS_Singleton
  <2>1. Answered(t)
    BY <1>2 DEF Accounted
  <2>2. CASE (\E d \in DOMAIN decisions : DecisionsOf(t) = {d}) /\ CallsOf(t) = {}
             /\ t \notin orphans
    <3>1. PICK d \in DOMAIN decisions : DecisionsOf(t) = {d}
      BY <2>2
    <3>2. decisions[d].transition = t
      BY <3>1 DEF DecisionsOf
    <3>3. t # None /\ trans[t].to \in DOMAIN asms
      BY <1>0 DEF Linked, None
    <3>4. decisions[d].fired /\ decisions[d].policy = trans[t].policy
      BY <1>0, <3>2, <3>3 DEF Decided
    <3>5. trans[t].policy \notin DetectStalePolicies
      BY <3>4 DEF DetectStalePolicies
    <3> QED
      BY <2>0, <2>2, <3>1, <3>5
  <2>3. CASE DecisionsOf(t) = {} /\ (\E c \in Callers : CallsOf(t) = {c}) /\ t \notin orphans
    BY <2>0, <2>3
  <2>4. CASE DecisionsOf(t) = {} /\ CallsOf(t) = {} /\ t \in orphans
    <3>1. orphans \cap {t} = {t}
      BY <2>0, <2>4
    <3>2. Cardinality(orphans \cap {t}) = 1
      BY <2>0, <3>1
    <3>3. 0 + 0 + 1 = 1
      OBVIOUS
    <3> QED
      BY <2>0, <2>4, <3>2, <3>3
  <2> QED
    BY <2>1, <2>2, <2>3, <2>4 DEF Answered
<1>3. \A t \in DOMAIN trans : trans[t].policy \in DetectStalePolicies => trans[t].policy # None
  BY DEF DetectStalePolicies, Tables, None
<1>4. DetectFiredWithoutAssembly = {}
  BY DEF DetectFiredWithoutAssembly, Decided
<1>5. BrokenLineage.decision = {} /\ BrokenLineage.to = {} /\ BrokenLineage.session = {}
  BY DEF BrokenLineage, Decided, Linked, Gapless
<1>6. \A t \in BrokenLineage.from : trans[t].given
  BY DEF BrokenLineage, Linked
<1>7. \A t \in {t \in DOMAIN trans : trans[t].policy # None} :
        Cardinality({d \in DOMAIN decisions : decisions[d].transition = t})
          + Cardinality({c \in Callers : call[c].at = "decide" /\ call[c].transition = t})
          + Cardinality(orphans \cap {t}) = 1
  BY <1>2 DEF DecisionsOf, CallsOf
<1>8. \A t \in DOMAIN trans : trans[t].policy \in DetectStalePolicies =>
        t \in orphans \/ \E c \in Callers : call[c].at = "decide" /\ call[c].transition = t
  BY <1>2, <1>3 DEF CallsOf
<1> QED
  BY <1>1, <1>4, <1>5, <1>6, <1>7, <1>8 DEF DecisionsAreExplained

-----------------------------------------------------------------------------
LEMMA SessionInitHolds == CallersInit /\ SessionInit => SessionInv
<1> SUFFICES ASSUME CallersInit, SessionInit PROVE SessionInv
  OBVIOUS
<1>1. /\ asms = <<>> /\ sessions = <<>> /\ trans = <<>> /\ policies = <<>>
      /\ decisions = <<>> /\ orphans = {} /\ writers \subseteq Callers
      /\ call = [c \in Callers |-> Idle]
  BY DEF CallersInit, SessionInit
<1>2. Tables
  BY <1>1 DEF Tables, SessionCall
<1>3. Newest /\ Gapless /\ Pointed /\ Linked /\ Decided /\ Accounted
  BY <1>1 DEF Newest, Gapless, Pointed, Linked, Decided, Accounted
<1>4. \A c \in Callers : Holding(call[c])
  BY <1>1 DEF Holding, Idle
<1>5. Exact
  BY <1>1 DEF Exact, Idle
<1> QED
  BY <1>2, <1>3, <1>4, <1>5 DEF SessionInv

(* What a call holds, by where it is. *)
LEMMA CallKinds ==
    ASSUME NEW k \in SessionCall
    PROVE  /\ k.at \in {"find", "log"} => k \in LogCall
           /\ k.at = "session" => k \in MoveCall
           /\ k.at = "sequence" => k \in IndexCall
           /\ k.at = "append" => k \in AppendCall
           /\ k.at = "decide" => k \in DecideCall
           /\ k.at = "idle" => k = Idle
           /\ k.at \in {"idle", "find", "log", "session", "sequence", "append", "decide"}
BY DEF SessionCall, LogCall, MoveCall, IndexCall, AppendCall, DecideCall, Idle

(* Tables are only added to. *)
SessionGrows ==
    /\ DOMAIN asms \subseteq DOMAIN asms' /\ DOMAIN sessions \subseteq DOMAIN sessions'
    /\ DOMAIN policies \subseteq DOMAIN policies'
    /\ DOMAIN trans \subseteq DOMAIN trans' /\ \A t \in DOMAIN trans : trans'[t] = trans[t]
    /\ \A s \in DOMAIN sessions : IsFiniteSet(Rows(trans', s))

LEMMA SizesGrow ==
    ASSUME Gapless, SessionGrows, NEW s \in DOMAIN sessions
    PROVE  /\ Rows(trans, s) \subseteq Rows(trans', s)
           /\ Size(trans, s) \in Nat /\ Size(trans', s) \in Nat
           /\ Size(trans, s) <= Size(trans', s)
<1>1. Rows(trans, s) \subseteq Rows(trans', s)
  BY DEF SessionGrows, Rows
<1>2. IsFiniteSet(Rows(trans, s)) /\ IsFiniteSet(Rows(trans', s))
  BY DEF Gapless, SessionGrows
<1> QED
  BY <1>1, <1>2, FS_CardinalityType, FS_Subset DEF Size

LEMMA HoldingKept ==
    ASSUME SessionInv, SessionGrows, NEW b \in Callers, call'[b] = call[b]
    PROVE  Holding(call[b])'
<1> DEFINE k == call[b]
<1>1. Holding(k) /\ k \in SessionCall /\ Gapless
  BY DEF SessionInv, Tables
<1>2. Fired(k.exec) => Fired(k.exec)'
  BY DEF Fired, SessionGrows
<1>3. CASE k.at = "idle"
  BY <1>3 DEF Holding
<1>4. CASE k.at \in {"find", "log", "session", "decide"}
  BY <1>1, <1>4 DEF Holding, SessionGrows, Fired
<1>5. CASE k.at \in {"sequence", "append"}
  <2> DEFINE s == k.session
  <2>1. s \in DOMAIN sessions
    BY <1>1, <1>5 DEF Holding
  <2>2. k.row.count \in Nat /\ (k.at = "append" => k.index \in Nat)
    BY <1>1, <1>5, CallKinds DEF IndexCall, AppendCall, SessionRow
  <2>3. /\ Rows(trans, s) \subseteq Rows(trans', s)
        /\ Size(trans, s) \in Nat /\ Size(trans', s) \in Nat
        /\ Size(trans, s) <= Size(trans', s)
    BY <1>1, <2>1, SizesGrow
  <2>4. /\ k.row.count <= Size(trans', s)
        /\ k.row.initial # None => Rows(trans', s) # {}
        /\ k.at = "append" => k.index <= Size(trans', s)
    <3>1. k.row.count <= Size(trans, s) /\ (k.row.initial # None => Rows(trans, s) # {})
          /\ (k.at = "append" => k.index <= Size(trans, s))
      BY <1>1, <1>5 DEF Holding
    <3> QED
      BY <2>2, <2>3, <3>1
  <2> QED
    BY <1>1, <1>5, <2>1, <2>4 DEF Holding, SessionGrows, Fired
<1> QED
  BY <1>1, <1>3, <1>4, <1>5, CallKinds

(* The callers table when one call goes on to k. *)
LEMMA CallerMoves ==
    ASSUME Tables, NEW c \in writers, writers' = writers, NEW k \in SessionCall,
           call' = [call EXCEPT ![c] = k]
    PROVE  /\ c \in Callers /\ writers' \subseteq Callers /\ call' \in [Callers -> SessionCall]
           /\ \A b \in Callers : b \in writers' \/ call'[b] = Idle
           /\ call'[c] = k /\ \A b \in Callers : b # c => call'[b] = call[b]
           /\ SingleWriter => \A b \in Callers : b # c => call'[b] = Idle
<1>1. c \in Callers /\ call \in [Callers -> SessionCall] /\ writers \subseteq Callers
      /\ \A b \in Callers : b \in writers \/ call[b] = Idle
  BY DEF Tables
<1>2. call'[c] = k /\ \A b \in Callers : b # c => call'[b] = call[b]
  BY <1>1
<1>3. SingleWriter => \A b \in Callers : b # c => call[b] = Idle
  BY <1>1 DEF SingleWriter
<1>4. call' \in [Callers -> SessionCall]
  BY <1>1
<1> QED
  BY <1>1, <1>2, <1>3, <1>4

(* What is said of sessions and their log alone. *)
LEMMA LogKept ==
    ASSUME Gapless, Pointed, UNCHANGED <<sessions, trans>>
    PROVE  Gapless' /\ Pointed'
<1>1. sessions' = sessions /\ trans' = trans
  OBVIOUS
<1>2. Gapless'
  BY <1>1 DEF Gapless
<1>3. Pointed'
  BY <1>1 DEF Pointed
<1> QED
  BY <1>2, <1>3

(* A step that adds to no table, or an assembly: the new locals decide.  They *)
(* neither take up a transition to answer for nor drop one.                   *)
LEMMA MovesOn ==
    ASSUME SessionInv, NEW c \in writers, NEW k \in SessionCall,
           call' = [call EXCEPT ![c] = k],
           UNCHANGED <<sessions, trans, policies, decisions, orphans, writers>>,
           asms' \in Seq(AssemblyRow), DOMAIN asms \subseteq DOMAIN asms', Newest',
           Holding(call[c])',
           call[c].at = "decide" => call[c].transition = None,
           k.at = "decide" => k.transition = None,
           SingleWriter => /\ k.at \in {"sequence", "append"} => /\ k.row = sessions[k.session]
                                                                 /\ k.row.status = "active"
                           /\ k.at = "append" => k.index = Size(trans, k.session)
    PROVE  SessionInv'
<1> USE DEF SessionInv
<1>0. /\ c \in Callers /\ writers' \subseteq Callers /\ call' \in [Callers -> SessionCall]
      /\ \A b \in Callers : b \in writers' \/ call'[b] = Idle
      /\ call'[c] = k /\ \A b \in Callers : b # c => call'[b] = call[b]
      /\ SingleWriter => \A b \in Callers : b # c => call'[b] = Idle
  BY CallerMoves
<1>1. Tables'
  BY <1>0 DEF Tables
<1>2. Gapless' /\ Pointed'
  BY LogKept
<1>3. Linked' /\ Decided'
  BY DEF Linked, Decided
<1>4. ASSUME NEW b \in Callers PROVE Holding(call[b])'
  <2>1. SessionGrows
    BY DEF SessionGrows, Gapless
  <2> QED
    BY <1>0, <2>1, HoldingKept
<1>5. Accounted'
  <2>1. ASSUME NEW t \in DOMAIN trans PROVE Answered(t) => Answered(t)'
    <3>1. t # None
      BY <2>1 DEF Tables, None
    <3>2. CallsOf(t)' = CallsOf(t)
      BY <1>0, <3>1 DEF CallsOf
    <3>3. DecisionsOf(t)' = DecisionsOf(t)
      BY DEF DecisionsOf
    <3> QED
      BY <3>2, <3>3 DEF Answered
  <2> QED
    BY <2>1 DEF Accounted
<1>6. SingleWriter' => Exact'
  <2> SUFFICES ASSUME SingleWriter PROVE Exact'
    BY DEF SingleWriter
  <2>1. Exact
    OBVIOUS
  <2> QED
    BY <1>0, <2>1 DEF Exact, Idle
<1> QED
  BY <1>1, <1>2, <1>3, <1>4, <1>5, <1>6

(* A call that ends where it is. *)
LEMMA EndsCall ==
    ASSUME SessionInv, NEW c \in writers, Return(c), UNCHANGED <<sessionVars, writers>>,
           call[c].at = "decide" => call[c].transition = None
    PROVE  SessionInv'
<1>1. Idle \in SessionCall /\ call' = [call EXCEPT ![c] = Idle] /\ c \in Callers
  BY DEF SessionCall, Return, SessionInv, Tables
<1>2. call'[c] = Idle
  BY <1>1 DEF SessionInv, Tables
<1>3. Holding(call[c])'
  BY <1>2 DEF Holding, Idle
<1>4. Idle.at = "idle"
  BY DEF Idle
<1>5. asms' \in Seq(AssemblyRow) /\ DOMAIN asms \subseteq DOMAIN asms' /\ Newest'
  BY DEF SessionInv, Tables, sessionVars, Newest
<1> QED
  BY <1>1, <1>3, <1>4, <1>5, MovesOn DEF sessionVars

(* A call that goes on and changes no table. *)
LEMMA GoesOn ==
    ASSUME SessionInv, NEW c \in writers, UNCHANGED <<sessionVars, writers>>,
           NEW k \in SessionCall, call' = [call EXCEPT ![c] = k],
           Holding(call[c])',
           call[c].at # "decide", k.at = "decide" => k.transition = None,
           SingleWriter => /\ k.at \in {"sequence", "append"} => /\ k.row = sessions[k.session]
                                                                 /\ k.row.status = "active"
                           /\ k.at = "append" => k.index = Size(trans, k.session)
    PROVE  SessionInv'
<1>1. asms' \in Seq(AssemblyRow) /\ DOMAIN asms \subseteq DOMAIN asms' /\ Newest'
  BY DEF SessionInv, Tables, sessionVars, Newest
<1> QED
  BY <1>1, MovesOn DEF sessionVars

(* A call that has a new assembly or an old one: what it does next. *)
LEMMA LoggedCall ==
    ASSUME SessionInv, NEW c \in writers, call[c].at \in {"find", "log"},
           NEW a \in DOMAIN asms', a \in Nat \ {0}, Logged(c, a),
           UNCHANGED <<sessions, policies>>
    PROVE  \E l \in SessionCall :
             /\ call' = [call EXCEPT ![c] = l] /\ l.at \in {"idle", "session", "decide"}
             /\ l.at = "decide" => l.transition = None
             /\ Holding(call[c])'
<1> DEFINE k == call[c]
<1>0. c \in Callers /\ call \in [Callers -> SessionCall]
  BY DEF SessionInv, Tables
<1>1. k \in LogCall /\ Holding(k)
  BY <1>0, CallKinds DEF SessionInv
<1>2. k.exec \in Exec /\ k.session \in Nat
  BY <1>1 DEF LogCall
<1>3. CASE k.exec = NoExecution
  <2>1. call' = [call EXCEPT ![c] = Idle] /\ Idle \in SessionCall
    BY <1>3 DEF Logged, Return, SessionCall
  <2>2. call'[c] = Idle
    BY <1>0, <2>1
  <2>3. Holding(call[c])'
    BY <2>2 DEF Holding, Idle
  <2> QED
    BY <2>1, <2>3 DEF Idle
<1>4. CASE k.exec # NoExecution
  <2>0. k.exec \in Executions /\ Fired(k.exec) /\ k.exec.outcome.fired
    BY <1>1, <1>2, <1>4 DEF Exec, Holding, LogCall
  <2>1. CASE k.session = None
    <3> DEFINE l == Deciding(k.exec, a, None)
    <3>1. call' = [call EXCEPT ![c] = l]
      BY <1>4, <2>1 DEF Logged, Continue
    <3>2. l \in DecideCall
      BY <2>0 DEF Deciding, DecideCall, None
    <3>3. call'[c] = [at |-> "decide", exec |-> k.exec, to |-> a, transition |-> None]
      BY <1>0, <3>1 DEF Deciding
    <3>4. Holding(call[c])'
      BY <2>0, <3>3 DEF Holding, Fired, None
    <3>5. l.at = "decide" /\ l.transition = None
      BY DEF Deciding
    <3> QED
      BY <3>1, <3>2, <3>4, <3>5 DEF SessionCall
  <2>2. CASE k.session # None
    <3> DEFINE l == [at |-> "session", session |-> k.session, to |-> a,
                     from |-> None, exec |-> k.exec]
    <3>1. call' = [call EXCEPT ![c] = l]
      BY <1>4, <2>2 DEF Logged, Continue
    <3>2. l \in MoveCall
      BY <1>2 DEF MoveCall, None
    <3>3. call'[c] = l
      BY <1>0, <3>1
    <3>4. k.session \in DOMAIN sessions
      BY <1>1, <2>2 DEF Holding, LogCall
    <3>5. Holding(call[c])'
      BY <2>0, <3>3, <3>4 DEF Holding, Fired
    <3> QED
      BY <3>1, <3>2, <3>5 DEF SessionCall
  <2> QED
    BY <2>1, <2>2
<1> QED
  BY <1>3, <1>4

LEMMA StartLogHolds ==
    ASSUME SessionInv, NEW c \in writers, writers' = writers, NEW key \in Keys,
           NEW content \in Contents, StartLog(c, key, content)
    PROVE  SessionInv'
<1> DEFINE l == [at |-> "find", key |-> key, content |-> content, session |-> None,
                 exec |-> NoExecution]
<1>1. l \in SessionCall
  BY DEF SessionCall, LogCall, Exec, None
<1>2. call' = [call EXCEPT ![c] = l] /\ call[c] = Idle /\ UNCHANGED sessionVars
  BY DEF StartLog, Begin
<1>3. call'[c] = l
  BY <1>2 DEF SessionInv, Tables
<1>4. Holding(call[c])'
  BY <1>3 DEF Holding, Fired
<1>5. l.at = "find" /\ call[c].at = "idle"
  BY <1>2 DEF Idle
<1> HIDE DEF l
<1> QED
  BY <1>1, <1>2, <1>4, <1>5, GoesOn

LEMMA StartExecuteHolds ==
    ASSUME SessionInv, NEW c \in writers, writers' = writers, NEW p \in DOMAIN policies,
           NEW event \in Events, NEW key \in Keys, NEW content \in Contents,
           NEW session \in DOMAIN sessions \cup {None},
           StartExecute(c, p, event, key, content, session)
    PROVE  SessionInv'
<1> DEFINE exec == Execution(p, event)
           l == [at |-> "find", key |-> key, content |-> content, session |-> session,
                 exec |-> exec]
<1>1. policies[p] \in PolicyRow /\ p \in Nat /\ session \in Nat
  BY DEF SessionInv, Tables, None
<1>2. exec \in Executions
  BY <1>1 DEF Execution, Executions, Outcomes
<1>3. l \in SessionCall
  BY <1>1, <1>2 DEF SessionCall, LogCall, Exec
<1>4. /\ call' = [call EXCEPT ![c] = l] /\ call[c] = Idle /\ UNCHANGED sessionVars
      /\ exec.outcome.fired
  BY DEF StartExecute, Begin
<1>5. call'[c] = l
  BY <1>4 DEF SessionInv, Tables
<1>6. /\ exec.policy \in DOMAIN policies'
      /\ exec.outcome = EvaluateTrigger(exec.snapshot, exec.event)
  BY <1>4 DEF Execution, sessionVars
<1> HIDE DEF exec
<1>7. Holding(call[c])'
  BY <1>4, <1>5, <1>6 DEF Holding, Fired, sessionVars
<1>8. l.at = "find" /\ call[c].at = "idle"
  BY <1>4 DEF Idle
<1> HIDE DEF l
<1> QED
  BY <1>3, <1>4, <1>7, <1>8, GoesOn

LEMMA StartDeclineHolds ==
    ASSUME SessionInv, NEW c \in writers, writers' = writers, NEW p \in DOMAIN policies,
           NEW event \in Events, StartDecline(c, p, event)
    PROVE  SessionInv'
<1> DEFINE exec == Execution(p, event)
           l == Deciding(exec, None, None)
<1>1. policies[p] \in PolicyRow /\ p \in Nat
  BY DEF SessionInv, Tables, None
<1>2. exec \in Executions
  BY <1>1 DEF Execution, Executions, Outcomes
<1>3. l \in DecideCall
  BY <1>2 DEF Deciding, DecideCall, None
<1>4. /\ call' = [call EXCEPT ![c] = l] /\ call[c] = Idle /\ UNCHANGED sessionVars
      /\ ~exec.outcome.fired
  BY DEF StartDecline, Begin
<1>5. call'[c] = l
  BY <1>4 DEF SessionInv, Tables
<1>6. /\ exec.policy \in DOMAIN policies'
      /\ exec.outcome = EvaluateTrigger(exec.snapshot, exec.event)
  BY <1>4 DEF Execution, sessionVars
<1> HIDE DEF exec
<1>7. Holding(call[c])'
  BY <1>4, <1>5, <1>6 DEF Holding, Fired, sessionVars, Deciding
<1>8. l \in SessionCall /\ l.at = "decide" /\ l.transition = None
  BY <1>3 DEF SessionCall, Deciding
<1>9. call[c].at = "idle"
  BY <1>4 DEF Idle
<1> HIDE DEF l
<1> QED
  BY <1>4, <1>7, <1>8, <1>9, GoesOn

LEMMA FindAssemblyHolds ==
    ASSUME SessionInv, NEW c \in writers, writers' = writers, FindAssembly(c)
    PROVE  SessionInv'
<1> DEFINE k == call[c]
           found == AssemblyOf(k.key, k.content)
<1>0. k.at = "find" /\ UNCHANGED sessionVars /\ c \in Callers
      /\ call \in [Callers -> SessionCall]
  BY DEF FindAssembly, Resume, SessionInv, Tables
<1>1. CASE found # {}
  <2>1. found \subseteq DOMAIN asms /\ found \subseteq 1..Len(asms) /\ Len(asms) \in Nat
    BY DEF AssemblyOf, SessionInv, Tables
  <2>2. LastOf(found) \in found
    <3> HIDE DEF found
    <3> QED
      BY <1>1, <2>1, GreatestOf
  <2>3. LastOf(found) \in DOMAIN asms' /\ LastOf(found) \in Nat \ {0}
    BY <1>0, <2>1, <2>2 DEF sessionVars
  <2>4. Logged(c, LastOf(found))
    BY <1>1 DEF FindAssembly
  <2>5. UNCHANGED <<sessions, policies>> /\ k.at \in {"find", "log"}
    BY <1>0 DEF sessionVars
  <2> HIDE DEF found
  <2>6. PICK l \in SessionCall :
             /\ call' = [call EXCEPT ![c] = l] /\ l.at \in {"idle", "session", "decide"}
             /\ l.at = "decide" => l.transition = None
             /\ Holding(call[c])'
    BY <2>3, <2>4, <2>5, LoggedCall
  <2> QED
    BY <1>0, <2>6, GoesOn
<1>2. CASE found = {}
  <2> DEFINE l == [k EXCEPT !.at = "log"]
  <2>1. call' = [call EXCEPT ![c] = l]
    BY <1>2 DEF FindAssembly, Continue
  <2>2. k \in LogCall /\ Holding(k)
    BY <1>0, CallKinds DEF SessionInv
  <2>3. /\ l = [at |-> "log", key |-> k.key, content |-> k.content, session |-> k.session,
                exec |-> k.exec]
        /\ l \in LogCall
    BY <2>2 DEF LogCall
  <2>4. call'[c] = l
    BY <1>0, <2>1
  <2> HIDE DEF l
  <2>5. Holding(call[c])'
    BY <1>0, <2>2, <2>3, <2>4 DEF Holding, Fired, sessionVars
  <2>6. l \in SessionCall /\ l.at = "log"
    BY <2>3 DEF SessionCall
  <2> QED
    BY <1>0, <2>1, <2>5, <2>6, GoesOn
<1> QED
  BY <1>1, <1>2

(* The new assembly supersedes the active one of its key. *)
LEMMA WriteAssemblyHolds ==
    ASSUME SessionInv, NEW c \in writers, writers' = writers, WriteAssembly(c)
    PROVE  SessionInv'
<1> DEFINE k == call[c]
           n == Len(asms) + 1
           new == [key |-> k.key, content |-> k.content, status |-> "active"]
<1>0. k.at = "log" /\ UNCHANGED <<sessions, trans, policies, decisions, orphans>>
      /\ c \in Callers /\ call \in [Callers -> SessionCall] /\ asms \in Seq(AssemblyRow)
  BY DEF WriteAssembly, Resume, SessionInv, Tables
<1>1. CASE AssemblyOf(k.key, k.content) # {}
  <2>1. Return(c) /\ asms' = asms
    BY <1>1 DEF WriteAssembly
  <2>2. UNCHANGED <<sessionVars, writers>>
    BY <1>0, <2>1 DEF sessionVars
  <2> QED
    BY <1>0, <2>1, <2>2, EndsCall
<1>2. CASE AssemblyOf(k.key, k.content) = {}
  <2>1. asms' = Append(SupersedeAssemblies(k.key), new) /\ Logged(c, n)
    BY <1>2 DEF WriteAssembly
  <2>2. k.key \in Keys /\ k.content \in Contents
    BY <1>0, CallKinds DEF LogCall
  <2>3. new \in AssemblyRow
    BY <2>2 DEF AssemblyRow
  <2>4. /\ SupersedeAssemblies(k.key) \in Seq(AssemblyRow)
        /\ Len(SupersedeAssemblies(k.key)) = Len(asms)
        /\ \A a \in DOMAIN asms :
             /\ SupersedeAssemblies(k.key)[a].key = asms[a].key
             /\ IF asms[a].key = k.key
                THEN SupersedeAssemblies(k.key)[a].status # "active"
                ELSE SupersedeAssemblies(k.key)[a] = asms[a]
    <3> DEFINE S == SupersedeAssemblies(k.key)
    <3>1. DOMAIN S = 1..Len(asms) /\ Len(asms) \in Nat
      BY <1>0 DEF SupersedeAssemblies
    <3>2. ASSUME NEW a \in DOMAIN asms
          PROVE  /\ S[a] \in AssemblyRow /\ S[a].key = asms[a].key
                 /\ IF asms[a].key = k.key THEN S[a].status # "active" ELSE S[a] = asms[a]
      <4>1. asms[a] \in AssemblyRow
        BY <1>0
      <4> QED
        BY <4>1 DEF SupersedeAssemblies, AssemblyRow
    <3> HIDE DEF S
    <3>3. S \in [1..Len(asms) -> AssemblyRow]
      <4>1. S = [a \in DOMAIN S |-> S[a]]
        BY DEF S, SupersedeAssemblies
      <4> QED
        BY <1>0, <3>1, <3>2, <4>1
    <3>4. S \in Seq(AssemblyRow) /\ Len(S) = Len(asms)
      BY <3>1, <3>3
    <3> QED
      BY <3>2, <3>4 DEF S
  <2> HIDE DEF new
  <2>5. /\ asms' \in Seq(AssemblyRow) /\ DOMAIN asms' = 1..n /\ DOMAIN asms = 1..n - 1
        /\ n \in Nat \ {0} /\ asms'[n] = new
        /\ \A a \in 1..n - 1 : asms'[a] = SupersedeAssemblies(k.key)[a]
    BY <1>0, <2>1, <2>3, <2>4
  <2>6. Newest'
    <3> HIDE DEF n
    <3>1. new.key = k.key /\ new.status = "active"
      BY DEF new
    <3>2. \A a \in 1..n : asms'[a].key = IF a = n THEN k.key ELSE asms[a].key
      BY <2>4, <2>5, <3>1
    <3>3. ASSUME NEW a \in 1..n
          PROVE  asms'[a].status = "active" <=>
                   \A b \in 1..n : asms'[b].key = asms'[a].key => b <= a
      <4>1. CASE a = n
        BY <2>5, <3>1, <4>1
      <4>2. CASE a # n /\ asms[a].key = k.key
        <5>1. a \in DOMAIN asms /\ ~(n <= a)
          BY <2>5, <3>3, <4>2
        <5> QED
          BY <2>4, <2>5, <3>2, <4>2, <5>1
      <4>3. CASE a # n /\ asms[a].key # k.key
        <5>1. a \in DOMAIN asms /\ asms'[a] = asms[a]
          BY <2>4, <2>5, <3>3, <4>3
        <5>2. asms[a].status = "active" <=>
                \A b \in DOMAIN asms : asms[b].key = asms[a].key => b <= a
          BY <5>1 DEF SessionInv, Newest
        <5>3. \A b \in 1..n : asms'[b].key = asms[a].key
                                <=> b \in DOMAIN asms /\ asms[b].key = asms[a].key
          BY <2>5, <3>2, <4>3
        <5>4. DOMAIN asms \subseteq 1..n
          BY <2>5
        <5> QED
          BY <5>1, <5>2, <5>3, <5>4
      <4> QED
        BY <4>1, <4>2, <4>3
    <3> QED
      BY <2>5, <3>3 DEF Newest
  <2>7. n \in DOMAIN asms' /\ DOMAIN asms \subseteq DOMAIN asms'
    BY <2>5
  <2> HIDE DEF n
  <2>8. PICK l \in SessionCall :
             /\ call' = [call EXCEPT ![c] = l] /\ l.at \in {"idle", "session", "decide"}
             /\ l.at = "decide" => l.transition = None
             /\ Holding(call[c])'
    BY <1>0, <2>1, <2>5, <2>7, LoggedCall
  <2> QED
    BY <1>0, <2>5, <2>6, <2>7, <2>8, MovesOn
<1> QED
  BY <1>1, <1>2

-----------------------------------------------------------------------------
(* A step outside every call: only sessions or policies change. *)
LEMMA TablesMove ==
    ASSUME SessionInv, UNCHANGED <<asms, trans, decisions, orphans, call, writers>>,
           sessions' \in Seq(SessionRow), DOMAIN sessions \subseteq DOMAIN sessions',
           policies' \in Seq(PolicyRow), DOMAIN policies \subseteq DOMAIN policies',
           Gapless', Pointed', SingleWriter => Exact'
    PROVE  SessionInv'
<1> USE DEF SessionInv
<1>1. Tables'
  BY DEF Tables
<1>2. Newest' /\ Decided'
  BY DEF Newest, Decided
<1>3. Linked'
  BY DEF Linked
<1>4. ASSUME NEW b \in Callers PROVE Holding(call[b])'
  <2>1. SessionGrows
    BY DEF SessionGrows, Gapless
  <2>2. call'[b] = call[b]
    OBVIOUS
  <2> QED
    BY <2>1, <2>2, HoldingKept
<1>5. Accounted'
  BY DEF Accounted, Answered, DecisionsOf, CallsOf
<1>6. SingleWriter' => Exact'
  BY DEF SingleWriter
<1> QED
  BY <1>1, <1>2, <1>3, <1>4, <1>5, <1>6

(* A log that stays is gapless whatever becomes of the session rows. *)
LEMMA GaplessKept ==
    ASSUME Gapless, trans' = trans, DOMAIN sessions \subseteq DOMAIN sessions',
           \A s \in DOMAIN sessions' :
             /\ IsFiniteSet(Rows(trans, s))
             /\ \A m \in 0..Size(trans, s) - 1 : \E t \in Rows(trans, s) : trans[t].index = m
    PROVE  Gapless'
<1>1. \A t \in DOMAIN trans :
        LET s == trans[t].session IN
        /\ s \in DOMAIN sessions'
        /\ trans[t].index < Size(trans, s)
        /\ trans[t].index = Cardinality({u \in Rows(trans, s) : u < t})
        /\ \A u \in Rows(trans, s) : u < t => trans[u].index < trans[t].index
  BY DEF Gapless
<1>2. \A T, r : (T = trans) => (Size(T, r) = Size(trans, r) /\ Rows(T, r) = Rows(trans, r))
  OBVIOUS
<1>3. \A s \in DOMAIN sessions' : /\ IsFiniteSet(Rows(trans', s))
                                  /\ \A n \in 0..Size(trans', s) - 1 :
                                        \E t \in Rows(trans', s) : trans'[t].index = n
  BY <1>2
<1> QED
  BY <1>1, <1>2, <1>3 DEF Gapless

LEMMA OpenSessionHolds ==
    ASSUME SessionInv, NEW c \in writers, writers' = writers, NEW key \in Keys,
           OpenSession(c, key)
    PROVE  SessionInv'
<1> DEFINE row == [key |-> key, status |-> "active", count |-> 0,
                   initial |-> None, latest |-> None]
           n == Len(sessions) + 1
<1>0. /\ sessions' = Append(sessions, row) /\ sessions \in Seq(SessionRow)
      /\ UNCHANGED <<asms, trans, policies, decisions, orphans, call>>
  BY DEF OpenSession, SessionInv, Tables
<1>1. row \in SessionRow /\ row.count = 0 /\ row.initial = None /\ row.latest = None
  BY DEF SessionRow, None
<1> HIDE DEF row
<1>2. /\ sessions' \in Seq(SessionRow) /\ n \notin DOMAIN sessions
      /\ DOMAIN sessions' = DOMAIN sessions \cup {n} /\ sessions'[n] = row
      /\ \A s \in DOMAIN sessions : sessions'[s] = sessions[s]
  BY <1>0, <1>1
<1> HIDE DEF n
<1>3. Rows(trans, n) = {} /\ Size(trans, n) = 0
  <2>1. \A t \in DOMAIN trans : trans[t].session \in DOMAIN sessions
    BY DEF SessionInv, Gapless
  <2>2. Rows(trans, n) = {}
    BY <1>2, <2>1 DEF Rows
  <2> QED
    BY <2>2, FS_EmptySet DEF Size
<1>4. Gapless'
  <2>1. IsFiniteSet(Rows(trans, n)) /\ 0..Size(trans, n) - 1 = {}
    BY <1>3, FS_EmptySet
  <2>2. Gapless
    BY DEF SessionInv
  <2>3. ASSUME NEW s \in DOMAIN sessions'
        PROVE  /\ IsFiniteSet(Rows(trans, s))
               /\ \A m \in 0..Size(trans, s) - 1 : \E t \in Rows(trans, s) : trans[t].index = m
    BY <1>2, <2>1, <2>2 DEF Gapless
  <2> QED
    BY <1>0, <1>2, <2>2, <2>3, GaplessKept
<1>5. Pointed'
  <2>1. ASSUME NEW s \in DOMAIN sessions'
        PROVE  /\ sessions'[s].count <= Size(trans, s)
               /\ IF Rows(trans, s) = {}
                  THEN sessions'[s].initial = None /\ sessions'[s].latest = None
                  ELSE {sessions'[s].initial, sessions'[s].latest}
                           \subseteq {trans[t].to : t \in Rows(trans, s)}
    <3>1. CASE s = n
      BY <1>1, <1>2, <1>3, <3>1
    <3>2. CASE s \in DOMAIN sessions
      BY <1>2, <3>2 DEF SessionInv, Pointed
    <3> QED
      BY <1>2, <3>1, <3>2
  <2> QED
    BY <1>0, <2>1 DEF Pointed
<1>6. ASSUME SingleWriter PROVE Exact'
  <2>0. Exact
    BY <1>6 DEF SessionInv
  <2>1. \A s \in DOMAIN sessions' : sessions'[s].count = Size(trans, s)
    BY <1>1, <1>2, <1>3, <2>0 DEF Exact
  <2>2. \A t \in DOMAIN trans : sessions'[trans[t].session] = sessions[trans[t].session]
    BY <1>2 DEF SessionInv, Gapless
  <2>3. ASSUME NEW b \in Callers
        PROVE  LET k == call[b] IN
               /\ k.at \in {"sequence", "append"} => /\ k.row = sessions'[k.session]
                                                     /\ k.row.status = "active"
               /\ k.at = "append" => k.index = Size(trans, k.session)
    <3>1. Holding(call[b])
      BY DEF SessionInv
    <3> QED
      BY <1>2, <2>0, <3>1 DEF Exact, Holding
  <2> QED
    BY <1>0, <2>0, <2>1, <2>2, <2>3 DEF Exact
<1> QED
  BY <1>0, <1>2, <1>4, <1>5, <1>6, TablesMove DEF SessionInv, Tables

(* Everybody is outside a call when the only writer is. *)
LEMMA NobodyCalls ==
    ASSUME Tables, SingleWriter, NEW c \in writers, call[c] = Idle
    PROVE  \A b \in Callers : call[b] = Idle
BY DEF Tables, SingleWriter

LEMMA CloseSessionHolds ==
    ASSUME SessionInv, NEW c \in writers, writers' = writers, NEW s \in DOMAIN sessions,
           CloseSession(c, s)
    PROVE  SessionInv'
<1>0. /\ sessions' = [sessions EXCEPT ![s].status = "closed"] /\ sessions \in Seq(SessionRow)
      /\ UNCHANGED <<asms, trans, policies, decisions, orphans, call>> /\ call[c] = Idle
  BY DEF CloseSession, SessionInv, Tables
<1>1. /\ sessions' \in Seq(SessionRow) /\ DOMAIN sessions' = DOMAIN sessions
      /\ \A r \in DOMAIN sessions : /\ sessions'[r].count = sessions[r].count
                                    /\ sessions'[r].initial = sessions[r].initial
                                    /\ sessions'[r].latest = sessions[r].latest
  <2>1. sessions[s] \in SessionRow
    BY <1>0
  <2>2. [sessions[s] EXCEPT !.status = "closed"] \in SessionRow
    BY <2>1 DEF SessionRow
  <2>3. sessions' = [sessions EXCEPT ![s] = [sessions[s] EXCEPT !.status = "closed"]]
    BY <1>0
  <2>4. sessions' \in Seq(SessionRow) /\ DOMAIN sessions' = DOMAIN sessions
    BY <1>0, <2>2, <2>3
  <2>5. \A r \in DOMAIN sessions : r # s => sessions'[r] = sessions[r]
    BY <2>3
  <2>6. sessions'[s] = [sessions[s] EXCEPT !.status = "closed"]
    BY <1>0, <2>3
  <2> QED
    BY <2>1, <2>4, <2>5, <2>6 DEF SessionRow
<1>2. Gapless'
  <2>1. Gapless
    BY DEF SessionInv
  <2> QED
    BY <1>0, <1>1, <2>1, GaplessKept DEF Gapless
<1>3. Pointed'
  BY <1>0, <1>1 DEF SessionInv, Pointed
<1>4. ASSUME SingleWriter PROVE Exact'
  <2>1. Exact /\ \A t \in DOMAIN trans : trans[t].session \in DOMAIN sessions
    BY <1>4 DEF SessionInv, Gapless
  <2>2. \A b \in Callers : call[b] = Idle
    BY <1>0, <1>4, NobodyCalls DEF SessionInv
  <2> QED
    BY <1>0, <1>1, <2>1, <2>2 DEF Exact, Idle
<1> QED
  BY <1>0, <1>1, <1>2, <1>3, <1>4, TablesMove DEF SessionInv, Tables

LEMMA CreatePolicyHolds ==
    ASSUME SessionInv, NEW c \in writers, writers' = writers, NEW rule \in Rules,
           CreatePolicy(c, rule)
    PROVE  SessionInv'
<1> DEFINE row == [class |-> rule.class, conditions |-> rule.conditions, status |-> "candidate"]
<1>1. /\ policies' = Append(policies, row) /\ policies \in Seq(PolicyRow)
      /\ UNCHANGED <<asms, sessions, trans, decisions, orphans, call>>
  BY DEF CreatePolicy, SessionInv, Tables
<1>2. row \in PolicyRow
  BY DEF PolicyRow, PolicyStatus
<1> HIDE DEF row
<1>3. policies' \in Seq(PolicyRow) /\ DOMAIN policies \subseteq DOMAIN policies'
  BY <1>1, <1>2
<1>4. Gapless' /\ Pointed'
  BY <1>1, LogKept DEF SessionInv
<1>5. SingleWriter => Exact'
  BY <1>1 DEF SessionInv, Exact
<1> QED
  BY <1>1, <1>3, <1>4, <1>5, TablesMove DEF SessionInv, Tables

LEMMA MovePolicyHolds ==
    ASSUME SessionInv, NEW c \in writers, writers' = writers, NEW p \in DOMAIN policies,
           NEW old \in PolicyStatus, NEW new \in PolicyStatus, MovePolicy(c, p, old, new)
    PROVE  SessionInv'
<1>1. /\ policies' = [policies EXCEPT ![p].status = new] /\ policies \in Seq(PolicyRow)
      /\ UNCHANGED <<asms, sessions, trans, decisions, orphans, call>>
  BY DEF MovePolicy, SessionInv, Tables
<1>2. policies' \in Seq(PolicyRow) /\ DOMAIN policies \subseteq DOMAIN policies'
  <2>1. policies[p] \in PolicyRow
    BY <1>1
  <2>2. [policies[p] EXCEPT !.status = new] \in PolicyRow
    BY <2>1 DEF PolicyRow
  <2>3. policies' = [policies EXCEPT ![p] = [policies[p] EXCEPT !.status = new]]
    BY <1>1
  <2> QED
    BY <1>1, <2>2, <2>3
<1>3. Gapless' /\ Pointed'
  BY <1>1, LogKept DEF SessionInv
<1>4. SingleWriter => Exact'
  BY <1>1 DEF SessionInv, Exact
<1> QED
  BY <1>1, <1>2, <1>3, <1>4, TablesMove DEF SessionInv, Tables

-----------------------------------------------------------------------------
LEMMA StartTransitionHolds ==
    ASSUME SessionInv, NEW c \in writers, writers' = writers, NEW s \in DOMAIN sessions,
           NEW to \in DOMAIN asms, NEW from \in 0..Len(asms) + 1, StartTransition(c, s, to, from)
    PROVE  SessionInv'
<1> DEFINE l == [at |-> "session", session |-> s, to |-> to, from |-> from,
                 exec |-> NoExecution]
<1>1. s \in Nat /\ to \in Nat /\ from \in Nat
  BY DEF SessionInv, Tables
<1>2. l \in SessionCall
  BY <1>1 DEF SessionCall, MoveCall, Exec
<1>3. call' = [call EXCEPT ![c] = l] /\ call[c] = Idle /\ UNCHANGED sessionVars
  BY DEF StartTransition, Begin
<1>4. call'[c] = l
  BY <1>3 DEF SessionInv, Tables
<1>5. Holding(call[c])'
  BY <1>3, <1>4 DEF Holding, Fired, sessionVars
<1>6. l.at = "session" /\ call[c].at = "idle"
  BY <1>3 DEF Idle
<1> HIDE DEF l
<1> QED
  BY <1>2, <1>3, <1>5, <1>6, GoesOn

(* A transition that is refused ends the call, or leaves its execution a *)
(* decision to write.                                                    *)
LEMMA FailureHolds ==
    ASSUME SessionInv, NEW c \in writers, UNCHANGED <<sessionVars, writers>>,
           call[c].at \in {"session", "append"}, TransitionFails(c)
    PROVE  SessionInv'
<1> DEFINE k == call[c]
<1>0. c \in Callers /\ call \in [Callers -> SessionCall] /\ Holding(k) /\ k \in SessionCall
  BY DEF SessionInv, Tables
<1>1. CASE k.exec = NoExecution
  BY <1>1, EndsCall DEF TransitionFails, Moved
<1>2. CASE k.exec # NoExecution
  <2> DEFINE l == Deciding(k.exec, k.to, None)
  <2>1. call' = [call EXCEPT ![c] = l]
    BY <1>2 DEF TransitionFails, Moved, Continue
  <2>2. k.exec \in Executions /\ k.to \in Nat /\ k.exec.outcome.fired
    <3>1. k.exec \in Exec /\ k.to \in Nat
      BY <1>0, CallKinds DEF MoveCall, AppendCall
    <3> QED
      BY <1>0, <1>2, <3>1 DEF Exec, Holding
  <2>3. l \in DecideCall
    BY <2>2 DEF Deciding, DecideCall, None
  <2>4. call'[c] = [at |-> "decide", exec |-> k.exec, to |-> k.to, transition |-> None]
    BY <1>0, <2>1 DEF Deciding
  <2>5. /\ k.exec.policy \in DOMAIN policies' /\ k.to \in DOMAIN asms' /\ k.to # None
        /\ k.exec.outcome = EvaluateTrigger(k.exec.snapshot, k.exec.event)
    <3>1. Fired(k.exec) /\ k.to \in DOMAIN asms
      BY <1>0 DEF Holding
    <3>2. DOMAIN asms = 1..Len(asms)
      BY DEF SessionInv, Tables
    <3> QED
      BY <1>2, <3>1, <3>2 DEF Fired, sessionVars, None
  <2>6. Holding(call[c])'
    BY <2>2, <2>4, <2>5 DEF Holding, Fired, None
  <2>7. l \in SessionCall /\ l.at = "decide" /\ l.transition = None
    BY <2>3 DEF SessionCall, Deciding
  <2> HIDE DEF l
  <2> QED
    BY <2>1, <2>6, <2>7, GoesOn
<1> QED
  BY <1>1, <1>2

LEMMA ReadSessionHolds ==
    ASSUME SessionInv, NEW c \in writers, writers' = writers, ReadSession(c)
    PROVE  SessionInv'
<1> DEFINE k == call[c]
           s == k.session
<1>0. k.at = "session" /\ UNCHANGED sessionVars /\ c \in Callers
      /\ call \in [Callers -> SessionCall]
  BY DEF ReadSession, Resume, SessionInv, Tables
<1>1. CASE sessions[s].status # "active"
  <2>1. TransitionFails(c)
    BY <1>1 DEF ReadSession
  <2> QED
    BY <1>0, <2>1, FailureHolds
<1>2. CASE sessions[s].status = "active"
  <2> DEFINE l == [at |-> "sequence", session |-> s, to |-> k.to,
                   from |-> k.from, exec |-> k.exec, row |-> sessions[s]]
  <2>1. call' = [call EXCEPT ![c] = l]
    BY <1>2 DEF ReadSession, Continue
  <2>2. k \in MoveCall /\ Holding(k) /\ s \in DOMAIN sessions
    BY <1>0, CallKinds DEF SessionInv, Holding
  <2>3. sessions[s] \in SessionRow
    BY <2>2 DEF SessionInv, Tables
  <2>4. l \in SessionCall
    BY <2>2, <2>3 DEF SessionCall, MoveCall, IndexCall
  <2>5. call'[c] = l
    BY <1>0, <2>1
  <2>6. /\ sessions[s].count <= Size(trans, s)
        /\ sessions[s].initial # None => Rows(trans, s) # {}
        /\ sessions[s].latest \in DOMAIN asms \cup {None}
    <3>1. \A t \in Rows(trans, s) : trans[t].to \in DOMAIN asms
      BY DEF SessionInv, Linked, Rows
    <3> QED
      BY <2>2, <3>1 DEF SessionInv, Pointed
  <2>7. /\ k.exec # NoExecution =>
             /\ k.exec.policy \in DOMAIN policies' /\ k.exec.outcome.fired
             /\ k.exec.outcome = EvaluateTrigger(k.exec.snapshot, k.exec.event)
        /\ s \in DOMAIN sessions' /\ k.to \in DOMAIN asms'
    BY <1>0, <2>2 DEF Holding, Fired, sessionVars
  <2>8. /\ sessions[s].count <= Size(trans', s)
        /\ sessions[s].initial # None => Rows(trans', s) # {}
        /\ sessions[s].latest \in DOMAIN asms' \cup {None}
    BY <1>0, <2>6 DEF sessionVars
  <2>9. Holding(call[c])'
    BY <2>5, <2>7, <2>8 DEF Holding, Fired
  <2>10. /\ l.at = "sequence" /\ l.row = sessions[l.session] /\ l.row.status = "active"
    BY <1>2
  <2> HIDE DEF l
  <2> QED
    BY <1>0, <2>1, <2>4, <2>9, <2>10, GoesOn
<1> QED
  BY <1>1, <1>2

(* MAX(sequence_index) + 1 is the number of rows of a log without gaps. *)
LEMMA NextIndexIs ==
    ASSUME Tables, Gapless, NEW s \in DOMAIN sessions
    PROVE  NextIndex(s) = Size(trans, s) /\ Size(trans, s) \in Nat
<1> DEFINE N == Size(trans, s)
           used == {trans[t].index : t \in TransitionsOf(s)}
<1>1. IsFiniteSet(Rows(trans, s)) /\ N \in Nat
  BY FS_CardinalityType DEF Gapless, Size
<1>2. CASE Rows(trans, s) = {}
  BY <1>2, FS_EmptySet, RowsOf DEF NextIndex, Size
<1>3. CASE Rows(trans, s) # {}
  <2>1. N # 0
    BY <1>1, <1>3, FS_EmptySet DEF Size
  <2>2. PICK t \in Rows(trans, s) : trans[t].index = N - 1
    BY <1>1, <2>1 DEF Gapless
  <2>3. N - 1 \in used
    BY <2>2, RowsOf
  <2>4. used \subseteq Nat /\ \A i \in used : i <= N - 1
    <3>1. ASSUME NEW u \in Rows(trans, s)
          PROVE  trans[u].index \in Nat /\ trans[u].index < N
      <4>1. trans[u] \in TransitionRows /\ trans[u].session = s /\ u \in DOMAIN trans
        BY DEF Rows, Tables
      <4> QED
        BY <4>1 DEF TransitionRows, Gapless
    <3>2. \A u \in Rows(trans, s) : trans[u].index \in Nat /\ trans[u].index <= N - 1
      BY <1>1, <3>1
    <3> QED
      BY <3>2, RowsOf
  <2> HIDE DEF N
  <2>5. LastOf(used) = N - 1
    <3> HIDE DEF used
    <3> QED
      BY <2>3, <2>4, LastOfIs
  <2>6. NextIndex(s) = LastOf(used) + 1
    BY <1>3, RowsOf DEF NextIndex
  <2> QED
    BY <1>1, <2>5, <2>6 DEF N
<1> QED
  BY <1>1, <1>2, <1>3

LEMMA ReadSequenceHolds ==
    ASSUME SessionInv, NEW c \in writers, writers' = writers, ReadSequence(c)
    PROVE  SessionInv'
<1> DEFINE k == call[c]
           s == k.session
           l == [at |-> "append", session |-> s, to |-> k.to, from |-> k.from,
                 exec |-> k.exec, row |-> k.row, index |-> NextIndex(s)]
<1>0. k.at = "sequence" /\ UNCHANGED sessionVars /\ c \in Callers
      /\ call \in [Callers -> SessionCall] /\ call' = [call EXCEPT ![c] = l]
  BY DEF ReadSequence, Resume, Continue, SessionInv, Tables
<1>1. k \in IndexCall /\ Holding(k) /\ s \in DOMAIN sessions
  BY <1>0, CallKinds DEF SessionInv, Holding
<1>2. NextIndex(s) = Size(trans, s) /\ Size(trans, s) \in Nat
  BY <1>1, NextIndexIs DEF SessionInv
<1>3. l \in SessionCall
  BY <1>1, <1>2 DEF SessionCall, IndexCall, AppendCall
<1>4. call'[c] = l
  BY <1>0
<1>5. /\ k.exec # NoExecution =>
           /\ k.exec.policy \in DOMAIN policies' /\ k.exec.outcome.fired
           /\ k.exec.outcome = EvaluateTrigger(k.exec.snapshot, k.exec.event)
      /\ s \in DOMAIN sessions' /\ k.to \in DOMAIN asms'
  BY <1>0, <1>1 DEF Holding, Fired, sessionVars
<1>6. /\ NextIndex(s) = Size(trans', s) /\ Size(trans', s) \in Nat
      /\ k.row.count <= Size(trans', s)
      /\ k.row.initial # None => Rows(trans', s) # {}
      /\ k.row.latest \in DOMAIN asms' \cup {None}
  BY <1>0, <1>1, <1>2 DEF Holding, sessionVars
<1>7. Holding(call[c])'
  BY <1>4, <1>5, <1>6 DEF Holding, Fired
<1>8. SingleWriter => k.row = sessions[s] /\ k.row.status = "active"
  BY <1>0 DEF SessionInv, Exact
<1>9. /\ l.at = "append" /\ l.index = Size(trans, l.session)
      /\ SingleWriter => l.row = sessions[l.session] /\ l.row.status = "active"
  BY <1>2, <1>8
<1>10. call' = [call EXCEPT ![c] = l] /\ call[c].at = "sequence"
       /\ UNCHANGED <<sessionVars, writers>>
  BY <1>0
<1> HIDE DEF k, s, l
<1> QED
  BY <1>3, <1>7, <1>9, <1>10, GoesOn

(* The rows and sizes of a log with one more row. *)
LEMMA LogGrows ==
    ASSUME Tables, Gapless, NEW row \in TransitionRows, row.session \in DOMAIN sessions,
           trans' = Append(trans, row), NEW n, n = Len(trans) + 1
    PROVE  /\ trans' \in Seq(TransitionRows) /\ n \in Nat \ {0} /\ n \notin DOMAIN trans
           /\ DOMAIN trans' = DOMAIN trans \cup {n} /\ trans'[n] = row
           /\ \A t \in DOMAIN trans : trans'[t] = trans[t] /\ t \in Nat /\ t < n
           /\ Rows(trans', row.session) = Rows(trans, row.session) \cup {n}
           /\ n \notin Rows(trans, row.session)
           /\ Size(trans', row.session) = Size(trans, row.session) + 1
           /\ \A s : s # row.session => Rows(trans', s) = Rows(trans, s)
           /\ \A s : s # row.session => Size(trans', s) = Size(trans, s)
           /\ \A s \in DOMAIN sessions : IsFiniteSet(Rows(trans', s)) /\ Size(trans, s) \in Nat
<1>1. /\ trans' \in Seq(TransitionRows) /\ n \in Nat \ {0} /\ n \notin DOMAIN trans
      /\ DOMAIN trans' = DOMAIN trans \cup {n} /\ trans'[n] = row
      /\ \A t \in DOMAIN trans : trans'[t] = trans[t] /\ t \in Nat /\ t < n
  BY DEF Tables
<1>2. /\ Rows(trans', row.session) = Rows(trans, row.session) \cup {n}
      /\ n \notin Rows(trans, row.session)
  BY <1>1 DEF Rows
<1>3. \A s : s # row.session => Rows(trans', s) = Rows(trans, s)
  BY <1>1 DEF Rows
<1>4. \A s \in DOMAIN sessions : IsFiniteSet(Rows(trans, s)) /\ Size(trans, s) \in Nat
  BY FS_CardinalityType DEF Gapless, Size
<1>5. Size(trans', row.session) = Size(trans, row.session) + 1
  BY <1>2, <1>4, FS_AddElement DEF Size
<1>6. \A s : s # row.session => Size(trans', s) = Size(trans, s)
  BY <1>3 DEF Size
<1>7. IsFiniteSet(Rows(trans', row.session))
  BY <1>2, <1>4, FS_AddElement
<1>8. ASSUME NEW s \in DOMAIN sessions PROVE IsFiniteSet(Rows(trans', s))
  BY <1>3, <1>4, <1>7
<1> QED
  BY <1>1, <1>2, <1>3, <1>4, <1>5, <1>6, <1>8

(* A row with the next index leaves no gap. *)
LEMMA GaplessGrows ==
    ASSUME Tables, Gapless, NEW row \in TransitionRows, row.session \in DOMAIN sessions,
           trans' = Append(trans, row), row.index = Size(trans, row.session),
           DOMAIN sessions' = DOMAIN sessions
    PROVE  Gapless'
<1> DEFINE n == Len(trans) + 1
           r == row.session
<1>1. /\ trans' \in Seq(TransitionRows) /\ n \in Nat \ {0} /\ n \notin DOMAIN trans
      /\ DOMAIN trans' = DOMAIN trans \cup {n} /\ trans'[n] = row
      /\ \A t \in DOMAIN trans : trans'[t] = trans[t] /\ t \in Nat /\ t < n
      /\ Rows(trans', r) = Rows(trans, r) \cup {n} /\ n \notin Rows(trans, r)
      /\ Size(trans', r) = Size(trans, r) + 1
      /\ \A s : s # r => Rows(trans', s) = Rows(trans, s)
      /\ \A s : s # r => Size(trans', s) = Size(trans, s)
      /\ \A s \in DOMAIN sessions : IsFiniteSet(Rows(trans', s)) /\ Size(trans, s) \in Nat
  BY LogGrows
<1> HIDE DEF n
<1>2. \A s : \A u \in Rows(trans, s) : /\ u \in DOMAIN trans /\ trans[u].session = s
                                      /\ trans'[u] = trans[u] /\ u < n
  BY <1>1 DEF Rows
<1>3. \A s : Rows(trans', s) = Rows(trans, s) \/ s = r
  BY <1>1
<1>4. ASSUME NEW s \in DOMAIN sessions, NEW m \in 0..Size(trans', s) - 1
      PROVE  \E t \in Rows(trans', s) : trans'[t].index = m
  <2>1. CASE m \in 0..Size(trans, s) - 1
    <3>1. PICK t \in Rows(trans, s) : trans[t].index = m
      BY <2>1 DEF Gapless
    <3>2. t \in Rows(trans', s)
      BY <1>1, <1>3, <3>1
    <3> QED
      BY <1>2, <3>1, <3>2
  <2>2. CASE m \notin 0..Size(trans, s) - 1
    <3>1. s = r /\ m = Size(trans, r)
      <4>1. s = r
        BY <1>1, <1>4, <2>2
      <4>2. Size(trans', r) - 1 = Size(trans, r) /\ Size(trans, r) \in Nat
        BY <1>1
      <4> QED
        BY <1>4, <2>2, <4>1, <4>2
    <3> QED
      BY <1>1, <3>1
  <2> QED
    BY <2>1, <2>2
<1>5. ASSUME NEW t \in DOMAIN trans'
      PROVE  LET s == trans'[t].session IN
             /\ s \in DOMAIN sessions
             /\ trans'[t].index < Size(trans', s)
             /\ trans'[t].index = Cardinality({u \in Rows(trans', s) : u < t})
             /\ \A u \in Rows(trans', s) : u < t => trans'[u].index < trans'[t].index
  <2>1. CASE t = n
    <3>1. {u \in Rows(trans', r) : u < n} = Rows(trans, r)
      <4>1. \A u \in Rows(trans', r) : u < n <=> u \in Rows(trans, r)
        <5>1. ~(n < n)
          BY <1>1
        <5> QED
          BY <1>1, <1>2, <5>1
      <4> QED
        BY <1>1, <4>1
    <3>2. Cardinality({u \in Rows(trans', r) : u < n}) = Size(trans, r)
      BY <3>1 DEF Size
    <3>3. \A u \in Rows(trans', r) : u < n => trans'[u].index < Size(trans, r)
      <4>1. ASSUME NEW u \in Rows(trans', r), u < n PROVE u \in Rows(trans, r)
        BY <3>1, <4>1
      <4>2. \A u \in Rows(trans, r) : trans[u].index < Size(trans, r)
        BY <1>2 DEF Gapless
      <4> QED
        BY <1>2, <4>1, <4>2
    <3>4. /\ trans'[t].session = r /\ trans'[t].index = Size(trans, r)
          /\ r \in DOMAIN sessions /\ Size(trans, r) < Size(trans', r)
      BY <1>1, <2>1
    <3> HIDE DEF r
    <3> QED
      BY <2>1, <3>2, <3>3, <3>4
  <2>2. CASE t \in DOMAIN trans
    <3> DEFINE s == trans[t].session
    <3>1. /\ trans'[t] = trans[t] /\ t < n /\ t \in Nat /\ s \in DOMAIN sessions
          /\ trans[t].index \in Nat
      <4>1. trans[t] \in TransitionRows
        BY <2>2 DEF Tables
      <4> QED
        BY <1>1, <2>2, <4>1 DEF Gapless, TransitionRows
    <3>2. /\ trans[t].index < Size(trans, s)
          /\ trans[t].index = Cardinality({u \in Rows(trans, s) : u < t})
          /\ \A u \in Rows(trans, s) : u < t => trans[u].index < trans[t].index
      BY <2>2 DEF Gapless
    <3>3. \A u \in Rows(trans', s) : u < t <=> u < t /\ u \in Rows(trans, s)
      <4>1. ~(n < t)
        BY <1>1, <3>1
      <4>2. Rows(trans', s) = Rows(trans, s) \/ Rows(trans', s) = Rows(trans, s) \cup {n}
        BY <1>1, <1>3
      <4> HIDE DEF s
      <4> QED
        BY <4>1, <4>2
    <3>4. Rows(trans, s) \subseteq Rows(trans', s)
      BY <1>1, <1>3
    <3>5. {u \in Rows(trans', s) : u < t} = {u \in Rows(trans, s) : u < t}
      BY <3>3, <3>4
    <3>6. trans[t].index < Size(trans', s)
      <4>1. Size(trans, s) \in Nat /\ (Size(trans', s) = Size(trans, s)
                                         \/ Size(trans', s) = Size(trans, s) + 1)
        BY <1>1, <3>1
      <4> QED
        BY <3>1, <3>2, <4>1
    <3>7. \A u \in Rows(trans', s) : u < t => trans'[u].index < trans[t].index
      BY <1>2, <3>2, <3>3
    <3> HIDE DEF s
    <3>8. trans'[t].session = s
      BY <3>1 DEF s
    <3> QED
      BY <3>1, <3>2, <3>5, <3>6, <3>7, <3>8
  <2> QED
    BY <1>1, <2>1, <2>2
<1> QED
  BY <1>1, <1>4, <1>5 DEF Gapless

(* The transaction of a transition: the row, and the session that was read. *)
LEMMA AppendTransitionHolds ==
    ASSUME SessionInv, NEW c \in writers, writers' = writers, AppendTransition(c)
    PROVE  SessionInv'
<1> DEFINE k == call[c]
           s == k.session
           row == TransitionRow(k)
           n == Len(trans) + 1
           taken == \E t \in TransitionsOf(s) : trans[t].index = k.index
<1>0. k.at = "append" /\ UNCHANGED <<asms, policies, decisions, orphans>> /\ c \in Callers
      /\ call \in [Callers -> SessionCall]
  BY DEF AppendTransition, Resume, SessionInv, Tables
<1>1. CASE taken
  <2>1. TransitionFails(c) /\ UNCHANGED <<trans, sessions>>
    BY <1>1 DEF AppendTransition
  <2>2. UNCHANGED <<sessionVars, writers>>
    BY <1>0, <2>1 DEF sessionVars
  <2> QED
    BY <1>0, <2>1, <2>2, FailureHolds
<1>2. CASE ~taken
  <2>1. trans' = Append(trans, row) /\ sessions' = SessionAfter(k) /\ Moved(c, n)
    BY <1>2 DEF AppendTransition
  <2>2. k \in AppendCall /\ Holding(k) /\ s \in DOMAIN sessions
    BY <1>0, CallKinds DEF SessionInv, Holding
  <2>3. k.index = Size(trans, s)
    <3>1. Size(trans, s) \in Nat /\ k.index \in Nat /\ k.index <= Size(trans, s)
      BY <1>0, <2>2, NextIndexIs DEF Holding, AppendCall, SessionInv
    <3>2. k.index \notin 0..Size(trans, s) - 1
      <4>1. \A m \in 0..Size(trans, s) - 1 : \E t \in Rows(trans, s) : trans[t].index = m
        BY <2>2 DEF SessionInv, Gapless
      <4> QED
        BY <1>2, <4>1, RowsOf
    <3> QED
      BY <3>1, <3>2
  <2>4. /\ k.exec \in Exec /\ k.exec.policy \in DOMAIN policies \cup {None} /\ k.exec.policy \in Nat
        /\ k.exec # NoExecution => /\ k.exec \in Executions /\ k.exec.outcome.fired
                                   /\ k.exec.policy \in DOMAIN policies
                                   /\ k.exec.outcome = EvaluateTrigger(k.exec.snapshot,
                                                                       k.exec.event)
        /\ k.to \in DOMAIN asms /\ k.to \in Nat \ {None}
        /\ k.from \in Nat /\ k.row \in SessionRow /\ k.row.latest \in DOMAIN asms \cup {None}
        /\ k.row.count <= Size(trans, s) /\ (k.row.initial # None => Rows(trans, s) # {})
    <3>1. k.exec \in Exec /\ k.from \in Nat /\ k.row \in SessionRow
      BY <2>2 DEF AppendCall
    <3>2. NoExecution.policy = None
      BY DEF NoExecution
    <3>3. k.exec # NoExecution => /\ k.exec \in Executions /\ k.exec.outcome.fired
                                  /\ k.exec.policy \in DOMAIN policies /\ k.exec.policy \in Nat
                                  /\ k.exec.outcome = EvaluateTrigger(k.exec.snapshot,
                                                                      k.exec.event)
      BY <1>0, <2>2, <3>1 DEF Holding, Fired, Exec, Executions
    <3>4. k.to \in DOMAIN asms /\ k.to \in Nat \ {None}
      BY <1>0, <2>2 DEF Holding, SessionInv, Tables, None
    <3>5. /\ k.row.latest \in DOMAIN asms \cup {None} /\ k.row.count <= Size(trans, s)
          /\ k.row.initial # None => Rows(trans, s) # {}
      BY <1>0, <2>2 DEF Holding
    <3>6. None \in Nat
      BY DEF None
    <3> QED
      BY <3>1, <3>2, <3>3, <3>4, <3>5, <3>6
  <2>5. /\ row.session = s /\ row.index = k.index /\ row.to = k.to
        /\ row.from = IF k.from = None THEN k.row.latest ELSE k.from
        /\ row.policy = k.exec.policy /\ row.given = (k.from # None)
        /\ row.late = (sessions[s].status = "closed")
    BY DEF TransitionRow
  <2>6. row \in TransitionRows
    <3>1. k.session \in Nat /\ k.index \in Nat /\ k.row.latest \in Nat
      BY <2>2, <2>4 DEF AppendCall, SessionRow
    <3> QED
      BY <2>4, <3>1 DEF TransitionRows, TransitionRow
  <2>7. /\ sessions' \in Seq(SessionRow) /\ DOMAIN sessions' = DOMAIN sessions
        /\ \A r \in DOMAIN sessions : r # s => sessions'[r] = sessions[r]
        /\ sessions'[s].count = k.row.count + 1 /\ sessions'[s].latest = k.to
        /\ sessions'[s].initial = IF k.row.initial = None THEN k.to ELSE sessions[s].initial
    <3> DEFINE after == [sessions[s] EXCEPT !.count = k.row.count + 1, !.latest = k.to,
                                            !.initial = IF k.row.initial = None THEN k.to
                                                        ELSE sessions[s].initial]
    <3>1. sessions \in Seq(SessionRow) /\ sessions[s] \in SessionRow
      BY <2>2 DEF SessionInv, Tables
    <3>2. k.row.count + 1 \in Nat
      BY <2>4 DEF SessionRow
    <3>3. /\ after \in SessionRow /\ after.count = k.row.count + 1 /\ after.latest = k.to
          /\ after.initial = IF k.row.initial = None THEN k.to ELSE sessions[s].initial
      BY <2>4, <3>1, <3>2 DEF SessionRow
    <3>4. sessions' = [sessions EXCEPT ![s] = after]
      BY <2>1, <3>1 DEF SessionAfter, SessionRow
    <3> HIDE DEF after
    <3> QED
      BY <2>2, <3>1, <3>3, <3>4
  <2> HIDE DEF row, n
  <2>8. /\ trans' \in Seq(TransitionRows) /\ n \in Nat \ {0} /\ n \notin DOMAIN trans
        /\ DOMAIN trans' = DOMAIN trans \cup {n} /\ trans'[n] = row
        /\ \A t \in DOMAIN trans : trans'[t] = trans[t] /\ t \in Nat /\ t < n
        /\ Rows(trans', s) = Rows(trans, s) \cup {n} /\ n \notin Rows(trans, s)
        /\ Size(trans', s) = Size(trans, s) + 1
        /\ \A r : r # s => Rows(trans', r) = Rows(trans, r)
        /\ \A r : r # s => Size(trans', r) = Size(trans, r)
        /\ \A r \in DOMAIN sessions : IsFiniteSet(Rows(trans', r)) /\ Size(trans, r) \in Nat
    BY <2>1, <2>2, <2>5, <2>6, LogGrows DEF SessionInv, n
  <2>9. Gapless'
    BY <2>1, <2>2, <2>3, <2>5, <2>6, <2>7, GaplessGrows DEF SessionInv
  <2>10. Pointed'
    <3>1. ASSUME NEW r \in DOMAIN sessions
          PROVE  /\ sessions'[r].count <= Size(trans', r)
                 /\ IF Rows(trans', r) = {}
                    THEN sessions'[r].initial = None /\ sessions'[r].latest = None
                    ELSE {sessions'[r].initial, sessions'[r].latest}
                             \subseteq {trans'[t].to : t \in Rows(trans', r)}
      <4>1. \A t \in Rows(trans, r) : t \in DOMAIN trans /\ trans'[t] = trans[t]
        BY <2>8 DEF Rows
      <4>2. CASE r # s
        <5>1. /\ sessions'[r] = sessions[r] /\ Size(trans', r) = Size(trans, r)
              /\ Rows(trans', r) = Rows(trans, r)
          BY <2>7, <2>8, <4>2
        <5>2. {trans'[t].to : t \in Rows(trans', r)} = {trans[t].to : t \in Rows(trans, r)}
          BY <4>1, <5>1
        <5> QED
          BY <5>1, <5>2 DEF SessionInv, Pointed
      <4>3. CASE r = s
        <5>1. sessions'[s].count <= Size(trans', s)
          <6>1. k.row.count \in Nat /\ Size(trans, s) \in Nat /\ k.row.count <= Size(trans, s)
            BY <2>2, <2>4, <2>8 DEF SessionRow
          <6>2. sessions'[s].count = k.row.count + 1 /\ Size(trans', s) = Size(trans, s) + 1
            BY <2>7, <2>8
          <6> QED
            BY <6>1, <6>2
        <5>2. n \in Rows(trans', s) /\ trans'[n].to = k.to
          BY <2>5, <2>8
        <5>3. sessions'[s].initial \in {trans'[t].to : t \in Rows(trans', s)}
          <6>1. CASE k.row.initial = None
            BY <2>7, <5>2, <6>1
          <6>2. CASE k.row.initial # None
            <7>1. sessions[s].initial \in {trans[t].to : t \in Rows(trans, s)}
              BY <2>2, <2>4, <6>2 DEF SessionInv, Pointed
            <7> QED
              BY <2>7, <2>8, <4>1, <4>3, <6>2, <7>1
          <6> QED
            BY <6>1, <6>2
        <5> QED
          BY <2>7, <4>3, <5>1, <5>2, <5>3
      <4> QED
        BY <4>2, <4>3
    <3> QED
      BY <2>7, <3>1 DEF Pointed
  <2>11. Linked'
    <3>1. ASSUME NEW t \in DOMAIN trans'
          PROVE  /\ trans'[t].to \in DOMAIN asms
                 /\ trans'[t].policy \in DOMAIN policies \cup {None}
                 /\ trans'[t].given \/ trans'[t].from \in DOMAIN asms \cup {None}
      <4>1. CASE t = n
        BY <2>4, <2>5, <2>8, <4>1
      <4>2. CASE t \in DOMAIN trans
        BY <2>8, <4>2 DEF SessionInv, Linked
      <4> QED
        BY <2>8, <4>1, <4>2
    <3> QED
      BY <1>0, <3>1 DEF Linked
  <2>12. Decided'
    <3>1. Decided
      BY DEF SessionInv
    <3> QED
      BY <1>0, <2>8, <3>1 DEF Decided
  <2>13. PICK l \in SessionCall :
           /\ call' = [call EXCEPT ![c] = l]
           /\ IF k.exec = NoExecution THEN l = Idle
              ELSE l = [at |-> "decide", exec |-> k.exec, to |-> k.to, transition |-> n]
    <3>1. CASE k.exec = NoExecution
      <4>1. call' = [call EXCEPT ![c] = Idle]
        BY <2>1, <3>1 DEF Moved, Return
      <4> QED
        BY <3>1, <4>1 DEF SessionCall
    <3>2. CASE k.exec # NoExecution
      <4>1. call' = [call EXCEPT ![c] = Deciding(k.exec, k.to, n)]
        BY <2>1, <3>2 DEF Moved, Continue
      <4>2. Deciding(k.exec, k.to, n) \in DecideCall
        BY <2>4, <2>8, <3>2 DEF Deciding, DecideCall
      <4> QED
        BY <3>2, <4>1, <4>2 DEF Deciding, SessionCall
    <3> QED
      BY <3>1, <3>2
  <2>14. /\ c \in Callers /\ writers' \subseteq Callers /\ call' \in [Callers -> SessionCall]
         /\ \A b \in Callers : b \in writers' \/ call'[b] = Idle
         /\ call'[c] = l /\ \A b \in Callers : b # c => call'[b] = call[b]
         /\ SingleWriter => \A b \in Callers : b # c => call'[b] = Idle
    BY <2>13, CallerMoves DEF SessionInv
  <2>15. Tables'
    BY <1>0, <2>7, <2>8, <2>14 DEF SessionInv, Tables
  <2>16. Newest'
    BY <1>0 DEF SessionInv, Newest
  <2>17. ASSUME NEW b \in Callers PROVE Holding(call[b])'
    <3>1. CASE b # c
      <4>1. SessionGrows
        BY <1>0, <2>7, <2>8 DEF SessionGrows
      <4> QED
        BY <2>14, <3>1, <4>1, HoldingKept
    <3>2. CASE b = c /\ k.exec = NoExecution
      <4>1. call'[b] = Idle
        BY <2>13, <2>14, <3>2
      <4> QED
        BY <4>1 DEF Holding, Idle
    <3>3. CASE b = c /\ k.exec # NoExecution
      <4>1. call'[b] = [at |-> "decide", exec |-> k.exec, to |-> k.to, transition |-> n]
        BY <2>13, <2>14, <3>3
      <4>2. /\ n \in DOMAIN trans' /\ trans'[n].to = k.to /\ trans'[n].policy = k.exec.policy
            /\ k.to \in DOMAIN asms' /\ k.exec.policy \in DOMAIN policies'
        BY <1>0, <2>4, <2>5, <2>8, <3>3
      <4> QED
        BY <2>4, <3>3, <4>1, <4>2 DEF Holding, Fired
    <3> QED
      BY <3>1, <3>2, <3>3
  <2>18. Accounted'
    <3>1. \A t : DecisionsOf(t)' = DecisionsOf(t)
      BY <1>0 DEF DecisionsOf
    <3>2. ASSUME NEW t \in DOMAIN trans, Answered(t)
          PROVE  Answered(t)'
      <4>1. t # n
        BY <2>8, <3>2
      <4>2. CallsOf(t)' = CallsOf(t)
        <5>1. c \notin CallsOf(t)
          BY <1>0 DEF CallsOf
        <5>2. ~(call'[c].at = "decide" /\ call'[c].transition = t)
          BY <2>13, <2>14, <4>1 DEF Idle
        <5> QED
          BY <2>14, <5>1, <5>2 DEF CallsOf
      <4> QED
        BY <1>0, <3>1, <3>2, <4>2 DEF Answered
    <3>3. ASSUME NEW m, m = n, trans'[m].policy # None
          PROVE  Answered(m)'
      <4>1. k.exec # NoExecution
        BY <2>5, <2>8, <3>3 DEF NoExecution
      <4>2. DecisionsOf(m) = {}
        BY <2>8, <3>3 DEF DecisionsOf, SessionInv, Decided, None
      <4>3. c \in Callers /\ call'[c].at = "decide" /\ call'[c].transition = m
        BY <2>13, <2>14, <3>3, <4>1
      <4>4. ASSUME NEW b \in Callers, b # c
            PROVE  ~(call'[b].at = "decide" /\ call'[b].transition = m)
        <5>1. Holding(call[b])
          BY DEF SessionInv
        <5> QED
          BY <2>8, <2>14, <3>3, <4>4, <5>1 DEF Holding, None
      <4>5. CallsOf(m)' = {c}
        BY <4>3, <4>4 DEF CallsOf
      <4>6. m \notin orphans'
        BY <1>0, <2>8, <3>3 DEF SessionInv, Tables
      <4> QED
        BY <2>14, <3>1, <4>2, <4>5, <4>6 DEF Answered
    <3>4. \A t \in DOMAIN trans : trans[t].policy # None => Answered(t)
      BY DEF SessionInv, Accounted
    <3>5. \A t \in DOMAIN trans' : trans'[t].policy # None => Answered(t)'
      BY <2>8, <3>2, <3>3, <3>4
    <3> QED
      BY <3>5 DEF Accounted
  <2>19. ASSUME SingleWriter PROVE Exact'
    <3>0. Exact /\ Gapless /\ Pointed /\ Linked
      BY <2>19 DEF SessionInv
    <3>1. k.row = sessions[s] /\ sessions[s].status = "active"
      BY <1>0, <3>0 DEF Exact
    <3>2. \A r \in DOMAIN sessions : sessions'[r].count = Size(trans', r)
      BY <2>2, <2>7, <2>8, <3>0, <3>1 DEF Exact
    <3>3. /\ sessions'[s].latest = k.to
          /\ sessions[s].initial # None => sessions'[s].initial = sessions[s].initial
          /\ sessions[s].initial = None => sessions'[s].initial = k.to
      BY <2>7, <3>1
    <3>4. ASSUME NEW t \in DOMAIN trans
          PROVE  LET r == trans[t].session IN
                 /\ ~trans[t].late
                 /\ trans[t].index = 0 => /\ sessions'[r].initial = trans[t].to
                                          /\ trans[t].given \/ trans[t].from = None
                 /\ trans[t].index + 1 = Size(trans', r) => sessions'[r].latest = trans[t].to
                 /\ \A u \in Rows(trans', r) : trans'[u].index + 1 = trans[t].index =>
                      trans[t].given \/ trans[t].from = trans'[u].to
      <4> DEFINE r == trans[t].session
      <4>1. /\ ~trans[t].late
            /\ trans[t].index = 0 => /\ sessions[r].initial = trans[t].to
                                     /\ trans[t].given \/ trans[t].from = None
            /\ trans[t].index + 1 = Size(trans, r) => sessions[r].latest = trans[t].to
            /\ \A u \in Rows(trans, r) : trans[u].index + 1 = trans[t].index =>
                 trans[t].given \/ trans[t].from = trans[u].to
        BY <3>0 DEF Exact
      <4>2. r \in DOMAIN sessions /\ trans[t].index < Size(trans, r) /\ trans[t].index \in Nat
        <5>1. trans[t] \in TransitionRows
          BY DEF SessionInv, Tables
        <5> QED
          BY <3>0, <5>1 DEF Gapless, TransitionRows
      <4>3. \A u \in Rows(trans, r) : trans'[u] = trans[u]
        BY <2>8 DEF Rows
      <4>4. CASE r # s
        <5>1. /\ sessions'[r] = sessions[r] /\ Size(trans', r) = Size(trans, r)
              /\ Rows(trans', r) = Rows(trans, r)
          BY <2>7, <2>8, <4>2, <4>4
        <5> QED
          BY <4>1, <4>3, <5>1
      <4>5. CASE r = s
        <5>1. trans[t].index = 0 => sessions'[s].initial = trans[t].to
          <6>1. trans[t].to # None
            BY <3>0 DEF Linked, None, SessionInv, Tables
          <6> QED
            BY <3>3, <4>1, <4>5, <6>1
        <5>2. trans[t].index + 1 # Size(trans', s)
          <6>1. /\ Size(trans, s) \in Nat /\ Size(trans', s) = Size(trans, s) + 1
                /\ trans[t].index < Size(trans, s)
            BY <2>8, <4>2, <4>5
          <6> QED
            BY <4>2, <6>1
        <5>3. trans'[n].index + 1 # trans[t].index
          <6>1. /\ Size(trans, s) \in Nat /\ trans'[n].index = Size(trans, s)
                /\ trans[t].index < Size(trans, s)
            BY <2>2, <2>3, <2>5, <2>8, <4>2, <4>5
          <6> QED
            BY <4>2, <6>1
        <5>4. \A u \in Rows(trans', s) : u = n \/ u \in Rows(trans, s)
          BY <2>8
        <5> QED
          BY <4>1, <4>3, <4>5, <5>1, <5>2, <5>3, <5>4
      <4> QED
        BY <4>4, <4>5
    <3>5. /\ ~row.late
          /\ row.index = 0 => sessions'[s].initial = row.to /\ (row.given \/ row.from = None)
          /\ row.index + 1 = Size(trans', s) => sessions'[s].latest = row.to
          /\ \A u \in Rows(trans', s) : trans'[u].index + 1 = row.index =>
               row.given \/ row.from = trans'[u].to
      <4>1. ~row.late /\ row.to = k.to /\ (row.given \/ row.from = sessions[s].latest)
            /\ row.index = Size(trans, s) /\ Size(trans, s) \in Nat
        BY <2>2, <2>3, <2>5, <2>8, <3>1
      <4>2. ASSUME row.index = 0
            PROVE  sessions'[s].initial = k.to /\ sessions[s].latest = None
        <5>1. Rows(trans, s) = {}
          <6>1. IsFiniteSet(Rows(trans, s)) /\ Cardinality(Rows(trans, s)) = 0
            BY <2>2, <3>0, <4>1, <4>2 DEF Gapless, Size
          <6> QED
            BY <6>1, FS_EmptySet
        <5> QED
          BY <2>2, <3>0, <3>3, <5>1 DEF Pointed
      <4>3. ASSUME NEW u \in Rows(trans', s), trans'[u].index + 1 = row.index
            PROVE  sessions[s].latest = trans'[u].to
        <5>1. u # n
          BY <2>8, <4>1, <4>3
        <5>2. u \in Rows(trans, s)
          BY <2>8, <5>1, <4>3
        <5>3. u \in DOMAIN trans /\ trans[u].session = s /\ trans'[u] = trans[u]
          BY <2>8, <5>2 DEF Rows
        <5> QED
          BY <3>0, <4>1, <4>3, <5>3 DEF Exact
      <4> QED
        BY <3>3, <4>1, <4>2, <4>3
    <3>6. ASSUME NEW b \in Callers
          PROVE  call'[b].at \notin {"sequence", "append"}
      <4>1. CASE b # c
        BY <2>14, <2>19, <4>1 DEF Idle
      <4>2. CASE b = c
        BY <2>13, <2>14, <4>2 DEF Idle
      <4> QED
        BY <4>1, <4>2
    <3>7. ASSUME NEW t \in DOMAIN trans'
          PROVE  LET r == trans'[t].session IN
                 /\ ~trans'[t].late
                 /\ trans'[t].index = 0 => /\ sessions'[r].initial = trans'[t].to
                                           /\ trans'[t].given \/ trans'[t].from = None
                 /\ trans'[t].index + 1 = Size(trans', r) => sessions'[r].latest = trans'[t].to
                 /\ \A u \in Rows(trans', r) : trans'[u].index + 1 = trans'[t].index =>
                      trans'[t].given \/ trans'[t].from = trans'[u].to
      <4>1. CASE t \in DOMAIN trans
        BY <2>8, <3>4, <4>1
      <4>2. CASE t = n
        BY <2>5, <2>8, <3>5, <4>2
      <4> QED
        BY <2>8, <4>1, <4>2
    <3> QED
      BY <2>7, <3>2, <3>6, <3>7 DEF Exact
  <2> QED
    BY <2>9, <2>10, <2>11, <2>12, <2>15, <2>16, <2>17, <2>18, <2>19 DEF SessionInv, SingleWriter
<1> QED
  BY <1>1, <1>2

-----------------------------------------------------------------------------
(* A call that ends with its decision written, or with nobody to write it. *)
LEMMA AnswerGiven ==
    ASSUME SessionInv, NEW c \in writers, Return(c),
           UNCHANGED <<asms, sessions, trans, policies, writers>>,
           decisions' \in Seq(Decision), orphans' \subseteq DOMAIN trans, Decided', Accounted'
    PROVE  SessionInv'
<1> USE DEF SessionInv
<1>0. /\ c \in Callers /\ writers' \subseteq Callers /\ call' \in [Callers -> SessionCall]
      /\ \A b \in Callers : b \in writers' \/ call'[b] = Idle
      /\ call'[c] = Idle /\ \A b \in Callers : b # c => call'[b] = call[b]
      /\ SingleWriter => \A b \in Callers : b # c => call'[b] = Idle
  BY CallerMoves DEF Return, SessionCall
<1>1. Tables'
  BY <1>0 DEF Tables
<1>2. Newest' /\ Gapless' /\ Pointed' /\ Linked'
  BY LogKept DEF Newest, Linked
<1>3. ASSUME NEW b \in Callers PROVE Holding(call[b])'
  <2>1. CASE b = c
    BY <1>0, <2>1 DEF Holding, Idle
  <2>2. CASE b # c
    <3>1. SessionGrows
      BY DEF SessionGrows, Gapless
    <3> QED
      BY <1>0, <2>2, <3>1, HoldingKept
  <2> QED
    BY <2>1, <2>2
<1>4. SingleWriter' => Exact'
  <2> SUFFICES ASSUME SingleWriter PROVE Exact'
    BY DEF SingleWriter
  <2>1. \A b \in Callers : call'[b] = Idle
    BY <1>0
  <2>2. Exact
    OBVIOUS
  <2> QED
    BY <2>1, <2>2 DEF Exact, Idle
<1> QED
  BY <1>1, <1>2, <1>3, <1>4

LEMMA LogDecisionHolds ==
    ASSUME SessionInv, NEW c \in writers, writers' = writers, LogDecision(c)
    PROVE  SessionInv'
<1> DEFINE k == call[c]
           row == DecisionRow(k)
           n == Len(decisions) + 1
<1>0. /\ k.at = "decide" /\ decisions' = Append(decisions, row) /\ Return(c)
      /\ UNCHANGED <<asms, sessions, trans, policies, orphans>>
      /\ c \in Callers /\ call \in [Callers -> SessionCall] /\ decisions \in Seq(Decision)
  BY DEF LogDecision, Resume, SessionInv, Tables
<1>1. k \in DecideCall /\ Holding(k)
  BY <1>0, CallKinds DEF SessionInv
<1>2. /\ k.exec \in Executions /\ k.to \in Nat /\ k.transition \in Nat
      /\ k.exec.outcome = EvaluateTrigger(k.exec.snapshot, k.exec.event)
      /\ k.exec.snapshot \in PolicyRow /\ k.exec.event \in Events /\ k.exec.policy \in Nat
      /\ k.exec.outcome \in Outcomes
  <2>1. k.exec \in Executions /\ k.to \in Nat /\ k.transition \in Nat
    BY <1>1 DEF DecideCall
  <2>2. k.exec # NoExecution
    BY <2>1 DEF Executions, NoExecution
  <2> QED
    BY <1>0, <1>1, <2>1, <2>2 DEF Holding, Fired, Executions
<1>3. /\ row.policy = k.exec.policy /\ row.snapshot = k.exec.snapshot
      /\ row.event = k.exec.event /\ row.fired = k.exec.outcome.fired
      /\ row.artifacts = k.exec.outcome.artifacts /\ row.assembly = k.to
      /\ row.transition = k.transition
  BY DEF DecisionRow
<1>4. /\ k.exec.outcome = Outcome(k.exec.outcome.fired, k.exec.outcome.artifacts)
      /\ k.exec.outcome.fired \in BOOLEAN
  BY <1>2, OutcomeOf
<1>5. row \in Decision
  BY <1>2, <1>4 DEF DecisionRow, Decision
<1> HIDE DEF row
<1>6. /\ decisions' \in Seq(Decision) /\ n \notin DOMAIN decisions
      /\ DOMAIN decisions' = DOMAIN decisions \cup {n} /\ decisions'[n] = row
      /\ \A d \in DOMAIN decisions : decisions'[d] = decisions[d]
  BY <1>0, <1>5
<1> HIDE DEF n
<1>7. Decided'
  <2>1. ASSUME NEW d \in DOMAIN decisions'
        PROVE  LET r == decisions'[d] IN
               /\ Outcome(r.fired, r.artifacts) = EvaluateTrigger(r.snapshot, r.event)
               /\ r.fired <=> r.assembly # None
               /\ r.assembly \in DOMAIN asms \cup {None}
               /\ r.transition # None => /\ r.transition \in DOMAIN trans
                                         /\ trans[r.transition].to = r.assembly
                                         /\ trans[r.transition].policy = r.policy
    <3>1. CASE d \in DOMAIN decisions
      BY <1>6, <3>1 DEF SessionInv, Decided
    <3>2. CASE d = n
      <4>1. /\ k.exec.outcome.fired <=> k.to # None
            /\ k.to \in DOMAIN asms \cup {None}
            /\ k.transition # None => /\ k.transition \in DOMAIN trans
                                      /\ trans[k.transition].to = k.to
                                      /\ trans[k.transition].policy = k.exec.policy
        BY <1>0, <1>1 DEF Holding
      <4> QED
        BY <1>2, <1>3, <1>4, <1>6, <3>2, <4>1
    <3> QED
      BY <1>6, <3>1, <3>2
  <2> QED
    BY <1>0, <2>1 DEF Decided
<1>8. Accounted'
  <2>0. call'[c] = Idle /\ \A b \in Callers : b # c => call'[b] = call[b]
    BY <1>0 DEF Return
  <2>1. ASSUME NEW t \in DOMAIN trans, Answered(t), t # k.transition
        PROVE  Answered(t)'
    <3>1. CallsOf(t)' = CallsOf(t)
      BY <2>0, <2>1 DEF CallsOf, Idle
    <3>2. DecisionsOf(t)' = DecisionsOf(t)
      BY <1>3, <1>6, <2>1 DEF DecisionsOf
    <3> QED
      BY <1>0, <1>6, <2>1, <3>1, <3>2 DEF Answered
  <2>2. ASSUME NEW t \in DOMAIN trans, Answered(t), t = k.transition
        PROVE  Answered(t)'
    <3>1. c \in CallsOf(t)
      BY <1>0, <2>2 DEF CallsOf
    <3>2. DecisionsOf(t) = {} /\ CallsOf(t) = {c} /\ t \notin orphans
      BY <2>2, <3>1 DEF Answered
    <3>3. CallsOf(t)' = {}
      BY <2>0, <3>2 DEF CallsOf, Idle
    <3>4. DecisionsOf(t)' = {n}
      <4>1. \A d \in DOMAIN decisions' : decisions'[d].transition = t <=> d = n
        BY <1>3, <1>6, <2>2, <3>2 DEF DecisionsOf
      <4> QED
        BY <1>6, <4>1 DEF DecisionsOf
    <3> QED
      BY <1>0, <1>6, <3>2, <3>3, <3>4 DEF Answered
  <2>3. \A t \in DOMAIN trans : trans[t].policy # None => Answered(t)
    BY DEF SessionInv, Accounted
  <2>4. \A t \in DOMAIN trans : trans[t].policy # None => Answered(t)'
    BY <2>1, <2>2, <2>3
  <2> QED
    BY <1>0, <2>4 DEF Accounted
<1>9. orphans' \subseteq DOMAIN trans
  BY <1>0 DEF SessionInv, Tables
<1> QED
  BY <1>0, <1>6, <1>7, <1>8, <1>9, AnswerGiven

(* A death leaves the transition it was to explain to nobody. *)
LEMMA SessionDeathHolds ==
    ASSUME SessionInv, NEW c \in writers, writers' = writers, SessionDeath(c)
    PROVE  SessionInv'
<1> DEFINE k == call[c]
           lost == {k.transition} \ {None}
<1>0. /\ Return(c) /\ UNCHANGED <<asms, sessions, trans, policies, decisions>>
      /\ c \in Callers /\ call \in [Callers -> SessionCall]
  BY DEF SessionDeath, Die, SessionInv, Tables
<1>1. CASE k.at # "decide"
  <2>1. orphans' = orphans
    BY <1>1 DEF SessionDeath
  <2>2. UNCHANGED <<sessionVars, writers>>
    BY <1>0, <2>1 DEF sessionVars
  <2> QED
    BY <1>0, <1>1, <2>2, EndsCall
<1>2. CASE k.at = "decide"
  <2>1. orphans' = orphans \cup lost
    BY <1>2 DEF SessionDeath
  <2>2. lost \subseteq DOMAIN trans
    BY <1>0, <1>2 DEF SessionInv, Holding
  <2>3. call'[c] = Idle /\ \A b \in Callers : b # c => call'[b] = call[b]
    BY <1>0 DEF Return
  <2>4. \A t : DecisionsOf(t)' = DecisionsOf(t)
    BY <1>0 DEF DecisionsOf
  <2>5. ASSUME NEW t \in DOMAIN trans, Answered(t)
        PROVE  Answered(t)'
    <3>0. t # None
      BY DEF SessionInv, Tables, None
    <3>1. CASE t # k.transition
      <4>1. CallsOf(t)' = CallsOf(t)
        BY <2>3, <3>1 DEF CallsOf, Idle
      <4>2. t \in orphans' <=> t \in orphans
        BY <2>1, <3>1
      <4> QED
        BY <1>0, <2>4, <2>5, <4>1, <4>2 DEF Answered
    <3>2. CASE t = k.transition
      <4>1. c \in CallsOf(t)
        BY <1>0, <1>2, <3>2 DEF CallsOf
      <4>2. DecisionsOf(t) = {} /\ CallsOf(t) = {c}
        BY <2>5, <4>1 DEF Answered
      <4>3. CallsOf(t)' = {}
        BY <2>3, <4>2 DEF CallsOf, Idle
      <4>4. t \in orphans'
        BY <2>1, <3>0, <3>2
      <4> QED
        BY <2>4, <4>2, <4>3, <4>4 DEF Answered
    <3> QED
      BY <3>1, <3>2
  <2>6. Accounted'
    <3>1. \A t \in DOMAIN trans : trans[t].policy # None => Answered(t)
      BY DEF SessionInv, Accounted
    <3>2. \A t \in DOMAIN trans : trans[t].policy # None => Answered(t)'
      BY <2>5, <3>1
    <3> QED
      BY <1>0, <3>2 DEF Accounted
  <2>7. Decided'
    BY <1>0 DEF SessionInv, Decided
  <2>8. decisions' \in Seq(Decision) /\ orphans' \subseteq DOMAIN trans
    BY <1>0, <2>1, <2>2 DEF SessionInv, Tables
  <2> QED
    BY <1>0, <2>6, <2>7, <2>8, AnswerGiven
<1> QED
  BY <1>1, <1>2

-----------------------------------------------------------------------------
LEMMA SessionStays ==
    ASSUME SessionInv, UNCHANGED <<sessionVars, writers, call>>
    PROVE  SessionInv'
<1>1. /\ UNCHANGED <<asms, trans, decisions, orphans, call, writers>>
      /\ sessions' = sessions /\ policies' = policies
  BY DEF sessionVars
<1>2. Gapless' /\ Pointed'
  BY <1>1, LogKept DEF SessionInv
<1>3. SingleWriter => Exact'
  BY <1>1 DEF SessionInv, Exact
<1>4. /\ sessions' \in Seq(SessionRow) /\ DOMAIN sessions \subseteq DOMAIN sessions'
      /\ policies' \in Seq(PolicyRow) /\ DOMAIN policies \subseteq DOMAIN policies'
  BY <1>1 DEF SessionInv, Tables
<1> QED
  BY <1>1, <1>2, <1>3, <1>4, TablesMove

LEMMA SessionStepHolds == SessionInv /\ [SessionNext]_<<sessionVars, writers, call>> => SessionInv'
<1> SUFFICES ASSUME SessionInv, [SessionNext]_<<sessionVars, writers, call>> PROVE SessionInv'
  OBVIOUS
<1>1. CASE UNCHANGED <<sessionVars, writers, call>>
  BY <1>1, SessionStays
<1>2. ASSUME NEW c \in writers, SessionStep(c), writers' = writers
      PROVE  SessionInv'
  <2> USE <1>2
  <2>1. CASE AssemblyStep(c)
    BY <2>1, StartLogHolds, FindAssemblyHolds, WriteAssemblyHolds DEF AssemblyStep
  <2>2. CASE TransitionStep(c)
    BY <2>2, OpenSessionHolds, CloseSessionHolds, StartTransitionHolds, ReadSessionHolds,
       ReadSequenceHolds, AppendTransitionHolds DEF TransitionStep
  <2>3. CASE PolicyStep(c)
    BY <2>3, StartDeclineHolds, StartExecuteHolds, CreatePolicyHolds, MovePolicyHolds,
       LogDecisionHolds DEF PolicyStep
  <2>4. CASE SessionDeath(c)
    BY <2>4, SessionDeathHolds
  <2> QED
    BY <2>1, <2>2, <2>3, <2>4 DEF SessionStep
<1> QED
  BY <1>1, <1>2 DEF SessionNext

LEMMA SessionInvKept == SessionSpec => []SessionInv
<1> QED
  BY SessionInitHolds, SessionStepHolds, PTL DEF SessionSpec

\* log_assembly and log_assembly_transition keep the timeline of every session,
\* however many processes write, whatever they race for and wherever they die:
\* one active assembly of a key, the newest; indices without a gap, pointers into
\* the session's own rows; and, with one writer, exact counts and a chain.
THEOREM TimelineIsKept == SessionSpec => []TimelineHolds
<1>1. SessionSpec => []SessionInv
  BY SessionInvKept
<1> QED
  BY <1>1, TimelineSuffices, PTL

\* execute_activation_policy and log_activation_decision: every decision that is
\* logged replays from its own snapshot, and every transition a policy made is
\* answered for by exactly one decision, running call or death.
THEOREM DecisionsAreKept == SessionSpec => []DecisionsAreExplained
<1>1. SessionSpec => []SessionInv
  BY SessionInvKept
<1> QED
  BY <1>1, DecisionsSuffice, PTL

-----------------------------------------------------------------------------
(* Continuity bundles, and the writers of the rows they carry, at any number *)
(* of sites.                                                                *)

\* a table of events has finitely many ids and records as rows
EventsTyped(events) ==
    /\ \E n \in Nat : DOMAIN events \subseteq 1..n
    /\ \A i \in DOMAIN events :
         events[i] = [name |-> events[i].name, status |-> events[i].status]

\* a database has four tables
SiteTyped(t) ==
    /\ t = [events |-> t.events, docs |-> t.docs, runs |-> t.runs, cands |-> t.cands]
    /\ EventsTyped(t.events)

\* the candidates that came to a site with bundles, the fields of the file's events
From(s) == UNION {DOMAIN l[2].cands : l \in {l \in landed : l[1] = s}}
FileFields == {Fields[x] : x \in Texts}

\* the two parts of IdsKeepTheirMeaning for one database, with `from' come to it
CandidatesNamed(t, from) ==
    \A k \in DOMAIN t.cands :
        t.cands[k].status = "promoted" =>
            /\ t.cands[k].event \in DOMAIN t.events
            /\ Fields[t.events[t.cands[k].event].name] = Fields[k]
            /\ t.events[t.cands[k].event].name = k \/ k \in from
RunsNamed(t) ==
    \A r \in DOMAIN t.runs : \A i \in t.runs[r] :
        i \in DOMAIN t.events /\ Fields[t.events[i].name] \in FileFields

\* the events of f are among those of g, made from the same
SameNames(f, g) == \A i \in DOMAIN f : i \in DOMAIN g /\ g[i].name = f[i].name

\* ... and with the same fields, which is all that an import compares
SameFields(f, g) ==
    \A i \in DOMAIN f : i \in DOMAIN g /\ Fields[g[i].name] = Fields[f[i].name]

\* ids of runs among these events name some that came from the file
RunsFromFile(runs, events) ==
    \A r \in DOMAIN runs : \A i \in runs[r] \cap DOMAIN events :
        Fields[events[i].name] \in FileFields

AllClosed == \A l \in landed : IsClosed(l[2])

\* what a bundle carries of an id it carries with its event
BundlesHold ==
    \A b \in bundles :
        /\ EventsTyped(b.events)
        /\ \A k \in DOMAIN b.cands : /\ b.cands[k].event \in DOMAIN b.events
                                     /\ Fields[b.events[b.cands[k].event].name] = Fields[k]
        /\ AllClosed => RunsFromFile(b.runs, b.events)

\* the target has the events that a plan does not insert, and they are the same
Planned(p) ==
    /\ p.bundle \in bundles
    /\ SameFields(Only(p.bundle.events, DOMAIN p.bundle.events \ p.insert), store[p.site].events)

\* what a call in progress holds
CallHolds(p) ==
    /\ p.at # "idle" => p.site \in Sites
    /\ p.at \in {"register", "insert", "commit"} => p.parsed \in Texts
    /\ p.at = "commit" =>
         /\ p = [at |-> "commit", site |-> p.site, parsed |-> p.parsed, run |-> p.run,
                 ids |-> p.ids]
         /\ \A i \in p.ids : /\ i \in DOMAIN store[p.site].events
                             /\ Fields[store[p.site].events[i].name] \in FileFields
    /\ p.at = "check" => p = [at |-> "check", site |-> p.site, cand |-> p.cand,
                              event |-> p.event]
    /\ p.at \in {"check", "mark"} => /\ p.event \in DOMAIN store[p.site].events
                                     /\ store[p.site].events[p.event].name = p.cand
    /\ p.at \in {"docs", "runs", "candidates"} =>
         EventsTyped(p.events) /\ SameNames(p.events, store[p.site].events)
    /\ p.at = "candidates" => (AllClosed => RunsFromFile(p.runs, p.events))
    /\ p.at = "plan" => /\ p.bundle \in bundles
                        /\ DOMAIN p.bundle.events \ p.insert \subseteq DOMAIN store[p.site].events
                        /\ ~p.refused => Planned(p)
    /\ p.at = "write" => /\ Planned(p)
                         /\ DOMAIN p.bundle.docs \ p.newDocs \subseteq DOMAIN store[p.site].docs
                         /\ DOMAIN p.bundle.runs \ p.newRuns \subseteq DOMAIN store[p.site].runs
                         /\ DOMAIN p.bundle.cands \ p.newCands \subseteq DOMAIN store[p.site].cands

BundleShapes ==
    /\ writers \subseteq Callers
    /\ call = [c \in Callers |-> call[c]]
    /\ store = [s \in Sites |-> store[s]]
    /\ \A s \in Sites : SiteTyped(store[s])
    /\ landed \subseteq Sites \X bundles

BundleInv ==
    /\ BundleShapes
    /\ \A s \in Sites : CandidatesNamed(store[s], From(s))
    /\ AllClosed => \A s \in Sites : RunsNamed(store[s])
    /\ BundlesHold
    /\ \A c \in Callers : CallHolds(call[c])
    /\ ImportsStayWhole

-----------------------------------------------------------------------------
(* One database *)

Grown(t, u) ==
    /\ SameNames(t.events, u.events)
    /\ DOMAIN t.docs \subseteq DOMAIN u.docs
    /\ DOMAIN t.runs \subseteq DOMAIN u.runs
    /\ DOMAIN t.cands \subseteq DOMAIN u.cands

\* A new id is larger than those there are.
LEMMA NextIdIsNew ==
    ASSUME NEW s \in Sites, SiteTyped(store[s])
    PROVE  NextId(s) \in Nat \ {0} /\ NextId(s) \notin DOMAIN store[s].events
<1> DEFINE D == DOMAIN store[s].events
<1>1. PICK n \in Nat : D \subseteq 1..n
  BY DEF SiteTyped, EventsTyped
<1>2. CASE D = {}
  BY <1>2 DEF NextId
<1>3. CASE D # {}
  <2>2. LastOf(D) \in D /\ \A j \in D : j <= LastOf(D)
    BY <1>1, <1>3, GreatestOf
  <2>3. NextId(s) = LastOf(D) + 1
    BY <1>3 DEF NextId
  <2> QED
    BY <1>1, <2>2, <2>3
<1> QED
  BY <1>2, <1>3

\* one more event
WithEvent(t, n, name, status) ==
    [t EXCEPT !.events = WithRow(t.events, n, [name |-> name, status |-> status])]

LEMMA EventAdded ==
    ASSUME NEW t, SiteTyped(t), NEW from, NEW n \in Nat \ {0},
           n \notin DOMAIN t.events, NEW name, NEW status,
           NEW u, u = WithEvent(t, n, name, status)
    PROVE  /\ SiteTyped(u) /\ Grown(t, u)
           /\ n \in DOMAIN u.events /\ u.events[n].name = name
           /\ CandidatesNamed(t, from) => CandidatesNamed(u, from)
           /\ RunsNamed(t) => RunsNamed(u)
<1>1. u = [events |-> u.events, docs |-> t.docs, runs |-> t.runs, cands |-> t.cands]
  BY DEF SiteTyped, EventsTyped, WithEvent
<1>2. /\ DOMAIN u.events = DOMAIN t.events \cup {n}
      /\ u.events[n] = [name |-> name, status |-> status]
      /\ \A i \in DOMAIN t.events : u.events[i] = t.events[i]
  BY DEF SiteTyped, EventsTyped, WithRow, WithEvent
<1>3. \E m \in Nat : DOMAIN u.events \subseteq 1..m
  <2>1. PICK m \in Nat : DOMAIN t.events \subseteq 1..m
    BY DEF SiteTyped, EventsTyped
  <2>2. DOMAIN u.events \subseteq 1..(m + n)
    BY <1>2, <2>1
  <2> QED
    BY <2>2
<1>4. SiteTyped(u)
  BY <1>1, <1>2, <1>3 DEF SiteTyped, EventsTyped
<1>5. Grown(t, u)
  BY <1>1, <1>2 DEF Grown, SameNames
<1>6. CandidatesNamed(t, from) => CandidatesNamed(u, from)
  BY <1>1, <1>2 DEF CandidatesNamed
<1>7. RunsNamed(t) => RunsNamed(u)
  BY <1>1, <1>2 DEF RunsNamed
<1> QED
  BY <1>2, <1>4, <1>5, <1>6, <1>7

LEMMA EventReviewed ==
    ASSUME NEW t, SiteTyped(t), NEW from, NEW n \in DOMAIN t.events,
           NEW u, u = [t EXCEPT !.events[n].status = "active"]
    PROVE  /\ SiteTyped(u) /\ Grown(t, u)
           /\ CandidatesNamed(t, from) => CandidatesNamed(u, from)
           /\ RunsNamed(t) => RunsNamed(u)
<1>1. u = [events |-> u.events, docs |-> t.docs, runs |-> t.runs, cands |-> t.cands]
  BY DEF SiteTyped, EventsTyped
<1>2. /\ DOMAIN u.events = DOMAIN t.events
      /\ \A i \in DOMAIN t.events : /\ u.events[i].name = t.events[i].name
                                    /\ u.events[i] = [name |-> u.events[i].name,
                                                      status |-> u.events[i].status]
  BY DEF SiteTyped, EventsTyped
<1>4. SiteTyped(u)
  BY <1>1, <1>2 DEF SiteTyped, EventsTyped
<1>5. Grown(t, u)
  BY <1>1, <1>2 DEF Grown, SameNames
<1>6. CandidatesNamed(t, from) => CandidatesNamed(u, from)
  BY <1>1, <1>2 DEF CandidatesNamed
<1>7. RunsNamed(t) => RunsNamed(u)
  BY <1>1, <1>2 DEF RunsNamed
<1> QED
  BY <1>4, <1>5, <1>6, <1>7

\* Steps that leave the events alone
LEMMA OthersChanged ==
    ASSUME NEW t, SiteTyped(t), NEW u,
           u = [events |-> t.events, docs |-> u.docs, runs |-> u.runs, cands |-> u.cands]
    PROVE  SiteTyped(u)
  BY DEF SiteTyped, EventsTyped

LEMMA DocsChanged ==
    ASSUME NEW t, SiteTyped(t), NEW from, NEW docs, DOMAIN t.docs \subseteq DOMAIN docs,
           NEW u, u = [t EXCEPT !.docs = docs]
    PROVE  /\ SiteTyped(u) /\ Grown(t, u)
           /\ CandidatesNamed(t, from) => CandidatesNamed(u, from)
           /\ RunsNamed(t) => RunsNamed(u)
<1>1. u = [events |-> t.events, docs |-> docs, runs |-> t.runs, cands |-> t.cands]
  BY DEF SiteTyped, EventsTyped
<1> QED
  BY <1>1 DEF SiteTyped, EventsTyped, Grown, SameNames, CandidatesNamed, RunsNamed

LEMMA RunAdded ==
    ASSUME NEW t, SiteTyped(t), NEW from, NEW r, NEW ids,
           NEW u, u = [t EXCEPT !.runs = WithRow(t.runs, r, ids)]
    PROVE  /\ SiteTyped(u) /\ Grown(t, u)
           /\ CandidatesNamed(t, from) => CandidatesNamed(u, from)
           /\ RunsNamed(t) /\ (\A i \in ids : /\ i \in DOMAIN t.events
                                             /\ Fields[t.events[i].name] \in FileFields)
                => RunsNamed(u)
<1>1. u = [events |-> t.events, docs |-> t.docs, runs |-> u.runs, cands |-> t.cands]
  BY DEF SiteTyped, EventsTyped
<1>2. /\ DOMAIN u.runs = DOMAIN t.runs \cup {r}
      /\ u.runs[r] = ids /\ \A x \in DOMAIN t.runs : x # r => u.runs[x] = t.runs[x]
  BY DEF SiteTyped, EventsTyped, WithRow
<1>3. SiteTyped(u)
  BY <1>1 DEF SiteTyped, EventsTyped
<1>4. Grown(t, u)
  BY <1>1, <1>2 DEF Grown, SameNames
<1>5. CandidatesNamed(t, from) => CandidatesNamed(u, from)
  BY <1>1 DEF CandidatesNamed
<1>6. RunsNamed(t) /\ (\A i \in ids : /\ i \in DOMAIN t.events
                                      /\ Fields[t.events[i].name] \in FileFields)
        => RunsNamed(u)
  BY <1>1, <1>2 DEF RunsNamed
<1> QED
  BY <1>3, <1>4, <1>5, <1>6

LEMMA CandidatesChanged ==
    ASSUME NEW t, SiteTyped(t), NEW from, NEW cands, DOMAIN t.cands \subseteq DOMAIN cands,
           \A k \in DOMAIN cands :
              \/ k \in DOMAIN t.cands /\ cands[k] = t.cands[k]
              \/ cands[k].status = "promoted" => /\ cands[k].event \in DOMAIN t.events
                                                 /\ t.events[cands[k].event].name = k,
           NEW u, u = [t EXCEPT !.cands = cands]
    PROVE  /\ SiteTyped(u) /\ Grown(t, u)
           /\ CandidatesNamed(t, from) => CandidatesNamed(u, from)
           /\ RunsNamed(t) => RunsNamed(u)
<1>1. u = [events |-> t.events, docs |-> t.docs, runs |-> t.runs, cands |-> cands]
  BY DEF SiteTyped, EventsTyped
<1>2. SiteTyped(u) /\ Grown(t, u)
  BY <1>1 DEF SiteTyped, EventsTyped, Grown, SameNames
<1>3. CandidatesNamed(t, from) => CandidatesNamed(u, from)
  BY <1>1 DEF CandidatesNamed
<1>4. RunsNamed(t) => RunsNamed(u)
  BY <1>1 DEF RunsNamed
<1> QED
  BY <1>2, <1>3, <1>4

-----------------------------------------------------------------------------
(* All of them *)

SitesGrow ==
    /\ store' = [s \in Sites |-> store'[s]]
    /\ \A s \in Sites : SiteTyped(store'[s]) /\ Grown(store[s], store'[s])

LEMMA OneSiteGrows ==
    ASSUME BundleShapes, NEW s \in Sites, NEW u, SiteTyped(u), Grown(store[s], u),
           store' = [store EXCEPT ![s] = u]
    PROVE  SitesGrow /\ store'[s] = u /\ \A x \in Sites : x # s => store'[x] = store[x]
  BY DEF BundleShapes, SitesGrow, Grown, SameNames

LEMMA NoSiteChanges ==
    ASSUME BundleShapes, UNCHANGED store
    PROVE  SitesGrow
  BY DEF BundleShapes, SitesGrow, Grown, SameNames

\* What a call holds stays true.
LEMMA CallKept ==
    ASSUME SitesGrow, bundles \subseteq bundles', landed \subseteq landed', NEW p, CallHolds(p)
    PROVE  CallHolds(p)'
<1>1. AllClosed' => AllClosed
  BY DEF AllClosed
<1>2. ASSUME p.at # "idle"
      PROVE  /\ p.site \in Sites /\ Grown(store[p.site], store'[p.site])
  BY <1>2 DEF CallHolds, SitesGrow
<1>3. ASSUME NEW f, p.at # "idle", SameNames(f, store[p.site].events)
      PROVE  SameNames(f, store[p.site].events)'
  BY <1>2, <1>3 DEF SameNames, Grown
<1>14. ASSUME NEW f, p.at # "idle", SameFields(f, store[p.site].events)
       PROVE  SameFields(f, store[p.site].events)'
  BY <1>2, <1>14 DEF SameFields, SameNames, Grown
<1>4. p.at \in {"register", "insert", "commit"} => p.parsed \in Texts
  BY DEF CallHolds
<1>5. p.at = "commit" =>
         /\ p = [at |-> "commit", site |-> p.site, parsed |-> p.parsed, run |-> p.run,
                 ids |-> p.ids]
         /\ \A i \in p.ids : /\ i \in DOMAIN store'[p.site].events
                             /\ Fields[store'[p.site].events[i].name] \in FileFields
  BY <1>2 DEF CallHolds, Grown, SameNames
<1>6. p.at = "check" => p = [at |-> "check", site |-> p.site, cand |-> p.cand,
                              event |-> p.event]
  BY DEF CallHolds
<1>7. p.at \in {"check", "mark"} => /\ p.event \in DOMAIN store'[p.site].events
                                     /\ store'[p.site].events[p.event].name = p.cand
  BY <1>2 DEF CallHolds, Grown, SameNames
<1>8. p.at \in {"docs", "runs", "candidates"} =>
         EventsTyped(p.events) /\ SameNames(p.events, store'[p.site].events)
  BY <1>3 DEF CallHolds
<1>9. p.at = "candidates" => (AllClosed' => RunsFromFile(p.runs, p.events))
  BY <1>1 DEF CallHolds
<1>10. p.at # "idle" => p.site \in Sites
  BY DEF CallHolds
<1>11. p.at # "idle" /\ Planned(p) => Planned(p)'
  BY <1>14 DEF Planned
<1>12. p.at = "plan" => /\ p.bundle \in bundles'
                        /\ DOMAIN p.bundle.events \ p.insert \subseteq DOMAIN store'[p.site].events
                        /\ ~p.refused => Planned(p)'
  BY <1>2, <1>11 DEF CallHolds, Grown, SameNames
<1>13. p.at = "write" => /\ Planned(p)'
                         /\ DOMAIN p.bundle.docs \ p.newDocs \subseteq DOMAIN store'[p.site].docs
                         /\ DOMAIN p.bundle.runs \ p.newRuns \subseteq DOMAIN store'[p.site].runs
                         /\ DOMAIN p.bundle.cands \ p.newCands \subseteq DOMAIN store'[p.site].cands
  BY <1>2, <1>11 DEF CallHolds, Grown
<1> QED
  BY <1>4, <1>5, <1>6, <1>7, <1>8, <1>9, <1>10, <1>12, <1>13 DEF CallHolds

\* an import that has landed
Whole(l) ==
    /\ NewEvents(store[l[1]], l[2]) = {} /\ EventCollisions(store[l[1]], l[2]) = {}
    /\ DOMAIN l[2].docs \subseteq DOMAIN store[l[1]].docs
    /\ DOMAIN l[2].runs \subseteq DOMAIN store[l[1]].runs
    /\ DOMAIN l[2].cands \subseteq DOMAIN store[l[1]].cands

LEMMA WholeIs == ImportsStayWhole <=> \A l \in landed : Whole(l)
  BY DEF ImportsStayWhole, Whole

LEMMA WholeMeans ==
    ASSUME NEW l
    PROVE  /\ NewEvents(store[l[1]], l[2]) = {} /\ EventCollisions(store[l[1]], l[2]) = {}
             <=> SameFields(l[2].events, store[l[1]].events)
  BY DEF NewEvents, EventCollisions, SameFields

LEMMA WholeKept ==
    ASSUME SitesGrow, NEW l, l[1] \in Sites, Whole(l)
    PROVE  Whole(l)'
<1>1. Grown(store[l[1]], store'[l[1]])
  BY DEF SitesGrow
<1>2. SameFields(l[2].events, store[l[1]].events)
  BY WholeMeans DEF Whole
<1>3. SameFields(l[2].events, store'[l[1]].events)
  BY <1>1, <1>2 DEF Grown, SameNames, SameFields
<1>4. (NewEvents(store[l[1]], l[2]) = {} /\ EventCollisions(store[l[1]], l[2]) = {})'
  BY <1>3 DEF NewEvents, EventCollisions, SameFields
<1> QED
  BY <1>1, <1>4 DEF Whole, Grown

\* Every step is one of a caller, whose call it replaces.
LEMMA StepKeeps ==
    ASSUME BundleInv, UNCHANGED writers, NEW c \in writers, NEW q, SitesGrow,
           call' = [call EXCEPT ![c] = q], CallHolds(q)',
           bundles \subseteq bundles', landed \subseteq landed',
           landed' \subseteq Sites \X bundles', \A l \in landed' \ landed : Whole(l)',
           \A s \in Sites : CandidatesNamed(store'[s], From(s)'),
           AllClosed' => \A s \in Sites : RunsNamed(store'[s]), BundlesHold'
    PROVE  BundleInv'
<1>1. BundleShapes'
  BY DEF BundleInv, BundleShapes, SitesGrow
<1>2. \A d \in Callers : CallHolds(call[d])'
  <2> TAKE d \in Callers
  <2>1. CASE d = c
    <3>1. call'[d] = q
      BY <2>1 DEF BundleInv, BundleShapes
    <3> QED
      BY <3>1 DEF CallHolds, Planned
  <2>2. CASE d # c
    <3>1. call'[d] = call[d]
      BY <2>2 DEF BundleInv, BundleShapes
    <3>2. PICK p : p = call[d]
      OBVIOUS
    <3>3. CallHolds(p)
      BY <3>2 DEF BundleInv
    <3>4. CallHolds(p)'
      BY <3>3, CallKept
    <3> QED
      BY <3>1, <3>2, <3>4 DEF CallHolds, Planned
  <2> QED
    BY <2>1, <2>2
<1>3. ImportsStayWhole'
  <2>1. ASSUME NEW l \in landed PROVE Whole(l)'
    BY WholeIs, WholeKept DEF BundleInv, BundleShapes
  <2>2. (\A l \in landed : Whole(l))'
    BY <2>1
  <2> QED
    BY <2>2 DEF Whole, ImportsStayWhole
<1>4. \A s \in Sites : CandidatesNamed(store[s], From(s))'
  BY DEF CandidatesNamed
<1> QED
  BY <1>1, <1>2, <1>3, <1>4 DEF BundleInv

-----------------------------------------------------------------------------
(* Steps of one site *)
SiteStep == UNCHANGED <<writers, bundles, landed>>

LEMMA LocalKeeps ==
    ASSUME BundleInv, SiteStep, NEW c \in writers, NEW q, call' = [call EXCEPT ![c] = q],
           SitesGrow, CallHolds(q)',
           \A s \in Sites : CandidatesNamed(store'[s], From(s)'),
           AllClosed => \A s \in Sites : RunsNamed(store'[s])
    PROVE  BundleInv'
<1>1. BundlesHold'
  BY DEF BundleInv, BundlesHold, AllClosed, SiteStep
<1>2. landed' \subseteq Sites \X bundles' /\ (AllClosed' => AllClosed)
  BY DEF BundleInv, BundleShapes, SiteStep, AllClosed
<1> QED
  BY <1>1, <1>2, StepKeeps DEF SiteStep

LEMMA ReadKeeps ==
    ASSUME BundleInv, SiteStep, UNCHANGED store, NEW c \in writers, NEW q,
           call' = [call EXCEPT ![c] = q], CallHolds(q)'
    PROVE  BundleInv'
<1>1. SitesGrow
  BY NoSiteChanges DEF BundleInv
<1>2. /\ \A s \in Sites : CandidatesNamed(store'[s], From(s)')
      /\ AllClosed => \A s \in Sites : RunsNamed(store'[s])
  BY DEF BundleInv, SiteStep, From
<1> QED
  BY <1>1, <1>2, LocalKeeps

LEMMA IdleHolds == CallHolds(Idle)
  BY DEF CallHolds, Idle

LEMMA IdleHoldsNext == CallHolds(Idle)'
  BY DEF CallHolds, Idle

\* one site's step, from what it does to the database
LEMMA SiteKeeps ==
    ASSUME BundleInv, SiteStep, NEW c \in writers, NEW q, call' = [call EXCEPT ![c] = q],
           NEW s \in Sites, NEW u, store' = [store EXCEPT ![s] = u],
           SiteTyped(u), Grown(store[s], u),
           CandidatesNamed(store[s], From(s)) => CandidatesNamed(u, From(s)),
           AllClosed /\ RunsNamed(store[s]) => RunsNamed(u), CallHolds(q)'
    PROVE  BundleInv'
<1>1. SitesGrow /\ store'[s] = u /\ \A x \in Sites : x # s => store'[x] = store[x]
  BY OneSiteGrows DEF BundleInv
<1>2. \A x \in Sites : CandidatesNamed(store'[x], From(x)')
  BY <1>1 DEF BundleInv, SiteStep, From
<1>3. AllClosed => \A x \in Sites : RunsNamed(store'[x])
  BY <1>1 DEF BundleInv
<1> QED
  BY <1>1, <1>2, <1>3, LocalKeeps

\* a caller that is between two calls stays so
LEMMA SameCall ==
    ASSUME BundleInv, NEW c \in writers, UNCHANGED call
    PROVE  call' = [call EXCEPT ![c] = call[c]]
  BY DEF BundleInv, BundleShapes

\* an INSERT into memory_events
LEMMA InsertEventIs ==
    ASSUME BundleInv, NEW s \in Sites, NEW name, NEW status,
           InsertEvent(s, [name |-> name, status |-> status])
    PROVE  \E u : /\ store' = [store EXCEPT ![s] = u]
                  /\ SiteTyped(u) /\ Grown(store[s], u)
                  /\ NextId(s) \in DOMAIN u.events /\ u.events[NextId(s)].name = name
                  /\ CandidatesNamed(store[s], From(s)) => CandidatesNamed(u, From(s))
                  /\ RunsNamed(store[s]) => RunsNamed(u)
<1>1. PICK n, t : n = NextId(s) /\ t = store[s]
  OBVIOUS
<1>2. PICK u : u = WithEvent(t, n, name, status)
  OBVIOUS
<1>3. SiteTyped(t)
  BY <1>1 DEF BundleInv, BundleShapes
<1>4. n \in Nat \ {0} /\ n \notin DOMAIN t.events
  BY <1>1, <1>3, NextIdIsNew
<1>5. store' = [store EXCEPT ![s] = u]
  BY <1>1, <1>2 DEF InsertEvent, Write, WithEvent
<1>6. /\ SiteTyped(u) /\ Grown(t, u)
      /\ n \in DOMAIN u.events /\ u.events[n].name = name
      /\ CandidatesNamed(t, From(s)) => CandidatesNamed(u, From(s))
      /\ RunsNamed(t) => RunsNamed(u)
  BY <1>2, <1>3, <1>4, EventAdded
<1>7. /\ Grown(store[s], u) /\ NextId(s) \in DOMAIN u.events /\ u.events[NextId(s)].name = name
      /\ CandidatesNamed(store[s], From(s)) => CandidatesNamed(u, From(s))
      /\ RunsNamed(store[s]) => RunsNamed(u)
  BY <1>1, <1>6
<1> QED
  BY <1>5, <1>6, <1>7

LEMMA AddEventKeeps ==
    ASSUME BundleInv, SiteStep, NEW c \in writers, NEW s \in Sites, NEW name, NEW status,
           AddEventAt(c, s, [name |-> name, status |-> status])
    PROVE  BundleInv'
<1>1. PICK u : /\ store' = [store EXCEPT ![s] = u]
               /\ SiteTyped(u) /\ Grown(store[s], u)
               /\ CandidatesNamed(store[s], From(s)) => CandidatesNamed(u, From(s))
               /\ RunsNamed(store[s]) => RunsNamed(u)
  BY InsertEventIs DEF AddEventAt
<1>2. call' = [call EXCEPT ![c] = Idle]
  BY SameCall DEF AddEventAt
<1> QED
  BY <1>1, <1>2, IdleHoldsNext, SiteKeeps

LEMMA ReviewKeeps ==
    ASSUME BundleInv, SiteStep, NEW c \in writers, NEW s \in Sites,
           NEW i \in DOMAIN store[s].events, ReviewAt(c, s, i)
    PROVE  BundleInv'
<1> DEFINE t == store[s]
           u == [t EXCEPT !.events[i].status = "active"]
<1>1. SiteTyped(t)
  BY DEF BundleInv, BundleShapes
<1>2. store' = [store EXCEPT ![s] = u]
  BY DEF ReviewAt
<1>3. /\ SiteTyped(u) /\ Grown(t, u)
      /\ CandidatesNamed(t, From(s)) => CandidatesNamed(u, From(s))
      /\ RunsNamed(t) => RunsNamed(u)
  <2> HIDE DEF t
  <2> QED
    BY <1>1, EventReviewed DEF t
<1>4. call' = [call EXCEPT ![c] = Idle]
  BY SameCall DEF ReviewAt
<1> HIDE DEF u
<1> QED
  BY <1>2, <1>3, <1>4, IdleHoldsNext, SiteKeeps DEF t

\* ingest-file
LEMMA StartIngestKeeps ==
    ASSUME BundleInv, SiteStep, UNCHANGED store, NEW c \in writers,
           NEW s \in Sites, NEW x \in Texts, NEW t, StartIngest(c, s, x, t)
    PROVE  BundleInv'
<1>1. PICK q : q = [at |-> "register", site |-> s, parsed |-> x, second |-> t]
  OBVIOUS
<1>2. CallHolds(q)'
  BY <1>1 DEF CallHolds
<1> QED
  BY <1>1, <1>2, ReadKeeps DEF StartIngest, Begin

\* what the rest of ingest-file works on
LEMMA AfterRegisterIs ==
    ASSUME NEW c, NEW y, NEW p, p = call[c], p.at # "idle", CallHolds(p), p.parsed \in Texts,
           AfterRegister(c, y)
    PROVE  \E q : call' = [call EXCEPT ![c] = q] /\ CallHolds(q)'
<1>1. PICK q : q = [at |-> "commit", site |-> p.site, parsed |-> p.parsed,
                    run |-> <<y, p.second>>, ids |-> {}]
  OBVIOUS
<1>2. CallHolds(q)'
  BY <1>1 DEF CallHolds
<1> QED
  BY <1>1, <1>2 DEF AfterRegister, Continue

LEMMA ReadRegistryKeeps ==
    ASSUME BundleInv, SiteStep, NEW c \in writers, NEW y, ReadRegistry(c, y)
    PROVE  BundleInv'
<1>1. PICK p : p = call[c]
  OBVIOUS
<1>2. CallHolds(p) /\ p.at = "register" /\ p.site \in Sites /\ p.parsed \in Texts
  BY <1>1 DEF BundleInv, BundleShapes, ReadRegistry, Resume, CallHolds
<1>3. UNCHANGED store
  BY DEF ReadRegistry
<1>4. CASE AfterRegister(c, y)
  BY <1>1, <1>2, <1>3, <1>4, AfterRegisterIs, ReadKeeps
<1>5. CASE Continue(c, [at |-> "insert", site |-> call[c].site, parsed |-> call[c].parsed,
                        second |-> call[c].second, hashed |-> y,
                        active |-> ActiveContents(store[call[c].site].docs)])
  <2>1. PICK a : a = ActiveContents(store[call[c].site].docs)
    OBVIOUS
  <2>2. PICK q : q = [at |-> "insert", site |-> p.site, parsed |-> p.parsed,
                      second |-> p.second, hashed |-> y, active |-> a]
    OBVIOUS
  <2>3. CallHolds(q)'
    BY <1>2, <2>2 DEF CallHolds
  <2>4. call' = [call EXCEPT ![c] = q]
    BY <1>1, <1>5, <2>1, <2>2 DEF Continue
  <2> QED
    BY <1>3, <2>3, <2>4, ReadKeeps
<1> QED
  BY <1>4, <1>5 DEF ReadRegistry

LEMMA InsertVersionKeeps ==
    ASSUME BundleInv, SiteStep, NEW c \in writers, InsertVersion(c)
    PROVE  BundleInv'
<1>1. PICK p, t : p = call[c] /\ t = store[call[c].site]
  OBVIOUS
<1>2. CallHolds(p) /\ p.at = "insert" /\ p.site \in Sites /\ p.parsed \in Texts
  BY <1>1 DEF BundleInv, BundleShapes, InsertVersion, Resume, CallHolds
<1>3. t = store[p.site] /\ SiteTyped(t)
  BY <1>1, <1>2 DEF BundleInv, BundleShapes
<1>4. CASE Return(c) /\ UNCHANGED store
  BY <1>4, IdleHoldsNext, ReadKeeps DEF Return
<1>5. CASE Write(p.site, "docs", WithRow(SupersedeDocs(t.docs, p.active), p.hashed,
                   [version |-> NextVersion(t.docs, p.active), status |-> "active"]))
             /\ AfterRegister(c, p.hashed)
  <2>1. PICK docs : docs = WithRow(SupersedeDocs(t.docs, p.active), p.hashed,
                   [version |-> NextVersion(t.docs, p.active), status |-> "active"])
    OBVIOUS
  <2>2. DOMAIN t.docs \subseteq DOMAIN docs
    BY <2>1 DEF WithRow, SupersedeDocs
  <2>3. PICK u : u = [t EXCEPT !.docs = docs]
    OBVIOUS
  <2>4. /\ SiteTyped(u) /\ Grown(t, u)
        /\ CandidatesNamed(t, From(p.site)) => CandidatesNamed(u, From(p.site))
        /\ RunsNamed(t) => RunsNamed(u)
    BY <1>3, <2>2, <2>3, DocsChanged
  <2>5. store' = [store EXCEPT ![p.site] = u]
    BY <1>3, <1>5, <2>1, <2>3 DEF Write
  <2>6. PICK q : call' = [call EXCEPT ![c] = q] /\ CallHolds(q)'
    BY <1>1, <1>2, <1>5, AfterRegisterIs
  <2> QED
    BY <1>2, <1>3, <2>4, <2>5, <2>6, SiteKeeps
<1> QED
  BY <1>1, <1>4, <1>5 DEF InsertVersion

LEMMA CommitChunkKeeps ==
    ASSUME BundleInv, SiteStep, NEW c \in writers, CommitChunk(c)
    PROVE  BundleInv'
<1>1. PICK p, n : p = call[c] /\ n = NextId(p.site)
  OBVIOUS
<1>2. CallHolds(p) /\ p.at = "commit" /\ p.site \in Sites /\ p.parsed \in Texts
  BY <1>1 DEF BundleInv, BundleShapes, CommitChunk, Resume, CallHolds
<1>3. InsertEvent(p.site, [name |-> p.parsed, status |-> "unresolved"])
  BY <1>1 DEF CommitChunk
<1>4. PICK u : /\ store' = [store EXCEPT ![p.site] = u]
               /\ SiteTyped(u) /\ Grown(store[p.site], u)
               /\ n \in DOMAIN u.events /\ u.events[n].name = p.parsed
               /\ CandidatesNamed(store[p.site], From(p.site)) => CandidatesNamed(u, From(p.site))
               /\ RunsNamed(store[p.site]) => RunsNamed(u)
  BY <1>1, <1>2, <1>3, InsertEventIs
<1>5. PICK q : q = [p EXCEPT !.ids = @ \cup {n}]
  OBVIOUS
<1>6. call' = [call EXCEPT ![c] = q]
  BY <1>1, <1>5 DEF CommitChunk, Continue
<1>7. store'[p.site] = u
  BY <1>2, <1>4, OneSiteGrows DEF BundleInv
<1>8. p = [at |-> "commit", site |-> p.site, parsed |-> p.parsed, run |-> p.run, ids |-> p.ids]
      /\ \A i \in p.ids : i \in DOMAIN u.events /\ Fields[u.events[i].name] \in FileFields
  BY <1>2, <1>4 DEF CallHolds, Grown, SameNames
<1>9. /\ q = [at |-> "commit", site |-> p.site, parsed |-> p.parsed, run |-> p.run, ids |-> q.ids]
      /\ q.ids = p.ids \cup {n}
  <2>1. p = [at |-> "commit", site |-> p.site, parsed |-> p.parsed, run |-> p.run, ids |-> p.ids]
    BY <1>8
  <2> QED
    BY <1>5, <2>1
<1>10. /\ q.at = "commit" /\ q.site = p.site /\ q.parsed = p.parsed
       /\ q = [at |-> "commit", site |-> q.site, parsed |-> q.parsed, run |-> q.run, ids |-> q.ids]
       /\ \A i \in q.ids : i \in DOMAIN store'[q.site].events
                            /\ Fields[store'[q.site].events[i].name] \in FileFields
  BY <1>2, <1>4, <1>7, <1>8, <1>9 DEF FileFields
<1>11. CallHolds(q)'
  BY <1>2, <1>10 DEF CallHolds
<1> QED
  BY <1>2, <1>4, <1>6, <1>11, SiteKeeps

LEMMA RecordIngestionKeeps ==
    ASSUME BundleInv, SiteStep, NEW c \in writers, RecordIngestion(c)
    PROVE  BundleInv'
<1>1. PICK p, t : p = call[c] /\ t = store[call[c].site]
  OBVIOUS
<1>2. CallHolds(p) /\ p.at = "commit" /\ p.site \in Sites
  BY <1>1 DEF BundleInv, BundleShapes, RecordIngestion, Resume, CallHolds
<1>3. t = store[p.site] /\ SiteTyped(t)
  BY <1>1, <1>2 DEF BundleInv, BundleShapes
<1>4. PICK ids \in {p.ids, {}} : Write(p.site, "runs", WithRow(t.runs, p.run, ids))
  BY <1>1 DEF RecordIngestion
<1>5. \A i \in ids : i \in DOMAIN t.events /\ Fields[t.events[i].name] \in FileFields
  BY <1>2, <1>3, <1>4 DEF CallHolds
<1>6. PICK u : u = [t EXCEPT !.runs = WithRow(t.runs, p.run, ids)]
  OBVIOUS
<1>7. /\ SiteTyped(u) /\ Grown(t, u)
      /\ CandidatesNamed(t, From(p.site)) => CandidatesNamed(u, From(p.site))
      /\ RunsNamed(t) => RunsNamed(u)
  BY <1>3, <1>5, <1>6, RunAdded
<1>8. store' = [store EXCEPT ![p.site] = u] /\ call' = [call EXCEPT ![c] = Idle]
  BY <1>3, <1>4, <1>6 DEF Write, RecordIngestion, Return
<1> QED
  BY <1>2, <1>3, <1>7, <1>8, IdleHoldsNext, SiteKeeps

\* semantic candidates
LEMMA RecordCandidateKeeps ==
    ASSUME BundleInv, SiteStep, NEW c \in writers, NEW s \in Sites, NEW k,
           RecordCandidate(c, s, k)
    PROVE  BundleInv'
<1>1. PICK t : t = store[s]
  OBVIOUS
<1>2. SiteTyped(t)
  BY <1>1 DEF BundleInv, BundleShapes
<1>3. PICK cands : cands = WithRows(t.cands, [x \in {k} |-> Promotion("candidate", 0)])
  OBVIOUS
<1>4. /\ DOMAIN t.cands \subseteq DOMAIN cands
      /\ \A x \in DOMAIN cands : \/ x \in DOMAIN t.cands /\ cands[x] = t.cands[x]
                                 \/ cands[x].status # "promoted"
  BY <1>3 DEF WithRows, Promotion
<1>5. PICK u : u = [t EXCEPT !.cands = cands]
  OBVIOUS
<1>6. /\ SiteTyped(u) /\ Grown(t, u)
      /\ CandidatesNamed(t, From(s)) => CandidatesNamed(u, From(s))
      /\ RunsNamed(t) => RunsNamed(u)
  BY <1>2, <1>4, <1>5, CandidatesChanged
<1>7. store' = [store EXCEPT ![s] = u]
  BY <1>1, <1>3, <1>5 DEF RecordCandidate, Write
<1>8. call' = [call EXCEPT ![c] = Idle]
  BY SameCall DEF RecordCandidate
<1> QED
  BY <1>1, <1>6, <1>7, <1>8, IdleHoldsNext, SiteKeeps

LEMMA StartPromotionKeeps ==
    ASSUME BundleInv, SiteStep, NEW c \in writers, NEW s \in Sites, NEW k,
           StartPromotion(c, s, k)
    PROVE  BundleInv'
<1>1. PICK q : q = [at |-> "add", site |-> s, cand |-> k]
  OBVIOUS
<1>2. CallHolds(q)'
  BY <1>1 DEF CallHolds
<1> QED
  BY <1>1, <1>2, ReadKeeps DEF StartPromotion, Begin

LEMMA AddPromotedKeeps ==
    ASSUME BundleInv, SiteStep, NEW c \in writers, AddPromoted(c)
    PROVE  BundleInv'
<1>1. PICK p, n : p = call[c] /\ n = NextId(p.site)
  OBVIOUS
<1>2. p.at = "add" /\ p.site \in Sites
  BY <1>1 DEF BundleInv, BundleShapes, AddPromoted, Resume, CallHolds
<1>3. InsertEvent(p.site, [name |-> p.cand, status |-> "unresolved"])
  BY <1>1 DEF AddPromoted
<1>4. PICK u : /\ store' = [store EXCEPT ![p.site] = u]
               /\ SiteTyped(u) /\ Grown(store[p.site], u)
               /\ n \in DOMAIN u.events /\ u.events[n].name = p.cand
               /\ CandidatesNamed(store[p.site], From(p.site)) => CandidatesNamed(u, From(p.site))
               /\ RunsNamed(store[p.site]) => RunsNamed(u)
  BY <1>1, <1>2, <1>3, InsertEventIs
<1>5. PICK q : q = [at |-> "check", site |-> p.site, cand |-> p.cand, event |-> n]
  OBVIOUS
<1>6. call' = [call EXCEPT ![c] = q]
  BY <1>1, <1>5 DEF AddPromoted, Continue
<1>7. store'[p.site] = u
  BY <1>2, <1>4, OneSiteGrows DEF BundleInv
<1>8. CallHolds(q)'
  BY <1>2, <1>4, <1>5, <1>7 DEF CallHolds
<1> QED
  BY <1>2, <1>4, <1>6, <1>8, SiteKeeps

LEMMA CheckCandidateKeeps ==
    ASSUME BundleInv, SiteStep, NEW c \in writers, CheckCandidate(c)
    PROVE  BundleInv'
<1>1. PICK p : p = call[c]
  OBVIOUS
<1>2. CallHolds(p) /\ p.at = "check"
  BY <1>1 DEF BundleInv, BundleShapes, CheckCandidate, Resume
<1>3. CASE Return(c)
  BY <1>3, IdleHoldsNext, ReadKeeps DEF Return, CheckCandidate
<1>4. CASE Continue(c, [call[c] EXCEPT !.at = "mark"])
  <2>1. PICK q : q = [p EXCEPT !.at = "mark"]
    OBVIOUS
  <2>2. p = [at |-> "check", site |-> p.site, cand |-> p.cand, event |-> p.event]
    BY <1>2 DEF CallHolds
  <2>3. q.at = "mark" /\ q.site = p.site /\ q.cand = p.cand /\ q.event = p.event
    BY <2>1, <2>2
  <2>4. p.site \in Sites /\ p.event \in DOMAIN store[p.site].events
        /\ store[p.site].events[p.event].name = p.cand
    BY <1>2 DEF CallHolds
  <2>5. UNCHANGED store
    BY DEF CheckCandidate
  <2>6. CallHolds(q)'
    BY <2>3, <2>4, <2>5 DEF CallHolds
  <2> QED
    BY <1>1, <1>4, <2>1, <2>5, <2>6, ReadKeeps DEF Continue
<1> QED
  BY <1>3, <1>4 DEF CheckCandidate

LEMMA MarkPromotedKeeps ==
    ASSUME BundleInv, SiteStep, NEW c \in writers, MarkPromoted(c)
    PROVE  BundleInv'
<1>1. PICK p, t : p = call[c] /\ t = store[call[c].site]
  OBVIOUS
<1>2. CallHolds(p) /\ p.at = "mark" /\ p.site \in Sites
  BY <1>1 DEF BundleInv, BundleShapes, MarkPromoted, Resume, CallHolds
<1>3. t = store[p.site] /\ SiteTyped(t)
  BY <1>1, <1>2 DEF BundleInv, BundleShapes
<1>4. p.event \in DOMAIN t.events /\ t.events[p.event].name = p.cand
  BY <1>2, <1>3 DEF CallHolds
<1>5. PICK cands : cands = WithRow(t.cands, p.cand, Promotion("promoted", p.event))
  OBVIOUS
<1>6. /\ DOMAIN t.cands \subseteq DOMAIN cands
      /\ \A x \in DOMAIN cands : \/ x \in DOMAIN t.cands /\ cands[x] = t.cands[x]
                                 \/ x = p.cand /\ cands[x].event = p.event
  BY <1>5 DEF WithRow, Promotion
<1>7. PICK u : u = [t EXCEPT !.cands = cands]
  OBVIOUS
<1>8. /\ SiteTyped(u) /\ Grown(t, u)
      /\ CandidatesNamed(t, From(p.site)) => CandidatesNamed(u, From(p.site))
      /\ RunsNamed(t) => RunsNamed(u)
  BY <1>3, <1>4, <1>6, <1>7, CandidatesChanged
<1>9. store' = [store EXCEPT ![p.site] = u] /\ call' = [call EXCEPT ![c] = Idle]
  BY <1>1, <1>3, <1>5, <1>7 DEF MarkPromoted, Write, Return
<1> QED
  BY <1>2, <1>3, <1>8, <1>9, IdleHoldsNext, SiteKeeps

-----------------------------------------------------------------------------
(* Bundles *)
LEMMA StartExportKeeps ==
    ASSUME BundleInv, UNCHANGED writers, NEW c \in writers, NEW s \in Sites, NEW u,
           StartExport(c, s, u)
    PROVE  BundleInv'
<1>1. PICK events : events = Exported(store[s].events, u)
  OBVIOUS
<1>2. /\ DOMAIN events \subseteq DOMAIN store[s].events
      /\ \A i \in DOMAIN events : events[i] = store[s].events[i]
  BY <1>1 DEF Exported, Only
<1>3. EventsTyped(store[s].events)
  BY DEF BundleInv, BundleShapes, SiteTyped
<1>4. EventsTyped(events) /\ SameNames(events, store[s].events)
  BY <1>2, <1>3 DEF EventsTyped, SameNames
<1>5. PICK q : q = [at |-> "docs", site |-> s, events |-> events]
  OBVIOUS
<1>6. UNCHANGED <<store, bundles, landed>>
  BY DEF StartExport, continuityVars
<1>7. CallHolds(q)'
  BY <1>4, <1>5, <1>6 DEF CallHolds
<1> QED
  BY <1>1, <1>5, <1>6, <1>7, ReadKeeps DEF StartExport, Begin, SiteStep

LEMMA FetchDocumentsKeeps ==
    ASSUME BundleInv, UNCHANGED writers, NEW c \in writers, FetchDocuments(c)
    PROVE  BundleInv'
<1>1. PICK p : p = call[c]
  OBVIOUS
<1>2. CallHolds(p) /\ p.at = "docs"
  BY <1>1 DEF BundleInv, BundleShapes, FetchDocuments, Resume
<1>3. PICK docs : docs = IF \E i \in DOMAIN p.events : FromFile(p.events[i])
                         THEN store[p.site].docs ELSE <<>>
  OBVIOUS
<1>4. PICK q : q = [at |-> "runs", site |-> p.site, events |-> p.events, docs |-> docs]
  OBVIOUS
<1>5. UNCHANGED <<store, bundles, landed>>
  BY DEF FetchDocuments, continuityVars
<1>6. CallHolds(q)'
  BY <1>2, <1>4, <1>5 DEF CallHolds
<1>7. call' = [call EXCEPT ![c] = q]
  BY <1>1, <1>3, <1>4 DEF FetchDocuments, Continue
<1> QED
  BY <1>5, <1>6, <1>7, ReadKeeps DEF SiteStep

LEMMA FetchRunsKeeps ==
    ASSUME BundleInv, UNCHANGED writers, NEW c \in writers, FetchRuns(c)
    PROVE  BundleInv'
<1>1. PICK p : p = call[c]
  OBVIOUS
<1>2. CallHolds(p) /\ p.at = "runs" /\ p.site \in Sites
  BY <1>1 DEF BundleInv, BundleShapes, FetchRuns, Resume, CallHolds
<1>3. PICK all, runs : /\ all = store[p.site].runs
                       /\ runs = Only(all, {r \in DOMAIN all : r[1] \in DOMAIN p.docs})
  OBVIOUS
<1>4. /\ DOMAIN runs \subseteq DOMAIN all
      /\ \A r \in DOMAIN runs : runs[r] = all[r]
  BY <1>3 DEF Only
<1>5. AllClosed => RunsNamed(store[p.site])
  BY <1>2 DEF BundleInv
<1>6. AllClosed => RunsFromFile(runs, p.events)
  BY <1>2, <1>3, <1>4, <1>5 DEF RunsFromFile, RunsNamed, CallHolds, SameNames
<1>7. PICK q : q = [at |-> "candidates", site |-> p.site, events |-> p.events,
                    docs |-> p.docs, runs |-> runs]
  OBVIOUS
<1>8. UNCHANGED <<store, bundles, landed>>
  BY DEF FetchRuns, continuityVars
<1>9. AllClosed' => RunsFromFile(q.runs, q.events)
  BY <1>6, <1>7, <1>8 DEF AllClosed
<1>10. CallHolds(q)'
  BY <1>2, <1>7, <1>8, <1>9 DEF CallHolds
<1>11. call' = [call EXCEPT ![c] = q]
  BY <1>1, <1>3, <1>7 DEF FetchRuns, Continue
<1> QED
  BY <1>8, <1>10, <1>11, ReadKeeps DEF SiteStep

LEMMA FinishExportKeeps ==
    ASSUME BundleInv, UNCHANGED writers, NEW c \in writers, FinishExport(c)
    PROVE  BundleInv'
<1>1. PICK p : p = call[c]
  OBVIOUS
<1>2. CallHolds(p) /\ p.at = "candidates" /\ p.site \in Sites
  BY <1>1 DEF BundleInv, BundleShapes, FinishExport, Resume, CallHolds
<1>3. PICK all, cands : /\ all = store[p.site].cands
                        /\ cands = Only(all, PromotedAmong(p.site, p.events))
  OBVIOUS
<1>4. \A k \in DOMAIN cands : /\ k \in DOMAIN all /\ cands[k] = all[k]
                              /\ all[k].status = "promoted"
                              /\ all[k].event \in DOMAIN p.events
  BY <1>3 DEF PromotedAmong, Only
<1>5. \A k \in DOMAIN cands : /\ cands[k].event \in DOMAIN p.events
                              /\ Fields[p.events[cands[k].event].name] = Fields[k]
  <2> TAKE k \in DOMAIN cands
  <2>1. PICK e, name : e = cands[k].event /\ name = p.events[e].name
    OBVIOUS
  <2>2. /\ k \in DOMAIN store[p.site].cands /\ e = store[p.site].cands[k].event
        /\ store[p.site].cands[k].status = "promoted" /\ e \in DOMAIN p.events
    BY <1>3, <1>4, <2>1
  <2>3. name = store[p.site].events[e].name
    BY <1>2, <2>1, <2>2 DEF CallHolds, SameNames
  <2>4. CandidatesNamed(store[p.site], From(p.site))
    BY <1>2 DEF BundleInv
  <2>5. Fields[name] = Fields[k]
    BY <2>2, <2>3, <2>4 DEF CandidatesNamed
  <2> QED
    BY <2>1, <2>2, <2>5
<1>6. PICK b : b = [events |-> p.events, docs |-> p.docs, runs |-> p.runs, cands |-> cands]
  OBVIOUS
<1>7. bundles' = bundles \cup {b} /\ UNCHANGED <<store, landed>>
      /\ call' = [call EXCEPT ![c] = Idle]
  BY <1>1, <1>3, <1>6 DEF FinishExport, Return
<1>8. BundlesHold'
  <2>1. AllClosed' => AllClosed
    BY <1>7 DEF AllClosed
  <2>2. EventsTyped(b.events) /\ (AllClosed => RunsFromFile(b.runs, b.events))
    BY <1>2, <1>6 DEF CallHolds
  <2>3. \A k \in DOMAIN b.cands : /\ b.cands[k].event \in DOMAIN b.events
                                  /\ Fields[b.events[b.cands[k].event].name] = Fields[k]
    BY <1>5, <1>6
  <2> QED
    BY <1>7, <2>1, <2>2, <2>3 DEF BundleInv, BundlesHold
<1>9. SitesGrow /\ landed' \subseteq Sites \X bundles'
  BY <1>7, NoSiteChanges DEF BundleInv, BundleShapes
<1>10. /\ \A s \in Sites : CandidatesNamed(store'[s], From(s)')
       /\ AllClosed' => \A s \in Sites : RunsNamed(store'[s])
  BY <1>7 DEF BundleInv, AllClosed, From
<1> QED
  BY <1>7, <1>8, <1>9, <1>10, IdleHoldsNext, StepKeeps

LEMMA StartImportKeeps ==
    ASSUME BundleInv, UNCHANGED writers, NEW c \in writers, NEW s \in Sites,
           NEW b \in bundles, StartImport(c, s, b)
    PROVE  BundleInv'
<1>1. PICK t, new, refused : /\ t = store[s] /\ new = NewEvents(t, b)
                             /\ refused = (EventCollisions(t, b) # {})
  OBVIOUS
<1>2. PICK q : q = [at |-> "plan", site |-> s, bundle |-> b, insert |-> new,
                    refused |-> refused]
  OBVIOUS
<1>3. DOMAIN b.events \ new \subseteq DOMAIN t.events
  BY <1>1 DEF NewEvents
<1>4. ~refused => SameFields(Only(b.events, DOMAIN b.events \ new), t.events)
  BY <1>1, <1>3 DEF EventCollisions, SameFields, Only
<1>5. UNCHANGED <<store, bundles, landed>>
  BY DEF StartImport, continuityVars
<1>6. q.at = "plan" /\ q.site = s /\ q.bundle = b /\ q.insert = new /\ q.refused = refused
  BY <1>2
<1>7. CallHolds(q)'
  BY <1>1, <1>3, <1>4, <1>5, <1>6 DEF CallHolds, Planned
<1>8. call' = [call EXCEPT ![c] = q]
  BY <1>1, <1>2 DEF StartImport, Begin
<1> QED
  BY <1>5, <1>7, <1>8, ReadKeeps DEF SiteStep

LEMMA PlanImportKeeps ==
    ASSUME BundleInv, UNCHANGED writers, NEW c \in writers, PlanImport(c)
    PROVE  BundleInv'
<1>1. PICK p, b, t : p = call[c] /\ b = call[c].bundle /\ t = store[call[c].site]
  OBVIOUS
<1>2. CallHolds(p) /\ p.at = "plan" /\ p.site \in Sites /\ b = p.bundle /\ t = store[p.site]
  BY <1>1 DEF BundleInv, BundleShapes, PlanImport, Resume, CallHolds
<1>3. UNCHANGED <<store, bundles, landed>>
  BY DEF PlanImport, continuityVars
<1>4. CASE Return(c)
  BY <1>3, <1>4, IdleHoldsNext, ReadKeeps DEF Return, SiteStep
<1>5. CASE /\ ~p.refused /\ DocumentCollisions(t, b) = {}
           /\ CandidateCollisions(t, b, p.insert) = {}
           /\ Continue(c, [at |-> "write", site |-> p.site, bundle |-> b,
                 insert |-> p.insert, newDocs |-> NewDocuments(t, b),
                 newRuns |-> NewRuns(t, b), newCands |-> NewCandidates(t, b, p.insert)])
  <2>1. PICK docs, runs, cands : /\ docs = NewDocuments(t, b) /\ runs = NewRuns(t, b)
                                 /\ cands = NewCandidates(t, b, p.insert)
    OBVIOUS
  <2>2. /\ DOMAIN b.docs \ docs \subseteq DOMAIN t.docs
        /\ DOMAIN b.runs \ runs \subseteq DOMAIN t.runs
        /\ DOMAIN b.cands \ cands \subseteq DOMAIN t.cands
    BY <1>5, <2>1 DEF DocumentCollisions, CandidateCollisions, NewRuns
  <2>3. PICK q : q = [at |-> "write", site |-> p.site, bundle |-> b, insert |-> p.insert,
                      newDocs |-> docs, newRuns |-> runs, newCands |-> cands]
    OBVIOUS
  <2>4. Planned(p)
    BY <1>2, <1>5 DEF CallHolds
  <2>5. /\ q.at = "write" /\ q.site = p.site /\ q.bundle = b /\ q.insert = p.insert
        /\ q.newDocs = docs /\ q.newRuns = runs /\ q.newCands = cands
    BY <2>3
  <2>6. CallHolds(q)'
    BY <1>2, <1>3, <2>2, <2>4, <2>5 DEF CallHolds, Planned
  <2>7. call' = [call EXCEPT ![c] = q]
    BY <1>5, <2>1, <2>3 DEF Continue
  <2> QED
    BY <1>3, <2>6, <2>7, ReadKeeps DEF SiteStep
<1> QED
  BY <1>1, <1>2, <1>4, <1>5 DEF PlanImport

\* what the transaction of an import leaves of a database
Imported(p, t, u) ==
    /\ SiteTyped(u) /\ Grown(t, u) /\ SameFields(p.bundle.events, u.events)
    /\ DOMAIN u.docs = DOMAIN t.docs \cup (DOMAIN p.bundle.docs \cap p.newDocs)
    /\ DOMAIN u.runs = DOMAIN t.runs \cup (DOMAIN p.bundle.runs \cap p.newRuns)
    /\ DOMAIN u.cands = DOMAIN t.cands \cup (DOMAIN p.bundle.cands \cap p.newCands)
    /\ \A r \in DOMAIN u.runs : u.runs[r] = IF r \in DOMAIN t.runs THEN t.runs[r]
                                            ELSE p.bundle.runs[r]
    /\ \A k \in DOMAIN u.cands : u.cands[k] = IF k \in DOMAIN t.cands THEN t.cands[k]
                                              ELSE p.bundle.cands[k]

LEMMA InsertedIs ==
    ASSUME NEW p, NEW t, SiteTyped(t), EventsTyped(p.bundle.events), ~Stale(t, p),
           SameFields(Only(p.bundle.events, DOMAIN p.bundle.events \ p.insert), t.events)
    PROVE  Imported(p, t, Inserted(t, p))
<1>1. PICK b, u : b = p.bundle /\ u = Inserted(t, p)
  OBVIOUS
<1>2. u = [events |-> u.events, docs |-> u.docs, runs |-> u.runs, cands |-> u.cands]
  BY <1>1 DEF Inserted
<1>3. /\ DOMAIN u.events = DOMAIN t.events \cup (DOMAIN b.events \cap p.insert)
      /\ \A i \in DOMAIN u.events : u.events[i] = IF i \in DOMAIN t.events THEN t.events[i]
                                                  ELSE b.events[i]
  BY <1>1 DEF Inserted, WithRows, Only
<1>4. /\ DOMAIN u.docs = DOMAIN t.docs \cup (DOMAIN b.docs \cap p.newDocs)
      /\ DOMAIN u.runs = DOMAIN t.runs \cup (DOMAIN b.runs \cap p.newRuns)
      /\ DOMAIN u.cands = DOMAIN t.cands \cup (DOMAIN b.cands \cap p.newCands)
  BY <1>1 DEF Inserted, WithRows, Only
<1>5. \A r \in DOMAIN u.runs : u.runs[r] = IF r \in DOMAIN t.runs THEN t.runs[r]
                                           ELSE b.runs[r]
  BY <1>1 DEF Inserted, WithRows, Only
<1>6. \A k \in DOMAIN u.cands : u.cands[k] = IF k \in DOMAIN t.cands THEN t.cands[k]
                                             ELSE b.cands[k]
  BY <1>1 DEF Inserted, WithRows, Only
<1>7. EventsTyped(u.events)
  <2>1. PICK m \in Nat, n \in Nat : DOMAIN t.events \subseteq 1..m /\ DOMAIN b.events \subseteq 1..n
    BY <1>1 DEF SiteTyped, EventsTyped
  <2>2. DOMAIN u.events \subseteq 1..(m + n)
    BY <1>3, <2>1
  <2>3. \A i \in DOMAIN u.events :
          u.events[i] = [name |-> u.events[i].name, status |-> u.events[i].status]
    BY <1>1, <1>3 DEF SiteTyped, EventsTyped
  <2> QED
    BY <2>2, <2>3 DEF EventsTyped
<1>8. SameFields(b.events, u.events)
  <2> SUFFICES ASSUME NEW i \in DOMAIN b.events
               PROVE  i \in DOMAIN u.events /\ Fields[u.events[i].name] = Fields[b.events[i].name]
    BY DEF SameFields
  <2>1. CASE i \in p.insert
    <3>1. i \notin DOMAIN t.events
      BY <1>1, <2>1 DEF Stale
    <3> QED
      BY <1>3, <2>1, <3>1
  <2>2. CASE i \notin p.insert
    <3>1. i \in DOMAIN t.events /\ Fields[t.events[i].name] = Fields[b.events[i].name]
      BY <1>1, <2>2 DEF SameFields, Only
    <3> QED
      BY <1>3, <3>1
  <2> QED
    BY <2>1, <2>2
<1>9. Grown(t, u)
  BY <1>3, <1>4 DEF Grown, SameNames
<1> QED
  BY <1>1, <1>2, <1>4, <1>5, <1>6, <1>7, <1>8, <1>9 DEF SiteTyped, Imported

LEMMA WriteImportKeeps ==
    ASSUME BundleInv, UNCHANGED writers, NEW c \in writers, WriteImport(c)
    PROVE  BundleInv'
<1>1. PICK p, t : p = call[c] /\ t = store[call[c].site]
  OBVIOUS
<1>2. CallHolds(p) /\ p.at = "write" /\ p.site \in Sites /\ t = store[p.site]
  BY <1>1 DEF BundleInv, BundleShapes, WriteImport, Resume, CallHolds
<1>3. bundles' = bundles /\ call' = [call EXCEPT ![c] = Idle]
  BY DEF WriteImport, Return
<1>4. CASE UNCHANGED <<store, landed>>
  BY <1>3, <1>4, IdleHoldsNext, ReadKeeps DEF SiteStep
<1>5. CASE /\ ~Stale(t, p) /\ store' = [store EXCEPT ![p.site] = Inserted(t, p)]
           /\ landed' = landed \cup {<<p.site, p.bundle>>}
  <2>1. PICK b, u : b = p.bundle /\ u = Inserted(t, p)
    OBVIOUS
  <2>2. /\ b \in bundles
        /\ SameFields(Only(b.events, DOMAIN b.events \ p.insert), t.events)
        /\ DOMAIN b.docs \ p.newDocs \subseteq DOMAIN t.docs
        /\ DOMAIN b.runs \ p.newRuns \subseteq DOMAIN t.runs
        /\ DOMAIN b.cands \ p.newCands \subseteq DOMAIN t.cands
    BY <1>2, <2>1 DEF CallHolds, Planned
  <2>3. SiteTyped(t) /\ CandidatesNamed(t, From(p.site)) /\ (AllClosed => RunsNamed(t))
    BY <1>2 DEF BundleInv, BundleShapes
  <2>4. /\ EventsTyped(b.events)
        /\ \A k \in DOMAIN b.cands : /\ b.cands[k].event \in DOMAIN b.events
                                     /\ Fields[b.events[b.cands[k].event].name] = Fields[k]
        /\ AllClosed => RunsFromFile(b.runs, b.events)
    BY <2>2 DEF BundleInv, BundlesHold
  <2>5. /\ SiteTyped(u) /\ Grown(t, u) /\ SameFields(b.events, u.events)
        /\ DOMAIN u.docs = DOMAIN t.docs \cup (DOMAIN b.docs \cap p.newDocs)
        /\ DOMAIN u.runs = DOMAIN t.runs \cup (DOMAIN b.runs \cap p.newRuns)
        /\ DOMAIN u.cands = DOMAIN t.cands \cup (DOMAIN b.cands \cap p.newCands)
        /\ \A r \in DOMAIN u.runs : u.runs[r] = IF r \in DOMAIN t.runs THEN t.runs[r]
                                                ELSE b.runs[r]
        /\ \A k \in DOMAIN u.cands : u.cands[k] = IF k \in DOMAIN t.cands THEN t.cands[k]
                                                  ELSE b.cands[k]
    <3>1. ~Stale(t, p)
      BY <1>5
    <3>2. /\ EventsTyped(p.bundle.events)
          /\ SameFields(Only(p.bundle.events, DOMAIN p.bundle.events \ p.insert), t.events)
      BY <2>1, <2>2, <2>4
    <3>3. Imported(p, t, Inserted(t, p))
      BY <2>3, <3>1, <3>2, InsertedIs
    <3> QED
      BY <2>1, <3>3 DEF Imported
  <2>6. SitesGrow /\ store'[p.site] = u /\ \A x \in Sites : x # p.site => store'[x] = store[x]
    BY <1>2, <1>5, <2>1, <2>5, OneSiteGrows DEF BundleInv
  <2>12. PICK l : l = <<p.site, b>>
    OBVIOUS
  <2>13. l[1] = p.site /\ l[2] = b /\ landed' = landed \cup {l}
    BY <1>5, <2>1, <2>12
  <2>18. /\ \A x \in Sites : From(x) \subseteq From(x)'
         /\ DOMAIN b.cands \subseteq From(p.site)'
    BY <2>13 DEF From
  <2>7. CandidatesNamed(u, From(p.site)')
    <3> SUFFICES ASSUME NEW k \in DOMAIN u.cands, u.cands[k].status = "promoted"
                 PROVE  /\ u.cands[k].event \in DOMAIN u.events
                        /\ Fields[u.events[u.cands[k].event].name] = Fields[k]
                        /\ u.events[u.cands[k].event].name = k \/ k \in From(p.site)'
      BY DEF CandidatesNamed
    <3>1. CASE k \in DOMAIN t.cands
      <4>1. PICK e, name : e = t.cands[k].event /\ name = t.events[e].name
        OBVIOUS
      <4>2. u.cands[k].event = e /\ t.cands[k].status = "promoted"
        BY <2>5, <3>1, <4>1
      <4>3. /\ e \in DOMAIN t.events /\ Fields[name] = Fields[k]
            /\ name = k \/ k \in From(p.site)
        BY <2>3, <3>1, <4>1, <4>2 DEF CandidatesNamed
      <4>4. e \in DOMAIN u.events /\ u.events[e].name = name
        BY <2>5, <4>1, <4>3 DEF Grown, SameNames
      <4> QED
        BY <1>2, <2>18, <4>2, <4>3, <4>4
    <3>2. CASE k \notin DOMAIN t.cands
      <4>1. k \in DOMAIN b.cands /\ u.cands[k] = b.cands[k]
        BY <2>5, <3>2
      <4> QED
        BY <2>4, <2>5, <2>18, <4>1 DEF SameFields
    <3> QED
      BY <3>1, <3>2
  <2>8. \A x \in Sites : CandidatesNamed(store'[x], From(x)')
    <3>1. ASSUME NEW x \in Sites, x # p.site
          PROVE  CandidatesNamed(store'[x], From(x)')
      <4>1. store'[x] = store[x] /\ CandidatesNamed(store[x], From(x))
        BY <2>6, <3>1 DEF BundleInv
      <4> QED
        BY <2>18, <4>1 DEF CandidatesNamed
    <3> QED
      BY <2>6, <2>7, <3>1
  <2>9. AllClosed' => AllClosed /\ IsClosed(b)
    BY <2>13 DEF AllClosed
  <2>10. AllClosed' => RunsNamed(u)
    <3> SUFFICES ASSUME AllClosed', NEW r \in DOMAIN u.runs, NEW i \in u.runs[r]
                 PROVE  i \in DOMAIN u.events /\ Fields[u.events[i].name] \in FileFields
      BY DEF RunsNamed
    <3>1. CASE r \in DOMAIN t.runs
      BY <2>3, <2>5, <2>9, <3>1 DEF RunsNamed, Grown, SameNames
    <3>2. CASE r \notin DOMAIN t.runs
      <4>1. r \in DOMAIN b.runs /\ i \in b.runs[r]
        BY <2>5, <3>2
      <4>2. i \in DOMAIN b.events /\ Fields[b.events[i].name] \in FileFields
        BY <2>4, <2>9, <4>1 DEF IsClosed, RunsFromFile
      <4> QED
        BY <2>5, <4>2 DEF SameFields
    <3> QED
      BY <3>1, <3>2
  <2>11. AllClosed' => \A x \in Sites : RunsNamed(store'[x])
    BY <2>6, <2>9, <2>10 DEF BundleInv
  <2>14. Whole(l)'
    <3>1. NewEvents(u, b) = {} /\ EventCollisions(u, b) = {}
      BY <2>5 DEF NewEvents, EventCollisions, SameFields
    <3>2. /\ DOMAIN b.docs \subseteq DOMAIN u.docs /\ DOMAIN b.runs \subseteq DOMAIN u.runs
          /\ DOMAIN b.cands \subseteq DOMAIN u.cands
      BY <2>2, <2>5
    <3> QED
      BY <2>6, <2>13, <3>1, <3>2 DEF Whole
  <2>15. landed' \subseteq Sites \X bundles'
    BY <1>2, <1>3, <2>2, <2>12, <2>13 DEF BundleInv, BundleShapes
  <2>16. BundlesHold'
    BY <1>3, <2>9 DEF BundleInv, BundlesHold
  <2>17. \A x \in landed' \ landed : Whole(x)'
    BY <2>13, <2>14
  <2> QED
    BY <1>3, <2>6, <2>8, <2>11, <2>13, <2>15, <2>16, <2>17, IdleHoldsNext, StepKeeps
<1> QED
  BY <1>1, <1>2, <1>4, <1>5 DEF WriteImport

LEMMA ContinuityDeathKeeps ==
    ASSUME BundleInv, UNCHANGED writers, NEW c \in writers, ContinuityDeath(c)
    PROVE  BundleInv'
  BY IdleHoldsNext, ReadKeeps DEF ContinuityDeath, Die, Return, SiteStep, continuityVars

-----------------------------------------------------------------------------
(* The theorems *)
LEMMA BundlesBegin == CallersInit /\ ContinuityInit => BundleInv
<1> SUFFICES ASSUME CallersInit, ContinuityInit PROVE BundleInv
  OBVIOUS
<1>1. \A s \in Sites : store[s] = [events |-> <<>>, docs |-> <<>>, runs |-> <<>>, cands |-> <<>>]
  BY DEF ContinuityInit, SiteInit
<1>2. \A s \in Sites : SiteTyped(store[s])
  <2>1. DOMAIN <<>> \subseteq 1..0
    OBVIOUS
  <2> QED
    BY <1>1, <2>1 DEF SiteTyped, EventsTyped
<1>3. BundleShapes
  BY <1>2 DEF BundleShapes, CallersInit, ContinuityInit, SiteInit
<1>4. \A s \in Sites : CandidatesNamed(store[s], From(s)) /\ RunsNamed(store[s])
  BY <1>1 DEF CandidatesNamed, RunsNamed
<1>5. BundlesHold /\ ImportsStayWhole
  BY DEF ContinuityInit, BundlesHold, ImportsStayWhole
<1>6. \A c \in Callers : CallHolds(call[c])
  BY IdleHolds DEF CallersInit
<1> QED
  BY <1>3, <1>4, <1>5, <1>6 DEF BundleInv

LEMMA BundlesStep == BundleInv /\ [ContinuityNext]_<<continuityVars, writers, call>> => BundleInv'
<1> SUFFICES ASSUME BundleInv, [ContinuityNext]_<<continuityVars, writers, call>>
             PROVE  BundleInv'
  OBVIOUS
<1>1. CASE UNCHANGED <<continuityVars, writers, call>>
  <2>0. UNCHANGED <<store, bundles, landed, writers, call>>
    BY <1>1 DEF continuityVars
  <2>1. BundleShapes' /\ BundlesHold'
    BY <2>0 DEF BundleInv, BundleShapes, BundlesHold, AllClosed
  <2>2. /\ (\A s \in Sites : CandidatesNamed(store[s], From(s)))'
        /\ (AllClosed => \A s \in Sites : RunsNamed(store[s]))'
    BY <2>0 DEF BundleInv, AllClosed, From
  <2>3. (\A c \in Callers : CallHolds(call[c]))'
    <3>1. ASSUME NEW k, CallHolds(k)
          PROVE  CallHolds(k)'
      BY <2>0, <3>1 DEF CallHolds, Planned, AllClosed
    <3>2. SUFFICES ASSUME NEW c \in Callers
                   PROVE  CallHolds(call[c])'
      OBVIOUS
    <3>3. PICK k : k = call[c] /\ k = call'[c]
      BY <2>0
    <3>4. CallHolds(k)
      BY <3>3 DEF BundleInv
    <3> QED
      BY <3>1, <3>3, <3>4
  <2>4. ImportsStayWhole'
    BY <2>0 DEF BundleInv, ImportsStayWhole
  <2> QED
    BY <2>1, <2>2, <2>3, <2>4 DEF BundleInv
<1>2. ASSUME UNCHANGED writers, NEW c \in writers, LocalStep(c), UNCHANGED <<bundles, landed>>
      PROVE  BundleInv'
  <2>1. SiteStep
    BY <1>2 DEF SiteStep
  <2>2. CASE NoteStep(c) \/ SeedStep(c)
    BY <2>1, <2>2, AddEventKeeps DEF NoteStep, SeedStep
  <2>3. CASE ReviewStep(c)
    BY <2>1, <2>3, ReviewKeeps DEF ReviewStep
  <2>4. CASE FileStep(c)
    BY <2>1, <2>4, StartIngestKeeps, ReadRegistryKeeps, InsertVersionKeeps, CommitChunkKeeps,
       RecordIngestionKeeps DEF FileStep
  <2>5. CASE SemanticStep(c)
    BY <2>1, <2>5, RecordCandidateKeeps, StartPromotionKeeps, AddPromotedKeeps,
       CheckCandidateKeeps, MarkPromotedKeeps DEF SemanticStep
  <2> QED
    BY <1>2, <2>2, <2>3, <2>4, <2>5 DEF LocalStep
<1>3. ASSUME UNCHANGED writers, NEW c \in writers, BundleStep(c)
      PROVE  BundleInv'
  BY <1>3, StartExportKeeps, FetchDocumentsKeeps, FetchRunsKeeps, FinishExportKeeps,
     StartImportKeeps, PlanImportKeeps, WriteImportKeeps, ContinuityDeathKeeps DEF BundleStep
<1> QED
  BY <1>1, <1>2, <1>3 DEF ContinuityNext

LEMMA BundleInvHolds == ContinuitySpec => []BundleInv
  BY BundlesBegin, BundlesStep, PTL DEF ContinuitySpec

\* An import that has landed stays whole, whatever the sites and other imports do
\* between its plan and its transaction or after it.
THEOREM ImportsAreWhole == ContinuitySpec => []ImportsStayWhole
<1>1. BundleInv => ImportsStayWhole
  BY DEF BundleInv
<1> QED
  BY <1>1, BundleInvHolds, PTL

\* promote_candidate, ingest-file and import_bundle: at every site a promoted candidate
\* names an event with its own type, title and source, and the event made from it
\* unless the candidate came with a bundle; the ids of a run name events with the
\* type, title and source of the file's, as long as every bundle was closed.
THEOREM IdsAreKept == ContinuitySpec => []IdsKeepTheirMeaning
<1>1. BundleInv => IdsKeepTheirMeaning
  <2> SUFFICES ASSUME BundleInv PROVE IdsKeepTheirMeaning
    OBVIOUS
  <2>1. ASSUME NEW s \in Sites, NEW k \in From(s)
        PROVE  \E l \in landed : l[1] = s /\ k \in DOMAIN l[2].cands
    BY <2>1 DEF From
  <2>2. \A s \in Sites : CandidatesNamed(store[s], From(s))
    BY DEF BundleInv
  <2>3. AllClosed => \A s \in Sites : RunsNamed(store[s])
    BY DEF BundleInv
  <2>4. \A s \in Sites : \A k \in DOMAIN store[s].cands :
          store[s].cands[k].status = "promoted" =>
            /\ store[s].cands[k].event \in DOMAIN store[s].events
            /\ LET name == store[s].events[store[s].cands[k].event].name IN
               /\ Fields[name] = Fields[k]
               /\ name = k \/ \E l \in landed : l[1] = s /\ k \in DOMAIN l[2].cands
    BY <2>1, <2>2 DEF CandidatesNamed
  <2>5. AllClosed =>
          \A s \in Sites : \A r \in DOMAIN store[s].runs : \A i \in store[s].runs[r] :
            /\ i \in DOMAIN store[s].events
            /\ Fields[store[s].events[i].name] \in {Fields[x] : x \in Texts}
    BY <2>3 DEF RunsNamed, FileFields
  <2> QED
    BY <2>4, <2>5 DEF IdsKeepTheirMeaning, AllClosed
<1> QED
  BY <1>1, BundleInvHolds, PTL

=============================================================================
