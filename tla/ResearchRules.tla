----------------------------- MODULE ResearchRules -----------------------------
(***************************************************************************)
(* The semantic rules of the research validator, over registries that have *)
(* passed the schema gate: the event of a rule names the rule and the      *)
(* record it is about.                                                     *)
(***************************************************************************)
EXTENDS Naturals, SequencesExt, FiniteSetsExt

Collections ==
    {"claims", "evidence", "sources", "assumptions", "unknowns", "contradictions",
     "verdicts"}

IdField ==
    [claims |-> "claim_id", evidence |-> "evidence_id", sources |-> "source_id",
     assumptions |-> "assumption_id", unknowns |-> "unknown_id",
     contradictions |-> "contradiction_id", verdicts |-> "claim_id"]

Strong == {"Strong", "Very strong"}
Weakish == {"Inadmissible", "Weak"}
PositiveVerdicts == {"Confirmed", "Supported", "Partially Supported"}

Event(rule, target) == [rule |-> rule, target |-> target]

BlockingRules ==
    {"R-ENVELOPE", "R-SCHEMA-UNSUPPORTED-KEYWORD", "R-SCHEMA", "R-VALIDATOR",
     "R-ID-UNIQUE", "R-XREF", "R-UNSUPPORTED-REF", "R-CONFIRMED-NEEDS-EVIDENCE",
     "R-VERDICT-CEILING", "R-CONTRADICTION-MATERIAL", "R-ASSUMPTION-FATAL",
     "R-UNKNOWN-BLOCKING"}

HasError(events) == \E e \in events : e.rule \in BlockingRules

-----------------------------------------------------------------------------
(* The index.                                                              *)

\* The list under an optional field, <<>> without it.
ListOf(r, field) == IF field \in DOMAIN r THEN r[field] ELSE <<>>

IdsIn(norm, kind) ==
    [i \in DOMAIN norm[kind] |-> norm[kind][i][IdField[kind]]]

Ids(norm, kind) == ToSet(IdsIn(norm, kind))

\* Of two evidence records with one id the map keeps the later one.
EvidenceById(norm, id) ==
    norm.evidence[CHOOSE i \in DOMAIN norm.evidence :
                     /\ norm.evidence[i].evidence_id = id
                     /\ \A j \in DOMAIN norm.evidence :
                           j > i => norm.evidence[j].evidence_id # id]

\* Where a claim lists supporting evidence that resolves, and that evidence.
Resolved(norm, claim) ==
    LET list == ListOf(claim, "supporting_evidence")
    IN  {i \in DOMAIN list : list[i] \in Ids(norm, "evidence")}

SupportOf(norm, claim) ==
    {EvidenceById(norm, claim.supporting_evidence[i]) : i \in Resolved(norm, claim)}

\* Mutant of ContradictionsOf.
LatestContradictionOf(norm, claim) ==
    LET named == SelectSeq(norm.contradictions,
                           LAMBDA x : claim.claim_id \in ToSet(x.in_conflict))
    IN  IF named = <<>> THEN {} ELSE {Last(named)}

ContradictionsOf(norm, claim) ==
    {x \in ToSet(norm.contradictions) : claim.claim_id \in ToSet(x.in_conflict)}

AssumptionsOf(norm, claim) ==
    {a \in ToSet(norm.assumptions) :
       claim.claim_id \in ToSet(ListOf(a, "claims_affected"))}

Claims(norm, verdicts) ==
    {c \in ToSet(norm.claims) : c.current_verdict \in verdicts}

-----------------------------------------------------------------------------
(* Blocking rules.                                                         *)

\* The ids that occur twice in the list of one of the kinds or in the lists of two.
RepeatedIds(norm, kinds) ==
    LET Twice(k) ==
            {id \in Ids(norm, k) :
               \E i, j \in DOMAIN norm[k] :
                  i # j /\ IdsIn(norm, k)[i] = id /\ IdsIn(norm, k)[j] = id}
        Shared(k) == Ids(norm, k) \cap UNION {Ids(norm, other) : other \in kinds \ {k}}
    IN  UNION {Twice(k) \cup Shared(k) : k \in kinds}

\* Mutant of RuleIdUnique.
RuleIdUniqueButEvidence(norm) ==
    {Event("R-ID-UNIQUE", id) :
       id \in RepeatedIds(norm, Collections \ {"verdicts", "evidence"})}

\* An id is used once in its registry and in no other registry; a verdict has none.
RuleIdUnique(norm) ==
    {Event("R-ID-UNIQUE", id) : id \in RepeatedIds(norm, Collections \ {"verdicts"})}

RuleXref(norm) ==
    LET Dangling(kind, field, known) ==
            {Event("R-XREF", r[IdField[kind]]) :
               r \in {s \in ToSet(norm[kind]) :
                        ~ToSet(ListOf(s, field)) \subseteq known}}
        One(kind, field, known) ==
            {Event("R-XREF", r[IdField[kind]]) :
               r \in {s \in ToSet(norm[kind]) : s[field] \notin known}}
        claims == Ids(norm, "claims")
        evidence == Ids(norm, "evidence")
    IN  One("evidence", "claim_id", claims)
        \cup One("evidence", "source_id", Ids(norm, "sources"))
        \cup One("verdicts", "claim_id", claims)
        \cup Dangling("claims", "supporting_evidence", evidence)
        \cup Dangling("claims", "contradicting_evidence", evidence)
        \cup Dangling("assumptions", "claims_affected", claims)
        \cup Dangling("unknowns", "claims_affected", claims)
        \cup Dangling("contradictions", "in_conflict", claims \cup evidence)

RuleUnsupportedRef(norm) ==
    LET Listed(c, field) ==
            {EvidenceById(norm, id) :
               id \in ToSet(ListOf(c, field)) \cap Ids(norm, "evidence")}
    IN  {Event("R-UNSUPPORTED-REF", c.claim_id) :
           c \in {d \in ToSet(norm.claims) :
                    \/ \E e \in Listed(d, "supporting_evidence") : e.direction # "Supports"
                    \/ \E e \in Listed(d, "contradicting_evidence") :
                          e.direction = "Supports"}}

RuleNeedsEvidence(norm) ==
    {Event("R-CONFIRMED-NEEDS-EVIDENCE", c.claim_id) :
       c \in {d \in Claims(norm, PositiveVerdicts) :
                ToSet(ListOf(d, "supporting_evidence")) = {}}}

\* Mutant of RuleVerdictCeiling.
RuleVerdictCeilingIfAllGraded(norm) ==
    LET Ungraded(c) ==
            {e \in SupportOf(norm, c) : "strength_category" \notin DOMAIN e}
        confirmed == Claims(norm, {"Confirmed"})
    IN  {Event("R-VERDICT-STRENGTH-UNKNOWN", c.claim_id) :
           c \in {d \in confirmed : Ungraded(d) # {}}}
        \cup {Event("R-VERDICT-CEILING", c.claim_id) :
           c \in {d \in confirmed :
                    /\ Ungraded(d) = {}
                    /\ \A e \in SupportOf(norm, d) : e.strength_category \notin Strong}}

\* A confirmed claim with graded evidence has strong evidence; without any grade
\* it is left to a reviewer.
RuleVerdictCeiling(norm) ==
    LET Grades(c) ==
            {e.strength_category :
               e \in {f \in SupportOf(norm, c) : "strength_category" \in DOMAIN f}}
        confirmed == Claims(norm, {"Confirmed"})
    IN  {Event("R-VERDICT-STRENGTH-UNKNOWN", c.claim_id) :
           c \in {d \in confirmed : Grades(d) = {}}}
        \cup {Event("R-VERDICT-CEILING", c.claim_id) :
           c \in {d \in confirmed : Grades(d) # {} /\ Grades(d) \cap Strong = {}}}

RuleContradiction(norm) ==
    LET Conflicted(statuses) ==
            {c \in Claims(norm, {"Confirmed"}) :
               \E x \in ContradictionsOf(norm, c) : x.resolution_status \in statuses}
    IN  {Event("R-CONTRADICTION-MATERIAL", c.claim_id) :
           c \in Conflicted({"Material-remains"})}
        \cup {Event("R-CONTRADICTION-OPEN", c.claim_id) :
           c \in Conflicted({"Open", "Methodologically-unresolved"})}

RuleAssumptionFatal(norm) ==
    {Event("R-ASSUMPTION-FATAL", c.claim_id) :
       c \in {d \in Claims(norm, {"Confirmed"}) :
                \E a \in AssumptionsOf(norm, d) :
                   a.risk_if_false = "Fatal" /\ a.status = "Open"}}

RuleUnknownBlocking(norm) ==
    IF norm.mission.completion_status \in {"Conditions-met", "Closed"}
    THEN {Event("R-UNKNOWN-BLOCKING", u.unknown_id) :
            u \in {v \in ToSet(norm.unknowns) :
                     v.blocks_decision /\ v.status # "Resolved"}}
    ELSE {}

-----------------------------------------------------------------------------
(* Rules that ask for a review.                                            *)

\* Several items of one lineage are one confirmation.
RuleLineage(norm) ==
    {Event("R-LINEAGE-FALSE-INDEP", c.claim_id) :
       c \in {d \in Claims(norm, {"Confirmed", "Supported"}) :
                /\ Cardinality(Resolved(norm, d)) >= 2
                /\ Cardinality({e.independence_group : e \in SupportOf(norm, d)}) = 1}}

RuleConfidence(norm) ==
    LET Shaky(e) ==
            \/ "strength_category" \in DOMAIN e /\ e.strength_category \in Weakish
            \/ "gating_flaw" \in DOMAIN e /\ e.gating_flaw # ""
    IN  {Event("R-CONFIDENCE-CONSISTENCY", c.claim_id) :
           c \in {d \in ToSet(norm.claims) :
                    /\ d.confidence \in {"High", "Very high"}
                    /\ \/ \E e \in SupportOf(norm, d) : Shaky(e)
                       \/ \E x \in ContradictionsOf(norm, d) :
                             x.resolution_status \in {"Open", "Material-remains"}}}

RuleRevenueProven(norm) ==
    {Event("R-REVENUE-PROVEN-REVIEW", v.claim_id) :
       v \in {w \in ToSet(norm.verdicts) :
                /\ "outcome_ladder_classification" \in DOMAIN w
                /\ w.outcome_ladder_classification = "Proven"}}

RuleOrphanSource(norm) ==
    LET used == {e.source_id : e \in ToSet(norm.evidence)}
    IN  {Event("R-ORPHAN-SOURCE", id) : id \in Ids(norm, "sources") \ used}

RunSemanticRules(norm) ==
    RuleIdUnique(norm) \cup RuleXref(norm) \cup RuleUnsupportedRef(norm)
    \cup RuleNeedsEvidence(norm) \cup RuleVerdictCeiling(norm)
    \cup RuleContradiction(norm) \cup RuleAssumptionFatal(norm)
    \cup RuleUnknownBlocking(norm) \cup RuleLineage(norm) \cup RuleConfidence(norm)
    \cup RuleRevenueProven(norm) \cup RuleOrphanSource(norm)
=============================================================================
