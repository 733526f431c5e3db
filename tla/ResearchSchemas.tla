---------------------------- MODULE ResearchSchemas ----------------------------
(***************************************************************************)
(* The eight schemas the validator ships with, one per list of a dataset   *)
(* and one for the mission, with the fields a rule or a property reads and *)
(* an example of every keyword.  Fields that are only text are left out,   *)
(* and of an id's pattern there is the set of the ids it matches.          *)
(***************************************************************************)
EXTENDS SchemaSubset

CONSTANT IdsLike   \* IdsLike[k]: the ids the pattern of list k matches

Text == [type |-> "string"]
Texts == [type |-> "array", items |-> Text]
TwoTexts == [type |-> "array", items |-> Text, minItems |-> 2]
OneOf(words) == [enum |-> words]
IdLike(ids) == [type |-> "string", pattern |-> ids]
Day == [type |-> "string", format |-> "date"]
Score == [type |-> "integer", minimum |-> 0, maximum |-> 5]

Object(required, properties) ==
    [type |-> "object", additionalProperties |-> Closed,
     required |-> required, properties |-> properties]

Verdicts ==
    {"Confirmed", "Supported", "Partially Supported", "Inconclusive", "Unsupported",
     "Contradicted", "Refuted", "Not Assessable", "Obsolete"}

ReviewFields == {"reviewer", "confidence_rationale", "last_reviewed"}

ReviewIfMaterial ==
    [if |-> [properties |-> [materiality |-> OneOf({"L3", "L4"})]],
     then |-> [required |-> ReviewFields]]

ClaimFields ==
    [claim_id |-> IdLike(IdsLike["claims"]),
     materiality |-> OneOf({"L1", "L2", "L3", "L4"}),
     supporting_evidence |-> Texts, contradicting_evidence |-> Texts,
     current_verdict |-> OneOf(Verdicts),
     confidence |-> OneOf({"Very low", "Low", "Moderate", "High", "Very high"}),
     confidence_rationale |-> Text, reviewer |-> Text, last_reviewed |-> Day]

ClaimSchema ==
    [type |-> "object", additionalProperties |-> Closed,
     required |-> {"claim_id", "materiality", "current_verdict", "confidence"},
     properties |-> ClaimFields, allOf |-> <<ReviewIfMaterial>>]

QualityDimensions ==
    [type |-> "object", additionalProperties |-> Closed,
     properties |-> [independence |-> Score]]

EvidenceFields ==
    [evidence_id |-> IdLike(IdsLike["evidence"]), source_id |-> IdLike(IdsLike["sources"]),
     claim_id |-> IdLike(IdsLike["claims"]),
     direction |-> OneOf({"Supports", "Contradicts", "Limits", "Contextualizes"}),
     independence_group |-> Text, quality_dimensions |-> QualityDimensions,
     strength_category |->
        OneOf({"Inadmissible", "Weak", "Limited", "Moderate", "Strong", "Very strong"}),
     gating_flaw |-> Text]

EvidenceSchema ==
    Object({"evidence_id", "source_id", "claim_id", "direction", "independence_group"},
           EvidenceFields)

MissionSchema ==
    Object({"mission_id", "title", "completion_status"},
           [mission_id |-> IdLike(IdsLike["mission"]),
            title |-> [type |-> "string", minLength |-> 1],
            completion_status |-> OneOf({"Open", "Conditions-met", "Closed", "Reopened"}),
            definitions |-> [type |-> "object", additionalProperties |-> Text]])

SourceSchema == Object({"source_id"}, [source_id |-> IdLike(IdsLike["sources"])])

AssumptionSchema ==
    Object({"assumption_id", "risk_if_false", "status"},
           [assumption_id |-> IdLike(IdsLike["assumptions"]), claims_affected |-> Texts,
            risk_if_false |-> OneOf({"Low", "Moderate", "High", "Fatal"}),
            status |-> OneOf({"Open", "Validated", "Invalidated", "Accepted-risk"})])

UnknownSchema ==
    Object({"unknown_id", "blocks_decision", "status"},
           [unknown_id |-> IdLike(IdsLike["unknowns"]), claims_affected |-> Texts,
            blocks_decision |-> [type |-> "boolean"],
            status |-> OneOf({"Open", "Isolated", "Resolved", "Dependency-blocked"})])

ContradictionSchema ==
    Object({"contradiction_id", "in_conflict", "resolution_status"},
           [contradiction_id |-> IdLike(IdsLike["contradictions"]),
            in_conflict |-> TwoTexts,
            resolution_status |->
               OneOf({"Open", "Resolved", "Scope-qualified", "Time-qualified",
                      "Definition-qualified", "Methodologically-unresolved",
                      "Material-remains"})])

VerdictSchema ==
    Object({"claim_id"},
           [claim_id |-> IdLike(IdsLike["claims"]),
            outcome_ladder_classification |->
               OneOf({"Collected", "Prevented-Exposure", "Estimated", "Detected",
                      "Contested", "Proven", "N/A"})])

ShippedSchemas ==
    [mission |-> MissionSchema, claims |-> ClaimSchema, evidence |-> EvidenceSchema,
     sources |-> SourceSchema, assumptions |-> AssumptionSchema,
     unknowns |-> UnknownSchema, contradictions |-> ContradictionSchema,
     verdicts |-> VerdictSchema]
=============================================================================
