-------------------------- MODULE MCResearchValidator --------------------------
(***************************************************************************)
(* Instances of the validator: the shipped schemas and two extensions, and *)
(* records that its rules tell apart.                                      *)
(***************************************************************************)
EXTENDS ResearchValidator

CONSTANT AnyText   \* a text of which only its being there counts

ManyIds ==
    [mission |-> {"M1"}, claims |-> {"C1", "C2"}, evidence |-> {"E1", "E2"},
     sources |-> {"S1", "S2"}, assumptions |-> {"A1"}, unknowns |-> {"U1"},
     contradictions |-> {"X1", "X2"}, verdicts |-> {}]

ShippedContract ==
    [top |-> {"type", "additionalProperties", "required", "properties"},
     property |-> {"$ref", "type", "items"}, item |-> {"$ref"}]

Shipped == [contract |-> ShippedContract, schemas |-> ShippedSchemas]

\* The two extensions the validator refuses to half understand.
ManySetups ==
    [shipped |-> Shipped,
     unmapped |-> [Shipped EXCEPT !.contract.property = @ \cup {"minItems"}],
     uninterpreted |-> [Shipped EXCEPT !.schemas.verdicts =
        [type |-> "object", oneOf |-> <<[required |-> {"claim_id"}]>>]]]

-----------------------------------------------------------------------------
Mission(status) == [mission_id |-> "M1", title |-> "t", completion_status |-> status]

Dataset(mission) == [validator_dataset_version |-> AnyText, mission |-> mission]

Misspelled ==
    [validator_dataset_version |-> AnyText, mission |-> Mission("Open"), claimz |-> AnyText]

ManyEnvelopes ==
    {NoFile, Dataset(Mission("Open")), Dataset(Mission("Closed")),
     Dataset([mission_id |-> "M1", title |-> ""]), Dataset(Malformed),
     [mission |-> Mission("Open")], Misspelled,
     [validator_dataset_version |-> AnyText, mission |-> Mission("Open"), claims |-> Malformed]}

\* February has no 30th.
NoSuchDay == [year |-> 2026, month |-> 2, day |-> 30]
LeapDay == [year |-> 2028, month |-> 2, day |-> 29]

Claim(id, verdict, confidence, support) ==
    [claim_id |-> id, materiality |-> "L2", current_verdict |-> verdict,
     confidence |-> confidence, supporting_evidence |-> support]

Reviewed(c, day) ==
    [f \in DOMAIN c \cup {"reviewer", "confidence_rationale", "last_reviewed"} |->
       IF f = "materiality" THEN "L3"
       ELSE IF f = "last_reviewed" THEN day
       ELSE IF f \in DOMAIN c THEN c[f] ELSE "yes"]

Ungraded(id, group, source) ==
    [evidence_id |-> id, source_id |-> source, claim_id |-> "C1",
     direction |-> "Supports", independence_group |-> group]

Graded(id, group, strength) ==
    [evidence_id |-> id, source_id |-> "S1", claim_id |-> "C1",
     direction |-> "Supports", independence_group |-> group,
     strength_category |-> strength]

Overscored ==
    [evidence_id |-> "E2", source_id |-> "S1", claim_id |-> "C1",
     direction |-> "Supports", independence_group |-> "L2",
     quality_dimensions |-> [independence |-> 6]]

Conflict(id, between, status) ==
    [contradiction_id |-> id, in_conflict |-> between, resolution_status |-> status]

Plain == Claim("C1", "Confirmed", "Moderate", <<"E1">>)
Doubled == Claim("C1", "Confirmed", "High", <<"E1", "E2">>)
OfTwo == Claim("C2", "Supported", "High", <<"E1", "E2">>)
StrongE1 == Graded("E1", "L1", "Strong")
Sources == {[source_id |-> "S1"], [source_id |-> "S2"]}

Nothing == [k \in Collections |-> {}]

\* What the claims rest on.
Grading ==
    [Nothing EXCEPT
       !.claims = {Plain, Doubled, OfTwo},
       !.evidence = {StrongE1, Graded("E1", "L1", "Weak"), Graded("E2", "L1", "Moderate"),
                     Ungraded("E2", "L2", "S2"), Ungraded("E1", "L2", "S1"),
                     [Graded("E2", "L2", "Weak") EXCEPT !.direction = "Contradicts"]},
       !.sources = Sources]

\* What speaks against them.
Conflicts ==
    [Nothing EXCEPT
       !.claims = {Plain, Doubled, OfTwo},
       !.evidence = {StrongE1, Ungraded("E2", "L2", "S1")},
       !.sources = {[source_id |-> "S1"]},
       !.assumptions = {[assumption_id |-> "A1", claims_affected |-> <<"C1">>,
                         risk_if_false |-> "Fatal", status |-> "Open"]},
       !.contradictions = {Conflict("X1", <<"C1", "E1">>, "Material-remains"),
                           Conflict("X2", <<"C2", "C1">>, "Open"),
                           Conflict("X2", <<"C1", "E1">>, "Open")},
       !.verdicts = {[claim_id |-> "C1", outcome_ladder_classification |-> "Proven"]}]

\* Records that are not of their form, and a mission that closes too early.
Forms ==
    [Nothing EXCEPT
       !.claims = {Reviewed(Plain, LeapDay), Reviewed(Plain, NoSuchDay),
                   [Claim("C1", "Inconclusive", "Low", <<>>) EXCEPT !.materiality = "L4"],
                   [Plain EXCEPT !.supporting_evidence = Malformed]},
       !.evidence = {StrongE1, Overscored},
       !.sources = {[source_id |-> "S1"]},
       !.assumptions = {[assumption_id |-> "A1", claims_affected |-> Malformed,
                         risk_if_false |-> "Low", status |-> "Validated"]},
       !.unknowns = {[unknown_id |-> "U1", blocks_decision |-> TRUE, status |-> "Open"],
                     [unknown_id |-> "U1", blocks_decision |-> TRUE, status |-> "Resolved"]},
       !.contradictions = {Conflict("X1", <<"C1">>, "Resolved")},
       !.verdicts = {[claim_id |-> "C2"]}]

ManyRecords == [k \in Collections |-> Grading[k] \cup Conflicts[k] \cup Forms[k]]

Lengths ==
    [claims |-> 2, evidence |-> 3, sources |-> 2, assumptions |-> 1, unknowns |-> 1,
     contradictions |-> 2, verdicts |-> 1]

-----------------------------------------------------------------------------
VARIABLE book   \* the records a behaviour adds

Books == [grading |-> Grading, conflicts |-> Conflicts, forms |-> Forms]

BooksInit ==
    /\ Init
    /\ book \in DOMAIN Books
    /\ book # "forms" => setup = "shipped" /\ file = Dataset(Mission("Open"))

BooksNext ==
    /\ Next
    /\ book' = book
    /\ setup # "shipped" => file' = file
    /\ file' # file =>
          \A k \in Collections :
             ListOf(file', k) # ListOf(file, k) => Last(file'[k]) \in Books[book][k]

BooksSpec == BooksInit /\ [][BooksNext]_<<vars, book>>
=============================================================================
