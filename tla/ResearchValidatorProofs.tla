------------------------ MODULE ResearchValidatorProofs ------------------------
(***************************************************************************)
(* Proofs about the research validator, for every dataset a researcher can *)
(* come to write with the records given, every contract, and every choice  *)
(* of shipped schemas and of schemas with a keyword nobody interprets.     *)
(*                                                                         *)
(* FileInv says what the file holds and that a report is the verdict on    *)
(* it; everything else is a property of ValidateDataset.  Behind the       *)
(* schema gate every record has the fields its schema requires and no      *)
(* other (ObjectHeld, GateHeld), so no rule is given a value it throws on  *)
(* (NoRuleThrows), and when no error is left ids are unique, so that the   *)
(* index finds exactly the record that bears an id (ById).  A dataset in   *)
(* reverse order, and one with a record more, holds at least the records   *)
(* of the first (PartOf): what blocked the first blocks the other.         *)
(***************************************************************************)
EXTENDS ResearchValidator, TLAPS

-----------------------------------------------------------------------------
(* What the interpreter promises of a value it accepts.                    *)

\* A closed object schema.
ClosedObject(schema) ==
    /\ {"type", "required", "properties", "additionalProperties"} \subseteq DOMAIN schema
    /\ schema.additionalProperties = Closed

\* A value of a schema that names a type has that type.
LEMMA TypedHeld ==
    ASSUME NEW schema, NEW value, "type" \in DOMAIN schema, ValidAt3(schema, value)
    PROVE  value # Malformed
  BY DEF ValidAt3, Interpret

\* A value of an enumeration is one of its words.
LEMMA EnumHeld ==
    ASSUME NEW words, NEW value, ValidAt3(OneOf(words), value)
    PROVE  value \in words
  BY DEF ValidAt3, Interpret, OneOf

\* A record of a closed object has the required fields, no field but those the
\* schema names, and in each a value of the field's schema.
LEMMA ObjectHeld ==
    ASSUME NEW schema, NEW r, Validates(schema, r), ClosedObject(schema)
    PROVE  /\ r # Malformed
           /\ schema.required \subseteq DOMAIN r
           /\ DOMAIN r \subseteq DOMAIN schema.properties
           /\ \A p \in DOMAIN r : ValidAt3(schema.properties[p], r[p])
  <1>1. r # Malformed
    BY DEF Validates, Interpret, ClosedObject
  <1>2. schema.required \subseteq DOMAIN r
    BY <1>1 DEF Validates, Interpret, ClosedObject
  <1>3. DOMAIN r \subseteq DOMAIN schema.properties
    BY <1>1 DEF Validates, Interpret, ClosedObject
  <1>4. \A p \in DOMAIN schema.properties \cap DOMAIN r :
           ValidAt3(schema.properties[p], r[p])
    BY <1>1 DEF Validates, Interpret, ClosedObject
  <1> QED
    BY <1>1, <1>2, <1>3, <1>4

\* Which schema is shipped for which kind.
LEMMA ShippedSchemaOf ==
    /\ ShippedSchemas["claims"] = ClaimSchema
    /\ ShippedSchemas["evidence"] = EvidenceSchema
    /\ ShippedSchemas["sources"] = SourceSchema
    /\ ShippedSchemas["assumptions"] = AssumptionSchema
    /\ ShippedSchemas["unknowns"] = UnknownSchema
    /\ ShippedSchemas["contradictions"] = ContradictionSchema
    /\ ShippedSchemas["verdicts"] = VerdictSchema
    /\ ShippedSchemas["mission"] = MissionSchema
  BY DEF ShippedSchemas

LEMMA EveryKind ==
    \A k \in Kinds :
       k \in {"claims", "evidence", "sources", "assumptions", "unknowns",
             "contradictions", "verdicts", "mission"}
  BY DEF Kinds, Collections

LEMMA ObjectClosed ==
    ASSUME NEW required, NEW properties
    PROVE  /\ ClosedObject(Object(required, properties))
           /\ Object(required, properties).required = required
           /\ Object(required, properties).properties = properties
  BY DEF ClosedObject, Object

\* The shipped schemas are closed objects.
LEMMA ShippedClosed ==
    ASSUME NEW k \in Kinds
    PROVE  ClosedObject(ShippedSchemas[k])
  <1>1. ClosedObject(ClaimSchema)
    BY DEF ClosedObject, ClaimSchema
  <1>2. ClosedObject(EvidenceSchema)
    BY ObjectClosed DEF EvidenceSchema
  <1>3. ClosedObject(SourceSchema)
    BY ObjectClosed DEF SourceSchema
  <1>4. ClosedObject(AssumptionSchema)
    BY ObjectClosed DEF AssumptionSchema
  <1>5. ClosedObject(UnknownSchema)
    BY ObjectClosed DEF UnknownSchema
  <1>6. ClosedObject(ContradictionSchema)
    BY ObjectClosed DEF ContradictionSchema
  <1>7. ClosedObject(VerdictSchema)
    BY ObjectClosed DEF VerdictSchema
  <1>8. ClosedObject(MissionSchema)
    BY ObjectClosed DEF MissionSchema
  <1> QED
    BY EveryKind, ShippedSchemaOf, <1>1, <1>2, <1>3, <1>4, <1>5, <1>6, <1>7, <1>8

\* The fields that hold lists.
LEMMA ListFieldSchemas ==
    ASSUME NEW k \in Kinds,
           NEW f \in {"supporting_evidence", "contradicting_evidence",
                      "claims_affected", "in_conflict"}
                    \cap DOMAIN ShippedSchemas[k].properties
    PROVE  "type" \in DOMAIN ShippedSchemas[k].properties[f]
  <1>1. CASE k = "claims"
    <2>1. ShippedSchemas[k].properties = ClaimFields
      BY <1>1, ShippedSchemaOf DEF ClaimSchema
    <2>2. DOMAIN ClaimFields =
             {"claim_id", "materiality", "supporting_evidence", "contradicting_evidence",
              "current_verdict", "confidence", "confidence_rationale", "reviewer",
              "last_reviewed"}
      BY DEF ClaimFields
    <2>3. f = "supporting_evidence" \/ f = "contradicting_evidence"
      BY <2>1, <2>2
    <2>4. /\ ClaimFields["supporting_evidence"] = Texts
          /\ ClaimFields["contradicting_evidence"] = Texts
      BY DEF ClaimFields
    <2> QED
      BY <2>1, <2>3, <2>4 DEF Texts
  <1>2. CASE k = "evidence"
    <2>1. ShippedSchemas[k].properties = EvidenceFields
      BY <1>2, ShippedSchemaOf, ObjectClosed DEF EvidenceSchema
    <2>2. DOMAIN EvidenceFields =
             {"evidence_id", "source_id", "claim_id", "direction", "independence_group",
              "quality_dimensions", "strength_category", "gating_flaw"}
      BY DEF EvidenceFields
    <2> QED
      BY <2>1, <2>2
  <1>3. CASE k = "sources"
    BY <1>3, ShippedSchemaOf, ObjectClosed DEF SourceSchema
  <1>4. CASE k = "assumptions"
    BY <1>4, ShippedSchemaOf, ObjectClosed DEF AssumptionSchema, Texts
  <1>5. CASE k = "unknowns"
    BY <1>5, ShippedSchemaOf, ObjectClosed DEF UnknownSchema, Texts
  <1>6. CASE k = "contradictions"
    BY <1>6, ShippedSchemaOf, ObjectClosed DEF ContradictionSchema, TwoTexts
  <1>7. CASE k = "verdicts"
    BY <1>7, ShippedSchemaOf, ObjectClosed DEF VerdictSchema
  <1>8. CASE k = "mission"
    BY <1>8, ShippedSchemaOf, ObjectClosed DEF MissionSchema
  <1> QED
    BY EveryKind, <1>1, <1>2, <1>3, <1>4, <1>5, <1>6, <1>7, <1>8

\* The lists in a record of a shipped schema are lists.
LEMMA ListFields ==
    ASSUME NEW k \in Kinds, NEW r, Validates(ShippedSchemas[k], r),
           NEW f \in {"supporting_evidence", "contradicting_evidence",
                      "claims_affected", "in_conflict"} \cap DOMAIN r
    PROVE  r[f] # Malformed
  BY ObjectHeld, ShippedClosed, ListFieldSchemas, TypedHeld

-----------------------------------------------------------------------------
(* The gates of a run.                                                     *)

\* The schemas of a run are shipped, or refused.
SoundOrRefused(schemas) ==
    \A k \in Kinds :
       schemas[k] = ShippedSchemas[k] \/ UnsupportedKeywords(schemas[k]) # {}

\* Every record of a dataset is valid by the shipped schema of its kind.
Conforming(norm) ==
    \A k \in Kinds : \A r \in ToSet(ListsOf(norm)[k]) : Validates(ShippedSchemas[k], r)

\* An event of a blocking rule is an error.
LEMMA ErrorIs ==
    ASSUME NEW events, NEW rule \in BlockingRules, NEW target, Event(rule, target) \in events
    PROVE  HasError(events)
  <1>1. Event(rule, target).rule = rule
    BY DEF Event
  <1> QED
    BY <1>1 DEF HasError

\* What passes the schema gate conforms: a schema that cannot be interpreted, or a
\* record that violates one, is an error.
LEMMA GateHeld ==
    ASSUME NEW norm, NEW schemas, SoundOrRefused(schemas),
           ~HasError(SchemaEvents(norm, schemas))
    PROVE  Conforming(norm)
  <1> SUFFICES ASSUME NEW k \in Kinds, NEW r \in ToSet(ListsOf(norm)[k]),
                      ~Validates(ShippedSchemas[k], r)
               PROVE  FALSE
    BY DEF Conforming
  <1> DEFINE interpreted == {j \in Kinds : UnsupportedKeywords(schemas[j]) = {}}
             Violating(j) == {q \in ToSet(ListsOf(norm)[j]) : ~Validates(schemas[j], q)}
             Refusals == {Event("R-SCHEMA-UNSUPPORTED-KEYWORD", j) : j \in Kinds \ interpreted}
             Errors(j) == {Event("R-SCHEMA", IdOf(j, q)) : q \in Violating(j)}
  <1>1. SchemaEvents(norm, schemas) = Refusals \cup UNION {Errors(j) : j \in interpreted}
    BY DEF SchemaEvents
  <1>2. {"R-SCHEMA-UNSUPPORTED-KEYWORD", "R-SCHEMA"} \subseteq BlockingRules
    BY DEF BlockingRules
  <1>3. k \in interpreted
    <2> SUFFICES ASSUME k \notin interpreted PROVE FALSE
      OBVIOUS
    <2>1. Event("R-SCHEMA-UNSUPPORTED-KEYWORD", k) \in SchemaEvents(norm, schemas)
      BY <1>1
    <2> QED
      BY <2>1, <1>2, ErrorIs
  <1>4. schemas[k] = ShippedSchemas[k]
    BY <1>3 DEF SoundOrRefused
  <1>5. Event("R-SCHEMA", IdOf(k, r)) \in Errors(k)
    BY <1>4
  <1>6. Event("R-SCHEMA", IdOf(k, r)) \in SchemaEvents(norm, schemas)
    BY <1>1, <1>3, <1>5
  <1> QED
    BY <1>6, <1>2, ErrorIs

LEMMA ListOfKind ==
    ASSUME NEW norm, NEW k \in Collections
    PROVE  k \in Kinds /\ ListsOf(norm)[k] = norm[k]
  BY DEF Collections, Kinds, ListsOf

\* No rule throws on records that conform.
LEMMA NoRuleThrows ==
    ASSUME NEW norm, Conforming(norm)
    PROVE  ~RulesThrow(norm)
  <1> SUFFICES ASSUME NEW k \in Collections, NEW r \in ToSet(norm[k]),
                      \/ r = Malformed
                      \/ \E f \in {"supporting_evidence", "contradicting_evidence",
                                   "claims_affected", "in_conflict"} \cap DOMAIN r :
                            r[f] = Malformed
               PROVE  FALSE
    BY DEF RulesThrow
  <1>1. k \in Kinds /\ Validates(ShippedSchemas[k], r)
    BY ListOfKind DEF Conforming
  <1>2. r # Malformed
    BY <1>1, ObjectHeld, ShippedClosed
  <1> QED
    BY <1>1, <1>2, ListFields

\* A dataset is blocked at its envelope, at the schema gate or by a rule.
Blocked(dataset, with) ==
    \/ EnvelopeErrors(dataset) # {}
    \/ HasError(SchemaEvents(Normalise(dataset), with.schemas))
    \/ HasError(RunSemanticRules(Normalise(dataset)))

\* The exit code of a run is 2 under a contract that is not understood, and else
\* says whether the dataset is blocked.
LEMMA ExitOf ==
    ASSUME NEW dataset, NEW with, SoundOrRefused(with.schemas)
    PROVE  ValidateDataset(dataset, with).exit =
              IF ContractProblems(with.contract) # {} THEN 2
              ELSE IF Blocked(dataset, with) THEN 1 ELSE 0
  <1> DEFINE norm == Normalise(dataset)
             gate == SchemaEvents(norm, with.schemas)
             events == RunSemanticRules(norm)
  <1>0. \A exit, evs : Result(exit, evs).exit = exit /\ Result(exit, evs).events = evs
    BY DEF Result
  <1>1. CASE ContractProblems(with.contract) # {}
    BY <1>0, <1>1 DEF ValidateDataset
  <1>2. CASE ContractProblems(with.contract) = {} /\ EnvelopeErrors(dataset) # {}
    BY <1>0, <1>2 DEF ValidateDataset, Blocked
  <1>3. CASE /\ ContractProblems(with.contract) = {} /\ EnvelopeErrors(dataset) = {}
             /\ HasError(gate)
    BY <1>0, <1>3 DEF ValidateDataset, Blocked
  <1>4. CASE /\ ContractProblems(with.contract) = {} /\ EnvelopeErrors(dataset) = {}
             /\ ~HasError(gate)
    <2>1. ~RulesThrow(norm)
      BY <1>4, GateHeld, NoRuleThrows
    <2>2. ValidateDataset(dataset, with) = Result(IF HasError(events) THEN 1 ELSE 0, events)
      BY <1>4, <2>1 DEF ValidateDataset
    <2>3. Blocked(dataset, with) <=> HasError(events)
      BY <1>4 DEF Blocked
    <2> QED
      BY <1>0, <1>4, <2>2, <2>3
  <1> QED
    BY <1>1, <1>2, <1>3, <1>4

\* What a dataset that passes has passed.
LEMMA PassedMeans ==
    ASSUME NEW dataset, NEW with, SoundOrRefused(with.schemas),
           ValidateDataset(dataset, with).exit = 0
    PROVE  /\ Conforming(Normalise(dataset))
           /\ EnvelopeErrors(dataset) = {}
           /\ ~HasError(RunSemanticRules(Normalise(dataset)))
           /\ ValidateDataset(dataset, with).events = RunSemanticRules(Normalise(dataset))
  <1>1. ContractProblems(with.contract) = {} /\ ~Blocked(dataset, with)
    BY ExitOf
  <1>2. Conforming(Normalise(dataset))
    BY <1>1, GateHeld DEF Blocked
  <1>3. ~RulesThrow(Normalise(dataset))
    BY <1>2, NoRuleThrows
  <1>4. ValidateDataset(dataset, with).events = RunSemanticRules(Normalise(dataset))
    BY <1>1, <1>3 DEF ValidateDataset, Blocked, Result
  <1> QED
    BY <1>1, <1>2, <1>4 DEF Blocked

-----------------------------------------------------------------------------
(* What the file and the report of it can be.                              *)

\* A list of a dataset is a list or no list at all.
WellListed(dataset) ==
    \A k \in Collections \cap DOMAIN dataset :
       dataset[k] = Malformed \/ dataset[k] \in Lists

FileInv ==
    /\ setup \in DOMAIN Setups
    /\ file # NoFile =>
          /\ DOMAIN file \subseteq Fields
          /\ \A p \in DOMAIN file : file[p] \in Contents
          /\ WellListed(file)
    /\ report = <<>> \/ report = <<Main(file, Setups[setup])>>

LEMMA SoundSetups ==
    ASSUME NEW s \in DOMAIN Setups
    PROVE  SoundOrRefused(Setups[s].schemas)
  BY SetupsAssumption DEF SoundOrRefused

LEMMA InitFileInv == Init => FileInv
  <1> SUFFICES ASSUME Init PROVE FileInv
    OBVIOUS
  <1>1. setup \in DOMAIN Setups /\ report = <<>>
    BY DEF Init
  <1>2. ASSUME file # NoFile
        PROVE  /\ DOMAIN file \subseteq Fields
               /\ \A p \in DOMAIN file : file[p] \in Contents
               /\ WellListed(file)
    <2>1. file \in Envelopes \ {NoFile}
      BY <1>2 DEF Init
    <2>2. <<>> \in Lists
      BY DEF Lists
    <2>3. WellListed(file)
      BY <2>1, <2>2, EnvelopesAssumption DEF WellListed
    <2>4. DOMAIN file \subseteq Fields
      BY <2>1 DEF Fields
    <2>5. \A p \in DOMAIN file : file[p] \in Contents
      <3> SUFFICES ASSUME NEW p \in DOMAIN file PROVE file[p] \in Contents
        OBVIOUS
      <3>1. CASE p \in Collections
        BY <2>3, <3>1 DEF Contents, WellListed
      <3>2. CASE p \notin Collections
        <4>1. file[p] \in {file[q] : q \in DOMAIN file \ Collections}
          BY <3>2
        <4> QED
          BY <2>1, <4>1 DEF Contents
      <3> QED
        BY <3>1, <3>2
    <2> QED
      BY <2>3, <2>4, <2>5
  <1> QED
    BY <1>1, <1>2 DEF FileInv

-----------------------------------------------------------------------------
(* The errors among the events of the semantic rules.                      *)

Grades(norm, c) ==
    {e.strength_category : e \in {f \in SupportOf(norm, c) : "strength_category" \in DOMAIN f}}

Repeats(norm) == RepeatedIds(norm, Collections \ {"verdicts"}) # {}

Misdirected(norm) ==
    \E c \in ToSet(norm.claims) : \E id \in Ids(norm, "evidence") :
       \/ /\ id \in ToSet(ListOf(c, "supporting_evidence"))
          /\ EvidenceById(norm, id).direction # "Supports"
       \/ /\ id \in ToSet(ListOf(c, "contradicting_evidence"))
          /\ EvidenceById(norm, id).direction = "Supports"

Unbacked(norm) ==
    \E c \in Claims(norm, PositiveVerdicts) : ToSet(ListOf(c, "supporting_evidence")) = {}

Overrated(norm) ==
    \E c \in Claims(norm, {"Confirmed"}) :
       Grades(norm, c) # {} /\ Grades(norm, c) \cap Strong = {}

Contradicted(norm) ==
    \E c \in Claims(norm, {"Confirmed"}) : \E x \in ContradictionsOf(norm, c) :
       x.resolution_status = "Material-remains"

Fatal(norm) ==
    \E c \in Claims(norm, {"Confirmed"}) : \E a \in AssumptionsOf(norm, c) :
       a.risk_if_false = "Fatal" /\ a.status = "Open"

ClosedEarly(norm) ==
    /\ norm.mission.completion_status \in {"Conditions-met", "Closed"}
    /\ \E u \in ToSet(norm.unknowns) : u.blocks_decision /\ u.status # "Resolved"

Faulty(norm) ==
    \/ Repeats(norm) \/ RuleXref(norm) # {} \/ Misdirected(norm) \/ Unbacked(norm)
    \/ Overrated(norm) \/ Contradicted(norm) \/ Fatal(norm) \/ ClosedEarly(norm)

\* Rules that raise errors and nothing else, and the one of reviews.
LEMMA RuleNames ==
    ASSUME NEW norm
    PROVE  /\ \A e \in RuleXref(norm) : e.rule = "R-XREF"
           /\ \A e \in RuleLineage(norm) \cup RuleConfidence(norm) \cup RuleRevenueProven(norm)
                       \cup RuleOrphanSource(norm) : e.rule \notin BlockingRules
  <1>0. \A rule, target : Event(rule, target).rule = rule
    BY DEF Event
  <1>1. \A e \in RuleXref(norm) : e.rule = "R-XREF"
    BY <1>0 DEF RuleXref
  <1>2. \A e \in RuleLineage(norm) : e.rule = "R-LINEAGE-FALSE-INDEP"
    BY <1>0 DEF RuleLineage
  <1>3. \A e \in RuleConfidence(norm) : e.rule = "R-CONFIDENCE-CONSISTENCY"
    BY <1>0 DEF RuleConfidence
  <1>4. \A e \in RuleRevenueProven(norm) : e.rule = "R-REVENUE-PROVEN-REVIEW"
    BY <1>0 DEF RuleRevenueProven
  <1>5. \A e \in RuleOrphanSource(norm) : e.rule = "R-ORPHAN-SOURCE"
    BY <1>0 DEF RuleOrphanSource
  <1> QED
    BY <1>1, <1>2, <1>3, <1>4, <1>5 DEF BlockingRules

\* A fault is an error, and there is no other.
LEMMA ErrorsAreFaults ==
    ASSUME NEW norm
    PROVE  HasError(RunSemanticRules(norm)) <=> Faulty(norm)
  <1> DEFINE events == RunSemanticRules(norm)
  <1>0. /\ \A rule, target : Event(rule, target).rule = rule
        /\ {"R-ID-UNIQUE", "R-XREF", "R-UNSUPPORTED-REF", "R-CONFIRMED-NEEDS-EVIDENCE",
            "R-VERDICT-CEILING", "R-CONTRADICTION-MATERIAL", "R-ASSUMPTION-FATAL",
            "R-UNKNOWN-BLOCKING"} \subseteq BlockingRules
        /\ "R-VERDICT-STRENGTH-UNKNOWN" \notin BlockingRules
        /\ "R-CONTRADICTION-OPEN" \notin BlockingRules
    BY DEF Event, BlockingRules
  <1>1. Repeats(norm) <=> HasError(RuleIdUnique(norm))
    BY <1>0 DEF Repeats, RuleIdUnique, HasError
  <1>2. RuleXref(norm) # {} <=> HasError(RuleXref(norm))
    BY <1>0, RuleNames DEF HasError
  <1>3. Misdirected(norm) <=> HasError(RuleUnsupportedRef(norm))
    BY <1>0 DEF Misdirected, RuleUnsupportedRef, HasError
  <1>4. Unbacked(norm) <=> HasError(RuleNeedsEvidence(norm))
    BY <1>0 DEF Unbacked, RuleNeedsEvidence, HasError
  <1>5. Overrated(norm) <=> HasError(RuleVerdictCeiling(norm))
    BY <1>0 DEF Overrated, RuleVerdictCeiling, HasError, Grades
  <1>6. Contradicted(norm) <=> HasError(RuleContradiction(norm))
    BY <1>0 DEF Contradicted, RuleContradiction, HasError
  <1>7. Fatal(norm) <=> HasError(RuleAssumptionFatal(norm))
    BY <1>0 DEF Fatal, RuleAssumptionFatal, HasError
  <1>8. ClosedEarly(norm) <=> HasError(RuleUnknownBlocking(norm))
    BY <1>0 DEF ClosedEarly, RuleUnknownBlocking, HasError
  <1>9. HasError(events) <=>
           \/ HasError(RuleIdUnique(norm)) \/ HasError(RuleXref(norm))
           \/ HasError(RuleUnsupportedRef(norm)) \/ HasError(RuleNeedsEvidence(norm))
           \/ HasError(RuleVerdictCeiling(norm)) \/ HasError(RuleContradiction(norm))
           \/ HasError(RuleAssumptionFatal(norm)) \/ HasError(RuleUnknownBlocking(norm))
    BY RuleNames DEF HasError, RunSemanticRules
  <1> QED
    BY <1>1, <1>2, <1>3, <1>4, <1>5, <1>6, <1>7, <1>8, <1>9 DEF Faulty

-----------------------------------------------------------------------------
(* Errors of a dataset stay in every dataset that its records are part of, *)
(* wherever they are there, unless they were references that dangled.      *)

PlacedAt(f, norm, more, k) ==
    \A i \in DOMAIN norm[k] :
       /\ more[k][f[i]] = norm[k][i]
       /\ \A j \in DOMAIN norm[k] : f[i] = f[j] => i = j

PartOf(norm, more) ==
    /\ more.mission = norm.mission
    /\ \A k \in Collections :
          \E f \in [DOMAIN norm[k] -> DOMAIN more[k]] : PlacedAt(f, norm, more, k)

Sequenced(norm) == \A k \in Collections : norm[k] \in Lists

LEMMA IdsAre ==
    ASSUME NEW norm, NEW k \in Collections
    PROVE  /\ \A id : id \in Ids(norm, k) <=>
                     \E r \in ToSet(norm[k]) : r[IdField[k]] = id
           /\ \A i \in DOMAIN norm[k] : IdsIn(norm, k)[i] = norm[k][i][IdField[k]]
  BY DEF Ids, IdsIn, ToSet

LEMMA PartSets ==
    ASSUME NEW norm, NEW more, PartOf(norm, more), NEW k \in Collections
    PROVE  /\ ToSet(norm[k]) \subseteq ToSet(more[k])
           /\ Ids(norm, k) \subseteq Ids(more, k)
  <1>1. ToSet(norm[k]) \subseteq ToSet(more[k])
    BY DEF PartOf, PlacedAt, ToSet
  <1> QED
    BY <1>1, IdsAre

\* An id that is repeated stays repeated.
LEMMA RepeatsStay ==
    ASSUME NEW norm, NEW more, PartOf(norm, more), Repeats(norm)
    PROVE  Repeats(more)
  <1> DEFINE kinds == Collections \ {"verdicts"}
             Twice(n, k) ==
                {id \in Ids(n, k) :
                   \E i, j \in DOMAIN n[k] :
                      i # j /\ IdsIn(n, k)[i] = id /\ IdsIn(n, k)[j] = id}
             Shared(n, k) == Ids(n, k) \cap UNION {Ids(n, other) : other \in kinds \ {k}}
  <1>1. \A n : RepeatedIds(n, kinds) = UNION {Twice(n, k) \cup Shared(n, k) : k \in kinds}
    BY DEF RepeatedIds
  <1>2. PICK k \in kinds : Twice(norm, k) \cup Shared(norm, k) # {}
    <2>1. UNION {Twice(norm, k) \cup Shared(norm, k) : k \in kinds} # {}
      BY <1>1 DEF Repeats
    <2> QED
      BY <2>1
  <1>3. PICK id : id \in Twice(norm, k) \cup Shared(norm, k)
    BY <1>2
  <1>4. id \in Twice(norm, k) => id \in Twice(more, k)
    <2> SUFFICES ASSUME id \in Twice(norm, k) PROVE id \in Twice(more, k)
      OBVIOUS
    <2>1. PICK i \in DOMAIN norm[k], j \in DOMAIN norm[k] :
             i # j /\ IdsIn(norm, k)[i] = id /\ IdsIn(norm, k)[j] = id
      OBVIOUS
    <2>2. PICK f \in [DOMAIN norm[k] -> DOMAIN more[k]] : PlacedAt(f, norm, more, k)
      BY DEF PartOf
    <2>3. f[i] \in DOMAIN more[k] /\ f[j] \in DOMAIN more[k] /\ f[i] # f[j]
      BY <2>1, <2>2 DEF PlacedAt
    <2>4. IdsIn(more, k)[f[i]] = id /\ IdsIn(more, k)[f[j]] = id
      BY <2>1, <2>2, <2>3, IdsAre DEF PlacedAt
    <2>5. id \in Ids(more, k)
      BY PartSets
    <2> QED
      BY <2>3, <2>4, <2>5
  <1>5. id \in Shared(norm, k) => id \in Shared(more, k)
    <2> SUFFICES ASSUME id \in Shared(norm, k) PROVE id \in Shared(more, k)
      OBVIOUS
    <2>1. PICK other \in kinds \ {k} : id \in Ids(norm, other)
      OBVIOUS
    <2>2. id \in Ids(more, k) /\ id \in Ids(more, other)
      BY <2>1, PartSets
    <2> QED
      BY <2>1, <2>2
  <1>6. id \in UNION {Twice(more, j) \cup Shared(more, j) : j \in kinds}
    BY <1>3, <1>4, <1>5
  <1> QED
    BY <1>1, <1>6 DEF Repeats

\* While no id is repeated, the index finds every evidence record under its id.
LEMMA ById ==
    ASSUME NEW norm, Sequenced(norm), ~Repeats(norm), NEW e \in ToSet(norm.evidence)
    PROVE  EvidenceById(norm, e.evidence_id) = e
  <1> DEFINE list == norm.evidence
             Latest(i) ==
                /\ list[i].evidence_id = e.evidence_id
                /\ \A j \in DOMAIN list : j > i => list[j].evidence_id # e.evidence_id
  <1>1. \A i, j \in DOMAIN list : list[i].evidence_id = list[j].evidence_id => i = j
    <2> SUFFICES ASSUME NEW i \in DOMAIN list, NEW j \in DOMAIN list, i # j,
                        list[i].evidence_id = list[j].evidence_id
                 PROVE  FALSE
      OBVIOUS
    <2>1. "evidence" \in Collections \ {"verdicts"} /\ IdField["evidence"] = "evidence_id"
      BY DEF Collections, IdField
    <2>2. IdsIn(norm, "evidence")[i] = IdsIn(norm, "evidence")[j]
      BY <2>1, IdsAre
    <2>3. IdsIn(norm, "evidence")[i] \in Ids(norm, "evidence")
      BY DEF Ids, IdsIn, ToSet
    <2>4. IdsIn(norm, "evidence")[i] \in RepeatedIds(norm, Collections \ {"verdicts"})
      BY <2>1, <2>2, <2>3 DEF RepeatedIds
    <2> QED
      BY <2>4 DEF Repeats
  <1>2. DOMAIN list \subseteq Nat
    <2>1. list \in Lists
      BY DEF Sequenced, Collections
    <2> QED
      BY <2>1 DEF Lists
  <1>3. PICK i \in DOMAIN list : list[i] = e
    BY DEF ToSet
  <1>4. Latest(i)
    BY <1>1, <1>2, <1>3
  <1>5. \A j \in DOMAIN list : Latest(j) => j = i
    BY <1>1, <1>3
  <1>6. (CHOOSE j \in DOMAIN list : Latest(j)) = i
    BY <1>3, <1>4, <1>5
  <1>7. EvidenceById(norm, e.evidence_id) = list[CHOOSE j \in DOMAIN list : Latest(j)]
    BY DEF EvidenceById
  <1> QED
    BY <1>3, <1>6, <1>7

\* Where no reference dangles, every item of evidence a claim lists resolves.
LEMMA NothingDangles ==
    ASSUME NEW norm, RuleXref(norm) = {}, NEW c \in ToSet(norm.claims)
    PROVE  ToSet(ListOf(c, "supporting_evidence")) \subseteq Ids(norm, "evidence")
  <1> SUFFICES ASSUME ~ToSet(ListOf(c, "supporting_evidence")) \subseteq Ids(norm, "evidence")
               PROVE  FALSE
    OBVIOUS
  <1>1. Event("R-XREF", c[IdField["claims"]]) \in RuleXref(norm)
    BY DEF RuleXref
  <1> QED
    BY <1>1

\* A record of evidence keeps its place in the index.
LEMMA SameRecord ==
    ASSUME NEW norm, NEW more, PartOf(norm, more), Sequenced(norm), Sequenced(more),
           ~Repeats(more), NEW id \in Ids(norm, "evidence")
    PROVE  EvidenceById(more, id) = EvidenceById(norm, id)
  <1>1. "evidence" \in Collections /\ IdField["evidence"] = "evidence_id"
    BY DEF Collections, IdField
  <1>2. PICK e \in ToSet(norm.evidence) : e.evidence_id = id
    BY <1>1, IdsAre
  <1>3. e \in ToSet(more.evidence)
    BY <1>1, PartSets
  <1>4. ~Repeats(norm)
    BY RepeatsStay
  <1> QED
    BY <1>2, <1>3, <1>4, ById

\* What a claim rests on stays what it was.
LEMMA SameGrades ==
    ASSUME NEW norm, NEW more, PartOf(norm, more), Sequenced(norm), Sequenced(more),
           ~Repeats(more), RuleXref(norm) = {}, NEW c \in ToSet(norm.claims)
    PROVE  Grades(more, c) = Grades(norm, c)
  <1> DEFINE list == ListOf(c, "supporting_evidence")
  <1>1. \A i \in DOMAIN list : list[i] \in Ids(norm, "evidence")
    BY NothingDangles DEF ToSet
  <1>2. "evidence" \in Collections
    BY DEF Collections
  <1>3. \A i \in DOMAIN list : list[i] \in Ids(more, "evidence")
    BY <1>1, <1>2, PartSets
  <1>4. Resolved(norm, c) = DOMAIN list /\ Resolved(more, c) = DOMAIN list
    BY <1>1, <1>3 DEF Resolved
  <1>5. \A i \in DOMAIN list : c.supporting_evidence[i] = list[i]
    BY DEF ListOf
  <1>6. \A i \in DOMAIN list :
           EvidenceById(more, c.supporting_evidence[i])
           = EvidenceById(norm, c.supporting_evidence[i])
    BY <1>1, <1>5, SameRecord
  <1>7. SupportOf(more, c) = SupportOf(norm, c)
    BY <1>4, <1>6 DEF SupportOf
  <1> QED
    BY <1>7 DEF Grades

\* A fault stays a fault.
LEMMA FaultsStay ==
    ASSUME NEW norm, NEW more, PartOf(norm, more), Sequenced(norm), Sequenced(more),
           Faulty(norm), RuleXref(norm) = {}
    PROVE  Faulty(more)
  <1> SUFFICES ASSUME ~Repeats(more) PROVE Faulty(more)
    BY DEF Faulty
  <1>1. \A k \in Collections : ToSet(norm[k]) \subseteq ToSet(more[k])
    BY PartSets
  <1>2. {"claims", "evidence", "unknowns", "contradictions", "assumptions"} \subseteq Collections
    BY DEF Collections
  <1>3. \A verdicts : Claims(norm, verdicts) \subseteq Claims(more, verdicts)
    BY <1>1, <1>2 DEF Claims
  <1>4. CASE Repeats(norm)
    BY <1>4, RepeatsStay
  <1>5. CASE Misdirected(norm)
    <2>1. PICK c \in ToSet(norm.claims) : \E id \in Ids(norm, "evidence") :
             \/ /\ id \in ToSet(ListOf(c, "supporting_evidence"))
                /\ EvidenceById(norm, id).direction # "Supports"
             \/ /\ id \in ToSet(ListOf(c, "contradicting_evidence"))
                /\ EvidenceById(norm, id).direction = "Supports"
      BY <1>5 DEF Misdirected
    <2>2. PICK id \in Ids(norm, "evidence") :
             \/ /\ id \in ToSet(ListOf(c, "supporting_evidence"))
                /\ EvidenceById(norm, id).direction # "Supports"
             \/ /\ id \in ToSet(ListOf(c, "contradicting_evidence"))
                /\ EvidenceById(norm, id).direction = "Supports"
      BY <2>1
    <2>3. EvidenceById(more, id) = EvidenceById(norm, id)
      BY SameRecord
    <2>4. c \in ToSet(more.claims) /\ id \in Ids(more, "evidence")
      BY <1>1, <1>2, PartSets
    <2> QED
      BY <2>2, <2>3, <2>4 DEF Misdirected, Faulty
  <1>6. CASE Unbacked(norm)
    BY <1>3, <1>6 DEF Unbacked, Faulty
  <1>7. CASE Overrated(norm)
    <2>1. PICK c \in Claims(norm, {"Confirmed"}) :
             Grades(norm, c) # {} /\ Grades(norm, c) \cap Strong = {}
      BY <1>7 DEF Overrated
    <2>2. Grades(more, c) = Grades(norm, c)
      BY SameGrades DEF Claims
    <2> QED
      BY <1>3, <2>1, <2>2 DEF Overrated, Faulty
  <1>8. CASE Contradicted(norm)
    <2>1. \A c : ContradictionsOf(norm, c) \subseteq ContradictionsOf(more, c)
      BY <1>1, <1>2 DEF ContradictionsOf
    <2> QED
      BY <1>3, <1>8, <2>1 DEF Contradicted, Faulty
  <1>9. CASE Fatal(norm)
    <2>1. \A c : AssumptionsOf(norm, c) \subseteq AssumptionsOf(more, c)
      BY <1>1, <1>2 DEF AssumptionsOf
    <2> QED
      BY <1>3, <1>9, <2>1 DEF Fatal, Faulty
  <1>10. CASE ClosedEarly(norm)
    BY <1>1, <1>2, <1>10 DEF ClosedEarly, Faulty, PartOf
  <1> QED
    BY <1>4, <1>5, <1>6, <1>7, <1>8, <1>9, <1>10 DEF Faulty

\* So does a record or a schema that the schema gate stops at.
LEMMA GateStays ==
    ASSUME NEW norm, NEW more, PartOf(norm, more), NEW schemas,
           HasError(SchemaEvents(norm, schemas))
    PROVE  HasError(SchemaEvents(more, schemas))
  <1> DEFINE interpreted == {j \in Kinds : UnsupportedKeywords(schemas[j]) = {}}
             Violating(n, j) == {q \in ToSet(ListsOf(n)[j]) : ~Validates(schemas[j], q)}
             Refusals == {Event("R-SCHEMA-UNSUPPORTED-KEYWORD", j) : j \in Kinds \ interpreted}
             Errors(n, j) == {Event("R-SCHEMA", IdOf(j, q)) : q \in Violating(n, j)}
  <1>1. \A n : SchemaEvents(n, schemas)
                = Refusals \cup UNION {Errors(n, j) : j \in interpreted}
    BY DEF SchemaEvents
  <1>2. \A j \in Kinds : ToSet(ListsOf(norm)[j]) \subseteq ToSet(ListsOf(more)[j])
    <2> SUFFICES ASSUME NEW j \in Kinds
                 PROVE  ToSet(ListsOf(norm)[j]) \subseteq ToSet(ListsOf(more)[j])
      OBVIOUS
    <2>1. CASE j = "mission"
      BY <2>1 DEF ListsOf, PartOf
    <2>2. CASE j # "mission"
      BY <2>2, ListOfKind, PartSets DEF Kinds
    <2> QED
      BY <2>1, <2>2
  <1>3. \A j \in interpreted : Errors(norm, j) \subseteq Errors(more, j)
    BY <1>2
  <1>4. SchemaEvents(norm, schemas) \subseteq SchemaEvents(more, schemas)
    BY <1>1, <1>3
  <1> QED
    BY <1>4 DEF HasError

-----------------------------------------------------------------------------
(* Datasets whose lists are lists, written the other way round and grown.  *)

LEMMA NormalisedKind ==
    ASSUME NEW dataset, NEW k \in Kinds
    PROVE  Normalise(dataset)[k] = IF k \in DOMAIN dataset THEN dataset[k] ELSE <<>>
  BY DEF Normalise

\* Past the envelope every list is one.
LEMMA NormalisedLists ==
    ASSUME NEW dataset, WellListed(dataset), EnvelopeErrors(dataset) = {}
    PROVE  Sequenced(Normalise(dataset))
  <1>1. \A p \in DOMAIN dataset : dataset[p] # Malformed
    <2> SUFFICES ASSUME NEW p \in DOMAIN dataset, dataset[p] = Malformed PROVE FALSE
      OBVIOUS
    <2>1. Event("R-ENVELOPE", p) \in EnvelopeErrors(dataset)
      BY DEF EnvelopeErrors
    <2> QED
      BY <2>1
  <1>2. <<>> \in Lists
    BY DEF Lists
  <1>3. Collections \subseteq Kinds
    BY DEF Kinds
  <1> QED
    BY <1>1, <1>2, <1>3, NormalisedKind DEF Sequenced, WellListed

LEMMA ReversedList ==
    ASSUME NEW S, NEW s \in Seq(S)
    PROVE  /\ Reverse(s) \in Seq(S)
           /\ DOMAIN Reverse(s) = DOMAIN s
           /\ \A i \in DOMAIN s : /\ Len(s) - i + 1 \in DOMAIN s
                                 /\ Reverse(s)[Len(s) - i + 1] = s[i]
                                 /\ s[Len(s) - i + 1] = Reverse(s)[i]
  <1>1. DOMAIN s = 1..Len(s) /\ Len(s) \in Nat
    OBVIOUS
  <1>2. Reverse(s) = [i \in 1..Len(s) |-> s[Len(s) - i + 1]]
    BY DEF Reverse
  <1>3. \A i \in 1..Len(s) : /\ Len(s) - i + 1 \in 1..Len(s)
                             /\ Len(s) - (Len(s) - i + 1) + 1 = i
    BY <1>1
  <1>4. \A i \in 1..Len(s) : s[i] \in S
    OBVIOUS
  <1>5. Reverse(s) \in [1..Len(s) -> S]
    BY <1>2, <1>3, <1>4
  <1>6. Reverse(s) \in Seq(S)
    BY <1>1, <1>5
  <1> QED
    BY <1>1, <1>2, <1>3, <1>6

\* A list is part of its reverse and its reverse of it.
LEMMA ReversePlaced ==
    ASSUME NEW norm, NEW more, NEW k, norm[k] \in Lists, more[k] = Reverse(norm[k])
    PROVE  /\ more[k] \in Lists
           /\ \E f \in [DOMAIN norm[k] -> DOMAIN more[k]] : PlacedAt(f, norm, more, k)
           /\ \E f \in [DOMAIN more[k] -> DOMAIN norm[k]] : PlacedAt(f, more, norm, k)
  <1> DEFINE s == norm[k]
             f == [i \in DOMAIN s |-> Len(s) - i + 1]
  <1>1. /\ Reverse(s) \in Lists
        /\ DOMAIN Reverse(s) = DOMAIN s
        /\ \A i \in DOMAIN s : /\ Len(s) - i + 1 \in DOMAIN s
                              /\ Reverse(s)[Len(s) - i + 1] = s[i]
                              /\ s[Len(s) - i + 1] = Reverse(s)[i]
    BY ReversedList DEF Lists
  <1>2. DOMAIN s \subseteq Nat /\ Len(s) \in Nat
    BY DEF Lists
  <1>3. f \in [DOMAIN s -> DOMAIN s]
    BY <1>1
  <1>4. \A i, j \in DOMAIN s : f[i] = f[j] => i = j
    BY <1>2
  <1>5. PlacedAt(f, norm, more, k) /\ PlacedAt(f, more, norm, k)
    BY <1>1, <1>4 DEF PlacedAt
  <1> QED
    BY <1>1, <1>3, <1>5

LEMMA PartReversed ==
    ASSUME NEW norm, NEW more, Sequenced(norm), more.mission = norm.mission,
           \A k \in Collections : more[k] = Reverse(norm[k])
    PROVE  Sequenced(more) /\ PartOf(norm, more) /\ PartOf(more, norm)
  BY ReversePlaced DEF Sequenced, PartOf

\* References dangle or not whatever the order of the lists.
LEMMA SameXref ==
    ASSUME NEW norm, NEW more, PartOf(norm, more), PartOf(more, norm)
    PROVE  RuleXref(more) = RuleXref(norm)
  <1>1. \A k \in Collections : ToSet(more[k]) = ToSet(norm[k]) /\ Ids(more, k) = Ids(norm, k)
    <2> SUFFICES ASSUME NEW k \in Collections
                 PROVE  ToSet(more[k]) = ToSet(norm[k]) /\ Ids(more, k) = Ids(norm, k)
      OBVIOUS
    <2>1. ToSet(norm[k]) \subseteq ToSet(more[k]) /\ Ids(norm, k) \subseteq Ids(more, k)
      BY PartSets
    <2>2. ToSet(more[k]) \subseteq ToSet(norm[k]) /\ Ids(more, k) \subseteq Ids(norm, k)
      BY PartSets
    <2> QED
      BY <2>1, <2>2
  <1>2. {"claims", "evidence", "sources", "assumptions", "unknowns", "contradictions",
         "verdicts"} \subseteq Collections
    BY DEF Collections
  <1> QED
    BY <1>1, <1>2 DEF RuleXref

\* Two datasets that are part of each other are blocked alike past the envelope.
LEMMA SameFate ==
    ASSUME NEW norm, NEW more, Sequenced(norm), Sequenced(more),
           PartOf(norm, more), PartOf(more, norm), NEW schemas
    PROVE  /\ HasError(SchemaEvents(norm, schemas)) <=> HasError(SchemaEvents(more, schemas))
           /\ HasError(RunSemanticRules(norm)) <=> HasError(RunSemanticRules(more))
  <1>1. HasError(SchemaEvents(norm, schemas)) <=> HasError(SchemaEvents(more, schemas))
    BY GateStays
  <1>2. RuleXref(more) = RuleXref(norm)
    BY SameXref
  <1>3. Faulty(norm) <=> Faulty(more)
    BY <1>2, FaultsStay DEF Faulty
  <1> QED
    BY <1>1, <1>3, ErrorsAreFaults

\* A dataset and its reverse pass the envelope alike.
LEMMA ReorderedEnvelope ==
    ASSUME NEW dataset, WellListed(dataset)
    PROVE  /\ WellListed(Reordered(dataset))
           /\ EnvelopeErrors(Reordered(dataset)) = EnvelopeErrors(dataset)
  <1>1. /\ DOMAIN Reordered(dataset) = DOMAIN dataset
        /\ \A k \in DOMAIN dataset :
              Reordered(dataset)[k] = IF k \in Collections /\ dataset[k] # Malformed
                                      THEN Reverse(dataset[k]) ELSE dataset[k]
    BY DEF Reordered
  <1>2. \A k \in Collections \cap DOMAIN dataset :
           dataset[k] # Malformed => Reordered(dataset)[k] \in Lists
    BY <1>1, ReversedList DEF WellListed, Lists
  <1>3. WellListed(Reordered(dataset))
    BY <1>1, <1>2 DEF WellListed
  <1>4. \A p \in DOMAIN dataset : Reordered(dataset)[p] = Malformed <=> dataset[p] = Malformed
    BY <1>1, <1>2, AbsenceAssumption
  <1>5. {p \in DOMAIN Reordered(dataset) : Reordered(dataset)[p] = Malformed}
        = {p \in DOMAIN dataset : dataset[p] = Malformed}
    BY <1>1, <1>4
  <1>6. EnvelopeErrors(Reordered(dataset)) = EnvelopeErrors(dataset)
    BY <1>1, <1>5 DEF EnvelopeErrors
  <1> QED
    BY <1>3, <1>6

LEMMA ReorderedBlocked ==
    ASSUME NEW dataset, WellListed(dataset), NEW with
    PROVE  Blocked(Reordered(dataset), with) <=> Blocked(dataset, with)
  <1> DEFINE norm == Normalise(dataset)
             more == Normalise(Reordered(dataset))
  <1>1. EnvelopeErrors(Reordered(dataset)) = EnvelopeErrors(dataset)
    BY ReorderedEnvelope
  <1> SUFFICES ASSUME EnvelopeErrors(dataset) = {}
               PROVE  Blocked(Reordered(dataset), with) <=> Blocked(dataset, with)
    BY <1>1 DEF Blocked
  <1>2. Sequenced(norm) /\ \A p \in Collections \cap DOMAIN dataset : dataset[p] # Malformed
    <2>1. \A p \in DOMAIN dataset : dataset[p] = Malformed
                                   => Event("R-ENVELOPE", p) \in EnvelopeErrors(dataset)
      BY DEF EnvelopeErrors
    <2> QED
      BY <2>1, NormalisedLists
  <1>3. Reverse(<<>>) = <<>>
    BY DEF Reverse
  <1>4. DOMAIN Reordered(dataset) = DOMAIN dataset
    BY DEF Reordered
  <1>5. \A k \in Collections : more[k] = Reverse(norm[k])
    <2> SUFFICES ASSUME NEW k \in Collections PROVE more[k] = Reverse(norm[k])
      OBVIOUS
    <2>1. k \in Kinds
      BY DEF Kinds
    <2>2. CASE k \in DOMAIN dataset
      BY <1>2, <1>4, <2>1, <2>2, NormalisedKind DEF Reordered
    <2>3. CASE k \notin DOMAIN dataset
      BY <1>3, <1>4, <2>1, <2>3, NormalisedKind
    <2> QED
      BY <2>2, <2>3
  <1>6. more.mission = norm.mission
    <2>1. "mission" \in Kinds /\ "mission" \notin Collections
      BY DEF Kinds, Collections
    <2>2. "mission" \in DOMAIN dataset => Reordered(dataset)["mission"] = dataset["mission"]
      BY <2>1 DEF Reordered
    <2> QED
      BY <1>4, <2>1, <2>2, NormalisedKind
  <1>7. Sequenced(more) /\ PartOf(norm, more) /\ PartOf(more, norm)
    BY <1>2, <1>5, <1>6, PartReversed
  <1> QED
    BY <1>1, <1>2, <1>7, SameFate DEF Blocked

\* A record that is added is added at the end of its list, and nothing else changes.
LEMMA RecordAdded ==
    ASSUME FileInv, NEW k \in Collections, NEW r \in NewRecords[k], AddRecord(k, r)
    PROVE  /\ file # NoFile /\ file' # NoFile /\ setup' = setup /\ report' = <<>>
           /\ DOMAIN file' = DOMAIN file \cup {k}
           /\ \A p \in DOMAIN file \ {k} : file'[p] = file[p]
           /\ k \in DOMAIN file => file[k] \in Lists /\ file'[k] = Append(file[k], r)
           /\ k \notin DOMAIN file => file'[k] = Append(<<>>, r)
           /\ WellListed(file')
           /\ DOMAIN file' \subseteq Fields /\ \A p \in DOMAIN file' : file'[p] \in Contents
  <1> DEFINE list == IF k \in DOMAIN file THEN file[k] ELSE <<>>
             Added == UNION {NewRecords[j] : j \in Collections}
  <1>1. /\ file # NoFile /\ setup' = setup /\ report' = <<>> /\ list # Malformed
        /\ file' = [p \in DOMAIN file \cup {k} |-> IF p = k THEN Append(list, r) ELSE file[p]]
    BY DEF AddRecord
  <1>2. list \in Lists
    <2>1. <<>> \in Lists
      BY DEF Lists
    <2>2. k \in DOMAIN file => file[k] = Malformed \/ file[k] \in Lists
      BY <1>1 DEF FileInv, WellListed
    <2> QED
      BY <1>1, <2>1, <2>2
  <1>3. Append(list, r) \in Lists
    <2>1. r \in Added
      OBVIOUS
    <2>2. Lists = Seq(Added)
      BY DEF Lists
    <2> HIDE DEF list, Added
    <2> QED
      BY <1>2, <2>1, <2>2
  <1>4. /\ DOMAIN file' = DOMAIN file \cup {k}
        /\ \A p \in DOMAIN file \ {k} : file'[p] = file[p]
        /\ file'[k] = Append(list, r)
    BY <1>1
  <1>5. WellListed(file')
    BY <1>1, <1>3, <1>4 DEF WellListed, FileInv
  <1>6. DOMAIN file' \subseteq Fields
    BY <1>1, <1>4 DEF FileInv, Fields
  <1>7. \A p \in DOMAIN file' : file'[p] \in Contents
    BY <1>1, <1>3, <1>4 DEF FileInv, Contents
  <1>8. file' # NoFile
    <2>1. file' \in [DOMAIN file' -> Contents]
      BY <1>1, <1>7
    <2> QED
      BY <1>6, <2>1, AbsenceAssumption
  <1> QED
    BY <1>1, <1>2, <1>4, <1>5, <1>6, <1>7, <1>8

LEMMA NextFileInv == FileInv /\ [Next]_vars => FileInv'
  <1> SUFFICES ASSUME FileInv, [Next]_vars PROVE FileInv'
    OBVIOUS
  <1>1. CASE Validate
    <2>1. setup' = setup /\ file' = file /\ report' = <<Main(file', Setups[setup'])>>
      BY <1>1 DEF Validate
    <2> QED
      BY <2>1 DEF FileInv
  <1>2. ASSUME NEW k \in Collections, NEW r \in NewRecords[k], AddRecord(k, r)
        PROVE  FileInv'
    BY <1>2, RecordAdded DEF FileInv
  <1>3. CASE UNCHANGED vars
    BY <1>3 DEF FileInv, vars
  <1> QED
    BY <1>1, <1>2, <1>3 DEF Next

\* A file that is there keeps lists that are lists, and the report is none or that
\* of the file as it is.
LEMMA FileInvariant == Spec => []FileInv
  BY InitFileInv, NextFileInv, PTL DEF Spec

\* Exit 2 is never about what a dataset holds.
LEMMA FileInvNeverCrashes == FileInv => ContentNeverCrashes
  <1> SUFFICES ASSUME FileInv, report # <<>>, report[1].exit = 2, file # NoFile
               PROVE  ContractProblems(Setups[setup].contract) # {}
    BY DEF ContentNeverCrashes
  <1>1. report[1] = ValidateDataset(file, Setups[setup])
    BY DEF FileInv, Main
  <1>2. SoundOrRefused(Setups[setup].schemas)
    BY SoundSetups DEF FileInv
  <1> QED
    BY <1>1, <1>2, ExitOf

\* Whatever a dataset holds, no rule is given something it would throw on: the
\* schema gate stops every record with a field that is no list (validate.mjs).
THEOREM ContentNeverCrashesAlways == Spec => []ContentNeverCrashes
  BY FileInvariant, FileInvNeverCrashes, PTL

LEMMA FileInvIgnoresOrder == FileInv => ExitIgnoresOrder
  <1> SUFFICES ASSUME FileInv, report # <<>>, file # NoFile
               PROVE  ValidateDataset(Reordered(file), Setups[setup]).exit = report[1].exit
    BY DEF ExitIgnoresOrder
  <1>1. report[1] = ValidateDataset(file, Setups[setup])
    BY DEF FileInv, Main
  <1>2. SoundOrRefused(Setups[setup].schemas)
    BY SoundSetups DEF FileInv
  <1>3. Blocked(Reordered(file), Setups[setup]) <=> Blocked(file, Setups[setup])
    BY ReorderedBlocked DEF FileInv
  <1> QED
    BY <1>1, <1>2, <1>3, ExitOf

\* The exit code does not depend on the order of the records, although of two with
\* one id the index keeps the later: the repeated id blocks in either order.
THEOREM ExitIgnoresOrderAlways == Spec => []ExitIgnoresOrder
  BY FileInvariant, FileInvIgnoresOrder, PTL

-----------------------------------------------------------------------------
(* Writing more does not unblock.                                          *)

LEMMA AppendedList ==
    ASSUME NEW S, NEW list \in Seq(S), NEW r
    PROVE  /\ DOMAIN list \subseteq DOMAIN Append(list, r)
           /\ \A i \in DOMAIN list : Append(list, r)[i] = list[i]
  OBVIOUS

\* The dataset before is part of the dataset after.
LEMMA AddedPartOf ==
    ASSUME FileInv, NEW k \in Collections, NEW r \in NewRecords[k], AddRecord(k, r),
           EnvelopeErrors(file) = {}, EnvelopeErrors(file') = {}
    PROVE  PartOf(Normalise(file), Normalise(file'))
  <1> DEFINE norm == Normalise(file)
             more == Normalise(file')
  <1>1. /\ DOMAIN file' = DOMAIN file \cup {k}
        /\ \A p \in DOMAIN file \ {k} : file'[p] = file[p]
        /\ k \in DOMAIN file => file[k] \in Lists /\ file'[k] = Append(file[k], r)
        /\ k \notin DOMAIN file => file'[k] = Append(<<>>, r)
    BY RecordAdded
  <1>2. Sequenced(norm)
    BY NormalisedLists, RecordAdded DEF FileInv
  <1>3. Collections \subseteq Kinds /\ "mission" \in Kinds \ Collections
    BY DEF Kinds, Collections
  <1>4. more.mission = norm.mission
    BY <1>1, <1>3, NormalisedKind
  <1>5. \A j \in Collections : /\ DOMAIN norm[j] \subseteq DOMAIN more[j]
                              /\ \A i \in DOMAIN norm[j] : more[j][i] = norm[j][i]
    <2> SUFFICES ASSUME NEW j \in Collections
                 PROVE  /\ DOMAIN norm[j] \subseteq DOMAIN more[j]
                        /\ \A i \in DOMAIN norm[j] : more[j][i] = norm[j][i]
      OBVIOUS
    <2>1. CASE j # k
      <3>1. more[j] = norm[j]
        BY <1>1, <1>3, <2>1, NormalisedKind
      <3> QED
        BY <3>1
    <2>2. CASE j = k
      <3>1. more[k] = Append(norm[k], r)
        BY <1>1, <1>3, NormalisedKind
      <3>2. norm[k] \in Lists
        BY <1>2 DEF Sequenced
      <3> HIDE DEF norm, more
      <3> QED
        BY <2>2, <3>1, <3>2, AppendedList DEF Lists
    <2> QED
      BY <2>1, <2>2
  <1>6. \A j \in Collections :
           \E f \in [DOMAIN norm[j] -> DOMAIN more[j]] : PlacedAt(f, norm, more, j)
    <2> SUFFICES ASSUME NEW j \in Collections
                 PROVE  \E f \in [DOMAIN norm[j] -> DOMAIN more[j]] : PlacedAt(f, norm, more, j)
      OBVIOUS
    <2> DEFINE f == [i \in DOMAIN norm[j] |-> i]
    <2>1. f \in [DOMAIN norm[j] -> DOMAIN more[j]]
      BY <1>5
    <2>2. PlacedAt(f, norm, more, j)
      BY <1>5 DEF PlacedAt
    <2> QED
      BY <2>1, <2>2
  <1> QED
    BY <1>4, <1>6 DEF PartOf

\* An envelope that is refused stays refused.
LEMMA EnvelopeStays ==
    ASSUME FileInv, NEW k \in Collections, NEW r \in NewRecords[k], AddRecord(k, r),
           EnvelopeErrors(file) # {}
    PROVE  EnvelopeErrors(file') # {}
  <1> DEFINE Required == {"validator_dataset_version", "mission"}
             Known == Kinds \cup {"validator_dataset_version"}
  <1>1. /\ DOMAIN file' = DOMAIN file \cup {k}
        /\ \A p \in DOMAIN file \ {k} : file'[p] = file[p]
        /\ k \in DOMAIN file => file[k] \in Lists
    BY RecordAdded
  <1>2. PICK p : \/ p \in Required \ DOMAIN file
                 \/ p \in DOMAIN file \ Known
                 \/ p \in DOMAIN file /\ file[p] = Malformed
    BY DEF EnvelopeErrors
  <1>3. k \notin Required
    BY DEF Collections
  <1>4. CASE p \in Required \ DOMAIN file
    BY <1>1, <1>3, <1>4 DEF EnvelopeErrors
  <1>5. CASE p \in DOMAIN file \ Known
    <2>1. p \in DOMAIN file' \ Known
      BY <1>1, <1>5
    <2>2. Event("R-ENVELOPE", p) \in EnvelopeErrors(file')
      BY <2>1 DEF EnvelopeErrors
    <2> QED
      BY <2>2
  <1>6. CASE p \in DOMAIN file /\ file[p] = Malformed
    <2>1. p # k
      BY <1>1, <1>6, AbsenceAssumption
    <2>2. p \in DOMAIN file' /\ file'[p] = Malformed
      BY <1>1, <1>6, <2>1
    <2> QED
      BY <2>2 DEF EnvelopeErrors
  <1> QED
    BY <1>2, <1>4, <1>5, <1>6

LEMMA BlockedStays ==
    ASSUME FileInv, NEW k \in Collections, NEW r \in NewRecords[k], AddRecord(k, r),
           Main(file, Setups[setup]).exit = 1,
           \A e \in Main(file, Setups[setup]).events : e.rule # "R-XREF"
    PROVE  Main(file', Setups[setup']).exit = 1
  <1> DEFINE with == Setups[setup]
             norm == Normalise(file)
             more == Normalise(file')
  <1>1. SoundOrRefused(with.schemas)
    BY SoundSetups DEF FileInv
  <1>2. /\ file # NoFile /\ file' # NoFile /\ setup' = setup
        /\ WellListed(file) /\ WellListed(file')
    BY RecordAdded DEF FileInv
  <1>3. /\ Main(file, with) = ValidateDataset(file, with)
        /\ Main(file', Setups[setup']) = ValidateDataset(file', with)
    BY <1>2 DEF Main
  <1>4. ContractProblems(with.contract) = {} /\ Blocked(file, with)
    <2>1. ValidateDataset(file, with).exit = 1
      BY <1>3
    <2>2. ValidateDataset(file, with).exit =
             IF ContractProblems(with.contract) # {} THEN 2
             ELSE IF Blocked(file, with) THEN 1 ELSE 0
      BY <1>1, ExitOf
    <2> QED
      BY <2>1, <2>2
  <1>5. Blocked(file', with)
    <2>1. CASE EnvelopeErrors(file) # {}
      BY <2>1, EnvelopeStays DEF Blocked
    <2>2. CASE EnvelopeErrors(file) = {} /\ EnvelopeErrors(file') = {}
      <3>1. PartOf(norm, more)
        BY <2>2, AddedPartOf
      <3>2. CASE HasError(SchemaEvents(norm, with.schemas))
        BY <3>1, <3>2, GateStays DEF Blocked
      <3>3. CASE ~HasError(SchemaEvents(norm, with.schemas))
        <4>1. ~RulesThrow(norm)
          BY <1>1, <3>3, GateHeld, NoRuleThrows
        <4>2. Main(file, with).events = RunSemanticRules(norm)
          BY <1>3, <1>4, <2>2, <3>3, <4>1 DEF ValidateDataset, Result
        <4>3. RuleXref(norm) = {}
          BY <4>2, RuleNames DEF RunSemanticRules
        <4>4. Faulty(norm)
          BY <1>4, <2>2, <3>3, ErrorsAreFaults DEF Blocked
        <4>5. Sequenced(norm) /\ Sequenced(more)
          BY <1>2, <2>2, NormalisedLists
        <4>6. Faulty(more)
          BY <3>1, <4>3, <4>4, <4>5, FaultsStay
        <4> QED
          BY <4>6, ErrorsAreFaults DEF Blocked
      <3> QED
        BY <3>2, <3>3
    <2>3. CASE EnvelopeErrors(file') # {}
      BY <2>3 DEF Blocked
    <2> QED
      BY <2>1, <2>2, <2>3
  <1> QED
    BY <1>1, <1>3, <1>4, <1>5, ExitOf

LEMMA StepStaysBlocked ==
    FileInv /\ [Next]_vars
    => [LET before == Main(file, Setups[setup])
        IN  /\ file' # file /\ before.exit = 1
            /\ \A e \in before.events : e.rule # "R-XREF"
            => Main(file', Setups[setup']).exit = 1]_vars
  <1> SUFFICES ASSUME FileInv, [Next]_vars, file' # file,
                      Main(file, Setups[setup]).exit = 1,
                      \A e \in Main(file, Setups[setup]).events : e.rule # "R-XREF"
               PROVE  Main(file', Setups[setup']).exit = 1
    OBVIOUS
  <1>1. PICK k \in Collections : \E r \in NewRecords[k] : AddRecord(k, r)
    BY DEF Next, Validate, vars
  <1>2. PICK r \in NewRecords[k] : AddRecord(k, r)
    BY <1>1
  <1> QED
    BY <1>2, BlockedStays

\* A dataset with an error that is no dangling reference fails every later run,
\* whatever records are added to it.
THEOREM BlockedStaysBlockedAlways == Spec => BlockedStaysBlocked
  <1>1. FileInv /\ [Next]_vars
        => [LET before == Main(file, Setups[setup])
            IN  /\ file' # file /\ before.exit = 1
                /\ \A e \in before.events : e.rule # "R-XREF"
                => Main(file', Setups[setup']).exit = 1]_vars
    BY StepStaysBlocked
  <1> QED
    BY <1>1, FileInvariant, PTL DEF Spec, BlockedStaysBlocked

-----------------------------------------------------------------------------
(* What a dataset that passes has earned.                                  *)

\* A claim of high materiality was reviewed, on a day of the calendar.
LEMMA MaterialReviewed ==
    ASSUME NEW c, Validates(ClaimSchema, c), c.materiality \in {"L3", "L4"}
    PROVE  /\ ReviewFields \subseteq DOMAIN c
           /\ c.last_reviewed.day <= DaysIn(c.last_reviewed.year, c.last_reviewed.month)
  <1>1. ClosedObject(ClaimSchema) /\ ClaimSchema.properties = ClaimFields
    BY DEF ClosedObject, ClaimSchema
  <1>2. c # Malformed /\ \A p \in DOMAIN c : ValidAt3(ClaimFields[p], c[p])
    BY <1>1, ObjectHeld
  <1>3. ValidAt3(ReviewIfMaterial, c)
    <2>1. "allOf" \in DOMAIN ClaimSchema /\ ClaimSchema.allOf = <<ReviewIfMaterial>>
      BY DEF ClaimSchema
    <2>2. \A i \in DOMAIN ClaimSchema.allOf : ValidAt3(ClaimSchema.allOf[i], c)
      BY <2>1 DEF Validates, Interpret
    <2> QED
      BY <2>1, <2>2
  <1> DEFINE If == [properties |-> [materiality |-> OneOf({"L3", "L4"})]]
             Then == [required |-> ReviewFields]
  <1>4. ReviewIfMaterial = [if |-> If, then |-> Then]
    BY DEF ReviewIfMaterial
  <1>5. ValidAt2(If, c) => ValidAt2(Then, c)
    <2> HIDE DEF If, Then
    <2> QED
      BY <1>3, <1>4 DEF ValidAt3, Interpret
  <1>6. ValidAt1(OneOf({"L3", "L4"}), c.materiality)
    BY DEF ValidAt1, Interpret, OneOf
  <1>7. ValidAt2(If, c)
    BY <1>6 DEF ValidAt2, Interpret
  <1>8. ReviewFields \subseteq DOMAIN c
    BY <1>2, <1>5, <1>7 DEF ValidAt2, Interpret
  <1>9. ValidAt3(Day, c.last_reviewed)
    <2>1. ClaimFields["last_reviewed"] = Day
      BY DEF ClaimFields
    <2>2. "last_reviewed" \in DOMAIN c
      BY <1>8 DEF ReviewFields
    <2> QED
      BY <1>2, <2>1, <2>2
  <1>10. IsValidDate(c.last_reviewed)
    BY <1>9 DEF ValidAt3, Interpret, Day
  <1>11. c.last_reviewed.day \in 1..DaysIn(c.last_reviewed.year, c.last_reviewed.month)
    BY <1>10 DEF IsValidDate
  <1>12. DaysIn(c.last_reviewed.year, c.last_reviewed.month) \in Int
    BY DEF DaysIn
  <1> QED
    BY <1>8, <1>11, <1>12

\* A contradiction is between two at least.
LEMMA ConflictOfTwo ==
    ASSUME NEW x, Validates(ContradictionSchema, x)
    PROVE  Len(x.in_conflict) >= 2
  <1>1. ClosedObject(ContradictionSchema)
    BY ObjectClosed DEF ContradictionSchema
  <1>2. /\ "in_conflict" \in ContradictionSchema.required
        /\ ContradictionSchema.properties["in_conflict"] = TwoTexts
    BY ObjectClosed DEF ContradictionSchema
  <1>3. ValidAt3(TwoTexts, x.in_conflict)
    BY <1>1, <1>2, ObjectHeld
  <1> QED
    BY <1>3 DEF ValidAt3, Interpret, TwoTexts

\* The evidence a rule looks up for a claim is the evidence that bears an id the
\* claim cites, and there is some.
LEMMA SupportIsCited ==
    ASSUME NEW norm, Sequenced(norm), ~Faulty(norm), NEW c \in Claims(norm, {"Confirmed"})
    PROVE  LET cited == {e \in ToSet(norm.evidence) :
                           e.evidence_id \in ToSet(c.supporting_evidence)}
           IN  /\ cited # {}
               /\ SupportOf(norm, c) = cited
               /\ \A e \in cited : e.direction = "Supports"
  <1> DEFINE list == ListOf(c, "supporting_evidence")
             cited == {e \in ToSet(norm.evidence) :
                         e.evidence_id \in ToSet(c.supporting_evidence)}
  <1>1. c \in ToSet(norm.claims) /\ c \in Claims(norm, PositiveVerdicts)
    BY DEF Claims, PositiveVerdicts
  <1>2. /\ ~Repeats(norm) /\ RuleXref(norm) = {} /\ ~Misdirected(norm) /\ ~Unbacked(norm)
    BY DEF Faulty
  <1>3. ToSet(list) # {}
    BY <1>1, <1>2 DEF Unbacked
  <1>4. list = c.supporting_evidence
    BY <1>3 DEF ListOf, ToSet
  <1>5. ToSet(list) \subseteq Ids(norm, "evidence")
    BY <1>1, <1>2, NothingDangles
  <1>6. \A id \in ToSet(list) :
           /\ \E e \in ToSet(norm.evidence) : e.evidence_id = id
           /\ EvidenceById(norm, id) \in cited
    <2> SUFFICES ASSUME NEW id \in ToSet(list)
                 PROVE  /\ \E e \in ToSet(norm.evidence) : e.evidence_id = id
                        /\ EvidenceById(norm, id) \in cited
      OBVIOUS
    <2>1. "evidence" \in Collections /\ IdField["evidence"] = "evidence_id"
      BY DEF Collections, IdField
    <2>2. PICK e \in ToSet(norm.evidence) : e.evidence_id = id
      BY <1>5, <2>1, IdsAre
    <2>3. EvidenceById(norm, id) = e
      BY <1>2, <2>2, ById
    <2> QED
      BY <1>4, <2>2, <2>3
  <1>7. cited # {}
    BY <1>3, <1>6
  <1>8. \A e \in cited : EvidenceById(norm, e.evidence_id) = e
    BY <1>2, ById
  <1>9. Resolved(norm, c) = DOMAIN list
    BY <1>5 DEF Resolved, ToSet
  <1>10. SupportOf(norm, c) = {EvidenceById(norm, list[i]) : i \in DOMAIN list}
    BY <1>4, <1>9 DEF SupportOf
  <1>11. SupportOf(norm, c) \subseteq cited
    BY <1>6, <1>10 DEF ToSet
  <1>12. cited \subseteq SupportOf(norm, c)
    <2> SUFFICES ASSUME NEW e \in cited PROVE e \in SupportOf(norm, c)
      OBVIOUS
    <2>1. PICK i \in DOMAIN list : list[i] = e.evidence_id
      BY <1>4 DEF ToSet
    <2> QED
      BY <1>8, <1>10, <2>1
  <1>13. \A e \in cited : e.direction = "Supports"
    <2> SUFFICES ASSUME NEW e \in cited, e.direction # "Supports" PROVE FALSE
      OBVIOUS
    <2>1. e.evidence_id \in ToSet(list) /\ e.evidence_id \in Ids(norm, "evidence")
      BY <1>4, <1>5
    <2>2. EvidenceById(norm, e.evidence_id).direction # "Supports"
      BY <1>8
    <2> QED
      BY <1>1, <1>2, <2>1, <2>2 DEF Misdirected
  <1> QED
    BY <1>7, <1>11, <1>12, <1>13

\* Without an error a confirmed claim has a strong item among the graded ones, or
\* no graded one, and then somebody is asked to look.
LEMMA GradesEarned ==
    ASSUME NEW norm, ~Faulty(norm), NEW c \in Claims(norm, {"Confirmed"})
    PROVE  LET graded == {e \in SupportOf(norm, c) : "strength_category" \in DOMAIN e}
           IN  IF graded = {}
               THEN Event("R-VERDICT-STRENGTH-UNKNOWN", c.claim_id) \in RunSemanticRules(norm)
               ELSE \E e \in graded : e.strength_category \in Strong
  <1> DEFINE graded == {e \in SupportOf(norm, c) : "strength_category" \in DOMAIN e}
  <1>1. Grades(norm, c) = {e.strength_category : e \in graded}
    BY DEF Grades
  <1>2. CASE graded = {}
    <2>1. Event("R-VERDICT-STRENGTH-UNKNOWN", c.claim_id) \in RuleVerdictCeiling(norm)
      BY <1>2 DEF RuleVerdictCeiling
    <2> QED
      BY <1>2, <2>1 DEF RunSemanticRules
  <1>3. CASE graded # {}
    <2>1. Grades(norm, c) # {}
      BY <1>1, <1>3
    <2>2. Grades(norm, c) \cap Strong # {}
      BY <2>1 DEF Faulty, Overrated
    <2> QED
      BY <1>1, <1>3, <2>2
  <1> QED
    BY <1>2, <1>3

LEMMA FileInvPassIsEarned == FileInv => PassIsEarned
  <1> SUFFICES ASSUME FileInv, Passed PROVE PassIsEarned
    BY DEF PassIsEarned
  <1> DEFINE norm == Normalise(file)
             with == Setups[setup]
  <1>1. file # NoFile /\ report[1] = ValidateDataset(file, with)
    BY DEF FileInv, Passed, Main, Result
  <1>2. /\ Conforming(norm) /\ EnvelopeErrors(file) = {}
        /\ ~HasError(RunSemanticRules(norm))
        /\ report[1].events = RunSemanticRules(norm)
    <2>1. SoundOrRefused(with.schemas)
      BY SoundSetups DEF FileInv
    <2>2. ValidateDataset(file, with).exit = 0
      BY <1>1 DEF Passed
    <2> QED
      BY <1>1, <2>1, <2>2, PassedMeans
  <1>3. ~Faulty(norm)
    BY <1>2, ErrorsAreFaults
  <1>4. Sequenced(norm)
    BY <1>1, <1>2, NormalisedLists DEF FileInv
  <1>5. \A k : Records(k) = ToSet(norm[k])
    BY DEF Records
  <1>6. ASSUME NEW c \in Claims(norm, {"Confirmed"})
        PROVE  LET cited == {e \in Records("evidence") :
                               e.evidence_id \in ToSet(c.supporting_evidence)}
                   graded == {e \in cited : "strength_category" \in DOMAIN e}
               IN  /\ cited # {}
                   /\ \A e \in cited : e.direction = "Supports"
                   /\ IF graded = {} THEN Raises("R-VERDICT-STRENGTH-UNKNOWN", c.claim_id)
                      ELSE \E e \in graded : e.strength_category \in Strong
                   /\ \A x \in Records("contradictions") :
                         c.claim_id \in ToSet(x.in_conflict)
                         => x.resolution_status # "Material-remains"
                   /\ \A a \in Records("assumptions") :
                         c.claim_id \in ToSet(ListOf(a, "claims_affected"))
                         => ~(a.risk_if_false = "Fatal" /\ a.status = "Open")
    <2> DEFINE cited == {e \in ToSet(norm.evidence) :
                           e.evidence_id \in ToSet(c.supporting_evidence)}
               graded == {e \in cited : "strength_category" \in DOMAIN e}
    <2>1. /\ cited # {} /\ SupportOf(norm, c) = cited
          /\ \A e \in cited : e.direction = "Supports"
      BY <1>3, <1>4, SupportIsCited
    <2>2. IF graded = {}
          THEN Event("R-VERDICT-STRENGTH-UNKNOWN", c.claim_id) \in RunSemanticRules(norm)
          ELSE \E e \in graded : e.strength_category \in Strong
      BY <1>3, <2>1, GradesEarned
    <2>3. \A x \in ToSet(norm.contradictions) :
             c.claim_id \in ToSet(x.in_conflict) => x.resolution_status # "Material-remains"
      BY <1>3 DEF Faulty, Contradicted, ContradictionsOf
    <2>4. \A a \in ToSet(norm.assumptions) :
             c.claim_id \in ToSet(ListOf(a, "claims_affected"))
             => ~(a.risk_if_false = "Fatal" /\ a.status = "Open")
      BY <1>3 DEF Faulty, Fatal, AssumptionsOf
    <2> QED
      BY <1>2, <1>5, <2>1, <2>2, <2>3, <2>4 DEF Raises
  <1>7. ASSUME file.mission.completion_status \in {"Conditions-met", "Closed"},
               NEW u \in Records("unknowns"), u.blocks_decision
        PROVE  u.status = "Resolved"
    <2>1. "mission" \in DOMAIN file
      <3> SUFFICES ASSUME "mission" \notin DOMAIN file PROVE FALSE
        OBVIOUS
      <3>1. Event("R-ENVELOPE", "mission") \in EnvelopeErrors(file)
        BY DEF EnvelopeErrors
      <3> QED
        BY <1>2, <3>1
    <2>2. norm.mission = file.mission
      BY <2>1, NormalisedKind DEF Kinds
    <2> QED
      BY <1>3, <1>5, <1>7, <2>2 DEF Faulty, ClosedEarly
  <1>8. ASSUME NEW c \in Records("claims"), c.materiality \in {"L3", "L4"}
        PROVE  /\ ReviewFields \subseteq DOMAIN c
               /\ c.last_reviewed.day <= DaysIn(c.last_reviewed.year, c.last_reviewed.month)
    <2>1. "claims" \in Collections
      BY DEF Collections
    <2>2. Validates(ClaimSchema, c)
      BY <1>2, <1>5, <2>1, ListOfKind, ShippedSchemaOf DEF Conforming
    <2> QED
      BY <1>8, <2>2, MaterialReviewed
  <1>9. ASSUME NEW x \in Records("contradictions")
        PROVE  Len(x.in_conflict) >= 2
    <2>1. "contradictions" \in Collections
      BY DEF Collections
    <2>2. Validates(ContradictionSchema, x)
      BY <1>2, <1>5, <2>1, ListOfKind, ShippedSchemaOf DEF Conforming
    <2> QED
      BY <2>2, ConflictOfTwo
  <1> QED
    BY <1>6, <1>7, <1>8, <1>9 DEF PassIsEarned

\* A dataset the validator lets pass keeps what a confirmed verdict, a closed mission
\* and a claim of high materiality promise.
THEOREM PassIsEarnedAlways == Spec => []PassIsEarned
  BY FileInvariant, FileInvPassIsEarned, PTL

-----------------------------------------------------------------------------
(* The shipped schemas are schemas the validator interprets.               *)

\* Keywords that hold no schema.
Leaf == {"type", "required", "enum", "pattern", "minLength", "minimum", "maximum",
         "minItems"}

LEMMA LeafAt1 ==
    ASSUME NEW s, DOMAIN s \subseteq Leaf
    PROVE  UnsupportedAt1(s) = {}
  BY DEF UnsupportedAt1, UnsupportedIn, Leaf, SupportedKeywords

LEMMA LeafAt2 ==
    ASSUME NEW s, DOMAIN s \subseteq Leaf
    PROVE  UnsupportedAt2(s) = {}
  BY DEF UnsupportedAt2, UnsupportedIn, Leaf, SupportedKeywords

LEMMA LeafAt3 ==
    ASSUME NEW s, DOMAIN s \subseteq Leaf
    PROVE  UnsupportedAt3(s) = {}
  BY DEF UnsupportedAt3, UnsupportedIn, Leaf, SupportedKeywords

LEMMA FieldKinds ==
    ASSUME NEW ids
    PROVE  /\ DOMAIN Text \subseteq Leaf
           /\ DOMAIN Score \subseteq Leaf
           /\ DOMAIN OneOf(ids) \subseteq Leaf
           /\ DOMAIN IdLike(ids) \subseteq Leaf
           /\ DOMAIN [type |-> "boolean"] \subseteq Leaf
           /\ DOMAIN [type |-> "string", minLength |-> 1] \subseteq Leaf
  <1>1. DOMAIN Text \subseteq Leaf
    BY DEF Text, Leaf
  <1>2. DOMAIN Score \subseteq Leaf
    BY DEF Score, Leaf
  <1>3. DOMAIN OneOf(ids) \subseteq Leaf
    BY DEF OneOf, Leaf
  <1>4. DOMAIN IdLike(ids) \subseteq Leaf
    BY DEF IdLike, Leaf
  <1>5. DOMAIN [type |-> "boolean"] \subseteq Leaf
    BY DEF Leaf
  <1>6. DOMAIN [type |-> "string", minLength |-> 1] \subseteq Leaf
    BY DEF Leaf
  <1> QED
    BY <1>1, <1>2, <1>3, <1>4, <1>5, <1>6

LEMMA DayAt3 == UnsupportedAt3(Day) = {}
  <1>1. DOMAIN Day = {"type", "format"} /\ Day.format = "date"
    BY DEF Day
  <1> QED
    BY <1>1 DEF UnsupportedAt3, UnsupportedIn, SupportedKeywords

LEMMA ListAt3 ==
    ASSUME NEW s, DOMAIN s \subseteq Leaf \cup {"items"},
           "items" \in DOMAIN s => s["items"] = Text
    PROVE  UnsupportedAt3(s) = {}
  <1>1. UnsupportedAt2(Text) = {}
    BY LeafAt2, FieldKinds
  <1> QED
    BY <1>1 DEF UnsupportedAt3, UnsupportedIn, SupportedKeywords, Leaf

LEMMA TextsAt3 == UnsupportedAt3(Texts) = {} /\ UnsupportedAt3(TwoTexts) = {}
  <1>1. DOMAIN Texts \subseteq Leaf \cup {"items"} /\ Texts["items"] = Text
    BY DEF Texts, Leaf
  <1>2. DOMAIN TwoTexts \subseteq Leaf \cup {"items"} /\ TwoTexts["items"] = Text
    BY DEF TwoTexts, Leaf
  <1> QED
    BY <1>1, <1>2, ListAt3

\* An object schema one level up is interpreted when its fields are.
LEMMA ObjectAt3 ==
    ASSUME NEW s, DOMAIN s \subseteq Leaf \cup {"properties", "additionalProperties"},
           "additionalProperties" \in DOMAIN s =>
              s.additionalProperties = Closed \/ UnsupportedAt2(s.additionalProperties) = {},
           "properties" \in DOMAIN s =>
              \A p \in DOMAIN s.properties : UnsupportedAt2(s.properties[p]) = {}
    PROVE  UnsupportedAt3(s) = {}
  BY DEF UnsupportedAt3, UnsupportedIn, SupportedKeywords, Leaf

LEMMA QualityAt3 == UnsupportedAt3(QualityDimensions) = {}
  <1> DEFINE fields == [independence |-> Score]
  <1>1. \A p \in DOMAIN fields : UnsupportedAt2(fields[p]) = {}
    BY LeafAt2, FieldKinds
  <1> HIDE DEF fields
  <1>2. /\ DOMAIN QualityDimensions \subseteq Leaf \cup {"properties", "additionalProperties"}
        /\ QualityDimensions.additionalProperties = Closed
        /\ QualityDimensions.properties = fields
    BY DEF QualityDimensions, Leaf, fields
  <1> QED
    BY <1>1, <1>2, ObjectAt3

LEMMA GlossaryAt3 ==
    UnsupportedAt3([type |-> "object", additionalProperties |-> Text]) = {}
  <1>1. UnsupportedAt2(Text) = {}
    BY LeafAt2, FieldKinds
  <1> DEFINE s == [type |-> "object", additionalProperties |-> Text]
  <1>2. /\ DOMAIN s \subseteq Leaf \cup {"properties", "additionalProperties"}
        /\ s.additionalProperties = Text /\ "properties" \notin DOMAIN s
    BY DEF Leaf
  <1> HIDE DEF s
  <1>3. UnsupportedAt3(s) = {}
    BY <1>1, <1>2, ObjectAt3
  <1> QED
    BY <1>3 DEF s

\* The condition in a claim's allOf, one, two and three levels down.
LEMMA ConditionAt3 == UnsupportedAt3(ReviewIfMaterial) = {}
  <1> DEFINE fields == [materiality |-> OneOf({"L3", "L4"})]
             condition == [properties |-> fields]
             consequence == [required |-> ReviewFields]
  <1>1. \A p \in DOMAIN fields : UnsupportedAt1(fields[p]) = {}
    BY LeafAt1, FieldKinds
  <1>2. DOMAIN consequence \subseteq Leaf
    BY DEF Leaf
  <1>3. UnsupportedAt2(consequence) = {}
    BY <1>2, LeafAt2
  <1>4. DOMAIN condition = {"properties"} /\ condition.properties = fields
    OBVIOUS
  <1> HIDE DEF fields
  <1>5. ReviewIfMaterial = [if |-> condition, then |-> consequence]
    BY DEF ReviewIfMaterial, fields
  <1> HIDE DEF condition, consequence
  <1>6. UnsupportedAt2(condition) = {}
    BY <1>1, <1>4 DEF UnsupportedAt2, UnsupportedIn, SupportedKeywords
  <1>7. /\ DOMAIN ReviewIfMaterial = {"if", "then"}
        /\ ReviewIfMaterial["if"] = condition /\ ReviewIfMaterial["then"] = consequence
    BY <1>5
  <1> QED
    BY <1>3, <1>6, <1>7 DEF UnsupportedAt3, UnsupportedIn, SupportedKeywords

\* A shipped schema is a closed object whose fields are interpreted.
LEMMA ObjectInterpreted ==
    ASSUME NEW required, NEW fields,
           \A p \in DOMAIN fields : UnsupportedAt3(fields[p]) = {}
    PROVE  UnsupportedKeywords(Object(required, fields)) = {}
  <1>1. LET s == Object(required, fields)
        IN  /\ DOMAIN s = {"type", "additionalProperties", "required", "properties"}
            /\ s.additionalProperties = Closed /\ s.properties = fields
    BY DEF Object
  <1> QED
    BY <1>1 DEF UnsupportedKeywords, UnsupportedIn, SupportedKeywords

\* The kinds of field the shipped schemas are made of.
LEMMA FieldsInterpreted ==
    ASSUME NEW words
    PROVE  /\ UnsupportedAt3(Text) = {}
           /\ UnsupportedAt3(OneOf(words)) = {}
           /\ UnsupportedAt3(IdLike(words)) = {}
           /\ UnsupportedAt3([type |-> "boolean"]) = {}
           /\ UnsupportedAt3([type |-> "string", minLength |-> 1]) = {}
  BY LeafAt3, FieldKinds

\* A field is interpreted whatever words, ids or texts it may hold.
LEMMA FieldInterpreted ==
    ASSUME NEW s,
           \/ s \in {Text, Texts, TwoTexts, Day, QualityDimensions}
           \/ \E words : s = OneOf(words)
           \/ \E ids : s = IdLike(ids)
    PROVE  UnsupportedAt3(s) = {}
  BY FieldsInterpreted, DayAt3, TextsAt3, QualityAt3

LEMMA ClaimInterpreted == UnsupportedKeywords(ClaimSchema) = {}
  <1>1. \A p \in DOMAIN ClaimFields : UnsupportedAt3(ClaimFields[p]) = {}
    <2>1. /\ DOMAIN ClaimFields =
               {"claim_id", "materiality", "supporting_evidence", "contradicting_evidence",
                "current_verdict", "confidence", "confidence_rationale", "reviewer",
                "last_reviewed"}
          /\ ClaimFields["claim_id"] = IdLike(IdsLike["claims"])
          /\ ClaimFields["materiality"] = OneOf({"L1", "L2", "L3", "L4"})
          /\ ClaimFields["supporting_evidence"] = Texts
          /\ ClaimFields["contradicting_evidence"] = Texts
          /\ ClaimFields["current_verdict"] = OneOf(Verdicts)
          /\ ClaimFields["confidence"] =
               OneOf({"Very low", "Low", "Moderate", "High", "Very high"})
          /\ ClaimFields["confidence_rationale"] = Text
          /\ ClaimFields["reviewer"] = Text /\ ClaimFields["last_reviewed"] = Day
      BY DEF ClaimFields
    <2> QED
      BY <2>1, FieldInterpreted
  <1> DEFINE conditions == <<ReviewIfMaterial>>
  <1>2. \A i \in DOMAIN conditions : UnsupportedAt3(conditions[i]) = {}
    BY ConditionAt3
  <1> HIDE DEF conditions
  <1>3. /\ DOMAIN ClaimSchema =
             {"type", "additionalProperties", "required", "properties", "allOf"}
        /\ ClaimSchema.additionalProperties = Closed
        /\ ClaimSchema.properties = ClaimFields /\ ClaimSchema.allOf = conditions
    BY DEF ClaimSchema, conditions
  <1> QED
    BY <1>1, <1>2, <1>3 DEF UnsupportedKeywords, UnsupportedIn, SupportedKeywords

LEMMA EvidenceInterpreted == UnsupportedKeywords(EvidenceSchema) = {}
  <1>1. /\ DOMAIN EvidenceFields =
             {"evidence_id", "source_id", "claim_id", "direction", "independence_group",
              "quality_dimensions", "strength_category", "gating_flaw"}
        /\ EvidenceFields["evidence_id"] = IdLike(IdsLike["evidence"])
        /\ EvidenceFields["source_id"] = IdLike(IdsLike["sources"])
        /\ EvidenceFields["claim_id"] = IdLike(IdsLike["claims"])
        /\ EvidenceFields["direction"] = OneOf({"Supports", "Contradicts", "Limits", "Contextualizes"})
        /\ EvidenceFields["independence_group"] = Text
        /\ EvidenceFields["quality_dimensions"] = QualityDimensions
        /\ EvidenceFields["strength_category"] =
               OneOf({"Inadmissible", "Weak", "Limited", "Moderate", "Strong",
                      "Very strong"})
        /\ EvidenceFields["gating_flaw"] = Text
    BY DEF EvidenceFields
  <1>2. \A p \in DOMAIN EvidenceFields : UnsupportedAt3(EvidenceFields[p]) = {}
    BY <1>1, FieldInterpreted
  <1> QED
    BY <1>2, ObjectInterpreted DEF EvidenceSchema

LEMMA MissionInterpreted == UnsupportedKeywords(MissionSchema) = {}
  <1> DEFINE title == [type |-> "string", minLength |-> 1]
             glossary == [type |-> "object", additionalProperties |-> Text]
             fields == [mission_id |-> IdLike(IdsLike["mission"]), title |-> title,
                        completion_status |->
                           OneOf({"Open", "Conditions-met", "Closed", "Reopened"}),
                        definitions |-> glossary]
  <1>1. UnsupportedAt3(title) = {} /\ UnsupportedAt3(glossary) = {}
    BY FieldsInterpreted, GlossaryAt3
  <1>2. MissionSchema = Object({"mission_id", "title", "completion_status"}, fields)
    BY DEF MissionSchema
  <1> HIDE DEF title, glossary
  <1>3. /\ DOMAIN fields = {"mission_id", "title", "completion_status", "definitions"}
        /\ fields["mission_id"] = IdLike(IdsLike["mission"])
        /\ fields["title"] = title /\ fields["definitions"] = glossary
        /\ fields["completion_status"] =
             OneOf({"Open", "Conditions-met", "Closed", "Reopened"})
    OBVIOUS
  <1> HIDE DEF fields
  <1>4. \A p \in DOMAIN fields : UnsupportedAt3(fields[p]) = {}
    BY <1>1, <1>3, FieldInterpreted
  <1> QED
    BY <1>2, <1>4, ObjectInterpreted

LEMMA SourceInterpreted == UnsupportedKeywords(SourceSchema) = {}
  <1> DEFINE fields == [source_id |-> IdLike(IdsLike["sources"])]
  <1>1. DOMAIN fields = {"source_id"} /\ fields["source_id"] = IdLike(IdsLike["sources"])
    OBVIOUS
  <1>2. SourceSchema = Object({"source_id"}, fields)
    BY DEF SourceSchema
  <1> HIDE DEF fields
  <1>3. \A p \in DOMAIN fields : UnsupportedAt3(fields[p]) = {}
    BY <1>1, FieldInterpreted
  <1> QED
    BY <1>2, <1>3, ObjectInterpreted

LEMMA AssumptionInterpreted == UnsupportedKeywords(AssumptionSchema) = {}
  <1> DEFINE fields ==
        [assumption_id |-> IdLike(IdsLike["assumptions"]), claims_affected |-> Texts,
         risk_if_false |-> OneOf({"Low", "Moderate", "High", "Fatal"}),
         status |-> OneOf({"Open", "Validated", "Invalidated", "Accepted-risk"})]
  <1>1. /\ DOMAIN fields = {"assumption_id", "claims_affected", "risk_if_false", "status"}
        /\ fields["assumption_id"] = IdLike(IdsLike["assumptions"])
        /\ fields["claims_affected"] = Texts
        /\ fields["risk_if_false"] = OneOf({"Low", "Moderate", "High", "Fatal"})
        /\ fields["status"] = OneOf({"Open", "Validated", "Invalidated", "Accepted-risk"})
    OBVIOUS
  <1>2. AssumptionSchema = Object({"assumption_id", "risk_if_false", "status"}, fields)
    BY DEF AssumptionSchema
  <1> HIDE DEF fields
  <1>3. \A p \in DOMAIN fields : UnsupportedAt3(fields[p]) = {}
    BY <1>1, FieldInterpreted
  <1> QED
    BY <1>2, <1>3, ObjectInterpreted

LEMMA UnknownInterpreted == UnsupportedKeywords(UnknownSchema) = {}
  <1> DEFINE boolean == [type |-> "boolean"]
             fields ==
               [unknown_id |-> IdLike(IdsLike["unknowns"]), claims_affected |-> Texts,
                blocks_decision |-> boolean,
                status |-> OneOf({"Open", "Isolated", "Resolved", "Dependency-blocked"})]
  <1>1. UnsupportedAt3(boolean) = {}
    BY FieldsInterpreted
  <1>2. UnknownSchema = Object({"unknown_id", "blocks_decision", "status"}, fields)
    BY DEF UnknownSchema
  <1> HIDE DEF boolean
  <1>3. /\ DOMAIN fields = {"unknown_id", "claims_affected", "blocks_decision", "status"}
        /\ fields["unknown_id"] = IdLike(IdsLike["unknowns"])
        /\ fields["claims_affected"] = Texts /\ fields["blocks_decision"] = boolean
        /\ fields["status"] =
             OneOf({"Open", "Isolated", "Resolved", "Dependency-blocked"})
    OBVIOUS
  <1> HIDE DEF fields
  <1>4. \A p \in DOMAIN fields : UnsupportedAt3(fields[p]) = {}
    BY <1>1, <1>3, FieldInterpreted
  <1> QED
    BY <1>2, <1>4, ObjectInterpreted

LEMMA ContradictionInterpreted == UnsupportedKeywords(ContradictionSchema) = {}
  <1> DEFINE statuses ==
        {"Open", "Resolved", "Scope-qualified", "Time-qualified", "Definition-qualified",
         "Methodologically-unresolved", "Material-remains"}
             fields ==
        [contradiction_id |-> IdLike(IdsLike["contradictions"]), in_conflict |-> TwoTexts,
         resolution_status |-> OneOf(statuses)]
  <1>1. ContradictionSchema =
          Object({"contradiction_id", "in_conflict", "resolution_status"}, fields)
    BY DEF ContradictionSchema
  <1> HIDE DEF statuses
  <1>2. /\ DOMAIN fields = {"contradiction_id", "in_conflict", "resolution_status"}
        /\ fields["contradiction_id"] = IdLike(IdsLike["contradictions"])
        /\ fields["in_conflict"] = TwoTexts
        /\ fields["resolution_status"] = OneOf(statuses)
    OBVIOUS
  <1> HIDE DEF fields
  <1>3. \A p \in DOMAIN fields : UnsupportedAt3(fields[p]) = {}
    BY <1>2, FieldInterpreted
  <1> QED
    BY <1>1, <1>3, ObjectInterpreted

LEMMA VerdictInterpreted == UnsupportedKeywords(VerdictSchema) = {}
  <1> DEFINE ladder ==
        {"Collected", "Prevented-Exposure", "Estimated", "Detected", "Contested",
         "Proven", "N/A"}
             fields ==
        [claim_id |-> IdLike(IdsLike["claims"]),
         outcome_ladder_classification |-> OneOf(ladder)]
  <1>1. VerdictSchema = Object({"claim_id"}, fields)
    BY DEF VerdictSchema
  <1> HIDE DEF ladder
  <1>2. /\ DOMAIN fields = {"claim_id", "outcome_ladder_classification"}
        /\ fields["claim_id"] = IdLike(IdsLike["claims"])
        /\ fields["outcome_ladder_classification"] = OneOf(ladder)
    OBVIOUS
  <1> HIDE DEF fields
  <1>3. \A p \in DOMAIN fields : UnsupportedAt3(fields[p]) = {}
    BY <1>2, FieldInterpreted
  <1> QED
    BY <1>1, <1>3, ObjectInterpreted

\* The validator interprets every keyword of every schema it ships with: the look
\* that comes before a schema is used refuses none of the eight, and a run with the
\* shipped schemas gets to its records.
THEOREM ShippedInterpreted ==
    \A k \in Kinds : UnsupportedKeywords(ShippedSchemas[k]) = {}
  <1>1. SUFFICES ASSUME NEW k \in Kinds
                 PROVE  UnsupportedKeywords(ShippedSchemas[k]) = {}
    OBVIOUS
  <1> QED
    BY EveryKind, ShippedSchemaOf, ClaimInterpreted, EvidenceInterpreted,
       SourceInterpreted, AssumptionInterpreted, UnknownInterpreted,
       ContradictionInterpreted, VerdictInterpreted, MissionInterpreted
=============================================================================
