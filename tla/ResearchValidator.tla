--------------------------- MODULE ResearchValidator ---------------------------
(***************************************************************************)
(* The validator of the research registries, run on a dataset a researcher *)
(* keeps adding records to: the gates of one run, the events it reports    *)
(* and the exit code of its process.                                       *)
(***************************************************************************)
EXTENDS ResearchRules, ResearchSchemas

CONSTANTS
    Setups,       \* Setups[s]: a contract and schemas a run can be started with
    Envelopes,    \* datasets before any record is added
    NewRecords,   \* NewRecords[k]: the records that may be added to list k
    MaxOf,        \* MaxOf[k]: bound on the length of list k
    MaxRecords,   \* bound on the records of a dataset
    NoFile        \* no path was given, or no JSON object is found there

Kinds == Collections \cup {"mission"}

\* What a dataset can come to hold, and under which names.
Lists == Seq(UNION {NewRecords[k] : k \in Collections})
Fields == Collections \cup UNION {DOMAIN e : e \in Envelopes \ {NoFile}}
Contents ==
    Lists \cup {Malformed}
    \cup UNION {{e[p] : p \in DOMAIN e \ Collections} : e \in Envelopes \ {NoFile}}

\* Before any record is added a list is empty or is no list.
ASSUME EnvelopesAssumption ==
    \A e \in Envelopes \ {NoFile} :
       \A k \in Collections \cap DOMAIN e : e[k] \in {<<>>, Malformed}

\* A list is a list, and a file that is there is there.
ASSUME AbsenceAssumption ==
    /\ Malformed \notin Lists
    /\ \A names \in SUBSET Fields : NoFile \notin [names -> Contents]

\* A run loads the shipped schemas; one that was changed is changed by a keyword
\* the validator does not interpret.
ASSUME SetupsAssumption ==
    \A s \in DOMAIN Setups : \A k \in Kinds :
       \/ Setups[s].schemas[k] = ShippedSchemas[k]
       \/ UnsupportedKeywords(Setups[s].schemas[k]) # {}

VARIABLES
    setup,   \* which of them
    file,    \* the dataset
    report   \* of the last run on the file as it is, <<>> before

vars == <<setup, file, report>>

-----------------------------------------------------------------------------
(* The gates.                                                              *)

\* The keywords of a contract this validator maps, per depth.
ContractProblems(contract) ==
    {Event("R-ENVELOPE", k) :
       k \in (contract.top \ {"type", "additionalProperties", "required", "properties"})
             \cup (contract.property \ {"$ref", "type", "items"})
             \cup (contract.item \ {"$ref", "type"})}

EnvelopeErrors(dataset) ==
    {Event("R-ENVELOPE", k) :
       k \in ({"validator_dataset_version", "mission"} \ DOMAIN dataset)
             \cup (DOMAIN dataset \ (Kinds \cup {"validator_dataset_version"}))
             \cup {p \in DOMAIN dataset : dataset[p] = Malformed}}

Normalise(dataset) ==
    [k \in Kinds |-> IF k \in DOMAIN dataset THEN dataset[k] ELSE <<>>]

ListsOf(norm) ==
    [k \in Kinds |-> IF k = "mission" THEN <<norm.mission>> ELSE norm[k]]

IdOf(kind, r) ==
    IF r # Malformed /\ kind # "mission" /\ IdField[kind] \in DOMAIN r
    THEN r[IdField[kind]] ELSE kind

\* Mutant of SchemaEvents.
SchemaEventsOfListed(norm, schemas) ==
    LET lists == ListsOf(norm)
        interpreted == {k \in Kinds : UnsupportedKeywords(schemas[k]) = {}}
        Violating(k) == {r \in ToSet(lists[k]) : ~Validates(schemas[k], r)}
    IN  {Event("R-SCHEMA-UNSUPPORTED-KEYWORD", k) : k \in Kinds \ interpreted}
        \cup UNION {{Event("R-SCHEMA", IdOf(k, r)) : r \in Violating(k)} :
                      k \in interpreted \ {"assumptions"}}

\* A schema that cannot be interpreted is an error even when nothing of its kind
\* is there; its records are not looked at.
SchemaEvents(norm, schemas) ==
    LET lists == ListsOf(norm)
        interpreted == {k \in Kinds : UnsupportedKeywords(schemas[k]) = {}}
        Violating(k) == {r \in ToSet(lists[k]) : ~Validates(schemas[k], r)}
    IN  {Event("R-SCHEMA-UNSUPPORTED-KEYWORD", k) : k \in Kinds \ interpreted}
        \cup UNION {{Event("R-SCHEMA", IdOf(k, r)) : r \in Violating(k)} :
                      k \in interpreted}

\* A rule iterates over these fields: it throws on one that is no list.
RulesThrow(norm) ==
    \E k \in Collections : \E r \in ToSet(norm[k]) :
       \/ r = Malformed
       \/ \E f \in {"supporting_evidence", "contradicting_evidence",
                    "claims_affected", "in_conflict"} \cap DOMAIN r : r[f] = Malformed

Result(exit, events) == [exit |-> exit, events |-> events]

ValidateDataset(dataset, with) ==
    LET norm == Normalise(dataset)
        schemaEvents == SchemaEvents(norm, with.schemas)
    IN  IF ContractProblems(with.contract) # {}
          THEN Result(2, ContractProblems(with.contract))
        ELSE IF EnvelopeErrors(dataset) # {} THEN Result(1, EnvelopeErrors(dataset))
        ELSE IF HasError(schemaEvents) THEN Result(1, schemaEvents)
        ELSE IF RulesThrow(norm) THEN Result(2, {Event("R-VALIDATOR", "validator")})
        ELSE LET events == RunSemanticRules(norm)
             IN  Result(IF HasError(events) THEN 1 ELSE 0, events)

Main(content, with) ==
    IF content = NoFile THEN Result(2, {}) ELSE ValidateDataset(content, with)

-----------------------------------------------------------------------------
Init ==
    /\ setup \in DOMAIN Setups
    /\ file \in Envelopes
    /\ report = <<>>

\* The command is run on the file.
Validate ==
    /\ report = <<>>
    /\ report' = <<Main(file, Setups[setup])>>
    /\ UNCHANGED <<setup, file>>

RecordCount(dataset) ==
    LET Count(k) == IF k \in DOMAIN dataset /\ dataset[k] # Malformed
                    THEN Len(dataset[k]) ELSE 0
    IN  FoldSet(LAMBDA k, n : n + Count(k), 0, Collections)

\* The researcher adds a record to one of the lists.
AddRecord(k, r) ==
    /\ file # NoFile
    /\ RecordCount(file) < MaxRecords
    /\ LET list == IF k \in DOMAIN file THEN file[k] ELSE <<>>
       IN  /\ list # Malformed
           /\ Len(list) < MaxOf[k]
           /\ file' = [p \in DOMAIN file \cup {k} |->
                         IF p = k THEN Append(list, r) ELSE file[p]]
    /\ report' = <<>>
    /\ UNCHANGED setup

Next ==
    \/ Validate
    \/ \E k \in Collections : \E r \in NewRecords[k] : AddRecord(k, r)

Spec == Init /\ [][Next]_vars

-----------------------------------------------------------------------------
Passed == report # <<>> /\ report[1].exit = 0

Records(k) == ToSet(Normalise(file)[k])

Raises(rule, target) == Event(rule, target) \in report[1].events

\* Exit 2 is the validator's own failure, never a verdict on a dataset: whatever
\* a dataset holds, no rule is given something it would throw on.
ContentNeverCrashes ==
    report # <<>> /\ report[1].exit = 2
    => file = NoFile \/ ContractProblems(Setups[setup].contract) # {}

\* A dataset that passes keeps what a confirmed verdict promises, of every record
\* that bears a cited id: resolvable, supporting and (unless a reviewer was asked
\* to grade it) strong evidence, no material contradiction of the claim, no open
\* fatal assumption under it; no mission closes over a blocking unknown; and a
\* claim of high materiality was reviewed by somebody, with a reason, on a day
\* that exists.
PassIsEarned ==
    Passed =>
    /\ \A c \in Claims(Normalise(file), {"Confirmed"}) :
          LET cited == {e \in Records("evidence") :
                          e.evidence_id \in ToSet(c.supporting_evidence)}
              graded == {e \in cited : "strength_category" \in DOMAIN e}
          IN  /\ cited # {}
              /\ \A e \in cited : e.direction = "Supports"
              /\ IF graded = {} THEN Raises("R-VERDICT-STRENGTH-UNKNOWN", c.claim_id)
                 ELSE \E e \in graded : e.strength_category \in Strong
              /\ \A x \in Records("contradictions") :
                    c.claim_id \in ToSet(x.in_conflict)
                    => x.resolution_status # "Material-remains"
              /\ \A a \in Records("assumptions") :
                    c.claim_id \in ToSet(ListOf(a, "claims_affected"))
                    => ~(a.risk_if_false = "Fatal" /\ a.status = "Open")
    /\ file.mission.completion_status \in {"Conditions-met", "Closed"} =>
          \A u \in Records("unknowns") :
             u.blocks_decision => u.status = "Resolved"
    /\ \A c \in Records("claims") :
          c.materiality \in {"L3", "L4"} =>
          /\ ReviewFields \subseteq DOMAIN c
          /\ c.last_reviewed.day <= DaysIn(c.last_reviewed.year, c.last_reviewed.month)
    /\ \A x \in Records("contradictions") : Len(x.in_conflict) >= 2

Reordered(dataset) ==
    [k \in DOMAIN dataset |->
       IF k \in Collections /\ dataset[k] # Malformed THEN Reverse(dataset[k])
       ELSE dataset[k]]

\* The order in which records were written down decides nothing: although of two
\* records with one id the later hides the earlier, the same dataset in the
\* reverse order ends with the same exit code.
ExitIgnoresOrder ==
    report # <<>> /\ file # NoFile
    => ValidateDataset(Reordered(file), Setups[setup]).exit = report[1].exit

\* A blocked dataset is not waved through by writing more: unless a reference was
\* dangling, no record added to it makes a later run pass.
BlockedStaysBlocked ==
    [][LET before == Main(file, Setups[setup])
       IN  /\ file' # file /\ before.exit = 1
           /\ \A e \in before.events : e.rule # "R-XREF"
           => Main(file', Setups[setup']).exit = 1]_vars
=============================================================================
