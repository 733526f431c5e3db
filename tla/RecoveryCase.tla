----------------------------- MODULE RecoveryCase -----------------------------
(***************************************************************************)
(* A recovery case as the browser works on it: provisional amounts, the    *)
(* transparent confidence score and the playbook that recommends a play.   *)
(* Amounts are whole dollars; a text is the class of lengths that the code *)
(* tells apart.  A collection of cases is a function from their ids.       *)
(***************************************************************************)
EXTENDS Integers, Sequences, FiniteSetsExt

CONSTANT None

FunnelStages == {"Signed", "Onboarding", "Activation", "FirstValue", "Renewal", "Expansion"}

RecoveryReasons ==
    {"OnboardingReboot", "MilestoneNudge", "EnablementSession", "CSMOutreach",
     "ExecBusinessReview", "RenewalOutreach", "UsageActivation"}

OpenStatuses == {"Detected", "Queued", "Assigned", "InProgress"}

Statuses == OpenStatuses \cup {"Recovered", "Failed", "Dismissed"}

\* Lengths of the trimmed evidence notes: below 10, 10 to 20, above 20.
NoteClasses == {"scant", "brief", "full"}

Threshold == 80    \* policy-2026.1, confidence-2026.1

\* reason, first and second recommended action, success in percent.
PLAYBOOK ==
    LET Play(reason, first, second, percent) ==
            [reason |-> reason, actions |-> <<first, second>>, percent |-> percent]
    IN  [StalledOnboarding |-> Play("OnboardingReboot", "re-kick off", "book setup", 65),
         ActivationMissed |-> Play("MilestoneNudge", "guide", "trigger flow", 55),
         NoFirstValue |-> Play("EnablementSession", "train", "map first value", 50),
         LowAdoption |-> Play("CSMOutreach", "reach out", "unblock usage", 45),
         RenewalAtRisk |-> Play("RenewalOutreach", "recap value", "confirm invoice", 60),
         ExpansionStalled |-> Play("ExecBusinessReview", "review", "re-open", 40)]

\* The recommended ones, one of the operator's own, and those of the seed.
Actions == {"own", "seeded"} \cup {PLAYBOOK[l].actions[i] : l \in DOMAIN PLAYBOOK, i \in 1 .. 2}

Returned(e) == e.collected - e.baseline

ReportableReturned(e) == Max({0, Returned(e)})

IsCounted(e) == e.reason # None /\ e.status = "Recovered"

IsAuditable(e) ==
    /\ IsCounted(e)
    /\ e.confidence >= Threshold
    /\ Returned(e) > 0

IsUnprovenRecovery(e) == IsCounted(e) /\ ~IsAuditable(e)

Points(holds, points) == IF holds THEN points ELSE 0

Confidence(e) ==
    Points(e.reason # None, 30) + Points(Returned(e) > 0, 25)
    + Points(e.notes = "full", 20) + Points(e.owner # None, 10)
    + Min({15, 5 * Len(e.actions)})

\* Every write of a case scores it again.
Rescored(e) == [e EXCEPT !.confidence = Confidence(e)]

ExpectedImpact(e) == Max({0, e.risk - e.baseline})

ExpectedValue(e) == (ExpectedImpact(e) * PLAYBOOK[e.leak].percent + 50) \div 100

Taken(e, action) == \E i \in DOMAIN e.actions : e.actions[i] = action

\* The recommended actions a case has not taken, in their order.
NewActions(e) ==
    LET play == PLAYBOOK[e.leak].actions
        New(i) == IF Taken(e, play[i]) THEN <<>> ELSE <<play[i]>>
    IN  New(1) \o New(2)

RecommendationApplied(e) ==
    e.reason = PLAYBOOK[e.leak].reason /\ NewActions(e) = <<>>

-----------------------------------------------------------------------------
(* What the screens total over a portfolio of cases.                       *)

Where(cases, Test(_)) == {c \in DOMAIN cases : Test(cases[c])}

ReturnedBy(cases, ids) ==
    SumFunction([c \in ids |-> ReportableReturned(cases[c])])

RiskOf(cases, ids) == SumFunction([c \in ids |-> cases[c].risk])

ForecastOf(cases, ids) == SumFunction([c \in ids |-> ExpectedValue(cases[c])])

IsOpen(e) == e.status \in OpenStatuses

PortfolioMetrics(cases) ==
    LET failed == Where(cases, LAMBDA e : e.status = "Failed")
        counted == Where(cases, IsCounted)
    IN  [detectedOpportunity |-> RiskOf(cases, Where(cases, IsOpen)),
         recoveredRevenue |-> ReturnedBy(cases, counted),
         auditableRevenue |-> ReturnedBy(cases, Where(cases, IsAuditable)),
         unprovenRevenue |-> ReturnedBy(cases, Where(cases, IsUnprovenRecovery)),
         recovered |-> Cardinality(counted),
         resolved |-> Cardinality(counted) + Cardinality(failed)]

ExclusionReasons == {"Unclassified", "MissingProof", "LowConfidence"}

\* What is not excluded has none of them.
ASSUME NoneAssumption == None \notin ExclusionReasons

IsRecoveredWithUplift(e) == e.status = "Recovered" /\ ReportableReturned(e) > 0

\* Mutant of ClassifyExclusion.
ClassifyExclusionNotesFirst(e) ==
    IF ~IsRecoveredWithUplift(e) \/ IsAuditable(e) THEN None
    ELSE IF e.notes = "scant" THEN "MissingProof"
    ELSE IF e.reason = None THEN "Unclassified"
    ELSE "LowConfidence"

ClassifyExclusion(e) ==
    IF ~IsRecoveredWithUplift(e) \/ IsAuditable(e) THEN None
    ELSE IF e.reason = None THEN "Unclassified"
    ELSE IF e.notes = "scant" THEN "MissingProof"
    ELSE IF e.confidence < Threshold THEN "LowConfidence"
    ELSE "MissingProof"

Reconcile(cases) ==
    LET recovered == Where(cases, IsRecoveredWithUplift)
        gross == ReturnedBy(cases, recovered)
        bucket == [r \in ExclusionReasons |->
                     ReturnedBy(cases, {c \in recovered : ClassifyExclusion(cases[c]) = r})]
        auditable == ReturnedBy(cases, Where(cases, IsAuditable))
    IN  [grossRecovered |-> gross,
         countedRecovered |-> gross - bucket["Unclassified"],
         auditableRevenue |-> auditable,
         excludedTotal |-> SumFunction(bucket),
         recoveredToAuditableGap |-> gross - bucket["Unclassified"] - auditable]

\* One line per owner, reason or stage of a counted case.
AttributeBy(cases, field) ==
    LET counted == Where(cases, IsCounted)
        Line(es) ==
            [recovered |-> ReturnedBy(cases, es),
             collected |-> SumFunction([c \in es |-> cases[c].collected]),
             baseline |-> SumFunction([c \in es |-> cases[c].baseline]),
             auditable |-> ReturnedBy(cases, {c \in es : IsAuditable(cases[c])})]
    IN  [k \in {cases[c][field] : c \in counted} |-> Line({c \in counted : cases[c][field] = k})]

ByReason(cases) == AttributeBy(cases, "reason")
ByOwner(cases) == AttributeBy(cases, "owner")
ByStage(cases) == AttributeBy(cases, "stage")

\* One line per leak of any case.
OutcomesByLeakage(cases) ==
    LET Outcome(es) ==
            LET open == {c \in es : IsOpen(cases[c])}
            IN  [atRisk |-> RiskOf(cases, open),
                 recoverable |-> ForecastOf(cases, open),
                 recovered |-> ReturnedBy(cases, {c \in es : IsCounted(cases[c])}),
                 auditable |-> ReturnedBy(cases, {c \in es : IsAuditable(cases[c])})]
    IN  [k \in {cases[c].leak : c \in DOMAIN cases} |->
           Outcome({c \in DOMAIN cases : cases[c].leak = k})]

ExpectedRecoverable(cases) == ForecastOf(cases, Where(cases, IsOpen))

=============================================================================
