---------------------------- MODULE RecoveryScreens ----------------------------
(***************************************************************************)
(* What the screens show of a render of RecoveryClient.  Case-side numbers *)
(* are computed by several functions, each with its own filter; proven     *)
(* numbers come from the proofs.                                           *)
(***************************************************************************)
EXTENDS RecoveryClient

\* The recovery loop: forecast from the cases, proven from the proofs.
RecoveryLoop(s) ==
    [moneyAtRisk |-> PortfolioMetrics(s.cases).detectedOpportunity,
     recoverableForecast |-> ExpectedRecoverable(s.cases),
     actionTaken |-> Cardinality(Where(s.cases, LAMBDA e : e.actions # <<>>)),
     returned |-> ProvenLedger(s.proofs).revenueReturned,
     auditable |-> ProvenLedger(s.proofs).auditableRevenue]

BandOf(confidence) ==
    IF confidence >= Threshold THEN "High" ELSE IF confidence >= 50 THEN "Medium" ELSE "Low"

\* The confidence screen: counted dollars per band.
BandTotal(cases, band) ==
    ReturnedBy(cases, Where(cases, LAMBDA e : IsCounted(e) /\ BandOf(e.confidence) = band))

-----------------------------------------------------------------------------

SumOver(lines, Field(_)) == SumFunction([k \in DOMAIN lines |-> Field(lines[k])])

\* The same dollars reach the dashboard, the waterfall, the attribution and
\* outcome tables and the confidence bands by different filters; whatever the
\* operator edits, each excluded dollar is in one bucket and no two screens
\* disagree (portfolioMetrics, reconcile, attributeBy, outcomesByLeakage).  A
\* render shows the same until the next one: its first moment is enough.
ScreensAgree == burst = 0 =>
    LET cases == shown.cases
        m == PortfolioMetrics(cases)
        r == Reconcile(cases)
        outcomes == OutcomesByLeakage(cases)
    IN  /\ r.countedRecovered = m.recoveredRevenue
        /\ r.excludedTotal = r.grossRecovered - r.auditableRevenue
        /\ r.recoveredToAuditableGap = m.unprovenRevenue
        /\ \A lines \in {ByReason(cases), ByOwner(cases), ByStage(cases), outcomes} :
             /\ SumOver(lines, LAMBDA l : l.recovered) = m.recoveredRevenue
             /\ SumOver(lines, LAMBDA l : l.auditable) = m.auditableRevenue
        /\ SumOver(outcomes, LAMBDA l : l.atRisk) = RecoveryLoop(shown).moneyAtRisk
        /\ SumOver(outcomes, LAMBDA l : l.recoverable) = RecoveryLoop(shown).recoverableForecast
        /\ BandTotal(cases, "High") = m.auditableRevenue

\* The first run tells one story twice: the seeded cases and the proofs that
\* their records earn at the gate give the same $83,400 returned and $79,800
\* auditable, beside $71,800 still at risk (seedEvents, seedTrust).
FirstRunHeadline ==
    LET all == [cases |-> SeedEvents] @@ SeedTrust(DOMAIN SeedEvents)
        m == PortfolioMetrics(all.cases)
        loop == RecoveryLoop(all)
    IN  /\ loop.moneyAtRisk = 71800
        /\ m.recoveredRevenue = 83400 /\ loop.returned = 83400
        /\ m.auditableRevenue = 79800 /\ loop.auditable = 79800
=============================================================================
