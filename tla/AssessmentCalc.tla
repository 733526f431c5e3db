---------------------------- MODULE AssessmentCalc ----------------------------
(***************************************************************************)
(* The assessment of a file: which cycles are stalled as of a day, what is *)
(* unpaid among them, and the result that is stamped with all it depends   *)
(* on.  Everything is a function of the file and of the parameters.        *)
(***************************************************************************)
EXTENDS CsvImport, FiniteSetsExt

SupportedCurrencies == {"USD", "EUR", "GBP", "ILS", "JPY"}

\* Params: n, asOf, currency, locale, format.
PolicyValid(params) == params.n >= 0 /\ params.currency \in SupportedCurrencies

MakePolicy(params) ==
    [n |-> params.n, asOf |-> params.asOf, currency |-> params.currency,
     excludedStatuses |-> {}]

-----------------------------------------------------------------------------

\* Mutant of SeenBy.
SeenByNextDay(moment, asOf) == IF moment # Blank /\ moment > asOf + 1 THEN Blank ELSE moment

\* What happened after the day of the analysis has not been seen yet.
SeenBy(moment, asOf) == IF moment # Blank /\ moment > asOf THEN Blank ELSE moment

Observation(cycle, asOf) == SeenBy(cycle.observationAt, asOf)

\* Mutant of ClassifyStall: an activation on the very deadline is too late.
ClassifyStallInclusive(cycle, policy) ==
    LET seen == Observation(cycle, policy.asOf)
        deadline == cycle.expectationAt + policy.n
    IN  IF seen # Blank
        THEN IF seen >= deadline THEN "observed_after_threshold" ELSE "observed_within_threshold"
        ELSE IF deadline > policy.asOf THEN "within_window_not_yet_due"
        ELSE "no_observation_past_deadline"

ClassifyStall(cycle, policy) ==
    LET seen == Observation(cycle, policy.asOf)
        deadline == cycle.expectationAt + policy.n
    IN  IF seen # Blank
        THEN IF seen > deadline THEN "observed_after_threshold" ELSE "observed_within_threshold"
        ELSE IF deadline > policy.asOf THEN "within_window_not_yet_due"
        ELSE "no_observation_past_deadline"

IsStalled(cycle, policy) ==
    ClassifyStall(cycle, policy) \in {"observed_after_threshold", "no_observation_past_deadline"}

SplitCohorts(cycles, policy) ==
    [stalled |-> {c \in cycles : IsStalled(c, policy)},
     undetermined |-> {c \in cycles : ClassifyStall(c, policy) = "within_window_not_yet_due"},
     reference |-> {c \in cycles : ClassifyStall(c, policy) = "observed_within_threshold"}]

PaymentStates == {"NotYetDue", "Unpaid", "PartiallyPaid", "PaidOnTime", "PaidLate",
                  "Refunded", "Cancelled", "Unknown"}

ClassifyPayment(cycle, asOf) ==
    LET paidAt == SeenBy(cycle.paidAt, asOf)
    IN  IF cycle.cancelled THEN "Cancelled"
        ELSE IF cycle.refunded THEN "Refunded"
        ELSE IF cycle.amount <= 0 THEN "Unknown"
        ELSE IF cycle.dueAt > asOf THEN "NotYetDue"
        ELSE IF paidAt = Blank
             THEN IF cycle.paidAmount # Blank /\ cycle.paidAmount > 0 THEN "Unknown" ELSE "Unpaid"
        ELSE IF cycle.paidAmount # Blank /\ cycle.paidAmount < cycle.amount THEN "PartiallyPaid"
        ELSE IF paidAt > cycle.dueAt THEN "PaidLate" ELSE "PaidOnTime"

Total(cycles, Value(_)) == SumFunction([c \in cycles |-> Value(c)])

AmountOf(cycle) == cycle.amount

OutstandingOf(cycle) == Max({0, cycle.amount - cycle.paidAmount})

\* Due, neither cancelled nor refunded.
Eligible == {"Unpaid", "PartiallyPaid", "PaidOnTime", "PaidLate"}

ObservedSummary(stalled, policy) ==
    LET in(states) == {c \in stalled : ClassifyPayment(c, policy.asOf) \in states}
    IN  [grossEligible |-> Total(in(Eligible), AmountOf),
         observedUnpaid |-> Total(in({"Unpaid"}), AmountOf),
         partialOutstanding |-> Total(in({"PartiallyPaid"}), OutstandingOf),
         excludedValue |-> Total(in({"Cancelled", "Refunded"}), AmountOf),
         unknownValue |-> Total(in({"Unknown"}), AmountOf),
         stateCounts |-> [s \in PaymentStates |-> Cardinality(in({s}))]]

-----------------------------------------------------------------------------

\* Mutant of Collide.
CollideAfterFirst(cycles, c) == \E d \in cycles : d.row < c.row /\ d.cycleId = c.cycleId

\* Rows that share a cycle id: none of them is preferred.
Collide(cycles, c) == \E d \in cycles : d.row # c.row /\ d.cycleId = c.cycleId

DedupeCollisions(cycles) ==
    LET unique == {c \in cycles : ~Collide(cycles, c)}
    IN  [unique |-> unique,
         collisions |-> {<<c.row, "duplicate_cycle_id", c.cycleId>> : c \in cycles \ unique}]

\* The result is stamped with an id made of the named inputs.
Assess(outcomes, policy, id) ==
    LET deduped == DedupeCollisions(outcomes.cycles)
        cohorts == SplitCohorts(deduped.unique, policy)
    IN  [assessmentId |-> id,
         accepted |-> deduped.unique,
         exclusions |-> outcomes.exclusions \cup deduped.collisions,
         stalled |-> cohorts.stalled, undetermined |-> cohorts.undetermined,
         reference |-> cohorts.reference,
         observed |-> ObservedSummary(cohorts.stalled, policy)]

\* The result of a file that passes the structural guards.
AssessCsv(table, mapping, params) ==
    Assess(RowOutcomes(ApplyMapping(table, mapping).rows, MakePolicy(params),
                       [locale |-> params.locale, format |-> params.format]),
           MakePolicy(params),
           <<table, params.asOf, params.n, mapping, params.format, params.locale>>)

\* Whether a run ends with a result; otherwise it ends with an error.
Succeeds(table, mapping, params) ==
    /\ PolicyValid(params)
    /\ HeaderValid(table)
    /\ MissingRequiredColumns(ApplyMapping(table, mapping).headers) = {}

-----------------------------------------------------------------------------
(* Properties of the result r of a run on a file.                          *)

\* Every row of the file is accounted for exactly once, by a reason in the
\* exclusions or by a place in one of the three cohorts, and rows that agree on
\* their cycle id share their fate: none is preferred (dedupeCollisions,
\* splitCohorts).
EveryRowAccountedFor(run, r) ==
    LET places == <<{e[1] : e \in r.exclusions}, {c.row : c \in r.stalled},
                    {c.row : c \in r.undetermined}, {c.row : c \in r.reference}>>
    IN  /\ UNION ToSet(places) = DOMAIN run.file.rows
        /\ \A i, j \in DOMAIN places : i # j => places[i] \cap places[j] = {}
        /\ Cardinality(r.exclusions) = Cardinality(places[1])
        /\ \A c \in r.accepted, e \in r.exclusions : c.cycleId # e[3]

\* Every stalled dollar is in one bucket, and what is reported unpaid never
\* exceeds what was eligible, unless a settled amount is negative
\* (observedSummary).
BucketsPartitionTheValue(run, r) ==
    LET o == r.observed
        later == {c \in r.stalled : ClassifyPayment(c, run.params.asOf) = "NotYetDue"}
    IN  /\ o.grossEligible + o.excludedValue + o.unknownValue + Total(later, AmountOf)
             = Total(r.stalled, AmountOf)
        /\ (\A c \in r.stalled : c.paidAmount = Blank \/ c.paidAmount >= 0)
             => o.observedUnpaid + o.partialOutstanding <= o.grossEligible

\* The cycles that one day more of N spares: active on that very day, or with
\* the old deadline on the day of the analysis.
OnTheEdge(c, params) ==
    \/ c.observationAt = c.expectationAt + params.n + 1
    \/ c.expectationAt + params.n = params.asOf

\* A deadline a day later makes no cycle stalled and spares exactly those on the
\* edge, so the headline does not rise with N; a confirmed cycle stays confirmed
\* (classifyStall).
FallsTo(r, later, params) ==
    /\ later.stalled = {c \in r.stalled : ~OnTheEdge(c, params)}
    /\ r.reference \subseteq later.reference
    /\ later.observed.observedUnpaid <= r.observed.observedUnpaid

HeadlineFallsWithN(run, r) ==
    FallsTo(r, AssessCsv(run.file, run.mapping, [run.params EXCEPT !.n = @ + 1]), run.params)

\* The fields of a row that tell of an activation or a payment on a day after
\* that of the analysis; ofPayment are those that would tell of the payment.
ToldLater(row, params, ofPayment) ==
    LET later(f) == LET date == NormalizeDate(Cell(row, f), params.locale)
                    IN  date.ok /\ date.value > params.asOf
    IN  {f \in {"activation_at"} : later(f)}
        \cup {f \in ofPayment : later("next_invoice_paid_at")}

\* The table, under the canonical names, as it was on the day of the analysis.
AsOnTheDay(table, params, ofPayment) ==
    LET cells(row) == [h \in table.headers |->
                         IF h \in ToldLater(row, params, ofPayment) THEN Blank ELSE row.cells[h]]
    IN  [headers |-> table.headers,
         rows |-> [i \in DOMAIN table.rows |->
                     [malformed |-> table.rows[i].malformed, cells |-> cells(table.rows[i])]]]

SameFigures(r, s) ==
    LET rowsOf(cycles) == {c.row : c \in cycles}
    IN  /\ r.observed = s.observed
        /\ rowsOf(r.stalled) = rowsOf(s.stalled)
        /\ rowsOf(r.reference) = rowsOf(s.reference)

\* No more was known on the day: the columns have their names already.
AsKnownThen(run, r, ofPayment) ==
    SameFigures(r, AssessCsv(AsOnTheDay(ApplyMapping(run.file, run.mapping), run.params, ofPayment),
                             <<>>, run.params))

\* An activation or a payment after the day of the analysis changes no cohort
\* and no figure: as if its date, or a flag for it, were not in the file yet
\* (Observation, effectivePaidAt).  How much was paid is left in the file.
NoFutureInformation(run, r) ==
    AsKnownThen(run, r, {"next_invoice_paid_at", "next_invoice_paid"})

\* The same when the amount of a payment to come is not in the file either ("a
\* payment after the cut-off is therefore Unpaid at asOf").
NoFuturePayment(run, r) ==
    AsKnownThen(run, r, {"next_invoice_paid_at", "next_invoice_paid", "paid_amount"})

\* A text written in full accordance with a format: thousands in groups of
\* three, then possibly a decimal separator and a fraction.
WellFormed(text, format) ==
    LET n == Len(text.seps)
        group == IF format = "US" THEN "comma" ELSE "point"
        grouping == {i \in 1 .. n : text.seps[i] = group}
    IN  /\ grouping \in {1 .. n, 1 .. n - 1}
        /\ grouping # {} => text.groups[1].len \in 1 .. 3
        /\ text.groups[1].len > 0
        /\ \A i \in grouping : text.groups[i + 1].len = 3
        /\ n > 0 /\ n \notin grouping => text.groups[n + 1].len > 0

ReadAs(text, format) ==
    LET n == Len(text.seps)
        group == IF format = "US" THEN "comma" ELSE "point"
        pointed == n > 0 /\ text.seps[n] # group
    IN  [negative |-> text.negative,
         whole |-> Joined(IF pointed THEN Front(text.groups) ELSE text.groups),
         fraction |-> IF pointed THEN text.groups[n + 1] ELSE NoFraction]

\* An amount is never guessed: an accepted cycle has the amount that its text
\* says in the stated format, and without one in every format in which the text
\* is well formed (normalizeAmount, fromDecimal).
AmountsAreNotGuessed(run, r) ==
    \A c \in r.accepted :
       LET text == run.file.rows[c.row].cells[run.mapping["next_invoice_amount"]]
           formats == IF run.params.format = Blank THEN {"US", "EU"} ELSE {run.params.format}
           said(format) == FromDecimal(ReadAs(text, format), run.params.currency)
       IN  \A format \in formats : WellFormed(text, format) =>
              said(format).ok /\ said(format).value = c.amount

=============================================================================
