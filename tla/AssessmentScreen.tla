--------------------------- MODULE AssessmentScreen ---------------------------
(***************************************************************************)
(* The assessment page.  Reading a picked file and running an assessment   *)
(* are asynchronous: several may be in flight and they end in any order,   *)
(* each with the form of the render it was started from.  A result is kept *)
(* as the inputs it is a function of.                                      *)
(***************************************************************************)
EXTENDS AssessmentCalc

CONSTANTS
    Files,         \* the tables the operator has at hand
    Forms,         \* the policy parameters the operator enters
    DefaultForm,   \* those of a page just opened
    Thresholds,    \* the values of N a result is run again with
    MaxPicks, MaxRuns    \* bounds on the files picked and the runs started

ASSUME ScreenAssumption == MaxPicks \in Nat /\ MaxRuns \in Nat

Digit == [len : Nat, value : Nat]

Cells ==
    {Blank}
    \cup [kind : {"word"}, text : STRING]
    \cup DateCell
    \cup [kind : {"amount"}, negative : BOOLEAN, groups : Seq(Digit), seps : Seq({"comma", "point"})]

AmountFormats == {Blank, "US", "EU"}

FormSet ==
    [n : Int, asOf : Int, currency : STRING, locale : {Blank, "MDY", "DMY"},
     format : AmountFormats]

ASSUME FormsAssumption == Forms \cup {DefaultForm} \subseteq FormSet /\ Thresholds \subseteq Int

\* A table has rows, and a row a cell for each column; groups of digits stand
\* between separators.
ASSUME FilesAssumption ==
    \A file \in Files :
       /\ DOMAIN file = {"headers", "rows", "clash"}
       /\ Len(file.rows) \in Nat /\ DOMAIN file.rows = 1 .. Len(file.rows)
       /\ \A i \in DOMAIN file.rows :
             /\ DOMAIN file.rows[i] = {"malformed", "cells"}
             /\ \A h \in file.headers :
                   LET cell == file.rows[i].cells[h]
                   IN  /\ cell \in Cells
                       /\ cell # Blank /\ cell.kind = "amount" => Len(cell.groups) = Len(cell.seps) + 1

\* Money is a number of minor units, whatever text it is read from.
ASSUME MoneyAssumption ==
    \A file \in Files : \A i \in DOMAIN file.rows, h \in file.headers :
       \A format \in AmountFormats, currency \in SupportedCurrencies :
          LET money == MoneyOf(file.rows[i].cells[h], format, currency)
          IN  money.ok => money.value \in Int

\* What a column may be read as: as detected, or as the operator chose.
Guesses == {AutoDetectMapping(file.headers) : file \in Files}

Names == (UNION {file.headers : file \in Files}) \cup (UNION {Range(m) : m \in Guesses})

Mappings == Guesses \cup UNION {[REQUIRED \cup DOMAIN m -> Names] : m \in Guesses}

\* What is not set is no plan, no choice and no result.
ASSUME UnsetAssumption ==
    /\ Blank \notin [file : Files, mapping : Mappings]
    /\ Blank \notin [REQUIRED -> Names \cup {Blank}]
    /\ Blank \notin [file : Files, mapping : Mappings, params : FormSet]

VARIABLES
    form,       \* n, asOf, currency, locale, amountFormat
    step,       \* the sub-screen shown
    source,     \* csvText and mapping, of the last run that succeeded
    review,     \* pendingCsv and the plan's mapping, or Blank
    choices,    \* of the mounted mapping screen, Blank when it is not
    result,     \* file, mapping and params of the result shown, or Blank
    error,      \* whether an error is shown
    reads,      \* files being read, each with the form of its render
    runs,       \* assessments in flight
    picks, started

screenVars == <<form, step, source, review, choices, result, error, reads, runs, picks, started>>

Steps == {"upload", "mapping", "quality", "observed"}

ScreenInit ==
    /\ form = DefaultForm
    /\ step = "upload" /\ source = Blank /\ review = Blank /\ choices = Blank
    /\ result = Blank /\ error = FALSE /\ reads = {} /\ runs = {}
    /\ picks = 0 /\ started = 0

\* The page is left or loaded again: nothing of it is kept, and what is still
\* in flight ends without effect.
LeavePage ==
    /\ form' = DefaultForm
    /\ step' = "upload" /\ source' = Blank /\ review' = Blank /\ choices' = Blank
    /\ result' = Blank /\ error' = FALSE /\ reads' = {} /\ runs' = {}
    /\ UNCHANGED <<picks, started>>

\* The mapping screen takes the plan's guesses when it is mounted.
Show(next, plan) ==
    /\ step' = next
    /\ choices' = IF next # "mapping" THEN Blank
                  ELSE IF choices # Blank THEN choices
                  ELSE [f \in REQUIRED |-> IF f \in DOMAIN plan THEN plan[f] ELSE Blank]

\* run, up to its await.
Run(file, mapping, params) ==
    /\ started < MaxRuns /\ started' = started + 1
    /\ runs' = runs \cup {[nr |-> started, file |-> file, mapping |-> mapping, params |-> params]}
    /\ error' = FALSE

SetForm(f) ==
    /\ step = "upload"
    /\ form' = f
    /\ UNCHANGED <<step, source, review, choices, result, error, reads, runs, picks, started>>

PickFile(file) ==
    /\ step = "upload"
    /\ picks < MaxPicks /\ picks' = picks + 1
    /\ reads' = reads \cup {[nr |-> picks, file |-> file, form |-> form]}
    /\ UNCHANGED <<form, step, source, review, choices, result, error, runs, started>>

\* The file is above MAX_CSV_BYTES.
RejectFile ==
    /\ step = "upload"
    /\ picks < MaxPicks /\ picks' = picks + 1
    /\ error' = TRUE
    /\ UNCHANGED <<form, step, source, review, choices, result, reads, runs, started>>

\* onFile, with the text of the file.
FileRead(r) ==
    /\ reads' = reads \ {r}
    /\ LET mapping == AutoDetectMapping(r.file.headers)
       IN  \/ /\ ~HeaderValid(r.file)
              /\ error' = TRUE
              /\ UNCHANGED <<step, review, choices, runs, started>>
           \/ /\ HeaderValid(r.file) /\ ~NeedsReview(mapping)
              /\ Run(r.file, mapping, r.form)
              /\ UNCHANGED <<step, review, choices>>
           \/ /\ HeaderValid(r.file) /\ NeedsReview(mapping)
              /\ review' = [file |-> r.file, mapping |-> mapping]
              /\ Show("mapping", mapping)
              /\ error' = FALSE
              /\ UNCHANGED <<runs, started>>
    /\ UNCHANGED <<form, source, result, picks>>

\* The operator points a required field at a column of the pending file.
Choose(field, header) ==
    /\ step = "mapping"
    /\ choices' = [choices EXCEPT ![field] = header]
    /\ UNCHANGED <<form, step, source, review, result, error, reads, runs, picks, started>>

ConfirmMapping ==
    /\ step = "mapping"
    /\ \A f \in REQUIRED : choices[f] # Blank
    /\ LET chosen == [f \in REQUIRED \cup DOMAIN review.mapping |->
                        IF f \in REQUIRED THEN choices[f] ELSE review.mapping[f]]
       IN  Run(review.file, chosen, form)
    /\ UNCHANGED <<form, step, source, review, choices, result, reads, picks>>

\* Mutant of FinishRun.
FinishRunSourceAnyway(r) ==
    LET ok == Succeeds(r.file, r.mapping, r.params)
    IN  /\ runs' = runs \ {r}
        /\ source' = [file |-> r.file, mapping |-> r.mapping]
        /\ result' = IF ok THEN [file |-> r.file, mapping |-> r.mapping, params |-> r.params]
                     ELSE result
        /\ Show(IF ok THEN "quality" ELSE step, <<>>)
        /\ error' = (error \/ ~ok)
        /\ UNCHANGED <<form, review, reads, picks, started>>

\* A run ends: all of its states are set at once, or only its error.
FinishRun(r) ==
    /\ runs' = runs \ {r}
    /\ IF Succeeds(r.file, r.mapping, r.params)
       THEN /\ source' = [file |-> r.file, mapping |-> r.mapping]
            /\ result' = [file |-> r.file, mapping |-> r.mapping, params |-> r.params]
            /\ Show("quality", <<>>)
            /\ UNCHANGED error
       ELSE error' = TRUE /\ UNCHANGED <<source, result, step, choices>>
    /\ UNCHANGED <<form, review, reads, picks, started>>

ChangeN(n) ==
    /\ step = "quality" /\ result # Blank
    /\ form' = [form EXCEPT !.n = n]
    /\ Run(source.file, source.mapping, form')
    /\ UNCHANGED <<step, source, review, choices, result, reads, picks>>

\* Mutant of Back.
BackToQuality ==
    /\ step # "upload"
    /\ Show(IF step = "quality" THEN "upload" ELSE "quality", <<>>)
    /\ UNCHANGED <<form, source, review, result, error, reads, runs, picks, started>>

Back ==
    /\ step # "upload"
    /\ Show(IF step = "observed" THEN "quality" ELSE "upload", <<>>)
    /\ UNCHANGED <<form, source, review, result, error, reads, runs, picks, started>>

ShowObserved ==
    /\ step = "quality" /\ result # Blank
    /\ Show("observed", <<>>)
    /\ UNCHANGED <<form, source, review, result, error, reads, runs, picks, started>>

PageNext ==
    \/ \E f \in Forms : SetForm(f)
    \/ \E file \in Files : PickFile(file)
    \/ RejectFile
    \/ \E r \in reads : FileRead(r)
    \/ \E field \in REQUIRED, header \in IF review = Blank THEN {} ELSE review.file.headers :
          Choose(field, header)
    \/ ConfirmMapping
    \/ \E r \in runs : FinishRun(r)
    \/ \E n \in Thresholds : ChangeN(n)
    \/ Back
    \/ ShowObserved

ScreenNext == PageNext \/ LeavePage

ScreenSpec == ScreenInit /\ [][ScreenNext]_screenVars

-----------------------------------------------------------------------------

\* The state of the page is well formed; the mapping screen is shown with a
\* plan, and a result with the screens that need one (Assessment).
ScreenTypeOK ==
    /\ form \in Forms \cup {[DefaultForm EXCEPT !.n = n] : n \in Thresholds \cup {DefaultForm.n}}
                      \cup {[f EXCEPT !.n = n] : f \in Forms, n \in Thresholds}
    /\ step \in Steps /\ error \in BOOLEAN
    /\ step = "mapping" => review # Blank /\ choices # Blank
    /\ step \in {"quality", "observed"} => result # Blank
    /\ \A r \in runs : r.file \in Files /\ r.nr < started
    /\ \A r \in reads : r.file \in Files /\ r.nr < picks
    /\ picks <= MaxPicks /\ started <= MaxRuns

\* The result shown is of the file and mapping that a re-run with another N will
\* use: failed, overtaken and abandoned runs never part the two (run, changeN).
ResultOfItsSource ==
    result # Blank => source = [file |-> result.file, mapping |-> result.mapping]

\* A run reads a required column under another name only after the operator saw
\* that choice on the mapping screen, or again with the mapping of the result
\* shown ("A synonym match is a GUESS", onFile, confirmMapping, changeN).
GuessesAreConfirmed ==
    [][\A r \in runs' \ runs :
          (\E f \in REQUIRED : f \notin DOMAIN r.mapping \/ r.mapping[f] # f) =>
             \/ step = "mapping" /\ \A f \in REQUIRED : r.mapping[f] = choices[f]
             \/ result # Blank /\ r.file = source.file /\ r.mapping = source.mapping]_screenVars

\* A result is shown only of a run that passed every structural guard.
OfResult(Property(_, _)) ==
    result # Blank => Property(result, AssessCsv(result.file, result.mapping, result.params))

\* Every row of the file read for the result shown is in the cohort, excluded,
\* or dropped with a reason, and every stalled dollar is in one bucket (assess,
\* dedupeCollisions, observedSummary, splitCohorts).
ResultAccountsForAll == OfResult(EveryRowAccountedFor) /\ OfResult(BucketsPartitionTheValue)

\* A stall threshold longer by a day never raises the headline and spares only
\* the cycles on its edge (classifyStall, changeN).
ResultFallsWithN == OfResult(HeadlineFallsWithN)

\* When anything happened after the as-of date changes no number of the result:
\* it is as if no date of it were in the file (classifyStall, effectivePaidAt).
\* The amount of a later payment is another matter: ResultKnowsNoPayment.
ResultKnowsNoFuture == OfResult(NoFutureInformation)

\* A payment after the as-of date changes no number of the result, with its amount
\* in the file or without ("No row is classified using information after asOf").
\* It does not hold: the amount paid is read without its date (classifyPayment).
ResultKnowsNoPayment == OfResult(NoFuturePayment)

\* No cycle of the result has an amount that could be read in two ways
\* (normalizeAmount, toCycle).
ResultAmountsAreRead == OfResult(AmountsAreNotGuessed)
=============================================================================
