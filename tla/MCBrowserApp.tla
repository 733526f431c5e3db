----------------------------- MODULE MCBrowserApp -----------------------------
(***************************************************************************)
(* Instances of the page.  Each behaviour works at one desk: on everything *)
(* that concerns one case, on the figures of all of them, on the order of  *)
(* reads and runs of a few files, or on the rows of one file.              *)
(***************************************************************************)
EXTENDS BrowserApp

CONSTANTS
    EditsAt,    \* changes of provisional fields at the desk of each case
    IdsAt       \* records asked for there

VARIABLE desk

\* The seed is that of the repository: evaluated once for the whole of it.
ASSUME FirstRunAssumption == FirstRunHeadline

ProvenAndOpen == {"RE1005", "RE1007"}
ThreeCases == {"RE1005", "RE1006", "RE1007"}
OneOwner == {Dana}
FewEdits == [RE1005 |-> 0, RE1007 |-> 1]
FewIds == [RE1005 |-> 4, RE1007 |-> 3]
ClearOrSet == {None, "CSMOutreach"}

-----------------------------------------------------------------------------
(* The rows of the assessment, as departures from an ordinary one.         *)

Garbled == Word("n/a")

Plain(value) == Amount(FALSE, <<Digits(4, value)>>, <<>>)

Split(groups, seps) == Amount(FALSE, groups, seps)

One == Digits(1, 1)
Grouped == Digits(3, 200)
Cents == Digits(2, 50)

Ordinary ==
    [entity_id |-> Word("acme"), signed_at |-> Dated(0), next_invoice_due_at |-> Dated(40),
     next_invoice_amount |-> Plain(1200), currency |-> Word("USD")]
    @@ [f \in Optional |-> Blank]

\* When the customer signed, was active, and had to pay; the day of the
\* analysis is 60.
Timings ==
    {<<>>, [activation_at |-> Dated(30)], [activation_at |-> Dated(31)],
     [activation_at |-> Dated(61)], [activation_at |-> TwoWays(10, 70)],
     [activation_at |-> Garbled], [signed_at |-> Dated(30)], [signed_at |-> TwoWays(31, 2)],
     [next_invoice_due_at |-> Dated(61)], [next_invoice_due_at |-> Garbled]}

\* What is known of the payment.
Payments ==
    {[next_invoice_paid_at |-> Dated(40)], [next_invoice_paid_at |-> Dated(61)],
     [next_invoice_paid_at |-> TwoWays(50, 61), paid_amount |-> Plain(1000)],
     [next_invoice_paid_at |-> Dated(50), paid_amount |-> Amount(TRUE, <<Grouped>>, <<>>)],
     [paid_amount |-> Plain(1000)], [paid_amount |-> Garbled], [next_invoice_paid |-> Word("yes")],
     [next_invoice_paid_at |-> Garbled], [refunded |-> Word("yes")], [status |-> Word("cancelled")]}

AmountTexts ==
    {Split(<<One, Grouped>>, <<"comma">>), Split(<<One, Grouped>>, <<"point">>),
     Split(<<One, Grouped, Cents>>, <<"comma", "point">>), Split(<<One, Grouped, Cents>>, <<"point", "comma">>),
     Split(<<One, Grouped, Grouped>>, <<"point", "point">>), Split(<<One, Cents>>, <<"comma">>),
     Split(<<One, Grouped, Grouped>>, <<"comma", "point">>), Split(<<One, Cents, Cents>>, <<"point", "comma">>),
     Split(<<Digits(0, 0), Cents>>, <<"point">>), Amount(TRUE, <<Grouped>>, <<>>), Plain(0), Garbled}

Others ==
    {[is_test |-> Word("yes")], [currency |-> Word("EUR")], [entity_id |-> Blank],
     [subscription_id |-> Word("s1")],
     [subscription_id |-> Word("s1"), activation_at |-> Dated(10)],
     [entity_id |-> Word("zoom")]}

Row(change) == [malformed |-> FALSE, cells |-> change @@ Ordinary]

RowMenu ==
    {Row(change) : change \in Timings \cup Payments \cup Others
                              \cup {[next_invoice_amount |-> t] : t \in AmountTexts}}
    \cup {[malformed |-> TRUE, cells |-> Ordinary]}

Table(rows) == [headers |-> Canonical, clash |-> FALSE, rows |-> rows]

\* Beside a second row that is the same, has the same id, or another cohort.
Companions ==
    {Row(<<>>), Row([subscription_id |-> Word("s1")]), Row([entity_id |-> Word("zoom")]),
     Row([entity_id |-> Word("zoom"), activation_at |-> Dated(30)])}

RowFiles ==
    {Table(<<r>>) : r \in RowMenu} \cup {Table(<<r, s>>) : r \in RowMenu, s \in Companions}

\* Files that differ in their header.
OfColumns(columns, clash) ==
    [headers |-> {columns[f] : f \in DOMAIN columns}, clash |-> clash,
     rows |-> <<[malformed |-> FALSE,
                 cells |-> [h \in {columns[f] : f \in DOMAIN columns} |->
                              Ordinary[CHOOSE f \in DOMAIN columns : columns[f] = h]]]>>]

AsNamed == [f \in REQUIRED |-> f]

Exported == [AsNamed EXCEPT !.entity_id = "customer_id", !.next_invoice_amount = "amount"]

Unlabelled == [AsNamed EXCEPT !.next_invoice_amount = "mrr", !.currency = "money"]

HeaderFiles ==
    {OfColumns(AsNamed, FALSE), OfColumns(Exported, FALSE), OfColumns(Unlabelled, FALSE),
     OfColumns(AsNamed, TRUE)}

AllFiles == RowFiles \cup HeaderFiles

Asking(n, currency, locale, format) ==
    [n |-> n, asOf |-> 60, currency |-> currency, locale |-> locale, format |-> format]

AtOpening == Asking(30, "USD", Blank, Blank)

SomeForms ==
    {AtOpening, Asking(29, "USD", "MDY", "US"), Asking(30, "USD", "DMY", "EU"),
     Asking(30, "CHF", Blank, Blank)}

-----------------------------------------------------------------------------

ProofsOfOthers(all) == SelectSeq(all, LAMBDA p : p.case # desk)

\* What the gate measures no time or amount of.
Described(e) == <<e.owner, e.reason, e.notes>>

AtFigures == active' = "cases" /\ TrustOf(next') = TrustOf(Seeded)

\* A write that failed matters to the next load; the page is not worked on before.
AfterLoss == lost = 1 /\ load = 0 => burst' <= burst

\* A reset or a load that brings back what is there is left out.
LoadsMatter == load' # load => next' # next

AtCase ==
    /\ active' = "cases" /\ AfterLoss /\ LoadsMatter
    /\ edits' <= EditsAt[desk] /\ seq' <= IdsAt[desk]
    /\ Described(next'.cases[desk]) = Described(SeedEvents[desk])
    /\ next'.cases[desk].status # "Failed"
    /\ \A c \in Cases \ {desk} : next'.cases[c] = SeedEvents[c]
    /\ ProofsOfOthers(next'.proofs) = ProofsOfOthers(Seeded.proofs)

\* A load ends what is in flight; one that ends nothing is as good as leaving.
NoWork ==
    /\ burst' = 0 /\ clock' = load' /\ clock' + picks' <= 2
    /\ load' # load => reads \cup runs # {}

\* Two files and two runs in any order, with one other threshold.
AtFiles ==
    /\ NoWork
    /\ \A r \in reads' : r.file \in HeaderFiles
    /\ form'.locale = Blank /\ form'.n <= 30
    /\ choices' # Blank /\ choices # Blank =>
         /\ \A f \in REQUIRED \ {"currency"} : choices'[f] = choices[f]
         /\ choices'["currency"] \in {choices["currency"], "money"}

\* One file, read and assessed.
AtRows ==
    /\ NoWork /\ load' = 0
    /\ picks' <= 1 /\ started' <= 1
    /\ \A r \in reads' : r.file \in RowFiles
    /\ result # Blank => UNCHANGED appVars

DeskInit == AppInit /\ desk \in Governable \cup {"figures", "files", "rows"}

DeskNext ==
    /\ AppNext
    /\ desk' = desk
    /\ CASE desk = "figures" -> AtFigures
         [] desk = "files" -> AtFiles
         [] desk = "rows" -> AtRows
         [] OTHER -> AtCase

DeskSpec == DeskInit /\ [][DeskNext]_<<appVars, desk>>
=============================================================================
