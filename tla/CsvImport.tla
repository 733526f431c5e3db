------------------------------- MODULE CsvImport -------------------------------
(***************************************************************************)
(* From the table of a CSV file to expectation cycles: headers, column     *)
(* mapping, formatted dates and amounts, and the SaaS activation adapter.  *)
(* Days are numbers.  A table has a set of columns and a sequence of rows. *)
(* A cell is empty (Blank), a date, an amount, or a word: any other text.  *)
(* No text here is both a date and an amount.  A date such as "Jan 2 2026" *)
(* would be: its month is dropped like a currency code (amountNormalize).  *)
(* Such texts are left out; all others have a sign or letters that tell.   *)
(***************************************************************************)
EXTENDS Integers, Sequences, SequencesExt

CONSTANT Blank

Word(text) == [kind |-> "word", text |-> text]

Ok(value) == [ok |-> TRUE, value |-> value]

Fail(reason) == [ok |-> FALSE, value |-> reason]

-----------------------------------------------------------------------------
(* Dates.  A numeric date whose parts are both at most 12 has two readings.*)

Dated(day) == [kind |-> "date", certain |-> TRUE, mdy |-> day, dmy |-> day]

TwoWays(mdy, dmy) == [kind |-> "date", certain |-> FALSE, mdy |-> mdy, dmy |-> dmy]

DateCell == [kind : {"date"}, certain : BOOLEAN, mdy : Int, dmy : Int]

\* An empty cell is no date, no day and no flag.
ASSUME BlankAssumption == Blank \notin DateCell /\ Blank \notin Int /\ Blank # Word("yes")

NormalizeDate(text, locale) ==
    IF text = Blank \/ text.kind # "date" THEN Fail("malformed_date")
    ELSE IF ~text.certain /\ locale = Blank THEN Fail("ambiguous_date")
    ELSE Ok(IF locale = "MDY" THEN text.mdy ELSE text.dmy)

-----------------------------------------------------------------------------
(* Amounts: groups of digits between separators.  A group is its length    *)
(* and its value, a decimal its sign, whole part and fraction.             *)

Digits(len, value) == [len |-> len, value |-> value]

Amount(negative, groups, seps) ==
    [kind |-> "amount", negative |-> negative, groups |-> groups, seps |-> seps]

Joined(groups) ==
    FoldLeft(LAMBDA acc, g : Digits(acc.len + g.len, acc.value * 10 ^ g.len + g.value),
             Digits(0, 0), groups)

NoFraction == Digits(0, 0)

\* The last of both separators, or the only one, may be a decimal point; before
\* three digits it is one in the format that writes it so.
HasFraction(groups, seps, format) ==
    \/ ToSet(seps) = {"comma", "point"}
    \/ /\ Len(seps) = 1
       /\ \/ groups[2].len # 3
          \/ <<format, seps[1]>> \in {<<"US", "point">>, <<"EU", "comma">>}

\* Whole part and fraction of a text, or the reason why it has none.
SplitNumber(groups, seps, format) ==
    LET n == Len(seps)
    IN  IF ToSet(seps) = {"comma", "point"} /\ \E i \in 1 .. n - 1 : seps[i] = seps[n]
          THEN Fail("invalid_amount")
        ELSE IF n = 1 /\ groups[2].len = 3 /\ format = Blank THEN Fail("ambiguous_amount")
        ELSE IF HasFraction(groups, seps, format)
          THEN Ok([whole |-> Joined(Front(groups)), fraction |-> Last(groups)])
        ELSE Ok([whole |-> Joined(groups), fraction |-> NoFraction])

\* A number with its sign, unless it starts with its separator.
Signed(number, negative) ==
    IF ~number.ok THEN number
    ELSE IF number.value.whole.len = 0 THEN Fail("invalid_amount")
    ELSE Ok([negative |-> negative, whole |-> number.value.whole,
             fraction |-> number.value.fraction])

\* Mutant of NormalizeAmount.
NormalizeAmountGuessing(text, format) ==
    IF text = Blank \/ text.kind # "amount" THEN Fail("invalid_amount")
    ELSE Signed(SplitNumber(text.groups, text.seps, IF format = "EU" THEN "EU" ELSE "US"),
                text.negative)

NormalizeAmount(text, format) ==
    IF text = Blank \/ text.kind # "amount" THEN Fail("invalid_amount")
    ELSE Signed(SplitNumber(text.groups, text.seps, format), text.negative)

MinorUnitDigits(currency) == IF currency = "JPY" THEN 0 ELSE 2

\* The single boundary to minor units: more fraction than they have is refused.
FromDecimal(d, currency) ==
    LET digits == MinorUnitDigits(currency)
        minor == d.whole.value * 10 ^ digits
                 + d.fraction.value * 10 ^ (digits - d.fraction.len)
    IN  IF d.fraction.len > digits THEN Fail("invalid_amount")
        ELSE Ok(IF d.negative THEN -minor ELSE minor)

InMinorUnits(decimal, currency) ==
    IF decimal.ok THEN FromDecimal(decimal.value, currency) ELSE decimal

MoneyOf(text, format, currency) == InMinorUnits(NormalizeAmount(text, format), currency)

-----------------------------------------------------------------------------
(* Columns.                                                                *)

REQUIRED == {"entity_id", "signed_at", "next_invoice_due_at", "next_invoice_amount", "currency"}

Optional == {"subscription_id", "cycle_id", "activation_at", "next_invoice_paid_at",
             "next_invoice_paid", "paid_amount", "status", "is_test", "refunded", "cancelled"}

Canonical == REQUIRED \cup Optional

\* Other names of a column, most wanted first.
SYNONYMS ==
    [entity_id |-> <<"customer_id", "account_id", "customer", "account", "company_id", "org_id">>,
     signed_at |-> <<"contract_signed_at", "signed_date", "signup_date", "created_at",
                     "close_date", "start_date">>,
     next_invoice_due_at |-> <<"invoice_due_date", "due_date", "next_invoice_date",
                               "invoice_date", "billing_date">>,
     next_invoice_amount |-> <<"amount", "invoice_amount", "mrr", "arr", "invoice_total",
                               "billing_amount">>,
     currency |-> <<"ccy", "currency_code", "iso_currency">>,
     subscription_id |-> <<"subscription", "sub_id">>,
     activation_at |-> <<"activated_at", "onboarded_at", "go_live_date", "first_value_at",
                         "activation_date">>,
     next_invoice_paid_at |-> <<"paid_at", "invoice_paid_at", "payment_date", "paid_date">>,
     next_invoice_paid |-> <<"paid", "is_paid">>,
     paid_amount |-> <<"amount_paid", "settled_amount">>,
     status |-> <<"subscription_status", "account_status", "state">>,
     is_test |-> <<"test", "test_account", "is_internal">>]

\* A file with two columns of one name, or one without a name, is refused.
HeaderValid(table) == ~table.clash

KnownAs(field, headers) ==
    IF field \in DOMAIN SYNONYMS
    THEN SelectSeq(SYNONYMS[field], LAMBDA s : s \in headers) ELSE <<>>

AutoDetectMapping(headers) ==
    [field \in {f \in Canonical : f \in headers \/ KnownAs(f, headers) # <<>>} |->
        IF field \in headers THEN field ELSE KnownAs(field, headers)[1]]

\* Mutant of NeedsReview.
NeedsReviewIfMissing(mapping) == ~(REQUIRED \subseteq DOMAIN mapping)

\* A required column that is not there, or there under a guessed name.
NeedsReview(mapping) == \E f \in REQUIRED : f \in DOMAIN mapping => mapping[f] # f

\* The mapped columns under their canonical names, the others as they are.
ApplyMapping(table, mapping) ==
    LET cells(row) ==
            [h \in table.headers \cup DOMAIN mapping |->
               IF h \notin DOMAIN mapping THEN row.cells[h]
               ELSE IF mapping[h] \in table.headers THEN row.cells[mapping[h]] ELSE Blank]
    IN  [headers |-> table.headers \cup DOMAIN mapping,
         rows |-> [i \in DOMAIN table.rows |->
                     [malformed |-> table.rows[i].malformed, cells |-> cells(table.rows[i])]]]

MissingRequiredColumns(headers) == REQUIRED \ headers

-----------------------------------------------------------------------------
(* The adapter: one row becomes a cycle or an exclusion with its reason.   *)

Cell(row, field) == IF field \in DOMAIN row.cells THEN row.cells[field] ELSE Blank

IsSet(row, field) == Cell(row, field) = Word("yes")

\* The explicit id of the first of the two columns that exists, if it has one.
ExplicitCycle(row) ==
    Cell(row, IF "subscription_id" \in DOMAIN row.cells THEN "subscription_id" ELSE "cycle_id")

Faulty(result) == IF result.ok THEN {} ELSE {result.value}

When(holds, reason) == IF holds THEN {reason} ELSE {}

\* The reasons against the amount that is due.
AmountObjections(amount) ==
    <<Faulty(amount),
      When(amount.ok /\ amount.value < 0, "negative_amount"),
      When(amount.ok /\ amount.value = 0, "zero_amount")>>

\* The reasons against a row in the order in which they are looked for.
Objections(row, policy, opts) ==
    LET date(field) == Faulty(NormalizeDate(Cell(row, field), opts.locale))
        money(field) == MoneyOf(Cell(row, field), opts.format, policy.currency)
        given(field) == Cell(row, field) # Blank
    IN  <<When(row.malformed, "unparseable_row"),
          When(\E f \in REQUIRED : ~given(f), "missing_required_field"),
          When(Cell(row, "currency") # Word(policy.currency), "currency_mismatch"),
          When(IsSet(row, "is_test"), "internal_or_test_account"),
          When(given("status") /\ Cell(row, "status") \in policy.excludedStatuses, "excluded_status"),
          date("signed_at"),
          date("next_invoice_due_at"),
          IF given("activation_at") THEN date("activation_at") ELSE {}>>
        \o AmountObjections(money("next_invoice_amount"))
        \o <<IF given("paid_amount") THEN Faulty(money("paid_amount")) ELSE {},
             IF given("next_invoice_paid_at") THEN date("next_invoice_paid_at") ELSE {}>>

Excluded(row, policy, opts) == UNION ToSet(Objections(row, policy, opts)) # {}

ExclusionReason(row, policy, opts) ==
    CHOOSE reason \in SelectSeq(Objections(row, policy, opts), LAMBDA r : r # {})[1] : TRUE

\* A bare "paid" flag counts as paid at the due date.
PaidAt(row, due, locale) ==
    IF Cell(row, "next_invoice_paid_at") # Blank
    THEN NormalizeDate(Cell(row, "next_invoice_paid_at"), locale).value
    ELSE IF IsSet(row, "next_invoice_paid") THEN due ELSE Blank

\* The cycle of row i, which nothing is held against.
ToCycle(row, i, policy, opts) ==
    LET day(field) == NormalizeDate(Cell(row, field), opts.locale).value
        money(field) == MoneyOf(Cell(row, field), opts.format, policy.currency).value
        due == day("next_invoice_due_at")
        status == Cell(row, "status")
    IN  [row |-> i,
         cycleId |-> IF ExplicitCycle(row) # Blank THEN <<ExplicitCycle(row)>>
                     ELSE <<Cell(row, "entity_id"), day("signed_at"), due>>,
         expectationAt |-> day("signed_at"),
         observationAt |-> IF Cell(row, "activation_at") = Blank THEN Blank ELSE day("activation_at"),
         dueAt |-> due,
         amount |-> money("next_invoice_amount"),
         paidAt |-> PaidAt(row, due, opts.locale),
         paidAmount |-> IF Cell(row, "paid_amount") = Blank THEN Blank ELSE money("paid_amount"),
         refunded |-> IsSet(row, "refunded") \/ status = Word("refunded"),
         cancelled |-> IsSet(row, "cancelled") \/ status = Word("cancelled")]

\* Every row is a cycle or an exclusion.
RowOutcomes(rows, policy, opts) ==
    LET out == {i \in DOMAIN rows : Excluded(rows[i], policy, opts)}
    IN  [cycles |-> {ToCycle(rows[i], i, policy, opts) : i \in DOMAIN rows \ out},
         exclusions |-> {<<i, ExclusionReason(rows[i], policy, opts), <<>>>> : i \in out}]

=============================================================================
