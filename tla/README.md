# Verification of Revenue Recovery OS

TLA+ models, TLC runs and TLAPS proofs for the Revenue Recovery Operating
System: a browser prototype and a governed server that let a business approve,
freeze, correct and audit "proven recovered revenue". The repository's central
promise is that *a recovery case counts at most one number, that number is
frozen when it is approved, rests on facts recorded before it, and nobody who
profits from it approves it*. The models ask whether that promise survives
overlapping requests, failures, retries and reordering, clicks that outrun the
page, and files that can be read in two ways; and whether what the repository's
own research may conclude is earned by what it cites.

## 1. Inventory

| Component | State | Operations | Hard behaviour | What makes it correct | Status |
|---|---|---|---|---|---|
| Proof service `src/server/services/proofService.ts`, routes `src/server/app.ts` | none of its own; local variables of a handler across its awaits | author, establish baseline, record intervention, ingest evidence, approve, revise, verify, flag, halt, exclude | handlers interleave at every `await`; checks are made long before the insert they protect; clients retry | one chain per case, revisions on the head, gates still true when the row is stored | modelled |
| Authority ledger and gate `src/server/auth/*` | `AuthorityEvent` rows, append-only | `recordAuthority`, `enforceSeparation`, `firstInterveneEvent` | read-check-insert with no transaction | separation of duties | modelled |
| Stores `src/server/persistence/*`, `src/prisma/*` | `Proof`, `BaselineSnapshot`, `EvidenceRecord` rows, append-only by trigger | insert; unique constraints; two-row transaction | row times are those of the transaction's begin; constraint violations | proof and authority are one fact; an outcome record is used once | modelled |
| Audit service `src/server/audit/auditService.ts` | a report under assembly | case trail, single proof, CFO export | several reads, no snapshot transaction | a report agrees with itself and with an exclusion | modelled |
| Trust kernel `src/src/domain/*` | none (pure) | `createApprovedProof`, `reviseProof`, `effectiveProofs`, gates, money, the reconciliation and attribution tables | clamping, currency, boundary times, filters that must agree | the frozen number; screens that agree | partly: all but audit entries and labels |
| Browser client `src/src/state/RecoveryContext.tsx`, `src/src/data/localStorageRepo.ts` | React state, `proofsRef`, two `localStorage` keys | edits of a case, evidence, lock and revise baselines, approve, reverse, reset | stale closures, effects, two keys stored at different times, failed writes, reloads | one effective recovery per case, a locked baseline never changes, proofs keep what they rest on | modelled |
| App shell and case screens `src/src/App.tsx`, `src/src/modules/*`, `src/src/components/*` | the screen shown | navigation, the controls above | seven screens filter the same dollars | screens agree | partly: decisions and numbers, no layout |
| Seed data `src/src/data/seed*.ts`, `actors.ts` | none | built once per empty storage, and by the reset | proofs must pass the real gate | the first run tells one story | partly: no audit entries or texts |
| Delivery core `src/scripts/coordination/bridge.ts` | an immutable ledger the caller keeps | `receive`, `acknowledge`, `settle`, `nextAction`, `recordAttempt` | expiry that nothing stores, late and repeated receipts, the attempt limit | final states stay final, only the addressee delivers, content fixed under an id, nothing given up quietly | modelled |
| Coordination receiver `src/scripts/coordination/receiver.ts`, `receive-comment.ts`, `src/.github/workflows/nh-receiver.yml` | none: an issue's comments, replayed by every run | list, decide, post; queue, kill, run again | failed calls, lost responses, re-runs, displaced runs, edits and deletions | one answer per comment, answers of one ledger, every run ends | modelled |
| Wire format `src/scripts/coordination/wire.ts` | none (pure) | `parseComment` and its inverse | fences, sizes, hashes | message, receipt, refused or prose | partly: its result |
| Assessment calculation `src/src/assessment/*` | none (pure) | map columns, normalise dates and amounts, adapt, classify, summarise | ambiguous texts, boundary days, partial payment, duplicate cycles | every row accounted for, no hindsight, no guessed amount | modelled |
| Assessment screen `src/src/modules/assessment/*` | the screen's state, files being read, runs in flight | pick, map, confirm, re-run with another N, leave | a slow run that finishes late | the result shown belongs to the source a re-run would use | modelled |
| Assessment records, export, privacy monitor | a hash-chained record | record, verify, summarise | – | – | not modelled: section 7 |
| Research validator `src/research/validator/*` | a dataset; one run's events | envelope, contract and schema gates, thirteen rules, exit code | order of checks, repeated ids, absent optional fields | a dataset that passes earned it | modelled |
| Research renderer `src/research/renderer/*` | none | lay a dataset out as text | – | – | not modelled |
| Authentication, start-up, health probe, build, e2e, docs | – | – | – | – | not modelled: section 7 |

The browser client and the server do not talk to each other at this commit:
they share the kernel, each with its own store. Inside the server, the route
takes the actor from the request, the service checks the role, reads the ledger
and the stores, runs the kernel and inserts. The audit service reads what the
proof service wrote. The
coordination receiver is a program of its own, started per issue comment; it
uses the delivery core as a library. In the browser the recovery state lives in a
provider above all screens; the assessment is one of the screens, keeps its own
state and loses it when it is left. The research validator is a command run on a
file. `PROJECT.json` lists the hazards at their lines.

## 2. Modules

| Module | What it is |
|---|---|
| `ProofServer` | The governed server: the four tables, the handlers in flight, one action per awaited call; the properties. |
| `AuditService` | `ProofServer` composed with readers that assemble the three audit reports, one action per awaited read. |
| `CountedLedger` | The abstract promise to readers of the numbers: a case is approved once and then changes by successive versions. Implemented by the server and, with a chain in the place of a case, by the browser. |
| `ProofServerProofs`, `AuditServiceProofs` | Theorems and proofs (section 5): types, chains, the refinement and what stands behind a number; reports. |
| `Bridge` | The delivery core's pure rules, one operator per function (and per result, where a function returns a ledger and an outcome). |
| `DeliveryLedger` | The delivery core in use: messages submitted, a sender that asks and attempts, receipts, time. |
| `Comments` | What one issue comment says to the delivery ledger (`applyComment`). |
| `NhReceiver` | The receiver: an issue, the platform's queue of runs, and a run call by call. |
| `CommentLedger` | The abstract promise to readers of an issue: one ledger, told of each comment once, that answers with what it said then. |
| `DeliveryLedgerProofs`, `NhReceiverProofs` | Theorems and proofs (section 5). |
| `RecoveryCase`, `ProofStore` | A case, its score and playbook; baselines, evidence, the approval gate and the sequence of proofs. Operators only. |
| `RecoverySeed` | What the browser starts with, built through that gate. |
| `RecoveryClient` | The provider: what the render shows, what the next one will show, the mirror, the disk; one action per operation. |
| `RecoveryScreens` | The numbers of the screens, and that they agree. |
| `CsvImport`, `AssessmentCalc` | From a table to cycles; from cycles to a result. Operators only. |
| `AssessmentScreen` | The assessment page: reads and runs in flight. |
| `BrowserApp` | `RecoveryScreens` and `AssessmentScreen` composed into one page. |
| `AssessmentScreenProofs`, `RecoveryClientProofs`, `BrowserAppProofs` | Theorems and proofs (section 5). |
| `SchemaSubset`, `ResearchSchemas`, `ResearchRules` | The interpreter of schemas; the eight shipped schemas; the thirteen rules. Operators only. |
| `ResearchValidator` | A dataset that grows record by record, and the validator run on it. |
| `ResearchValidatorProofs` | Theorems and proofs (section 5). |
| `MCProofServer`, `MCProofMenus`, `MCAuditService`, `MCDeliveryLedger`, `MCNhReceiver`, `MCReceiverUses`, `MCBrowserApp`, `MCResearchValidator` | Inputs, instances and symmetry for TLC. |

### How `ProofServer` corresponds to the code

* A handler is `idle` or at one of its awaits. `pc[h]` names the awaited call it
  makes next; `req`, `snap`, `cited` and `original` are its local variables
  (`req`, `snapshot`, `evidenceRecords`, `existing`).
* `Approve` walks through `CheckOwned` (the first `authorityFor`),
  `EnforceSeparation` (the second), `CheckRoot`, `GetBaselineSnapshot`,
  `GetEvidenceByIds`, `ReadIntervention` with the trust gates that follow it,
  `BeginWrite`, `CommitProof`. `Revise` walks through `LoadProof`,
  `EnforceSeparation`, `RereadOriginal`, `BeginWrite`, `CommitProof`; `Verify`
  through `LoadProof`, `EnforceSeparation`, `BeginWrite`, `CommitAuthority`;
  the others go to their insert at once (`Author` after `EnforceSeparation`).
* A request that is refused before its first database call (no actor, schema,
  role) changes nothing and is no step; `Receive` takes only those that pass.
  Any request of the menu can come any number of times, from any handler slot:
  that is the client that retries.
* An insert has two steps because a row carries the time its write began
  (`@default(now())`) but is seen when it commits. The commit either satisfies
  the unique constraints and adds its rows, all of them, or adds none.
* `Abandon` is a failed database call (the 500 of `registerErrorHandler`) or the
  process stopping, at any await. Nothing is kept in memory between requests, so
  a restart is every handler abandoning.
* Rows never change or disappear (the immutability triggers): no action does it.

What is abstracted: identifiers, currencies and source records are model values;
`confidenceUsed >= proofThreshold` is the request's `clearsThreshold`; free-text
source systems that are not on the list behave like `"manual"`; texts
(attribution, statements, methods) and their versions are left out. An authority
event's id, role and policy version are left out, so equal events of one instant
merge; no guard counts events. A random event id that repeats would be one more
failed commit. A blank exclusion statement makes the kernel throw before any
write, which is a rejection. `approvedAt` is written, and no server code reads
it back for a decision. One clock serves the stamps of the four tables. Amounts
are integers below 2^53, checked by the schemas, and small in the runs; nothing
the server adds up leaves that range on one case's evidence.

### How `AuditService` corresponds to the code

`report[x]` is one request in progress. The export reads proofs, exclusion,
the gaps of each candidate of the total, the trail, then the gaps of each proof
of the chain (`Promise.all`, so in any order); the trail report and the single
proof have shorter paths. A proof's snapshot is stored before the proof and
never changes, so `derivedTrustGaps` is one read, that of the interventions. The
static `provenanceGaps` cannot fire: the request schema and the kernel require
every field they look for. `wasExcluded` is a history variable for a property.

### How `DeliveryLedger` and `NhReceiver` correspond to the code

`DeliveryLedger` keeps the ledger that the functions of `bridge.ts` return; the
code that calls them is outside the repository, so any operation may come at
any time with any input. `due` holds the messages a sender was told to `send`
and has not yet recorded an attempt for: the answer of `nextAction` is used
later than it was given. There is one sender per message; two that shared a
ledger would each be right by `nextAction` and together faster than the
schedule. A body and its hash are one model value. Records with unknown fields
or malformed values are refused and change nothing, so `Message` and `Receipt`
hold only well-formed ones; `in_reply_to` takes part in no decision and is left
out. `undelivered` shows as `StateOf`.

In `NhReceiver` comments are numbered in id order. `run` is the workflow run in
progress, at the listing or at the post, with `tries` the failed attempts of
`withRetry`. `Write`, `Edit`, `Delete`, `Rerun`, `Tick` and the queue are the
platform: at most one run in progress and one pending per issue, a newer one
displacing it (`concurrency`), runs whose `if` is false skipped. An API call may
fail; a post may take effect although its call fails (`PostLosesAnswer`; `lost`
remembers for the properties the comments this happened to);
`Killed` stands for the timeout, a lost runner or a cancellation, between the
effect of a post and its response as well. A body hash that does not match, an
envelope over the size cap and an unreadable block are all `Malformed`. A
listing is one step (the code pages through it, 100 comments a time, and fails
beyond 2000, which is a failed call here). Nobody edits the bot's answers, and
the only bot on the issue is the receiver's. An edit within the second in which
a comment was written leaves `updated_at` equal to `created_at`, as in the
model's clock.

`CommentLedger` is told of comments in their order; `ReplaysOneLedger` maps its
ledger to the replay of all comments, its verdicts to those of the replay and
its answers to the posted ones. It is checked without edits: an edited or deleted
comment leaves the ledger by design (`receiver.ts:22`), and with it whatever was
said about it, so that its id can be recorded anew with another body.

### How `RecoveryClient` and `RecoveryScreens` correspond to the code

Each handler of the provider is a `useCallback` created by a render. What it
reads directly (`events`, `baselines`, `evidence`) is `shown`, the state of that
render; what it passes to a setter's updater acts on `next`, the state queued for
the following one; proofs are read from and written to `proofsRef`, the
synchronous mirror. `Commit` is a render with its effects: the trust key is saved
and the mirror set to the rendered proofs. Up to `MaxBurst` handlers run before
it. `disk` is what the two keys of `localStorage` hold: the cases are saved
inside the updater that changes them, the rest by the effect, and either write
may fail unnoticed (`Save`; `writeRaw` drops the exception). `Reload` closes the
page at any moment and starts from `disk`; `ResetData` takes the seed. The two
writes of a reset are taken to succeed: the seed is smaller than what it
replaces.

`UpdateBaseline` and the governed actions (`EstablishBaseline`, `LockBaseline`,
`ReviseBaseline`, `AddEvidence`, `ApproveProof`, `ReverseProof`) carry the
condition under which the panel of `EventDetail.tsx` offers them beside the
guards of the handler. `ApproveProof` runs the guard against the render and once
more against the mirror, as `approveProof` does. Times are renders: two calls of
one tick carry one time. Amounts are whole dollars, percentages whole numbers; a
note is the class of its length that the score distinguishes. An id is the kind,
the case and a counter, standing for the random suffix of `mkId`.

`RecoveryScreens` computes `PortfolioMetrics`, `Reconcile`, the three
attribution tables, the outcome table, the loop and the confidence bands from
one render, each with the filter of its own function.

### How the assessment modules correspond to the code

A table has headers and cells; splitting text into cells is left out, a row of
another length is a flag. A date is its reading under month-first and under
day-first, an amount its groups of digits and the separators between them, and
any other text a word: `NormalizeAmount` decides from these as
`amountNormalize.ts` does, and refuses what has two readings. `ToCycle` and `Objections` are the adapter of a row,
`RowOutcomes` sorts the rows, `AssessCsv` is `assess.ts`: duplicates,
observations and payments cut at the day of the analysis, stalls, payment states
and buckets, the stamp of the result.

`AssessmentScreen` keeps `reads` and `runs` in flight, each with the form and
arguments of the render it started in; they end in any order. `FinishRun` sets
text, mapping, result and step together, or only the error. A page left or
loaded again forgets all of it, and what is in flight ends without effect.
The result is kept as the inputs it is a function of.

In `BrowserApp` the case screens and the assessment exclude each other; a render
happens on either; opening the assessment waits for the render of the click
before it.

### How `ResearchValidator` corresponds to the code

A schema is a record of its keywords; `UnsupportedKeywords` and `Validates` go
down into it as `compileSchema` and `validate` do. Where the code recurses, the
model has one operator per level, four in all, over a body that takes the level
below as its parameter (`UnsupportedIn`, `Interpret`): so deep the shipped
schemas nest, and a schema that nests deeper counts as one with an unsupported
keyword, a bound the code does not have. A pattern is the set of strings it
matches, a date a year, month and day. `Malformed` is a value of another JSON
type, in place of a list, a record or an array field. `ResearchSchemas` has the
shipped schemas with every field that a rule or a property reads and one for
every keyword, each enumeration in full; which ids a pattern matches is a
constant (`IdsLike`).
`ValidateDataset` has the gates of `validate.mjs` in their order: contract,
envelope, schemas, rules; a rule that iterates over something that is no list
throws, which ends in exit 2 (`RulesThrow`, the `catch` of `validate.mjs`). Each
rule of `rules.mjs` is an operator that returns the events it raises; of two
records with one id the later hides the earlier where the code fills a `Map`.
`AddRecord` and `Validate` are the researcher and the command.

## 3. Runs

| Run | Bounds | Shows |
|---|---|---|
| `approvals` | 3 handlers, 1 case, 3 proof ids; or 2 handlers and 2 cases with 1 invoice; or 2 handlers, 1 case with 2 baselines, 2 evidence ids and an intervention; clock 0..1 | `TypeOK`, `LinearChains`, `CountedFromSnapshot`, `ProofCarriesAuthority`, `RevisionsBuildOnTheHead`, that the server implements `CountedLedger`, with two approvals and four revisions racing; `OutcomeEvidenceSingleUse`, `LockComesFirst`, `ApprovalSubstantiated` |
| `reports` | 1 handler, 1 reader, clock 0..1, one identity that tries to verify and approve | three properties of reports read while the case changes; `SeparationOfDuties` while requests that write do not overlap |
| `duty_race` | 2 handlers | violated: `SeparationOfDuties` |
| `uplift` | 1 handler | violated: `EffectiveClaimSubstantiated` |
| `reapproval` | 1 handler | violated: `ReapprovalAfterReversal` |
| `exclusion` | 1 handler, 1 reader | violated: `ShownExclusionRemovesAmount` |
| `delivery` | 2 ids, 3 messages, 36 receipts, 3 attempts, clock 0..6 | six properties of the delivery core |
| `answers` | 2 comments, 1 re-run; either messages and receipts left alone (clock 0..2, 1 attempt per call) or a message, a quoted fence and a forged marker with 1 edit or deletion (clock 0..1, 2 attempts) | `TypeOK`, `AnsweredOnce`, `SuccessIsAnswered`, `RunsEnd` under fairness, and that the receiver implements `CommentLedger` |
| `lost_answer` | 1 comment, 3 attempts per call | violated: `AtMostOneReply` |
| `browser` | 3 seeded cases of which 2 are worked on, 2 calls per render, 3 renders or loads, 1 failed write; 2 files and 2 runs, or one file of one or two rows | `AppTypeOK`, three invariants and two action properties of the recovery state, `ScreensAgree`, five invariants and one action property of the assessment |
| `hindsight` | files of one or two rows, no case worked on | violated: `ResultKnowsNoPayment` |
| `validator` | 3 setups, 8 envelopes, up to 5 records of three books | `ContentNeverCrashes`, `PassIsEarned`, `ExitIgnoresOrder`, `BlockedStaysBlocked` |

Why the bounds are enough. A race over a case needs the check of one request and
the insert of another, which two handlers give; the third in the first menu
of `approvals` (`ChainRequests`) lets an approval, a revision of it and a revision of the
revision overlap. The
properties compare at most two proofs of a case, or two cases; three proof ids
give a root, its successor and a rival of either. Two clock values distinguish
before, at and after for two stamps; late commits make a stamp older than the
rows it is compared with. With that menu the clock moves once, between requests and
after a revision (`ChainsRace`); stamps are what the other two are for. Handlers are
interchangeable and the runs with several use that symmetry (safety properties
only).

`approvals` holds three instances and `answers` two; a behaviour chooses one at
its start (`menu`, `use`) and keeps it. In the second and third menu of
`approvals` the cases get their authors first, in the first tick (`Authored`): a
request that finds no author is refused, which the first menu checks, where a
request may also overlap its own repetition. The third menu (`OrderingRequests`),
with the interventions, is checked with commits that happen in the clock tick in which
they began. With late commits the part of `LockComesFirst` that is about
interventions does not hold, and the code does not claim it: an intervention
recorded by a transaction that began before the lock but commits after the gate
ran is what the audit re-derives later (`derivedTrustGaps`), and
`AuditableRestsOnFacts` is the property of that second check. The second menu
(`TrustRequests`), which has no intervention, lets commits be late.

In `delivery` the clock passes the expiry of a short-lived message and all waits
of the schedule (1, 2, then the cap of 3); receipts of three parties, two bodies
and three times cover each refusal. `WaitIsOver` gives the schedule apart from
`BackoffSeconds` (the base, doubled with each attempt after the first, or the
cap), so that an attempt a step too early or an answer "wait" a step too long
shows. A second answer needs one comment and two
posts; a wrong replay needs one comment before or after the one answered; a
second comment or a re-run displaces a pending run. One attempt per call
suffices to compare replays: a retried call repeats a step that the replay does
not see, and a failed run already ends in every way a retried one can.

In `browser` a behaviour works at one desk. At the desk of a case everything
that concerns it happens: `RE1007` is open and goes the whole way from a baseline
to a proof (three records); `RE1005` has a proof from the seed, is reversed and
approved again. A stale closure shows with two calls before a render; a snapshot
of two times needs one failed write and one load; a second approval that should
be refused needs at most three renders. There, a write that failed matters to the
next load, so nothing but renders and loads follow it (`AfterLoss`), and a load
that would bring back what is shown is left out (`LoadsMatter`). At the desk of
figures the provisional
fields of all three cases change (amount, status, reason, notes: the dimensions
of the filters), at the desk of files two reads and two runs overlap in any
order, with one other stall threshold and the currency column as the one whose
choice is changed; at the desk of rows each kind of cell in which the code distinguishes
something is read, alone and beside a companion of the same cycle. The desks
share no state but the page, whose coming and going every desk has. `hindsight` is
the browser without cases to work on, reading the files of rows.

In `validator` the three books hold what claims rest on, what speaks against
them, and records that are not of their form; five records are a claim with two
pieces of evidence, their source and one objection. The shipped schemas are
reduced to the fields some rule or property reads.

Deadlock is checked in every run of the server and of the delivery core: a
handler can always abandon and receive, a message can be submitted again. The
others really may stop (`CHECK_DEADLOCK FALSE`): when nobody writes any more, the
receiver has nothing left to do; the page's operator stops at the bounds; a
validated file that is complete is not validated again.

### Findings

* `duty_race` – *code*. The authority history is read at
  `authorityGate.ts:33`, the row that relies on it is inserted later, and no
  constraint relates the two. One identity whose author and approve requests
  overlap holds both duties, which `authorityGate.ts:23` excludes.
* `uplift` – *code*. `revise` accepts any `collectedMinor` without evidence and
  inherits the confidence of the record it corrects, so an auditable claim can
  grow past what `proofService.ts:227` requires of auditable-tier claims.
* `reapproval` – *doc and code*. `proof.ts:177` says a reversed case may be
  approved again; the server's duplicate gate and index look at the chain root,
  which a reversal leaves in place.
* `exclusion` – *doc and code*. An exclusion recorded between two reads of an
  export shows in its trail and not in its amount, against
  `auditService.ts:172-174`.
* `lost_answer` – *code*. `withRetry` around the post (`receiver.ts:295`) repeats
  a request that is not idempotent: a reply that reached the issue, and whose
  response did not come back, is posted again, where `receive-comment.ts:2`
  promises at most one reply. A re-run, in contrast, is safe.
* `hindsight` – *doc and code*. `effectivePaidAt` hides the date of a payment after
  the as-of date, but `paymentState.ts:39` reads the amount paid uncut: an overdue
  cycle that was paid later is Unknown when the file has the amount and leaves the
  headline, where `paymentState.ts:1-4` promises "Unpaid at asOf" and
  `policy.ts:14` that nothing after the date classifies a row. (The line is meant
  for a payment without a date, and cannot tell the two apart.) Dates and flags
  of later events do reach no number: `ResultKnowsNoFuture` holds.

### Observations

Met while modelling; no run is about them.

* `reviseBaseline` reads the baselines of its render (`RecoveryContext.tsx:414`):
  revising twice before the next render gives two successors of one baseline.
  Both are locked; the last is linked.
* The proof banner takes the first effective proof of a case
  (`EventDetail.tsx:68`): after a reversal and a new approval that is the
  reversed chain, and the banner does not show the recovery that counts.
* "Auditable recovered" in the sidebar (`App.tsx:107`) is the Case-side number;
  the proven one is in the loop.
* A second file read while the mapping screen is shown keeps the choices made for
  the first (`ColumnMappingScreen.tsx:37`). `applyMapping` adds a chosen name to the
  headers whether or not its column exists (`columnMap.ts:72`), so a run on
  columns the file lacks does not fail: it ends in a result with every row
  excluded, which `assess.ts:155-156` says never happens. When both files have the
  columns, the second is read with that choice; `GuessesAreConfirmed` counts it as
  confirmed.
* An amount changed in the tick of a lock, before the render that shows it, goes
  through (`RecoveryContext.tsx:397`): the provisional baseline then differs from
  the one that was locked. `LockedBaselinesFrozen` begins with that render.
* A comment whose pending run is displaced by a newer one stays without an answer
  until somebody runs it again (`nh-receiver.yml:21`). `RunsEnd` counts a displaced
  run as ended.
* A date such as "Jan 2 2026" in a column of amounts is the amount 22026: its
  month is dropped like a currency code and its spaces like grouping
  (`amountNormalize.ts:39-47`). The model has no text that is both.
* Of two assessments in flight the older may end last and replaces the newer
  result, with its own text and mapping (`Assessment.tsx:40-44`).
* `assessmentId` does not depend on the currency or on the excluded statuses
  (`assess.ts:74-88`): two results of one id can differ in their amounts.
* A negative `paid_amount` is accepted (`saasActivation.ts:143-153`) and makes
  the outstanding amount larger than the invoice; a row whose
  `subscription_id` column is empty does not fall back to `cycle_id`
  (`saasActivation.ts:173`).
* The end of a record chain can be cut off unnoticed (`record.ts:86`); the comment
  above promises removal of links to be detected.
* A schema as the value of `additionalProperties` is looked through for keywords
  and never applied (`schema-validate.mjs:38`), as in `definitions` of the
  shipped mission schema; the header of that file allows only `false`.
* A contradiction that names only evidence of a claim does not touch the claim,
  and evidence cited by a claim may belong to another one (`rules.mjs:143-150`,
  `rules.mjs:237`).
* The validator's README (`research/validator/README.md:24-25`) gives exit 2 for an
  unsupported schema keyword and, further down, exit 1; the code exits 1.

### Mutants

Every property of a passing run has an operator beside the definition it
replaces, named for the bug it stands for (`ProofConstraintsForks`,
`SnapshotsOfAnyCase`, `TrustGatesIgnoreIngestion`, ...). With it in place TLC
finds the property violated in the same run.

## 4. Fairness and liveness

The server's modules state safety only, so their specifications carry no
fairness. A handler that is never scheduled again simply never answers, and
nothing in the code owes a client an answer (it sets no timeouts). The delivery
core promises no progress either: it neither sends nor waits. Nor does the page, where
every step is the operator's or the end of a promise that the code gives no
deadline, or the validator, which is a function.

A receiver run must end. `FairSpec` assumes weak fairness of `StartRun` (the
platform starts a pending run when the group is free) and of `RunStep` (a run in
progress goes on: an API call returns or throws, and `timeout-minutes: 5` kills
a run that hangs). No outcome is assumed: the calls may fail for ever, and the
attempts of `withRetry` are what ends the run.

## 5. Proofs

The server's theorems hold for any number of handlers, any sets of identifiers
and any menu of requests the schemas let through, with late commits or without
unless the statement says otherwise.

| Theorem | Module | Statement |
|---|---|---|
| `TypeCorrect` | `ProofServerProofs` | `Spec => []TypeOK` |
| `ReadsStayTrue` | `ProofServerProofs` | `Spec => []HandlerInv` |
| `CaseCountsOnce` | `ProofServerProofs` | `Spec => []LinearChains` |
| `RevisionsFollowTheHead` | `ProofServerProofs` | `Spec => RevisionsBuildOnTheHead` |
| `NumberIsFrozen` | `ProofServerProofs` | `Spec => []CountedFromSnapshot` |
| `ServerImplementsLedger` | `ProofServerProofs` | `Spec => ImplementsLedger` |
| `AuthorityIsOnFile` | `ProofServerProofs` | `Spec => []ProofCarriesAuthority` |
| `OutcomeBacksOneCase` | `ProofServerProofs` | `Spec => []OutcomeEvidenceSingleUse` |
| `ApprovalsStaySubstantiated` | `ProofServerProofs` | `Spec => []ApprovalSubstantiated` |
| `BaselineComesFirst` | `ProofServerProofs` | `Spec => []LockComesFirst` if no commit is late |
| `DutiesStayApart`, `OneByOneDutiesStayApart` | `ProofServerProofs` | `Spec /\ []ActorsTakeTurns => []SeparationOfDuties`; `Spec => []SeparationOfDuties` with a single handler |
| `ReportsSeeExclusions` | `AuditServiceProofs` | `AuditSpec => []ExclusionIsSeen` |
| `AmountsRestOnFacts` | `AuditServiceProofs` | `AuditSpec => []AuditableRestsOnFacts` if no commit is late |
| `ExportCountsOnce` | `AuditServiceProofs` | `AuditSpec => []TotalCountsOnce` if no commit is late |
| `ReportsKeepDutiesApart` | `AuditServiceProofs` | `AuditSpec /\ []ActorsTakeTurns => []SeparationOfDuties` |
| `TypeCorrect` | `DeliveryLedgerProofs` | `Spec => []TypeOK` |
| `OnlyTheAddresseeDelivers` | `DeliveryLedgerProofs` | `Spec => []DeliveredByAddressee` |
| `NoMessageIsForgotten` | `DeliveryLedgerProofs` | `Spec => []NothingGivenUpQuietly` |
| `TerminalStatesStay` | `DeliveryLedgerProofs` | `Spec => FinalStaysFinal` |
| `ContentStays` | `DeliveryLedgerProofs` | `Spec => ContentIsFixed` |
| `AttemptsWaitTheirTurn` | `DeliveryLedgerProofs` | `Spec => AttemptsArePaced` |
| `TypesHold` | `NhReceiverProofs` | `Spec => []TypeOK` |
| `OneAnswerPerComment` | `NhReceiverProofs` | `Spec => []AnsweredOnce` |
| `SuccessMeansAnswered` | `NhReceiverProofs` | `Spec => []SuccessIsAnswered` |
| `ReceiverKeepsOneLedger` | `NhReceiverProofs` | `Spec => ReplaysOneLedger` |
| `RecoveredOnce` | `RecoveryClientProofs` | `Spec => []OneEffectiveRecovery` |
| `AcknowledgedStays` | `RecoveryClientProofs` | `Spec => AcknowledgedProofsKept` |
| `LockStands` | `RecoveryClientProofs` | `Spec => LockedBaselinesFrozen` |
| `ProofsKeepTheirRecords` | `RecoveryClientProofs` | `Spec => []ProofsRestOnRecords` |
| `CopiesAreWellFormed` | `RecoveryClientProofs` | `Spec => []TypeOK` |
| `BrowserKeepsLedger` | `RecoveryClientProofs` | `Spec => ChainsFollowLedger` |
| `ResultMatchesSource` | `AssessmentScreenProofs` | `ScreenSpec => []ResultOfItsSource` |
| `OnlyConfirmedGuesses` | `AssessmentScreenProofs` | `ScreenSpec => GuessesAreConfirmed` |
| `NoAmountIsGuessed` | `AssessmentScreenProofs` | `ScreenSpec => []ResultAmountsAreRead` |
| `EveryRowAndDollarCounts` | `AssessmentScreenProofs` | `ScreenSpec => []ResultAccountsForAll` |
| `HeadlineNeverRises` | `AssessmentScreenProofs` | `ScreenSpec => []ResultFallsWithN` |
| `FutureChangesNothing` | `AssessmentScreenProofs` | `ScreenSpec => []ResultKnowsNoFuture` |
| `PageIsWellFormed` | `AssessmentScreenProofs` | `ScreenSpec => []ScreenTypeOK` |
| `ScreensShowOneLedger` | `BrowserAppProofs` | `AppSpec => []ScreensAgree` |
| `PageHoldsTogether` | `BrowserAppProofs` | `AppSpec => []AppTypeOK` |
| `PanelsCountCases` | `BrowserAppProofs` | `AppSpec => []` every copy of the proofs counts cases |
| `PageRecoversOnce`, `PageKeepsItsWord`, `PageProofsKeepTheirRecords`, `PageShowsItsSource`, `PageConfirmsGuesses`, `PageShowsSoundResults`, `PageKeepsLedger` | `BrowserAppProofs` | the same of the composed page, `AppSpec` |
| `ContentNeverCrashesAlways` | `ResearchValidatorProofs` | `Spec => []ContentNeverCrashes` |
| `PassIsEarnedAlways` | `ResearchValidatorProofs` | `Spec => []PassIsEarned` |
| `ExitIgnoresOrderAlways` | `ResearchValidatorProofs` | `Spec => []ExitIgnoresOrder` |
| `BlockedStaysBlockedAlways` | `ResearchValidatorProofs` | `Spec => BlockedStaysBlocked` |
| `ShippedInterpreted` | `ResearchValidatorProofs` | no kind's shipped schema has an unsupported keyword |

*Argument.* Of the server, `TypeOK` is not inductive: the row a handler commits is built from
its local variables. `HandlerInv` adds, per step of a handler, what its locals
hold: past `baseline` the snapshot it read is on file for its case and currency,
past `load` the proof it read is in the table, and a handler at a commit holds a
request that reached it. Tables only grow, so other handlers cannot falsify any
of this (`OthersKeep`).

`LinearChains` is not inductive either: it does not exclude a gap in a chain,
and a gap is what a second record could be inserted into. `ChainInv` says that a
case has one root, that every other record follows another of its case with the
next version, and that the versions of a chain have no gap. An insert keeps it
because of the three unique constraints and nothing else: none of the handlers'
own checks appears in the proof (`InsertKeepsChains`). The checks before the
insert are an early, friendlier answer; the indexes are what makes the number
right. `RevisionsFollowTheHead` follows because a chain without gaps that had
grown past the revised record would already hold the new record's version
(`OnlyTheHeadIsFollowed`).

`AuthorityIsOnFile` rests on the two rows of a proof being inserted together and
on an approval having seen an author before it went on (`OwnedInv`).
`OutcomeBacksOneCase` follows from the single-use index alone (`OneIngest`). The
other two need to know what a handler checked, and when. `CheckedInv` says, per
step of an approval, what its reads and gates have established: past the
evidence read, every cited id is on file and `cited` is all of it; past the trust
gates, the evidence covers the amount and the lock precedes it and the
interventions. It says it of the tables as they are now, so it has to survive
what other handlers insert. That holds because evidence ids are unique
(`CitedStays`: the cited records are the same for ever) and because what is
inserted later carries a later time, which without late commits is not before
the lock (`LockStaysFirst`, `TimesInv`). A committed proof takes these facts with
it (`CommittedIsBacked`), and a revision keeps those of the record it replaces.

`SeparationOfDuties` does not hold of the server: the gate reads the ledger and
the event is inserted awaits later (`duty_race`). What is proved is that this
race is the only way around it. A handler past the gate has seen that its actor
holds no other duty of the case (`ClearedInv`), which another handler can falsify
only by inserting an event of the same actor, the same case and another duty;
that handler is then past its own gate, which `ActorsTakeTurns` excludes. The
condition speaks of two requests of one actor on one case that are past their
checks at once, of nothing else that overlaps; a server that answers one request
at a time meets it by itself (`OneByOneDutiesStayApart`).

A report is a handful of reads with the writers going on between them. Its
invariants say what each read leaves behind: `AuditInv` that the rows read are in
the tables, that an amount is a candidate of what was read, and that an
exclusion older than the request has been read by the time amounts are;
`FactsInv` that each amount has no trust gap *now*. The latter survives the
writers because an intervention recorded later carries a later time than the
lock, which is where late commits are excluded, and it is what lets an export
check the same proof twice and come to the same answer (`ExportCountsOnce`).

The refinement maps the tables to `CurrentRecord`, the effective record of every
case. An insert moves the effective record of one case, from nothing to version
1 or from version n to n + 1; every other step leaves it alone.

The delivery core's invariant (`LedgerInv`) says of each entry that it is pending
only with attempts left and that it has a receipt exactly when it is delivered,
the addressee's, written while the message was alive. Each function of the core
has a lemma that says what it may do to an entry; the actions are then shown
once to keep the invariant, final states and content (`StepKeeps`), for any
retry policy and any messages and receipts. That a receipt was not written after
the expiry, which no line of `acknowledge` checks, follows because it is not
from the future and the message had not expired when it came.

`AttemptsArePaced` relates an attempt to the moment it is recorded, and the
decision to make it was taken earlier: `PacedInv` says that every message in
`due` has waited, and a receipt or the end of its life only ends the waiting. That
the wait of the code is the doubled one or the cap is `BackoffIsTheWait`; it needs
that an entry with a time has had an attempt, which `LedgerInv` says.

`AnsweredOnce` of the receiver is not inductive: it says nothing of the run that
is about to post. `ReceiverInv` adds `PostIsFirst`: while a run is at its post,
its comment has no answer yet, unless the run itself posted one and lost the
response. It is established by the listing, kept by whatever people do to their
comments (`PeopleKeepAnswers`), and no other run can post meanwhile, because the
concurrency group lets one run at a time. Each way a run leaves its post, the
kill included, leaves at most one answer behind (`FirstAnswer`). The exception
for lost responses cannot be dropped: that is the run `lost_answer`.
`SuccessIsAnswered` follows the same invariant: a run reports success when its own
post went through or when its listing already held an answer, and answers are
never edited.

For the refinement of `CommentLedger` the ledger is a recursive function on the
comments. That it exists, that two replays agree on the comments they share, and
that a comment written last changes nothing before it are shown by induction over
the length (`ReplayExists`, `ReplaysAgree`, `LedgerGrows`), with a set of numbers
in place of the predicate (`NatInduces`). `LedgerInv` then says that, while nobody
edits, the answer a run is about to post is what the ledger said when the comment
was written, however much was written between the listing and the post.

In the browser the argument is about copies. `MirrorInv` says that the queued
proofs and the mirror are one sequence, of which the rendered one is a prefix,
and that every copy, that on the disk included, has one effective recovery per
case. Approval and reversal append to the mirror and queue the same sequence, so
that a second call before the render sees the first (`ApprovalGrows`,
`ReversalGrows`); that appending keeps one effective recovery is a fact about
`AppendApprovedProof` and `AppendReversal` alone (`ApprovalKeepsOne`,
`ReversalKeepsOne`). A render then moves the mirror to what it already is. What
`LockStands` needs is that the queued state has every baseline that the render
shows locked, and the same provisional baseline beside it: handlers go by the
render, and the render may only be behind.

`ProofsRestOnRecords` asks that what an approval was given, from the render, is
still kept with the proof, in every copy. `RestInv` has for this that the three
copies are ordered: the render has no evidence and no time that the queue lacks,
a time is set once (`StampsAgree`), and the disk holds no proof, no baseline of a
proof and no time that the page does not (`StoredRest`). A handler writes within
these bounds (`HandlerKeepsRest`), a render moves along them (`CommitRests`), and
a reload, which takes the disk's state for all copies, finds there what the
invariant keeps there (`ReloadRests`), whichever of the two writes failed.

`BrowserKeepsLedger` is the refinement of `CountedLedger` in the browser. A case
may be reversed and approved again, in a new chain, so it is the chains that take
the place of the server's cases (`Counted`); the ledger starts with the seed's
chains, and a reset or a load, which bring back another ledger, are the steps it
does not explain. `ChainInv` says that the versions of a chain differ and that
no chain has an id that is still to be handed out. A record of a later version
than any of its chain is then the one that counts, and no other chain changes
(`LatestCounts`): an approval is the ledger's `Approve`, a reversal its `Revise`,
and a click that comes too late files nothing (`NothingFiled`). The property is no
part of a run: on the instance of `browser` it holds as well, and the theorem
says it of every other one.

That every copy is well formed (`CopiesAreWellFormed`) is more than kinds: a
score is the one of its case and a percentage, and no date is before the seed's
or after now. `TypeInv` says this of the three copies; each field that a handler
writes has a lemma that it takes a value of its kind (`OwnerIsKept` to
`LinkIsKept`), and the score is the case's again because every write ends in
scoring it, which is idempotent (`ScoringIsIdempotent`).

The assessment's result and the source of its re-runs are set in one step by a
run that succeeds and by nothing else. `OnlyConfirmedGuesses` is about the start
of a run: from a file just read only when no required column is a guess, from the
mapping screen with the choices it shows, or from the result with its mapping.

The four properties of a result are facts about the calculation, for any file:
`ResultInv` only says that a result shown is of a file at hand, a form that can
be entered and a mapping of the required fields. The sums are folds in the order
of `CHOOSE`; that any element may be taken first is an induction on the size of
finite sets (`SetInduces`, `FoldAdds`), after which disjoint sets add up, larger
weights and larger sets have larger sums, and renaming changes nothing
(`DisjointSums`, `LargerSums`, `SumsGrow`, `RenamedSums`). From these:
every stalled cycle is in one payment state, so the buckets add up
(`ValuesAreInBuckets`); a cycle that is stalled for a longer threshold is stalled
for the shorter one, and only those on the edge of it are spared
(`LongerWaitsStallLess`); the file as it was on the day has the rows of the file
without what they tell of later (`RowsOfThen`), each row makes a cycle exactly when
it did (`ThenIsAlike`), and the two differ only after the as-of date, one for one
(`AlikeMakeSameCycles`, `SameSummaries`). That no amount is guessed is about the
separators of one text: if it is well formed in a format, the rules find the
decimal point where that format has it (`OnePoint`, `ManyPoints`).

`PageIsWellFormed` needs the choices on the mapping screen to be there exactly
while it is shown (`ShowKeepsChoices`), through reads and runs that finish late
and leave it: only then is what the operator confirms a mapping of the file
(`ConfirmedIsMapping`).

`ScreensAgree` compares seven screens' sums over the cases of one render, each
with the filter of its own function. Every figure is a sum over a finite set of
cases (`ReturnedIsASum`, `RiskIsASum`, `ForecastIsASum`), finite because the seed
is (`FewCases`) and of numbers because every copy is well formed (`ShownFigures`).
A table is then a way of telling a set of cases apart by a key, and its lines add
up to the set (`LinesAddUp`, from `GroupedSums`): the tables by owner, reason and
stage tell the counted cases apart (`AttributionSplits`), the table by leak all of
them (`OutcomesSplit`). What remains is what the filters say of one case: that an
excluded case is counted, not auditable and in one bucket (`WaterfallAgrees`).

`PanelsCountCases` joins the proofs to the cases. With one effective recovery per
case, the positions that count and the cases that have one are one to one, so
that the dashboard's count is a number of cases and its sum takes each case once
(`LedgerCountsCases`, from `RenamedSums`).

The composed page takes steps of its two parts (`StepsArePartSteps`), so what is
proved of either holds of the page.

The validator is a function of a file, so its invariant is short: `FileInv` says
that the file's lists are lists (or never were) and that a report is the verdict
on the file as it is. What the four properties need is what a gate leaves for
the next one. A record that passed the schema of its kind has the required
fields, no field the schema does not name, and in each a value of the field's
schema (`ObjectHeld`, from the body of the interpreter; `GateHeld`, of a whole
dataset). Each field a rule iterates over is an array in the schema of every kind
that may have it, hence `NoRuleThrows`, and the exit code is 1 exactly when some
gate or some rule finds an error (`ExitOf`, `ErrorsAreFaults`). That is
`ContentNeverCrashes`. `ShippedInterpreted` says that the way there is open:
none of the eight schemas is refused by the look that comes before.

For the other three the difficulty is the index, which of two records with one
id keeps the later. If no error is left, ids are unique in their list and
across lists, and then the index finds *the* record that bears an id (`ById`).
`PassIsEarned` follows rule by rule: what the rules say of the evidence the index
gave them, they say of every record with a cited id (`SupportIsCited`,
`GradesEarned`), and a claim of high materiality has its reviewer because the
`then` of its schema was interpreted (`MaterialReviewed`).

`ExitIgnoresOrder` and `BlockedStaysBlocked` are one argument. A dataset is part of
another if each of its lists maps one to one into the other's (`PartOf`), as a
list maps into its reverse and into itself with a record more. A repeated id is
then repeated in the other; and if no id is repeated in the other, each index
gives the same record (`SameRecord`), so that a claim at fault is at fault there
too, except for a reference that dangles (`FaultsStay`). In reverse order each
dataset is part of the other, so that dangling references stay as well
(`SameFate`, `ReorderedBlocked`).

*Assumptions.* `RequestsAssumption` (requests have the shape the schemas
enforce), `ClockAssumption`, `NoneAssumption` and `NoEntryAssumption` (`None` is
no identifier, number, request or ledger entry; the last one also of the
browser). For
the coordination modules: `PolicyAssumption`, `InputsAssumption` and
`ReceiverAssumption` (bounds are numbers, inputs have their types),
`NullAssumption` and `NoRecordAssumption` (`None` is no record and no number), and
`WaitAssumption` (a power of two is a number, which the provers do not know). For the browser: `ClientAssumption` and `ScreenAssumption`
(bounds are numbers, cases are seeded), `SeedAssumption` (a seed that was taken
is of a case asked for, has whole dollars and passed the gate, which is what
`SelectSeq` returns; at most one proof and one baseline per case), `BlankAssumption` (an empty cell is no
date, no day and no flag), `FormsAssumption` and `FilesAssumption` (forms have their fields, tables
their rows and cells, and digits stand between separators), and
`MoneyAssumption` (an amount that can be read is an integer: again a fact about
powers and folds over the groups of one text), `EntryAssumption` (what the
operator enters is of the kind the controls offer; amounts may be negative),
`UnsetAssumption` (what is not set is no plan, no choices and no result), and
`NoneAssumption` of `RecoveryCase` (what is not excluded has none of the three
reasons). For the validator: `EnvelopesAssumption` (a file starts with empty
lists, or with something that is no list in their place), `AbsenceAssumption`
(`Malformed` is no list and `NoFile` no file) and `SetupsAssumption` (a schema is
the shipped one, or one that was extended by a keyword nobody interprets: what an
arbitrary other schema lets through, no rule promises to survive). `FirstRunAssumption` (the seeded
cases and the seeded proofs give the same totals) is only evaluated. TLC
evaluates all of them in the runs. Two theorems have a condition on the
behaviour instead (`[]ActorsTakeTurns`) and three on the transactions
(`~LateCommit`); both are discussed above.

*Only model-checked.* `RunsEnd`, which is liveness. The properties of the
violated runs do not hold; what holds in place of `SeparationOfDuties` is proved
above. Every other property of the passing runs is a theorem, some under the
conditions named in the table.

## 6. Plan

What is left, most useful first:

1. `NhReceiver` with a paged listing, where a deletion between two pages can hide
   a comment from a run (listed as a hazard without a property).
2. `RecoveryClient` with a second tab, should the provider ever support one.

## 7. Not modelled

* *Authentication* (`src/server/auth/` adapters): a request is authenticated before
  its first database call and yields the actor and role that a request carries in
  the model.
* *Assessment records, fingerprints, text summary, privacy monitor*: hashes of a
  serialization, whose properties are those of SHA-256; a text; and a monitor of
  network calls used by tests.
* *Research renderer*: a text layout of a validated dataset.
* *Start-up and health probe, build, e2e, documentation*: I/O and texts.
* The safe-integer checks of `domain/money.ts`: amounts of the models are integers
  and small, so no sum of theirs leaves the range where the code would throw. The
  code is stricter there than the models, and no property depends on it.
* Of modelled parts: the characters of the wire format and of CSV files, audit
  entries, labels and wording, search and layout; several tabs, which the
  provider states it does not support (`RecoveryContext.tsx:172-174`).
