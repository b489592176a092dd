# Verification of the PipoSmart CRM backend

TLA+ specifications of `backend_crm_piposmart`, a Go backend for the sales
organisation of a point-of-sale product: owners and their outlets, leads that sales
people work on, closings they report, subscription orders that debit an owner's wallet,
top-ups and bank transfers, partners and their commissions, bulk imports of workbooks, and
a MySQL table used as a job queue. The specifications are checked with TLC on small
instances; the properties that matter most are proved with TLAPS for every instance.

The code is a set of Go packages over one MySQL database (InnoDB, REPEATABLE READ). There
is no shared memory to speak of: every HTTP request is a goroutine with a transaction (or
a few autocommitted statements) of its own, and one or more worker processes drain the job
queue. What can go wrong is therefore in the database protocol: which rows a transaction
has locked when it reads, whether a read is current or of a snapshot, what is written
outside the transaction it belongs to, and what is left behind when a process dies between
two commits. The models keep exactly that and leave out formatting, validation of single
fields and reporting.

## How to read and run it

    tlc -workers 2 -config MCExport_marks.cfg MCExport
    tlapm JobQueueProofs.tla

Each component has a module; `MC<module>.tla` with `MC<module>_<run>.cfg` are its
instances for TLC; `<module>Proofs.tla` holds its theorems. Modules that extend another
share its proofs: `JobQueueProofs` is also about `Export` and `ImportBatch`, `WalletProofs`
also about `TransferMatch`. `PROJECT.json` maps every definition to the lines it models, lists the
runs, for each property a mutation of the model that breaks it, the hazards of the code
with the properties that watch them, and the theorems. A mutated operator stands just
before the one it would replace, with the same parameters (`ToCommitAll` before `ToCommit`,
`Unlocked` before `Free`); the specification never uses it.

| module | models | composed with |
|---|---|---|
| `JobQueue` | `platform/jobqueue`, the loop of `app.RunWorker` | |
| `Export` | the exports of `reporting`, a row beside its job | extends and implements `JobQueue` |
| `ImportBatch` | `importing` on its way through the queue | extends `JobQueue` |
| `Wallet` | what the wallet of one owner promises: atomic operations | |
| `WalletTx` | the wallet's transactions, statement by statement, and an order's debit | implements `Wallet` (`INSTANCE ... WITH`) |
| `TransferMatch` | `transfer`, matching bank transfers with top-ups | extends `Wallet` |
| `Commission` | how a commission of `partner` comes to be: referrals, rules, tiers, the sync | ends where `Payout` begins |
| `Payout` | the commissions and payouts of `partner` from then on | |
| `Subscription` | orders, upgrades and reconciliation of `subscription`, the status of a closing | its wallet is `Wallet` |
| `Lead` | `lead`, the remarks and trainings of `activity`, the creation of a closing | its closings are decided in `Subscription` |
| `Customer` | `customer`: owners, outlets, and the subscription status in SQL and in Go | its subscriptions are those of `Subscription` |
| `Kpi` | `kpi`: definitions and recomputations of a month | its jobs are those of `JobQueue` |

## Inventory

What each part keeps, does and has to get right. "Hard" names the behaviour that a unit
test hardly reaches.

**Job queue** (`internal/platform/jobqueue`, `app/api.go` `RunWorker`). State: one row per
job (`status`, `attempts`, `available_at`, `claimed_at`). Operations: `Enqueue`,
`ClaimNext` (its own transaction, `FOR UPDATE SKIP LOCKED`), the handler in a second
transaction that also writes `Complete`, `Fail` (two autocommitted statements),
`ReclaimStale` once per tick. Used by imports, KPI recomputation and report exports. Hard:
workers that die between the claim and the commit, handlers that outlive the stale
timeout and whose late `Complete` or `Fail` finds the row reclaimed, retries. Correct
means: a job commits once, two workers do not run it together, it is retried within its
budget, and it is settled in the end.

**Imports** (`internal/importing`). State: `import_batches`, `import_rows`, a stored file.
An administrator uploads, a validate job writes the rows, he triggers the commit, a commit
job writes each valid row through eight other services, unmatched rows are relinked by
hand. Hard: the request writes in autocommitted statements around the enqueueing; the
commit handler writes rows and batch outside the job's transaction, so a retry starts in
the middle; the stored file may be lost, and the validate handler turns that into a verdict
whatever has become of the batch. Correct means: no row forgotten, no row applied twice,
the count true, one verdict, the batch not left half way.

**Wallet** (`internal/wallet`). State: a balance and a ledger per owner, top-up payments.
Operations: `CreateTopup`, `AcceptTopup`, `RejectTopup`, `ExpireStaleTopups` (worker),
manual debit, adjustment and refund; `subscription` debits the same wallet with code of its
own. Hard: an absolute balance is written from one that was read, in one case without a
lock; idempotency keys looked up by a plain read; decisions that race. Correct means:
balance and ledger agree, each top-up is credited once, a decision is final.

**Transfers** (`internal/transfer`). A bank transfer is matched with a top-up by
`ConfirmMatch`: one transaction for the match, one of the wallet for the credit, and a
revert if that fails. Hard: it is no single transaction, and others decide both sides
meanwhile. Correct means: a transfer pays for at most one top-up, and no match is left
without its credit.

**Partners** (`internal/partner`). Types and partners, PIC assignment, referrals,
commission rules, commissions of confirmed closings, payouts that batch them. Hard: a
payout reserves commissions that can also be paid or cancelled on their own; part of its
selection reads a snapshot. Correct means: nothing is paid twice.

**Subscriptions** (`internal/subscription`) and **closings** (`internal/closing`). An order
opens a subscription, debits the wallet and is reconciled with the closing a sales person
reported, automatically or by an administrator; an upgrade trims the running subscription
and opens another. Closings are also confirmed, rejected, hidden, restored and erased on
their own. Hard: the check for a second use of a closing reads an old snapshot; orders,
reconciliations, issues and closings must agree after every mix of requests. Correct
means: no closing is counted for two orders, periods abut, nothing falls out of the review
queue.

**Leads** (`internal/lead`) and **activity** (`internal/activity`). Ownership of a lead
moves between administrators, supervisors and sales people, with a history of assignments;
remarks and trainings move its stage. Hard: bulk moves that lock in request order, the
history's one active row, and handlers that each keep a part of stage, status and score.
Correct means: the history agrees with the lead and forms a chain, a lead a sales person
holds can be worked on, and who is shown a lead may act on it.

**Customers** (`internal/customer`). Owners and their outlets. The subscription status of
an outlet is stored nowhere: five places compute it, three in SQL and two in Go, from the
latest subscription, the owner's age and a reference date. Hard: points in time against
days, the edges of a trial and of a month, orders dated ahead, upgrades that leave the
old subscription in the table. Correct means: filters partition the outlets, a filter and
the label behind it agree, and a status does not move back by itself.

**Exports** (`internal/reporting`). A request inserts a row and enqueues a job; the
handler marks the row outside the job's transaction. Hard: an export whose status and job
disagree. Correct means: they agree unless a mark was lost, and both come to rest. The
dashboards of the same package only read.

**KPI** (`internal/kpi`) and **targets** (`internal/target`). A recomputation job deletes
and inserts the results of a month in the job's transaction. Hard: two recomputations of
one month; definitions that are superseded. Targets are two atomic statements.

**Identity** (`internal/identity`). Users, sessions with rotated refresh tokens. Hard: two
refreshes with one token. *Not modelled*; see the last section.

**Catalog**: master data, edited by one statement or one transaction at a time, copied
into orders and closings as snapshots. **Analytics**: reads.
**Discussion**: threads, replies, a counter of likes beside its rows. **platform/**
(config, database, HTTP, logging, password, migration, seeder, factory), **cmd/**,
**tools/**: no protocol state. *Not modelled*; see the last section.

How they interact: the API enqueues jobs and the worker runs handlers of `importing`, `kpi`
and `reporting`; `importing` calls the services of customer, lead, wallet, subscription,
catalog, target, activity and closing; `transfer` calls `wallet.AcceptTopup`;
`subscription` writes wallet rows and closings; `partner` reads confirmed closings. All
else is shared rows.

## The modules

Conventions that hold throughout. A request that is one transaction, takes its locks in one
statement and writes is one action. One that locks, reads and later writes is a chain of
actions, one per statement that matters to somebody else; its writes are applied when it
commits, because until then they are behind row locks. Which locks a request holds follows
from the step it is at. `FOR UPDATE` reads are current, plain SELECTs read the snapshot (a
variable that records what it showed, where it can differ). `RollsBack` and its like stand
for every early return after the first lock, a deadlock's victim, a failed statement and the
death of the process: the database undoes all of it. Where a model holds fewer locks than
InnoDB would take, it allows more interleavings, which is safe for the properties here.

**`JobQueue`.** Variables `status`, `attempts`, `ripe` (available_at has come), `overdue`
(claimed_at is older than the stale timeout) are the row; `pc`, `locked`, `held`, `seen` are
a worker inside `RunWorker` and `Dispatch`; `committed`, `reclaims`, `stolen` are history.
`LockNext`, `CommitClaim` are `ClaimNext`; `BeginHandler`, `HandlerCommits`, `HandlerFails`
are the second half of `Dispatch`; `FailReads`, `FailWrites` the two statements of `Fail`,
which look at no status; `Tick` is the reclaim of a tick. `Stop` is a crash, a panic or a
shutdown, `Abandon` and `ClaimErrors` database errors, `HandlerOverruns` a handler that
outlives the timeout. These four, `TickReclaimFails` and, in `ImportBatch`, `RequestDies`
and `MarkErrors` draw on one budget, `MaxFaults`.

**`ImportBatch`** extends `JobQueue`: a step of a worker is a step of the queue together
with its effect on the batch. `ValidateWritesRows` and `CommitFinishes` share the job's
transaction with `HandlerCommits`; `CommitMarks`, `RowResolves`, `RowMarks` do not, and are
actions of their own. `UploadCreates/Enqueues`, `TriggerChecks/Enqueues/Marks` and
`RelinkChecks/Writes` are the requests, statement by statement. The entities a row writes
are one counter, `applied`; `cut` counts runs interrupted between a row's writes and its
mark, which no retry can tell from a row not started.

**`Wallet` and `WalletTx`.** `Wallet` is the promise: accept, reject, expire, post, order,
each at once. `WalletTx` has the statements, with the locks of each step as sets of steps
(`OwnerX`, `OwnerS`, `WalletX`, `WalletS`). The interesting case is `AcceptTopup`: it reads
the wallet by a plain SELECT and writes an absolute balance. It is sound because (1)
`findPaymentByIDForUpdate` joins `owners`, and `FOR UPDATE` locks every row it joins, so the
owner's row is locked; (2) the manual postings lock that row as well, in
`lockWalletByOwner`; (3) an order does not, but its `INSERT INTO subscription_orders` takes
a shared lock on it through the foreign key. An order that has read its balance and then
inserts waits for an accept, and the accept's insert into the ledger waits for the order's
lock on the wallet: one of the two is rolled back as a deadlock, and no update is lost.

**`TransferMatch`** extends `Wallet` (whose operations are atomic, which `WalletTx` is shown
to implement). `ConfirmChecks`, `ConfirmRecords`, `TopupAccepted` or `TopupFails`,
`AutoReverts` are `ConfirmMatch`; `WalletActs` are the wallet's own endpoints on the same
top-ups.

**`Payout`.** `commission`, `payout`, `items` are the rows. `CreatePayout` is
`PayoutBegins` (its snapshot), `PayoutSelects` (the locked, current rows, minus those the
snapshot shows reserved) and `CreatePayout` (the inserts, under the unique key on an item
that is not released). A payout's items are released exactly when it is cancelled, so
`Items(b)` derives that from its status.

**`Subscription`.** `order`, `sub` (the subscription of each order with its period in
days), `recon`, `issues`, and `closing` with `hidden` (deleted_at). `Begins` opens the
snapshot of `CreateOrder` and `CreateUpgrade` (the lookup of the idempotency key);
`OrderLocks`, `UpgradeLocks`, `ReconcileLocks` are the locks; `CreateOrder`,
`CreateUpgrade`, `ReconcileConfirms`, `ReconcileRejects` the commits. Orders without a
closing wait for no one and are single actions. A foreign key sets the closing of a
reconciliation and an issue to NULL when the closing is erased.

**`Export`** extends `JobQueue`. `InsertExport` and `EnqueueExport` are `CreateExport`, with
the death of the request between them. `MarkExportProcessing`, `GenerateExport` or
`GenerateErrors`, `MarkExportFailed` and `Returns` are `GenerateExportHandler`; each mark is
a step of its own, and those that fail with the queue's `Fail` share its action. A mark the
database refuses is `MarkProcessingErrors` or `MarkFailedErrors`, and `lost` remembers it.
An export is named by its job; `SetExportJobID` writes a column nobody reads.

**`Lead`.** `lead`, `assignment` (the active row), `testing`, `training`, `closing`, and
`seen`, the rows a request has locked, as it read them. `LocksLeads` is the locking loop of
a bulk request, `LocksLead` that of one on a single lead; `AssignSupervisor`, `AssignSales`,
`ReleaseToAdmin` commit the first, `MarkInvalid`, `RemarkInvalid`, `Remark`,
`ScheduleTraining`, `DecideTraining`, `CreateClosing` the second. `named` is the id the
request gives: `ensureNoOpenClosing` counts by it, `ScheduleTraining` inserts it. Creating a
lead is two steps, `EnsureOwnerEligible` (a plain read of the testing flag; `eligible`
remembers it) and `CreateLead`, since the flag may be set in between.
`Listed` and `CanSee` are the two forms in which the code says who may see a lead.

**`Customer`.** `owner`, `outlet`, `sub` and the day. The requests are atomic; what is hard
is below them: `StatusFilter` and `DueFilter` are the SQL conditions of the status page,
`Label` the Go code that labels its rows, `ListFilter`, `ListLabel`, `OwnerFilter` and
`OwnerLabel` the same for the lists of outlets and owners. Dates are days; `created_at` and
`NOW()` are points in time, `Ticks` to a day, because the code compares one with the other.

**`Commission`.** The confirmation of a closing is two steps (`StampsClosing` takes the
time, `ConfirmClosing` commits it) and so is `SyncCommissions` (`SyncReads`, `SyncCommits`),
because others come between. `CreateCommissionRule` retires the rule it supersedes;
`RuleFor`, `Ordinal`, `Tiers` are the queries that choose a commission's rate. `shuffled`
is history: months whose ranking changed below its end, in which order is not promised.

**`Kpi`.** `RecomputeReads` is the snapshot with its checks, `RecomputeCommits` the delete
and insert (a result is the snapshot it was computed from; scores and ranks follow from it),
`RecomputeDeadlocks` the two that empty an empty month at once.

## The runs

Every passing run explores its whole state space, that of `customer_status` within the
constraint `Bounded`.

| run | instance | states | question |
|---|---|---|---|
| `queue_exports` | 2 jobs, one of them an export's, the other of a type without a handler, 2 workers, 2 attempts, 2 faults | 824 000 | Do crashes, errors and overrunning handlers make a job commit twice, run twice, exceed its budget or hang, and does the export's row follow its job? |
| `import_retry` | 2 rows, 1 worker, 2 attempts, 2 faults | 669 000 | Is a commit that is retried half way complete, counted truthfully and brought to an end? |
| `import_theft` | 2 rows, 2 workers, 1 attempt, 2 faults | 2 311 000 | What can two runs of the validation, one of them reclaimed, do to a batch that has gone on? |
| `wallet_refine` | 1 top-up, 2 postings, 3 connections | 91 000 | Do the interleaved transactions implement the atomic wallet? |
| `transfer_races` | 2 transfers, 2 top-ups, 2 administrators | 28 000 | Can a transfer pay for two top-ups, or a match be undone? |
| `payout_races` | 2 commissions, 3 payouts, 2 clerks | 5 700 | Can a commission be paid twice or sit in two payouts? |
| `subscription_reconcile` | 3 orders, 2 closings, 2 requests, 3 days | 373 000 | Do orders, reconciliations, closings, issues and periods stay in step? |
| `lead_ownership` | 1 lead, 2 supervisors, 2 sales people, 1 training, 1 closing, 2 requests | 60 000 | After any mix of moves, calls and closings, do lead, assignment history, stage and visibility agree? |
| `customer_status` | 2 outlets, 2 subscriptions, 2 owners, months and trials of 2 days | 48 000 | Do the SQL and the Go that compute one status agree, for every month and reference date? |
| `commission_rates` | 2 closings of one lead, 2 partners, 2 clerks, 2 rules of 3 drafts | 2 092 000 | Does each closing earn one commission, at the rate its rank and its day give? |
| `transfer_dangling` | 1 transfer, 1 top-up | | violated: finding 1 |
| `kpi_supersede` | 2 reps, 2 metrics, 2 jobs | | violated: finding 2 |

What the passing runs show:

- *Queue and exports.* A job commits at most once, plus once for every time it was reclaimed
  from a worker that was still running it (`CommitsBounded`, with `PermitsBounded` its
  inductive form); two workers run it only after such a theft (`OneRunner`); attempts exceed
  the limit by at most the reclaims (`RetryBudget`); a settled job moves again only after a
  theft (`SettledUnlessStolen`). So the stale timeout must exceed the longest handler, and
  nothing else is needed for at-most-once. A COMPLETED job has a COMPLETED export and a
  FAILED one a FAILED export, theft and a refused mark aside (`ExportAgrees`); job and
  export come to rest (`ExportSettles`, under fairness).
- *Imports.* A COMMITTED batch has no row left to commit unless it was relinked
  (`NoRowForgotten`); without theft a row is applied once per commit job and once more per
  run cut between its writes and its mark (`AppliedOnce`), which is the bound the code's
  order of writes gives; the count never exceeds the committed rows and is exact after one
  attempt (`CountTruthful`); a validated batch gets no second verdict unless the validate job
  was stolen, and then it can only be rejected, never set back to VALIDATED, and no row is
  written again (`ValidatesOnce`); a batch under way ends (`CommitSettles`).
- *Wallet.* The whole of `Wallet!Spec` as a refinement, with `Chained`, `Conserved`,
  `CreditedOnce`.
- *Transfers.* `CreditBacked`, `MatchFinal`.
- *Payouts.* `PaidOnce`, `ReservedApproved`, `ReservedOnce`. The snapshot read can offer a
  reserved commission, and the unique key is what refuses it.
- *Subscriptions.* `ClosingCountedOnce` (again the unique key, where the check reads a
  snapshot and CONFIRMED rows only), `OrderMatchesRecon`, `FlaggedUntilReconciled`,
  `UpgradesAbut`, `ActiveUntilEnd`. An upgrade on the first day of a subscription passes the
  code's own check and is refused by a CHECK constraint only.
- *Leads.* The active assignment is the one that made the holder (`AssignmentAgrees`) and the
  assignments form a chain (`ChainUnbroken`), which rests on the row lock alone; a sales
  person's lead is open and has a supervisor to go back to (`SalesLeadWorkable`); the stage
  is what the score says (`StageMatchesScore`); stage CLOSING comes from a reported closing
  (`ClosingReported`); the SQL of the lists and the test on the locked row agree for every
  user (`ListedIsSeen`), although they are written differently and agree only on leads that
  are `Workable`.
- *Customers.* Each outlet passes exactly one of the five status filters and at least one of
  the four due filters (`FiltersPartition`); filter and label agree (`FilterShowsLabel`,
  with the exceptions listed below, `ListsShowLabel`); an upgrade does not move the due date
  an outlet is judged by (`UpgradeKeepsDue`); as days pass a status moves only forward
  (`StatusForward`).
- *Commissions.* One per closing, by the unique key (`CommissionOnce`); the ranks of a month
  are in the order of the confirmations whatever the order of the syncs (`RankedInOrder`);
  the rule of a commission covers the day of its closing, also after it was superseded
  (`RateInForce`); accepted tiers give every closing exactly one rate, so that no sync is
  stuck (`SyncNeverStuck`).

### Bounds, and why they are enough

Two workers are enough for a theft and its late answer; a second job makes a claim choose.
Two faults allow an overrun and then a crash or an error, or two crashes of one job;
`MaxAttempts` 1 or 2 is reached within them. Two rows make a run stop between rows as well
as within one. The wallet needs three connections: two that conflict and one that comes
between; the postings are larger than the top-up so that a debit is refused or waived. Two
clerks and three payouts allow a payout to be cancelled and its commissions taken by a
second while a third selects. Three orders let a subscription be upgraded twice, or two
orders compete for a closing while a third moves; two closings let a rejected order be
matched with another one; three days are the least that leaves an upgrade a day strictly
inside a period that was itself cut.

Leads do not influence one another except through a bulk request, which commits what it
decides lead by lead: one lead suffices for properties of one lead, with two users of each
role a lead can be taken from and two requests. `Customer` keeps the shape of its
constants, not their size: months and trials of two days put the first and the last day of
each beside one another, `TrialSoon` and `DueSoon` of one separate the due statuses, four
ticks put midnight, noon and the evening on different sides of a comparison, and three days
reach the next month. An outlet's own `created_at` is read only once its owner is erased,
so one value (the evening, the case that differs from a day) is enough. `Bounded` allows two
outlets with two subscriptions of one owner, or one of each when an owner taken down before
it registered is in play. In `Commission` two closings of one lead compete for ranks, two
partners for the lead; two days to a month and three days let both closings fall into one
month or into two; `MaxRules` lets one rule supersede another, one rule is open-ended and
one is not, and `MaxRevisions` is one deletion, erasure or correction. `Kpi` has weights
that add up with one metric or with two.

The theorems below have no such bounds.

Symmetry is used for sets no operator orders and no CHOOSE ranges over, in runs without
liveness.

### Fairness

`ExportFairSpec` and `ImportFairSpec` assume: time passes (a backoff elapses, an abandoned claim
becomes overdue); a stopped worker is started again (`restart: unless-stopped` in the
compose files); a worker that runs goes on, since `RunWorker` is an unconditional loop and
each statement returns; a handler returns, but success is not fair: it may fail every time.
For imports also: a request under way ends, and an administrator who looks at a VALIDATED
batch presses commit. Nobody is assumed to relink rows or upload, nor to send the second
statement of a `CreateExport` that died after its first: `ExportSettles` starts at the
enqueued job. Faults are finite in number because `MaxFaults` bounds them.

## Findings

Where a comment states a property that the model of the code violates, a run shows the
trace. In `PROJECT.json` each is quoted with its place.

1. `NotLeftDangling`: the automatic revert of a failed `ConfirmMatch` is refused by
   `RejectMatch`, which does not reject a MATCHED transfer, and its error is dropped.
2. `RefusedOnlyForActive`: a KPI definition that was deactivated cannot be superseded,
   because the unique key on month and metric does not know of the column `active`.

### Further disagreements, stated and not run

These properties are defined in their modules beside the others, with the text they come
from. No configuration lists them; add the name to the `INVARIANTS` or `PROPERTIES` of the
configuration given and TLC prints the trace.

| property | add to | what the code does, and what is said of it |
|---|---|---|
| `RetryLimit` (invariant) | `MCExport_marks` | A job whose worker dies each time is attempted without end: `ReclaimStale` and `ClaimNext` (`jobqueue/repository.go:169`) do not look at `max_attempts`; `docs/GLOSARIUM.md:631`. |
| `CommittedIsFinal` (property) | `MCImportBatch_retry` | `TriggerCommit` (`importing/service.go:354`) enqueues first and writes COMMITTING afterwards, over the COMMITTED of a fast worker; `docs/sprint-14/README.md:77`. |
| `DoubleClickSafe` (invariant) | `MCImportBatch_theft`, with two requests and `Job <- ThreeJobs` | Two requests that both read VALIDATED (`importing/service.go:348`) make two commit jobs; `docs/sprint-14/README.md:84`. |
| `RelinkedIsPickedUp` (property) | `MCImportBatch_retry` | A row relinked after a commit goes back to VALID, but no request enqueues another commit of that batch (`importing/service.go:340`); `importing/repository.go:340`. |
| `TestingStaysOut` (property) | `MCLead_ownership` | A lead named through another outlet is locked without its owner's testing flag (`lead/repository.go:545`); `docs/sprint-16g/sprint-16g.md:68`. |
| `OneOpenClosing` (invariant) | `MCLead_ownership`, with two closings | `ensureNoOpenClosing` counts by the id of the request, not of the lead it locked (`closing/repository.go:109`), and a restored closing is not counted at all; `docs/sprint-08/README.md:478`. |
| `UnsubscribedIsInactive` (invariant) | `MCCustomer_status` | An outlet is judged by the subscription that starts last within the month, also when that one has ended and another still runs; `customer/outlet_subscription_status.go:581`. |
| `CorrectionPrecedesCommission` (property) | `MCCommission_rates` | A closing confirmed and synced before PARTIAL_CONFIRM corrects its amount keeps the commission on the declared one; `subscription/repository.go:1179`. |

Met while modelling, and stated nowhere so that a property could be about it:

- A validate run that finds its file unreadable writes VALIDATION_FAILED by the batch's id
  (`importing/worker.go:70`). When its job was reclaimed from it and the second run has
  validated the batch, the late one puts that over VALIDATED, COMMITTING or COMMITTED, with
  the rows as they are; `MCImportBatch_theft` reaches each (`ValidatesOnce` allows it, and
  says when). The download of the original falls back to `file_blob` when the file is lost
  (`importing/service.go:382`); this handler does not.
- An outlet without a subscription whose owner has bought one elsewhere passes the filter
  UNSUBSCRIBE and is labelled NO_PACKAGE; `FilterShowsLabel` leaves these rows out, and
  those created at exactly the edge of a trial, where SQL compares times and Go days.
- `reporting/service.go:44` accepts PDF exports; the CHECK of
  `migrations/20260802000200` (line 28) allows CSV and XLSX only.
- `MarkInvalid`, `AssignSales` and a release change a lead's stage without a row in the
  stage history (`docs/sprint-06/README.md:41` describes one per change).
- Erasing a closing cascades to its commission, a PAID one too.
- The recomputation of a month that read first may commit last; the class of a score is
  taken before rounding and its rank after.
- `ConfirmMatch` compares neither owner of transfer and payment.

## What is proved

All theorems are about the specifications as TLC runs them, for every value of the
constants, from the constants' assumptions alone (named in the modules: the special values
are not members of the sets they stand beside; job ids are naturals; workers, the rows of a
workbook and closings are finitely many, which any database is; amounts are positive; days,
months and durations are naturals). One assumption says something of the code:
`TrialDays = 2 * TrialSoon` in `Customer`, true of its 14 and 7. The filter of the status
page counts the 7 from the creation, the label from the end of the trial, and for any other
pair of constants the two would disagree (`FilterIsLabel` is where the proof needs it).

**`JobQueueProofs`: the queue.** `TypeCorrect` is inductive by itself. `ClaimsExclusiveHolds`: a
locked row is PENDING because every writer of a row waits for its lock, and `SKIP LOCKED`
claims a free one. `CommitsBounded` is not inductive; `PermitsBounded` is. It counts, for a
job, its commits and the rights to run it that are around: one per worker that holds it,
and one if the row invites another claim. A claim turns the row's right into the worker's,
a commit turns the worker's into a commit, `Fail` returns it to the row, a crash leaves it
with the row for the reclaim; only a reclaim from a live worker adds one, and is counted
in `stolen`. `CommitsHold` and `OneRunnerHolds` follow. The lemmas `HoldersGrow`,
`HoldersShrink` and `NoHolders` say what one worker's step does to the cardinality.
`SettledHolds`: a settled job that was never stolen has used up its only permit
(`SettledFree`), so nobody is left to move it. `RetryBudgetHolds` rests on `BudgetInv`: from
the claim that reaches `max_attempts` on, `attempts` and the claims still invited (the row
is PENDING, or a worker's `Fail` has read an older `attempts` and will make it so) stay
within the limit plus the reclaims; at that claim `PermitsBounded` bounds the holders, hence
the late `Fail`s, by the reclaims. It assumes `max_attempts > 0` (the column's default is 5
and nothing writes it): with 0 the first claim would already be one too many.

**`JobQueueProofs`: exports.** `ExportsImplementQueue` shows that every step of `Export` is
a step of `JobQueue` or stutters on its variables, so that what is proved of the queue holds
of it underneath an export. `ExportAgreesHolds` rests on that: as long as nobody was robbed
of a job, `PermitsBounded` leaves at most one worker holding it (`Alone`), hence one writer
of the export's row, and `Promised` says what that worker's place in the handler lets one
conclude about the row.

**`JobQueueProofs`: imports.** `ImportsRunQueue` is the same for `ImportBatch`, and
`ImportsKeepQueue` the queue's promises for its jobs. `ImportTyped` adds to the types what a
call is at each step: one that is over has listed no rows, one at a row has that row in its
list, and what it has counted and what it has still to do are together no more rows than
there are. On it rest three arguments.

- *No row forgotten.* `NoRowForgotten` is not inductive: it needs that a run of the commit
  has listed every VALID row it has not marked (`Listed`), and that the rows exist whenever
  anything is under way that follows validation (`RowsPresent`), since a run that lists rows
  before there are any would finish a batch of none. Only three statements write a row's
  status (`RowsKept`). `Listed` makes no assumption about the queue: two runs of the handler
  at once only mark more rows than each has in mind.
- *Applied once.* `AppliedBounded` adds to the applications of a row the jobs that may still
  apply it (`MayYetApply`): jobs for which the row is still to be listed, or is in a list,
  and which are not between its writes and its mark. An application uses the job's right
  up; an interruption there gives it back and is counted in `cut`; a mark ends it. That a
  job has one such right and not one per worker is `OneRunner`, hence the condition that no
  commit job was stolen.
- *A truthful count.* With one commit job that was never stolen and no row relinked
  (`Calm`), the only run there is works on rows nobody else marks (`TodoValid`), so its count
  and the COMMITTED rows grow together (`CountedInRun`), and what it counted stays true
  because the job that committed has used up its permit (`CountedAfter`). `CalmBack` is what
  makes this an invariant: calm now means calm before.

`ValidatesOnceHolds` has a reason for each of the two verdicts a late run could give. It
cannot write VALIDATED, by `RowsPresent`: the rows of the first validation stand in the way of
a second. Hence the hypothesis that the workbook has a row. Below a header and nothing else
(`worker.go` refuses a sheet without any line, not one without data) a second validate run
meets no duplicate key and would set the batch back to VALIDATED. It may write
VALIDATION_FAILED, which looks at no row, and `LateRun` shows that only a robbed worker gets
there: one upload makes one validate job (`UploadInv`), which has committed once a batch is
past validation, so that by `PermitsBounded` whoever still runs it was stolen from.

**`WalletProofs`** proves of the atomic wallet that it is typed, conserves money, keeps its
ledger a chain, credits once and decides once. **`WalletTxProofs`** proves that the
transactions implement it. The invariant `IInv` says of every connection that it is
well formed, that nobody holds a lock in conflict with its own (`Granted`), and that what
it checked or read under its locks is still so (`Sound`): the payment PENDING, the key
unused, the balance current. A step of another connection preserves `Sound` because it
would need a lock that `Granted` denies it. With it each commit is a step of `Wallet`, and
all other steps stutter (`StepSimulates`); `TxImplementsWallet` is the refinement, and
`TxConserved`, `TxChained`, `TxCreditedOnce` and `TxDecidedOnce` carry the wallet's theorems
over. `SeenStaysFresh` is the absence of lost updates itself.

The transfers' `CreditBacked` becomes inductive with what a `ConfirmMatch` relies on between
its transactions: the transfer it recorded is MATCHED with the payment it is about to
accept. `MatchIsFinal` follows from the guards of the three writers.

**`PayoutProofs`.** `PaidOnce`, `ReservedApproved` and `ReservedOnce` are inductive only
together with `Relied` (a locked commission keeps the status its request read) and
`LocksApart` (no two requests lock one commission).

**`SubscriptionProofs`** proves every property of `Subscription`. Its invariant adds
`Relied` (a request that has locked an order still finds it, and its subscription ACTIVE
if it upgrades it), `LocksApart`, and `Flagged`: which issue keeps an order in the review
queue. A rejected order keeps the issue about the closing its reconciliation names, and a
request that resolves the issues of that closing has to pass the unique key first, which
the rejected row still holds (`ResolvingSpares`). `ClosingCountedOnce` needs nothing of the
snapshot: the unique key alone carries it.

**`LeadProofs`.** The invariant `Inv` adds to the properties `LockedIsCurrent` (the row a
request has read is the row as it stands) and `LockedByOne`. What the handlers make of a
sound row is sound (`ToSupervisorSound` and its like), and a sound row that is current may
be committed. `ListsAgree` then follows from `Workable`, and `ChainsUnbroken` from
`AssignmentAgrees` and `LockedIsCurrent`: the `from` a request writes is the holder it read.
`ClosingsReported` needs more than its property: a request carries the row it read over to
its commit, so `ReportInv` says of that row too that a score of 3 has a closing behind it
(`SeenReported`). `ReportsStay` makes it last: a closing that was reported names
the same lead ever after, and one that is erased stays on record as GONE.

**`CommissionProofs`.** The invariant adds to the properties that accepted rules are
well formed (`RulesTyped`), that a stamp is no later than the day (`ClosingsTimed`), and it
speaks of the commissions a running sync is about to insert as well as of those inserted
(`Written`), because a rule may be retired in between. `RateInForce` is then about the past:
a rule is cut at today, no earlier, and the closings it was applied to were confirmed by
then. `RankedInOrder` is not inductive at all and is not proved from step to step: the
invariant says that a rank equals its closing's ordinal as it would be counted now
(`Ranked`), which a confirmation, a deletion or a referral can only disturb in a month it
marks as shuffled, and `OrdinalGrows` says that ordinals are strictly monotonic. That each
rank has one tier (`EveryRankHasATier`) takes the last of the tiers that start at or below
the rank: the largest element of a finite set, `FiniteLargest`.

**`CustomerProofs`.** The state contributes that an outlet's owner exists (`OwnersExist`);
the rest is about the status expressions. `LatestIs`: a non-empty set of subscriptions has a
latest one, by a minimal set of later ones, as induction is out of reach. `DayOfTime`: a
time is before a midnight exactly when its day is before that midnight's, the one bridge
between the SQL, which compares times, and the Go, which compares days. On these the filters
and the labels are compared case by case, with a subscription in view and without. An
upgrade's new subscription is the latest one of its outlet from then on
(`UpgradeIsLatest`) and ends when the old one would have. As a day passes, `MonthOfDay` keeps
a subscription from becoming NEW in a later month than it began in.

Proved, and not among the properties of a run: `TypeOK` of each module with theorems,
`ClaimsExclusive`, `PermitsBounded`, `SeenIsFresh`, the wallet's `DecidedOnce` and
`ClosingDecidedOnce`, the lemmas' invariants named above.

**Only model-checked:** the liveness properties `ExportSettles` and `CommitSettles`, since
fairness is beyond this prover. Every invariant and every action property of a passing run
is a theorem. `Kpi` has no theorem: its run shows a finding. No module declares a RECURSIVE
operator.

## What is not modelled, and why

- *In the modelled components.* Progress columns, the `..._job_id` columns; the content of
  stored files and their names (whether a file can still be read, and passes the checks of
  its sheets, is a free choice of `ValidateRejects` in every run); the writes of single
  profiles inside a row's commit (`applied` counts the row); wallets without an owner;
  `SetTransferDateOverride`; the amounts of commissions, prices, proration, promotions; the
  owner-mismatch checks of a reconciliation (all rows of `Subscription` belong to one
  owner); permissions other than who may see and move a lead; contact data, search and
  sorting; the append-only interactions and stage histories; the scores of a month. An
  idempotent replay returns what is there and changes nothing, and is modelled in
  `WalletTx` only.
- *Partners, the rest:* types, partners, their interactions and PIC assignments are master
  data; one active PIC is what a unique key says by itself.
- *Identity:* login, refresh and revocation write one session row each. The one
  interleaving that matters, two refreshes with one token, leaves two sessions of a family
  that both end with it, and no document promises otherwise.
- *Targets, catalog, discussion:* single statements, or requests that nothing interleaves
  with to an effect a document forbids. The counter of likes can drift from its rows, which
  is one missing transaction and needs no model to see.
- *Parts that only read:* analytics, dashboards, lists, workbook exports, the subscription
  matrix.
- *Parts without a protocol:* routing and wiring (`app`), configuration, HTTP plumbing,
  logging, password hashing, migrations, seeders, factories, command-line tools.

Most of the lines of the repository are of these last two kinds: handlers that decode a
request and encode a reply, types, read-only SQL and seed data. They hold no state that a
state machine could be about, and no definition is mapped to them.

## Plan

The order was that of the money first (queue, imports, wallet, transfers, payouts,
reconciliation), then of what people see and are paid by (leads, exports, customer status,
commissions, KPI). What is left:

1. `Kpi`: a passing run about what recomputations and superseded definitions leave of a
   month, and its invariant proved.
2. `Payout` composed with closings that are erased after they were synced.
3. **`Session`** and PIC assignment, should a document come to promise what they do.
