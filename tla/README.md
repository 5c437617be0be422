# A verification project for the payroll-tax engine

TLA+ models of the parts of this repository that keep state: pay runs and the
year-to-date totals they carry from check to check, the payroll server with
its recruiting, time-off and deposit routes over its file store, the locked JSON file
under the API's and the site's ledgers, the charging of API keys, the Stripe meter
queue, and the subscriptions of API keys and site accounts against Stripe's webhooks.
Each module is translated from the source lines that `PROJECT.json` ("map") names; TLC checks
it on small instances and TLAPS proves what matters most for every instance.

Run `tlc -workers 2 -config X.cfg M` for a run of the table below, and
`tlapm M.tla` for a module of proofs.

## 1. The system

The repository is a payroll tax engine (`src/`, pure functions over the rate
files in `data/`) with, around it, a payroll application, a layer for the
building trades, a self-hosted metered API and a public site.

| Part | State it keeps | Operations | Talks to |
|---|---|---|---|
| Tax engine, `src/` | none | `calculatePaycheck` and its taxes, garnishments, minimum wage | called by everything below |
| Pay runs, `payroll/run.ts`, `payroll/ytd.ts` | none of its own: returns runs and employees | `draftPayRun`, `recalculatePayRun`, `approvePayRun`, `voidPayRun`, `accumulateYtd` | the engine; a caller that stores what it returns |
| Trades, `trades/` | its own jobs, hours and determinations | `draftWeeklyTradesRun`, `approveRunById`, certified payroll, job costs | pay runs, the payroll store |
| Payroll store, `payroll/store.ts` | one JSON file: employees, runs, PTO, benefits, verifications | load, change, save, without a lock | the payroll server, trades |
| Payroll server, `examples/payroll-server.ts` | none: one Node process over the store | hire, edit, terminate, orders, run payroll, PTO, deposits, reports | its store; browsers |
| Locked JSON file, `api/json-store.ts` | a file, a lock file, temp files | `withFileLock`, `readJsonFile`, `writeJsonFileAtomic` | `withDb` of `api/keys.ts` and `site/lib/store.ts` |
| API keys and ledger, `api/keys.ts` | keys, balances, settled payments, meter queue, seen webhooks | mint, record usage, settle, suspend, cancel | the locked file |
| API billing, `api/billing.ts`, `api/meter-queue.ts` | charges in flight, one flush in flight | card setup, charge a balance, flush the queue, webhooks | the ledger; Stripe |
| API server, `examples/api-server.ts` | none | calculate, run a payroll, usage, billing pages | ledger, billing |
| Site, `site/` | accounts, sessions, usage, its own meter queue | sign-up, metered calls, plans, checkout | locked file; Stripe; mail |
| Edge function, `supabase/` | keys and usage in Postgres | one calculation, under a rate limit | Postgres |
| Geocoding, watcher, verifier, harvester | indexes, snapshots, reports | look-ups, scheduled fetches | HTTP |

### Where it is hard

* **Pay runs.** A run is computed when it is drafted and posted when it is
  approved; in between the employee's totals may move. Any number of drafts may
  be open, and nothing orders their approvals. The totals must restart with the
  calendar year, and the check that crosses a wage base must be taxed on exactly
  the room that is left. Correct: totals are the sum of what was approved, a cap is
  applied once, an approved run is never changed.
* **Payroll server.** Single-threaded, but every handler with a body reads its
  records, awaits the body and writes the records back; two saves of one handler
  are not atomic. Correct: no saved change is undone, a period is run once and in
  order, only people on the staff are paid.
* **Locked file.** Several processes; a lock whose owner died must be taken over;
  errors and power loss at any step, a disk that fills up in the middle of a write, a
  directory that cannot be flushed. Correct: one process inside, a returned change
  stays, one that threw leaves nothing, the file is always whole - the last two but for
  what section 4 names.
* **Ledger and charges.** A charge is an HTTP call between reading a balance and
  settling it; usage arrives meanwhile, the answer may be lost, another process may
  charge too. Correct: nothing is forgiven, nothing collected twice.
* **Meter queue.** Retries after ambiguous failures, several flushing processes,
  a deadline. Correct: every call is billed or kept, never billed twice.
* **Webhooks.** Late, repeated and reordered. Correct: the account's state is that
  of the newest event about the subscription it has.
* **Site accounts.** The browser's return and the webhook of one Checkout race; a page
  may be reopened months later; a trial can start in three ways. Correct: one
  subscription per account, a cancelled one stays so, a key lives as long as its plan.
* **HR workflows.** A request decided twice, or decided on what was read before an
  await; two saves of one approval; two guesses at one deposit. Correct: hours are taken
  once, decisions stand, the guesses that were made decide.

`PROJECT.json` ("hazards") lists each of these at its line, with the properties that
cover it.

## 2. Plan

In this order; all of it is done.

1. `Ytd`, `PayRun` - the core: pay runs and totals. Theorems about all its
   properties (`PayRun_proofs`).
2. `PayrollServer` - the same operations as requests over the store, with the
   recruiting pipeline that ends in a hire. Theorems in `PayrollServer_proofs`.
3. `AtomicChanges` (abstract: a change is made at once, or not at all) and `FileLock`,
   the store of the ledgers, shown to implement it (`FileLock_proofs`).
4. `Settlement` - `recordUsage`, `settleBalance`, `chargeOutstanding` of several
   processes against Stripe, with theorems (`Settlement_proofs`).
5. `MeterLedger` (abstract: a call is owed, then billed or given up) and
   `MeterQueue`, shown to implement it (`MeterQueue_proofs`; liveness by TLC).
6. `StripeSubscriptions` (Stripe: subscriptions and the events about them), composed
   with `StripeWebhook` - the subscription and suspension of an API key - and with
   `SiteSubscription` - those of an account of the site, and its live key. Theorems in
   `StripeWebhook_proofs` and `SiteSubscription_proofs`.
7. `PtoRequests` and `DepositVerification` - time off and deposit accounts over the
   payroll server's store, with theorems in `HrWorkflows_proofs`.

## 3. The modules

**`Ytd`** is the arithmetic: `UnderCap` and `OverThreshold` (`src/money.ts`),
`TaxLines` (the lines `calculatePaycheck` reports for one check) and
`AccumulateYtd` (`payroll/ytd.ts`). One tracker of each shape is kept: capped with
equal employee and employer lines, uncapped with a line above a threshold that feeds nothing,
and a state pair whose sides disagree past the cap. Rates and rounding do not
reach a tracker and are left out.

**`PayRun`** has the employees' records, the stored runs and a history: `books`
(what approved runs paid, by employee and year), `stale` (drafts computed before a
later approval), `freshly` and `orderly`. One action per function of `payroll/run.ts`.
The caller is the one of `trades/service.ts`: it stores every draft and approves by
id. `Layer` says who computes the lines, `payroll/run.ts` or `trades/payRun.ts`. The
wages of a check are chosen anew whenever a run is computed; they stand for hours,
salary and deductions. Recalculating keeps the check date in payroll's layer and takes a new one
in the trades layer.

**`RequestsInFlight`** declares the payroll server's requests and what their handlers hold;
`PayrollServer`, `PtoRequests` and `DepositVerification` extend it.

**`PayrollServer`** has the store and the requests in flight. A handler is two steps:
up to the await of the body, holding what it read, and from there to the end. A
handler without a body (removing an order) is one step. `FinishRunPayroll` is the whole of
`draftPayRun`, `approvePayRun`, `saveEmployees` and `savePayRun`;
`CrashBetweenSaves` stops after the third. `ChangeSetting`, `AddOrder` and
`Terminate` are the three ways a handler changes a record (overwrite a
field, append to a list, set the termination date) and stand for PATCH, federal W-4,
benefit election, garnishment orders, deposit accounts and termination. Totals are a
count of checks within one year: `PayRun` has the arithmetic. An applicant is moved
through `FORWARD_MOVES` by `Advance` (with a body: two steps) and `AnswerOffer` (without:
one), and `HireCandidate` saves the employee, then the applicant;
`CrashBetweenHireSaves` stops in between. `overlapped` collects what two requests in
flight had both read; `intended` is what every edit would have left alone.

**`AtomicChanges`** is what a locked read-modify-write promises: the changes that are in the
file, and one answer per call (awaited, returned, returned unflushed, threw, cut). **`FileLock`** has one variable per file (the file as processes see it, as the disk
has it, the temp files, the lock) and one step per system call of `withFileLock`
and `writeJsonFileAtomic`. A file's contents are the set of changes made to it, so
a lost or a resurrected change shows. Kills, power losses, and a dead owner's lock getting
older than 30 s are the environment, and so is `WriteBack`: the system writes a renamed
entry to disk in its own time. Two steps are errors that the code does not see or does not
pass on: `WriteShort`, a text cut short because nobody reads the count `writeSync` returns
(line 76), and `FailToFsyncDir`, a directory that cannot be opened or flushed (lines 52-57).
`unflushed` and `lost` follow the changes of the second. `Answers` is the refinement
mapping, with the file's contents: the rename is the moment of the change. An error after the lock file is
made and before the lock is held leaves it behind (`FailToOpen`). The
check "is it stale" and the removal are two steps, as in the code. The nested call
within one process is left out (no caller nests).

**`Settlement`** is one key. `balanceDue`, `lifetimeBilled` and `settled` are the ledger's;
`charging[p]` is what `chargesInFlight` and the pending call of a process say
together. A payment is its idempotency key, a pair of lifetime total and balance, and
Stripe decides each key once (`Collect`, `Refuse`), also after the caller gave up. A charge is two steps, up to the
request (`BeginCharge`) and from the answer to the end (`Settle`, `Abandon`). `counted`
is how often a payment came off, `forgot` that the bounded memory dropped a payment somebody
waited for, `disorderly` that a payment was asked for with another undecided.

**`MeterLedger`** is what metering promises, one status per call. **`MeterQueue`** has
the stored queue as three sets (`queue`, `dead`, `resting`), each flush's
snapshot (`todo`, and `late` for the events its one reading of the clock finds too
old) and the event it waits on, what Stripe has taken and the stray requests. A flusher
is a server's shared flush, a `reportCall`, or the operator's script. `LedgerStatus`
is the refinement mapping. A call that arrives at Stripe after it was given
up is billed all the same, which the ledger allows and `DeadAndBilledIfAnswerLost` confines.

**`StripeSubscriptions`** is Stripe as both webhook consumers see it: a subscription is
started by Checkout, its invoices fail and are paid, it ends, and its last invoice may still
be paid. Each step appends events to `published`; an event's position is its identifier
and its creation time. All of it is external.

**`StripeWebhook`** adds one API key. `Deliver` is `handleStripeWebhook`, one step,
for any event not yet in `processedStripeEvents`, in any order; `DeliverAndCrash` applies
all or the first of its writes and claims nothing. `startCardSetup` and
`completeCardSetup` are two steps each, around their last await. `Holds` is
`setSubscription`, `Concerns` the test for an event about another subscription - which an
invoice passes that names none where the webhook looks (`api/billing.ts` 203-210), so each
delivery of an invoice chooses whether it does -,
`StaleCheckout` the comparison of the event's time with `stripeSubscriptionSetAt`. The
history says which subscriptions' ends the key was told of (`notified`), which were stored on a
reading from before their end (`revived`), and whose events did not come in turn or whose
key an unnamed invoice of another one changed (`off`).

**`SiteSubscription`** adds one account of the site: terms, payment set-up, the trial
button, the issue of a live key, the browser's return (`BeginReturn`, `FinishReturn`), the
webhook of a Checkout (`BeginLink`, `FinishLink`) and of everything else (`Deliver`). A
live key is what `keyLifeFor` gave it last, which is all the properties tell apart. The site
reads both places in which an invoice may name its subscription (`site/lib/billing.ts` 357-359),
so here every event names one; an invoice that belongs to no subscription, which neither part
makes, is not modelled.

**`PtoRequests`** has balances and requests for time off. Every route reads and saves
in one step, the body being there, but for the denial, which reads the request first and
awaits the body (`BeginDeny`, `FinishDeny`). pto-use and pto-accrue pass on what the body
says, so hours used and accrued are any integers; only `createPtoRequest` looks at the sign. A
body whose hours are no number at all is not modelled. `CutApproval` stops between
`savePtoRequest` and `savePtoBalance`. **`DepositVerification`** has one verification
per account; its three routes read, await and save. A guess is right or wrong, a
prenote's wait is over or not.

The `MC` modules give the symmetry, and `MCPayRun`, `MCPayrollServer` and
`MCPtoRequests` also constants.

## 4. The runs

| Run | Question | Bounds |
|---|---|---|
| `pay_run` | Whatever is drafted, redone, voided and approved, do totals and caps come out right? | 2 employees, one hired late and one terminated; 3 runs; 3 check dates, the last in a new year; wages 1 and 3 against caps 5, 2 and a threshold of 4 |
| `trades_year_rollover` (violated) | The same caps when the trades layer drafts | the same |
| `payroll_server` | What two overlapping requests may and may not spoil | 2 companies, 3 employees, one of them an applicant, 2 dates, 2 requests in flight, 2 edits, 1 stop |
| `file_lock` | Do the lock and the replacement amount to changes made at once that survive, and what alone damages the file? | 3 processes, 3 calls, 2 kills or power losses; any write may be short, any flush of the directory may fail |
| `settlement` | Nothing forgiven, nothing taken off or collected twice | 2 processes, prices 1 and 2, 4 cents in all, a memory of 2 payments |
| `settlement_retry` (violated) | Collected at most what was billed, without the proviso | 1 process, 3 cents |
| `meter_queue` | Does the queue implement the ledger, and is what it gives up left alone? | 2 calls, 2 flushes at once, 1 cut short |
| `stripe_webhook` | Does a key follow Stripe, and what is dead stay dead, whatever comes late, twice or cut short? | 2 customers, 2 subscriptions, 5 events, 1 stop inside a delivery; any invoice named or not |
| `site_subscription` | The same for an account of the site; one subscription; the trial's key | 2 customers, 2 subscriptions, 5 events |
| `site_key_life` (violated) | Does the key of every trialing or active account live through the term? | 1 customer, 2 subscriptions, 5 events |
| `pto_requests` | Are hours taken once per approval, and do decisions stand? | 3 requests on 2 balances, one capped at 1; hours 1 and -1 used, 2 and -1 accrued, at most 1 in all either way; 2 denials in flight, 1 stop |
| `deposit_verification` | Do the guesses made decide? | 1 account, 3 requests in flight, 4 guesses where 3 are allowed |

Why the bounds are enough. `pay_run`: two wages straddle every cap in two checks;
three runs make a stale draft, an approval back into the old year and a
redone draft meet. `payroll_server`: two requests are the smallest overlap, and the
properties speak of pairs; two dates make a period skippable. `file_lock`: a
takeover takes a dead owner and two waiters, and a third call shows the loss.
`settlement`: four cents allow four payments, enough to push one that is waited for out of a
memory of two (50 in the code). `meter_queue`: events do not affect each other
except through a snapshot, for which two are enough. `stripe_webhook`,
`site_subscription`: two subscriptions are an old one and the one that replaced it; five
events are both Checkouts with their invoices and an end, or a failure, a payment, an end and the
first Checkout; six events, which take longer, show nothing more. `pto_requests`: a denial
that overtakes an approval takes one of each, and a second denial shows that it is the only
way. `deposit_verification`: three requests are one more than a race.
Nothing is bounded that the properties count: the theorems below hold for any number
of runs, processes, calls, payments and crashes.

What the violated runs show, each against a sentence of the repository
(`PROJECT.json`, "findings"):

* `trades_year_rollover`: the first check of a year is computed on last
  year's totals, so someone who reached a wage base is not taxed.
* `settlement_retry`: a retry after a lost answer and one more call has another idempotency
  key, and both payments are collected.
* `site_key_life`: a subscription taken out again after a cancellation and linked by the
  webhook makes the account active and leaves the key with the evaluation window's end;
  the return page would have lengthened it.

### Provisos, and what lies outside them

Some properties hold only with a proviso. Each is defined by the steps themselves, so a
passing run shows that what it names is the only way to go wrong:

* `orderly`, `freshly` (`PayRun`): a run of an earlier year approved after one of a
  later year resets the totals to that run alone (`payroll/run.ts` 105-113); a draft computed before
  another approval counts the room under a cap twice.
* `overlapped` (`PayrollServer`): what two requests in flight had both read, or whose hire
  was cut between its saves, is saved by whoever comes last.
* `~raced` (`FileLock`): two waiters that both find a dead owner's lock stale; the second
  removes the lock the first one has made (`api/json-store.ts` 127-131).
* `lost`, `unflushed` (`FileLock`): a change whose call returned although the directory could
  not be flushed, and that a power loss takes back before the system has written it. `fsyncDir`
  calls itself best effort, and a caller cannot tell.
* `file.parses` (`FileLock`): the file is readable. `OnlyShortWritesDamage` says what alone ends
  that: a write cut short and renamed over the good file. Lines 10-12 of `api/json-store.ts` say
  that a full disk mid-write leaves the previous file intact; that is so when `writeSync` throws and not when it
  returns a smaller count. From then on `readJsonFile` refuses the file, and the former one comes
  back only if power is lost before the rename is on disk.
* `~disorderly` (`Settlement`): see `settlement_retry`.
* `stray` (`MeterQueue`): an event Stripe took, whose answer was lost and whose retry came
  after the limit, is given up although it was billed.
* `revived` (both subscription modules): the subscription was read before its end and
  stored after the end was delivered.
* `off`, in `StripeWebhook` only: an invoice of another subscription that names none where the webhook
  looks changed the key. `api/billing.ts` 206-207 says that such an event is applied, and a paid or
  failed invoice of a replaced subscription then lifts or suspends the key of the current one.
* `off`, in both: an event of the held subscription came after a later one, or when the key or account
  did not take it for its own. Then the last delivered event wins over the last created one: an
  end delivered before its Checkout is lifted by that Checkout (`api/keys.ts` 281-285); a
  delivery cut by a stop is applied again later, and the older value stays, although
  `api/billing.ts` 157-159 calls this harmless; a reopened return URL puts a
  past-due subscription in place of the current one; a past-due key that subscribes anew and whose invoice is
  delivered before the Checkout stays suspended; and on the site a resubscription linked while it
  is not in good standing stays cancelled when it is paid.
* `overlap` (`SiteSubscription`): a set-up that begins while an earlier Checkout may still change the account
  makes a second customer or subscription; so does signing the terms again under a
  subscription, which `server.ts` 1425-1426 refuses only once a trial has started: an account linked
  by a reading that was not in good standing has none, and one resubscribed by the webhook keeps its old one;
  so does a second subscription that is linked to a cancelled account while its first invoice is unpaid
  (`LinkedUnpaid`): `applyCheckoutCompletion` takes it (`server.ts` 1795-1814) and leaves the account cancelled, and
  `handlePaymentSetup` opens a third page for a cancelled account (1518-1522), though it means to have one subscription
  per account. That takes three subscriptions and eight events, more than the run has; the proof of `PaysOnce` found it.
* `late`, `cut` (`PtoRequests`): a denial that had read the request before its decision
  writes over it, with the hours taken; an approval cut between its saves takes none.
* `raced` (`DepositVerification`): guesses that overlap give each other's attempts back.

`CHECK_DEADLOCK FALSE` in every run: runs get decided, edits and calls are bounded,
and the system may stop.

**Fairness.** Only `MeterQueue` assumes any; the other properties are safety, and nothing in the
other parts retries by itself. `TimerFlush`: a running server flushes at start and every
60 s (`examples/api-server.ts` 374-378). `Proceed`: a request ends, with an answer or an
error, and the store's lock is got or given up after 10 s. `BackOffOver` and `Expire`: time
passes. Flushes are cut short finitely often (`MaxAborts`): a server that is killed
before every delivery delivers nothing. Nothing is assumed of Stripe, so an event may fail until it is given
up, and the ledger asks for no more.

## 5. The proofs

`PayRun_proofs` assumes `WageBaseAssumption` and `PayRunAssumption` (dates and
wages are naturals, no check date before the first year). The types are not
inductive as they stand: a line must exist for whom the run pays, and decided
runs have a date; `Typed` adds that. The books need more: a draft's line feeds the employee and the
employer figure alike (`LinesAgree`), and a tracker of the employee's year is at most its book, equal to
it while approvals are orderly, and no book has entries for a later year than the record's.
From these follow `NeverOverstated` and `Reconstructible`, for both layers.
`Telescopes` is about payroll's own drafting (`Layer = "payroll"`): an open draft that is not
stale was computed on the totals its employees have now, so its taxable wages
are the room left under each cap; two lemmas on `UnderCap` and `OverThreshold` say that taking that
room keeps the year's sum at the wages under the cap.
`DecidedFinal` and `ApprovalMovesYtd` are step properties.

`FileLock_proofs` assumes `FileLockAssumption`. `IInv` is the types, `LockHeld` (unless raced, the
process under the lock owns the lock file, which is not stale, and nobody else is about to remove it),
`Readable` (the file and its disk image are synced, one that does not parse holds no changes, and a process that is to
rename has a temp file that is `Short` or whole, with what it loaded and its change), `Known` (every change was begun; it is
one process's, or returned, or thrown, or gone with its process; what a short write lost is in neither image) and `Settled`
(while the file parses: what the process under the lock loaded is still what the file has, and what returned and was not
lost is in the file; on the disk, unless its directory was not flushed; what threw is in neither). `ChangedAtOnce` shows,
action by action, that a step is one of `AtomicChanges` or a stutter (`ChangesAreAtomic`), as long as the file parses before and after it: a rename is `Make`,
for what was loaded is what the file still has; `WriteBack` and `FsyncDir` are `Flush`; a release is `Return`,
`ReturnUnflushed` or `Throw`; a kill or a power loss cuts the calls in progress. It needs `Staged` as well: one
change per call, and nothing on the disk that is not in the file, so that a power loss only takes back. That a change
whose call threw is never in the file is `ThrownLeaveNothing`; that a file stops parsing by a short write and nothing
else is `DamagedByShortWritesOnly`.

`Settlement_proofs` assumes `SettlementAssumption`. That a payment comes off once is not
inductive: it must be known that its key cannot be asked for again, which is so because each
payment asked for has a lifetime total of the past or a balance no smaller than today's
(`AskedForThePast`), so that taking it off leaves nothing to charge under the same total
(`CountedIsPast`), and that what came off is remembered while somebody waits for it
(`CountedIsRemembered`; `RememberForgetsTheOldest` is the lemma about the bounded memory). For
`OrderlyChargesCollectOnce`, at most one payment is undecided and the balance covers it
(`OneUndecided`), and collected, invoiced and owed cents add up to what was billed, plus the
undecided payment if it was made (`Balanced`).

`MeterQueue_proofs` assumes `MeterQueueAssumption`. `IInv` is the types,
`QueuedOrBilled`, `SendingIsOnTheList` and `BilledAndQueued` (an event Stripe took is still queued only while
a flush waits for its answer, or after one lost it). `StepRefines` maps every step
to one of `MeterLedger` or to a stutter, and gives `QueueRefinesLedger`.

`StripeWebhook_proofs` assumes `StripeAssumption` and `StripeWebhookAssumption`. `DeadStaysDead`
needs to know that an end is published once and for good and that a subscription has one
Checkout (`OneCheckoutEach`), that what is held or read has started (`HeldHasStarted`), that a
key told of a Checkout holds something (`ToldInTurn`), and that the stamp is no older than the
Checkout of what is held (`StampedSinceCheckout`), which is what makes a late Checkout stale.
`NeverSubscribedBack` follows from the same invariant.

`SiteSubscription_proofs` assumes `StripeAssumption` and `SiteSubscriptionAssumption`. Beyond
the types: a subscription whose end was delivered is over at Stripe (`EndsAreFinal`), so a return or a
link that was begun later does not store it, and an account that holds nothing
was told of no end (`NothingHeldNothingEnded`). That no key of a trial ends early needs
only that a trial has a card and that every way it starts promotes the key.

`OneSubscription` (`PaysOnce`) speaks of subscriptions only while no two Checkouts overlap, and is not
inductive: `OneInv` says that all of Stripe's events came from a page of the account (`FromItsPage`), that
then one page at a time has been opened and not ended, for the account's one customer
(`OneCustomer`, `OneGoesOn`), that whatever goes on at Stripe and whose Checkout was delivered is held
(`LiveIsHeld`), and that an account which holds another subscription than the open one is cancelled
(`NextIsAwaited`) - the condition under which the return and the webhook take the new one.

`InStepWithStripe` (`FollowsStripe`, in both modules) compares the record with Stripe when every event has been
delivered. `StandingIsLatest` says of Stripe that a subscription stands as the last of its events, its Checkout aside, says;
`KeyFollows` and `AccountFollows` that, unless `off`, the record reflects one of the subscription's events and none of
those after it was delivered. When all were, that one is the last. On the API's side an event that names no subscription is
applied to whatever its key holds; one that changes the key and is another subscription's puts the one held in `off`
(`Mistaken`), and every other event of another subscription leaves a key as it is.

`PayrollServer_proofs` assumes `PayrollServerAssumption`; that companies and employees are named apart
(`Companies \intersect Employees = {}`) is so because `overlapped` holds both, and any instance can be named so.
`IInv` is about what each request in flight holds. A record read before the await is still the stored one unless somebody
else held it too (`SharedIsOverlapped`, `EditIsSound`, `RunIsSound`, `MoveIsSound`); even when somebody did, its totals
are covered by the saved checks and the stops, who was on file still is, every period before the one being run
has run. Applicants not hired yet are on nobody's file (`ApplicantsAreNew`, `HireIsSound`, `OneHireEach`), so a hire
replaces no record, and whoever a saved run paid is on file (`PaidAreOnFile`). The seven properties of the run follow.
`MinIsLeast` - a set of periods has a first - stands in for induction over the naturals: without a least element, adding 1
would map a finite set into itself less 0.

`HrWorkflows_proofs` has the two workflows, under `PtoRequestsAssumption` and `DepositVerificationAssumption`.
`OpenUntilDecided` and `HeldIsCurrent` (a denial in flight has what is stored, or the request is `late`) carry
`DecisionsStand`. For `HoursTakenOnce` (`TakenOnce`), `BalancesAddUp` is the first half; for the second, the requests whose
hours were taken turn out to be those first approved and not cut (`Taken`, `DecidedOnce`), and a denial in flight has
the hours of the stored request (`HeldHours`). `Typed` says of a balance only that it is an integer: hours worked and
used are any integers, since the routes check no sign. `StaysWithinCap` shows what they would have to
check: if no hours and no cap are negative (`NothingNegative`, a premise of the theorem that nothing in the
code establishes), no balance is overdrawn or above its cap. For deposits: attempts left are `MaxAttempts` less the wrong guesses and a right
guess is the last (`Decided`), and what a request holds is what is stored, unless `raced`
(`HeldVerificationIsCurrent`).

Two theorems are about sums over sets that grow, `BilledIsOwedOrPaid` (`NothingForgiven`: payments
collected and not taken off) and `TakenOnce` (hours). A sum is known by `AmountTo`: there is a function on all subsets
that is 0 for the empty one and grows by each element's amount; adding or removing an element is a lemma without
induction. That the fold in `HoursOf` is that sum (`AFoldIsTheSum`) follows from the library's theorem that the strict
subsets of a finite set are well-founded: a smallest subset on which it is not leads to a smaller one. What the fold would be
over infinitely many requests is not defined, and the invariant has that only finitely many are approved.

Every safety property that a passing run checks is a theorem. Only model-checked: that no call stays
owed for ever, the liveness of `MeterLedger` under `MeterQueue`'s fairness (`ImplementsLedger`, of which
`QueueRefinesLedger` proves the safety part), which is out of the prover's reach.

## 6. Not modelled

* The greater part of the repository's lines is rule data and the arithmetic that reads it:
  `src/taxes/state.ts`, `src/registry.ts`, the tables under `site/lib`, and the same engine a second time
  under `supabase/functions/_shared`. Rates and brackets are functions of one input, which
  the repository tests against published tables; a model of them would repeat the tables. Of
  the engine, `Ytd` has what one check hands to the next. Garnishments, minimum wage,
  compliance and state programmes are likewise functions of their arguments.
* Geocoding, watcher, verifier and harvester (I/O and text); pages and SEO; signatures,
  passwords, sign-in codes and HTTP details.
* The payroll server's time, contractor, benefit-plan, filing and report routes, which change one record
  each in one step; `applyAnnualCarryover`, which no route calls.
* Minting, revoking and rotating keys; a card set up without a subscription price; the 2000
  remembered events (30 days on the site), past which a repeated one is applied again; a stop
  between the two writes of `completeCardSetup`, which are set again when the URL is reopened.
* The site's test keys, usage windows and meter loop (the rules of `api/meter-queue.ts`);
  the edge function's limit, which is one SQL function under an advisory lock.
* A torn write of the payroll store: a save is taken to be whole, and what follows a
  torn one is listed as a hazard.
* A call computed for a key that is suspended while its body was awaited (`examples/api-server.ts` 218), and a prenote
  resolved a second time (`directDepositVerification.ts` 125), go as the code lets them: no property speaks of them.
* Stripe is taken to keep idempotency keys and event identifiers for good; how long it
  does is not in this repository.
