# Tailfire in TLA+

Specifications, model-checking runs and proofs for the API of Tailfire, a travel-agency
platform (NestJS and Drizzle over PostgreSQL, `apps/api/src`). Most of that code is CRUD.
What is modelled here is the part where requests, webhooks, cron jobs, pooled connections
and suppliers meet: money owed and paid, bookings at a supplier that cannot be undone, an
import that runs for hours on several replicas, and the trip that several requests and a form
with a timer edit at the same time, statement by statement.

Source paths below are relative to `src/apps/api/src` unless they start with `packages/` or
`docs/`. `PROJECT.json` holds the component list, the runs, the mutants that show each
property can fail, the map of definitions to lines, the hazards, the findings and the
theorems.

## Inventory

| Component | State | Operations | What is hard |
|---|---|---|---|
| Service fees and Stripe invoices (`financials/service-fees.service.ts`, `stripe-invoice.service.ts`) | a row of `service_fees`, `stripe_webhook_events`, notifications; invoices, refunds and events at Stripe | update, delete, send, mark paid, refund, cancel, invoice, refund at Stripe, webhook | every handler reads, checks, awaits, writes by id; no transactions; events duplicated, late, or handled half |
| Payment schedules (`trips/payment-schedules.service.ts`) | config, expected items with a cached paid total, transactions, card guarantee | create, update, delete, edit an item, record and delete a payment, apply a template | two handlers in READ COMMITTED transactions, the rest in single statements; a cache of a sum |
| Payment audit (`trips/payment-audit.service.ts`, `payment-templates.service.ts`) | audit rows, the connection pool of `packages/database/src/client.ts` | audited create/update/apply, soft delete | the entry is written on a second connection while the first is held |
| FTP pool (`cruise-import/services/traveltek-ftp.service.ts`) | pooled clients, `inUse`, closed flags | acquire, wait, replace, release, drain, pooled download with retries | checks and indexes kept over an await; a time-out leaves a transfer running |
| Cruise import run (`cruise-import/services/import-orchestrator.service.ts`) | tracking rows, counters, a queue of promises before the stream | pull, delta check, download, import, track, cancel | concurrent workers on one generator; a snapshot of the tracking rows used for hours |
| Cruise import scheduling (same file) | `syncInProgress`, cancel flag and history id per replica, the advisory lock, history rows | cron job with retries, manual run, dry run, cancel | a session-level lock taken and released through a pool; replicas that die |
| Cruise booking (`cruise-booking/services/booking.service.ts`, `booking-session.service.ts`) | session rows, idempotency records, the basket and bookings at Fusion | add, get, remove, hand off, cancel, complete | the supplier's answer may be lost; the record, the session and the activity are written one after another |
| Fusion client and Traveltek token | cached token, shared refresh | request with retries | a GET with an effect is retried |
| Trips (`trips/trips.service.ts`) | status, booking date, contact, group, share token; handlers of events in flight | create, update, remove, bulk delete, archive and change of status, publish, unpublish | check then act by id; a trigger checks the status again; handlers nobody waits for |
| Itineraries and days (`trips/itineraries.service.ts`, `itinerary-days.service.ts`) | approved and shown itinerary; numbers, positions and dates of days | create, update, select, remove, list; reorder, generate, append, prepend, find by date | several statements without a transaction; renumbering row by row; MAX + 1 |
| Activities and components (`trips/activities.service.ts`, `component-orchestration.service.ts`, ...) | a tree of activities, details, segments, price, package and payment plan rows | create, update, remove, reorder, move, duplicate, book, link, unlink; nine component kinds; port and tour-day schedules | a create of up to seven statements, deletions before checks, cycles of parents |
| Activity forms (`apps/admin`, `trips/[id]/_components/*-form.tsx`) | the id the form knows, its timer, the saves in flight | autosave, save, save and generate ports | timer and button save at once |
| Trip orders and mail (`financials/trip-order.service.ts`, `email/email.service.ts`) | versions, draft, finalized, sent; `email_logs` | generate, finalize, send, mark | version from MAX, a mail between a read and a write |
| Contacts and activity log (`contacts/contacts.service.ts`, `activity-logs/activity-logs.service.ts`) | first booking date; log rows | handlers of trip events | run beside the requests, in any order |
| Traveller splits, exchange rates, Stripe Connect (`financials/`) | splits, cached rates, account and customer rows | split; look up; onboard | rounding, find-or-create races |
| API credentials, external APIs, tour import | active credential, rate counters, the same lock pattern as the cruise import | rotate, roll back, call, import | two statements without a transaction |
| Users, storage, auth, the other pages of the frontends, schema | rows or files | CRUD, adapters, user interface | nothing a model would add |

How they interact: the fee, schedule and booking handlers are HTTP requests that share
PostgreSQL rows and nothing else; Stripe calls the webhook; the audited transactions share
the pool of the process; the requests that edit a trip, the forms that send some of them and the
handlers of the events they emit share the tables of the trip; the cron job (CruiseSync) runs the import (DeltaSync), whose
workers download through the FTP pool (FtpPool). `PROJECT.json` lists every component, with
its status.

What makes each of the modelled components correct:

* a fee keeps its lifecycle, is never refunded beyond its amount, its ledger agrees with
  Stripe's, an event is applied once, and a payment is eventually applied;
* the cached total of an item is the sum of its transactions and the items add up to the
  price;
* no connection is lost to a failed audit entry, and an entry is the last thing its transaction writes;
* a connection works for one download at a time, and every download ends;
* what the next delta sync skips is imported as the server has it; every file is counted once;
* one scheduled import at a time over all replicas while their sessions last, whose history says how
  it ended;
* one submission to the supplier per idempotency key, and no booking forgotten but those whose
  completion is refused;
* a trip has one approved itinerary at most, days with numbers of their own, activities that are
  whole, in order and without cycles; its status follows the workflow; a form makes one activity;
* an order is marked as sent after its mail went out, and versions are distinct.

## Modules

One action is the code between two awaits. A request is a slot: a record with the handler's
name, a program counter `pc` and exactly the locals the handler still needs; its first action
reads and checks, the last one returns the slot to `Idle`. A request whose check fails changes
nothing, so a failing read is simply not enabled. `Die` drops a slot between two awaits: a
throwing statement and a dead process look the same to the database. Operators commented
`Fault:` are not part of any specification: they are the bugs the mutants put in.

Some modules have a rigid variable `env`, chosen in `Init` from the constant `Environments`:
which handlers are called, which may die, whether requests overlap. One run then covers several
environments, and a property that needs a careful environment says so in its premise.

### ServiceFees, FeeLifecycle, ServiceFeesProofs

`FeeLifecycle` is the abstract specification: status, amount and refunded total of one fee, one
atomic step per business event, with the `VALID_TRANSITIONS` table. `ServiceFees` is the code:
`fee` is the row, `req` the requests, `invoices`/`emitted`/`acked` Stripe's side, `recorded` the
rows of `stripe_webhook_events`, `notices` the notifications; `applied` and `peak` are history
variables. `UpdateRead`/`UpdateWrite` are `update()` before and after its await, and so on;
`InvoiceRead`, `InvoiceCreate`, `InvoiceFinalize`, `InvoiceWrite` are `createAndSendInvoice`;
`WebhookSelect`, `WebhookInsert` and a `Handle...`/`Apply...` step are `processWebhookEvent`.
Stripe (paying, failing and refunding from its dashboard) is external: `PayInvoice`,
`FailPayment`, `DashboardRefund`. Refund requests carry positive amounts: the DTO of the local
refund has no validation of its own, and a negative amount is not modelled. Exchange-rate
columns are abstracted.

### PaymentSchedules, PaymentSchedulesProofs

`config`, `items`, `txns` are the three tables for one activity; ids are used once, so a
dangling id is visible. `createTransaction` and `applyTemplate` are READ COMMITTED: what they read
is committed, their own rows appear with the last step (`TxnCommit`, `ApplyCommit`). The only
lock kept is the key-share lock of an uncommitted payment on its item (`Unlocked`). The rest of
`ApplyCommit` is one step because the row of the configuration, or its unique index, makes two
of them wait for each other. "pending" stands for "overdue" too, which differs by the date;
`getParentInfo` is part of `TxnCheck`; `PlansFor(total)` stands for the validation of the amounts
against a total, the arithmetic of percentages being left to a later module.

### AuditedTransactions, AuditedTransactionsProofs

`holder` says for which request each pooled connection works. `Edits` (`createTemplate`,
`updateTemplate`) and `Applications` (`applyTemplate`) are the audited database transactions: they hold
one connection and take a second for the entry. `Removals` (soft delete of a template) hold one
at a time. The entry is committed by itself; after it `applyTemplate` still selects the configuration
(`ReadApplied`), and all transactions commit (`Commit`): either may fail, and the rows are rolled back
under an entry that stays. `failed` is a history variable: the part of its handler in which a request failed.

### FtpPool, FtpPoolProofs

`pool` is the array of entries (a client and `inUse`), `closed` the clients whose `closed` flag is set,
`running` the transfer on each client's connection, which survives a time-out of the promise.
`Created`/`Replaced` are the continuations of `createConnection` in `acquire` and in
`waitForConnection`, the latter with the index it computed before its await. The pool is made anew by each
run with `concurrency + 1` connections or the size asked for: `maxSize` is chosen from `Sizes`. The
FTP library is external: it closes a client that is given a second task while the first is
running. `Drain` happens when the sync is over.

### DeltaSync, DeltaSyncProofs

A run: `Ask`/`Pull`/`Read` are `getNextFile`, the queue of promises before the async generator;
`Check` is `isFileUnchanged` and the size limit, then `Download`, `Import`, `Track`. `ftp` is the
version of each file on the server, `content` what is in the database, `tracked` the rows of
`cruise_ftp_file_sync`. `listed` is what the directory listing said and `known` the snapshot of the
tracking rows. `listSailingFilesStream` passes over a directory it cannot list (`List`, which leaves `todo`
empty), and breaks only before its first file. Each version has a size and date of its own: a server that
rewrites a file without changing either is outside the model, and so are listings without dates, where
`isFileUnchanged` compares sizes only.

### CruiseSync, CruiseSyncProofs

`inst` holds the fields of each replica's orchestrator (`syncInProgress`, the cancel flag, the history
id), `lock` how often each database session holds the advisory lock (a session may take it more
than once), `job` the calls of `scheduledSync` and `runSync`. `Lock` and `Unlock` go to any
session the replica's statements `Reach`. `env.sessions` says what the pool of
`packages/database/src/client.ts` does with them: each connection keeps its session while the replica
lives ("kept"), sessions end under a living replica because a connection reached the driver's age limit
or broke ("ended", `SessionEnds`), or a transaction pooler, which the client looks for in its connection
string, hands any session to any statement ("shared", where they end as well). A replica that dies loses
its sessions and their locks, unless they are the pooler's. The check that the environment is production
is taken as passed.

### The trip: TripTree, Itineraries, ItineraryDays, Activities, Components, PortSchedules, ActivityForms, Trips, TripOrders, TripEditing, TripEditingProofs

The first ten modules are one specification, `TripEditing!Spec`. `TripTree` declares the tables (`db`, one
record, so that a statement is one update of it), the cascades of the foreign keys (`WithChildren`: the
rows below a row are those in every set of rows that is closed under children) and the request
slots; each of the other modules adds the operations of one service; `TripEditing` has `Init`, `Next`
and the properties. A request carries in `pc` the sequence of the steps it still has to do: an
operation puts it together from what the client sends (`Create`, `Update` and `Delete` of a component
are `base`, `details`, `price` steps of the base, detail and pricing services), and a step is one
statement. `env.operations` names the operations clients use.

* `Itineraries`, `ItineraryDays`: `itineraries.service.ts`, `itinerary-days.service.ts`, all operations.
  `env.dateIndex` says whether the unique index on the dates is there (see Disagreements).
  A client may send the position of a day with its create, and position and date with its update.
* `Activities`: `activities.service.ts`, and `activity-bookings.service.ts` as `BookActivity`. The row
  lock of `duplicate` is `Locked`: who writes the day, or inserts into it, waits. A client may send a position
  with create and update, here and in the base service of `Components`.
* `Components`, `PortSchedules`: `component-orchestration.service.ts` with `base-component`,
  `flight-segments` and the detail services, of which one stands for the others where they do the same.
* `ActivityForms`: one open form. `FormEffect` arms the timer, `...Autosave` fires it, `...Save` is the
  button; `SaveAnswered` is the answer. Each form differs in what lets its effect and button act.
  What is typed is left out, and the stored id stands for the state and for the ref that shadows it.
* `Trips`: `trips.service.ts`, the trigger of migration 0009 (`TriggerAllows`), and in `events` one entry
  per handler that was started and has not ended. `emit` returns at once; `HandlerStep` runs beside
  the requests; today is the last date. `update` spreads the whole body over the row (`Patched`): besides status
  and date a PATCH may change the contact, the group, `archived` and `published`, or send a null for the date,
  as far as `env.patches` lets it. `published` and the share `token` are columns of their own:
  `publishTrip` and `unpublishTrip` write both, a PATCH only the first.
* `TripOrders`: `trip-order.service.ts` from the snapshot to the mark, and `sendEmail`. The provider is
  external: it may take a mail and its answer may be lost, or the statement that marks the log fail.

Trip 1 owns the itinerary tree; other trips have none. One contact and one group exist, bulk requests
act for the owner of all trips, and trips are created as drafts or booked. `seen` keeps the trips of a bulk
request in no order.

### CruiseBooking, CruiseBookingProofs

`session` rows are named by the cabin they hold; `basket` and `booked` are Fusion's. The request slots
follow `addToBasket`/`createSession`, `validateSessionOwnership`/`canHandoffSession` (one read, then
decisions on what was read), `getBasket`, `removeFromBasket`, `cancelSession`, `completeBooking`. The
partial unique index on active sessions is the guard of `AddInsert`; the unique key of the idempotency
table is the guard of `BookReserve`. The "agent" is the user who made the session; a successful answer
without a reference is treated like a failure; `removeFromBasket` sets columns to `undefined`, which the
query builder leaves out, so `RemoveItem` changes no row. `trip` holds what `verifyActivityOwnership` asks:
which users it admits (`AccessChanges`) and whether the activity is there. `createSession` asks it after
the cabin is held (`AddVerify`), `completeSession` after Fusion booked (`CompleteVerify`; `refused` keeps the
bookings it turned away). The activity may be deleted at any time (`ActivityDeleted`): its sessions, records
and details go by cascade, and every statement that looks for one of them finds none.

## Runs

Every run finishes within a few minutes with two workers. A property is checked in the run that
can break it; `PROJECT.json` names for each a mutant of the code that does. Some properties are
conjunctions: `ScheduleSound` is `TypeOK` and `WholeSchedule`; `RowTruthful` is `PaidBeforeRefund`,
`NoticesTruthful` and `InvoiceIsLive`; `AuditSafe` is `NoLeak` and `AuditWrittenLast`; `PoolSafe` is
`TypeOK` and `OneHolder`; `StreamShared` is `TypeOK`, `OneReader` and `AccountsBalance`; `InstanceSafe` is
`TypeOK`, `OneSyncPerReplica` and `CancelWasAsked`; `BookingSafe` is `TypeOK`, `OneSubmissionPerKey` and
`RecordsTruthful`.

| Run | Expect | Instance | Shows |
|---|---|---|---|
| `fees_interleaved` | pass | 2 requests, 1 invoice, amounts {1, 2}; webhook and invoice handlers die | `TypeOK`, `EventAppliedOnce`, `RefundWithinPeak`, `RowTruthful` survive any interleaving |
| `fees_isolated` | pass | one request at a time, 2 invoices; local failures after a Stripe refund; fair | `Promise` (ServiceFees implements FeeLifecycle), `LedgersAgree`, `OneLiveInvoice`, `PaymentEventuallyApplied` |
| `fees_lost_webhook` | violation | a webhook handler may die; fair | `PaymentEventuallyApplied` fails |
| `schedules` | pass | 2 requests, 3 item ids, 2 payments, three environments | `ScheduleSound` (no dangling rows, whole schedules), `CacheFreshWithCare`, `SyncRepairs`, `NeverEmptied` |
| `schedules_lost_payment` | violation | two payments on one item | `CacheFresh` fails |
| `audit` | pass | an edit, an application, 2 removals, 3 connections; fair | `AuditSafe`, `AuditDoesNotBlock` |
| `pool` | pass | 3 downloads, 2 workers, pool size 1 or 3, 2 attempts; fair | `PoolSafe`, `NobodyWaits`, `DownloadsEnd` |
| `delta` | pass | 2 runs in turn, 2 workers, a changing file and one too big; fair | `StreamShared`, `SkipIsSafe`, `RunCatchesUp`, `RunEnds` |
| `sync` | pass | 2 calls of any kind, 2 replicas with 2 connections, 2 attempts, sessions kept, or shared and ended; fair | `InstanceSafe`, `ScheduledOnce`, `HistoryCloses`, `JobEnds` |
| `booking` | pass | 2 requests, 2 keys, up to 2 sessions, six environments | `BookingSafe`, `BookingsRecorded`, `OneBookingPerSession`, `FollowsLifecycle` |
| `itinerary` | pass | 2 requests at a time, 1 to 4 in all, the environments of `MCTripEditing!Every`; 2 trips, 2 orders, 4 itineraries, 10 days, 6 activities, 2 dates | `ItineraryRules`, `DayNumbers`, `SegmentsOfOneSave`, `NoParentCycle`, `CopiesInOrder`, `OneActivityPerForm`, `BookingRecorded`, `OrdersTruthful`, `TypeOK`, `RepeatsMakeWhole`, `TripRules` |
| `audit_unheard` | violation | one change of a group | `GroupChangesLogged` fails |

Bounds, and why they are enough. Two requests: every handler reads and writes single rows by key,
so a conflict is between two of them; a third adds another of the same. Slots are used again and
again, so that sequences of calls are not bounded (in ServiceFees, Stripe's events make two invoices and
amounts up to 2 allow a partial and a full refund). Three item ids allow a
schedule to be replaced by one of another length while a payment is recorded; ids and payments are the
only bound there. AuditedTransactions needs one connection more than transactions to be safe and as many
to deadlock. In FtpPool a third download uses what the first two left; pool sizes below and
above the number of workers are the two cases of the code (its default is workers + 1), and two attempts
are a first and a last one. DeltaSync needs a second run to use the rows of the first, and a version that
appears in between; `MaxVersion` bounds the server's changes. CruiseSync needs two callers on the same
and on different replicas, and a session that is not the one that holds the lock; shared sessions that end
include what sessions that only end do. `MaxSessions` bounds
the cabins put into a basket: a second session supersedes the first.

TripEditing has too many operations to let all of them meet, so each environment gives one group of
operations rows to work on: every operation runs alone with a death at any step, every operation that
reads before it writes overlaps with one that removes or changes what it read, the days see sequences
of three calls, the itineraries of four. `rules.requests` bounds the calls of a client, `MaxItins`,
`MaxDays`, `MaxActs`, `MaxTrips` and `MaxOrders` the rows ever inserted, `MaxDate` = 2 the length of a
cruise or tour: two dates are a first and a next one, two packages and an activity close a cycle. A PATCH
of a trip writes one of the columns of `env.patches` next to the status and the date, with it the
status that emits another event or none; a client sends the first position, or none. Rows
that do not fit under a bound are simply not inserted: the request stays where it is (`InBounds`, a
conjunct of `Next`).

Symmetry is used where no liveness property is checked. Deadlock checking is off where the system may
rest: fees with everything refunded and no request, ids used up, calls that happen once, a trip nobody
edits any more.

### Fairness

* ServiceFees: a request that was taken goes on (`WF` on its steps: Node serves its continuations and
  awaited calls return or throw), and Stripe delivers a payment event again until a delivery was answered
  with 2xx (`SF`, the retry policy of the sender; that the slot is free now and then is why it is
  strong). `Die` and the environment get no fairness.
* AuditedTransactions: a request that can take its next step does. A wait for a connection has no time
  limit in the client, so being blocked is a real end.
* FtpPool, DeltaSync, CruiseSync: timers fire, and a download or listing ends in an answer or its time
  limit, which the code sets for each.
* TripEditing states none: its promises are about what is true after a statement, or when all is done.
* CruiseBooking: fairness exists only for the two liveness promises under "Disagreements".

## Disagreements with the documentation

Three are runs, and findings in `PROJECT.json`: a payment lost by a half-handled event
(`fees_lost_webhook`), a payment missing from the cached total (`schedules_lost_payment`), and audit events
nobody hears (`audit_unheard`). The models show more of them. The first five below have a cfg of their own, whose
property TLC finds violated (`tlc -config trip_gone.cfg MCTripEditing`); each of the others is reproduced by
checking the property named with the values given.

| What the code does | Property | Values |
|---|---|---|
| An audit entry, in a table nothing is deleted from, stays when the transaction it reports is rolled back: its last read or its commit fails (`payment-schedules.service.ts:1307-1320`; `payment-audit.service.ts:5`, "maintaining an immutable record of all payment schedule changes") | `AuditReportsCommitted` | `audit_undone.cfg`: an edit, an application, a removal, 3 connections |
| Audited transactions hold a connection each and wait for a second one of the same pool (`payment-audit.service.ts:59`; `:78`, "Audit logging should not block business operations") | `AuditDoesNotBlock` | `audit_starved.cfg`: 2 edits, 2 connections; fair |
| A completion is refused after Fusion booked: the activity gets no reference and the session stays active (`booking-session.service.ts:259`; `booking.service.ts:359`, "Complete session and store booking reference") | `BookingStored` | `booking_forbidden.cfg`: 2 requests in turn, users lose access |
| An import goes on when the session of its advisory lock has ended, and another replica imports too (`import-orchestrator.service.ts:1001`; `:926`, "Uses PostgreSQL advisory lock to prevent concurrent execution across replicas") | `OneImport` | `sync_lost_lock.cfg`: 2 cron jobs, 2 replicas, sessions end |
| A trip that is booked between the check of its status and the deletion by id is removed (`trips.service.ts:499`; `:465`, "Only trips with status 'draft' or 'quoted' can be deleted") | `OnlyDraftsRemoved` | `trip_gone.cfg`: 2 requests, 1 trip |
| Two fee handlers interleave into a transition the table forbids (`service-fees.service.ts:218`; `financials.schema.ts:212`, "server-side enforced transitions") | `FollowsTransitions` | local operations, two requests, not isolated |
| A payment that arrives after a local cancellation makes a cancelled fee paid (`stripe-invoice.service.ts:314`) | `FollowsTransitions` | invoice, cancel, webhook, isolated |
| `charge.refunded` handled before `invoice.paid` finds no fee by payment intent and is done with: the refund is never recorded (`stripe-invoice.service.ts:367`) | `LedgersAgree` | as `fees_isolated`, with `"dashboardRefund"` in `External` |
| Two invoice calls make two live invoices (`stripe-invoice.service.ts:69`, "only create invoices for draft") | `OneLiveInvoice` | invoice, two requests, two invoices |
| An amount changes after the fee was sent (`service-fees.service.ts:132`, "only in draft status") | `AmountFrozenAfterDraft` | update and send, two requests |
| Deleting a refund can break the check constraint in the sync that follows, and the cache stays stale (`payment-schedules.service.ts:900`) | `CacheFresh` | create, createTransaction, deleteTransaction, refunds, isolated |
| `update()` is no transaction although its comment says so (`payment-schedules.service.ts:224`): torn or mixed items | `WholeSchedule`, `NeverEmptied` without their premises | update, two requests or faulty |
| A template is validated against the total the caller sent, not the price (`payment-schedules.service.ts:1172`) | `WholeSchedule` without its premise | apply, `TemplateTotals` with another total |
| A template of type guarantee leaves a schedule without a guarantee (`payment-schedules.service.ts:1240`) | `GuaranteeBacked` | apply |
| Items with payments are replaced, and the payments go with them; the locking methods are stubs (`payment-schedules.service.ts:1464`; `activity-pricing.schema.ts:149`, "lock items once paid") | visible in `Cascade` | update |
| Concurrent `acquire` calls outgrow the pool (`traveltek-ftp.service.ts:63`) | `PoolBounded` | 2 downloads, 2 workers, size 1 |
| Two waiters replace the same closed entry: the first client is never closed (`traveltek-ftp.service.ts:150`) | `DrainClosesAll` | 3 downloads, 2 workers, size 1 |
| A client is released while its transfer is still running (`traveltek-ftp.service.ts:647`) | `CleanConnection` | `Timeouts = TRUE`, 1 worker |
| Two overlapping runs import an older download last, and later runs skip the file (`import-orchestrator.service.ts:641`) | `SkipIsSafe` | 2 runs, `Isolated = FALSE` |
| A dry run leaves its history row on "running" (`import-orchestrator.service.ts:159`) | `HistoryCloses` without its premise | dry run |
| A session is updated by id whatever its status (`booking-session.service.ts:214`) | `FollowsLifecycle` without its premise | add, cancel, book, two requests |
| `removeFromBasket` leaves the hold in the row (`booking.service.ts:257`) | `HoldIsReal` | add, remove, book |
| A request that dies leaves its key pending, and every retry is told that one is in progress (`booking.service.ts:320`) | `ConflictMeansInProgress` | add, book, one request, `lostReplies` |
| A process that dies after the booking was recorded leaves the activity without its reference (`booking-session.service.ts:268`) | `BookingBecomesDurable` | add, book, one fault, `FairSpec` |
| A session whose completion was refused stays active, and another key books it again (`booking-session.service.ts:259`) | `OneBookingPerSession` counting `booked`, not `booked \ refused` | as in `booking_forbidden.cfg` |
| The advisory lock is released on another session than took it, and stays (`import-orchestrator.service.ts:1019`, "Release PostgreSQL advisory lock after sync completes") | `LockFreed` | `Kinds <- Scheduled`, `Environments <- NoTrouble`, one replica with 2 connections, 1 attempt, `FairSpec` |
| Deleting a package deletes its activities, by the cascade of the foreign key (`packages/database/src/migrations/20260110000000_prod_baseline.sql:3592`, `activities.service.ts:822`; `apps/admin` `packages-list.tsx:786`, "Linked activities will be unlinked but not deleted") | `DeletedPackageKeepsChildren` | `Environments <- PackageWithChild` |
| Nothing calls `expireStaleSessions` (`booking-session.service.ts:510`) | `StaleSessionsExpire` | add, lapses, `FairSpec` |

The raw SQL of `verifyActivityOwnership` (`booking-session.service.ts:101-125`) and of `canHandoffSession`
(`:322-338`) names a column `ia.day_id` and, the first, a table `profiles`; the schema has `itinerary_day_id` and
`user_profiles` (`packages/database/src/schema/activities.schema.ts`, `user-profiles.schema.ts`). Against the
database of the migrations both statements are refused, and with them every session and every completion.
`CruiseBooking` takes the query with the names of the schema.

The trip models reproduce further behaviour that a maintainer may not expect; a property with a
premise, named in brackets, says what holds instead:

* The unique index on (itinerary, date) is only in a migration outside the journal and the baseline
  (`20251215000000`). Without it `ON CONFLICT DO NOTHING` (`itinerary-days.service.ts:347-352`) never
  conflicts and two generations make a date twice (`ScheduleWhole` needs `env.dateIndex`).
* Days prepended before a pre-travel day 0, and a day found by date and inserted before the first one,
  repeat a number (`DayNumbers` covers them where `env.numbered`).
* `generateCruisePortSchedule` and `generateTourDaySchedule` delete the entries before they check the dates
  (`component-orchestration.service.ts:2807`, `:2437`): a refused generation leaves none.
* `updateFlight` with an empty list keeps the old segments (`flight-segments.service.ts:39`; the comment at
  `component-orchestration.service.ts:320` speaks of replacing them).
* The endpoints of components set a price without the package guard; `create` nests packages, which `link`
  refuses; two overlapping links may close a cycle (`NoParentCycle` needs isolation); a package without a
  day gets neither details nor a plan.
* A form whose button does not wait for its timer makes two activities (all but the transportation form,
  `transportation-form.tsx:776`; `OneActivityPerForm`). A create that fails after its base row is tried
  again as a new create: two rows.
* The log entry of a deleted trip refers to the trip and is refused by its foreign key
  (`activity-logs.service.ts:137-149`): deletions of trips are never logged, and the entries of the trip go
  with it.
* Overlapping handlers of a booking may overwrite the first booking date (`contacts.service.ts:431`);
  a status the trigger refuses ends `bulkChangeStatus` half way; it emits events for a trip that was deleted meanwhile
  (`TripRules` needs isolation for these).
* `update` of a trip writes whatever the body holds (`trips.service.ts:388`): a null clears the date of a booked
  trip, and a contact set on a booked trip gets no first booking date, for `trip.booked` is emitted
  only when the status changes (`BookingRecorded` needs `env.patches` without the two); `isPublished` set
  without the link gives a published trip that has none, which `publishTrip` then leaves as it is, and
  cleared leaves a link that `publishTrip` replaces (`TripRules` speaks of a trip that is published with
  its link, as long as it is published).
* `finalizeTripOrder` writes by id (`trip-order.service.ts:468`): an order sent meanwhile becomes
  finalized again (`OrdersTruthful` needs isolation for that part).

## Proofs

The modules named `...Proofs` hold the theorems of a component, for every value of its constants: any
sets of requests, rows, workers or replicas, any amounts, every environment. `PROJECT.json` lists the
theorems; what else is there are the lemmas they rest on. Each proof has an inductive invariant
(`IInv` in most modules), a lemma that `Init` implies it, a lemma that a step preserves it with one step per
action of `Next`, and a temporal step. TLC found every inductive invariant true on the instance of the
component's run before it was proved. The assumptions are those named `...Assumption` in the modules: null
values are no members of the sets they extend, bounds and amounts are naturals, flags are flags, and the sets
that are counted or summed over are finite (`Txns`, `Jobs`, `Downloads`, `Workers`). `MaxDate` is not 0, the value
for "no date": today is the last date. The rows an environment of TripEditing starts with fit the instance and
refer to rows before them, and the instance has the trip of the itineraries; where requests do not overlap, none
did before, so that one itinerary at the most is approved at the start (`StartAssumption`).

Some theorems have a hypothesis, either in the theorem or as the premise of the property: that requests or runs
do not overlap (`Isolated`, `env.isolated`), that an answer is not lost, that a total is what the price says.
Where the code does not guarantee it, "Disagreements" names the counterexample that TLC finds without it.

| Module | Theorems | The inductive invariant, and why it takes one |
|---|---|---|
| `ServiceFeesProofs` | `TypeCorrect`: `[]TypeOK` | `Typed`: an event is only handled by a delivery that recorded it, and a slot's invoice exists before it is written |
| | `AppliedOnce`: `[]EventAppliedOnce` | `OnceInv`: no two slots between the insert and its effect have the same event, and none an applied one, because `WebhookInsert` records the event in the step that passes the unique index |
| | `NeverOverRefunded`: `[]RefundWithinPeak` | `PeakInv`: every total about to be written, in a slot or an event, was bounded when it was computed by an amount the fee had then; no status and no isolation is needed |
| | `RowIsTruthful`: `[]RowTruthful` | `RowInv`: what a slot has read may be stale, but what it is about to write (a paid date, an intent, an invoice that can be opened) was true of Stripe when read and stays so |
| | `OneInvoiceToPay`: `[](Unbroken => OneLiveInvoice)` | `LiveInv`: with one request at a time, every invoice at Stripe is on the fee or in the hands of the request that creates it for a draft |
| | `LedgersAlwaysAgree`: `[](Careful => LedgersAgree)`, and `KeepsItsPromise`: `Spec => Promise` if `Careful` | `KeptInv`: row, Stripe and events differ by exactly what is in flight; with it every step of the handlers is a step of `FeeLifecycle` or none, and its initial states are initial there: the refinement |
| `PaymentSchedulesProofs` | `SchedulesAreSound`: `[]ScheduleSound`; `CachesStayFresh`: `[]CacheFreshWithCare`; `PaymentsRepair`: `SyncRepairs`; `SchedulesNeverEmptied`: `NeverEmptied` | `IInv`: the tables link and the check constraint holds (`Typed`), a request nothing overlapped is the only one (`Lonely`) and has read what the tables say (`Informed`), the items add up (`Whole`), and a stale total is that of a deletion whose sync is still to come (`Kept`) |
| `AuditedTransactionsProofs` | `AlwaysSafe`: `[]AuditSafe` | `IInv`: what a request holds is as many connections as its point in the handler uses (`Counted`), and one with an entry is past its rows, none of which failed (`EntryLast`) |
| `FtpPoolProofs` | `ConnectionsAreSafe`: `[]PoolSafe`; `NobodySleeps`: `[]NobodyWaits` | `IInv`: entries are distinct connections and those in use are what the downloads hold, each its own (`Fits`), every connection was made for an attempt of its own (`Counted`), and no more downloads are active than there are workers; a pigeonhole lemma then finds a free entry in a full pool |
| `DeltaSyncProofs` | `RunsShareTheStream`: `[]StreamShared`; `SkippingIsSafe`: `[](Isolated => SkipIsSafe)`; `RunsCatchUp`: `[](Isolated /\ Workers # {} => RunCatchesUp)` | `IInv`: the queue is made of the workers that wait, each once (`Queued`), what was found is counted or in a worker's hands (`Balanced`, `Handed`), nothing known of a file is newer than the file (`Past`, `Old`), and runs that do not overlap only add to what is imported (`Apart`) |
| `CruiseSyncProofs` | `InstancesSafe`: `[]InstanceSafe`; `CronJobsAlone`: `[]ScheduledOnce`; `HistoryIsClosed`: `[]HistoryCloses` | `IInv`: the flag of an instance is set by the one run on it (`Owned`); the advisory lock is on one session, while sessions are kept nested at least as deep as there are cron jobs that have not unlocked (`Locked`), so that an unlock on the wrong session leaves it locked, never free; a row "running" is the one its run will finalize (`HistoryTold`) |
| `CruiseBookingProofs` | `BookingsAreSafe`: `[]BookingSafe`; `BookingsAreRecorded`: `[]BookingsRecorded`; `SessionsBookedOnce`: `[]OneBookingPerSession`; `SessionsFollowLifecycle`: `FollowsLifecycle` | `IInv`: a pending key is in the hands of one request (`Keyed`), a booking without a record, or not refused and not at the activity, is in the hands of its request (`Kept`), a request alone knows the session as it is (`Alone`), and a booked session is completed, about to be, or was refused (`Single`) |
| `TripEditingProofs` | `FlightSegments`: `[]SegmentsOfOneSave` | `Framed`: which steps a request of each kind can still have before it, what a statement of each service may touch, and that a save holds the segments of one save; the second of two inserts is refused, so no activity mixes two |
| | `TruthfulOrders`: `[]OrdersTruthful` | `OrderBook`: an order without a trip is none, no two mails in flight are one, a send past `prepare` has an order that is no draft and past the provider one that was taken (`OrdersOk`); with requests that do not overlap and no fault an order that went out is marked or in the hands of the request that marks it (`Marked`) |
| | `TripsBookedTruly`: `[]BookingRecorded`; `TripsFollowRules`: `TripRules` | `TripBook`: rows follow the workflow, and keep their contact where no client changes it, so what `find` saw of a trip still says whether a write books it (`TripsOk`); a trip is in the log or its handler runs, and a booking has reached its contact, is told, or is in the hands of an update (`Recorded`); without overlap, the bookings told at one time have one date and a request finds what it read (`Careful`) |
| | `FormsMakeOneActivity`: `[]OneActivityPerForm` if `FormsAlone` | `OneForm`: while the form has no id, one request of it is in flight at the most, and the steps that request still has are ordered: the insert before everything that needs its row, the details once, the segments after the old ones were cleared; so the activity of the form is the one its request inserted, and an answer hands over its id (`Saving`) |
| | `CopiesKeepOrder`: `[]CopiesInOrder` if `CopiesAlone` | `CopyBook`: two copies never hold one day, and between its lock and its insert a copy knows a position above every activity of its day; whatever else runs meanwhile leaves places alone or frees them |
| | `LinksMakeNoCycle`: `[]NoParentCycle` | `ParentBook`: new rows refer to rows with smaller ids, details and arguments of requests name rows that were made (`Growing`); when requests do not overlap, a link that passed the check still finds no path from the package up to the child (`Linking`), and removals, copies and moves only shorten paths |
| | `ItinerariesFollowRules`: `[]ItineraryRules` | `PlanBook`: when requests do not overlap, one of create, update and remove is in flight at the most (`Planned`); one that is about to write an approval has archived the others, and one that is about to delete has counted another itinerary (`ItinRow`); nothing else approves or takes away an itinerary but the removal of its trip |

`Unbroken` is `Isolated` without an `invoice` request that dies half way; `Careful` also leaves out the local
refund and cancellation, which the webhook's ledger does not know of, and the dashboard's refunds (`refund`,
`cancel`, `dashboardRefund`): the environment of `fees_isolated`. With any of them "Disagreements" has a
counterexample, or Stripe's side knows nothing of the step.
`Workers # {}` in `RunsCatchUp` is needed: a run without a worker ends and has imported nothing (`concurrency` is at
least 1 in the code). The premises of the properties of `PaymentSchedules` are repeated in `CanAddUp` and `CanCache`.

The library's induction theorems are out of the provers' reach, but a statement about all finite sets need not
be: `PaymentSchedulesProofs` shows that two sums agree, and what a sum is when an element is added or renamed,
by looking at a smallest subset for which it would fail (`Smallest`, from the well-founded order of the
subsets of a finite set); `FtpPoolProofs` counts a full pool with the theorems on finite sets.

The premises of two of the theorems about TripEditing name what the code does not do by itself:
`FormsAlone` says that nobody else edits the plan while a form is open on a new activity, and that no request
of the form dies (the form would not hear of an activity that was created, and create another), `CopiesAlone`
that nobody places activities in another way while copies are made (create and move read the highest position
without the lock of `duplicate`) and that positions are distinct at the start. `MCTripEditing` assumes both of its
environments, so that TLC checks that the instances meet them. `NoParentCycle` needs no premise but the one it has,
that requests do not overlap: two links that do can close a cycle.

`LinksMakeNoCycle` reasons about trees of any depth without induction: a row below itself would be in every set that
is closed under children, so it is enough to give one such set without it: the rows outside a set that holds
all its ancestors (`Nested`).

Left to model checking: liveness and fairness (`PaymentEventuallyApplied`, `AuditDoesNotBlock`, `DownloadsEnd`,
`RunEnds`, `JobEnds`), which the provers cannot express with ENABLED; the runs that expect a violation; and of `TripEditing`
`TypeOK`, `DayNumbers` and `RepeatsMakeWhole`. `TypeOK` with its references between tables, and `DayNumbers`,
need an invariant of every step of sixty kinds of requests at a time (a day that is renumbered
in several statements, a row that goes with its parent between two of them); `RepeatsMakeWhole` also the
exact rest of the steps of a save or a generator at every point, and counts of the days and entries of each date.
No module declares a RECURSIVE operator, so every one can be proved about.

## Not modelled

Listing and reading endpoints, currency conversion, wording of notices, the contents of sailings and audit
entries, deposit and percentage arithmetic, the FTP directory listing and the single-connection download,
passengers and cabins of a booking, authorization guards. Of the trip: `duplicateTrip`, `bulkCreate`, trip
groups themselves, travellers, insurance, media and storage clean-up, the document of an order, the mail of
an order that is not stored, what is typed into a form, and the copies of details in `duplicate` beyond their
being there. `PROJECT.json` gives the reason for every component that has no module.

Most of the repository is out of reach for a specification of this kind: the bulk of it is React
pages and components, response mapping, DTOs, schema declarations, seed data and supplier JSON, which keep
no state that a sequence of steps could get wrong. The map therefore covers a small share of the lines, and
the services that change shared state are where it is dense.

## Plan

1. Done: ServiceFees with FeeLifecycle and its proofs; PaymentSchedules; AuditedTransactions with its
   proof; FtpPool and DeltaSync; CruiseSync; CruiseBooking; the trip (ten modules).
2. Pure algorithms against reference definitions: ScheduleMath (deposits, rounding of template items,
   validation of dates and totals) and TravellerSplits (equal and custom splits).
3. FusionApi (retries, shared token refresh) composed with CruiseBooking; PaymentTemplates (default flag,
   versions); ApiCredentials (rotation and rollback); Stripe Connect (find or create a customer);
   `duplicateTrip` and trip groups beside Trips.
4. Proofs. Done: every safety and action property that a passing run checks of ServiceFees (with the
   refinement of FeeLifecycle), PaymentSchedules, AuditedTransactions, FtpPool, DeltaSync, CruiseSync and
   CruiseBooking; of TripEditing the segments, the orders, the trips, the forms, the copies, the links and the itineraries. Left:
   `TypeOK` and `DayNumbers` of TripEditing, `RepeatsMakeWhole` along the steps of one request.
