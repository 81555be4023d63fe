# Verification of the OmniRetail (Voltix) platform

TLA+ models of the retail platform in `src/`: a TypeScript monorepo of an HTTP
API, a background worker, a register and several front ends over one PostgreSQL
database. The models are translated from the code; TLC checks them on small
instances, and TLAPS proves their safety properties for every instance.

Run from this directory: `tlc -workers 2 -config Checkout.cfg MCCheckout.tla`,
`tlapm CheckoutProofs.tla` (likewise `FrontEndProofs`, `StockProofs`,
`RegisterSyncProofs`, `NotificationProofs`, `OpsProofs`, `BackOfficeProofs` and
`SumLemmas`). `PROJECT.json` lists components, runs, mutants, the lines every
definition stands for, findings, hazards and theorems.

## 1. The system

All durable state of the server is rows of PostgreSQL (`packages/db/sql`), one
tenant per row-level-security scope. An API handler is one transaction, or a
few, opened by `Db.withTenant` (`apps/api/src/db.ts`) at READ COMMITTED: each
statement sees what was committed when it began, `FOR UPDATE` makes a
transaction wait for another one's rows, and a thrown error rolls everything
back. Components interact in three ways: by the rows they share, by the `outbox`
table, and by calls to outside services (payment gateway, courier, mail server,
marketplaces), some of them made while a transaction is open. Registers and
browsers keep state of their own and lose answers.

| component | state | what is hard | what makes it correct |
|---|---|---|---|
| checkout `sales/webOrderService` | `sales_order`, `stock_reservation`, `payment` | two orders for the last goods | goods of an order are held exactly once |
| payments `payments/*` | `payment_intent`, `webhook_delivery`, outbox | webhooks lost, repeated, late, before the commit of their intent; gateway called under a lock | one charge and one `order.paid` per order; a recorded delivery was applied |
| reconciler `worker/paymentReconciler` | exceptions; a batch in memory | unlocked list, crash between steps, race with the webhook | repairs what the gateway decided, or tells a human |
| janitor `worker/reservationJanitor`, fulfilment `sales/fulfillmentService` | order, stock, reservation | race with payment and staff | unpaid orders end; goods released once; final states stay |
| shipping `shipping/*` | `shipment`, events | the courier repeats, skips and revises statuses | a returned parcel is booked once and is visible |
| refunds `sales/refundService`, credit notes `einvoice/creditNoteService` | `refund`, `approval`, `credit_note` | totals read before the lock; courier returns the same goods | never more than was captured; money, status and tax agree |
| COD `domain/codGate`, `sales/codService` | policy, outcome rows, advance | policy changes, sparse history, two witnesses of one door | never worse for the better customer or the smaller order; first outcome stays |
| till queue `apps/pos/src/lib/saleQueue` | two lists in local storage | flush and tender interleave, lost answers, reload | no sale lost, none booked twice |
| counter sales `sales/salesService`, prices, wallets `crm/*`, cash sessions | order, balances, `cash_session` | wallets spent by two sales, replays, close during a sale | wallets are ledgers; the drawer is accounted for |
| notifications `notify/notificationService`, `worker/notificationDelivery`, `notify/smtpTransport` | `notification`, attempts; one SMTP conversation | overlapping runs, death mid-send, lost acceptance, coalesced replies | not sent twice, explained by its log; a verdict says no more than is known |
| stock ledger `inventory/pgInventory`, `domain/src/inventory` | `stock_movement`, `stock_level`, `stock_unit` | unit rows and ledger rows are kept in step by code only | units and buckets agree |
| stock operations `inventory/opsService`, `receivingService`, `unitService` | transfers, counts, adjustments | stale count snapshots, approvals spent once | counts close the gap; losses are signed off |
| warehouse `wms/wmsService`, purchasing | bins, pick lists, purchase orders | concurrent putaways; a receipt is three transactions | bins within the goods; order and stock reconcilable |
| outbox `worker/relay`, `consumer`, `channelSync`; import `worker/orderImport`; connectors | outbox rows, jobs, listings, cursors | several relays, redelivery, out-of-order pushes, restarts | nothing dropped; the last quantity wins; imported once |
| register `pos-core` | command log, cursor, mirror | awaits between read and write, lost answers, feed gaps | one verdict per command; the overlay is what is pending |
| accounting, tax, reverse charge | declarations, invoices, notes, journal | rounding, replays, revocation between read and commit | balanced, one entry per source; VAT waived only when supported |
| catalog `catalog/productService` | products, variants | edit of the tracking mode against the first receipt | movements fit the mode; listed products passed the gate |
| accounts `auth/service`, `customer/customerAuthService` | users, sessions, links, second factor | two uses of one token or link, half registrations | sessions go back to one act of signing in |
| events `analytics/eventService`, audit `audit/auditService` | append-only tables | replays, late batches; chain appended by many writers | counted once and in order; the chain verifies |
| storefront cart `storefront/lib/cart`, checkout page | local storage, memory of each tab | two tabs, lost answers, no key on the order | kept or ordered, once |
| shopper's session `storefront/lib/customerSession`, account pages | local storage, memory of each tab, requests under way | late refusals, several tabs, sign-out during a request | a page shows the orders of its own session; only a refused session is dropped |
| error reporting `observability/errorReporter`, `main.ts` | reports in flight | the process must end while reports are delivered | every failure is accounted for; a crash waits for its own report |
| till sign-in and setup `apps/pos/src/App.tsx`, `lib/session`, `lib/tenantConfig` | storage of the register; screen, rate, setup under way | what is stored outlives the session that stored it; setups fail; reloads | sells at its tenant's location and rate; never stuck |
| migrations `packages/db/src` | `schema_migrations`, advisory lock | releases boot at once, die halfway | each file once, in order; up means applied |
| limits `observability/rateLimit`, `ai/gateway` | counters in one process | bursts on both sides of a renewal, callers that share a bucket | bounded; nobody turned away below the limit |

Section 6 says what is left out.

## 2. What is modelled, and how it maps to the code

A database transaction is one action; where it waits for an outside service
with a row locked, or reads something without a lock that another transaction
may change before it writes, it is two. Work outside transactions is one action
per await. Guards are the code's conditions and early returns; an operation the
code refuses changes nothing and is not an action. Database constraints are
guards of the transactions they would roll back. Names of variables and actions
are those of columns and methods.

Orders and money:

- **`Checkout`** composes checkout, payments, reconciler, janitor and
  fulfilment, which work on the same rows. `provider` is the gateway's own
  record; `recWork` is where each reconciler is with each intent. `applyWebhook`
  has three branches (`AlreadyFinal`, `CloseFailed`, `Capture`) that the webhook
  route and the reconciler share under different idempotency keys. `lapsed`
  stands for the clock: the orders whose active reservation is past its
  `expires_at`. A run of the reconciler reads the oldest live intents, no more
  than `BatchLimit` (`Batched`; 100 in the code): those it flags stay live and
  are read again. Intents are numbered in the order of their rows (`Older`).
- **`OrderContract`** is the abstract specification it implements: goods are
  held, then handed over or given back, once; an order is charged at most once.
- **`AfterSale`**: one order after its payment: fulfilment, shipment, courier
  polls, return to origin, outcomes, refund requests and decisions, credit notes.
  A refund request is two steps, since the totals it tests are read by the
  statement that then waits for the order row; the trigger of
  `026_refund_within_capture.sql` adds up again under the lock. What is to go
  back into stock is what the request says, up to one more than was sold
  (`RestockQty`), and the approval posts it whatever has become of the unit.
- **`CodGate`**: policy, counted history and the decision on each new order.
- **`SaleQueue`**: the till's two callers (tender and flush), the two lists, the
  flush's own copy, requests in flight, the server's idempotent booking.
- **`Till`**: `createPosSale` with its checks in the code's order, prices (list,
  customer's list, quantity tier), the discount approval, the three wallets, the
  phone, the open cash session read without a lock (`Book` then `Commit`), and
  replays; cash sessions opened and closed blind. The payments of a bill are
  checked against its total before anything is read (`PaymentsMatch`).
- **`TaxRules`**, **`Books`**: rounding of VAT, the refusal rules of the reverse
  charge, declarations, invoices, credit notes prorated per line, postings. A
  credit note multiplies by a share that is a double: `ShortOfHalf` names the
  amounts and shares whose product falls short of the half it stands for, and
  `Prorated` rounds those down (15 of 22 pieces of a tax of 11 are 7, not 8).
- **`ShopperCart`**: tabs that share a storage and the checkout page.
- **`ShopperSession`**: the session in the same tabs. Each reads the storage when
  it opens and then trusts its memory; what an account page asked may be
  answered after the shopper signed out and in again. The server's side of the
  sign-in is in `Accounts`.

Stock:

- **`StockLedger`**: movement shapes, rules, approvals and unit transitions as
  operators, used by **`UnitLife`** (serialized units and their buckets) and
  **`StockRoom`** (counted stock; `shelf` is what is really there). In
  `UnitLife` three operations move a quantity past the rows of the units: the
  approval of a refund, which posts a return whatever the unit's row says
  (`RefundUnit`, `RefundQuantity`), the count of a serialized variant
  (`CountMore`, `CountLess`), and a repair that takes its unit from the returns
  shelf. `drift` adds up by how much.
- **`Warehouse`**: bins and pick lists as an overlay of the ledger.
- **`Purchasing`**: a receipt as three transactions with a crash between. A
  request may list a line twice, and of a `Serialized` line another quantity
  than it has scanned units (`Receipts`): the order books the last quantity,
  stock takes in all of it. `crooked` has the lines where the two differed.
- **`ChannelFeed`** and **`OrderImport`** (which extends it): outbox, relays,
  queue, consumer, push; pull, check, import, acknowledge, restart. The jobs of
  a batch are queued in the order of its ids (`InOrder`). A job whose statement
  throws outside its `try` (`ReadFails`, `RecordFails`), or that stalls a second
  time, has failed for good and is in `givenUp`.

Registers and records:

- **`RegisterSync`**: `append` with its two awaits, the overlay, push, pull and
  rebuild; the server inserts a movement (and takes its number) before it
  commits it. `Replay` gives the levels of numbered movements in closed form,
  since sales add up in any order and the phone is as its last movement left
  it; `Rebuilt` goes through the overlay in its order. What the server says of a
  command is marked in one step and dropped from the overlay in another, with an
  await between (`marked`); a sync that fails there leaves it in the overlay
  (`abandoned`). It implements **`CommandContract`**: a stored command gets one
  verdict at most, and only what was refused is shown as refused.
- **`NotificationDelivery`**: rows and log, overlapping runs. Its outcomes of a
  send are the verdicts of **`MailSession`**, the SMTP conversation.
- **`Catalog`**: products, variants, the publication gate, and an edit of the
  tracking mode beside the first receipt.
- **`Accounts`**: a registration in its three transactions (tenant; owner and
  roles; session), refreshes, the second factor, sign-in links, and whatever
  else makes customers: orders that come with an address, imports, the clerk.
- **`EventLog`**: the inserts of a batch one after the other (`Recorded`) and the
  funnel as the window query computes it (`Reached`, `Chain`).
- **`AuditTrail`**: the append in its two statements and the verification. A hash
  of the chain is modelled by what went into it, the sequence of entries. An
  entry stands for the columns that are hashed.
- **`ErrorReports`**: reports beside the failures they are about, flushes with
  their time limit, and the ways the process ends. `thrown` holds failures whose
  report could not be written.
- **`RegisterSetup`**: sign-in and setup of the till, step by step, for tenants
  that follow one another at one register. A rate, a location or a device is
  named by its tenant. It has one window, as the desktop shell has.
- **`Migrations`**: the runners of processes that boot with different releases.
  A file is known by its name, as in `schema_migrations`; two files of different
  releases may have one `Number`. A connection that dies gives its lock and its
  transaction back.
- **`Limits`**: token buckets over a clock, and the daily budget of calls to the
  language model, both in the memory of one process. A restart, which forgets
  them, and shoppers' sessions, with a bucket each, are left out.

Totals over rows are sums over finite sets. **`Sums`** defines such a sum as the
size of a pile, and a sum of integers (`NetOf`) as what lies above zero less
what lies below, so that the provers can reason about totals; `SumLemmas` has
the laws.

History variables are marked `(history)` or explained where they are declared.
They record what a property needs to say precisely where the code's guarantee
ends: `overlapped`, `straddled`, `overlap`, `crooked`, `drift`, `settled`,
`abandoned`, `reenrolled`, `flipped`, `overtaken`, `trouble`. What lies beyond,
the property does not claim; where the sources do claim it, section 3 says so.

Abstractions that matter to a reader:

- Time is left out: a reservation may lapse, a message may be due, a claim may
  be stalled and a link may expire whenever the code could find it so.
- `AfterSale` works with one order, one line, and a capture of fixed size, so
  `HistoryStays` follows one order. In
  `Checkout` the gateway settles an intent once; money taken on an intent whose
  transaction rolled back is outside the database and the properties.
- `UnitLife` leaves out `POST /v1/inventory/movements`, through which any
  movement can be posted without its unit.
- `RegisterSync` uses the in-memory stores of `pos-core`, so a register does not
  restart; a movement has the same id in the mirror and on the server. (The code
  names them `<id>:<i>` in the mirror and by a digest on the server; `rebuild`
  skips nothing then, and discarding the overlay at the acknowledgement is what
  prevents double counting. That discard is modelled.)
- `ShopperCart` stops at the first thing the code does not guard against: two
  tabs disagree, the storage is full, the cart changes or is sent again while an
  order is under way, or the answer of a placed order is missed. Beyond it
  nothing is promised and nothing claimed.

## 3. Runs

`MCFrontEnds`, `MCStock`, `MCQueues` and `MCBackOffice` check several independent modules in
one run: `desk` chooses, in the initial state, the part that moves, and the
others keep their initial state. The parts share no variables (`OrderImport` and
`ChannelFeed` do, and are one part), so every reachable state of the product is
one reachable state of each part, and an invariant or an action property of a
part holds in the product exactly if it holds here.

| run | instance | shows |
|---|---|---|
| `checkout` | 2 orders (1 and 2 units, 2 in stock), 2 intents, 1 reconciler, batches of 1; 1.3 million states | stock and reservations, single charge and event, deliveries applied, truthful outcomes, and that `OrderContract` is kept |
| `front_ends` | 3 sales; 2 tabs, 2 submissions; 2 tabs, 2 sign-ins; 2 tenants, 2 setups; 251 thousand states | sales booked once, in order, never in both lists, none waits for ever but behind one that is posted for ever, and lost in one way only; cart kept or ordered, once; pages and till act for the session they hold |
| `stock` | 2 units, 2 locations, buckets at most 1 past their rows; 1 count, 1 adjustment; 2 bins, 2 workers; 2 receivers, 2 lines, one of them serialized; 2 relays, 2 job slots, 2 events; 2 importers; 2 goods, 2 postings, 2 records; 1.1 million states | units match the ledger but for what three operations put past them, losses signed off, counts close their gap, bins within the goods, receipts reconcilable, nothing dropped on the way to a channel but the jobs that failed for good, orders imported once, books balanced and tax waived only when supported |
| `queues` | 1 order beside an older one that expired with its intent still live, 2 intents, 1 reconciler with batches of 1; 2 commands (a sale, a return), 1 other register; 1 message, 2 runs, 2 attempts; 37 thousand states | pending orders end, settled intents are closed or surface, each but for what holds a row or fills the batch for ever; the overlay is what is pending or about to be dropped, `CommandContract` is kept, commands and messages settle |
| `back_office` | 14 desks of 1 to 3 actors; 654 thousand states | orders, sales, mail, notices, catalog, gate and limits, logs, error reports and migrations, sessions on the server; what is final is not rewritten |
| `paid_means_confirmed` | 1 order | *violated*, finding 1 |
| `no_sale_lost` | 2 sales | *violated*, finding 2 |
| `unit_matches_ledger` | 1 refund | *violated*, finding 3 |
| `sends_within_attempts` | 1 message, 2 runs | *violated*, finding 4 |
| `stock_changes_reach_channels` | as `stock` | *violated*, finding 5 |
| `cursor_misses_nothing` | 1 command, 2 other sales, pages of 1 | *violated*, finding 6 |
| `turned_away_for_own` | 2 tenants with ids that begin alike | *violated*, finding 7 |

Why the bounds are enough. Races in this code are between two transactions or
two callers, so every part has two of whatever races: intents, refunds, runs,
relays, job slots, workers, receivers, importers, links, tabs, sessions; a third
sale, writer or delivery gives a history to the second. Two orders of different
size compete for stock that covers either but not both. Three sales give a flush
a head, a rest and a tender that comes in between. The total of 3 tells partial
from full refunds; in the books 7 and 88 fils at 15 % and refunds of 17 and 35
do not divide evenly. Pages,
batches and buffers have size 1 or 2, so that each overflows. Counters are
bounded by constants named `Max...` in the guards of the actions that raise
them, or by the sets of ids. A message has one attempt in `back_office` and two
in `queues`; the theorems have any number. No run has a state constraint. Deadlock is not
checked: in every model all work may be done.

Each property of a passing run has at least one mutant in `PROJECT.json`: a
definition with a plausible bug (a dropped guard, a missing reset, an
off-by-one), under which TLC finds the property violated. The mutated forms are
the definitions introduced by "Mutant" or "A mistake to compare with".

Fairness, per model:

- `Checkout`: time passes and the janitor's and reconciler's timers
  (`worker/src/main.ts`) fire; a gateway polled for ever answers at some time,
  and a repair and a report that are tried for ever get through. Nobody has to
  pay, deliver a webhook, fulfil or cancel, and nothing says that a transaction
  that opens an intent ever ends: `createIntent` calls the gateway with the
  order's row locked, and neither the call (`gatewayPort.ts:43-52`) nor the
  transaction (`db.ts:14`) has a deadline. The janitor waits for such a row and
  serves no other order meanwhile, so it is fair only while no row is held
  (`HeldUp`). Therefore `PendingOrdersEnd` excepts a call that holds a row for
  ever, and `StuckIntentsSurface` that and an intent whose batch is full of
  older live ones for ever (`Starved`): an intent that was flagged, or whose
  order is cancelled, stays `created` and is read again by every run. A worker
  may crash any number of times, hence strong fairness on what a crash may
  interrupt.
- `SaleQueue`: the timer fires and no request hangs for ever. Nothing is assumed
  of the answers: the loop stops at the first 5xx or broken connection, and
  `PendingSalesSettle` says that sales settle unless one sale stays at the head
  and is posted for ever.
- `RegisterSync`: syncs are started again and again, and of those one is answered
  in full and its answers are marked. Pushes may fail and answers be lost any
  number of times. One sync runs at a time: that is an assumption about the
  caller, which is not written yet; `sync()` keeps no second call out.
- `NotificationDelivery`: runs start and sweep; a message that is due for ever is
  claimed, and not every run that has it dies before its outcome is written.
  That a send ends is an assumption where the mail server upgrades by STARTTLS:
  `smtpTransport.ts:407-416` turns the time limit off and sets none for the
  handshake.
- all others: none; their properties are about safety.

Findings (each is a violation run; details and quotes in `PROJECT.json`):

1. A capture that comes after cancellation or expiry marks the intent succeeded
   and publishes `order.paid`, while payment and order stay voided and
   cancelled and no refund or exception is raised. `CaptureAccounted` says
   exactly how far the books agree then.
2. `flush` writes back a list it read before an await; a sale queued meanwhile is
   lost. `OnlyFlushLoses` shows that there is no other way to lose one.
3. A refund approved after the courier brought a unit back credits it to stock
   again. `HistoryStays` shows that the opposite order is safe.
4. A reclaimed notification's attempt is not counted, against the comments; a
   message whose run dies after each send is sent without limit.
5. Imported orders and the janitor change stock without an outbox event; the
   other channels keep the old quantity. `FeedKeepsUp` shows that the feed keeps
   up with every change it is told of.
6. The sequence number of a movement is taken before its commit, so a register
   that pulled past it never sees it.
7. The rate limiter's key is the first 32 characters of the access token: its
   header, the name of the first claim and two bits of the tenant's id. All
   tenants share two buckets. `LimitsHold` says what a bucket does keep.

Contradictions without a run of their own. The passing properties except each of
them by name, and each promise is stated in its module: put under the invariants
(the third: the properties) of `Stock.cfg` (the first three), `Queues.cfg` and
`BackOffice.cfg`, TLC finds it violated.

- `ReceivedWithinOrder`. `receiveAgainstPo` keeps the quantities of a request in
  a map by variant (`purchasingService.ts:246-265`), so of a variant that is
  listed twice the last quantity is compared with the order and booked, while
  all of them go into stock, and of a serialized line the scanned units do,
  whatever its quantity says (`receivingService.ts:71`). One receipt takes in
  more than was ordered, which `purchasing.integration.test.ts:184-198` says is
  rejected. `OrderlyReceipts` says what holds of all other lines.
- `FailuresRecorded`. `channelSync.ts:20-21` says "Failures are recorded on the
  listing (sync_error)". Its SELECT (line 31) is outside the `try` and the
  UPDATE of the `catch` (line 69) unguarded; jobs have one attempt
  (`bullPublisher.ts:25-29`), so a job that throws there, or stalls twice, fails
  for good, its id is kept, and nothing is on the listing. `FeedKeepsUp` says
  what the channel shows otherwise.
- `InvoiceRestsOnDeclaration`. `rcmService.ts:289-294` says that "the declaration
  cannot be revoked between the decision and the invoice - the read and the write
  are one atomic act", and `salesService.ts:263-265` repeats it. The read is a
  plain SELECT at READ COMMITTED and a revocation locks nothing the sale holds: it
  commits in between, and the invoice waives the tax all the same.
  `BooksAccounted` says that the declaration was good when it was read.
- `RefusedAreTold`. `syncEngine.ts:12-14` says that rejections "are never dropped:
  they are marked rejected locally AND recorded". The mark (line 150) and the
  record (line 152) are two awaits; if the second throws, or the register stops,
  the command is not pending any more, no later sync looks at it, and nobody is
  told. `CommandContract` does not promise it therefore.
- `EnabledIsVerified`. `auth/service.ts:142-143` says "Not enabled until a code is
  verified - losing the phone mid-enrollment must not lock the account".
  `activateMfa` (line 165) reads the secret without a lock, checks the code and
  enables whatever secret is stored by then: one that was enrolled meanwhile is
  enabled without a code of it having been given. `SessionsTraceable` excepts
  exactly that (`reenrolled`).

Seen while modelling, and left without a run because the sources promise nothing
precise, or only in passing:

- `verifyChain` says that "any edit, removal, or reorder breaks it"
  (`auditService.ts:94`). Taking out the last rows does not, and neither does an
  edit of `ip` or `occurred_at`, which `canonical` (lines 43-49) leaves out of
  the hash. `TrailTells` is stated for the others.
- Two refreshes with one token both succeed (`auth/service.ts:255-263`, read
  and update without a lock); both successors stay valid.
- One IMEI may be in slot 1 of one phone and slot 2 of another.
- A refund may ask to take back a unit that is still on the shelf, or at another
  location, and approving it adds a piece to the returns that nobody has.
- `creditNoteService.ts:170` says "no floats touch money" right above the
  share that is one.
- `migrate.ts:4` applies files "in filename order", and the check for one number
  used twice (`verify.ts:50-61`) looks at one directory. When two releases have
  used a number for different files both are applied, the second perhaps after
  files that sort behind it. `MigrationsSound` allows that and nothing more.
- Customers have no unique index on their address (`004_orders.sql:4-18`): two
  orders, or an order and a sign-in, that look for one at the same time both
  insert it, and `POST /v1/customers` inserts without looking.
- `productService.ts:349` says of the tracking mode that "the database is the
  guarantee". Its trigger reads what is committed: an edit and a first receipt
  that overlap both go through. `CatalogSound` excepts those (`flipped`), and
  archiving that overtakes a withdrawal (`overtaken`).
- `smtpTransport.ts:17` speaks of refusals of RCPT; refusals of DATA and of the
  body are classified in the same way, and `VerdictTruthful` is about all three.
- `POST /v1/products` inserts a product that is active at once; the publication
  gate guards `publish` only.
- A cycle count taken while goods are sold corrects the sales away again;
  `CountClosesGap` is stated for counts during which nothing was booked.
- A discount approval can be used for several sales and amounts. A cash refund
  belongs to no cash session.
- `errorReporter.ts:13` says "Reporting NEVER throws". A reason that is no Error
  and cannot be serialized makes `captureException` throw: as an unhandled
  rejection it ends the process, as an uncaught exception it ends it without the
  flush. `main.ts` has no listener for SIGTERM, so the flush of the `onClose`
  hook does not run when the process is told to stop.
- A tab that signs out, or whose session is refused, removes whatever session
  the storage holds, also one another tab has just stored. Signing out is not
  told to the server: the token stays good until it expires.
- The order of a storefront carries no key: a shopper whose answer was lost
  orders twice.
- Device and location stay in the register's storage at sign-out. The location
  is compared with the next tenant's; the device is not, so that tenant's sales
  carry the id of a device of the former one.
- The till never renews its token: sales that are posted after it expired are
  refused with 401 and land in the rejected list.
- `saveTenantConfig` says of a storage that refuses the rate that "the in-memory
  rate still applies"; `handleLoggedIn` then takes the flagged fallback.
- Two purchase receipts at once can exceed the order, or leave a complete one
  open.

## 4. Proofs

Eight modules hold theorems. Each proof starts from the assumptions on the
constants that the model's modules name (`CheckoutAssumption`,
`BatchAssumption`, `BooksAssumption`, ...) and from nothing else, and holds for
any sets, quantities and bounds. The assumptions say that quantities are numbers, that sets which are
summed or counted over are finite, that placeholders are no elements, and what
the code's own validation guarantees (`CodPolicy`, `PosSaleInput`, the shape of a
funnel or of a request for a credit note).

Every proof has the same form: an inductive invariant, a lemma per action that
the action keeps it (`...Keeps`), a lemma for the step, and the theorems that
follow. Every safety invariant and every action property of the passing runs is
stated by a theorem. The runs that check several parts at once have
their theorems about the composition, proved desk by desk: the invariant of a
part holds whether its desk moves or another one does.

### Checkout (`CheckoutProofs`)

| theorem | statement |
|---|---|
| `InductiveInvariant` | `Spec => []IInv` |
| `TypeCorrect` | `[]TypeOK`; in particular no bucket becomes negative |
| `GoodsAccounted` | `[]StockAccounted`: the reserved bucket is what open orders hold |
| `OneChargePerOrder`, `OnePaidEvent` | `[]ChargedOnce`, `[]PaidEventOnce` |
| `CapturesAccounted` | `[]CaptureAccounted` |
| `DeliveriesTruthful`, `OutcomesAreTruthful` | deliveries, outcomes and repairs say what the gateway decided |
| `OrdersGuarded` | `[](ReservationGuardsOrder /\ AdvanceBeforeConfirm)` |
| `NothingReopens` | `NoWayBack` |
| `CheckoutKeepsContract` | the refinement of `OrderContract` |

None of the safety properties is inductive alone. `IInv` adds what ties the
rows together: `IntentShape` (an opened intent has an order and a gateway
record), `PaymentShape` (a pending order has a pending payment, only
cancellation voids), `IntentHasPayment` (an order with an intent owed
something, so a capture finds a payment row), `OpeningLocks` (a transaction
that opens an intent holds the row of a pending order, alone: with it the
unique index yields `ChargedOnce`), `WorkTruthful` (what a reconciler is about
to apply is still what the gateway decided, however old its list is). The three branches of
`applyWebhook` are proved once, for both doors they are reached through, and so
are the two ways an order is given up (`CancellationKeeps`). The refinement maps
a step to `Place`, `HandOver`, `GiveBack`, `Charge` or a stutter; that a capture
is a charge needs `ChargedOnce`. `NoWayBack` has no run of its own, since
`KeepsContract` contains it.

### Front ends (`FrontEndProofs`)

| theorem | statement |
|---|---|
| `QueueInvariance`, `QueueIsConsistent` | `[]QueueConsistent`: booked once, in one list only |
| `FlushAloneLoses` | `[]OnlyFlushLoses` |
| `TendersStayInOrder` | `FirstComeFirstServed` |
| `ScreensAlwaysAgree` | `FrontSpec => []ScreensAgree`: cart, sessions and till setup |

The heart of `QueueInv` is `CopyIsBeginning`: the copy a running flush works
from is the beginning of the pending list, and what follows was queued while it
ran. So writing the rest of the copy back drops the head, which was booked or
retained, and the sales that overlapped (`HeadLeaves`). `PieceKeepsOrder` is why
the order survives: each list that is written back is a piece of the one before.
`CartInv` counts: what was put in and not taken out is in the storage or was
ordered (`KeptOrOrdered`), and the order under way is for what the storage has
(`OneOrderOfCart`). `SessionInv` needs that what a tab still waits for was asked
for the session it holds (`TabOwn`).

### Stock (`StockProofs`)

| theorem | statement |
|---|---|
| `FeedSettles` | nothing announced is dropped but the jobs that failed for good; a job that ran alone leaves the channel with the latest stock |
| `FeedKeepsUpAlways`, `OrdersImportedOnce` | the same beside imports, and `[]ImportedOnce` |
| `PoTypeCorrect`, `ReceiptsOrderly` | `[]OrderlyReceipts` for any number of receivers and crashes, and for requests that list lines crookedly |
| `WhTypeCorrect`, `BinsNeverExceedGoods` | `[]BinsWithinGoods` |
| `RoomInvariance`, `RoomTypeCorrect`, `LossesAreSignedOff`, `CountsCloseTheGap` | counts and adjustments |
| `UnitTypeCorrect`, `UnitsFollowLedger` | `[]UnitsMatchLedger`: units and buckets differ by `drift` and nothing else |
| `BooksAlwaysAccounted` | `[]BooksAccounted`: notes, journal, reverse charge |
| `StockTypeCorrect` | `[]StockTypeOK` of all parts together |

`MovedLevels`, `PostedLevels` and `LevelsMove` are the lemmas about `StockLedger`
the parts share: a movement that `CanPost` accepts takes levels to levels, and
moves one quantity between two buckets. `UnitInv` follows each phone along the
transfer that carries it (`TransfersCarry`), since its row changes in another
transaction than the levels; a refund's return that finds no sold unit moves the
level and `drift` alike, and leaves the rest in step (`RefundUnit`). `FeedCore`
has every job in one place, `givenUp` among them (`JobsOnce`), and `Settles`
follows the job that ran alone. `PoInv` needs `AloneFits`: a request that was
alone all the way fits what is left of the order and knows whether it completes
it. `WhInv` sums over bins and pick orders: the putaway under way is the only one
and what it brings was not binned (`PutawayFits`), and the ledger holds back what
the orders that may be picked need (`HeldFor`). `BooksInv` has one entry per
source (`OnePerSource`), each entry true to its document (`EntryTrue`), the
accounts as sums of the entries (`AccountsAgree`), refunds in proportion
(`RefundsInProportion`) and notes prorated per line (`NoteProrated`).
`FeedUnderImport` shows that an import, which takes stock without an event, is
the only thing that breaks the feed's promise.

### Notifications (`NotificationProofs`)

`NoticeTypeCorrect`, `NoticesCorrect` (`[]NoticesAccounted`) and
`FinalStatusStays` from `NoticeInv`; `MailInvariance`, `MailTypeCorrect` and
`VerdictsAreTruthful` from `MailInv`, for any answers of the server and
connections that break anywhere. `NoticeInv` says who may hold a claim
(`ClaimedOnce`, `SendsClaimed`), how often a message was mailed against what it
was presumed (`MailedOnce`) and what the log shows (`LogExplains`).

### Registers (`RegisterSyncProofs`)

| theorem | statement |
|---|---|
| `RegisterTypeCorrect`, `OverlayTruthful` | `[]RegisterTypeOK`, `[]OverlayIsPending` |
| `StockNeverOversold` | `[]LevelsOK`: stale mirrors never make the server sell more than it has |
| `RegisterKeepsContract` | the refinement of `CommandContract` under `FateOf` |
| `QueuesTypeCorrect` | `[]QueuesTypeOK` of the composed instance |

`SyncInv` adds `AnswersTrue` (what the server answered to this push is still
true), `StatusTrue` (the server has only what was stored) and `PhasesAgree` (what
is recorded for the manager and dropped from the overlay was marked first, and
one command at most is between the two). `LevelInv` bounds the numbers of
the log, so that there is a last one, and follows the levels through a rebuild.

### Back office (`OpsProofs`, `BackOfficeProofs`)

| theorem | statement |
|---|---|
| `GateHolds`, `LimitsAlwaysHold` | never worse for the better customer; no bucket beyond twice its limit, no refusal below it |
| `FunnelsAreTruthful` | the window query counts the longest chains |
| `TrailAlwaysTells` | the chain verifies, and an edit or a swap breaks it |
| `ReportsAlwaysAccounted`, `MigrationsAlwaysSound` | failures accounted for; files once and in order |
| `AfterSaleInvariance`, `AfterSaleTypeCorrect`, `OrdersAccounted`, `ParcelHistoryStays` | `[]OrderAccounted`, `HistoryStays` |
| `TillInvariance`, `TillTypeCorrect`, `SalesAreAccounted` | `[]SalesAccounted`: wallets are ledgers, the drawer is accounted for |
| `CatalogAlwaysSound`, `SessionsAreTraceable` | `[]CatalogSound`, `[]SessionsTraceable`: sessions, links, and customers with every writer of them |
| `GateAlwaysAgrees`, `LogsAlwaysAgree`, `OfficeTypeCorrect`, `HistoryStands` | the same of all desks together |

What makes them inductive: for a rate limit that a bucket's tokens and the
requests of its window add up (`BucketSound`), and for a period that spans two
windows that each is bounded (`WindowsBounded`); for the audit trail that the
lock makes reading the last row and writing after it one piece (`Serialized`);
for migrations that the lock has one owner (`Exclusive`), that a row stands for a
file that ran (`RanIsRecorded`), and that one which ran after a file that sorts
behind it shares its number with one that ran before (`Displaced`); for customers
that unless two looked for an address at once, what the only request that looks
has found is still so (`CustomerKnown`); for sales what each sale took from each wallet
and put into which drawer (`OpenSound`, `BookedPaid`, `DrawersSound`); for the
order after its sale that the trigger's sum under the lock bounds every refund
that was decided, and that a scanned unit which is still sold was never credited
(`UnitTrail`). The funnel needs that the greedy choice of the earliest event
is never worse than another one, step by step (`Reached`, `Chain`).

### Sums and loops (`SumLemmas`)

The laws of `SumOf` and `NetOf` (one element more, one value changed, an amount
moved from one place to another, monotony), of quotients and rounding, and
induction by a least number (`LeastExists`, `UpTo`, `LoopExists`). `LoopExists`
gives the values of a loop of any length; with it recursive functions such as
`Recorded`, `Chain` and `Rebuilt` are proved about in spite of the library's
induction theorems being out of reach.

### What the proofs showed of the models

- The replay of movements in `RegisterSync` was a fold with an operator whose
  order the library leaves open, and TLC evaluated it from the last movement to
  the first: a rebuilt mirror had the phone in the state of its first movement.
  The code replays from the first to the last, and `Replay` and `Rebuilt` now do.
- Sums over sets were folds; they are sizes of piles now, with the same values.
- `CartAssumption` and the type of `Line` in `BooksAssumption` name what the
  models had relied on silently.

Only model-checked: liveness (`PendingSalesSettle`, `PendingOrdersEnd`,
`StuckIntentsSurface`, `PendingSettles`, `MessagesSettle`), since fairness and
ENABLED are out of the prover's reach; and the findings, which are
counterexamples.

## 5. Plan

1. What the checked liveness rests on, as invariants the provers can state: a
   message that is not final is due, claimed or stalled; a pending order has a
   reservation the janitor will find.
2. Two sellers of one stock: `Checkout` beside `Till` and `OrderImport` on the
   levels of `StockLedger`, with the row locks in their order, so that lock
   cycles can be found.
3. Restarts of a register with durable stores, once the code has them.

## 6. Not modelled

- `driftCheck`: it reads the ledger and its projection and reports.
- E-invoice XML, message templates, translations, receipts, catalogue texts and
  search: formatting without state.
- AI providers, health probes, logging: calls without state of their own.
- Admin, mobile and the desktop shell: screens over the HTTP interface.
- In modelled components: authentication and authorization beyond the roles
  that decide approvals; several variants per order where one shows the
  behaviour; emirates and names of legal sources in `TaxRules`; payload formats
  and signatures of connectors and gateways.
