# TLA+ models of the GCC Gaming Store

The store sells game top-ups and digital codes. A customer checks out, a payment
gateway reports the payment by webhook, a worker buys the goods from a provider or
takes a code from stock, and staff refund orders or move them by hand. These modules
model the code that carries money, goods and rights: where several processes, tabs or
administrators change the same rows, where a process may die between two commits, and
where messages arrive late, twice or never.

Everything is translated from the TypeScript and SQL under `src/`. Paths below are
relative to `src/`; `PROJECT.json` maps each definition to the lines it stands for.

## 1. The system

| Component (code) | State | Operations | Hard behaviour | What makes it correct | Model |
|---|---|---|---|---|---|
| Order state machine (`packages/db/src/order-state-machine.ts`) | `Order.status`, `OrderStatusEvent` rows | `transition`, `createInitial` | every other part moves the order, each from a status it has read earlier | the timeline is a path of the allow-list ending in the status | `OrderStates`, `Settlement`, `Purchase` |
| Checkout (`apps/api/src/orders/checkout.service.ts`) | order, items, payment, `gatewayReference` | `checkout` | four commits with a crash point after each; the answer may be lost | what is charged is what was shown; a captured payment belongs to a paid order | `Shopping` (the order), `Settlement` (the payment); partly |
| Coupons (`coupon.service.ts`, `admin-coupons.service.ts`) | coupon row, redemptions | `evaluateAndLockCoupon`, `create`, `update`, `deactivate` | the last redemption, two checkouts, an edit meanwhile | a redemption only while the terms in force allow one more | `Coupons`, `CouponLedger`, `Shopping` |
| Pricing (`checkout.service.ts`, `packages`) | none | pure functions | discounts above the price, rounding | totals add up and equal what the cart showed | `Pricing` |
| Payment webhooks (`apps/api/src/payments`) | payment, `WebhookEvent`, `OutboxEvent`, `Fulfillment` rows | `processGatewayEvent`, `confirmMockPayment` | events resent, reordered, side by side; a check without a lock; rollback | captured once, with all its effects; noticed in the end | `Settlement` |
| Refunds (`apps/api/src/admin/refunds`) | `Refund` rows, payment, order | `createRefund` | two administrators at once; the gateway is called between two transactions | one refund, covered, booked as it happened | `Settlement` |
| Administrators' order edits (`apps/api/src/admin/admin-orders.service.ts`) | order | `updateStatus` | stale page | the order never leaves the refund flow or CANCELLED | `Settlement` |
| Invoicing (`apps/api/src/invoicing`) | invoice row, `invoice_number_seq`, the seller in the environment | `issueInvoice`, `buildQrPayloadBase64` | runs inside the webhook's transaction; the code is drawn again long after | one per paid order, a number of its own, a code that reads back | `Invoicing`, `ZatcaQr`; one per order in `Settlement` |
| Notifications, audit log | rows | insert | two closers of one order | the customer is told once | effects in `Settlement`; audit rows left out |
| Outbox dispatcher (`apps/worker/src/outbox`) | `OutboxEvent.publishedAt`, the run's memory | `dispatchPendingOutboxEvents` | overlapping runs, replicas, death after the commit | each committed event queued once | `Outbox`, `EventRelay` |
| Fulfilment worker (`apps/worker/src/fulfillment`) | `Fulfillment`, `ProviderTransaction`, order | `processFulfillmentJob`, its finalisation | repeated, overlapping, dying deliveries; a catch block that writes blindly | nothing is claimed delivered that is not | `Fulfillment`; its effect on the order in `Settlement` |
| Digital codes (`digital-code-reservation.ts`) | `DigitalCode.status`, `reservedForOrderItemId` | reserve, sell, release | the last code; a late release | a code has one buyer, for good | `Fulfillment` |
| Circuit breaker (`apps/worker/src/common`) | state, count, opening time, in memory | `canAttempt`, `recordSuccess`, `recordFailure` | five jobs share it, answers come late | state and count agree; it opens again | `CircuitBreaker` |
| Retry with backoff | none | `withRetry` | an attempt that timed out may have worked | one key per call | one call in `Fulfillment` |
| Reconciliation | `Fulfillment` rows | `runReconciliation` | flags a row whose worker is alive | | an action of `Fulfillment` |
| Catalogue (`apps/api/src/catalog`, `admin/catalog`) | products, variants, images | create, update, delete, upload, the storefront's filter | an update that read the product before its deletion; a crash between storing an image and pointing to it | deleted stays off the shelf; an uploaded image exists | `Catalogue` |
| Settings, categories (`admin/settings`, `admin/catalog`) | one row each | read, update | two editors with old inputs | a save changes only what was typed | the row in `AdminForms`; partly |
| Staff accounts (`apps/api/src/admin/users`) | user rows | `create`, `update` | SUPER_ADMINs demote and deactivate each other, each with several requests under way | the last one is never removed by an administrator in office | `StaffAccess` |
| Authentication and guards (`apps/api/src/auth`) | users, sessions | register, login, logout, `validateSession`, the guards | an account is deactivated or demoted while requests are past the guards or a login half way | it writes nothing but what was past the guards | `StaffAccess` |
| Web front end (`apps/web/src`) | the cart in each tab and in `localStorage`; the inputs of the dashboard's forms | add, change, check out, pay, clear; type, cancel, save | tabs overwrite each other's cart; answers get lost; props change under an open form | the customer pays what was shown, once per filling of the cart | `Shopping`, `AdminForms`; partly |
| Fulfilment provider, payment gateways, queue | external | called | any answer, loss, repetition | | the environment of the modules above |
| Storage, worker start-up, presentational pages, seed data | files, none | input and output, rendering | nothing is shared between two steps | | not modelled |

How they interact: the cart lives in the browser's tabs and one `localStorage` entry; checkout
prices it anew from the catalogue, takes the coupon under its row lock and creates the
order and the payment; the gateway's event, in
ONE transaction, captures the payment, moves the order through PAID to
FULFILLMENT_QUEUED and inserts the fulfilment rows and the outbox event; the
dispatcher puts that event on the queue; a worker takes the job, moves the order to
PROCESSING, works through the items and decides how the order ends; refunds and
administrators may come in at any time. There are no calls between the processes:
they meet only in PostgreSQL rows, in the queue and, within one worker, in the breaker.

The hazards, each with its line and the properties that watch it, are listed under
`hazards` in `PROJECT.json`.

## 2. Modules

Payment and delivery:

- **`OrderStates`** holds the allow-list and the curated subsets of it
  (`ADMIN_MANUAL_TRANSITIONS`, `REFUNDABLE_STATUSES`, the targets of the worker's
  finalisation). Constant level only; the two modules below extend it.
- **`Purchase`** is what an order promises its customer: the price is taken once, money
  comes back at most once and only after it was taken, and each message is sent once
  and while it is true. **`Settlement`** implements it (`ImplementsPurchase`).
- **`Settlement`** is the life of one order and its payment among checkout,
  webhooks, refund calls, worker jobs and administrators. Each party is a small
  program: `webhookPc`, `refundPc`, `jobPc`, `adminPc` and `checkoutPc` say where a call
  stands, and `webhookOrder`, `refundFrom`, `refundSeen`, `jobFrom`, `adminFrom` keep
  what it has read. `Accepts`/`Transition` is `OrderStateMachine.transition`: the allow-list,
  the compare-and-set, the timeline row. `paymentLock` is the payment's row lock
  between `payment.update` and the commit. `effects` counts the rows other tables get.
- **`Invoicing`** is `issueInvoice` at the end of the captures of several orders: the
  sequence, rollbacks and restarts with another environment, the seller copied into the
  row. **`ZatcaQr`** is the tag-length-value payload of its QR code, encoder and decoder,
  on texts whose characters may take several bytes. The decoder's loop is a recursive
  function on the offsets of the payload, so that it can be reasoned about.
- **`EventRelay`** is what `docs/ARCHITECTURE.md` promises of an outbox: committed events,
  relayed once, all of them in the end. It counts the relays of each event, so that
  relaying one twice is a step it does not have. **`Outbox`** is what the dispatcher does:
  select and lock, stamp and commit, `queue.add` one by one, death in either phase.
  It implements the safe half of `EventRelay` (`RelaysAtMostOnce`), its count of
  `queue.add` calls being the count of relays.
- **`CircuitBreaker`** is the breaker's three methods and the jobs that call them.
- **`Fulfillment`** is `processFulfillmentJob` statement by statement: reading the order
  and its rows, visiting the items, reserving a code, the provider call, the
  transaction that stores the answer, the catch block, the finalisation; two
  deliveries may be at work at once, and any may die at any point.

The shop and its administration:

- **`Pricing`** is the arithmetic of a price, in minor units and basis points: a line's
  breakdown, the coupon's discount, the order's sums and the cart's.
- **`Catalogue`** is the products, variants and images, and the tasks of administrators
  that read a row and write it later. `Sellable` is the storefront's filter.
- **`Coupons`** is the coupon's row with its lock, its terms, and the edits that check
  the row as it was read and write only the fields they name. **`CouponLedger`** is what
  a coupon promises: a redemption only while the terms in force allow one more.
- **`Shopping`** composes the three above into what a customer does: fill the cart in
  several tabs, submit the checkout, wait for its answer, confirm the payment, lose
  either answer, starting with any cart an earlier visit left in `localStorage`. A request
  reads the variants, prices the lines, takes the coupon's row,
  and commits order and redemption; it may fail or run into the transaction's time limit.
  It implements `CouponLedger` (`ImplementsLedger`). `ShoppingFairSpec` adds the fairness.
- **`StaffAccess`** is accounts and sessions: an account edit is admitted by the guards,
  checked, and committed in three steps; logins have a pause for the password hash;
  sessions expire; customers register. `call` holds the requests in flight: any number of
  them may be the same user's, under one session or several, since neither the guards nor
  the dashboard (whose rows each have a busy flag of their own) admit one at a time.
- **`AdminForms`** is an editor of the dashboard: inputs filled once from props, typed
  into, cancelled or saved, while `router.refresh()` brings new props and other
  administrators write the same row.

**`MCSettlement`, `MCOutbox`, `MCFulfillment`, `MCStore`** give the small instances;
`CircuitBreaker` needs none. **`Settlement_proofs`, `Outbox_proofs`,
`CircuitBreaker_proofs`, `Fulfillment_proofs`, `Catalogue_proofs`** (with `Pricing`),
**`Shopping_proofs`** (with `Coupons`), **`BackOffice_proofs`** (`StaffAccess`, `AdminForms`,
`Invoicing` and `ZatcaQr`) and **`MCStore_proofs`** hold the theorems.

Operators named `Mutant...` are the code with one plausible mistake in it. No
specification uses them; put in the place of the definition they precede, each makes
TLC report the property it is listed with in `PROJECT.json`.

### What the models leave out, and why that is sound

- Orders share no row that `Settlement` writes, so one order is enough. In
  `Fulfillment` items compete for the codes of one variant; more variants do not interact.
- Transactions run at READ COMMITTED. A step reads what is committed when it runs. Writes
  of a transaction that no other step can see before the commit are made in the
  committing step: the compare-and-set of `Transition` is merged with the commit that
  follows, because a competitor blocks on that row until then and fails its own
  compare-and-set after it. `WebhookUpdatePayment` merges the lock and the read of the
  order, for nothing can happen between them that could not happen before the lock.
- One transaction per event id: `WebhookEvent` has a unique index, so a second insert
  waits for the first and fails if that one committed; if it rolled back, the second
  is the redelivery.
- Prisma ends an interactive transaction after five seconds; for the rows it touches
  that is `WebhookCrash`.
- `refundedTotal` is the sum over the Refund rows "succeeded" that the code computes.
- Audit rows and payment-attempt rows are written and decided on by nobody.
- Signature checks, amounts other than "the amount of this payment or another one",
  wording and locale are data no property tells apart. The QR code's picture and the
  base64 around its payload are left out.
- In `Shopping` the cart has one line per variant, an order is confirmed through the mock
  gateway only (the hosted redirect leaves the page), a tab has one confirmation under way
  at a time, and a product's input fields are not validated. Requests and sessions get
  fresh identifiers by CHOOSE: which one is free makes no difference.
- A coupon's `endsAt` is a day; the time of day is left out. A staff edit changes one
  field, which is what the dashboard sends. The settings form always sends its check box.
- In `Settlement` what happens to the items of a job is any outcome; `Fulfillment` has
  the detail. In `Fulfillment` the breaker answers anything, because other orders
  move it too.
- All attempts of one `withRetry` carry one idempotency key and the provider is idempotent
  in it, so they are one call with one outcome.
- `elapsed` and `consecutiveFailures` stop at the value the code compares them with
  (`OpenDuration`, `FailureThreshold`). A clock that jumps backwards is not modelled.
- `dropped` (`Outbox`), `overlapped` (`Fulfillment`), `editsOverlapped` (`Coupons`), `pending`
  and `late` (`StaffAccess`) and their like are history variables: no guard reads them.

## 3. Runs

| Run | Instance | Question | Result |
|---|---|---|---|
| `refunds` | two events that report the payment, two refund calls, two deliveries of the job, one administrator, amount 2; symmetric refund calls and jobs | does any interleaving of webhooks, refunds, workers and staff capture twice, refund twice, tell the customer twice, let the books differ from the gateway, or break the promise of `Purchase`? | no (902 thousand states) |
| `webhooks` | a report of the payment, an "authorized" event and a foreign one, one refund, one job, one administrator; fairness | is the timeline true, is a paid order ever revived out of the refund flow, is a payment noticed, does every call end? | holds |
| `late_webhook` | two events | does a paid order keep its captured payment? | no, see findings |
| `refund_retry` | two refund calls, administrators who keep trying | can a declined refund be retried? | no |
| `resent_event` | two reports of one payment | is a resent event acknowledged once the payment is settled? | no |
| `relay` | three rows, two runs, batches of two; fairness | is each event claimed in the end, held by one run, queued at most once? | yes |
| `lost_event` | two rows, two runs | is every committed event relayed? | no |
| `fulfillment` | two items that need a code, two codes, two deliveries; all symmetric | is anything called delivered that is not, is a code sold twice or taken back? | no (1.4 million states) |
| `replay` | two items, one with a code, two deliveries | is a delivery that takes over from a dead one safe? | no |
| `breaker` | three jobs, threshold 2, cool-down 2; fairness | do state and count agree, does an open breaker open up and a healthy provider close it? | yes |
| `probes` | the same | is a single probe let through? | no |
| `store` | see below; fairness | is what is charged what was shown, paid once, within the coupon's limits; do deletions, deactivations and roles hold; do forms keep what nobody typed; do invoices keep number and code? | yes, with the qualifications below (515 thousand states) |

**Bounds.** Two refund calls, two deliveries, two dispatcher runs are what a race needs; two
events of one payment are what a resend under a new id needs, and each event may be
delivered any number of times. Amount 2 has a full and a partial refund; 3 would add a
second partial amount and no new comparison. Three rows with batches of two fill a
batch and leave one over. Two codes for two
items let a repeated delivery find its item holding a code while another is free, let it
find none left, and let a released code go to the other item. Three
callers with threshold 2 let a call be in flight while two others open the breaker.
The two passing runs of `Settlement` share the work because of its size: `refunds` has
the second refund and job, `webhooks` the events that are no plain report, and
fairness, which symmetry would not be sound for. The theorems hold for every size.
No counter needs a bound: a timeline is a path of a graph in which only PARTIALLY_REFUNDED
leads back to itself, and that needs a second Refund row; `attemptCount` grows with
deliveries only.

**The run `store`** explores the parts of the shop one at a time: the variable `focus` says
which part moves in a behaviour and the others keep the state they start in. The
parts whose states are read by another one move together:

| Focus | What moves | Bounds |
|---|---|---|
| `cart` | two tabs with one `localStorage`; the first also checks out and pays, the second only loads and edits; an administrator edits a variant | quantities to `MaxLine` 2, the cart filled `MaxFills` 2 times, one edit, two requests |
| `redemption` | two tabs with full carts race for a coupon that has one redemption left, or one for each customer; an administrator edits it | one edit, `Horizon` 2 |
| `coupons` | two administrators edit a coupon, time passes | three edits |
| `catalogue` | two administrators, two products, two variants, one image, the seed | three edits |
| `staff` | three accounts, two of them SUPER_ADMIN, two sessions, three requests in flight, of one user or of several, logins, registrations | three edits; no more sign-ins under way than session ids left |
| `forms` | one editor with two fields and two texts besides the blank one, another administrator | two typed or foreign edits |
| `invoices` | two captures, five environments (unset, blank, Latin, Arabic, too long in bytes only) | `MaxFailures` 2 rollbacks and restarts; a length byte that holds 4 (`MaxLength`) where the code's holds 255 |

With three requests one administrator can have two past the guards when another, or a
request of the first's own, removes somebody. Each race needs two parties, and each bound leaves room for a step of the other party
between any two of one. The prices (105 and 100 minor units with a tax of 15%,
a coupon of 10%, discounts below and above the price) are those at which rounding
and capping show. The theorems about these parts hold for every value of the bounds.

Some properties hold only with a qualification, which is part of their statement, because
the code does not give more:

- `LastSuperAdminStays`: a request that was past the guards when its own sender was removed
  may remove the last SUPER_ADMIN. Two administrators who remove each other at once both
  pass the rule against locking oneself out, and both commit.
- `CouponInRange`: unless two edits of the coupon overlapped (`editsOverlapped`), for each is
  checked against the row as it was read.
- `PaidOncePerFill`: payments whose confirmation no page saw (`unseen`) are not counted; the
  full cart is then still there.
- `ChargedAsShown`: equality for lines whose discount fits their price; with an `Oversized`
  one the order costs less than the cart showed, never more.
- `RemovalBites`: the requests that were past the guards at the removal, however many, may
  still be written.
- `UntypedFieldsKept`: a field somebody else has changed since the inputs were filled is
  overwritten by the next save (`excused`).
- `QrReadsBack`: a payload with a blank field is refused by the decoder.

**Deadlock.** `CHECK_DEADLOCK FALSE` stands where the system really comes to rest: an order
that is closed with all its events recorded, an empty outbox, deliveries that
are over, a shop whose customers and administrators have used up what the bounds allow
them. `breaker` and `probes` check for deadlock.

**Fairness.** Only what the code's surroundings give:

- PostgreSQL serves the waiters of a row lock in turn, so a transaction that may take
  the lock again and again takes it in the end (strong fairness of
  `WebhookUpdatePayment` and of `RefundBook`).
- The gateway redelivers an event until it gets a success, and not every attempt
  dies half way (weak fairness of the delivery, strong fairness of the commit). Crashes
  are never forced and never forbidden.
- Node runs a called function on until it returns (weak fairness of calls under way).
  Nobody is obliged to start a refund, an edit, a job or a checkout.
- The dispatcher's `setInterval` fires for ever; a claim may roll back often, not always.
- The breaker: time passes, jobs keep coming, each attempt ends, and not every attempt
  ends before the provider is asked.
- The server of `Shopping` keeps running: one weak fairness over all requests together, so
  which request it turns to is left open, and each may still fail.
- `RetrySpec`, in `refund_retry` only, adds administrators who keep trying: the most a
  comment that speaks of a retry could ask for.

## 4. Findings

1. **A late event fails a paid order** (`late_webhook`). `processGatewayEvent` decides
   "not settled" on a read without a lock (`payments.service.ts:71`). An "authorized"
   event that read PENDING waits for the capture's row lock, then goes on; once a worker
   has moved the order to PROCESSING, which allows FAILED, payment and order of a paying
   customer are marked FAILED.
2. **A declined refund cannot be retried** (`refund_retry`): REFUND_PENDING is not in
   `REFUNDABLE_STATUSES`, and no manual transition leads out of it.
3. **A resent event is refused for ever** once the payment is refunded (`resent_event`): only
   CAPTURED and FAILED count as settled.
4. **A crash after the claim loses the event** (`lost_event`): `publishedAt` is committed
   before `queue.add`, and nothing selects a stamped row again.
5. **A replayed job delivers twice** (`replay`): the idempotency key contains the attempt
   count, which the dead delivery has already raised.
6. **The half-open breaker lets several probes through** (`probes`).

Further observations, which no run states as a property:

- A payment that arrives for an order staff have cancelled is rolled back and leaves no
  trace in the database.
- A captured order that FAILED may be cancelled by hand, which bars its refund.
- A checkout whose answer is lost leaves an order, and its coupon redemption, behind; the
  customer's second submission makes another of each, for the request carries no key.
- Invoice numbers have gaps: the number of a capture that is rolled back is drawn and lost
  (`invoicing.service.ts:23`), while `docs/ZATCA_INTEGRATION.md` calls the numbering
  gapless by convention.
- A blank seller variable is not replaced by the demo seller: `zatca-seller-config.ts:28`
  uses `??`, and `.env.example` leaves both variables blank. `QrReadsBack` says what the
  code of such an invoice is worth.
- A seller name longer than 255 bytes is copied into the invoice; building the code, and
  with it the order's tracking page, then throws.
- A limit of a coupon, once set, cannot be cleared in the dashboard: a blank input is not
  sent. The settings form has the same gap, though its placeholder reads "No limit (leave
  blank)".

## 5. Proofs

TLAPS checks the following for every value of the constants. The assumptions are the
`ASSUME`s of the modules, which say what kind of value a constant is: `EventStatus` maps
each event to one of four kinds, `Amount` is a natural number, `BatchSize`,
`FailureThreshold` and `OpenDuration` are positive, new coupons have legal terms, the
first staff has a SUPER_ADMIN, `None` and its like are none of the other values.
The theorems need no finiteness of the sets, except where something is counted or summed:
the tabs of `Shopping` are finitely many, and so are the lines of a cart and the requests
of `StaffAccess` in flight.

**`Settlement_proofs`.** `TypeCorrect`; `OneRefund`, `RefundsCovered`, `BookingCannotFail`,
`PaymentAgrees`; `TimelineIsTrue`, `CaptureOnce`, `CapturedIsPaid`; `RefundFlowIsFinal`
(an action property); `ClosedOnce`. None of the invariants is inductive alone:

- `RefundInv` explains why two refunds cannot race although both read the order
  before their transactions. It says where the money is for every place a call can
  stand (`RefundRowInv`, `BooksInv`), and what a call that has only read may rely on
  (`RefundReadInv`): a stale FAILED is the one dangerous reading, since FAILED can be
  entered while a call waits, and the invariant shows that the compare-and-set still
  only succeeds on a payment that is captured.
- `HistoryInv` ties the timeline to the status: an order before its payment has no PAID
  entry, so a second capture would need a transition the allow-list does not have.
- `NoticeInv` says where an order can be once its customer has been told how it ended:
  only in statuses that no closer starts from.
- `KeepsThePromise` is the refinement of `Purchase`. `BuyerInv` adds what the mapping needs:
  jobs exist only for captured orders, administrators ask only for what their table
  allows, and a refund is announced when it is booked. Then each step is one of
  `Purchase` or a stutter (`PurchaseStep`).

**`Outbox_proofs`.** `OutboxTypes`, `NoRowInTwoHands`, `EveryRowAccountedFor`, and
`OutboxRelaysAtMostOnce`: the refinement of `EventRelay`, in which `Insert` is `Commit`,
`Add` is `Relay` and every other step stutters; `adds` is the abstract count of relays, so
the proof has to show that a row about to be added has not been added before. The inductive invariant says that a row
that is claimed but not stamped is locked by its claimer, and one that is stamped is in
exactly one place.

**`CircuitBreaker_proofs`.** `BreakerTypes` and `StateMatchesCount`, inductive together.

**`Fulfillment_proofs`.** `FulfillmentTypes`, `PoolStaysInOrder`, `OnlyDeliveredIsClaimed`,
`SoldCodesStay`: `WorkInv` says what a delivery at each place may rely on, whatever the
other one does: the item it holds, the answer in its hand and the provider's books.
`SucceededItemsHaveCodes` and `SucceededStays` (an action property) hold for an order whose
deliveries never overlapped. `AloneInv` says what being alone means: no other delivery is
at work on the order, the items still on the work list are unfinished, and each item
that SUCCEEDED has its code. A step of one order's delivery cannot disturb another order
(`AloneStep`), and that is where the private reservation of codes is used.

**`Catalogue_proofs`.** `CatalogueTypes`, `ImagesExist` (`UploadInv`: a task that has uploaded
has its file in the storage), `DeletedStaysDeleted` (an action property). It also holds the
facts about `Pricing` that the shop needs: sums over finite sets of lines, bounds on a
line's discount, an order against the cart that was shown. The sums are folds, so they need
induction over finite sets. The library states that induction with an operator as a
parameter, which no prover here can instantiate; `FiniteInduction` states it with a SET of
subsets instead, from the well-foundedness of strict inclusion (`WFMin`).

**`Shopping_proofs`.** All for any number of customers, tabs, requests and administrators,
and for any cart found in `localStorage`.

- `StoreTypes`, from `CatalogueInv`, `CouponInv` and `ShopInv`. The type of the checkouts
  needs the catalogue's and the coupon's: an update under way finds its coupon complete.
- `FilledOncePaidOnce`. The tabs share one stored cart, so a cart that one tab has
  paid for may still be full in another. The argument counts credit: a tab has credit while
  its cart is full, or its order waits for confirmation, and the payment is not one it is
  about to see; `CountInv` says that payments seen and tabs with credit together never
  outnumber the fillings. `SentInv` says that no two tabs wait for one request.
- `ShownIsCharged`. `Stage` says what a request has in its hand in each phase: rows for
  exactly the lines shown, and a discount within what could be discounted. With the lemmas on
  sums the charge is then at most what was shown, and equal to it where nothing is cut off.
- `CheckoutsKeepTheLedger`: the shop implements `CouponLedger`. `LockInv` is the argument: a
  request past the coupon's checks holds the row, so limits and redemptions are still as
  it read them when it commits, and no edit comes between.
- `CouponStaysInRange`, by `RangeInv`: while edits come one at a time, what an edit was
  checked against is still the row.

**`BackOffice_proofs`.** `StaffTypes`, `RemovalStops`, `SuperAdminStays`, `SidesKept`, for any
finite number of requests in flight. `CallInv` says what an update past its check may rely on:
its target is a staff account, and it never removes its own sender. `LateInv` is a counting argument: what a removed administrator has
written since (`late`) and what it still has under way never add up to more than it had past
the guards at its removal (`pending`), because the guards let nothing new through.
`SuperAdminStays` (an action property) follows from the first: if the sender is still a
SUPER_ADMIN and is not the target, one is left. `FormsTypes`, `OnlyTypedFieldsChange`: inputs differ
from the page, and a request from the row, only in fields that were typed or have changed
behind the editor. `InvoicingTypes`, `NumbersStayApart`: a number is at most the sequence, and
the next one is above it, whatever rolls back. `QrStays` (an action property). `CodesReadBack`
is the round trip of the QR code, for texts of any characters and length: five fields are
encoded one after another, the recursive function of the decoder has a value at the offset
where each begins, and that value is found from the end backwards; a payload cut short
fails at the field that was cut, and every offset before it fails with it. That
recursive functions exist is proved there once, by induction on the naturals, again with
sets in the place of operators.

**`MCStore_proofs`.** `RunOfTheParts`: every behaviour of the composed store that TLC explores
is a behaviour of `ShoppingSpec`, `StaffSpec`, `FormsSpec` and `InvoicingSpec`. So the run
checks what the theorems are about, and the theorems hold in the run. `AllTypes` is its
type invariant.

With these, every invariant and every action property that a run checks is stated by a
theorem. Only model-checked are the liveness properties (`PaymentIsNoticed`, `NoCallHangs`,
`EveryEventIsClaimed`, `OpeningEnds`, `HealthyProviderClosesIt`, `CheckoutAnswered`), since
TLAPS does not reason about ENABLED and fairness, and the violations, which are
counterexamples. Type correctness of `Outbox`, `CircuitBreaker` and `Fulfillment` is
proved and not model-checked.

## 6. Not modelled

- **Presentational pages** of `apps/web` (home, shelf, blog, legal pages, layout, switchers,
  animations): they show what the API answers and keep no state that two steps share. They
  are most of the repository's lines, which is why the models map about an eighth of them all.
- **`apps/web/src/lib/api.ts`**: one typed `fetch` per endpoint; what a call does is in the
  action of its handler.
- **Seed data** (`packages/db/prisma/seed.ts`) beyond the reseeding of a product.
- **Storage providers, the QR code's picture**: pure input and output.
- **Worker start-up and shutdown**: a kill is the crash actions of `Outbox` and `Fulfillment`.
  Shutdown waits for the jobs and not for a dispatch under way, which is such a crash.
- **Parsing and signatures of gateway payloads**, password hashing, rate limits, wording.
- **Audit rows, payment attempts, balance snapshots, quotes**: written and decided on by
  nobody, or called by nobody.

## 7. Plan

Done, in the order of importance: the money (`Settlement`), the relay (`Outbox`), the goods
(`Fulfillment`), the breaker; the promise to the customer (`Purchase`); the shop before the
payment (`Pricing`, `Catalogue`, `Coupons`, `Shopping`), staff and their forms
(`StaffAccess`, `AdminForms`), invoices (`Invoicing`, `ZatcaQr`); and the proofs named above.

Left:

1. The job of `Settlement` shown to be an abstraction of a delivery in `Fulfillment`.
2. The validation of a product's input fields, and the checkout of a hosted gateway in
   `Shopping`.
