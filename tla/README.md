# bikoba: a TLA+ model of the shop's core

bikoba is a marketplace back end: NestJS over Prisma/Postgres, BullMQ on Redis,
and two payment gateways (Paystack, Flutterwave). This directory models the
parts of it that change shared state concurrently, checks them with TLC on
small instances, and proves the most important results with TLAPS for every
value of the constants. Paths below are relative to `src/`, the repository's
root, so the application itself is in `src/src/`.

Contents: [inventory](#inventory) · [how the code is modelled](#how-the-code-is-modelled)
· [modules](#modules) · [runs](#runs) · [findings](#what-the-model-contradicts)
· [proofs](#proofs) · [limits](#not-modelled) · [plan](#plan)

## Inventory

All components are Node services of one process; they share the Postgres rows
through Prisma, call one another directly, and use BullMQ queues for jobs.

| Component | State | Operations that change it | Interacts with |
|---|---|---|---|
| **Orders** `orders.service.ts` | `Order.status`, its timestamps and items; `Product.stock` | `create`, `markPaid`, `ship`, `outForDelivery`, `deliver`, `cancel`, `cancelByRefund`, `cancelAbandoned` | called by Payments after a success or a refund, and by the payments worker; enqueues SMS and email |
| **Payments** `payments.service.ts` | `Payment.status`, `providerRef`; reconciliation reports | `initiate`, `verify`, `handleWebhook`, `refund`, `reconcile` (all through `applyResult`) | calls the gateways; calls `markPaid`, `cancelByRefund` |
| **Payment providers** `providers/*.ts` | none of their own; the gateway keeps the transaction | `init`, `verify`, `listSince`, `refund` | HTTP to the gateway |
| **Payments jobs** `payments.scheduler.ts`, `payments.processor.ts` | the queue | daily reconciliation 04:00, abandoned-cart sweep 04:30, one worker | Payments, Orders |
| **Seller applications** `seller-applications.service.ts` | `SellerApplication` row, `User.role`, `Store.isActive` | `submit`, `cancel`, `approve`, `reject`, `expireDueApplications`, `sendDueReminders` | Stores (by role), queues |
| **Seller applications jobs** `kyc-scheduler.service.ts`, `kyc.processor.ts` | the queue | daily expiry 03:00, reminders 03:30, one worker | Seller applications |
| **Stores** `stores.service.ts` | `Store` | create, update, remove | role guard; its owner's application; deletes products with it |
| **Authentication, sessions** `auth.service.ts` | `User.passwordHash`, `Session` (hash, expiry, revoked, device), access tokens (kept by clients) | `register`, `login`, `refresh`, `logout`, `logoutAll`, `changePassword` | email verification; SMS queue |
| **Email verification** `email-verification.service.ts` | `EmailVerificationToken`, the user's flag | `issueAndSend`, `resend`, `verify` | email queue, mail server |
| **Email queue** `queue.module.ts`, `email.processor.ts`, `mail.service.ts` | BullMQ jobs and their attempts | add, process, retry | mail server |
| **One-time codes** `otp.service.ts`, `otp.controller.ts`, `users.service.ts` | `OtpToken` (attempts, used), the user's number and its flag | `issueAndSend`, `verify`, `setPhoneAndSendOtp` | Redis rate counter (not modelled), SMS |
| **Products** `products.service.ts` | `Product` rows | `create`, `update`, `remove`; reads `findAll`, `findOne` | fills and invalidates the cache, feeds the index; Orders changes `stock`, deleting a store deletes products |
| **Redis cache** `redis.service.ts` | cached responses with a time to live; counters | `wrap`, `del`, `delByPattern`, `incrWithTtl` (not modelled) | Products, Categories, OTP |
| **Search index** `products-indexer.service.ts`, `scripts/reindex-products.ts` | Meilisearch documents and its queue of tasks | `upsert`, `upsertMany`, `remove`; the reindexing script | Products |
| Categories `categories.service.ts` | rows, cache | create | cache |
| SMS queue and gateway, storage, config, docs page, deployment | none or static | pure I/O | – |

**What is hard here.** No update carries the status it was decided on: nearly
every operation is *read, check, await, write by id*. Interleavings of two
handlers (a buyer's click and a webhook, a refund and the sweep, an admin and
an applicant) therefore act on stale reads. Gateways answer late, twice or not
at all; the process may die between the update of a payment and the update of
its order; daily jobs work through lists they read once and may stop half way.
A refresh token is checked against a row that is rotated in a later query; two
links for one user may be issued at once; a queued job may run twice.

**What makes each component correct.**

- *Orders*: the stock column never below zero; no unit sold twice; never lose a unit of stock; put stock back exactly
  once; no stage skipped; cancelled and delivered are final; the seller is told
  once; an abandoned order's stock comes back.
- *Payments*: an order counts as paid only if money reached a gateway for it; a
  row never claims money that did not move; a payment's terminal states stay;
  one success per order; a payment that succeeded eventually advances its order.
- *Seller applications*: approval, role and expiry go together; every approval
  ends; reminders once per milestone; stores close with the role.
- *Sessions*: a revoked session gives no access once a token's life is over (the
  code does not aim at less, whatever its comment says: see below); a
  password change ends the sessions of earlier passwords; a device is
  announced the first time it logs in.
- *One-time codes*: a number has one code at a time, accepted once, ended by a
  bounded number of failures; a phone is verified by a code only.
- *Email verification*: only the latest link works; a user who still needs a
  link has one; a queued mail is sent or given up, not kept.
- *Catalogue*: whatever is read from the cache was true within its time to
  live; the index follows the table unless a call to it was lost or overtaken.

`PROJECT.json` lists the hazards one by one, each at its line with the
properties that cover it or the reason none does.

## How the code is modelled

- **One action per stretch between two awaits.** JavaScript runs a handler
  without interruption between awaits. `handler[p]` is the call process `p` has
  in progress: which await it is at and the values it read before it. `p`
  ranges over `Handlers` (HTTP requests in flight) and one `Worker` per queue
  (BullMQ's default concurrency is one; a deployment with several worker
  processes would need more). A read and the check that follows it are one
  action that keeps what was read; the write is the next action.
- **A `$transaction` is one action.** The array form of Prisma's transaction
  and the interactive one in `create` commit as a whole. The guarded
  `updateMany` of stock is the transaction's guard.
- **Failure.** At any await a query may reject or the process may die: the call
  disappears (`Fail`, `Crash`) and what it wrote stays. A sweep catches the
  error of one round and goes on (`SweepSkip`, `ExpireSkip`, `RemindSkip`,
  `Caught`).
- **Requests.** Any request may come at any time, as often as its guards let
  it. Authentication and ownership are not modelled (outside `Sessions`): a
  request in the model is one its guard would let through. Each module has an
  operator named after its controller (`OrdersController`,
  `PaymentsController`, `ProductsController`, …), the disjunction of the
  operations a request may begin; everything else in `Next` is the
  continuation of a call, a job, a failure or time.
- **Data.** Orders, products, payments, users are model values. A basket is a
  function from products to quantities. Amounts, names, addresses and messages
  are left out. Timestamps of an order are the set of columns that are set; age
  is one bit (`aged`); seller applications count days; caches and sessions
  count ticks.

## Modules

```
Orders ──── OrderPromises ──── MCOrders
  │  └──── SerialOrders ─(refines)→ OrderLifecycle      MCSerialOrders
  │             └── SerialOrdersProofs
  │  └──── OrdersProofs
  └── Payments (with Gateways) ── PaymentPromises ── MCPayments
         ├── PaymentsProgress ── MCPaymentsProgress
         └── PaymentsProofs (over OrdersProofs and an instance of SerialOrdersProofs)
SellerApplications ── MCSellerApplications
         └── SellerApplicationsProofs
Catalog ── MCCatalog
         └── CatalogProofs
OneTimeCodes ── SerialCodes ─(refines)→ CodeInForce      MCSerialCodes
                  └── SerialCodesProofs
Sessions ── MCSessions
         └── SessionsProofs
MailQueue ── EmailLinks ── MCEmailLinks
                  └── EmailLinksProofs
```

**Orders** — `src/src/orders/orders.service.ts`. Variables are the rows
(`stock`, `status`, `items`, `stamps`), `onSale`, `aged`, `handler`, and two
histories that no action reads: `restored` (how often an order's items went
back) and `notified` (how often the seller was told). `Create`/`CreateTx`/
`OutOfStock` are `create`; `MarkPaid` (read), `Confirm` (write), `NotifySeller`
(enqueue) are `markPaid`; `Transition`/`TransitionWrite` are ship,
out-for-delivery and deliver; `Cancel`, `CancelByRefund` and the sweep all end
in `CancelInternal`. `OrdersNext` lets payments call in at any time, from a request or the worker;
`OrderStep` leaves those calls to the module that composes it.

**OrderPromises** — the stock ledger (`NoUnitLost`, `StockConserved`) and what
docs and comments promise.

**OrderLifecycle** — the abstract specification: every documented operation in
one step. **SerialOrders** is Orders under the condition `NoOverlap` that no two
handlers are between a read and the dependent write of the *same* order. The
code does not enforce it; it is what a row lock, or a status check in each
update, would give. Under it the handlers implement `OrderLifecycle`; without
it they do not (see findings). So the refinement says exactly what is missing.

**Payments** — `src/src/payments/payments.service.ts` over Orders (EXTENDS, with
the same handlers). `psp[m]` is what the gateway knows: unknown, open, orphaned
(opened, but the answer was lost), declined, charged, reversed. `job[p]` is the
loop of `reconcile` around the calls it makes: the gateways one after the other,
the listed transactions, then the stuck payments. A job is started by the clock
(`ReconcileJob`, worker) or an admin (`TriggerReconcile`, in a request). What
`listSince` yields may miss any transaction (window, paging, error, amount
mismatch), so nothing relies on it being complete. `OrderHandler` is what the
orders service sees of a process that is at an await of the payments service:
nothing. Seen so, the two services are an instance of Orders
(`OrdersAlone == INSTANCE Orders WITH handler <- OrderHandler`, property
`ImplementsOrders`), which is what lets results about orders be carried over.
**PaymentPromises** states `TerminalPaymentsStay`, which fails, and what is left
of it if no two processes have one payment in hand (`PaymentsDoNotOverlap`,
`SuccessStays`).

**Gateways** — `src/src/payments/providers/*.ts`: for each gateway the words it
has for the state of a transaction (`PaystackWords`, `FlutterwaveWords`) and what
the adapter makes of them (`paystackStatus`, `flwStatus`, together `Report`). An
answer without data is `failed` and names no transaction (`Answers`), a webhook
is about a transaction the gateway has (`Announces`), a list may end early
(`Yields`). The gateways differ: Paystack calls a transaction abandoned while it
can still be paid and a refunded one `reversed`, hence `failed`; Flutterwave
reports a refunded transaction as successful for ever.

**PaymentsProgress** — the fairness of the daily jobs and what they bring about.

**SellerApplications** — `src/src/seller-applications/` with the user's role
and, from `src/src/stores/`, whether the user owns a store (`owned`) and an
active one (`open`). `Submit` (role check in the request), `SubmitRead`,
`SubmitWrite`; `Withdraw`/`WithdrawWrite` are `cancel`; `Approve`/`ApproveTx`,
`Reject`/`RejectWrite`. `OpenStore`/`OpenStoreWrite` is a store created or
reactivated by its owner after the role guard, `CloseStores` one deactivated or
removed, `AdminOpens` one reactivated by an admin. `late` holds users whose store
was opened by an admin or by a write that came after the role was lost; no
action reads it. `Expire…` and
`Remind…` are the two sweeps, round by round; `Unreminded`, `MatchOffset` are
`matchOffset`. `today` is a day counter. A request is over within its day
(`NextDay` waits for `Handlers`); a sweep may run over midnight. `sent` counts
the reminders of the current approval per milestone.

**Catalog** — `products.service.ts` with its two copies of every product. `row`
counts the changes of a row and remembers the last one the index shows
something of (`edit`: stock is not in a document, so `Trade`, an order, moves
only `version`). `cache` keeps per key a response and its remaining life: one
key per product, and two lists, `"all"` (no search term, or no search engine)
and `"search"` (ids from the index, then rows from the database, as
`Search`/`ReadHits`). A read that misses is `ReadItem`/`ReadList`/`ReadHits`
(the factory of `wrap`) followed by `Store`; a hit changes nothing. `Create`,
`Update`, `Remove` write the row, then `DropItem` (`del`) runs concurrently with
`ScanLists` and `DropLists` (the two halves of `delByPattern`), and `Index`
closes the request. A Redis command may be carried out or not; a call to the
engine is accepted as a task (`Enqueue`, applied in order by `ApplyTask`) or
lost (`Lose`). `StartReindex`/`ReadBatch`/`UpsertMany` are the script, a process
of its own: the page after the cursor, in the order of the ids. `DeleteStore` is
the cascade of a deleted store. `Tick` is the only passage of time. `since`
records how long ago each value of a row was last true, and `disturbed` for
which products a call to the index was lost, not made, or overtaken by another
write; no action reads either.

**OneTimeCodes** — `otp.service.ts` with both its callers. `tokens` are the
`OtpToken` rows of purpose `PHONE_VERIFY` in the order they were created, each
with its attempts, `used` (`usedAt` is set) and `expired`. `SetPhone` reads the
user, `SetPhoneWrite` writes number and flag and calls `issueAndSend`, which is
`Invalidate` and `Create`; `Send` calls it without an account. `Verify` reads
the latest unused code and decides; `Lapse`, `Reject` and `Redeem` are the
three updates it may end in, and `Flag` is the controller's, which marks the
code's user verified. `accepted` counts how often each code was accepted; no
action reads it. A code entered is the index of the code it belongs to, 0 for
none. The hourly limit is any request's `Fail`.

**CodeInForce** — the abstract specification: per number the code in force and
its failed verifications. **SerialCodes** is OneTimeCodes under the condition
that no two requests have the same number in hand (`InHand`: between a read and
the write it decides, or between the two writes of `issueAndSend`). As with
orders, the code does not enforce it, and without it the refinement fails.

**Sessions** — `auth.service.ts`. `password` counts a user's passwords, `owner`,
`device`, `revoked`, `expired`, `rotated` are the columns of the session rows,
`access` is the life left in the last access token of each. `Register`/
`CreateUser` are `register`, `Login`/`CheckDevice` are `login`; both, and
`ChangePassword`/`ChangePasswordTx`, end in `Open` and `Sign` (`issueSession`),
and a login from a new device then queues a message (`Warn`). `Refresh` reads
and compares, `Rotate` writes by id, `Sign` again hands out the token; a token
that does not match ends all sessions of the user (`RevokeAll`). Whether an
earlier token matches is open: see the note on bcrypt below. `Logout`/`LogoutTx`
and `LogoutAll`/`RevokeAll` are the two ways out. `Tick` is time. From reading
or creating a row to its access token a request takes at most `RequestTime`: the
code sets no such limit, a client or proxy does, and the bound of `AccessEnds`
moves with it. Histories no action reads: `openedWith` (the password a session
was opened with), `late` (sessions inserted after it had changed), `endedFor`
(ticks since a session was revoked), `known` (devices the user was warned of,
brought along without logging in, first logged in from while no phone was
verified, or lost the warning of). `phoneVerified` is the one thing of the
user's row that other services write: `VerifyPhone` and `ChangePhone` do what
`otp.controller.ts` and `users.service.ts` do to it, at any time, and `Login`
keeps what it read of it until the warning is due, as the code does.

**MailQueue** — the email queue of BullMQ: `left[m]` attempts, `sent` what the
mail server took. `Process`, `AttemptFails` (the answer may be lost, so the mail
may be out nevertheless), `Stalls` (the worker dies before the job is marked
done, and it runs again). **EmailLinks** — `email-verification.service.ts` over
it. `Register` and `Resend` call `issueAndSend`, which is `Invalidate`, `Create`
and `Dispatch`; if the queue refuses, `DispatchFails` and `SendNow` send from
the request. `Verify` checks a link, `Redeem` is the transaction. Histories:
`crossed` (users whose last two issuances overlapped) and `stranded` (users whose
last issuance failed between its queries).

**Mutants.** Definitions commented as mutants (`CancelKeepsStock`,
`RemindUnrecorded`, …) are plausible bugs of the code. They are used by no
specification; putting one in place of its original makes TLC refute the
property it is listed with in `PROJECT.json`, which shows that the property
depends on the code.

## Runs

| Run | Instance | Properties | Shows |
|---|---|---|---|
| `Orders_safety` | 2 orders, 2 requests + sweep, 1 product, 1 unit, up to 2 per order | `OrdersTypeOK` `StagesInOrder` `NoUnitLost` | stale reads never take the stock column below zero, skip a stage or lose a unit |
| `Serial_orders` | 2 orders, 2 requests + sweep, 3 units | `RestoredExactlyOnce` `SellerToldOnce` `StockConserved` `NeverOversold` `ImplementsLifecycle` | without overlap per order, the documented lifecycle, the exact ledger and no unit sold twice |
| `Payments_safety` | 1 order, 2 payments, 1 request + worker, Paystack | `TypeOK` `PaidOnlyIfCharged` `ClaimsAreBacked` | rows and orders never claim money that did not move |
| `Payments_progress` | 1 order, 1 payment, 1 request + worker, Flutterwave | `StuckOrdersResolved` `AbandonedReleased` `ImplementsOrders` | payments use orders as anyone may; a crash between payment and order is repaired; an abandoned order is released, although the two jobs share a worker |
| `Applications` | 1 user, 2 requests + worker, term 3, offsets 2 and 1, 8 days | `TypeOK` `ApprovedIsSeller` `StoresFollowRole` `RemindedOnce` `ApprovalLasts` `LapsedExpires` | approval is all or nothing, closes the stores with it, is reminded of once, lasts its term and ends |
| `Sessions` | 1 user, 2 sessions, 2 requests, 1 device or none, 2 passwords, tokens of 1 tick, requests of 1 | `TypeOK` `AccessEnds` `PasswordEndsSessions` `FirstUseAlerted` | what a revocation, a new password and a new device bring about whatever overlaps |
| `Email_links` | 1 user, 3 links, 2 requests, 2 attempts | `LinksTypeOK` `OneGoodLink` `LinkAvailable` `QueuedIsSettled` | the latest link alone, and one there is; the queue empties |
| `Catalog` | 1 product, 2 requests + script, lifetimes 2 and 1 ticks, a fill within 1 tick, pages of 1, 2 versions, 1 waiting task | `TypeOK` `StaleAtMostTtl` `IndexFollows` | the cache is never staler than documented; the index follows the table |
| `Serial_codes` | 2 users, 2 numbers, 2 requests, 2 codes, 2 attempts | `CodesTypeOK` `VerifiedByCode` `AcceptedOnce` `ImplementsCodeInForce` | without overlap per number, one code in force at a time, accepted once; a phone is verified by a code only |
| `Claim_*` (3) | as above, smaller | one each | the findings below |

**Why the bounds suffice.** The races are between two processes about one
order, payment or application; two requests plus the worker contain every pair
(request/request, request/job), and a third actor adds no new kind of stale
read since nothing but the row is shared. (`Payments_safety` makes do with one
request, because the worker's reconciliation ends in the same `applyResult`,
`markPaid` and refund checks as a webhook; its two payments are what the second
request is spent on.) Two orders compete for one unit, so
the guarded decrement both succeeds and fails. `MaxQty` 2 with one unit in
stock and quantities 1 and 2 separates "enough" from "some". Two payments of
one order are needed for double payment and for one payment's refund crossing
another's success. Eight days with a term of three hold two complete approval
cycles, each with both reminders. The number of orders, payments and days is
bounded by the constants (`Orders`, `Payments`: each identity is used once;
`MaxDay`), so every behaviour is finite except for repeated requests. The proofs below lift the
safety results to any instance.

`Orders_safety` uses symmetry in requests and orders, and `VIEW NoHistory`,
which leaves out `restored` and `notified`: no action reads them and the three
properties do not mention them except for their type (a counter that is only
ever incremented), so merging states that differ in them loses nothing. Its
`CONSTRAINT WorkerSweeps` keeps the worker to the sweep there: reconciliation's
calls of `markPaid` from the worker do what the same calls from a request do,
and `Serial_orders`, `Payments_safety` and the proofs have them.
`Catalog` has one product because products do not interact: what relates two of
them is that a list or a page holds both, and a response or task about two is
wrong exactly if it is wrong about one of them; pages of one row make the
script turn the page. Two requests are a fill and an invalidation, or two
writes, and the script is the third. With `ListTtl` 1 an entry expires between
any two steps, and a fill of age `FillTime` with a new value written meanwhile
reaches the bound exactly. Two versions let a creation race an update; that two
updates racing each other leave `IndexFollows` true as well is only in the
proof. That a fill takes at most `FillTime` is an assumption: the code sets no
timeout of its own, so the promise "up to 60 s" holds up to the time a request
takes to get from its query to its `SET`. `VIEW Relevant` keeps `since` only
for values some cached or pending response holds; of any other value it is read
again only after the row took that value once more, which sets it to zero.
`Serial_codes` has two codes, one to replace or outlive the other, and two
attempts, the last and one that is not; two users and two numbers let a number
pass from one to the other. Its `VIEW Relevant` leaves out attempts and expiry
of used codes: `Verify` looks at unused ones only, and without overlap a code
in hand is unused until its write.
`Sessions` has two sessions, so that one can be opened while another is
refreshed or revoked; a token's life and a request of one tick each let a
rotation straddle a revocation, and `Horizon` is reached exactly. Two passwords
are a change after the registration, two requests a login or refresh that
crosses it. `Email_links` has three links: two issued at once and one that
replaces both, or one that ends `crossed`; two attempts are the last and one
that is not.
`Payments_safety` and `Payments_progress` take a gateway each, the one whose
answers are harder on their properties: Paystack's `reversed` turns a success
into a failure, Flutterwave never says that a refund happened.
`Catalog`, `Sessions` and `Orders_safety` use symmetry in the requests; the products of
`Catalog` are numbers, since the script orders them.
Runs with temporal properties use no symmetry, except `Serial_orders` and
`Serial_codes`, whose only temporal property is the refinement, a safety
property that treats all orders, users and numbers alike. Deadlock is
checked everywhere but in `Email_links` (another request, a listing on or off
sale or a tick is always possible); there the links run out and a verified user
has nothing left to do.

**Fairness.** Requests are never fair: nobody must buy, pay or review.

- `JobFairness` (PaymentsProgress): BullMQ's job scheduler starts the sweep and
  the reconciliation every day (`upsertJobScheduler`): strong fairness of
  `Sweep` and `Reconcile`, because the one worker is shared and may be busy with
  the other. The worker goes on with a job it began (weak fairness of
  `WorkerStep`), and interruptions of it, a failing item of the sweep included,
  cease. Without the last, a job may crash at the same point for ever.
- `ExpiryFairness` (Applications): the same for the expiry sweep.
- `LinksFairSpec` (EmailLinks): BullMQ runs what is queued (weak fairness of
  `Work(m)`); that may be a failed attempt every time, so nothing is asked of the
  mail server.

## What the model contradicts

Three statements of the documentation or of comments are not true of the code;
each has a run in which TLC finds a shortest counterexample, listed under
`findings` in `PROJECT.json`:

1. **Stock is put back** on cancellation — twice, if two cancellations read the
   order before either writes (`Claim_StockConserved`).
2. **A terminal payment stays** — an older gateway answer applied last undoes
   `SUCCESS` (`Claim_TerminalPaymentsStay`).
3. **SUCCESS means the order was confirmed** — not if the order was cancelled
   before the buyer paid; no job ever looks at it again
   (`Claim_SuccessAdvancesOrder`, under the fairness above).

Seen while modelling and not given a run:

*Orders and payments.*
- `docs.html.ts:1720` says concurrent orders for the last unit can't both succeed.
  Checkout's guarded decrement keeps the stock *column* from falling below zero,
  and that is all `OrdersTypeOK` says. A second cancellation as in 1, or a
  confirmation written by id over a cancellation (`markPaid` has read
  PENDING_PAYMENT, the cancellation puts the unit back, the order is confirmed
  all the same), puts a unit on sale that an order still holds; the next checkout
  takes it, and two live orders share a supply of one. TLC finds this for
  `NeverOversold` under `OrdersSpec` with two orders, two requests and one unit,
  in nine steps. Without overlap on an order `NeverOversold` holds
  (`Serial_orders`, `SerialNeverOversells`).
- `orders.service.ts:203` calls `markPaid` idempotent. Two calls that both read
  PENDING_PAYMENT before either confirms both tell the seller: `SellerToldOnce`
  holds only without overlap on an order.
- The comment at `orders.service.ts:372` says the sweep cancels PENDING_PAYMENT
  orders. It cancels those it read as such, and does not look again: one that
  was paid, or even shipped, since then is cancelled as timed out
  (`SweepCancel`), and the buyer's money stays where it is.
- `docs.html.ts:1719` says CANCELLED is reachable only from CONFIRMED, but unpaid
  orders are cancelled too.
- `docs.html.ts:1921` says only one row per order will ever be SUCCESS, but
  `initiate` opens a new payment as long as the order awaits one, and a buyer can
  pay two of them.
- A transaction Flutterwave has refunded is still reported as successful, so a
  verification after a refund whose own update was lost records `SUCCESS`.
- The report of a reconciliation omits a payment it promoted if a later step for
  the same payment threw.

*Sellers and stores.*
- `docs.html.ts:905` says a rejected applicant may submit again. If the rejection
  (or the applicant's withdrawal) overwrote an approval, the role remains SELLER
  and `submit` refuses.
- `docs.html.ts:907` says the stores of an expired seller are deactivated, but
  `POST /stores` checks the role in a guard; a store whose creation passed it
  before the sweep is opened after it, and an admin may reopen one
  (`StoresFollowRole` says that these are the only two ways).
- A deleted store takes its products along, but their documents stay in the index
  for good: `StoresService.remove` does not tell the indexer and the script only
  upserts.

*Codes and phones.*
- `docs.html.ts:1076` says `OTP_MAX_ATTEMPTS` failed verifications invalidate a
  code, but `verify` writes `attempts` and `usedAt` it computed from an earlier
  read: two wrong entries at once count as one, and a late wrong entry writes
  `usedAt: null` over a code that was used up or replaced (both are why
  `CodeInForce` needs no overlap).
- `users.service.ts:18` says the user must enter the code just sent to set the
  flag, but the flag is set by any code issued for that user: one sent to the
  previous number, still unused, verifies the new one. That is why
  `VerifiedByCode` speaks of a code of the user and not of the number.
- `redis.service.ts:69` calls the rate counter atomic, but the increment and its
  expiry are two calls: if the second is lost, the counter never expires.

*Sessions and links.*
- `docs.html.ts:595` and `:727` say the old refresh token is invalid after a
  refresh and its reuse detected. The hash is bcrypt's, which reads the first 72
  bytes of a token, and those are equal in all tokens of a session; so an earlier
  token may match. `Refresh` allows both outcomes, and no property here depends
  on which it is.
- `docs.html.ts:742` lets a client log out with a refresh token alone, but the
  global guard asks for an access token as well.
- The comment at `auth.service.ts:192` says `changePassword` "revokes every active
  session so existing tokens can't be used after the change". Refresh tokens
  can't; an access token can until it expires, because `JwtStrategy`
  (`jwt.strategy.ts:24`) looks at the user and never at the session. No overlap
  is needed for it: register, keep the token, change the password. The same goes
  for both kinds of logout, and a refresh that had read the session before it
  was revoked still hands out one more token. `AccessEnds` is what is left of the
  promise: the life of one token and the time of one request.
- Nor does a password change end all sessions: a login that checked the old
  password before it and inserts its session after it survives (`late`).
- `isKnownDevice` asks whether there is a session, not whether anyone was told.
  So a device counts as known for good, and is never announced, once it has
  registered, refreshed or changed the password; once it has logged in while no
  phone was verified, which is how every account begins; and once a login from
  it failed between its session and its message. These are the exceptions of
  `FirstUseAlerted`; `docs.html.ts:708` and `:1165` say nothing that excludes
  them.
- `email-verification.service.ts:47` says only the latest link works. Two
  issuances that cross leave two working links, until the next (`OneGoodLink`).
- The id of a queued mail is address and millisecond, so the second of two links
  issued in one millisecond is not mailed (`Dispatch`).
- `register` opens no session if sending the link throws; the account exists, and
  registering again is refused.

## Proofs

TLAPS checks every proof in the eight `*Proofs` modules, for any sets of
products, orders, payments, users, sessions, links and handlers and any bounds that satisfy the
named assumptions (`WorkerIsNoRequest`, `SupplyAssumption`, `OffsetsAssumption`, …).

| Theorem | Property | Argument |
|---|---|---|
| `OrdersTyping` | `OrdersTypeOK` | The only decrement of stock is guarded in the same transaction, hence `stock \in Nat`. |
| `StagesAlwaysInOrder` | `StagesInOrder` | Inductive invariant `StagesInv`: timestamps only grow, and a handler between read and write (`HandStages`) holds a step whose required stage is already stamped. That is why stale writes skip no stage although they may repeat one. |
| `StockIsNeverLost` | `NoUnitLost` | The ledger sums over all orders, by a fold. Three lemmas say what a proof needs of it: a sum over a finite set moves with one summand, with one more element, and not at all. Each is proved by a least counterexample among the finite sets (`FS_StrictSubsetOrderingWellFounded`, `WFMin`) and one unfolding of the fold. `LedgerInv` adds that only finitely many orders were placed (`FinitelyMany`), since `Orders` may be infinite; every step then places, moves on or cancels one order (`LedgerSteps`), and only a cancellation of what was cancelled before can make the sum grow (`BalanceGrows`). |
| `SerialConservesStock` | `StockConserved` | `LedgerExact`, from the refinement: a step of the handlers is a step of the lifecycle (`StepRefines`), and those keep the balance (`LifecycleBalance`). |
| `SerialNeverOversells` | `NeverOversold` | From the same `LedgerExact`, with stock and sums in Nat (`HoldingFinite`). |
| `SerialImplementsLifecycle` | `ImplementsLifecycle` | `SerialInv`: what a handler read is still true at its write (`Fresh`), since the order is in no one else's hands. Then each write is a step of the lifecycle, each other action a stutter. |
| `SerialRestoresOnce` | `RestoredExactlyOnce` | From `SerialInv`: `CancelInternal` is only reached from a cancellable order. |
| `SerialTellsOnce` | `SellerToldOnce` | `ToldInv`: an order its seller was told of, or is about to be, has left PENDING_PAYMENT and does not return to it (`PaidStays`), and no two handlers are about to tell of the same order. |
| `PaymentsTyping` | `TypeOK` | Step by step; calls of Orders are reused through `HandsOK`. |
| `PaidOrdersWereCharged`, `PaymentClaimsAreBacked` | `PaidOnlyIfCharged`, `ClaimsAreBacked` | `BackedInv`: everything *in hand* is backed as well — a pending `markPaid`, a success to apply, a listed or stuck payment — and a gateway never forgets (`PspRemembers`). `InitOnce` keeps a late `init` from reopening a charged transaction. |
| `PaymentsUseOrders` | `ImplementsOrders` | Each step maps to a step of Orders or to a stutter. `KnownInv` is what makes the calls legal: whatever a request has in hand or a gateway lists belongs to a payment row, and a row to an order that exists (`HandKnown`, `NewRowsKnown`), so `markPaid` and `cancelByRefund` are called for such orders only. |
| `PaymentsKeepStages`, `PaymentsLoseNoStock` | `StagesInOrder`, `NoUnitLost` | The theorems about orders, read through the refinement: `OrdersProved` is an instance of the proofs with `handler <- OrderHandler`, and its theorems are cited. |
| `PaymentsConserveStock`, `PaymentsNeverOversell`, `PaymentsTellOnce`, `PaymentsFollowLifecycle` | `StockConserved`, `NeverOversold`, `SellerToldOnce`, – (the `ImplementsLifecycle` of orders) | Likewise from the serial results, under `OrdersDoNotOverlap`: calls of the orders service do not overlap on one order, whereas payments, refunds and reconciliation still may. |
| `SuccessLasts` | – (`SuccessStays`) | `UndecidedInv`: whoever may write another outcome saw a row that was not SUCCESS, and as nobody else has the payment in hand (`PaymentsDoNotOverlap`) it still is not. So the counterexample of `Claim_TerminalPaymentsStay` needs an overlap. |
| `ApplicationsTyping`, `ApprovedAreSellers` | `TypeOK`, `ApprovedIsSeller` | Inductive together. |
| `EachMilestoneOnce` | `RemindedOnce` | `ReminderInv`: what is on the worker's list is still unsent and its approval cannot be touched, because any write under way is of today (`WritesAreOfToday`) while the approval on the list is older than its offset. This is where "a request does not outlive its day" is needed. |
| `ApprovalsLast` | `ApprovalLasts` | `LastingInv` adds to `WritesAreOfToday` that what the expiry sweep has on its list has lapsed (`ListHasLapsed`), also after midnight: an approval that has lapsed is of an earlier day, so no request that is under way can renew or end it before the sweep gets to it. |
| `StoresGoWithRole` | `StoresFollowRole` | Inductive with the types: the one step that takes the role closes the stores in the same transaction, and every other way to an open store looks at the role or is `late`. |
| `CatalogTyping` | `TypeOK` | Step by step, calls sorted by the await they are at (`CallsByAwait`). |
| `CacheIsBounded` | `StaleAtMostTtl` | `StaleInv`: a response in hand is at most as old as its fill (`HeldInTime`), what is in the cache plus its remaining life is within the bound (`KeptInTime`), the current value is of now (`CurrentIsNow`). Invalidations are not needed for it: they only ever remove entries, which is why losing or racing them cannot break the bound. |
| `IndexFollowsTable` | `IndexFollows` | `IndexInv`: for an undisturbed product every document on its way is current, and unless a request is about to send one the engine's last task about it is (`FollowedInv`); requests, not the script, invalidate (`SendersInv`). A script's page may then be lost without harm, a request's may not. |
| `CodesTyping` | `CodesTypeOK` | With `HandsOK`: an unused code has attempts left, so a failed verification never records more than `MaxAttempts`, whatever races. |
| `VerifiedNeedsCode` | `VerifiedByCode` | `VerifiedInv`: a request about to set the flag, or to keep it with the same number, has an accepted code of its user to show (`FlagsBacked`), and accepted codes stay (`CodesStay`). No condition on overlaps. |
| `SerialImplementsInForce` | `ImplementsCodeInForce` | `SerialInv`: at most one unused code per number (`OneEach`), and what a request read is still so (`Fresh`), because a step changes only the codes of a number that no one else has in hand (`ChangesInHand`, `FreshKept`). |
| `SerialAcceptsOnce` | `AcceptedOnce` | `AcceptedInv`: an accepted code is used up, and stays so (`UsedStays`), since a request about to write a code has one that is unused (`WriteEffect`). |
| `TypesHold` | `TypeOK` of `Sessions` | Step by step. |
| `AccessAlwaysEnds` | `AccessEnds` | `EndedInv` adds the requests in hand (`InTime`): whoever is about to rotate or sign for a revoked session read or opened it before the end, so the time since the end is at most the request's age, which `Tick` bounds. Revoking twice must not restart the count, which is why `updateMany` looks only at rows not yet revoked. |
| `PasswordsEndSessions` | `PasswordEndsSessions` | `PasswordInv`, over expired rows as well, since `Rotate` renews them: the change of the password and the end of the sessions are one transaction; `Rotate` never clears `revokedAt`, and what a login inserts afterwards with the old password is in `late`. |
| `DevicesAreAlerted` | `FirstUseAlerted` | `AlertInv` adds what is on its way: a call about to open a session from a device that is not new, or to rotate one, brings a device that is accounted for; since every row satisfies that too, what `IsKnownDevice` finds is no secret. Nothing is assumed of the phone: a login carries what it read, and one that read no verified phone accounts for its device when it opens the session. |
| `LinkTypesHold` | `LinksTypeOK` | Step by step. |
| `LatestLinkAlone` | `OneGoodLink` | `LoneInv`: a user not in `crossed` has no good link while a request stands between the two queries, so its `Create` makes the only one; if a second request stands there too, that `Create` puts the user in `crossed`. |
| `LinkAlwaysAvailable` | `LinkAvailable` | Whatever takes the last good link leaves one of the other cases true: a redemption the flag, an invalidation an issuance under way, its failure `stranded`. |

Each strengthening was checked with TLC before it was proved.

Model-checked only: liveness (`StuckOrdersResolved`, `AbandonedReleased`,
`LapsedExpires`, `QueuedIsSettled`), which is beyond the prover, as is ENABLED,
which fairness is about. Every invariant, action property and refinement
of the passing runs is stated by a theorem. Proved and not part of a run: `SuccessStays`; a run
would have to leave overlapping steps out by a constraint, and was made that way
before the proof, with one payment, two requests and the worker.

## Not modelled

- Amounts, currencies and the comparison in `reconcile` (a mismatch is one of
  the reasons `ListSince` may not list a payment); the stored reports.
- Webhook signatures, roles (except the seller's), ownership, validation. What
  authentication remembers, sessions and tokens, is in `Sessions`.
- Real time: the 24 h window of reconciliation and the grace period are any
  moment; a gateway's answer may take any time.
- The figures of an edit of a product's stock by its seller: an absolute figure
  written over concurrent orders breaks any ledger. `Catalog` has the edit and
  the orders as changes of the row; `Orders` assumes no such edit.
- Filters, paging, categories and store names in product responses; documents
  of products that are gone are found by a search and dropped by the join with
  the table (`ReadHits`), so they never reach a response.
- The hourly rate counter of codes: a request may be turned away at any time.
  With a counter and its own expiry per number the instance of `Serial_codes`
  is too large to check. Codes of other purposes: they change no user and share
  nothing with these.
- Categories: the same `wrap` and `delByPattern` as products, and a category is
  only ever created.
- The check in `create` that the store and its products are active, which is
  made before the transaction: `onSale` may change between the two, and no
  property forbids an order that was admitted just in time.
- Isolation anomalies inside one transaction: row locks of the guarded updates
  make those modelled here atomic.
- The SMS queue, media storage and the texts of mails: one external call each,
  without state. That a queued SMS may be lost is in `NotifySeller`, `Warn` and
  the reminders; its retries are those of `MailQueue`.
- Cleanup of rows past their time: nothing in the code deletes sessions, links
  or codes.

## Plan

1. *(done)* Orders, Payments, SellerApplications, Catalog, OneTimeCodes with
   proofs.
2. *(done)* Sessions, EmailLinks over MailQueue, the words of the two gateways,
   stores in SellerApplications, `SellerToldOnce`; with proofs.
3. **Catalog with Orders** — absolute stock edits against the ledger;
   convergence of the index as liveness.
4. *(done for orders with payments)* The results about orders carried over to
   orders with payments; the exact ledger; approvals last. Open: abstract
   lifecycles of a payment and of an application, refined under the same
   no-overlap condition, and the proofs of these refinements.
5. The time window of reconciliation (24 h, and runs that start late) and the
   rate counter of codes, whose increment and expiry are two calls.

Modules come before their proofs; runs of claims give way to runs of new
components when there is something better to check.
