# Formal models of the TOUMA marketplace

TLA+ models of the order, stock, money, after-sales and negotiation core of this
repository's marketplace (`src/touma/`, Express + Prisma + PostgreSQL), checked with TLC and,
for the properties that matter most, proved with TLAPS. Paths below are relative to
`src/touma/` of the repository unless they say otherwise.

## 1. Inventory of the system

The repository holds an earlier dropshipping shop (`src/modules`, `src/automation`,
`boutique/`, `apps/web`, `public/`) and the marketplace that replaces it
(`src/touma/`, about 35 000 lines). The marketplace carries the logic whose errors cost
goods or money. Every HTTP request is an asynchronous handler; all shared state is in
PostgreSQL at its default isolation, READ COMMITTED; several server instances and the
maintenance jobs run on the same database. There are no queues: components call each other,
share rows, and hear from payment providers through webhooks.

| Component | State it keeps | Operations | Talks to | What is hard | What makes it correct |
|---|---|---|---|---|---|
| Checkout (`orders/checkout.service.ts`) | order groups, orders, lines | `checkout` | stock, coupons, loyalty, shipping, all in one transaction | competing baskets, partial failure, row deadlocks | a basket is all or nothing; no oversale |
| Stock (`inventory/stock.service.ts`) | `quantity`, `reserved`, a journal of movements | `prelever`, `libererStock`, `fixerStock`, `creerStock` | called inside the transactions of checkout, orders, sweep, returns, imports | concurrent movements of one row, reads before the row lock | quantity never negative; journal and row agree; transactions atomic |
| Orders (`orders/order.service.ts`) | order status | `updateStatus` | stock, group status, then loyalty, trust, notifications | the status is checked on a read and written by id | stock released once; legal transitions |
| Group status (`orders/group-status.ts`) | status of the group | `refreshGroupStatus` | every mover of an order, or not | called by some movers only; write skew | the group says what its orders say |
| Reservation sweep (`orders/reservation.ts`) | none (opportunistic and cron) | `expireStaleReservations` | orders, stock, groups, payments | several instances; payments that start meanwhile; a failing order | stock comes back exactly once, and eventually; a paying buyer is spared |
| Payments (`payments/payment.service.ts`) | payments, provider events | `create`, `confirm`, `handleWebhook`, `applySuccess` | provider, orders, ledger, settlement, commissions | duplicated, late, reordered events; crash between two commits; double click | booked once and in full; a success is eventually applied; one charge per basket |
| Shipments, pickup (`logistics/`) | shipments, pickup codes | `createShipment`, `updateStatus`, `cancel`, release | orders | write the order's status whatever it is | a parcel does not revive a dead order |
| Refunds (`payments/refund.service.ts`) | refund rows | `execute`, `executeForPayment` | provider, payments, ledger, settlement, loyalty | external call between two writes; crash; two at once | never refund more than paid; nothing lost from the books |
| Returns (`returns/return.service.ts`) | return requests | create, approve, reject, ship, `receive`, cancel, `refund` | stock, refunds | every write is by id after a check; the refund commits before the mark | no double restock, no double refund |
| Disputes (`disputes/`) | disputes, fund holds | open, answer, resolve, escalation job | orders, ledger, groups, settlement | several disputes at once; a decision is a chain of commits; wrong id passed to the group refresh | the order leaves DISPUTED with its last dispute; funds held until then |
| Ledger (`finance/ledger.ts`) | entries with a unique reference | `record*`, `holdForDispute`, `releaseHold` | payments, refunds, disputes | several disputes per order | idempotent entries; held money does not leave |
| Settlement (`finance/settlement.service.ts`) | allocations, payouts | eligibility sweep, create/process/hold/release/cancel a payout | orders, disputes, refunds | unconditional writes after a check; eligibility decided once | each part paid once; nothing paid under a dispute; a seller is settled |
| Cash on delivery (`payments/cod.service.ts`) | collections | `confirm`, `collect`, `fail` | payments | three commits for one collection | cash and books agree |
| Idempotency keys (`lib/idempotency.ts`) | keys and stored answers | middleware, purge | wraps the payment, refund and checkout routes | two retries of one failure; purge | an operation runs once per key; a replay is true |
| B2B (`b2b/b2b.service.ts`, `negotiation.ts`) | requests for quotation, offers, their lines, proposals | `createQuote`, `counter`, `applyProposal`, `reject`, `withdraw`, `acceptQuote`, `closeRfq`, expiry | orders | stale writes that reopen an offer; two revisions at once | one order per offer; an award closes the rest; lines add up to the total |
| Coupons, promotions (`promotions/`, `growth/`) | usage counts, budgets | evaluation, claim, `consume` | checkout | priced before, counted in or after the transaction | limits hold; every use is counted |
| Loyalty (`loyalty/loyalty.service.ts`) | balance, events | `redeem`, `awardForOrder`, `reverseForOrder`, `adjust` | checkout, orders, refunds | the balance is written from a read | the balance is the sum of the events; a refund takes its points back |
| Maintenance (`maintenance.ts`) | none | cron jobs | all the sweeps | two instances at once | each job is idempotent and keeps being run |
| Integrity (`admin/integrity.service.ts`) | none, read-only SQL | report | everything | — | source of invariants used here |

Catalogue, cart, stores, geography, trade documents, messaging, support, trust and
reputation, accounts and the assistant are listed with their reason in `PROJECT.json`; none of
them is modelled. The full list of hazards, each at its line, is there as well.

## 2. What is modelled

### Modules

| Module | What it is |
|---|---|
| `OrderRules` | the tables: transitions, roles, `groupStatusFrom`. No state |
| `OrderFlow` | orders, stock, sweep, payments, parcels at the grain *read / commit* |
| `StockContract` | abstract: baskets served, refused or failed as a whole |
| `StockMovements` | `stock.service.ts` statement by statement, with row locks; implements `StockContract` |
| `PaymentEvents` | `payment.service.ts` statement by statement, with event deliveries and crashes |
| `RefundContract` | abstract: what `execute` promises its callers |
| `Refunds` | `refund.service.ts` statement by statement, with refusals and crashes; implements `RefundContract` |
| `Returns` | `return.service.ts` on top of `RefundContract` |
| `Disputes` | disputes, the ledger lines they hold, and who else writes their orders |
| `Settlement` | `settlement.service.ts`, composed with `Disputes` as its environment |
| `IdempotencyKeys` | the middleware |
| `CashDesk` | `cod.service.ts` and its route, inside the middleware of `IdempotencyKeys` |
| `Quotes` | one request for quotation and its offers |
| `Discounts` | coupon, promotion budget and loyalty points |
| `MC…` | the TLC instances: `MCOrderFlow`, `MCStockMovements`, `MCPaymentEvents`, `MCRefunds`, `MCReturns`, `MCSettlement`, `MCQuotes`, `MCDiscounts`, `MCCashDesk` |
| `…Proofs`, `SumTheorems` | see section 4 |

How they fit together:

* `OrderFlow` takes and releases the stock of an order in one step; `StockMovements` shows that
  the statements of a transaction implement that step (`Atomic`).
* `OrderFlow` has `applySuccess` in two steps, read and commit; `PaymentEvents` has it
  statement by statement and asks what two of them do to the books. `CashDesk` uses the result:
  a sale is booked once, by a transaction that commits as a whole.
* `Refunds` begins where they end, with a payment that succeeded, and is shown to implement
  `RefundContract` (`KeepsContract`). `Returns` EXTENDS the contract: its calls of `execute`
  take exactly the steps the contract allows, interleaved with the handlers of returns and with
  refunds of the administration's own.
* `Settlement` EXTENDS `Disputes`: its next-state relation has a disjunct `DisputeNext` for
  deliveries, disputes, updates of the order and refunds, which go on between an
  administrator's read and write. `Disputes` shares the tables of `OrderRules` with `OrderFlow`.
* `CashDesk` EXTENDS `IdempotencyKeys`: the middleware's steps and those of the handler it lets
  through are steps of one request.

### Grain: how a handler becomes actions

Under READ COMMITTED a handler reads committed rows, decides in JavaScript, and writes. What
matters is what can change between its read and its write, so:

* a handler that reads, decides and writes by id is **two** actions, `XRead` (with every
  check and early return) and `XCommit` or `XWrite` (every write of its transaction). Nothing is
  re-checked by the second, exactly as in `order.update({ where: { id } })`;
* a conditional `updateMany` is **one** action: PostgreSQL re-evaluates its WHERE on the
  newest committed row after waiting for the lock (`SweepClaim`, `prelever`, `CouponClaim`,
  `AcceptCommit`, `SweepWrite`);
* several writes of a transaction become visible together at its commit;
* a handler without a transaction is one action for each of its commits (`ResolveDecide` to
  `ResolveWrite`, `FailWrite` and `FailPayment`), and may die between any two;
* a `findUnique` with `include` is a SELECT for the row and one for each relation. Where what
  the handler writes relies on the two together the read is two actions (`AcceptRead` and
  `AcceptItems`: the offer with its total, then its lines); elsewhere it is one.

### History variables

Several properties hold but for a race the code leaves open. The race is then recorded by a
history variable that no guard reads, and the property says what holds of everything the
race did not touch. Each was introduced because TLC showed the behaviour:

| Variable | Module | Records |
|---|---|---|
| `revived` | `OrderFlow` | orders written to after they were CANCELLED |
| `revived`, `late`, `crossed`, `torn` | `Quotes` | offers reopened by a stale write; offers made after the award from a read before it; offers two revisions of which overlapped; offers revised between the two reads of an acceptance |
| `strayed` | `Settlement` | payouts written to after they were cancelled, or after their status had changed since it was read |
| `crossed`, `broken` | `CashDesk` | requests that replaced one end of a collection by the other; requests that ended between the collection and the sale |
| `unguarded` | `IdempotencyKeys` | keys whose failure two retries took over, or purged under a retry |
| `crowded`, `stale`, `together` | `Returns` | orders with a return created from a count that had changed; returns moved by a stale request; returns with two refunds under way |
| `crossed`, `doubled`, `missed` | `Discounts` | a balance written from a stale read; orders two reversals of which summed the events at once; orders whose points were earned after a full refund, or whose reversal died |

`paid` and `content` in `Settlement`, `applied` in `PaymentEvents` and `forgiven` in `Discounts`
only remember what happened.

What a history excuses is therefore not shown by the property that names it: the stale
cancellations of orders, the reopened offers, the double reversals and the like are behaviours of
the code, listed in section 3, and the hazards of `PROJECT.json` say for each whether a property
covers it. What the property adds is that these are the only ways.

### State and code

**OrderFlow.** `status`, `groupStatus`: `ToumaOrder.status` (`"none"` before checkout),
`ToumaOrderGroup.status`. `quantity`, `reserved`: `ToumaInventory`. `aged`: orders with
`placedAt < now - RESERVATION_MINUTES`. `payment`: `ToumaPayment.status`, `"creating"` while the
provider is asked. `applying[c]`: the orders a running `applySuccess` read as PENDING.
`shipment`, `collected`: last shipment of the order, `pickupCollectedAt`. `request[r]`: what a
running handler has read and is about to write. `sweeping[s]`: candidates a sweep still has to
claim. An order line of *n* articles is *n* units, so that "how much of product p do these
orders need" is a cardinality; two orders of a group taking the same product are two sets of
units.

**StockMovements.** `row` is the version the lock owner works on, `committed` the one others
read. Each of `Take`, `Release`, `SetQuantity` is the UPDATE, the re-read and the journal insert
of one line: the row lock makes them one step. `ReadBefore` is a step of its own because the
first read of `libererStock` and `fixerStock` takes no lock. Deadlock detection and rollback
are PostgreSQL's and marked external in the map.

**PaymentEvents.** `delivery[d]` is the program counter of a request that brings an event
(webhook, or the buyer's `confirm`). The event row and the application of the verdict are two
commits; `Crash` may come between any two statements. The payment row's lock is held from
`ApplyLock` to `ApplyCommit`; the unique index of the ledger makes a concurrent insert of the
same sale wait (`ApplySale`).

**Refunds.** `step[c]` is the program counter of a call of `execute`; `row[c]` the refund row it
wrote, `seen[c]` the `payment.refundedAmount` it read, `full[c]` its `orderFullyRefunded`. `out`
is what the provider has given back; `refunded`, `booked`, `commission` and `marked` are what
the transaction at the end (`Book`) writes. That transaction is one step: it starts with an
increment of the payment row, whose lock makes two of them run one after the other, and what
it reads afterwards is written under that lock only. `todo` and `rest` belong to
`executeForPayment`, which awaits one call after the other, in any order, since its query
gives none. Amounts are whole numbers of a currency without decimals (the XAF and XOF of the
marketplace), rounded as `roundTo` does. The refinement maps a call to `"given"` once the
provider has paid and to `"booked"` once its row is COMPLETED; a call that dies keeps its phase.

**Returns.** `ret[t]`: `ToumaReturnRequest.status`; `back[o]`: units `libererStock` put back;
`task[h]`: what a handler has read; `returnOf[c]`: the `returnRequestId` of a call of `execute`;
`closed`: calls after which `refund` has marked the return. An order has one product at one
price, and the amount approved is the amount requested.

**Disputes and Settlement.** `dispute[d]`: the statuses that block an order and are not
ESCALATED are one, `"waiting"`; the ways to decide are one, `"decided"`. `holder[o]` and
`released`: `heldByDisputeId` and `releasedAt` of the order's ledger lines. `resolver[r]`: how
far a request to decide has got. `asked`, `repaid`: refunds with a row that counts, and
`refundedAmount` of the settlement part. `part[o]`, `payoutOf[o]`: status and `payoutId` of the
part; `payout[p]`, `sum[p]`: status and amount of the payout; `sweep[s]`: verdicts
`refreshEligibility` has still to write; `admin[a]`: what a request on a payout has read. Of
`deliveredAt` the models keep whether there is one (`delivered`) and whether it is longer ago than the
protection period (`matured`): `Mature` is the clock, a new delivery (`DeliverNow`) begins the
period again. `Track` is the seller's tracking and the pickup counter: SHIPPED, IN_TRANSIT or
DELIVERED is written to the order at any time, as often as it is sent, whatever the order is by then.
`updateStatus` (`MoveRead`, `MoveCommit`) writes back the `deliveredAt` it read, so a stale one
forgets a delivery or restores it. A request that has ended is free for another (`Finish`),
so that one resolver decides any number of disputes; one that died is not.

**CashDesk and IdempotencyKeys.** `key[k]`: status of the key's row; `at[r]` and `step[r]`: where
a request is in the middleware and in its handler. `collection`, `payment`, `ledger`: one
collection and what becomes of it. `Throw` is a failed database call, answered by the error
handler, which marks the key FAILED; `Die` is the death of the process, which leaves it
IN_PROGRESS.

**Quotes.** Lines and totals are versions: all that is told apart is whether the rows of an
offer are those its total was computed from. A revision is three actions, because the
`deleteMany` of its transaction sees the rows committed when it starts, and two revisions
whose deletions overlap each leave the other's rows. `proposed` are the offers with a
counter-proposal the seller may take over; `stale` those whose `validUntil` is past, which the
acceptance refuses although the status is still open. An acceptance reads the offer with its
total (`AcceptRead`) and then its lines (`AcceptItems`), and writes both at the end.

**Discounts.** `basket[b]` is priced, created and counted, with what it was priced with. Its count
ends `"done"` (a usage), `"short"` (the budget has no room: the promotion is paused, if the budget
`stops` it) or `"uncounted"` (`ConsumeNothing`: a budget in another currency, an exception that is
only logged, a request that died after the commit), and the order keeps its discount each time. `clerk[c]`
is a request that moves points: credit on delivery, reversal after a refund, adjustment.
`refunded[b]` is the part refunded, in points: the share of the order times what it earns.

## 3. Runs

| Run | Module | Asks | Result |
|---|---|---|---|
| `orders` | `MCOrderFlow` | are goods conserved, paid groups spared, cancelled groups dead, in any interleaving | holds |
| `orders_progress` | `MCOrderFlow` | does an unpaid order stop holding its stock | holds under fairness |
| `stock` | `MCStockMovements` | do the statements implement the atomic contract; do journal and row agree; does every transaction end | holds |
| `payments` | `MCPaymentEvents` | is each order booked once and in full; is each event applied at most once | holds |
| `refunds` | `MCRefunds` | does `execute` keep its contract; is money that left traced and booked; do concurrent halves mark the order refunded | holds |
| `returns` | `MCReturns` | do units come back once; is a return refunded once | holds |
| `disputes` | `MCSettlement` | does an order leave DISPUTED with its last dispute; are funds held until then; is the seller settled in the end | holds, the last under fairness |
| `settlement` | `MCSettlement` | is each part paid once; do parts, amounts and payouts agree | holds |
| `settlement_dispute` | `MCSettlement` | does the money of a disputed order stay | **violated** |
| `quotes` | `MCQuotes` | one order per accepted offer; does an award close the rest; do lines add up | holds |
| `discounts` | `MCDiscounts` | do limits and counters hold; is the balance its events; does a refund take its points back | holds |
| `cash` | `MCCashDesk` | does a key run one request at a time; do cash and books agree; is a replayed answer true | holds |

"Holds" is meant with the histories of section 2: `StockExact`, for example, speaks of products
none of whose orders was written to after its cancellation. That condition is what the code
does and not a convenience: two cancellations that read the same order both release its
stock, and so does the cancellation of an order a payment or a parcel has revived.

### The disagreement

`NothingPaidUnderDispute`: `disputes/dispute.routes.ts:220-222` says, where a dispute is opened,
"Les fonds de cette commande ne doivent plus partir tant que le dossier n'est pas tranché".
`processPayout` (`finance/settlement.service.ts:373-377`) looks at the payout's own status
only; whether an order is disputed was looked at once, when its part became ELIGIBLE (194). The run
delivers an order, lets its part become eligible and enter a payout, opens the dispute and
processes the payout.

### Other things the models show

These are behaviours of the models that differ from what a comment or document says, or that a
maintainer would want to know. They have no run of their own; each is either what a history
variable excuses or a guard of the model that is visibly missing.

* A payment created between the sweep's read and its claim does not protect the order
  (rule 1 of `orders/reservation.ts:18-23`): it is cancelled while the buyer is paying.
* `applySuccess` writes PAID by id on what it read as PENDING (`payments/payment.service.ts:88-89`):
  a cancellation that commits in between is overwritten after its stock was released, a
  change `orders/order.service.ts:17-18` does not list.
* The difference a release or a count journals is measured from a read made before the lock
  (`inventory/stock.service.ts:234`), where the comments at 104 and 270 promise the one really
  applied: the column `quantityAfter` stays right (`JournalAgrees`), `quantityDelta` does not add up.
* Two clicks on "pay" without an idempotency key make two payments and both can succeed; the
  second books nothing (`CommissionOnce`), so its money is not in the ledger
  (`payments/payment.service.ts:282`).
* A webhook request that dies between the event row and its application makes each redelivery
  a "duplicate" (`payments/payment.service.ts:506`); the buyer's `confirm` can still apply it.
* Each reversal of commission is a share of what earlier reversals left
  (`payments/refund.service.ts:262`): two halves give back a half and then a quarter
  (`docs/touma-marketplace.md:291-292` announces the share of the refund). It never gives
  back too much: `TypeOK` of `Refunds` keeps the commission non-negative.
* `closeRfq` writes CLOSED by id: a request awarded since its read goes from AWARDED to CLOSED, and a
  revision, a rejection or a proposal can reopen an offer after the award (`revived` in `Quotes`).
* Tracking writes the order whatever it is (`logistics/logistics.service.ts:239`): a delivered order goes
  back to SHIPPED or IN_TRANSIT, where its seller is not settled; a disputed one leaves
  DISPUTED before its dispute is decided; each DELIVERED sent again begins the protection
  period anew.
* `updateStatus` writes back the `deliveredAt` it read (`orders/order.service.ts:301`): a delivery
  recorded in between loses its date, and an order without one is never settled.
* A request that dies after it decided a dispute, before the order leaves DISPUTED, leaves it there
  (`disputes/dispute.routes.ts:354-419`): the decision is refused when it is sent again.
* An acceptance reads the offer and its lines in two SELECTs (`b2b/b2b.service.ts:485-488`): a
  revision committed between them makes an order with the old total and the new lines (`torn`).
* A promotion is granted and never counted when the budget is in another currency, when the
  transaction fails (the exception is logged only) or when the request dies after the orders
  exist; and one whose budget does not stop it is granted for ever, past its budget
  (`growth/promotion.service.ts:321-350`).
* `collect` and `fail` of one collection both read it open and write by id (`payments/cod.service.ts:216`):
  the cash may be in, the collection failed (`crossed`). The cash may also be collected and
  the sale never booked, when the request dies in between (`broken`,
  `payments/payment.routes.ts:110`).
* Two retries of a failed operation both take its key over, and one that meets a purge is let
  through without a key (`lib/idempotency.ts:129`, `unguarded`).
* A movement of points written from a stale balance loses another (`crossed`,
  `loyalty/loyalty.service.ts:74`); two reversals that sum the events at once take points back
  twice (`doubled`, 239).
* A collection of less cash than is due still books the whole sale.
* The points a basket redeemed and the use of its coupon are not given back when the order is
  cancelled.
* `refreshGroupStatus` receives the id of the order at `disputes/dispute.routes.ts:418`: the group
  is left as it was.

### Bounds, and why they are enough

* `orders`: two groups, the first with two orders (the smallest where siblings matter), the
  second competing for the same product with too little stock for both; one payment with
  two `applySuccess` calls, two requests of any kind (two are needed for a double
  cancellation), two sweeps. `Targets` is {SHIPPED, CANCELLED}: one status that leads forward
  and the one that releases stock; PAID, PROCESSING and DELIVERED come from the payment,
  shipment and pickup handlers. `MaxFailures = 0`: a sweep that gives up changes no row
  and is covered by `orders_progress`.
* `orders_progress`: no symmetry (liveness), one request with targets PAID and CANCELLED (an
  administrator may write PAID), `MaxFailures = 1`, no pickup.
* `stock`: two products, two crossed baskets (the only way to a deadlock), one release, one
  count, one rival basket; less cocoa than the baskets ask for.
* `payments`: two payments of a group of two orders; the success of the first delivered
  twice, a late failure of it, the success of the second, one poll of the first;
  `MaxCrashes = 1`.
* `refunds`: a payment of two orders; two calls on the first (half, and all that is left), so
  that two see one balance, and one spread over both that asks for less than the whole, so
  that it hands out a full part, a cut part and meets an order with nothing left;
  `MaxRefusals = MaxCrashes = 1`. Commissions of 3 and of 1 make the halves round up.
* `returns`: an order of two units, returns of one and of two units (together more than was
  bought), two handlers (any race here is between a read and a write of two requests) and two
  calls of `execute`, each the refund of a return or the administration's own.
* `disputes`: one order with two disputes, one of which is answered too late (`Overdue`), two requests
  that decide them, one stale update (COMPLETED, which keeps the order settleable and writes the
  old `deliveredAt` back), one sweep, `MaxCrashes = 1` so that a decision may stop between any
  two of its commits; no payouts. `Tracked` is {SHIPPED, DELIVERED}: IN_TRANSIT differs from SHIPPED in
  nothing these properties look at. The buyer paid 1 of the 2 the part counts (the part is
  made of the amounts before discounts), so that after a refund in full something is still owed
  and the part is not cancelled. A second order would share nothing with the first.
* `settlement`: one part that two payouts want, two sweeps and two administrators; a total of 2 and a
  fee of 1, so that a refund of half leaves less than the amount of the payout; parcels that go
  back to IN_TRANSIT. No disputes: to this module they only decide eligibility, which `disputes`
  covers.
* `settlement_dispute`: the smallest instance with the behaviour.
* `quotes`: two shops, two requests, four versions: each offer can be made, revised by both
  requests at once, accepted and reopened, and revised while it is being accepted.
* `discounts`: a coupon with one use left and a budget for one of two baskets, which stops the
  promotion or does not; any count may be lost; one basket followed on to its points, two
  requests that move points, one adjustment, one request that dies. One order earns 2 and both
  half and full refunds occur.
* `cash`: three requests under one key (two retries of one failure need a first that failed) and one
  without, one confirmation, one failed delivery, one purge, one fault of either kind.

Sets of interchangeable requests are symmetric in the runs without a temporal property.
`CHECK_DEADLOCK FALSE`: every instance is a finite set of requests and ends when all are done.

### Fairness

* `OrderFlow`: weak fairness of `SweepRead` and `SweepClaim`, because
  `startToumaMaintenance` schedules the reservations job by cron for ever and the loop works
  through its list. Users, providers and the clock promise nothing; failures are bounded by
  `MaxFailures`, since a job that failed for ever would promise nothing.
* `StockMovements`: weak fairness of each transaction's own steps: the server runs what it
  opened, PostgreSQL detects deadlocks after `deadlock_timeout`. None for `Abort`.
* `Settlement`: weak fairness of each sweep's `SweepRead` or `SweepWrite` (the settlements job is
  scheduled like the other, and works through what it has read) and of `Proceed` by some
  request (a server that lives works through the requests to decide it began; one that dies,
  `ResolveCrash`, has no further step, and `MaxCrashes` bounds these). Buyers, sellers and
  administrators promise nothing: `SellerIsSettled` asks only of an order that in the end stays
  delivered, past its protection period, with no open dispute and no decision that died.
* `PaymentEvents`, `Refunds`, `Returns`, `Quotes`, `Discounts`, `CashDesk`: none; only safety is
  asked. A call that dies is never taken up again, so nothing could be promised of it.

## 4. Proofs

Eight modules are checked by tlapm to the last leaf. The only assumptions are the named
ASSUMEs next to the constants (`OrdersAssumption`, `MovementsAssumption`, `RefundsAssumption`
and so on): which functions go between which sets, that amounts are natural numbers (totals of
orders, units and earnings positive ones), and that a marker such as `"none"` is not the name of
an instance. Sets of requests, sweeps, payments, deliveries, offers and administrators are
arbitrary; what is counted or added up must be finitely many: units of stock, baskets, the
orders of a payment or of a settlement, calls of `execute` and returns.

| Module | Theorem | Statement |
|---|---|---|
| `OrderFlowProofs` | `FlowInvariant` | `Spec => []FlowInv`, the inductive invariant |
| | `TypeCorrect` | `Spec => []TypeOK`: no quantity or counter is ever negative |
| | `StockNeverLost`, `StockIsExact` | `NoUnitLost`, `StockExact` |
| | `PaidNotPending`, `CancelledIsDead` | `PaidGroupNotPending`, `CancelledGroupIsDead` |
| `StockProofs` | `StockIsTyped`, `JournalIsTrue` | `TypeOK`, `JournalAgrees` |
| | `StatementsAreAtomic` | `Spec => Atomic`: `StockMovements` implements `StockContract` |
| `BuyerProofs` (`PaymentEvents`) | `EventsInvariant` | the inductive invariant |
| | `OneCommission`, `SuccessIsBooked`, `AppliedOnce` | `CommissionOnce`, `SucceededIsBooked`, `EventAppliedOnce` |
| `BuyerProofs` (`Discounts`) | `CouponIsCounted`, `BudgetIsCounted` | `CouponCounted`, `GrantsAreCounted` |
| | `BalanceFollowsEvents`, `NoMoreThanEarned`, `RefundTakesAll` | `BalanceIsSum`, `ReversedWithinEarned`, `RefundTakesPointsBack` |
| | `TypesAreKept` | `DiscountsTypeOK`: the balance is never negative |
| `RefundsProofs` | `RefundsTypes` | `TypeOK`: no commission is ever negative |
| | `MoneyHasTrace`, `RefundBooksAgree`, `FullRefundMarked` | `TraceBeforeMoney`, `BooksAgree`, `FullRefundIsMarked` |
| | `RefundsKeepContract` | `Spec => KeepsContract`: `Refunds` implements `RefundContract` |
| | `NeverMoreThanTotal` | the money given back for an order never exceeds its total |
| `SettlementProofs` | `DisputedOrderComesOut`, `HeldUntilDecided` | `DisputeEnds`, `HoldFollowsDispute` |
| | `PartsAreFollowed`, `NobodyIsPaidTwice` | `PartsFollowPayout`, `PaidOnce` |
| | `SettlementTypes`, `AmountsCoverParts` | `TypeOK`, `AmountCoversParts` |
| `QuotesProofs` | `TypeCorrect`, `QuotesInvariant` | `TypeOK`, the inductive invariant |
| | `OneOrder`, `AwardCloses` | `OneOrderPerOffer`, `AwardClosesTheRest` |
| | `LinesAreTheTotals`, `OrdersAreSums` | `LinesMatchTotal`, `OrdersAddUp` |
| `SellerProofs` (`CashDesk`) | `DeskInvariant` | the inductive invariant |
| | `RunsOneAtATime`, `CashIsBooked`, `ReplaysAreTrue` | `OneAtATime`, `CashAndBooksAgree`, `ReplayIsTrue` |
| `SellerProofs` (`Returns`) | `NoUnitTwice`, `ReturnPaidOnce` | `UnitsComeBackOnce`, `ReturnRefundedOnce` |
| `SumTheorems` | `SumAdd`, `SumRemove`, `SumUnion`, `SumChange`, ... | how `SumFunctionOnSet` behaves on finite sets |

`BuyerProofs` and `SellerProofs` each hold the proofs of two specifications that have no variable
in common, which is why `Discounts` and `Returns` name theirs `DiscountsSpec` and `ReturnsSpec`.

None of the properties is inductive alone. Each invariant adds what a request relies on between
its read and its write:

* **Orders** (`FlowInv`). Orders of a group are placed together (`GroupsTogether`), a payment that exists
  belongs to a placed group (`PaidPlaced`), what `applySuccess`, a request or a sweep has read
  are placed orders (`ApplyingPlaced`, `RequestPlaced`, `HeldPlaced`). Without it a commit could write to
  an order that was never placed, and stock that was never taken would be released. The stock
  theorems then need arithmetic on cardinalities: when an order leaves or enters `Live`,
  `Need(Live, p)` changes by `Need({o}, p)`. The lemma `StepShape` reduces the actions to the few
  shapes that matter to stock, so that each theorem has a handful of cases.
* **Stock** (`StockInv`). A transaction owns the rows it has touched (`Owners`), and a row it owns is the
  committed version with one line of the contract applied (`Versions`); so its commit is one step
  of `StockContract` and every other statement a stutter. The journal's last line is carried along.
* **Payment events** (`IInv`). Books: what an open transaction has inserted is not yet committed and nobody
  else's. Open: whoever is between `ApplyLock` and `ApplyCommit` holds the payment. Behind: a payment that
  succeeded has its orders paid and booked. Once: an event's row precedes its application.
* **Settlement** (`PayoutInv`, `DisputeInv`). The parts of a payout no stale request wrote to are those that
  point at it (`PartsFollowPayout`), and a paid one stays paid (`PaidStays`). For disputes: a
  decision is followed through by the request that made it (`Decided`, `ReleaseComes`,
  `EndComes`), and the request that comes last sees no other open. A request that read the order
  before its delivery does not count as on the way (`OnTheWay`): it would write nothing.
  The amounts (`AmountInv`) are an interval: what a request has added up, and later the payout it
  makes of it, lies between what those parts are owed now and what they were owed at first
  (`AmountsCover`), because a refund in between only lowers what is owed (`NetSumFalls`).
* **Refunds** (`RefundInv`). `RowOfStep` ties a call's row and the provider's answer to how far the
  call got; `NotCalled`, that a batch starts no call before its turn. `Ceiling` is the heart: the calls
  about an order that passed the second look hold together no more than its total, since each counted,
  when it passed, the rows of all that had passed before. From it follow that the provider never gives
  more than the total and so the refinement (`Repay` is `Give`, `Book` is `Settle`, a refusal
  `Decline`, all else a stutter), and that the commissions reversed, each rounded half up
  (`RoundedBounds`), never exceed what was charged. `FullSeen` says that among the calls that have
  decided, if they add up to the total, one has seen it; that call marks the order (`FullMarks`).
* **Returns** (`ReturnInv`). `UnitsCounted`: stock got back at most the units of the returns that came back,
  which are among those in use, which are at most those bought. `CallsPay` and `OneCall`: a return has
  one call of `execute` that was not refused, and it gave what the return asks for. The histories
  `crowded`, `stale` and `together` are what the steps that break these set.
* **Quotes**. For each request, what it has read against what the offer is now: who rewrites the lines
  (`Rewriting`), and an acceptance (`Accepting`): a total it has read is no later than that of the
  offer, which was made (`Made`), and is still the offer's unless it was revised since (`torn`);
  so the lines it reads next are of that version or a later one, whatever has happened between.
* **Discounts** (`CheckoutInv`, `PointInv`). A basket is priced before its transaction (`PricedBefore`), one
  that waits to be counted was granted the promotion (`CountedAfter`); a request that takes
  points back has summed the events as they still are (`OneReverses`), so what it takes completes the share (`TakesBackAll`).
* **Cash desk** (`IInv`). The request that runs holds its key (`KeyHeld`); how far it is says what the
  collection, the payment and the ledger hold (`Midway`, `Agreed`), and a completed key means a booked
  sale (`DoneIsBooked`).

Refunds, returns and settlement add up amounts with `SumFunctionOnSet`, which is defined by a
recursive function over the subsets of a set. What it computes takes an induction, and the
induction theorems of the library have an operator as a parameter, which the provers cannot
instantiate. `SumTheorems` goes round this: `WFMin` gives the smallest element of a SET under a
well-founded relation, so a property is stated as the set of numbers, or of subsets, that have
it (`NatStepInduction`, `StrongInduction`, `SubsetInduction`). `AddingExists` then builds the
recursive function for the subsets of at most n elements, n by n, and `SumDef` gives its recursion;
the theorems about one element more, one less or one changed are inductions over subsets.

Model-checked only: `ExpiryProgress`, `EveryTransactionEnds` and `SellerIsSettled`. Liveness under
fairness is out of the prover's reach. Every safety invariant and action property of the passing runs
is also a theorem.

## 5. Not modelled

Left out of the modelled components:

* Price arithmetic, shipping quotes and the cart of checkout; its pre-checks that only refuse a
  basket before the transaction.
* Notifications, audit, referral and trust calls after a commit.
* An order paid alone, without group: it behaves as a group of one.
* Payment status PROCESSING (as PENDING). `OrderFlow` ends where refunds, returns and disputes begin:
  those are in modules of their own, so the stock of an order that is disputed and then
  cancelled is in none of them.
* The group refresh as read and write of its own: in `OrderFlow` it happens at the commit,
  so the write skew between sibling orders (`orders/group-status.ts:96`) is not shown.
* In `Refunds`: the order's status on entry (all orders are paid) and other writers of it, the
  group's REFUNDED status, the credit note and audit after the transaction, and a
  provider whose answer is lost after it paid (the only provider in the repository is a
  simulation that answers or throws). `FullRefundIsMarked` says that an order refunded in
  full is marked; the converse does not hold: an order is marked when the rest of its total
  is in a row under way, whose call may still fail or die.
* In `Refunds`, the cap on a reversal of commission and the check that something is left to reverse
  (`payments/refund.service.ts:260-263`) are one expression, `Reversal`.
* In `StockMovements`: a release that frees the reservation and puts nothing back (`restock: false`,
  `inventory/stock.service.ts:242`), which no caller asks for, and the
  creation of the row by the first count (`creerStock`, 125-134): the rows exist.
* In `Returns`: an amount approved below the amount requested, or asked for when the return is refunded
  (`returns/return.service.ts:495`); returns of several products.
* In `Disputes`: messages, evidence and offers, which move a dispute between statuses that all block
  the order; DISPUTED written by an administrator with no dispute. The duplicate check of an
  opening (`disputes/dispute.routes.ts:182`) looks for statuses no open dispute is in, so `Open`
  is one step: what its transaction writes does not depend on what it read.
* In `IdempotencyKeys` a request let through after a purge writes its answer if a key has been made
  since; the code has not intercepted its answer (`lib/idempotency.ts:109-112`). The model allows
  more than the code.
* In `CashDesk`: a collection of less cash than is due, and the rules that allow cash on delivery.
* In `Discounts`: what makes a coupon or promotion apply to an article, flash sales, tiers; a coupon
  without a limit, or whose limit or status the administration changes
  (`promotions/coupon.service.ts:269-277`); a promotion without a budget, or whose status its
  seller sets (`growth/growth.routes.ts:225-262`); a basket has one order. The limit of a coupon for
  each buyer is looked at when a basket is priced and not asserted: two baskets priced together pass
  it (`promotions/coupon.service.ts`, with the claim at `orders/checkout.service.ts:575`).

Left out altogether, by component and with the reason, in `PROJECT.json`. Most of the repository is
presentation (the browser code of `public/` and `boutique/`, its translation tables, `apps/web`), reference
data, listings, and single-row forms; messaging, documents and the assistant change no order, stock
or money. Nothing there takes several steps or several actors to go wrong, and a model of it would
restate it line by line; the share of the repository's lines the models stand for is small for
that reason.

## 6. Plan

What would be worth adding, in order of what an error would cost:

1. `GroupStatus`: `refreshGroupStatus` at statement grain, with two movers of sibling orders and
   two sweeps (write skew), and `groupStatusFrom` against a reference definition.
2. The composition of `OrderFlow` with `Disputes`: the stock of an order cancelled out of
   DISPUTED.
3. A collection of less cash than is due, and a collection reopened.
4. The order of a commercial relation after `acceptQuote`, and the price arithmetic of checkout over
   bounded inputs.
