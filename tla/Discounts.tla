----------------------------- MODULE Discounts ------------------------------
(***************************************************************************)
(* The counters behind the discounts of a buyer's baskets: the uses of a   *)
(* coupon (coupon.service.ts), the budget of a promotion                   *)
(* (promotion.service.ts) and the buyer's loyalty points                   *)
(* (loyalty.service.ts), as checkout.service.ts, deliveries, refunds and   *)
(* administrators move them.                                               *)
(*                                                                         *)
(* A basket is priced first, then created in one transaction that claims   *)
(* the coupon and debits the points, and only then counted in the budget.  *)
(* Coupon, budget and debit are conditional updates.  The other movements  *)
(* of points read the balance and write the new one.                       *)
(***************************************************************************)
EXTENDS Integers, FiniteSets

CONSTANTS
  Baskets,       \* baskets of the buyer; one that is created becomes an order
  Followed,      \* bound: those whose order is followed after checkout
  Clerks,        \* requests that move points
  CouponLimit,   \* usageLimit of the coupon
  PerUser,       \* its usageLimitPerUser
  Budget,        \* total of the promotion's budget
  Grant,         \* what the promotion takes off a basket
  Earn,          \* points an order earns
  MaxPoints,     \* bound: points used on a basket
  StartBalance,  \* the buyer's points at first
  MaxAdjusts,    \* bound: adjustments by an administrator
  MaxDeaths      \* bound: requests that move points and die half way

ASSUME DiscountsAssumption ==
  /\ IsFiniteSet(Baskets) /\ Followed \subseteq Baskets
  /\ {CouponLimit, PerUser, Budget, MaxPoints, StartBalance, MaxAdjusts, MaxDeaths} \subseteq Nat
  /\ {Grant, Earn} \subseteq Nat \ {0}

VARIABLES
  basket,      \* basket[b]: how far its checkout is, and what it was priced with
  used,        \* usageCount of the coupon
  coupon,      \* its status
  redeemed,    \* baskets with a coupon redemption
  spent,       \* what the promotion's budget has counted
  promo,       \* status of the promotion
  stops,       \* stopWhenExhausted of its budget, which does not change
  usage,       \* baskets with a promotion usage
  balance,     \* balance of the loyalty account
  ledger,      \* sum of the points of its events
  forgiven,    \* history: points the floor at zero did not take
  awarded,     \* orders with an EARNED event
  reversed,    \* reversed[b]: sum of the order's REVERSED events
  refunded,    \* refunded[b]: the part of the order that was refunded, in points
  clerk,       \* clerk[c]: what a request has read, and the step it is at
  adjusts, deaths,
  crossed,     \* history: the balance was written from a stale read
  doubled,     \* history: orders two reversals of which summed the events at once
  missed       \* history: orders whose points were earned after they were refunded in full, or
               \* whose reversal died

couponVars  == <<used, coupon, redeemed>>
budgetVars  == <<spent, promo, stops, usage>>
pointVars   == <<balance, ledger, forgiven, awarded, reversed>>
historyVars == <<crossed, doubled, missed>>
discountVars == <<basket, couponVars, budgetVars, pointVars, refunded, clerk, adjusts, deaths,
                  historyVars>>

Idle == [at |-> "idle"]
Done(c) == clerk' = [clerk EXCEPT ![c] = Idle]

Created == {b \in Baskets : basket[b].at \in {"count", "done", "short", "uncounted"}}

DiscountsInit ==
  /\ basket = [b \in Baskets |-> [at |-> "cart"]]
  /\ used = 0 /\ coupon = "ACTIVE" /\ redeemed = {}
  /\ spent = 0 /\ promo = "ACTIVE" /\ stops \in BOOLEAN /\ usage = {}
  /\ balance = StartBalance /\ ledger = StartBalance /\ forgiven = 0
  /\ awarded = {}
  /\ reversed = [b \in Baskets |-> 0]
  /\ refunded = [b \in Baskets |-> 0]
  /\ clerk = [c \in Clerks |-> Idle]
  /\ adjusts = 0 /\ deaths = 0
  /\ crossed = FALSE /\ doubled = {} /\ missed = {}

-----------------------------------------------------------------------------
(***************************************************************************)
(* Checkout.                                                               *)
(***************************************************************************)

\* computeDiscount: what makes the coupon usable for this buyer.
CouponUsable == coupon = "ACTIVE" /\ used < CouponLimit /\ Cardinality(redeemed) < PerUser

\* evaluateCart: the promotion applies by itself, and a budget that does not stop it is not
\* looked at.
PromoApplies == promo = "ACTIVE" /\ (stops => spent < Budget)

\* Everything is computed before the transaction, from what is read now.
Price(b, withCoupon, points) ==
  /\ basket[b].at = "cart"
  /\ withCoupon => CouponUsable
  /\ points <= balance
  /\ basket' = [basket EXCEPT ![b] =
       [at |-> "create", coupon |-> withCoupon, usedSeen |-> used, promo |-> PromoApplies,
        points |-> points]]
  /\ UNCHANGED <<couponVars, budgetVars, pointVars, refunded, clerk, adjusts, deaths,
                 historyVars>>

\* Mutant: whatever the count was when the basket was priced is good enough.
CouponClaimUnchecked(b) ==
  IF basket[b].coupon
  THEN /\ used' = used + 1
       /\ redeemed' = redeemed \cup {b}
       /\ coupon' = IF basket[b].usedSeen + 1 >= CouponLimit THEN "EXHAUSTED" ELSE coupon
  ELSE UNCHANGED couponVars

\* The coupon is claimed under its limit, not under the limit for each buyer; it becomes
\* EXHAUSTED by the count that was read, not by the one that was written.
CouponClaim(b) ==
  IF basket[b].coupon
  THEN /\ used < CouponLimit
       /\ used' = used + 1
       /\ redeemed' = redeemed \cup {b}
       /\ coupon' = IF basket[b].usedSeen + 1 >= CouponLimit THEN "EXHAUSTED" ELSE coupon
  ELSE UNCHANGED couponVars

\* Mutant: points are debited without an event.
RedeemUnlogged(b) ==
  /\ balance >= basket[b].points
  /\ balance' = balance - basket[b].points
  /\ UNCHANGED ledger

\* redeem: a conditional decrement and its event.
Redeem(b) ==
  /\ balance >= basket[b].points
  /\ balance' = balance - basket[b].points
  /\ ledger' = ledger - basket[b].points

\* One transaction: the orders, the coupon, the points.
Create(b) ==
  /\ basket[b].at = "create"
  /\ CouponClaim(b) /\ Redeem(b)
  /\ basket' = [basket EXCEPT ![b].at = IF basket[b].promo THEN "count" ELSE "done"]
  /\ UNCHANGED <<budgetVars, forgiven, awarded, reversed, refunded, clerk, adjusts, deaths,
                 historyVars>>

CreateRefused(b) ==
  /\ basket[b].at = "create"
  /\ (basket[b].coupon /\ used >= CouponLimit) \/ balance < basket[b].points
  /\ basket' = [basket EXCEPT ![b].at = "refused"]
  /\ UNCHANGED <<couponVars, budgetVars, pointVars, refunded, clerk, adjusts, deaths,
                 historyVars>>

\* Mutant: the budget is read, then written.
ConsumeUnchecked(b) ==
  /\ basket[b].at = "count"
  /\ spent < Budget
  /\ spent' = spent + Grant /\ usage' = usage \cup {b}
  /\ basket' = [basket EXCEPT ![b].at = "done"]
  /\ UNCHANGED <<couponVars, promo, stops, pointVars, refunded, clerk, adjusts, deaths,
                 historyVars>>

\* consume: a conditional update, after the orders exist.
Consume(b) ==
  /\ basket[b].at = "count"
  /\ spent + Grant <= Budget
  /\ spent' = spent + Grant /\ usage' = usage \cup {b}
  /\ basket' = [basket EXCEPT ![b].at = "done"]
  /\ UNCHANGED <<couponVars, promo, stops, pointVars, refunded, clerk, adjusts, deaths,
                 historyVars>>

\* The envelope is too small: the order keeps its discount, and the promotion stops if its
\* budget says so.
ConsumeRefused(b) ==
  /\ basket[b].at = "count"
  /\ spent + Grant > Budget
  /\ promo' = IF stops THEN "PAUSED" ELSE promo
  /\ basket' = [basket EXCEPT ![b].at = "short"]
  /\ UNCHANGED <<couponVars, spent, stops, usage, pointVars, refunded, clerk, adjusts, deaths,
                 historyVars>>

\* The order keeps its discount and nothing is counted: the budget is in another currency than
\* the basket, or the transaction fails and its exception is only logged, or the request died
\* after it had made the orders.
ConsumeNothing(b) ==
  /\ basket[b].at = "count"
  /\ basket' = [basket EXCEPT ![b].at = "uncounted"]
  /\ UNCHANGED <<couponVars, budgetVars, pointVars, refunded, clerk, adjusts, deaths,
                 historyVars>>

-----------------------------------------------------------------------------
(***************************************************************************)
(* Movements of points.                                                    *)
(***************************************************************************)

\* awardForOrder, on a delivery, on a completion: the order must not be REFUNDED.
Award(c, b) ==
  /\ clerk[c] = Idle
  /\ b \in Created /\ refunded[b] < Earn
  /\ clerk' = [clerk EXCEPT ![c] = [at |-> "open", kind |-> "EARNED", order |-> b,
                                    points |-> Earn]]
  /\ UNCHANGED <<basket, couponVars, budgetVars, pointVars, refunded, adjusts, deaths,
                 historyVars>>

\* Mutant: the share refunded is the one before this refund.
RefundRatioBefore(c, b, n) ==
  /\ clerk[c] = Idle
  /\ b \in Created /\ refunded[b] + n <= Earn
  /\ refunded' = [refunded EXCEPT ![b] = @ + n]
  /\ clerk' = [clerk EXCEPT ![c] = [at |-> "sum", kind |-> "REVERSED", order |-> b,
                                    target |-> refunded[b]]]
  /\ UNCHANGED <<basket, couponVars, budgetVars, pointVars, adjusts, deaths, historyVars>>

\* A refund has been booked: execute goes on to reverseForOrder.
Refund(c, b, n) ==
  /\ clerk[c] = Idle
  /\ b \in Created /\ refunded[b] + n <= Earn
  /\ refunded' = [refunded EXCEPT ![b] = @ + n]
  /\ clerk' = [clerk EXCEPT ![c] = [at |-> "ratio", kind |-> "REVERSED", order |-> b]]
  /\ UNCHANGED <<basket, couponVars, budgetVars, pointVars, adjusts, deaths, historyVars>>

\* The share of the order refunded so far.
ReadRatio(c) ==
  /\ clerk[c].at = "ratio"
  /\ clerk' = [clerk EXCEPT ![c] = [at |-> "sum", kind |-> "REVERSED", order |-> @.order,
                                    target |-> refunded[@.order]]]
  /\ UNCHANGED <<basket, couponVars, budgetVars, pointVars, refunded, adjusts, deaths,
                 historyVars>>

\* Requests that have summed the reversals of order b and not written theirs.
Reversing(b) == {c \in Clerks : /\ clerk[c].at \in {"open", "write"}
                                /\ clerk[c].kind = "REVERSED" /\ clerk[c].order = b}

\* Mutant: what was taken back before is not deducted.
ToReverseAgain(c) == clerk[c].target

ToReverse(c) == clerk[c].target - reversed[clerk[c].order]

\* Only points that were earned are taken back, and only those not taken back before.
SumReversed(c) ==
  LET b == clerk[c].order IN
  /\ clerk[c].at = "sum"
  /\ IF b \in awarded /\ ToReverse(c) > 0
     THEN /\ clerk' = [clerk EXCEPT ![c] = [at |-> "open", kind |-> "REVERSED", order |-> b,
                                            points |-> -ToReverse(c)]]
          /\ doubled' = IF Reversing(b) # {} THEN doubled \cup {b} ELSE doubled
     ELSE Done(c) /\ UNCHANGED doubled
  /\ UNCHANGED <<basket, couponVars, budgetVars, pointVars, refunded, adjusts, deaths,
                 crossed, missed>>

Adjust(c, n) ==
  /\ clerk[c] = Idle /\ adjusts < MaxAdjusts
  /\ adjusts' = adjusts + 1
  /\ clerk' = [clerk EXCEPT ![c] = [at |-> "open", kind |-> "ADJUSTED", points |-> n]]
  /\ UNCHANGED <<basket, couponVars, budgetVars, pointVars, refunded, deaths, historyVars>>

\* record, in a transaction: the account is read without a lock ...
RecordRead(c) ==
  /\ clerk[c].at = "open"
  /\ clerk' = [clerk EXCEPT ![c] = IF @.kind = "ADJUSTED"
       THEN [at |-> "write", kind |-> @.kind, points |-> @.points, seen |-> balance]
       ELSE [at |-> "write", kind |-> @.kind, points |-> @.points, seen |-> balance,
             order |-> @.order]]
  /\ UNCHANGED <<basket, couponVars, budgetVars, pointVars, refunded, adjusts, deaths,
                 historyVars>>

Floor(n) == IF n > 0 THEN n ELSE 0

\* An order earns once: a partial unique index on its EARNED events.
Earned(c) == clerk[c].kind = "EARNED" /\ clerk[c].order \in awarded

\* ... and the event is added and the balance written, from what was read.
RecordWrite(c) ==
  LET t == clerk[c]
      b == t.order
      new == Floor(t.seen + t.points)
  IN
  /\ t.at = "write" /\ ~Earned(c)
  /\ balance' = new
  /\ ledger' = ledger + t.points
  /\ forgiven' = forgiven + new - (t.seen + t.points)
  /\ crossed' = (crossed \/ balance # t.seen)
  /\ awarded' = IF t.kind = "EARNED" THEN awarded \cup {b} ELSE awarded
  /\ missed' = IF t.kind = "EARNED" /\ refunded[b] = Earn THEN missed \cup {b} ELSE missed
  /\ reversed' = IF t.kind = "REVERSED" THEN [reversed EXCEPT ![b] = @ - t.points] ELSE reversed
  /\ Done(c)
  /\ UNCHANGED <<basket, couponVars, budgetVars, refunded, adjusts, deaths, doubled>>

\* The order's points were credited before: the transaction leaves nothing.
RecordRefused(c) ==
  /\ clerk[c].at = "write" /\ Earned(c)
  /\ Done(c)
  /\ UNCHANGED <<basket, couponVars, budgetVars, pointVars, refunded, adjusts, deaths,
                 historyVars>>

ClerkDies(c) ==
  /\ clerk[c].at # "idle" /\ deaths < MaxDeaths
  /\ deaths' = deaths + 1
  /\ missed' = IF clerk[c].kind = "REVERSED" THEN missed \cup {clerk[c].order} ELSE missed
  /\ Done(c)
  /\ UNCHANGED <<basket, couponVars, budgetVars, pointVars, refunded, adjusts, crossed, doubled>>

Checkout(b) ==
  \/ \E withCoupon \in BOOLEAN, points \in 0 .. MaxPoints : Price(b, withCoupon, points)
  \/ Create(b) \/ CreateRefused(b)
  \/ Consume(b) \/ ConsumeRefused(b) \/ ConsumeNothing(b)

MovePoints(c) ==
  \/ \E b \in Followed : Award(c, b) \/ \E n \in 1 .. Earn : Refund(c, b, n)
  \/ \E n \in {-1, 1} : Adjust(c, n)
  \/ ReadRatio(c) \/ SumReversed(c) \/ RecordRead(c) \/ RecordWrite(c) \/ RecordRefused(c)
  \/ ClerkDies(c)

DiscountsNext == (\E b \in Baskets : Checkout(b)) \/ (\E c \in Clerks : MovePoints(c))

DiscountsSpec == DiscountsInit /\ [][DiscountsNext]_discountVars
-----------------------------------------------------------------------------
(***************************************************************************)
(* Properties.                                                             *)
(***************************************************************************)

\* Every variable keeps its type; in particular the balance never becomes negative, although
\* it is also written from stale reads.
DiscountsTypeOK ==
  /\ \A b \in Baskets :
       basket[b].at \in {"cart", "create", "refused", "count", "done", "short", "uncounted"}
  /\ used \in Nat /\ coupon \in {"ACTIVE", "EXHAUSTED"} /\ redeemed \subseteq Baskets
  /\ spent \in Nat /\ promo \in {"ACTIVE", "PAUSED"} /\ stops \in BOOLEAN /\ usage \subseteq Baskets
  /\ balance \in Nat /\ ledger \in Int /\ forgiven \in Nat
  /\ awarded \subseteq Baskets
  /\ reversed \in [Baskets -> Nat] /\ refunded \in [Baskets -> 0 .. Earn]
  /\ \A c \in Clerks : clerk[c].at \in {"idle", "ratio", "sum", "open", "write"}
  /\ adjusts \in 0 .. MaxAdjusts /\ deaths \in 0 .. MaxDeaths
  /\ crossed \in BOOLEAN /\ doubled \subseteq Baskets /\ missed \subseteq Baskets

\* The coupon's count is that of its redemptions and stays under the limit, however many
\* baskets were priced with it before; and it is called exhausted only when it is.
CouponCounted ==
  /\ used = Cardinality(redeemed) /\ used <= CouponLimit
  /\ redeemed \subseteq Created
  /\ coupon = "EXHAUSTED" => used = CouponLimit

\* The budget counts exactly the usages and is never exceeded, however many baskets the
\* promotion was granted to before any of them was counted.  Every order that has it is counted
\* once its checkout is done, or the checkout ended in one of the ways that count nothing; one
\* that ended for want of budget found no room for it, leaves none for another, and has stopped
\* a promotion that stops.
GrantsAreCounted ==
  /\ spent = Grant * Cardinality(usage) /\ spent <= Budget
  /\ usage = {b \in Created : basket[b].promo /\ basket[b].at = "done"}
  /\ \A b \in Created : basket[b].at = "short" =>
       spent + Grant > Budget /\ (stops => promo = "PAUSED")

\* The head of loyalty.service.ts: the balance is the sum of the events.  It holds up to the
\* points a reversal could not take from a balance already used, and as long as no movement
\* is written from a balance that another has changed since it was read.
BalanceIsSum == ~crossed => balance = ledger + forgiven

\* No more points are taken back than the order earned, unless two refunds of the order summed
\* its reversals at the same time.
ReversedWithinEarned == \A b \in Baskets \ doubled : reversed[b] <= Earn

\* A refund does not give the points away: of an order refunded in full all points are taken
\* back when its requests have ended, unless they were earned only after the refund, or a
\* request died.
RefundTakesPointsBack ==
  \A b \in awarded \ missed :
    /\ refunded[b] = Earn
    /\ \A c \in Clerks : clerk[c].at # "idle" /\ clerk[c].kind = "REVERSED" => clerk[c].order # b
    => reversed[b] >= Earn
=============================================================================
