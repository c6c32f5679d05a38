----------------------------- MODULE BuyerProofs -----------------------------
(***************************************************************************)
(* Proofs about what a buyer's checkout sets off: the payments of a group  *)
(* of orders (PaymentEvents) and the discounts of baskets (Discounts), for *)
(* any payments, orders, deliveries, events, baskets, limits and amounts.  *)
(* The two specifications share no variable; each is proved by itself.     *)
(*                                                                         *)
(* Payments.  The inductive invariant says what the open transactions of   *)
(* applySuccess have written: their sales exclude one another and those    *)
(* committed, each commission goes with a sale of the same transaction,    *)
(* and the orders before the one a transaction is at are booked by it or   *)
(* before it.                                                              *)
(*                                                                         *)
(* Coupon and budget.  A basket carries the count it was priced with,      *)
(* which is never above the present one, and what was counted for a basket *)
(* was counted after its orders existed, once.                             *)
(*                                                                         *)
(* Points.  Unless two requests summed an order's reversals at once, one   *)
(* at most is about to take points back from it, and it takes what was     *)
(* missing to the share refunded; while an order refunded in full has      *)
(* points left to give back, some request is about to take them.           *)
(***************************************************************************)
EXTENDS PaymentEvents, Discounts, FiniteSetTheorems, TLAPS

Booking(d) == delivery[d] \in {"sale", "commission"}
Busy(d)    == delivery[d] \in {"recorded", "applying", "sale", "commission"}

\* What a request has written is what its place in applySuccess says.
PlacesOK ==
  \A d \in Deliveries :
    /\ ~Booking(d) => written[d] = Nothing
    /\ delivery[d] \in {"idle", "checked", "recorded", "applying"} => line[d] = 1
    /\ delivery[d] = "commission" => line[d] \in Lines

Typed == TypeOK /\ PlacesOK

\* The books as committed: one commission for each sale.
Books == \A i \in Lines : commission[i] = (IF i \in sale THEN 1 ELSE 0)

\* The sales of open transactions.
Open ==
  /\ \A d, x \in Deliveries : d # x => written[d].sales \cap written[x].sales = {}
  /\ \A d \in Deliveries : written[d].sales \cap sale = {}
  /\ \A d \in Deliveries : written[d].commissions \subseteq written[d].sales

\* Behind its line, an open transaction finds every order booked, by itself with its commission.
Behind ==
  \A d \in Deliveries : Booking(d) =>
    /\ \A i \in 1 .. line[d] - 1 :
         /\ i \in sale \cup written[d].sales
         /\ i \in written[d].sales => i \in written[d].commissions
    /\ delivery[d] = "commission" => line[d] \in sale \cup written[d].sales

Booked == Books /\ Open /\ Behind /\ SucceededIsBooked

\* Of the requests that carry an event one at most is past its record, and none once the event
\* was applied.
Once ==
  /\ EventAppliedOnce
  /\ \A d, x \in Deliveries : EventOf[d] = EventOf[x] /\ Busy(d) /\ Busy(x) => d = x
  /\ \A d \in Deliveries : Busy(d) => applied[EventOf[d]] = 0
  /\ \A d \in Deliveries \ Polls : Busy(d) => EventOf[d] \in seen
  /\ \A d \in Polls : delivery[d] # "checked"
  /\ \A d \in Polls : delivery[d] = "idle" => applied[EventOf[d]] = 0
  /\ \A d \in Deliveries \ Polls : applied[EventOf[d]] = 0 \/ EventOf[d] \in seen

-----------------------------------------------------------------------------
(***************************************************************************)
(* Types and places.                                                       *)
(***************************************************************************)
LEMMA TypedInit == Init => Typed
  BY EventsAssumption DEF Init, Typed, TypeOK, PlacesOK, Nothing, Lines, Booking

LEMMA TypedStep == Typed /\ [Next]_vars => Typed'
<1> SUFFICES ASSUME Typed, [Next]_vars PROVE Typed'
  OBVIOUS
<1> USE EventsAssumption DEF Typed, TypeOK, PlacesOK, Booking, Lines, rowVars, bookVars, txVars
<1>1. ASSUME NEW a \in Payments, CreateCheck(a)
      PROVE  Typed'
  BY <1>1 DEF CreateCheck, Exists
<1>2. ASSUME NEW a \in Payments, CreateWrite(a)
      PROVE  Typed'
  BY <1>2 DEF CreateWrite, Exists
<1>3. ASSUME NEW d \in Deliveries, Receive(d)
      PROVE  Typed'
  BY <1>3 DEF Receive, To, Exists
<1>4. ASSUME NEW d \in Deliveries, ReceivePoll(d)
      PROVE  Typed'
  BY <1>4 DEF ReceivePoll, To, Exists
<1>5. ASSUME NEW d \in Deliveries, Record(d)
      PROVE  Typed'
  <2>1. /\ delivery[d] = "checked"
        /\ UNCHANGED <<payment, paid, applied, sale, commission, line, written, crashes>>
    BY <1>5 DEF Record
  <2>2. CASE EventOf[d] \in seen
    <3>1. delivery' = [delivery EXCEPT ![d] = "error"] /\ seen' = seen
      BY <1>5, <2>2 DEF Record, To
    <3> QED
      BY <2>1, <3>1
  <2>3. CASE EventOf[d] \notin seen
    <3>1. delivery' = [delivery EXCEPT ![d] = "recorded"] /\ seen' = seen \cup {EventOf[d]}
      BY <1>5, <2>3 DEF Record, To
    <3> QED
      BY <2>1, <2>3, <3>1
  <2> QED
    BY <2>2, <2>3
<1>6. ASSUME NEW d \in Deliveries, WriteVerdict(d)
      PROVE  Typed'
  BY <1>6 DEF WriteVerdict, To, Holders, PaymentOf
<1>7. ASSUME NEW d \in Deliveries, ApplyRead(d)
      PROVE  Typed'
  BY <1>7 DEF ApplyRead, To
<1>8. ASSUME NEW d \in Deliveries, ApplyLock(d)
      PROVE  Typed'
  BY <1>8 DEF ApplyLock, To
<1>9. ASSUME NEW d \in Deliveries, ApplySale(d)
      PROVE  Typed'
  BY <1>9, ZenonT(30) DEF ApplySale, To
<1>10. ASSUME NEW d \in Deliveries, ApplyCommission(d)
       PROVE  Typed'
  <2>1. line[d] \in Lines /\ line[d] + 1 \in 1 .. Len(Orders) + 1
    BY <1>10 DEF ApplyCommission
  <2>2. line' \in [Deliveries -> 1 .. Len(Orders) + 1]
    BY <1>10, <2>1 DEF ApplyCommission
  <2>3. written' \in [Deliveries -> [sales : SUBSET Lines, commissions : SUBSET Lines]]
    <3>1. CASE commission[line[d]] = 0
      <4>1. written' = [written EXCEPT ![d].commissions = @ \cup {line[d]}]
        BY <1>10, <3>1 DEF ApplyCommission
      <4> QED
        BY <2>1, <4>1, ZenonT(30)
    <3>2. CASE commission[line[d]] # 0
      BY <1>10, <3>2 DEF ApplyCommission
    <3> QED
      BY <3>1, <3>2
  <2>4. delivery' = [delivery EXCEPT ![d] = "sale"]
    BY <1>10 DEF ApplyCommission, To
  <2>5. TypeOK'
    BY <1>10, <2>2, <2>3, <2>4 DEF ApplyCommission
  <2>6. PlacesOK'
    BY <1>10, <2>4 DEF ApplyCommission
  <2> QED
    BY <2>5, <2>6
<1>11. ASSUME NEW d \in Deliveries, ApplyCommit(d)
       PROVE  Typed'
  <2>1. written' \in [Deliveries -> [sales : SUBSET Lines, commissions : SUBSET Lines]]
    BY <1>11 DEF ApplyCommit, Nothing
  <2>2. applied' \in [Events -> Nat] /\ commission' \in [Lines -> Nat] /\ sale' \subseteq Lines
    <3>1. applied' \in [Events -> Nat]
      <4>1. EventOf[d] \in Events /\ applied[EventOf[d]] + 1 \in Nat
        OBVIOUS
      <4> QED
        BY <1>11, <4>1 DEF ApplyCommit
    <3>0. sale' \subseteq Lines
      BY <1>11 DEF ApplyCommit
    <3>2. commission' \in [Lines -> Nat]
      <4>1. commission' = [i \in Lines |->
              IF i \in written[d].commissions THEN commission[i] + 1 ELSE commission[i]]
        BY <1>11 DEF ApplyCommit
      <4>2. \A i \in Lines : commission[i] \in Nat /\ commission[i] + 1 \in Nat
        OBVIOUS
      <4> HIDE DEF Lines, Typed
      <4> QED
        BY <4>1, <4>2
    <3> QED
      BY <3>0, <3>1, <3>2
  <2>3. payment' \in [Payments -> {"none", "creating", "reused", "refused", "PENDING", "FAILED",
                                  "SUCCEEDED"}]
    BY <1>11 DEF ApplyCommit
  <2>4. delivery' = [delivery EXCEPT ![d] = "accepted"]
    BY <1>11 DEF ApplyCommit, To
  <2>5. TypeOK'
    BY <1>11, <2>1, <2>2, <2>3, <2>4 DEF ApplyCommit
  <2>6. PlacesOK'
    BY <1>11, <2>4 DEF ApplyCommit
  <2> QED
    BY <2>5, <2>6
<1>12. ASSUME NEW d \in Deliveries, Crash(d)
       PROVE  Typed'
  BY <1>12 DEF Crash, To, Nothing
<1>13. CASE UNCHANGED vars
  BY <1>13 DEF vars
<1> QED
  BY <1>1, <1>2, <1>3, <1>4, <1>5, <1>6, <1>7, <1>8, <1>9, <1>10, <1>11, <1>12, <1>13
  DEF Next, Handle

-----------------------------------------------------------------------------
(***************************************************************************)
(* The books.                                                              *)
(***************************************************************************)
LEMMA BookedStep == Typed /\ Booked /\ [Next]_vars => Booked'
<1> SUFFICES ASSUME Typed, Booked, [Next]_vars PROVE Booked'
  OBVIOUS
<1> USE EventsAssumption DEF Typed, TypeOK, PlacesOK, Booking, Lines, Booked, Books, Open, Behind,
        SucceededIsBooked, rowVars, bookVars, txVars
<1>1. ASSUME NEW a \in Payments, CreateCheck(a)
      PROVE  Booked'
  BY <1>1 DEF CreateCheck, Exists
<1>2. ASSUME NEW a \in Payments, CreateWrite(a)
      PROVE  Booked'
  BY <1>2 DEF CreateWrite, Exists
<1>3. ASSUME NEW d \in Deliveries, Receive(d)
      PROVE  Booked'
  BY <1>3 DEF Receive, To, Exists
<1>4. ASSUME NEW d \in Deliveries, ReceivePoll(d)
      PROVE  Booked'
  BY <1>4 DEF ReceivePoll, To, Exists
<1>5. ASSUME NEW d \in Deliveries, Record(d)
      PROVE  Booked'
  <2>1. /\ delivery[d] = "checked"
        /\ UNCHANGED <<payment, paid, applied, sale, commission, line, written, crashes>>
    BY <1>5 DEF Record
  <2>2. CASE EventOf[d] \in seen
    <3>1. delivery' = [delivery EXCEPT ![d] = "error"] /\ seen' = seen
      BY <1>5, <2>2 DEF Record, To
    <3> QED
      BY <2>1, <3>1
  <2>3. CASE EventOf[d] \notin seen
    <3>1. delivery' = [delivery EXCEPT ![d] = "recorded"] /\ seen' = seen \cup {EventOf[d]}
      BY <1>5, <2>3 DEF Record, To
    <3> QED
      BY <2>1, <2>3, <3>1
  <2> QED
    BY <2>2, <2>3
<1>6. ASSUME NEW d \in Deliveries, WriteVerdict(d)
      PROVE  Booked'
  BY <1>6 DEF WriteVerdict, To, Holders, PaymentOf
<1>7. ASSUME NEW d \in Deliveries, ApplyRead(d)
      PROVE  Booked'
  BY <1>7 DEF ApplyRead, To
<1>8. ASSUME NEW d \in Deliveries, ApplyLock(d)
      PROVE  Booked'
  BY <1>8 DEF ApplyLock, To
<1>9. ASSUME NEW d \in Deliveries, ApplySale(d)
      PROVE  Booked'
  BY <1>9 DEF ApplySale, To
<1>10. ASSUME NEW d \in Deliveries, ApplyCommission(d)
       PROVE  Booked'
  BY <1>10, SMTT(30) DEF ApplyCommission, To
<1>11. ASSUME NEW d \in Deliveries, ApplyCommit(d)
       PROVE  Booked'
  <2>1. /\ sale' = sale \cup written[d].sales
        /\ commission' = [i \in Lines |->
             IF i \in written[d].commissions THEN commission[i] + 1 ELSE commission[i]]
        /\ written' = [written EXCEPT ![d] = Nothing]
        /\ delivery' = [delivery EXCEPT ![d] = "accepted"]
        /\ line' = line /\ paid' = Lines
    BY <1>11 DEF ApplyCommit, To
  <2>2. \A i \in Lines : i \in 1 .. line[d] - 1
    BY <1>11 DEF ApplyCommit
  <2>3. \A i \in Lines : /\ i \in sale \cup written[d].sales
                        /\ i \in written[d].commissions <=> i \notin sale
    BY <1>11, <2>2 DEF ApplyCommit
  <2>4. sale' = Lines /\ \A i \in Lines : commission'[i] = 1
    <3>1. \A i \in Lines : commission[i] = (IF i \in sale THEN 1 ELSE 0)
      OBVIOUS
    <3>2. sale \subseteq Lines /\ written[d].sales \subseteq Lines
      OBVIOUS
    <3> HIDE DEF Lines, Typed, Booked
    <3>3. sale' = Lines
      BY <2>1, <2>3, <3>2
    <3>4. \A i \in Lines : commission'[i] = 1
      BY <2>1, <2>3, <3>1
    <3> QED
      BY <3>3, <3>4
  <2>5. Open'
    <3>1. written[d].sales \subseteq Lines
      OBVIOUS
    <3>2. \A x \in Deliveries \ {d} : written'[x] = written[x]
      BY <2>1
    <3>3. written'[d].sales = {} /\ written'[d].commissions = {}
      BY <2>1 DEF Nothing
    <3> QED
      BY <2>1, <3>2, <3>3
  <2>6. Behind'
    BY <2>1
  <2>7. Books' /\ SucceededIsBooked'
    BY <2>1, <2>4
  <2> QED
    BY <2>5, <2>6, <2>7
<1>12. ASSUME NEW d \in Deliveries, Crash(d)
       PROVE  Booked'
  BY <1>12 DEF Crash, To, Nothing
<1>13. CASE UNCHANGED vars
  BY <1>13 DEF vars
<1> QED
  BY <1>1, <1>2, <1>3, <1>4, <1>5, <1>6, <1>7, <1>8, <1>9, <1>10, <1>11, <1>12, <1>13
  DEF Next, Handle

-----------------------------------------------------------------------------
(***************************************************************************)
(* Repeated events.                                                        *)
(***************************************************************************)
LEMMA OnceStep == Typed /\ Once /\ [Next]_vars => Once'
<1> SUFFICES ASSUME Typed, Once, [Next]_vars PROVE Once'
  OBVIOUS
<1> USE EventsAssumption DEF Typed, TypeOK, Once, Busy, EventAppliedOnce, rowVars, bookVars, txVars
<1>1. ASSUME NEW a \in Payments, CreateCheck(a)
      PROVE  Once'
  BY <1>1 DEF CreateCheck, Exists
<1>2. ASSUME NEW a \in Payments, CreateWrite(a)
      PROVE  Once'
  BY <1>2 DEF CreateWrite, Exists
<1>3. ASSUME NEW d \in Deliveries, Receive(d)
      PROVE  Once'
  BY <1>3 DEF Receive, To, Exists
<1>4. ASSUME NEW d \in Deliveries, ReceivePoll(d)
      PROVE  Once'
  BY <1>4 DEF ReceivePoll, To, Exists
<1>5. ASSUME NEW d \in Deliveries, Record(d)
      PROVE  Once'
  <2>1. /\ delivery[d] = "checked"
        /\ UNCHANGED <<payment, paid, applied, sale, commission, line, written, crashes>>
    BY <1>5 DEF Record
  <2>2. CASE EventOf[d] \in seen
    <3>1. delivery' = [delivery EXCEPT ![d] = "error"] /\ seen' = seen
      BY <1>5, <2>2 DEF Record, To
    <3> QED
      BY <2>1, <3>1
  <2>3. CASE EventOf[d] \notin seen
    <3>1. delivery' = [delivery EXCEPT ![d] = "recorded"] /\ seen' = seen \cup {EventOf[d]}
      BY <1>5, <2>3 DEF Record, To
    <3> QED
      BY <2>1, <2>3, <3>1
  <2> QED
    BY <2>2, <2>3
<1>6. ASSUME NEW d \in Deliveries, WriteVerdict(d)
      PROVE  Once'
  BY <1>6 DEF WriteVerdict, To, Holders, PaymentOf
<1>7. ASSUME NEW d \in Deliveries, ApplyRead(d)
      PROVE  Once'
  BY <1>7 DEF ApplyRead, To
<1>8. ASSUME NEW d \in Deliveries, ApplyLock(d)
      PROVE  Once'
  BY <1>8 DEF ApplyLock, To
<1>9. ASSUME NEW d \in Deliveries, ApplySale(d)
      PROVE  Once'
  BY <1>9 DEF ApplySale, To
<1>10. ASSUME NEW d \in Deliveries, ApplyCommission(d)
       PROVE  Once'
  BY <1>10 DEF ApplyCommission, To
<1>11. ASSUME NEW d \in Deliveries, ApplyCommit(d)
       PROVE  Once'
  BY <1>11 DEF ApplyCommit, To, Nothing, PaymentOf
<1>12. ASSUME NEW d \in Deliveries, Crash(d)
       PROVE  Once'
  BY <1>12 DEF Crash, To, Nothing
<1>13. CASE UNCHANGED vars
  BY <1>13 DEF vars
<1> QED
  BY <1>1, <1>2, <1>3, <1>4, <1>5, <1>6, <1>7, <1>8, <1>9, <1>10, <1>11, <1>12, <1>13
  DEF Next, Handle

-----------------------------------------------------------------------------
(***************************************************************************)
(* The theorems.                                                           *)
(***************************************************************************)
IInv == Typed /\ Booked /\ Once

LEMMA IInvInit == Init => IInv
<1> SUFFICES ASSUME Init PROVE IInv
  OBVIOUS
<1>1. Typed
  BY TypedInit
<1>2. Booked
  BY EventsAssumption DEF Init, Booked, Books, Open, Behind, SucceededIsBooked, Nothing, Booking
<1>3. Once
  BY EventsAssumption DEF Init, Once, EventAppliedOnce, Busy
<1> QED
  BY <1>1, <1>2, <1>3 DEF IInv

\* The inductive invariant of the payments of a group.
THEOREM EventsInvariant == Spec => []IInv
<1>1. IInv /\ [Next]_vars => IInv'
  BY TypedStep, BookedStep, OnceStep DEF IInv
<1> QED
  BY IInvInit, <1>1, PTL DEF Spec

\* Every variable keeps its type.
THEOREM TypeCorrect == Spec => []TypeOK
<1>1. IInv => TypeOK
  BY DEF IInv, Typed
<1> QED
  BY EventsInvariant, <1>1, PTL

\* For any number of orders, payments, deliveries and crashes, no order has two commissions.
THEOREM OneCommission == Spec => []CommissionOnce
<1>1. IInv => CommissionOnce
  BY DEF IInv, Booked, Books, CommissionOnce
<1> QED
  BY EventsInvariant, <1>1, PTL

\* For any number of orders and deliveries, a payment that says SUCCEEDED is booked in full.
THEOREM SuccessIsBooked == Spec => []SucceededIsBooked
<1>1. IInv => SucceededIsBooked
  BY DEF IInv, Booked
<1> QED
  BY EventsInvariant, <1>1, PTL

\* For any events and deliveries, an event is applied once at most.
THEOREM AppliedOnce == Spec => []EventAppliedOnce
<1>1. IInv => EventAppliedOnce
  BY DEF IInv, Once
<1> QED
  BY EventsInvariant, <1>1, PTL

-----------------------------------------------------------------------------
(***************************************************************************)
(* Discounts: the coupon and the budget.                                   *)
(***************************************************************************)
\* What a basket was priced with, and what a request has read at each step.
BasketRecord ==
  [at : {"cart"}] \cup
  [at : {"create", "refused", "count", "done", "short", "uncounted"},
   coupon : BOOLEAN, usedSeen : Nat, promo : BOOLEAN, points : Nat]

ClerkRecord ==
  [at : {"idle"}] \cup
  [at : {"ratio"}, kind : {"REVERSED"}, order : Baskets] \cup
  [at : {"sum"}, kind : {"REVERSED"}, order : Baskets, target : 0 .. Earn] \cup
  [at : {"open"}, kind : {"ADJUSTED"}, points : Int] \cup
  [at : {"write"}, kind : {"ADJUSTED"}, points : Int, seen : Nat] \cup
  [at : {"open"}, kind : {"EARNED", "REVERSED"}, order : Baskets, points : Int] \cup
  [at : {"write"}, kind : {"EARNED", "REVERSED"}, order : Baskets, points : Int, seen : Nat]

CheckoutTypes ==
  /\ basket \in [Baskets -> BasketRecord]
  /\ used \in Nat /\ coupon \in {"ACTIVE", "EXHAUSTED"} /\ redeemed \subseteq Baskets
  /\ spent \in Nat /\ promo \in {"ACTIVE", "PAUSED"} /\ stops \in BOOLEAN /\ usage \subseteq Baskets

\* What a basket saw is never above the present count; only one that was granted the promotion
\* is counted in its budget.
PricedBefore ==
  \A b \in Baskets : basket[b].at = "create" => basket[b].usedSeen <= used

CountedAfter == \A b \in Baskets : basket[b].at = "count" => basket[b].promo

CheckoutInv == CheckoutTypes /\ PricedBefore /\ CouponCounted /\ CountedAfter /\ GrantsAreCounted

LEMMA CheckoutInit == DiscountsInit => CheckoutInv
<1> SUFFICES ASSUME DiscountsInit PROVE CheckoutInv
  OBVIOUS
<1> USE DiscountsAssumption
<1>1. [at |-> "cart"] \in BasketRecord /\ [at |-> "cart"].at = "cart"
  BY DEF BasketRecord
<1>2. Cardinality({}) = 0
  BY FS_EmptySet
<1>3. CheckoutTypes
  BY <1>1 DEF DiscountsInit, CheckoutTypes
<1>4. \A b \in Baskets : basket[b].at = "cart"
  BY DEF DiscountsInit
<1>5. Grant * 0 = 0
  OBVIOUS
<1> QED
  BY <1>2, <1>3, <1>4, <1>5
  DEF DiscountsInit, CheckoutInv, PricedBefore, CouponCounted, CountedAfter, GrantsAreCounted,
      Created

\* What moving a basket on leaves of its record.
LEMMA BasketMoves ==
  ASSUME CheckoutTypes, NEW b \in Baskets, basket[b].at # "cart",
         NEW at \in {"create", "refused", "count", "done", "short", "uncounted"},
         basket' = [basket EXCEPT ![b].at = at]
  PROVE  /\ basket' \in [Baskets -> BasketRecord]
         /\ basket'[b].at = at /\ basket'[b].promo = basket[b].promo
         /\ \A x \in Baskets \ {b} : basket'[x] = basket[x]
<1>1. basket' = [basket EXCEPT ![b] = [basket[b] EXCEPT !.at = at]]
  OBVIOUS
<1>2. basket[b] \in BasketRecord
  BY DEF CheckoutTypes
<1>3. /\ [basket[b] EXCEPT !.at = at] \in BasketRecord
      /\ [basket[b] EXCEPT !.at = at].at = at
      /\ [basket[b] EXCEPT !.at = at].promo = basket[b].promo
  BY <1>2 DEF BasketRecord
<1> QED
  BY <1>1, <1>3 DEF CheckoutTypes

LEMMA BasketShape ==
  ASSUME CheckoutTypes, NEW b \in Baskets, basket[b].at # "cart"
  PROVE  /\ basket[b].coupon \in BOOLEAN /\ basket[b].promo \in BOOLEAN
         /\ basket[b].usedSeen \in Nat /\ basket[b].points \in Nat
  BY DEF CheckoutTypes, BasketRecord

LEMMA CheckoutStep == CheckoutInv /\ [DiscountsNext]_discountVars => CheckoutInv'
<1> SUFFICES ASSUME CheckoutInv, [DiscountsNext]_discountVars PROVE CheckoutInv'
  OBVIOUS
<1> USE DiscountsAssumption DEF CheckoutInv
<1>1. ASSUME UNCHANGED <<basket, couponVars, budgetVars>>
      PROVE  CheckoutInv'
  BY <1>1 DEF couponVars, budgetVars, CheckoutTypes, PricedBefore, CouponCounted, CountedAfter,
              GrantsAreCounted, Created
<1>2. ASSUME NEW b \in Baskets, NEW withCoupon \in BOOLEAN, NEW points \in 0 .. MaxPoints,
             Price(b, withCoupon, points)
      PROVE  CheckoutInv'
  <2>1. /\ basket[b].at = "cart"
        /\ basket' = [basket EXCEPT ![b] =
             [at |-> "create", coupon |-> withCoupon, usedSeen |-> used, promo |-> PromoApplies,
              points |-> points]]
        /\ UNCHANGED <<used, coupon, redeemed, spent, promo, stops, usage>>
    BY <1>2 DEF Price, couponVars, budgetVars
  <2>2. PromoApplies \in BOOLEAN /\ points \in Nat /\ used \in Nat
    BY DEF PromoApplies, CheckoutTypes
  <2>3. basket' \in [Baskets -> BasketRecord]
    BY <2>1, <2>2 DEF CheckoutTypes, BasketRecord
  <2>4. /\ basket'[b].at = "create" /\ basket'[b].usedSeen = used
        /\ \A x \in Baskets \ {b} : basket'[x] = basket[x]
    BY <2>1 DEF CheckoutTypes
  <2>5. Created' = Created
    BY <2>1, <2>4 DEF Created
  <2>6. CheckoutTypes' /\ PricedBefore'
    BY <2>1, <2>2, <2>3, <2>4 DEF CheckoutTypes, PricedBefore
  <2>7. CouponCounted'
    BY <2>1, <2>5 DEF CouponCounted
  <2>8. CountedAfter' /\ GrantsAreCounted'
    BY <2>1, <2>4, <2>5 DEF CountedAfter, GrantsAreCounted, Created, CheckoutTypes
  <2> QED
    BY <2>6, <2>7, <2>8
<1>3. ASSUME NEW b \in Baskets, Create(b)
      PROVE  CheckoutInv'
  <2> DEFINE at == IF basket[b].promo THEN "count" ELSE "done"
  <2>1. /\ basket[b].at = "create" /\ CouponClaim(b)
        /\ basket' = [basket EXCEPT ![b].at = at]
        /\ UNCHANGED <<spent, promo, stops, usage>>
    BY <1>3 DEF Create, budgetVars
  <2>2. at \in {"create", "refused", "count", "done", "short", "uncounted"}
    OBVIOUS
  <2>3. /\ basket' \in [Baskets -> BasketRecord]
        /\ basket'[b].at = at /\ basket'[b].promo = basket[b].promo
        /\ \A x \in Baskets \ {b} : basket'[x] = basket[x]
    <3> HIDE DEF at
    <3> QED
      BY <2>1, <2>2, BasketMoves
  <2>4. Created' = Created \cup {b} /\ b \notin Created
    BY <2>1, <2>3 DEF Created
  <2>5. CountedAfter'
    BY <2>1, <2>3 DEF CountedAfter
  <2>6. GrantsAreCounted'
    <3>1. {x \in Created : basket[x].promo /\ basket[x].at = "done"}'
            = {x \in Created : basket[x].promo /\ basket[x].at = "done"}
      BY <2>1, <2>3, <2>4 DEF Created
    <3>2. basket'[b].at # "short"
      BY <2>3
    <3>3. \A x \in Created' : basket'[x].at = "short" =>
            spent' + Grant > Budget /\ (stops' => promo' = "PAUSED")
      BY <2>1, <2>3, <2>4, <3>2 DEF GrantsAreCounted
    <3>4. /\ spent' = Grant * Cardinality(usage') /\ spent' <= Budget
          /\ usage' = {x \in Created : basket[x].promo /\ basket[x].at = "done"}'
      BY <2>1, <3>1 DEF GrantsAreCounted
    <3> QED
      BY <3>3, <3>4 DEF GrantsAreCounted
  <2>7. CASE basket[b].coupon
    <3>1. /\ used < CouponLimit /\ used' = used + 1 /\ redeemed' = redeemed \cup {b}
          /\ coupon' = IF basket[b].usedSeen + 1 >= CouponLimit THEN "EXHAUSTED" ELSE coupon
      BY <2>1, <2>7 DEF CouponClaim
    <3>2. basket[b].usedSeen \in Nat /\ basket[b].usedSeen <= used
      BY <2>1, BasketShape DEF PricedBefore
    <3>3. b \notin redeemed
      BY <2>4 DEF CouponCounted
    <3>4. IsFiniteSet(redeemed)
      BY FS_Subset DEF CheckoutTypes
    <3>5. Cardinality(redeemed') = Cardinality(redeemed) + 1
      BY <3>1, <3>3, <3>4, FS_AddElement
    <3>6. CouponCounted'
      BY <3>1, <3>2, <3>5, <2>4 DEF CouponCounted, CheckoutTypes
    <3>7. PricedBefore'
      BY <2>1, <2>3, <3>1, BasketShape DEF PricedBefore, CheckoutTypes
    <3>8. CheckoutTypes'
      BY <2>1, <2>3, <3>1 DEF CheckoutTypes
    <3> QED
      BY <2>5, <2>6, <3>6, <3>7, <3>8
  <2>8. CASE ~basket[b].coupon
    <3>1. UNCHANGED <<used, redeemed, coupon>>
      BY <2>1, <2>8 DEF CouponClaim, couponVars
    <3> QED
      BY <2>1, <2>3, <2>4, <2>5, <2>6, <3>1 DEF CheckoutTypes, PricedBefore, CouponCounted
  <2> QED
    BY <2>7, <2>8
<1>4. ASSUME NEW b \in Baskets, CreateRefused(b)
      PROVE  CheckoutInv'
  <2>1. /\ basket[b].at = "create" /\ basket' = [basket EXCEPT ![b].at = "refused"]
        /\ UNCHANGED <<used, coupon, redeemed, spent, promo, stops, usage>>
    BY <1>4 DEF CreateRefused, couponVars, budgetVars
  <2>2. /\ basket' \in [Baskets -> BasketRecord]
        /\ basket'[b].at = "refused" /\ basket'[b].promo = basket[b].promo
        /\ \A x \in Baskets \ {b} : basket'[x] = basket[x]
    BY <2>1, BasketMoves
  <2>3. Created' = Created /\ b \notin Created
    BY <2>1, <2>2 DEF Created
  <2> QED
    BY <2>1, <2>2, <2>3
    DEF CheckoutTypes, PricedBefore, CouponCounted, CountedAfter, GrantsAreCounted, Created
<1>5. ASSUME NEW b \in Baskets, Consume(b)
      PROVE  CheckoutInv'
  <2>1. /\ basket[b].at = "count" /\ basket' = [basket EXCEPT ![b].at = "done"]
        /\ spent + Grant <= Budget /\ spent' = spent + Grant /\ usage' = usage \cup {b}
        /\ UNCHANGED <<used, coupon, redeemed, promo, stops>>
    BY <1>5 DEF Consume, couponVars
  <2>2. /\ basket' \in [Baskets -> BasketRecord]
        /\ basket'[b].at = "done" /\ basket'[b].promo = basket[b].promo
        /\ \A x \in Baskets \ {b} : basket'[x] = basket[x]
    BY <2>1, BasketMoves
  <2>3. Created' = Created /\ b \in Created
    BY <2>1, <2>2 DEF Created
  <2>4. b \notin usage /\ IsFiniteSet(usage)
    BY <2>1, FS_Subset DEF GrantsAreCounted, CheckoutTypes
  <2>5. Cardinality(usage') = Cardinality(usage) + 1 /\ Cardinality(usage) \in Nat
    BY <2>1, <2>4, FS_AddElement, FS_CardinalityType
  <2>6. spent' = Grant * Cardinality(usage')
    <3>1. spent = Grant * Cardinality(usage)
      BY DEF GrantsAreCounted
    <3>2. \A g, n \in Nat : g * n + g = g * (n + 1)
      OBVIOUS
    <3> QED
      BY <2>1, <2>5, <3>1, <3>2
  <2>7. CheckoutTypes' /\ PricedBefore' /\ CouponCounted' /\ CountedAfter'
    BY <2>1, <2>2, <2>3 DEF CheckoutTypes, PricedBefore, CouponCounted, CountedAfter
  <2>8. usage' = {x \in Created : basket[x].promo /\ basket[x].at = "done"}'
    BY <2>1, <2>2, <2>3 DEF GrantsAreCounted, CountedAfter
  <2>9. \A x \in Created' : basket'[x].at = "short" =>
          spent' + Grant > Budget /\ (stops' => promo' = "PAUSED")
    BY <2>1, <2>2, <2>3 DEF GrantsAreCounted, CheckoutTypes
  <2>10. GrantsAreCounted'
    BY <2>1, <2>6, <2>8, <2>9 DEF GrantsAreCounted
  <2> QED
    BY <2>7, <2>10
<1>6. ASSUME NEW b \in Baskets, ConsumeRefused(b) \/ ConsumeNothing(b)
      PROVE  CheckoutInv'
  <2> DEFINE at == basket'[b].at
  <2>1. /\ basket[b].at = "count"
        /\ \/ basket' = [basket EXCEPT ![b].at = "short"] /\ spent + Grant > Budget
              /\ promo' = IF stops THEN "PAUSED" ELSE promo
           \/ basket' = [basket EXCEPT ![b].at = "uncounted"] /\ promo' = promo
        /\ UNCHANGED <<used, coupon, redeemed, spent, stops, usage>>
    BY <1>6 DEF ConsumeRefused, ConsumeNothing, couponVars, budgetVars
  <2>2. /\ basket' \in [Baskets -> BasketRecord]
        /\ at \in {"short", "uncounted"} /\ basket'[b].promo = basket[b].promo
        /\ at = "short" => spent + Grant > Budget /\ (stops => promo' = "PAUSED")
        /\ \A x \in Baskets \ {b} : basket'[x] = basket[x]
    BY <2>1, BasketMoves
  <2> HIDE DEF at
  <2>3. Created' = Created /\ (\A x \in Baskets : basket'[x].at = "done" <=> basket[x].at = "done")
    BY <2>1, <2>2 DEF Created, at
  <2>4. promo' \in {promo, "PAUSED"}
    BY <2>1
  <2>5. CheckoutTypes' /\ PricedBefore' /\ CouponCounted' /\ CountedAfter'
    BY <2>1, <2>2, <2>3, <2>4 DEF CheckoutTypes, PricedBefore, CouponCounted, CountedAfter, at
  <2>6. usage' = {x \in Created : basket[x].promo /\ basket[x].at = "done"}'
    BY <2>1, <2>2, <2>3 DEF GrantsAreCounted, at, Created
  <2>7. \A x \in Created' : basket'[x].at = "short" =>
          spent' + Grant > Budget /\ (stops' => promo' = "PAUSED")
    BY <2>1, <2>2, <2>3, <2>4 DEF GrantsAreCounted, at, Created
  <2>8. GrantsAreCounted'
    BY <2>1, <2>6, <2>7 DEF GrantsAreCounted
  <2> QED
    BY <2>5, <2>8
<1>7. ASSUME NEW c \in Clerks, MovePoints(c)
      PROVE  UNCHANGED <<basket, couponVars, budgetVars>>
  BY <1>7 DEF MovePoints, Award, Refund, Adjust, ReadRatio, SumReversed, RecordRead,
              RecordWrite, RecordRefused, ClerkDies
<1>8. CASE UNCHANGED discountVars
  BY <1>1, <1>8 DEF discountVars
<1> QED
  BY <1>1, <1>2, <1>3, <1>4, <1>5, <1>6, <1>7, <1>8 DEF DiscountsNext, Checkout

\* The coupon's count is that of its redemptions, under its limit, whatever number of baskets
\* were priced with its last use (coupon.service.ts).
THEOREM CouponIsCounted == DiscountsSpec => []CouponCounted
<1>1. CheckoutInv => CouponCounted
  BY DEF CheckoutInv
<1> QED
  BY <1>1, CheckoutInit, CheckoutStep, PTL DEF DiscountsSpec

\* The budget counts exactly the usages and is never exceeded (promotion.service.ts).
THEOREM BudgetIsCounted == DiscountsSpec => []GrantsAreCounted
<1>1. CheckoutInv => GrantsAreCounted
  BY DEF CheckoutInv
<1> QED
  BY <1>1, CheckoutInit, CheckoutStep, PTL DEF DiscountsSpec
-----------------------------------------------------------------------------
(***************************************************************************)
(* Points.                                                                 *)
(***************************************************************************)
PointTypes ==
  /\ balance \in Nat /\ ledger \in Int /\ forgiven \in Nat
  /\ awarded \subseteq Baskets
  /\ reversed \in [Baskets -> Nat] /\ refunded \in [Baskets -> 0 .. Earn]
  /\ clerk \in [Clerks -> ClerkRecord]
  /\ crossed \in BOOLEAN /\ doubled \subseteq Baskets /\ missed \subseteq Baskets
  /\ \A b \in Baskets : basket[b].at = "create" => basket[b].points \in Nat

Reverses(c, b) == clerk[c].at # "idle" /\ clerk[c].kind = "REVERSED" /\ clerk[c].order = b
Takes(c) == clerk[c].at \in {"open", "write"} /\ clerk[c].kind = "REVERSED"

\* A reversal takes points, never gives any.
Negative == \A c \in Clerks : Takes(c) => clerk[c].points < 0

\* Unless two crossed on the order, one request at most is about to take points back, and it
\* leaves no more taken back than were earned.
OneReverses ==
  \A c \in Clerks : Takes(c) /\ clerk[c].order \notin doubled =>
    /\ reversed[clerk[c].order] - clerk[c].points <= Earn
    /\ \A x \in Clerks : Takes(x) /\ clerk[x].order = clerk[c].order => x = c

\* A request that will take back all that is left of order b's points.
Completes(c, b) ==
  /\ Reverses(c, b)
  /\ \/ clerk[c].at = "ratio"
     \/ clerk[c].at = "sum" /\ clerk[c].target = Earn
     \/ clerk[c].at \in {"open", "write"} /\ reversed[b] - clerk[c].points >= Earn

TakesBackAll ==
  \A b \in awarded \ missed :
    refunded[b] = Earn => reversed[b] >= Earn \/ \E c \in Clerks : Completes(c, b)

PointInv ==
  PointTypes /\ Negative /\ BalanceIsSum /\ OneReverses /\ ReversedWithinEarned /\ TakesBackAll

LEMMA PointInit == DiscountsInit => PointInv
<1> SUFFICES ASSUME DiscountsInit PROVE PointInv
  OBVIOUS
<1> USE DiscountsAssumption
<1>1. Idle \in ClerkRecord /\ Idle.at = "idle"
  BY DEF Idle, ClerkRecord
<1>2. \A c \in Clerks : clerk[c].at = "idle"
  BY <1>1 DEF DiscountsInit
<1>3. StartBalance \in Nat /\ Earn \in Nat /\ 0 \in 0 .. Earn
  OBVIOUS
<1>4. \A b \in Baskets : basket[b].at # "create"
  BY DEF DiscountsInit
<1>5. PointTypes
  <2>1. balance \in Nat /\ ledger \in Int /\ forgiven \in Nat
    BY <1>3 DEF DiscountsInit
  <2>2. reversed \in [Baskets -> Nat] /\ refunded \in [Baskets -> 0 .. Earn]
    BY <1>3 DEF DiscountsInit
  <2>3. clerk \in [Clerks -> ClerkRecord]
    BY <1>1 DEF DiscountsInit
  <2>4. crossed \in BOOLEAN /\ awarded = {} /\ doubled = {} /\ missed = {}
    BY DEF DiscountsInit
  <2> QED
    BY <1>4, <2>1, <2>2, <2>3, <2>4 DEF PointTypes
<1> QED
  BY <1>2, <1>3, <1>5
  DEF DiscountsInit, PointInv, Negative, BalanceIsSum, OneReverses, ReversedWithinEarned,
                    TakesBackAll, Takes

\* A request that takes no points back from what it has read: replacing its record disturbs
\* nothing of the others.
LEMMA ClerkMoves ==
  ASSUME PointInv, NEW c \in Clerks, NEW t \in ClerkRecord,
         clerk' = [clerk EXCEPT ![c] = t],
         ~(t.at \in {"open", "write"} /\ t.kind = "REVERSED"),
         \A b \in awarded' \ missed' : refunded'[b] = Earn /\ Completes(c, b) => Completes(c, b)',
         awarded' \ missed' \subseteq awarded \ missed,
         \A b \in awarded' \ missed' :
           refunded'[b] = Earn /\ refunded[b] # Earn => Completes(c, b)',
         UNCHANGED <<reversed, doubled>>
  PROVE  Negative' /\ OneReverses' /\ ReversedWithinEarned' /\ TakesBackAll'
<1>1. clerk'[c] = t /\ \A x \in Clerks \ {c} : clerk'[x] = clerk[x]
  BY DEF PointInv, PointTypes
<1>2. \A x \in Clerks : Takes(x)' => Takes(x) /\ x # c /\ clerk'[x] = clerk[x]
  BY <1>1 DEF Takes
<1>3. Negative' /\ OneReverses' /\ ReversedWithinEarned'
  BY <1>1, <1>2 DEF PointInv, Negative, OneReverses, ReversedWithinEarned
<1>4. \A x \in Clerks \ {c}, b \in Baskets : Completes(x, b) => Completes(x, b)'
  BY <1>1 DEF Completes, Reverses
<1>5. TakesBackAll'
  BY <1>4 DEF PointInv, PointTypes, TakesBackAll
<1> QED
  BY <1>3, <1>5

LEMMA PointStep == CheckoutInv /\ PointInv /\ [DiscountsNext]_discountVars => PointInv'
<1> SUFFICES ASSUME CheckoutInv, PointInv, [DiscountsNext]_discountVars PROVE PointInv'
  OBVIOUS
<1> USE DiscountsAssumption
<1>0. Earn \in Nat /\ 0 < Earn
  OBVIOUS
<1>1. ASSUME UNCHANGED <<awarded, reversed, refunded, clerk, doubled, missed>>
      PROVE  Negative' /\ OneReverses' /\ ReversedWithinEarned' /\ TakesBackAll'
  BY <1>1 DEF PointInv, Negative, OneReverses, ReversedWithinEarned, TakesBackAll, Takes,
              Completes, Reverses
<1>2. ASSUME NEW b \in Baskets, Create(b)
      PROVE  PointInv'
  <2>1. /\ balance >= basket[b].points /\ basket[b].at = "create"
        /\ balance' = balance - basket[b].points /\ ledger' = ledger - basket[b].points
        /\ \A x \in Baskets : basket'[x].at = "create" => basket'[x] = basket[x]
        /\ UNCHANGED <<forgiven, awarded, reversed, refunded, clerk, crossed, doubled, missed>>
    <3>1. /\ basket[b].at = "create"
          /\ basket' = [basket EXCEPT ![b].at = IF basket[b].promo THEN "count" ELSE "done"]
          /\ CheckoutTypes
      BY <1>2 DEF Create, CheckoutInv
    <3>2. /\ basket'[b].at # "create"
          /\ \A x \in Baskets \ {b} : basket'[x] = basket[x]
      BY <3>1, BasketMoves
    <3> QED
      BY <1>2, <3>1, <3>2 DEF Create, Redeem, historyVars
  <2>2. PointTypes'
    BY <2>1 DEF PointInv, PointTypes
  <2>3. BalanceIsSum'
    BY <2>1 DEF PointInv, PointTypes, BalanceIsSum
  <2> QED
    BY <1>1, <2>1, <2>2, <2>3 DEF PointInv
<1>3. ASSUME NEW b \in Baskets, Checkout(b), ~Create(b)
      PROVE  PointInv'
  <2>1. UNCHANGED <<balance, ledger, forgiven, awarded, reversed, refunded, clerk, crossed,
                    doubled, missed>>
    BY <1>3 DEF Checkout, Price, CreateRefused, Consume, ConsumeRefused, ConsumeNothing, pointVars,
                historyVars
  <2>2. \A x \in Baskets : basket'[x].at = "create" => basket'[x].points \in Nat
    <3>1. CheckoutInv'
      BY <1>3, CheckoutStep DEF DiscountsNext
    <3> QED
      BY <3>1 DEF CheckoutInv, CheckoutTypes, BasketRecord
  <2>3. PointTypes' /\ BalanceIsSum'
    BY <2>1, <2>2 DEF PointInv, PointTypes, BalanceIsSum
  <2> QED
    BY <1>1, <2>1, <2>3 DEF PointInv
<1>4. ASSUME NEW c \in Clerks, NEW b \in Followed, Award(c, b)
      PROVE  PointInv'
  <2> DEFINE t == [at |-> "open", kind |-> "EARNED", order |-> b, points |-> Earn]
  <2>1. /\ clerk[c].at = "idle" /\ clerk' = [clerk EXCEPT ![c] = t]
        /\ UNCHANGED <<basket, balance, ledger, forgiven, awarded, reversed, refunded, crossed,
                       doubled, missed>>
    BY <1>4 DEF Award, Idle, pointVars, historyVars
  <2>2. t \in ClerkRecord /\ t.kind # "REVERSED"
    BY <1>0 DEF ClerkRecord
  <2> HIDE DEF t
  <2>3. PointTypes' /\ BalanceIsSum'
    BY <2>1, <2>2 DEF PointInv, PointTypes, BalanceIsSum
  <2>4. \A x \in Baskets : ~Completes(c, x)
    BY <2>1 DEF Completes, Reverses
  <2> QED
    BY <2>1, <2>2, <2>3, <2>4, ClerkMoves DEF PointInv, PointTypes
<1>5. ASSUME NEW c \in Clerks, NEW b \in Followed, NEW n \in 1 .. Earn, Refund(c, b, n)
      PROVE  PointInv'
  <2> DEFINE t == [at |-> "ratio", kind |-> "REVERSED", order |-> b]
  <2>1. /\ clerk[c].at = "idle" /\ clerk' = [clerk EXCEPT ![c] = t]
        /\ refunded[b] + n <= Earn /\ refunded' = [refunded EXCEPT ![b] = refunded[b] + n]
        /\ UNCHANGED <<basket, balance, ledger, forgiven, awarded, reversed, crossed, doubled,
                       missed>>
    BY <1>5 DEF Refund, Idle, pointVars, historyVars
  <2>2. t \in ClerkRecord /\ t.at = "ratio" /\ t.kind = "REVERSED" /\ t.order = b
    BY DEF ClerkRecord
  <2> HIDE DEF t
  <2>3. refunded' \in [Baskets -> 0 .. Earn]
    BY <1>0, <2>1 DEF PointInv, PointTypes
  <2>4. PointTypes' /\ BalanceIsSum'
    BY <2>1, <2>2, <2>3 DEF PointInv, PointTypes, BalanceIsSum
  <2>5. \A x \in Baskets : ~Completes(c, x)
    BY <2>1 DEF Completes, Reverses
  <2>6. clerk'[c] = t
    BY <2>1 DEF PointInv, PointTypes
  <2>7. Completes(c, b)'
    BY <2>2, <2>6 DEF Completes, Reverses
  <2>8. \A x \in Baskets : refunded'[x] = refunded[x] \/ x = b
    BY <2>1 DEF PointInv, PointTypes
  <2>9. awarded' \ missed' = awarded \ missed /\ awarded \subseteq Baskets
    BY <2>1 DEF PointInv, PointTypes
  <2>10. \A x \in awarded' \ missed' :
           refunded'[x] = Earn /\ refunded[x] # Earn => Completes(c, x)'
    BY <2>7, <2>8, <2>9
  <2>11. \A x \in awarded' \ missed' :
           refunded'[x] = Earn /\ Completes(c, x) => Completes(c, x)'
    BY <2>5, <2>9
  <2>12. Negative' /\ OneReverses' /\ ReversedWithinEarned' /\ TakesBackAll'
    BY <2>1, <2>2, <2>9, <2>10, <2>11, ClerkMoves
  <2> QED
    BY <2>4, <2>12 DEF PointInv
<1>6. ASSUME NEW c \in Clerks, NEW n \in {-1, 1}, Adjust(c, n)
      PROVE  PointInv'
  <2> DEFINE t == [at |-> "open", kind |-> "ADJUSTED", points |-> n]
  <2>1. /\ clerk[c].at = "idle" /\ clerk' = [clerk EXCEPT ![c] = t]
        /\ UNCHANGED <<basket, balance, ledger, forgiven, awarded, reversed, refunded, crossed,
                       doubled, missed>>
    BY <1>6 DEF Adjust, Idle, pointVars, historyVars
  <2>2. t \in ClerkRecord /\ t.kind # "REVERSED"
    BY DEF ClerkRecord
  <2> HIDE DEF t
  <2>3. PointTypes' /\ BalanceIsSum'
    BY <2>1, <2>2 DEF PointInv, PointTypes, BalanceIsSum
  <2>4. \A x \in Baskets : ~Completes(c, x)
    BY <2>1 DEF Completes, Reverses
  <2> QED
    BY <2>1, <2>2, <2>3, <2>4, ClerkMoves DEF PointInv, PointTypes
<1>7. ASSUME NEW c \in Clerks, ReadRatio(c)
      PROVE  PointInv'
  <2> DEFINE b == clerk[c].order
             t == [at |-> "sum", kind |-> "REVERSED", order |-> b, target |-> refunded[b]]
  <2>1. /\ clerk[c].at = "ratio" /\ clerk' = [clerk EXCEPT ![c] = t]
        /\ UNCHANGED <<basket, balance, ledger, forgiven, awarded, reversed, refunded, crossed,
                       doubled, missed>>
    BY <1>7 DEF ReadRatio, pointVars, historyVars
  <2>2. b \in Baskets /\ refunded[b] \in 0 .. Earn
    BY <2>1 DEF PointInv, PointTypes, ClerkRecord
  <2>3. /\ t \in ClerkRecord /\ t.at = "sum" /\ t.kind = "REVERSED" /\ t.order = clerk[c].order
        /\ t.target = refunded[clerk[c].order]
    BY <2>2 DEF ClerkRecord
  <2> HIDE DEF t, b
  <2>4. PointTypes' /\ BalanceIsSum'
    BY <2>1, <2>3 DEF PointInv, PointTypes, BalanceIsSum
  <2>5. clerk'[c] = t
    BY <2>1 DEF PointInv, PointTypes
  <2>6. \A x \in Baskets : refunded'[x] = Earn /\ Completes(c, x) => Completes(c, x)'
    BY <2>1, <2>3, <2>5 DEF Completes, Reverses
  <2> QED
    BY <2>1, <2>3, <2>4, <2>6, ClerkMoves DEF PointInv, PointTypes
<1>8. ASSUME NEW c \in Clerks, SumReversed(c)
      PROVE  PointInv'
  <2>1. /\ clerk[c].at = "sum"
        /\ UNCHANGED <<basket, balance, ledger, forgiven, awarded, reversed, refunded, crossed,
                       missed>>
    BY <1>8 DEF SumReversed, pointVars
  <2>2. PICK b \in Baskets : /\ b = clerk[c].order /\ clerk[c].kind = "REVERSED"
                             /\ clerk[c].target \in 0 .. Earn /\ reversed[b] \in Nat
    BY <2>1 DEF PointInv, PointTypes, ClerkRecord
  <2>3. CASE b \in awarded /\ ToReverse(c) > 0
    <3> DEFINE t == [at |-> "open", kind |-> "REVERSED", order |-> b, points |-> -ToReverse(c)]
    <3>1. /\ clerk' = [clerk EXCEPT ![c] = t]
          /\ doubled' = IF Reversing(b) # {} THEN doubled \cup {b} ELSE doubled
      BY <1>8, <2>2, <2>3 DEF SumReversed
    <3>2. ToReverse(c) = clerk[c].target - reversed[b] /\ ToReverse(c) \in Int
      BY <2>2 DEF ToReverse
    <3>3. /\ t \in ClerkRecord /\ t.at = "open" /\ t.kind = "REVERSED" /\ t.order = b
          /\ t.points = reversed[b] - clerk[c].target /\ t.points < 0
      BY <2>2, <2>3, <3>2 DEF ClerkRecord
    <3> HIDE DEF t
    <3>4. clerk'[c] = t /\ \A x \in Clerks \ {c} : clerk'[x] = clerk[x]
      BY <3>1 DEF PointInv, PointTypes
    <3>5. PointTypes' /\ BalanceIsSum'
      BY <2>1, <3>1, <3>3 DEF PointInv, PointTypes, BalanceIsSum
    <3>6. \A x \in Clerks \ {c} : Takes(x)' => Takes(x) /\ clerk'[x] = clerk[x]
      BY <3>4 DEF Takes
    <3>7. Negative'
      BY <3>3, <3>4, <3>6 DEF PointInv, Negative, Takes
    <3>8. doubled \subseteq doubled' /\ ReversedWithinEarned'
      BY <2>1, <3>1 DEF PointInv, ReversedWithinEarned
    <3>9. b \notin doubled' => \A x \in Clerks : Takes(x) => clerk[x].order # b
      BY <3>1 DEF Reversing, Takes
    <3>10. OneReverses'
      <4>1. ASSUME NEW x \in Clerks \ {c}, Takes(x)', (clerk[x].order \notin doubled)'
            PROVE  /\ (reversed[clerk[x].order] - clerk[x].points <= Earn)'
                   /\ \A y \in Clerks : (Takes(y) /\ clerk[y].order = clerk[x].order)' => y = x
        BY <2>1, <3>3, <3>4, <3>6, <3>8, <3>9, <4>1 DEF PointInv, OneReverses
      <4>2. Takes(c)' /\ (clerk[c].order \notin doubled)' =>
              /\ (reversed[clerk[c].order] - clerk[c].points <= Earn)'
              /\ \A y \in Clerks : (Takes(y) /\ clerk[y].order = clerk[c].order)' => y = c
        BY <2>1, <2>2, <3>3, <3>4, <3>6, <3>9
      <4> QED
        BY <4>1, <4>2 DEF OneReverses
    <3>11. \A x \in Clerks \ {c}, y \in Baskets : Completes(x, y) => Completes(x, y)'
      BY <2>1, <3>4 DEF Completes, Reverses
    <3>12. \A y \in Baskets : Completes(c, y) => Completes(c, y)'
      BY <2>1, <2>2, <3>3, <3>4 DEF Completes, Reverses
    <3>13. TakesBackAll'
      BY <2>1, <3>11, <3>12 DEF PointInv, PointTypes, TakesBackAll
    <3> QED
      BY <3>5, <3>7, <3>8, <3>10, <3>13 DEF PointInv
  <2>4. CASE ~(b \in awarded /\ ToReverse(c) > 0)
    <3>1. clerk' = [clerk EXCEPT ![c] = Idle] /\ doubled' = doubled
      BY <1>8, <2>2, <2>4 DEF SumReversed, Done
    <3>2. Idle \in ClerkRecord /\ Idle.at = "idle"
      BY DEF Idle, ClerkRecord
    <3>3. PointTypes' /\ BalanceIsSum'
      BY <2>1, <3>1, <3>2 DEF PointInv, PointTypes, BalanceIsSum
    <3>4. b \in awarded /\ clerk[c].target = Earn => reversed[b] >= Earn
      BY <2>2, <2>4 DEF ToReverse
    <3>5. clerk'[c] = Idle /\ \A x \in Clerks \ {c} : clerk'[x] = clerk[x]
      BY <3>1 DEF PointInv, PointTypes
    <3>6. \A x \in Clerks : Takes(x)' => Takes(x) /\ clerk'[x] = clerk[x]
      BY <3>2, <3>5 DEF Takes
    <3>7. Negative' /\ OneReverses' /\ ReversedWithinEarned'
      BY <2>1, <3>1, <3>6 DEF PointInv, Negative, OneReverses, ReversedWithinEarned
    <3>8. \A x \in Clerks \ {c}, y \in Baskets : Completes(x, y) => Completes(x, y)'
      BY <2>1, <3>5 DEF Completes, Reverses
    <3>9. \A y \in awarded : Completes(c, y) => reversed[y] >= Earn
      BY <2>1, <2>2, <3>4 DEF Completes, Reverses
    <3>10. TakesBackAll'
      BY <2>1, <3>8, <3>9 DEF PointInv, PointTypes, TakesBackAll
    <3> QED
      BY <3>3, <3>7, <3>10 DEF PointInv
  <2> QED
    BY <2>3, <2>4
<1>9. ASSUME NEW c \in Clerks, RecordRead(c)
      PROVE  PointInv'
  <2>1. /\ clerk[c].at = "open" /\ balance \in Nat
        /\ UNCHANGED <<basket, balance, ledger, forgiven, awarded, reversed, refunded, crossed,
                       doubled, missed>>
    BY <1>9 DEF RecordRead, pointVars, historyVars, PointInv, PointTypes
  <2>2. PICK t \in ClerkRecord :
          /\ clerk' = [clerk EXCEPT ![c] = t]
          /\ t.at = "write" /\ t.kind = clerk[c].kind /\ t.points = clerk[c].points
          /\ t.kind # "ADJUSTED" => t.order = clerk[c].order
    <3>1. CASE clerk[c].kind = "ADJUSTED"
      <4> DEFINE t == [at |-> "write", kind |-> clerk[c].kind, points |-> clerk[c].points,
                       seen |-> balance]
      <4>1. t \in ClerkRecord
        BY <2>1, <3>1 DEF PointInv, PointTypes, ClerkRecord
      <4> QED
        BY <1>9, <3>1, <4>1 DEF RecordRead
    <3>2. CASE clerk[c].kind # "ADJUSTED"
      <4> DEFINE t == [at |-> "write", kind |-> clerk[c].kind, points |-> clerk[c].points,
                       seen |-> balance, order |-> clerk[c].order]
      <4>1. t \in ClerkRecord
        BY <2>1, <3>2 DEF PointInv, PointTypes, ClerkRecord
      <4> QED
        BY <1>9, <3>2, <4>1 DEF RecordRead
    <3> QED
      BY <3>1, <3>2
  <2>3. PointTypes' /\ BalanceIsSum'
    BY <2>1, <2>2 DEF PointInv, PointTypes, BalanceIsSum
  <2>4. clerk'[c] = t /\ \A x \in Clerks \ {c} : clerk'[x] = clerk[x]
    BY <2>2 DEF PointInv, PointTypes
  <2>5. \A x \in Clerks :
          Takes(x)' => Takes(x) /\ clerk'[x].points = clerk[x].points
                                /\ clerk'[x].order = clerk[x].order
    BY <2>1, <2>2, <2>4 DEF Takes
  <2>6. Negative' /\ OneReverses' /\ ReversedWithinEarned'
    BY <2>1, <2>5 DEF PointInv, Negative, OneReverses, ReversedWithinEarned
  <2>7. \A x \in Clerks, y \in Baskets : Completes(x, y) => Completes(x, y)'
    BY <2>1, <2>2, <2>4 DEF Completes, Reverses
  <2>8. TakesBackAll'
    BY <2>1, <2>7 DEF PointInv, PointTypes, TakesBackAll
  <2> QED
    BY <2>3, <2>6, <2>8 DEF PointInv
<1>10. ASSUME NEW c \in Clerks, RecordWrite(c)
       PROVE  PointInv'
  <2> DEFINE t == clerk[c]
             new == Floor(t.seen + t.points)
  <2>1. /\ t.at = "write" /\ ~Earned(c)
        /\ balance' = new /\ ledger' = ledger + t.points
        /\ forgiven' = forgiven + new - (t.seen + t.points)
        /\ crossed' = (crossed \/ balance # t.seen)
        /\ clerk' = [clerk EXCEPT ![c] = Idle]
        /\ UNCHANGED <<basket, refunded, doubled>>
    BY <1>10 DEF RecordWrite, Done
  <2>2. /\ awarded' = IF t.kind = "EARNED" THEN awarded \cup {t.order} ELSE awarded
        /\ missed' = IF t.kind = "EARNED" /\ refunded[t.order] = Earn
                     THEN missed \cup {t.order} ELSE missed
        /\ reversed' = IF t.kind = "REVERSED"
                       THEN [reversed EXCEPT ![t.order] = reversed[t.order] - t.points]
                       ELSE reversed
    BY <1>10 DEF RecordWrite
  <2>3. /\ t.kind \in {"ADJUSTED", "EARNED", "REVERSED"} /\ t.points \in Int /\ t.seen \in Nat
        /\ t.kind # "ADJUSTED" => t.order \in Baskets
    BY <2>1 DEF PointInv, PointTypes, ClerkRecord
  <2>4. Idle \in ClerkRecord /\ Idle.at = "idle"
    BY DEF Idle, ClerkRecord
  <2>5. t.kind = "REVERSED" => Takes(c) /\ t.points < 0
    BY <2>1 DEF PointInv, Negative, Takes
  <2> HIDE DEF t
  <2>6. /\ new \in Nat /\ new >= t.seen + t.points
        /\ t.seen + t.points \in Int
    BY <2>3 DEF Floor
  <2> HIDE DEF new
  <2>7. reversed' \in [Baskets -> Nat]
    BY <2>2, <2>3, <2>5 DEF PointInv, PointTypes
  <2>8. PointTypes'
    <3>1. balance' \in Nat /\ ledger' \in Int /\ forgiven' \in Nat
      BY <2>1, <2>3, <2>6 DEF PointInv, PointTypes
    <3>2. awarded' \subseteq Baskets /\ missed' \subseteq Baskets
      BY <2>2, <2>3 DEF PointInv, PointTypes
    <3>3. clerk' \in [Clerks -> ClerkRecord]
      BY <2>1, <2>4 DEF PointInv, PointTypes
    <3>4. crossed' \in BOOLEAN
      BY <2>1
    <3> QED
      BY <2>1, <2>7, <3>1, <3>2, <3>3, <3>4 DEF PointInv, PointTypes
  <2>9. BalanceIsSum'
    <3>1. ~crossed' => ~crossed /\ balance = t.seen
      BY <2>1
    <3>2. ~crossed => balance = ledger + forgiven
      BY DEF PointInv, BalanceIsSum
    <3>3. new = ledger + t.points + (forgiven + new - (balance + t.points)) <=>
            balance = ledger + forgiven
      BY <2>3, <2>6 DEF PointInv, PointTypes
    <3> QED
      BY <2>1, <3>1, <3>2, <3>3 DEF BalanceIsSum
  <2>10. clerk'[c].at = "idle" /\ \A x \in Clerks \ {c} : clerk'[x] = clerk[x]
    BY <2>1, <2>4 DEF PointInv, PointTypes
  <2>11. \A x \in Clerks : Takes(x)' => Takes(x) /\ x # c /\ clerk'[x] = clerk[x]
    BY <2>10 DEF Takes
  <2>12. Negative'
    BY <2>11 DEF PointInv, Negative
  <2>13. \A b \in Baskets :
           \/ reversed'[b] = reversed[b]
           \/ /\ t.kind = "REVERSED" /\ b = t.order
              /\ reversed'[b] = reversed[b] - t.points /\ reversed'[b] >= reversed[b]
    BY <2>2, <2>3, <2>5 DEF PointInv, PointTypes
  <2>14. t.kind = "REVERSED" /\ t.order \notin doubled =>
           /\ reversed[t.order] - t.points <= Earn
           /\ \A x \in Clerks : Takes(x) /\ clerk[x].order = t.order => x = c
    BY <2>5 DEF t, PointInv, OneReverses
  <2>15. ReversedWithinEarned'
    BY <2>1, <2>13, <2>14 DEF PointInv, ReversedWithinEarned
  <2>16. OneReverses'
    <3>1. ASSUME NEW x \in Clerks, Takes(x)', (clerk[x].order \notin doubled)'
          PROVE  /\ Takes(x) /\ clerk'[x] = clerk[x] /\ clerk[x].order \in Baskets
                 /\ reversed'[clerk[x].order] = reversed[clerk[x].order]
      <4>1. Takes(x) /\ x # c /\ clerk'[x] = clerk[x]
        BY <2>11, <3>1
      <4>2. clerk[x].order \in Baskets
        BY <4>1 DEF Takes, PointInv, PointTypes, ClerkRecord
      <4> QED
        BY <2>1, <2>13, <2>14, <3>1, <4>1, <4>2
    <3> QED
      BY <2>1, <2>11, <3>1 DEF PointInv, OneReverses
  <2>17. \A x \in Clerks \ {c}, b \in Baskets :
           Completes(x, b) => Completes(x, b)' \/ reversed'[b] >= Earn
    <3> SUFFICES ASSUME NEW x \in Clerks \ {c}, NEW b \in Baskets, Completes(x, b)
                 PROVE  Completes(x, b)' \/ reversed'[b] >= Earn
      OBVIOUS
    <3>1. clerk'[x] = clerk[x] /\ reversed'[b] >= reversed[b]
      BY <2>10, <2>13, <2>8 DEF PointInv, PointTypes
    <3>2. clerk[x].at \in {"open", "write"} => clerk[x].points \in Int
      BY DEF Completes, Reverses, PointInv, PointTypes, ClerkRecord
    <3>3. reversed[b] \in Nat /\ reversed'[b] \in Nat
      BY <2>7 DEF PointInv, PointTypes
    <3> QED
      BY <1>0, <3>1, <3>2, <3>3 DEF Completes, Reverses
  <2>18. \A b \in Baskets : Completes(c, b) => reversed'[b] >= Earn
    BY <2>1, <2>2, <2>3, <2>13 DEF t, Completes, Reverses, PointInv, PointTypes
  <2>19. TakesBackAll'
    <3> SUFFICES ASSUME NEW b \in awarded' \ missed', refunded'[b] = Earn
                 PROVE  reversed'[b] >= Earn \/ \E x \in Clerks : Completes(x, b)'
      BY DEF TakesBackAll
    <3>1. b \in awarded \ missed /\ b \in Baskets
      BY <2>1, <2>2 DEF PointInv, PointTypes
    <3>2. reversed[b] >= Earn \/ \E x \in Clerks : Completes(x, b)
      BY <2>1, <3>1 DEF PointInv, TakesBackAll
    <3>3. reversed[b] >= Earn => reversed'[b] >= Earn
      BY <1>0, <2>7, <2>13, <3>1 DEF PointInv, PointTypes
    <3> QED
      BY <2>17, <2>18, <3>1, <3>2, <3>3
  <2> QED
    BY <2>8, <2>9, <2>12, <2>15, <2>16, <2>19 DEF PointInv
<1>11. ASSUME NEW c \in Clerks, RecordRefused(c) \/ ClerkDies(c)
       PROVE  PointInv'
  <2>1. /\ clerk[c].at # "idle" /\ clerk' = [clerk EXCEPT ![c] = Idle]
        /\ \/ missed' = missed
           \/ missed' = missed \cup {clerk[c].order} /\ Reverses(c, clerk[c].order)
        /\ clerk[c].kind = "REVERSED" => missed' = missed \cup {clerk[c].order}
        /\ UNCHANGED <<basket, balance, ledger, forgiven, awarded, reversed, refunded, crossed,
                       doubled>>
    BY <1>11 DEF RecordRefused, ClerkDies, Earned, Done, Reverses, pointVars, historyVars
  <2>2. Idle \in ClerkRecord /\ Idle.at = "idle"
    BY DEF Idle, ClerkRecord
  <2>3. Reverses(c, clerk[c].order) => clerk[c].order \in Baskets
    BY DEF Reverses, PointInv, PointTypes, ClerkRecord
  <2>4. PointTypes' /\ BalanceIsSum'
    BY <2>1, <2>2, <2>3 DEF PointInv, PointTypes, BalanceIsSum
  <2>5. awarded' \ missed' \subseteq awarded \ missed
    BY <2>1
  <2>6. \A b \in awarded' \ missed' : ~Completes(c, b)
    BY <2>1 DEF Completes, Reverses
  <2>7. Negative' /\ OneReverses' /\ ReversedWithinEarned' /\ TakesBackAll'
    BY <2>1, <2>2, <2>5, <2>6, ClerkMoves
  <2> QED
    BY <2>4, <2>7 DEF PointInv
<1>12. CASE UNCHANGED discountVars
  <2>1. UNCHANGED <<balance, ledger, forgiven, awarded, reversed, refunded, clerk, crossed,
                    doubled, missed, basket>>
    BY <1>12 DEF discountVars, pointVars, historyVars
  <2> QED
    BY <1>1, <2>1 DEF PointInv, PointTypes, BalanceIsSum
<1> QED
  BY <1>2, <1>3, <1>4, <1>5, <1>6, <1>7, <1>8, <1>9, <1>10, <1>11, <1>12
  DEF DiscountsNext, MovePoints

\* The head of loyalty.service.ts: the balance is the sum of the events, but for the points the
\* floor at zero forgives and unless a balance was written from a stale read.
THEOREM BalanceFollowsEvents == DiscountsSpec => []BalanceIsSum
<1>1. CheckoutInv /\ PointInv => BalanceIsSum
  BY DEF PointInv
<1> QED
  BY <1>1, CheckoutInit, CheckoutStep, PointInit, PointStep, PTL DEF DiscountsSpec

\* However an order is refunded, no more points are taken back than it earned, unless two
\* requests summed its reversals at once (reverseForOrder).
THEOREM NoMoreThanEarned == DiscountsSpec => []ReversedWithinEarned
<1>1. CheckoutInv /\ PointInv => ReversedWithinEarned
  BY DEF PointInv
<1> QED
  BY <1>1, CheckoutInit, CheckoutStep, PointInit, PointStep, PTL DEF DiscountsSpec

\* A refund in full takes all points back, once its requests have ended.
THEOREM RefundTakesAll == DiscountsSpec => []RefundTakesPointsBack
<1>1. PointInv => RefundTakesPointsBack
  BY DEF PointInv, PointTypes, TakesBackAll, Completes, Reverses, RefundTakesPointsBack
<1> QED
  BY <1>1, CheckoutInit, CheckoutStep, PointInit, PointStep, PTL DEF DiscountsSpec

\* Every variable keeps its type; the balance in particular is never negative.
THEOREM TypesAreKept == DiscountsSpec => []DiscountsTypeOK
<1> DEFINE Bounds == adjusts \in 0 .. MaxAdjusts /\ deaths \in 0 .. MaxDeaths
<1> USE DiscountsAssumption
<1>1. DiscountsInit => Bounds
  BY DEF DiscountsInit
<1>2. ASSUME Bounds, [DiscountsNext]_discountVars
      PROVE  Bounds'
  <2>1. ASSUME NEW b \in Baskets, Checkout(b)
        PROVE  /\ adjusts' = adjusts
               /\ deaths' = deaths \/ (deaths < MaxDeaths /\ deaths' = deaths + 1)
    BY <2>1 DEF Checkout, Price, Create, CreateRefused, Consume, ConsumeRefused, ConsumeNothing
  <2>2. ASSUME NEW c \in Clerks, MovePoints(c)
        PROVE  /\ adjusts' = adjusts \/ (adjusts < MaxAdjusts /\ adjusts' = adjusts + 1)
               /\ deaths' = deaths \/ (deaths < MaxDeaths /\ deaths' = deaths + 1)
    BY <2>2 DEF MovePoints, Award, Refund, Adjust, ReadRatio, SumReversed, RecordRead,
                RecordWrite, RecordRefused, ClerkDies
  <2>3. UNCHANGED discountVars => UNCHANGED <<adjusts, deaths>>
    BY DEF discountVars
  <2>4. MaxAdjusts \in Nat /\ MaxDeaths \in Nat
    OBVIOUS
  <2>5. ASSUME NEW b \in Baskets, Checkout(b)
        PROVE  Bounds'
    BY <1>2, <2>1, <2>4, <2>5
  <2>6. ASSUME NEW c \in Clerks, MovePoints(c)
        PROVE  Bounds'
    <3>1. adjusts' \in 0 .. MaxAdjusts
      BY <1>2, <2>2, <2>4, <2>6
    <3>2. deaths' \in 0 .. MaxDeaths
      BY <1>2, <2>2, <2>4, <2>6
    <3> QED
      BY <3>1, <3>2
  <2>7. UNCHANGED discountVars => Bounds'
    BY <1>2, <2>3
  <2> HIDE DEF Bounds
  <2> QED
    BY <1>2, <2>5, <2>6, <2>7 DEF DiscountsNext
<1>3. CheckoutInv /\ PointInv /\ Bounds => DiscountsTypeOK
  <2> SUFFICES ASSUME CheckoutInv, PointInv, Bounds
               PROVE  DiscountsTypeOK
    OBVIOUS
  <2>1. \A b \in Baskets :
          basket[b].at \in {"cart", "create", "refused", "count", "done", "short", "uncounted"}
    BY DEF CheckoutInv, CheckoutTypes, BasketRecord
  <2>2. \A c \in Clerks : clerk[c].at \in {"idle", "ratio", "sum", "open", "write"}
    BY DEF PointInv, PointTypes, ClerkRecord
  <2> QED
    BY <2>1, <2>2 DEF CheckoutInv, CheckoutTypes, PointInv, PointTypes, DiscountsTypeOK
<1> HIDE DEF Bounds
<1> QED
  BY <1>1, <1>2, <1>3, CheckoutInit, CheckoutStep, PointInit, PointStep, PTL DEF DiscountsSpec
=============================================================================
