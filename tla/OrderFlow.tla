------------------------------ MODULE OrderFlow ------------------------------
(***************************************************************************)
(* Orders, the stock they hold and the sweep that takes it back:           *)
(*   - checkout creates the sub-orders of a group and takes their stock;   *)
(*   - expireStaleReservations cancels the orders left unpaid too long;    *)
(*   - order.service updateStatus, the shipment handlers and the pickup    *)
(*     counter move an order along;                                        *)
(*   - payment.service create / applySuccess make it paid.                 *)
(*                                                                         *)
(* Grain.  PostgreSQL runs at READ COMMITTED.  A handler that reads rows,  *)
(* decides in JavaScript and then writes is two steps, the read and the    *)
(* commit of its transaction, and every other handler may run in between;  *)
(* a conditional updateMany re-evaluates its WHERE on the committed row    *)
(* and is one step.  The writes of one transaction happen at its commit.   *)
(*                                                                         *)
(* An order line of quantity n is n units, so the stock an order needs of  *)
(* a product is a number of units and sums over orders are cardinalities.  *)
(***************************************************************************)
EXTENDS OrderRules, FiniteSets

CONSTANTS
  Groups,        \* order groups: one validated basket each
  Orders,        \* sub-orders: one per store of a basket
  GroupOf,       \* GroupOf[o]: the group of order o
  Products,      \* inventory lines
  Units,         \* units ordered: the lines of all the orders, unit by unit
  OrderOf,       \* OrderOf[u]: the order unit u belongs to
  ProductOf,     \* ProductOf[u]: the inventory line it is taken from
  InitialStock,  \* quantity of each product before any order
  PickupOrders,  \* orders with deliveryMethod PICKUP_POINT
  Payments,      \* payment attempts
  PaymentOf,     \* PaymentOf[a]: the group attempt a pays
  Confirmations, \* calls of applySuccess: webhook deliveries, confirm requests
  Confirms,      \* Confirms[c]: the payment attempt call c is about
  Requests,      \* HTTP requests on orders; each is one call
  Targets,       \* statuses the requests ask for
  Sweeps,        \* concurrent runs of the sweep (several instances, cron)
  MaxFailures    \* bound: orders a sweep gives up on (error or crash)

ASSUME OrdersAssumption ==
  /\ GroupOf \in [Orders -> Groups]
  /\ IsFiniteSet(Units)
  /\ OrderOf \in [Units -> Orders]
  /\ ProductOf \in [Units -> Products]
  /\ InitialStock \in [Products -> Nat]
  /\ PickupOrders \subseteq Orders
  /\ PaymentOf \in [Payments -> Groups]
  /\ Confirms \in [Confirmations -> Payments]
  /\ Targets \subseteq OrderStatus
  /\ MaxFailures \in Nat

VARIABLES
  status,      \* status[o]: "none" before checkout, then the order's status
  groupStatus, \* status of each group
  quantity,    \* quantity[p]: units on sale
  reserved,    \* reserved[p]: follow-up counter of units held by orders
  aged,        \* orders placed longer ago than RESERVATION_MINUTES
  payment,     \* status of each payment attempt, "none" and "creating" before it exists
  applying,    \* applying[c]: NotApplying, or the orders applySuccess read as PENDING
  shipment,    \* the last shipment of each order
  collected,   \* orders released at a pickup counter
  request,     \* request[r]: what request r has read and is about to write
  sweeping,    \* sweeping[s]: candidates sweep s still has to claim
  failures,    \* orders sweeps gave up on, bounded by MaxFailures
  revived      \* history: orders a request or a payment wrote to after they were CANCELLED

orderVars   == <<status, groupStatus, revived>>
stockVars   == <<quantity, reserved>>
paymentVars == <<payment, applying>>
parcelVars  == <<shipment, collected>>
sweepVars   == <<sweeping, failures>>
vars == <<orderVars, stockVars, aged, paymentVars, parcelVars, request, sweepVars>>

OrdersOf(g) == {o \in Orders : GroupOf[o] = g}

\* The units of product p that the orders in S ask for.
UnitsOf(S, p) == {u \in Units : ProductOf[u] = p /\ OrderOf[u] \in S}
Need(S, p)    == Cardinality(UnitsOf(S, p))

\* Orders that hold their units: placed and not cancelled.
Live == {o \in Orders : status[o] \notin {"none", "CANCELLED"}}

\* PAYMENT_IN_FLIGHT: some attempt of the group forbids the expiry of its orders.
InFlight(g) == \E a \in Payments :
                 PaymentOf[a] = g /\ payment[a] \in {"PENDING", "SUCCEEDED"}

NotApplying == [step |-> "idle"]
IdleRequest == [step |-> "idle"]
DoneRequest == [step |-> "done"]

Init ==
  /\ status = [o \in Orders |-> "none"]
  /\ groupStatus = [g \in Groups |-> "PENDING"]
  /\ quantity = InitialStock
  /\ reserved = [p \in Products |-> 0]
  /\ aged = {}
  /\ payment = [a \in Payments |-> "none"]
  /\ applying = [c \in Confirmations |-> NotApplying]
  /\ shipment = [o \in Orders |-> "none"]
  /\ collected = {}
  /\ request = [r \in Requests |-> IdleRequest]
  /\ sweeping = [s \in Sweeps |-> {}]
  /\ failures = 0
  /\ revived = {}

-----------------------------------------------------------------------------
(***************************************************************************)
(* Writes shared by the handlers.                                          *)
(***************************************************************************)

\* order.update({ where: { id } }): unconditional, whatever the row says now.
WriteStatus(S, target) ==
  /\ status' = [o \in Orders |-> IF o \in S THEN target ELSE status[o]]
  /\ revived' = revived \cup {o \in S : status[o] = "CANCELLED"}

\* Mutant: the decrement without its condition quantity >= n.
TakeStockUnconditional(S) ==
  /\ quantity' = [p \in Products |-> quantity[p] - Need(S, p)]
  /\ reserved' = [p \in Products |-> reserved[p] + Need(S, p)]

\* prelever for every line, in one transaction: all or nothing.
TakeStock(S) ==
  /\ \A p \in Products : quantity[p] >= Need(S, p)
  /\ quantity' = [p \in Products |-> quantity[p] - Need(S, p)]
  /\ reserved' = [p \in Products |-> reserved[p] + Need(S, p)]

\* Mutant: the reservation is released but the units do not return on sale.
ReleaseWithoutRestock(S) ==
  /\ quantity' = quantity
  /\ reserved' = [p \in Products |-> IF reserved[p] >= Need(S, p)
                                     THEN reserved[p] - Need(S, p) ELSE 0]

\* libererStock with restock, every line: reserved = GREATEST(reserved - n, 0).
ReleaseStock(S) ==
  /\ quantity' = [p \in Products |-> quantity[p] + Need(S, p)]
  /\ reserved' = [p \in Products |-> IF reserved[p] >= Need(S, p)
                                     THEN reserved[p] - Need(S, p) ELSE 0]

\* refreshGroupStatus, reading the orders as this transaction leaves them.
RefreshGroup(g) ==
  groupStatus' = [groupStatus EXCEPT
    ![g] = IF @ = "REFUNDED" THEN @
           ELSE GroupStatusFrom({status'[o] : o \in OrdersOf(g)})]

-----------------------------------------------------------------------------
(***************************************************************************)
(* Checkout, and time.                                                     *)
(***************************************************************************)

\* creerGroupe: the sub-orders of a basket and their stock in one transaction.
\* A line that cannot be served rolls the whole basket back.
Checkout(g) ==
  LET S == OrdersOf(g) IN
  /\ S # {}
  /\ \A o \in S : status[o] = "none"
  /\ TakeStock(S)
  /\ status' = [o \in Orders |-> IF o \in S THEN "PENDING" ELSE status[o]]
  /\ UNCHANGED <<groupStatus, revived, aged, paymentVars, parcelVars, request, sweepVars>>

\* RESERVATION_MINUTES pass since the basket was placed.
Age(g) ==
  /\ \E o \in OrdersOf(g) : o \notin aged /\ status[o] # "none"
  /\ aged' = aged \cup OrdersOf(g)
  /\ UNCHANGED <<orderVars, stockVars, paymentVars, parcelVars, request, sweepVars>>

-----------------------------------------------------------------------------
(***************************************************************************)
(* expireStaleReservations: a read of the candidates, then one transaction *)
(* per candidate.                                                          *)
(***************************************************************************)

\* Mutant: any past payment attempt, failed ones included, keeps the order for ever.
ExpirableIfNeverPaid(o) ==
  /\ status[o] = "PENDING" /\ o \in aged
  /\ \A a \in Payments : PaymentOf[a] = GroupOf[o] => payment[a] \in {"none", "creating"}

Expirable(o) == status[o] = "PENDING" /\ o \in aged /\ ~InFlight(GroupOf[o])

SweepRead(s) ==
  /\ sweeping[s] = {}
  /\ \E o \in Orders : Expirable(o)
  /\ sweeping' = [sweeping EXCEPT ![s] = {o \in Orders : Expirable(o)}]
  /\ UNCHANGED <<orderVars, stockVars, aged, paymentVars, parcelVars, request, failures>>

\* Mutant: the claim is not conditional, the candidate is cancelled by its id.
SweepClaimById(s, o) ==
  /\ o \in sweeping[s]
  /\ sweeping' = [sweeping EXCEPT ![s] = @ \ {o}]
  /\ status' = [status EXCEPT ![o] = "CANCELLED"]
  /\ ReleaseStock({o})
  /\ UNCHANGED <<groupStatus, revived, aged, paymentVars, parcelVars, request, failures>>

\* Mutant: the group is cancelled with its first expired order, the living ones not counted.
SweepClaimWholeGroup(s, o) ==
  /\ o \in sweeping[s]
  /\ sweeping' = [sweeping EXCEPT ![s] = @ \ {o}]
  /\ status[o] = "PENDING"
  /\ status' = [status EXCEPT ![o] = "CANCELLED"]
  /\ ReleaseStock({o})
  /\ groupStatus' = [groupStatus EXCEPT ![GroupOf[o]] = "CANCELLED"]
  /\ UNCHANGED <<revived, aged, paymentVars, parcelVars, request, failures>>

\* The claim is conditional on PENDING only; the group follows when nothing in
\* it is left alive.
SweepClaim(s, o) ==
  LET g == GroupOf[o] IN
  /\ o \in sweeping[s]
  /\ sweeping' = [sweeping EXCEPT ![s] = @ \ {o}]
  /\ \/ /\ status[o] = "PENDING"
        /\ status' = [status EXCEPT ![o] = "CANCELLED"]
        /\ ReleaseStock({o})
        /\ groupStatus' = [groupStatus EXCEPT
             ![g] = IF /\ @ = "PENDING"
                       /\ \A x \in OrdersOf(g) : status'[x] = "CANCELLED"
                    THEN "CANCELLED" ELSE @]
     \/ /\ status[o] # "PENDING"
        /\ UNCHANGED <<status, groupStatus, stockVars>>
  /\ UNCHANGED <<revived, aged, paymentVars, parcelVars, request, failures>>

\* A transaction that fails is logged and skipped; a crash loses the candidates.
SweepFail(s) ==
  /\ sweeping[s] # {}
  /\ failures < MaxFailures
  /\ failures' = failures + 1
  /\ \/ sweeping' = [sweeping EXCEPT ![s] = {}]
     \/ \E o \in sweeping[s] : sweeping' = [sweeping EXCEPT ![s] = @ \ {o}]
  /\ UNCHANGED <<orderVars, stockVars, aged, paymentVars, parcelVars, request>>

-----------------------------------------------------------------------------
(***************************************************************************)
(* Payments, as far as the orders see them.                                *)
(***************************************************************************)

\* paymentService.create checks the orders and the existing payments ...
PaymentCheck(a) ==
  LET g == PaymentOf[a] IN
  /\ payment[a] = "none"
  /\ \A o \in OrdersOf(g) : status[o] = "PENDING"
  /\ \A b \in Payments : PaymentOf[b] = g => payment[b] # "PENDING"
  /\ payment' = [payment EXCEPT ![a] = "creating"]
  /\ UNCHANGED <<orderVars, stockVars, aged, applying, parcelVars, request, sweepVars>>

\* ... and writes the payment after the provider answered.
PaymentCreate(a) ==
  /\ payment[a] = "creating"
  /\ payment' = [payment EXCEPT ![a] = "PENDING"]
  /\ UNCHANGED <<orderVars, stockVars, aged, applying, parcelVars, request, sweepVars>>

\* A webhook or a confirm request that brings another verdict than SUCCEEDED writes it
\* whatever the payment says now: providers deliver late and out of order.
PaymentVerdict(a, verdict) ==
  /\ payment[a] \in {"PENDING", "FAILED", "SUCCEEDED"} \ {verdict}
  /\ payment' = [payment EXCEPT ![a] = verdict]
  /\ UNCHANGED <<orderVars, stockVars, aged, applying, parcelVars, request, sweepVars>>

\* Mutant: the payment settles one order and forgets its siblings.
ApplyReadOneOrder(c) ==
  /\ payment[Confirms[c]] \in {"PENDING", "FAILED"}
  /\ applying[c] = NotApplying
  /\ \E o \in OrdersOf(PaymentOf[Confirms[c]]) :
       applying' = [applying EXCEPT ![c] = [step |-> "read", pending |-> {o}]]
  /\ UNCHANGED <<orderVars, stockVars, aged, payment, parcelVars, request, sweepVars>>

\* applySuccess reads the payment, not yet SUCCEEDED, with its orders ...
ApplyRead(c) ==
  /\ payment[Confirms[c]] \in {"PENDING", "FAILED"}
  /\ applying[c] = NotApplying
  /\ applying' = [applying EXCEPT ![c] =
       [step |-> "read",
        pending |-> {o \in OrdersOf(PaymentOf[Confirms[c]]) : status[o] = "PENDING"}]]
  /\ UNCHANGED <<orderVars, stockVars, aged, payment, parcelVars, request, sweepVars>>

\* ... and writes PAID on those it saw PENDING, without looking again.
ApplyCommit(c) ==
  LET a == Confirms[c]
      g == PaymentOf[a] IN
  /\ applying[c] # NotApplying
  /\ applying' = [applying EXCEPT ![c] = NotApplying]
  /\ payment' = [payment EXCEPT ![a] = "SUCCEEDED"]
  /\ WriteStatus(applying[c].pending, "PAID")
  /\ groupStatus' = [groupStatus EXCEPT ![g] = GroupStatusFrom({status'[o] : o \in OrdersOf(g)})]
  /\ UNCHANGED <<stockVars, aged, parcelVars, request, sweepVars>>

-----------------------------------------------------------------------------
(***************************************************************************)
(* Requests on one order: a read with its checks, then the commit.         *)
(***************************************************************************)

Reads(r, o, op, target) ==
  /\ request[r] = IdleRequest
  /\ status[o] # "none"
  /\ request' = [request EXCEPT ![r] =
       [step |-> "read", op |-> op, order |-> o, target |-> target]]
  /\ UNCHANGED <<orderVars, stockVars, aged, paymentVars, parcelVars, sweepVars>>

\* order.service updateStatus, up to its transaction.
UpdateRead(r, o, role, target) ==
  /\ status[o] # "none"
  /\ MayMove(role, status[o], target)
  /\ Reads(r, o, "update", target)

UpdateCommit(r) ==
  LET q == request[r] IN
  /\ q.step = "read" /\ q.op = "update"
  /\ request' = [request EXCEPT ![r] = DoneRequest]
  /\ IF q.target = "CANCELLED" THEN ReleaseStock({q.order}) ELSE UNCHANGED stockVars
  /\ WriteStatus({q.order}, q.target)
  /\ RefreshGroup(GroupOf[q.order])
  /\ UNCHANGED <<aged, paymentVars, parcelVars, sweepVars>>

\* createShipment: a paid order with no shipment under way.
ShipRead(r, o) ==
  /\ status[o] \in {"PAID", "CONFIRMED", "PROCESSING"}
  /\ shipment[o] \in {"none", "ended"}
  /\ Reads(r, o, "ship", "PROCESSING")

ShipCommit(r) ==
  LET q == request[r] IN
  /\ q.step = "read" /\ q.op = "ship"
  /\ request' = [request EXCEPT ![r] = DoneRequest]
  /\ shipment' = [shipment EXCEPT ![q.order] = "open"]
  /\ WriteStatus({q.order}, "PROCESSING")
  /\ UNCHANGED <<groupStatus, stockVars, aged, paymentVars, collected, sweepVars>>

\* logistics updateStatus: needs a shipment, asks nothing of the order.
TrackRead(r, o, target) ==
  /\ target \in {"SHIPPED", "IN_TRANSIT", "DELIVERED"}
  /\ shipment[o] # "none"
  /\ Reads(r, o, "track", target)

TrackCommit(r) ==
  LET q == request[r] IN
  /\ q.step = "read" /\ q.op = "track"
  /\ request' = [request EXCEPT ![r] = DoneRequest]
  /\ shipment' = [shipment EXCEPT
       ![q.order] = IF q.target = "DELIVERED" THEN "delivered" ELSE "open"]
  /\ WriteStatus({q.order}, q.target)
  /\ UNCHANGED <<groupStatus, stockVars, aged, paymentVars, collected, sweepVars>>

\* logistics cancel, or updateStatus with FAILED: the order keeps its status.
EndShipment(o) ==
  /\ shipment[o] \in {"open", "delivered"}
  /\ shipment' = [shipment EXCEPT ![o] = "ended"]
  /\ UNCHANGED <<orderVars, stockVars, aged, paymentVars, collected, request, sweepVars>>

\* The pickup counter checks the code and that the parcel is still there.
PickupRead(r, o) ==
  /\ o \in PickupOrders \ collected
  /\ Reads(r, o, "pickup", "DELIVERED")

PickupCommit(r) ==
  LET q == request[r] IN
  /\ q.step = "read" /\ q.op = "pickup"
  /\ request' = [request EXCEPT ![r] = DoneRequest]
  /\ collected' = collected \cup {q.order}
  /\ WriteStatus({q.order}, "DELIVERED")
  /\ UNCHANGED <<groupStatus, stockVars, aged, paymentVars, shipment, sweepVars>>

RequestNext ==
  \/ \E r \in Requests, o \in Orders, role \in Roles, t \in Targets : UpdateRead(r, o, role, t)
  \/ \E r \in Requests : UpdateCommit(r)
  \/ \E r \in Requests, o \in Orders : ShipRead(r, o)
  \/ \E r \in Requests : ShipCommit(r)
  \/ \E r \in Requests, o \in Orders, t \in Targets : TrackRead(r, o, t)
  \/ \E r \in Requests : TrackCommit(r)
  \/ \E o \in Orders : EndShipment(o)
  \/ \E r \in Requests, o \in Orders : PickupRead(r, o)
  \/ \E r \in Requests : PickupCommit(r)

SweepNext ==
  \/ \E s \in Sweeps : SweepRead(s) \/ SweepFail(s)
  \/ \E s \in Sweeps, o \in Orders : SweepClaim(s, o)

PaymentNext ==
  \/ \E a \in Payments : PaymentCheck(a) \/ PaymentCreate(a)
  \/ \E a \in Payments, verdict \in {"PENDING", "FAILED"} : PaymentVerdict(a, verdict)
  \/ \E c \in Confirmations : ApplyRead(c) \/ ApplyCommit(c)

Next ==
  \/ \E g \in Groups : Checkout(g) \/ Age(g)
  \/ SweepNext \/ PaymentNext \/ RequestNext

\* The cron job runs the sweep again and again and works through its list; users,
\* providers and the clock promise nothing.
Fairness ==
  \A s \in Sweeps : /\ WF_vars(SweepRead(s))
                    /\ WF_vars(\E o \in Orders : SweepClaim(s, o))

Spec == Init /\ [][Next]_vars /\ Fairness
-----------------------------------------------------------------------------
(***************************************************************************)
(* Properties.                                                             *)
(***************************************************************************)

RequestRecord ==
  [step : {"read"}, op : {"update", "ship", "track", "pickup"}, order : Orders,
   target : OrderStatus]

\* Every variable keeps its type; in particular no counter goes below zero.
TypeOK ==
  /\ status \in [Orders -> OrderStatus \cup {"none"}]
  /\ groupStatus \in [Groups -> GroupStatus]
  /\ quantity \in [Products -> Nat]
  /\ reserved \in [Products -> Nat]
  /\ aged \subseteq Orders
  /\ payment \in [Payments -> {"none", "creating", "PENDING", "FAILED", "SUCCEEDED"}]
  /\ applying \in [Confirmations -> {NotApplying} \cup [step : {"read"}, pending : SUBSET Orders]]
  /\ shipment \in [Orders -> {"none", "open", "delivered", "ended"}]
  /\ collected \subseteq Orders
  /\ request \in [Requests -> {IdleRequest, DoneRequest} \cup RequestRecord]
  /\ sweeping \in [Sweeps -> SUBSET Orders]
  /\ failures \in 0 .. MaxFailures
  /\ revived \subseteq Orders

\* No unit of stock is ever lost: what is on sale plus what live orders hold covers
\* the stock there was, whatever sweeps, cancellations, payments and parcels interleave
\* (reservation.ts: stock must not leave the catalogue for good).
NoUnitLost ==
  \A p \in Products : quantity[p] + Need(Live, p) >= InitialStock[p]

\* The stock comes back exactly as it left (rule 3 of reservation.ts), and the reserved
\* counter counts the units of live orders, for every product none of whose orders was
\* written to after its cancellation: two sweeps, or a sweep and a cancellation, never
\* give back the same units.
StockExact ==
  \A p \in Products :
    UnitsOf(revived, p) = {} =>
      /\ quantity[p] + Need(Live, p) = InitialStock[p]
      /\ reserved[p] = Need(Live, p)

\* Once a payment of the group has succeeded no order of the group is still PENDING, so
\* none can be swept: the claim conditional on PENDING does protect a paid order.
PaidGroupNotPending ==
  \A a \in Payments : payment[a] = "SUCCEEDED" =>
    \A o \in OrdersOf(PaymentOf[a]) : status[o] # "PENDING"

\* A group announced as cancelled holds no live order, unless a handler wrote to an
\* order after its cancellation.
CancelledGroupIsDead ==
  \A g \in Groups : groupStatus[g] = "CANCELLED" =>
    \A o \in OrdersOf(g) : status[o] = "CANCELLED" \/ o \in revived

\* An order left unpaid past the delay does not hold its stock for ever: it is swept, or
\* moves, or a payment of its group is in flight.
ExpiryProgress ==
  \A o \in Orders :
    (status[o] = "PENDING" /\ o \in aged) ~> (status[o] # "PENDING" \/ InFlight(GroupOf[o]))
=============================================================================
