-------------------------- MODULE OrderFlowProofs --------------------------
(***************************************************************************)
(* Theorems about OrderFlow, for every set of orders, groups, products,    *)
(* units, payments, requests and sweeps.                                   *)
(*                                                                         *)
(*   TypeCorrect      Spec => []TypeOK                                     *)
(*   StockNeverLost   Spec => []NoUnitLost                                 *)
(*   StockIsExact     Spec => []StockExact                                 *)
(*   PaidNotPending   Spec => []PaidGroupNotPending                        *)
(*   CancelledIsDead  Spec => []CancelledGroupIsDead                       *)
(***************************************************************************)
EXTENDS OrderFlow, FiniteSetTheorems, TLAPS

(***************************************************************************)
(* Need(S, p) is a number, and grows with S by at most what is added.      *)
(***************************************************************************)
LEMMA UnitsFinite ==
  ASSUME NEW S, NEW p
  PROVE  IsFiniteSet(UnitsOf(S, p))
<1>1. UnitsOf(S, p) \subseteq Units
  BY DEF UnitsOf
<1>2. QED
  BY <1>1, OrdersAssumption, FS_Subset

LEMMA NeedNat ==
  ASSUME NEW S, NEW p
  PROVE  Need(S, p) \in Nat
BY UnitsFinite, FS_CardinalityType DEF Need

LEMMA NeedMonotone ==
  ASSUME NEW S, NEW T, S \subseteq T, NEW p
  PROVE  Need(S, p) <= Need(T, p)
<1>1. UnitsOf(S, p) \subseteq UnitsOf(T, p)
  BY DEF UnitsOf
<1>2. QED
  BY <1>1, UnitsFinite, FS_Subset DEF Need

LEMMA NeedUnion ==
  ASSUME NEW S, NEW T, NEW p
  PROVE  /\ Need(S \cup T, p) <= Need(S, p) + Need(T, p)
         /\ S \cap T = {} => Need(S \cup T, p) = Need(S, p) + Need(T, p)
<1>1. UnitsOf(S \cup T, p) = UnitsOf(S, p) \cup UnitsOf(T, p)
  BY DEF UnitsOf
<1>2. /\ IsFiniteSet(UnitsOf(S, p)) /\ IsFiniteSet(UnitsOf(T, p))
      /\ IsFiniteSet(UnitsOf(S, p) \cap UnitsOf(T, p))
  BY UnitsFinite, FS_Intersection
<1>3. Need(S \cup T, p) =
        Need(S, p) + Need(T, p) - Cardinality(UnitsOf(S, p) \cap UnitsOf(T, p))
  BY <1>1, <1>2, FS_Union DEF Need
<1>4. Cardinality(UnitsOf(S, p) \cap UnitsOf(T, p)) \in Nat
  BY <1>2, FS_CardinalityType
<1>5. S \cap T = {} => Cardinality(UnitsOf(S, p) \cap UnitsOf(T, p)) = 0
  <2>1. S \cap T = {} => UnitsOf(S, p) \cap UnitsOf(T, p) = {}
    BY DEF UnitsOf
  <2>2. QED
    BY <2>1, FS_EmptySet
<1>6. QED
  BY <1>3, <1>4, <1>5, NeedNat

(***************************************************************************)
(* The group status rule always names a group status.                      *)
(***************************************************************************)
LEMMA GroupRuleType ==
  ASSUME NEW S \in SUBSET OrderStatus
  PROVE  GroupStatusFrom(S) \in GroupStatus
<1>1. \A x \in OrderStatus \ {"CANCELLED", "REFUNDED", "DISPUTED"} : Rank[x] \in 0 .. 7
  BY DEF Rank, OrderStatus
<1>2. \A r \in 0 .. 7 : Uniform(r) \in GroupStatus
  BY DEF Uniform, GroupStatus
<1>3. \A r : r \in {Rank[x] : x \in (S \ {"CANCELLED", "REFUNDED"}) \ {"DISPUTED"}} =>
              Uniform(r) \in GroupStatus
  BY <1>1, <1>2
<1>4. QED
  BY <1>3 DEF GroupStatusFrom, GroupStatus

LEMMA MoveType ==
  ASSUME NEW role, NEW seen \in OrderStatus, NEW target, MayMove(role, seen, target)
  PROVE  target \in OrderStatus \ {"PENDING"}
BY DEF MayMove, Transitions, OrderStatus


(***************************************************************************)
(* The inductive invariant under the type invariant: what is placed stays  *)
(* placed, a group is placed as a whole, and the handlers in flight only   *)
(* hold orders that are placed.                                            *)
(***************************************************************************)
Placed(o) == status[o] # "none"

GroupsTogether ==
  \A o, x \in Orders : GroupOf[o] = GroupOf[x] /\ Placed(o) => Placed(x)

PaidPlaced ==
  \A a \in Payments : payment[a] # "none" => \A o \in OrdersOf(PaymentOf[a]) : Placed(o)

ApplyingPlaced ==
  \A c \in Confirmations : applying[c] # NotApplying =>
    /\ payment[Confirms[c]] # "none"
    /\ applying[c].pending \subseteq OrdersOf(PaymentOf[Confirms[c]])

Tracked == {"SHIPPED", "IN_TRANSIT", "DELIVERED"}

RequestPlaced ==
  \A r \in Requests : request[r].step = "read" =>
    /\ Placed(request[r].order)
    /\ request[r].target \notin {"PENDING", "none"}
    /\ request[r].op = "track" => request[r].target \in Tracked

HeldPlaced ==
  /\ \A o \in revived : Placed(o)
  /\ \A s \in Sweeps : \A o \in sweeping[s] : Placed(o)

FlowInv == TypeOK /\ GroupsTogether /\ PaidPlaced /\ ApplyingPlaced /\ RequestPlaced /\ HeldPlaced

LEMMA FlowInit == Init => FlowInv
BY OrdersAssumption
   DEF Init, FlowInv, TypeOK, GroupsTogether, PaidPlaced, ApplyingPlaced, RequestPlaced, HeldPlaced,
       Placed, OrderStatus, GroupStatus, NotApplying, IdleRequest, DoneRequest

\* What a step does to the statuses keeps the facts that only speak of placed orders.
LEMMA PlacedKept ==
  ASSUME FlowInv, \A o \in Orders : Placed(o) => Placed(o)',
         \A o, x \in Orders : GroupOf[o] = GroupOf[x] /\ Placed(o)' => Placed(x)' \/ Placed(o)
  PROVE  /\ GroupsTogether'
         /\ UNCHANGED payment => PaidPlaced'
         /\ UNCHANGED <<payment, applying>> => ApplyingPlaced'
         /\ UNCHANGED request => RequestPlaced'
         /\ UNCHANGED <<revived, sweeping>> => HeldPlaced'
<1> USE DEF FlowInv, Placed
<1>1. GroupsTogether'
  BY DEF GroupsTogether
<1>2. UNCHANGED payment => PaidPlaced'
  BY OrdersAssumption DEF PaidPlaced, OrdersOf
<1>3. UNCHANGED <<payment, applying>> => ApplyingPlaced'
  BY DEF ApplyingPlaced, OrdersOf
<1>4. UNCHANGED request => RequestPlaced'
  BY DEF RequestPlaced, TypeOK, RequestRecord, IdleRequest, DoneRequest
<1>5. UNCHANGED <<revived, sweeping>> => HeldPlaced'
  BY DEF HeldPlaced, TypeOK
<1>6. QED
  BY <1>1, <1>2, <1>3, <1>4, <1>5

\* The group status a refresh writes is one.
LEMMA RefreshType ==
  ASSUME NEW S \in SUBSET Orders, status' \in [Orders -> OrderStatus \cup {"none"}],
         \A o \in S : Placed(o)'
  PROVE  GroupStatusFrom({status'[o] : o \in S}) \in GroupStatus
<1>1. {status'[o] : o \in S} \in SUBSET OrderStatus
  BY DEF Placed
<1>2. QED
  BY <1>1, GroupRuleType

\* Releasing or taking stock leaves natural numbers.
LEMMA StockType ==
  ASSUME NEW S, quantity \in [Products -> Nat], reserved \in [Products -> Nat],
         TakeStock(S) \/ ReleaseStock(S)
  PROVE  quantity' \in [Products -> Nat] /\ reserved' \in [Products -> Nat]
BY NeedNat DEF TakeStock, ReleaseStock

\* One write of statuses keeps their type, and what is placed.
LEMMA WriteType ==
  ASSUME FlowInv, NEW S \in SUBSET Orders, NEW target \in OrderStatus,
         \A o \in S : Placed(o), WriteStatus(S, target)
  PROVE  /\ status' \in [Orders -> OrderStatus \cup {"none"}]
         /\ revived' \in SUBSET Orders
         /\ \A o \in Orders : Placed(o) <=> Placed(o)'
         /\ \A o \in revived' : Placed(o)'
<1> USE DEF FlowInv, TypeOK, Placed
<1>1. target # "none"
  BY DEF OrderStatus
<1>2. status' \in [Orders -> OrderStatus \cup {"none"}]
  BY DEF WriteStatus
<1>3. \A o \in Orders : Placed(o) <=> Placed(o)'
  BY <1>1 DEF WriteStatus
<1>4. revived' \in SUBSET Orders /\ \A o \in revived' : Placed(o)'
  BY <1>3 DEF WriteStatus, HeldPlaced
<1>5. QED
  BY <1>2, <1>3, <1>4

(***************************************************************************)
(* FlowInv is inductive: one lemma per group of actions.                   *)
(***************************************************************************)
LEMMA FlowCheckout ==
  ASSUME FlowInv, NEW g \in Groups, Checkout(g)
  PROVE  FlowInv'
<1> DEFINE S == OrdersOf(g)
<1>1. status' = [o \in Orders |-> IF o \in S THEN "PENDING" ELSE status[o]]
  BY DEF Checkout
<1>2. status' \in [Orders -> OrderStatus \cup {"none"}]
  BY <1>1 DEF FlowInv, TypeOK, OrderStatus
<1>3. \A o \in Orders : Placed(o) => Placed(o)'
  BY <1>1 DEF Placed
<1>4. \A o, x \in Orders : GroupOf[o] = GroupOf[x] /\ Placed(o)' => Placed(x)' \/ Placed(o)
  BY <1>1 DEF Placed, OrdersOf
<1>5. quantity' \in [Products -> Nat] /\ reserved' \in [Products -> Nat]
  BY StockType DEF Checkout, FlowInv, TypeOK
<1>6. TypeOK'
  BY <1>2, <1>5 DEF FlowInv, TypeOK, Checkout, parcelVars, paymentVars, sweepVars
<1>7. QED
  BY <1>3, <1>4, <1>6, PlacedKept DEF FlowInv, Checkout, parcelVars, paymentVars, sweepVars

LEMMA FlowAge ==
  ASSUME FlowInv, NEW g \in Groups, Age(g)
  PROVE  FlowInv'
<1>1. \A o \in Orders : Placed(o)' = Placed(o)
  BY DEF Age, orderVars, Placed
<1>2. TypeOK'
  BY DEF FlowInv, TypeOK, Age, OrdersOf, orderVars, stockVars, parcelVars, paymentVars, sweepVars
<1>3. QED
  BY <1>1, <1>2, PlacedKept
     DEF FlowInv, Age, orderVars, stockVars, parcelVars, paymentVars, sweepVars

LEMMA FlowSweepRead ==
  ASSUME FlowInv, NEW s \in Sweeps, SweepRead(s)
  PROVE  FlowInv'
<1>1. TypeOK' /\ HeldPlaced'
  BY DEF FlowInv, TypeOK, HeldPlaced, Placed, SweepRead, Expirable,
         orderVars, stockVars, parcelVars, paymentVars
<1>2. QED
  BY <1>1, PlacedKept DEF FlowInv, Placed, SweepRead, orderVars, stockVars, parcelVars, paymentVars

LEMMA FlowSweepFail ==
  ASSUME FlowInv, NEW s \in Sweeps, SweepFail(s)
  PROVE  FlowInv'
<1>1. TypeOK'
  BY OrdersAssumption
     DEF FlowInv, TypeOK, SweepFail, orderVars, stockVars, parcelVars, paymentVars
<1>2. HeldPlaced'
  BY DEF FlowInv, TypeOK, HeldPlaced, Placed, SweepFail, orderVars
<1>3. QED
  BY <1>1, <1>2, PlacedKept
  DEF FlowInv, Placed, SweepFail, orderVars, stockVars, parcelVars, paymentVars

LEMMA FlowSweepClaim ==
  ASSUME FlowInv, NEW s \in Sweeps, NEW o \in Orders, SweepClaim(s, o)
  PROVE  FlowInv'
<1> USE DEF FlowInv
<1>1. \A x \in Orders : Placed(x) <=> Placed(x)'
  BY DEF SweepClaim, TypeOK, Placed
<1>2. status' \in [Orders -> OrderStatus \cup {"none"}]
  BY DEF SweepClaim, TypeOK, OrderStatus
<1>3. groupStatus' \in [Groups -> GroupStatus]
  BY OrdersAssumption DEF SweepClaim, TypeOK, GroupStatus
<1>4. quantity' \in [Products -> Nat] /\ reserved' \in [Products -> Nat]
  BY StockType DEF SweepClaim, TypeOK, stockVars
<1>5. TypeOK'
  BY <1>2, <1>3, <1>4 DEF SweepClaim, TypeOK, parcelVars, paymentVars
<1>6. HeldPlaced'
  BY <1>1 DEF SweepClaim, TypeOK, HeldPlaced, Placed
<1>7. QED
  BY <1>1, <1>5, <1>6, PlacedKept DEF SweepClaim, parcelVars, paymentVars

LEMMA FlowPaymentCheck ==
  ASSUME FlowInv, NEW a \in Payments, PaymentCheck(a)
  PROVE  FlowInv'
<1> USE DEF FlowInv
<1>1. TypeOK'
  BY DEF PaymentCheck, TypeOK, orderVars, stockVars, parcelVars, sweepVars
<1>2. PaidPlaced'
  BY DEF PaymentCheck, TypeOK, PaidPlaced, Placed, OrdersOf, orderVars
<1>3. ApplyingPlaced'
  BY OrdersAssumption DEF PaymentCheck, TypeOK, ApplyingPlaced, OrdersOf
<1>4. QED
  BY <1>1, <1>2, <1>3, PlacedKept
  DEF PaymentCheck, Placed, orderVars, stockVars, parcelVars, sweepVars

LEMMA FlowPayment ==
  ASSUME FlowInv, NEW a \in Payments,
         PaymentCreate(a) \/ \E verdict \in {"PENDING", "FAILED"} : PaymentVerdict(a, verdict)
  PROVE  FlowInv'
<1> USE DEF FlowInv
<1>1. TypeOK'
  BY DEF PaymentCreate, PaymentVerdict, TypeOK, orderVars, stockVars, parcelVars, sweepVars
<1>2. PaidPlaced'
  BY DEF PaymentCreate, PaymentVerdict, TypeOK, PaidPlaced, Placed, OrdersOf, orderVars
<1>3. ApplyingPlaced'
  BY OrdersAssumption DEF PaymentCreate, PaymentVerdict, TypeOK, ApplyingPlaced, OrdersOf
<1>4. QED
  BY <1>1, <1>2, <1>3, PlacedKept
     DEF PaymentCreate, PaymentVerdict, Placed, orderVars, stockVars, parcelVars, sweepVars

LEMMA FlowApplyRead ==
  ASSUME FlowInv, NEW c \in Confirmations, ApplyRead(c)
  PROVE  FlowInv'
<1> USE DEF FlowInv
<1>1. TypeOK'
  BY DEF ApplyRead, TypeOK, OrdersOf, orderVars, stockVars, parcelVars, sweepVars
<1>2. ApplyingPlaced'
  BY DEF ApplyRead, TypeOK, ApplyingPlaced, OrdersOf, orderVars
<1>3. QED
  BY <1>1, <1>2, PlacedKept DEF ApplyRead, Placed, orderVars, stockVars, parcelVars, sweepVars

LEMMA FlowApplyCommit ==
  ASSUME FlowInv, NEW c \in Confirmations, ApplyCommit(c)
  PROVE  FlowInv'
<1> DEFINE a == Confirms[c]
           S == applying[c].pending
<1> USE DEF FlowInv
<1>1. a \in Payments /\ PaymentOf[a] \in Groups
  BY OrdersAssumption
<1>2. S \in SUBSET Orders /\ \A o \in OrdersOf(PaymentOf[a]) : Placed(o)
  BY <1>1 DEF ApplyCommit, TypeOK, NotApplying, ApplyingPlaced, PaidPlaced
<1>3. \A o \in S : Placed(o)
  BY <1>2 DEF ApplyCommit, ApplyingPlaced
<1>4. /\ status' \in [Orders -> OrderStatus \cup {"none"}]
      /\ revived' \in SUBSET Orders
      /\ \A o \in Orders : Placed(o) <=> Placed(o)'
      /\ \A o \in revived' : Placed(o)'
  BY <1>2, <1>3, WriteType DEF ApplyCommit, OrderStatus
<1>5. GroupStatusFrom({status'[o] : o \in OrdersOf(PaymentOf[a])}) \in GroupStatus
  BY <1>2, <1>4, RefreshType DEF OrdersOf
<1>6. groupStatus' \in [Groups -> GroupStatus]
  BY <1>1, <1>5 DEF ApplyCommit, TypeOK
<1>7. TypeOK'
  BY <1>1, <1>4, <1>6 DEF ApplyCommit, TypeOK, stockVars, parcelVars, sweepVars
<1>8. PaidPlaced'
  BY <1>2, <1>4 DEF ApplyCommit, TypeOK, PaidPlaced, OrdersOf
<1>9. ApplyingPlaced'
  BY OrdersAssumption DEF ApplyCommit, TypeOK, ApplyingPlaced, OrdersOf
<1>10. HeldPlaced'
  BY <1>4 DEF ApplyCommit, TypeOK, HeldPlaced, sweepVars
<1>11. QED
  BY <1>4, <1>7, <1>8, <1>9, <1>10, PlacedKept DEF ApplyCommit

LEMMA FlowReads ==
  ASSUME FlowInv, NEW r \in Requests, NEW o \in Orders,
         NEW op \in {"update", "ship", "track", "pickup"},
         NEW target \in OrderStatus \ {"PENDING"}, Reads(r, o, op, target),
         op = "track" => target \in Tracked
  PROVE  FlowInv'
<1> USE DEF FlowInv
<1>1. [step |-> "read", op |-> op, order |-> o, target |-> target] \in RequestRecord
  BY DEF RequestRecord
<1>2. TypeOK'
  BY <1>1 DEF Reads, TypeOK, orderVars, stockVars, parcelVars, paymentVars, sweepVars
<1>3. RequestPlaced'
  BY DEF Reads, TypeOK, RequestPlaced, Placed, OrderStatus, orderVars
<1>4. QED
  BY <1>2, <1>3, PlacedKept
  DEF Reads, Placed, orderVars, stockVars, parcelVars, paymentVars, sweepVars

LEMMA FlowEndShipment ==
  ASSUME FlowInv, NEW o \in Orders, EndShipment(o)
  PROVE  FlowInv'
<1>1. TypeOK'
  BY DEF FlowInv, EndShipment, TypeOK, orderVars, stockVars, paymentVars, sweepVars
<1>2. QED
  BY <1>1, PlacedKept
     DEF FlowInv, EndShipment, Placed, orderVars, stockVars, paymentVars, sweepVars

\* What a request that is about to commit holds.
LEMMA HeldRequest ==
  ASSUME FlowInv, NEW r \in Requests, request[r].step = "read"
  PROVE  /\ request[r] \in RequestRecord
         /\ request[r].order \in Orders
         /\ request[r].target \in OrderStatus \ {"PENDING"}
         /\ Placed(request[r].order)
         /\ request[r].op = "track" => request[r].target \in Tracked
<1>1. request[r] \in {IdleRequest, DoneRequest} \cup RequestRecord
  BY DEF FlowInv, TypeOK
<1>2. request[r] \in RequestRecord
  BY <1>1 DEF IdleRequest, DoneRequest
<1>3. QED
  BY <1>2 DEF FlowInv, RequestPlaced, RequestRecord

\* Every commit writes one placed order, and ends the request.
LEMMA FlowCommit ==
  ASSUME FlowInv, NEW r \in Requests,
         UpdateCommit(r) \/ ShipCommit(r) \/ TrackCommit(r) \/ PickupCommit(r)
  PROVE  FlowInv'
<1> DEFINE o == request[r].order
           t == request[r].target
<1> USE DEF FlowInv
<1>1. /\ o \in Orders /\ t \in OrderStatus \ {"PENDING"} /\ Placed(o)
      /\ request[r] \in RequestRecord
  BY HeldRequest DEF UpdateCommit, ShipCommit, TrackCommit, PickupCommit
<1>2. \E target \in OrderStatus : WriteStatus({o}, target)
  BY <1>1 DEF UpdateCommit, ShipCommit, TrackCommit, PickupCommit, OrderStatus
<1>3. /\ status' \in [Orders -> OrderStatus \cup {"none"}]
      /\ revived' \in SUBSET Orders
      /\ \A x \in Orders : Placed(x) <=> Placed(x)'
      /\ \A x \in revived' : Placed(x)'
  BY <1>1, <1>2, WriteType
<1>4. quantity' \in [Products -> Nat] /\ reserved' \in [Products -> Nat]
  BY StockType DEF TypeOK, UpdateCommit, ShipCommit, TrackCommit, PickupCommit, stockVars
<1>5. groupStatus' \in [Groups -> GroupStatus]
  <2>1. CASE UpdateCommit(r)
    <3>1. \A x \in OrdersOf(GroupOf[o]) : Placed(x)'
      BY <1>1, <1>3 DEF GroupsTogether, OrdersOf
    <3>2. GroupStatusFrom({status'[x] : x \in OrdersOf(GroupOf[o])}) \in GroupStatus
      BY <1>3, <3>1, RefreshType DEF OrdersOf
    <3>3. QED
      BY <2>1, <3>2 DEF UpdateCommit, RefreshGroup, TypeOK
  <2>2. CASE ShipCommit(r) \/ TrackCommit(r) \/ PickupCommit(r)
    BY <2>2 DEF ShipCommit, TrackCommit, PickupCommit, TypeOK
  <2>3. QED
    BY <2>1, <2>2
<1>6. request' = [request EXCEPT ![r] = DoneRequest]
  BY DEF UpdateCommit, ShipCommit, TrackCommit, PickupCommit
<1>7. shipment' \in [Orders -> {"none", "open", "delivered", "ended"}]
  BY DEF UpdateCommit, ShipCommit, TrackCommit, PickupCommit, TypeOK, parcelVars
<1>8. collected' \subseteq Orders
  BY <1>1 DEF UpdateCommit, ShipCommit, TrackCommit, PickupCommit, TypeOK, parcelVars
<1>9. UNCHANGED <<aged, payment, applying, sweeping, failures>>
  BY DEF UpdateCommit, ShipCommit, TrackCommit, PickupCommit, paymentVars, sweepVars
<1>10. TypeOK'
  BY <1>3, <1>4, <1>5, <1>6, <1>7, <1>8, <1>9 DEF TypeOK
<1>11. RequestPlaced'
  BY <1>3, <1>6 DEF RequestPlaced, TypeOK, DoneRequest, IdleRequest, RequestRecord
<1>12. HeldPlaced'
  BY <1>3, <1>9 DEF HeldPlaced, TypeOK
<1>13. QED
  BY <1>3, <1>9, <1>10, <1>11, <1>12, PlacedKept

LEMMA FlowRequests ==
  ASSUME FlowInv, RequestNext
  PROVE  FlowInv'
<1>1. ASSUME NEW r \in Requests, NEW o \in Orders, NEW role \in Roles, NEW t \in Targets,
             UpdateRead(r, o, role, t)
      PROVE  FlowInv'
  <2>1. status[o] \in OrderStatus /\ t \in OrderStatus \ {"PENDING"}
    BY <1>1, MoveType DEF UpdateRead, FlowInv, TypeOK
  <2>2. QED
    BY <1>1, <2>1, FlowReads DEF UpdateRead
<1>2. ASSUME NEW r \in Requests, NEW o \in Orders, ShipRead(r, o)
      PROVE  FlowInv'
  BY <1>2, FlowReads DEF ShipRead, OrderStatus
<1>3. ASSUME NEW r \in Requests, NEW o \in Orders, NEW t \in Targets, TrackRead(r, o, t)
      PROVE  FlowInv'
  BY <1>3, FlowReads DEF TrackRead, Tracked, OrderStatus
<1>4. ASSUME NEW r \in Requests, NEW o \in Orders, PickupRead(r, o)
      PROVE  FlowInv'
  BY <1>4, FlowReads DEF PickupRead, OrderStatus
<1>5. QED
  BY <1>1, <1>2, <1>3, <1>4, FlowCommit, FlowEndShipment DEF RequestNext

LEMMA FlowStutter ==
  ASSUME FlowInv, UNCHANGED vars
  PROVE  FlowInv'
<1>1. TypeOK'
  BY DEF FlowInv, TypeOK, vars, orderVars, stockVars, paymentVars, parcelVars, sweepVars
<1>2. QED
  BY <1>1, PlacedKept
     DEF FlowInv, Placed, vars, orderVars, stockVars, paymentVars, parcelVars, sweepVars

LEMMA FlowStep ==
  ASSUME FlowInv, [Next]_vars
  PROVE  FlowInv'
<1>1. CASE \E g \in Groups : Checkout(g) \/ Age(g)
  BY <1>1, FlowCheckout, FlowAge
<1>2. CASE SweepNext
  BY <1>2, FlowSweepRead, FlowSweepFail, FlowSweepClaim DEF SweepNext
<1>3. CASE PaymentNext
  BY <1>3, FlowPaymentCheck, FlowPayment, FlowApplyRead, FlowApplyCommit DEF PaymentNext
<1>4. CASE RequestNext
  BY <1>4, FlowRequests
<1>5. CASE UNCHANGED vars
  BY <1>5, FlowStutter
<1>6. QED
  BY <1>1, <1>2, <1>3, <1>4, <1>5 DEF Next

THEOREM FlowInvariant == Spec => []FlowInv
<1>1. FlowInv /\ [Next]_vars => FlowInv'
  BY FlowStep
<1>2. QED
  BY <1>1, FlowInit, PTL DEF Spec

\* Type correctness: the counters of the stock never go below zero, and every status the
\* handlers write is one the tables know, for every set of baskets, requests and sweeps.
THEOREM TypeCorrect == Spec => []TypeOK
<1>1. FlowInv => TypeOK
  BY DEF FlowInv
<1>2. QED
  BY <1>1, FlowInvariant, PTL

-----------------------------------------------------------------------------
(***************************************************************************)
(* The safety theorems, on top of FlowInvariant.                           *)
(*                                                                         *)
(* As far as stock is concerned every step has one of four shapes: a       *)
(* checkout, the cancellation of one order, a write of another status, or  *)
(* nothing.  StepShape sorts the actions; the invariants then take one     *)
(* step per shape.                                                         *)
(***************************************************************************)
Cancels(o) == Placed(o) /\ ReleaseStock({o}) /\ WriteStatus({o}, "CANCELLED")

Moves(S, target) ==
  /\ target \notin {"PENDING", "CANCELLED", "none"}
  /\ \A o \in S : Placed(o)
  /\ WriteStatus(S, target)
  /\ UNCHANGED stockVars

LEMMA CommitShape ==
  ASSUME FlowInv, NEW r \in Requests,
         UpdateCommit(r) \/ ShipCommit(r) \/ TrackCommit(r) \/ PickupCommit(r)
  PROVE  \/ \E o \in Orders : Cancels(o)
         \/ \E S \in SUBSET Orders, target \in OrderStatus : Moves(S, target)
<1> DEFINE o == request[r].order
           t == request[r].target
<1>1. o \in Orders /\ t \in OrderStatus \ {"PENDING"} /\ Placed(o) /\ {o} \in SUBSET Orders
  BY HeldRequest DEF UpdateCommit, ShipCommit, TrackCommit, PickupCommit
<1>2. t # "none"
  BY <1>1 DEF OrderStatus
<1>3. CASE UpdateCommit(r) /\ t = "CANCELLED"
  BY <1>1, <1>3 DEF UpdateCommit, Cancels
<1>4. CASE UpdateCommit(r) /\ t # "CANCELLED"
  <2>1. Moves({o}, t)
    BY <1>1, <1>2, <1>4 DEF UpdateCommit, Moves
  <2>2. QED
    BY <1>1, <2>1
<1>5. CASE ShipCommit(r)
  <2>1. Moves({o}, "PROCESSING")
    BY <1>1, <1>5 DEF ShipCommit, Moves
  <2>2. QED
    BY <1>1, <2>1 DEF OrderStatus
<1>6. CASE PickupCommit(r)
  <2>1. Moves({o}, "DELIVERED")
    BY <1>1, <1>6 DEF PickupCommit, Moves
  <2>2. QED
    BY <1>1, <2>1 DEF OrderStatus
<1>7. CASE TrackCommit(r)
  <2>1. t \in {"SHIPPED", "IN_TRANSIT", "DELIVERED"}
    BY <1>7, HeldRequest DEF TrackCommit, Tracked
  <2>2. Moves({o}, t)
    BY <1>1, <1>2, <1>7, <2>1 DEF TrackCommit, Moves
  <2>3. QED
    BY <1>1, <2>2
<1>8. QED
  BY <1>3, <1>4, <1>5, <1>6, <1>7

LEMMA StepShape ==
  ASSUME FlowInv, [Next]_vars
  PROVE  \/ \E g \in Groups : Checkout(g)
         \/ \E o \in Orders : Cancels(o)
         \/ \E S \in SUBSET Orders, target \in OrderStatus : Moves(S, target)
         \/ UNCHANGED <<status, stockVars, revived>>
<1>1. ASSUME NEW s \in Sweeps, NEW o \in Orders, SweepClaim(s, o)
      PROVE  Cancels(o) \/ UNCHANGED <<status, stockVars, revived>>
  <2>1. CASE status[o] = "PENDING"
    BY <1>1, <2>1 DEF SweepClaim, Cancels, Placed, WriteStatus, FlowInv, TypeOK
  <2>2. CASE status[o] # "PENDING"
    BY <1>1, <2>2 DEF SweepClaim
  <2>3. QED
    BY <2>1, <2>2
<1>2. ASSUME NEW c \in Confirmations, ApplyCommit(c)
      PROVE  \E S \in SUBSET Orders, target \in OrderStatus : Moves(S, target)
  <2>1. PaymentOf[Confirms[c]] \in Groups /\ Confirms[c] \in Payments
    BY OrdersAssumption
  <2>2. applying[c].pending \in SUBSET Orders /\ \A o \in applying[c].pending : Placed(o)
    BY <1>2, <2>1 DEF ApplyCommit, FlowInv, ApplyingPlaced, PaidPlaced, OrdersOf
  <2>3. Moves(applying[c].pending, "PAID")
    BY <1>2, <2>2 DEF ApplyCommit, Moves
  <2>4. QED
    BY <2>2, <2>3 DEF OrderStatus
<1>3. CASE \E g \in Groups : Age(g)
  BY <1>3 DEF Age, orderVars, stockVars
<1>4. CASE SweepNext
  BY <1>1, <1>4 DEF SweepNext, SweepRead, SweepFail, orderVars, stockVars
<1>5. CASE PaymentNext
  BY <1>2, <1>5
     DEF PaymentNext, PaymentCheck, PaymentCreate, PaymentVerdict, ApplyRead, orderVars, stockVars
<1>6. CASE RequestNext
  BY <1>6, CommitShape
     DEF RequestNext, UpdateRead, ShipRead, TrackRead, PickupRead, EndShipment, Reads,
         orderVars, stockVars
<1>7. CASE UNCHANGED vars
  BY <1>7 DEF vars, orderVars, stockVars
<1>8. QED
  BY <1>3, <1>4, <1>5, <1>6, <1>7 DEF Next

(***************************************************************************)
(* What each shape does to the live orders.                                *)
(***************************************************************************)
LEMMA LiveCheckout ==
  ASSUME FlowInv, NEW g \in Groups, Checkout(g)
  PROVE  /\ Live' = Live \cup OrdersOf(g)
         /\ Live \cap OrdersOf(g) = {}
BY DEF Checkout, Live, OrdersOf, FlowInv, TypeOK

LEMMA LiveCancels ==
  ASSUME FlowInv, NEW o \in Orders, Cancels(o)
  PROVE  Live' = Live \ {o}
BY DEF Cancels, WriteStatus, Live, FlowInv, TypeOK

LEMMA LiveMoves ==
  ASSUME FlowInv, NEW S \in SUBSET Orders, NEW target \in OrderStatus, Moves(S, target)
  PROVE  Live' = Live \cup S
BY DEF Moves, WriteStatus, Live, FlowInv, TypeOK

(***************************************************************************)
(* No unit is lost.                                                        *)
(***************************************************************************)
LEMMA NoUnitLostStep ==
  ASSUME FlowInv, NoUnitLost, [Next]_vars
  PROVE  NoUnitLost'
<1> SUFFICES ASSUME NEW p \in Products
             PROVE  quantity'[p] + Need(Live', p) >= InitialStock[p]
  BY DEF NoUnitLost, Need, UnitsOf
<1>1. quantity[p] \in Nat /\ InitialStock[p] \in Nat
  BY OrdersAssumption DEF FlowInv, TypeOK
<1>2. quantity[p] + Need(Live, p) >= InitialStock[p]
  BY DEF NoUnitLost
<1>3. CASE \E g \in Groups : Checkout(g)
  <2>1. PICK g \in Groups : Checkout(g)
    BY <1>3
  <2>2. quantity'[p] = quantity[p] - Need(OrdersOf(g), p)
    BY <2>1 DEF Checkout, TakeStock
  <2>3. Need(Live', p) = Need(Live, p) + Need(OrdersOf(g), p)
    BY <2>1, LiveCheckout, NeedUnion
  <2>4. QED
    BY <1>1, <1>2, <2>2, <2>3, NeedNat
<1>4. CASE \E o \in Orders : Cancels(o)
  <2>1. PICK o \in Orders : Cancels(o)
    BY <1>4
  <2>2. quantity'[p] = quantity[p] + Need({o}, p)
    BY <2>1 DEF Cancels, ReleaseStock
  <2>3. Need(Live, p) <= Need((Live \ {o}) \cup {o}, p)
    BY NeedMonotone
  <2>4. Need((Live \ {o}) \cup {o}, p) <= Need(Live', p) + Need({o}, p)
    BY <2>1, LiveCancels, NeedUnion
  <2>5. QED
    BY <1>1, <1>2, <2>2, <2>3, <2>4, NeedNat
<1>5. CASE \E S \in SUBSET Orders, target \in OrderStatus : Moves(S, target)
  <2>1. Live \subseteq Live' /\ quantity' = quantity
    BY <1>5, LiveMoves DEF Moves, stockVars
  <2>2. Need(Live, p) <= Need(Live', p)
    BY <2>1, NeedMonotone
  <2>3. QED
    BY <1>1, <1>2, <2>1, <2>2, NeedNat
<1>6. CASE UNCHANGED <<status, stockVars, revived>>
  BY <1>2, <1>6 DEF Live, stockVars
<1>7. QED
  BY <1>3, <1>4, <1>5, <1>6, StepShape

\* Nothing is live at first.
LEMMA NeedNone ==
  ASSUME NEW p, Init
  PROVE  Need(Live, p) = 0
<1>1. UnitsOf(Live, p) = {}
  BY OrdersAssumption DEF UnitsOf, Live, Init
<1>2. QED
  BY <1>1, FS_EmptySet DEF Need

\* Whatever sweeps, cancellations, payments and parcels interleave, the units on sale and
\* the units of live orders cover the initial stock.
THEOREM StockNeverLost == Spec => []NoUnitLost
<1>1. Init => NoUnitLost
  BY NeedNone, OrdersAssumption DEF NoUnitLost, Init
<1>2. FlowInv /\ NoUnitLost /\ [Next]_vars => NoUnitLost'
  BY NoUnitLostStep
<1>3. QED
  BY <1>1, <1>2, FlowInvariant, PTL DEF Spec

(***************************************************************************)
(* The stock is exact where no handler wrote to a cancelled order.         *)
(***************************************************************************)
LEMMA RevivedWrite ==
  ASSUME FlowInv, NEW S \in SUBSET Orders, NEW target, WriteStatus(S, target),
         \A o \in S : Placed(o), NEW p, UnitsOf(revived', p) = {}
  PROVE  /\ UnitsOf(revived, p) = {}
         /\ UnitsOf(S \ Live, p) = {}
BY DEF UnitsOf, WriteStatus, Live, Placed

LEMMA StockExactStep ==
  ASSUME FlowInv, StockExact, [Next]_vars
  PROVE  StockExact'
<1> SUFFICES ASSUME NEW p \in Products, UnitsOf(revived', p) = {}
             PROVE  /\ quantity'[p] + Need(Live', p) = InitialStock[p]
                    /\ reserved'[p] = Need(Live', p)
  BY DEF StockExact, Need, UnitsOf
<1> DEFINE Exact == /\ quantity[p] + Need(Live, p) = InitialStock[p]
                    /\ reserved[p] = Need(Live, p)
<1>1. /\ quantity[p] \in Nat /\ reserved[p] \in Nat /\ InitialStock[p] \in Nat
      /\ UnitsOf(revived, p) = {} => Exact
  BY OrdersAssumption DEF FlowInv, TypeOK, StockExact
<1>2. CASE \E g \in Groups : Checkout(g)
  <2>1. PICK g \in Groups : Checkout(g)
    BY <1>2
  <2>2. /\ quantity'[p] = quantity[p] - Need(OrdersOf(g), p)
        /\ reserved'[p] = reserved[p] + Need(OrdersOf(g), p)
        /\ revived' = revived
    BY <2>1 DEF Checkout, TakeStock
  <2>3. Need(Live', p) = Need(Live, p) + Need(OrdersOf(g), p)
    BY <2>1, LiveCheckout, NeedUnion
  <2>4. QED
    BY <1>1, <2>2, <2>3, NeedNat
<1>3. CASE \E o \in Orders : Cancels(o)
  <2>1. PICK o \in Orders : Cancels(o)
    BY <1>3
  <2>2. Exact /\ UnitsOf({o} \ Live, p) = {}
    BY <1>1, <2>1, RevivedWrite DEF Cancels
  <2>3. Live' = Live \ {o}
    BY <2>1, LiveCancels
  <2>4. Need({o}, p) = Need({o} \cap Live, p)
    <3>1. UnitsOf({o}, p) = UnitsOf({o} \cap Live, p)
      BY <2>2 DEF UnitsOf
    <3>2. QED
      BY <3>1 DEF Need
  <2>5. Need(Live, p) = Need(Live', p) + Need({o}, p)
    <3>1. Live = Live' \cup ({o} \cap Live) /\ Live' \cap ({o} \cap Live) = {}
      BY <2>3
    <3>2. Need(Live' \cup ({o} \cap Live), p) = Need(Live', p) + Need({o} \cap Live, p)
      BY <3>1, NeedUnion
    <3>3. QED
      BY <2>4, <3>1, <3>2
  <2>6. /\ quantity'[p] = quantity[p] + Need({o}, p)
        /\ reserved'[p] = IF reserved[p] >= Need({o}, p) THEN reserved[p] - Need({o}, p) ELSE 0
    BY <2>1 DEF Cancels, ReleaseStock
  <2>7. Need({o}, p) \in Nat /\ Need(Live, p) \in Nat /\ Need(Live', p) \in Nat
    BY NeedNat
  <2>8. QED
    BY <1>1, <2>2, <2>5, <2>6, <2>7
<1>4. CASE \E S \in SUBSET Orders, target \in OrderStatus : Moves(S, target)
  <2>1. PICK S \in SUBSET Orders, target \in OrderStatus : Moves(S, target)
    BY <1>4
  <2>2. Exact /\ UnitsOf(S \ Live, p) = {}
    BY <1>1, <2>1, RevivedWrite DEF Moves
  <2>3. UnitsOf(Live', p) = UnitsOf(Live, p)
    BY <2>1, <2>2, LiveMoves DEF UnitsOf
  <2>4. QED
    BY <2>1, <2>2, <2>3 DEF Need, Moves, stockVars
<1>5. CASE UNCHANGED <<status, stockVars, revived>>
  BY <1>1, <1>5 DEF Live, stockVars
<1>6. QED
  BY <1>2, <1>3, <1>4, <1>5, StepShape

\* The stock comes back exactly as it left, and the reserved counter counts the units of
\* the live orders, for every product whose orders no handler wrote to once cancelled.
THEOREM StockIsExact == Spec => []StockExact
<1>1. Init => StockExact
  BY NeedNone, OrdersAssumption DEF StockExact, Init
<1>2. FlowInv /\ StockExact /\ [Next]_vars => StockExact'
  BY StockExactStep
<1>3. QED
  BY <1>1, <1>2, FlowInvariant, PTL DEF Spec

(***************************************************************************)
(* A paid group has no pending order.  applySuccess writes on what it read *)
(* before: what makes it safe is that no order can become PENDING again    *)
(* behind its back, so the orders it saw cover those pending at its commit.*)
(***************************************************************************)
PendingSeen ==
  \A c \in Confirmations : applying[c] # NotApplying =>
    \A o \in OrdersOf(PaymentOf[Confirms[c]]) :
      status[o] = "PENDING" => o \in applying[c].pending

LEMMA NoNewPending ==
  ASSUME FlowInv, [Next]_vars, NEW o \in Orders, Placed(o), status'[o] = "PENDING"
  PROVE  status[o] = "PENDING"
<1>1. CASE \E g \in Groups : Checkout(g)
  BY <1>1 DEF Checkout, Placed
<1>2. CASE \E x \in Orders : Cancels(x)
  BY <1>2 DEF Cancels, WriteStatus
<1>3. CASE \E S \in SUBSET Orders, target \in OrderStatus : Moves(S, target)
  BY <1>3 DEF Moves, WriteStatus
<1>4. QED
  BY <1>1, <1>2, <1>3, StepShape

LEMMA PendingSeenStep ==
  ASSUME FlowInv, PendingSeen, [Next]_vars
  PROVE  PendingSeen'
<1> SUFFICES ASSUME NEW c \in Confirmations, applying'[c] # NotApplying,
                    NEW o \in OrdersOf(PaymentOf[Confirms[c]]), status'[o] = "PENDING"
             PROVE  o \in applying'[c].pending
  BY DEF PendingSeen, OrdersOf
<1> DEFINE g == PaymentOf[Confirms[c]]
<1>1. o \in Orders /\ Confirms[c] \in Payments
  BY OrdersAssumption DEF OrdersOf
<1>2. CASE applying'[c] = applying[c]
  <2>1. Placed(o)
    BY <1>1, <1>2 DEF FlowInv, ApplyingPlaced, PaidPlaced
  <2>2. status[o] = "PENDING"
    BY <1>1, <2>1, NoNewPending
  <2>3. QED
    BY <1>2, <2>2 DEF PendingSeen
<1>3. CASE applying'[c] # applying[c]
  <2>1. ApplyRead(c)
    BY <1>3 DEF Next, Checkout, Age, SweepNext, SweepRead, SweepFail, SweepClaim, PaymentNext,
                PaymentCheck, PaymentCreate, PaymentVerdict, ApplyRead, ApplyCommit, RequestNext,
                UpdateRead, UpdateCommit, ShipRead, ShipCommit, TrackRead, TrackCommit,
                PickupRead, PickupCommit, EndShipment, Reads, vars, paymentVars, FlowInv, TypeOK
  <2>2. status[o] = "PENDING"
    BY <2>1 DEF ApplyRead, orderVars
  <2>3. QED
    BY <1>1, <2>1, <2>2 DEF ApplyRead, FlowInv, TypeOK
<1>4. QED
  BY <1>2, <1>3

LEMMA PaidNotPendingStep ==
  ASSUME FlowInv, PendingSeen, PaidGroupNotPending, [Next]_vars
  PROVE  PaidGroupNotPending'
<1> SUFFICES ASSUME NEW a \in Payments, payment'[a] = "SUCCEEDED",
                    NEW o \in OrdersOf(PaymentOf[a])
             PROVE  status'[o] # "PENDING"
  BY DEF PaidGroupNotPending, OrdersOf
<1>1. o \in Orders
  BY DEF OrdersOf
<1>2. CASE payment[a] = "SUCCEEDED"
  <2>1. Placed(o) /\ status[o] # "PENDING"
    BY <1>2 DEF FlowInv, PaidPlaced, PaidGroupNotPending
  <2>2. QED
    BY <1>1, <2>1, NoNewPending
<1>3. CASE payment[a] # "SUCCEEDED"
  <2>1. PICK c \in Confirmations : ApplyCommit(c) /\ a = Confirms[c]
    BY <1>3 DEF Next, Checkout, Age, SweepNext, SweepRead, SweepFail, SweepClaim, PaymentNext,
                PaymentCheck, PaymentCreate, PaymentVerdict, ApplyRead, ApplyCommit, RequestNext,
                UpdateRead, UpdateCommit, ShipRead, ShipCommit, TrackRead, TrackCommit,
                PickupRead, PickupCommit, EndShipment, Reads, vars, paymentVars, FlowInv, TypeOK
  <2>2. status[o] = "PENDING" => o \in applying[c].pending
    BY <2>1 DEF ApplyCommit, PendingSeen
  <2>3. QED
    BY <1>1, <2>1, <2>2 DEF ApplyCommit, WriteStatus
<1>4. QED
  BY <1>2, <1>3

\* Once a payment of a group has succeeded no order of the group is PENDING: the sweep's
\* conditional claim can no longer reach a paid basket.
THEOREM PaidNotPending == Spec => []PaidGroupNotPending
<1>1. Init => PendingSeen /\ PaidGroupNotPending
  BY DEF Init, PendingSeen, PaidGroupNotPending
<1>2. FlowInv /\ PendingSeen /\ PaidGroupNotPending /\ [Next]_vars
        => PendingSeen' /\ PaidGroupNotPending'
  BY PendingSeenStep, PaidNotPendingStep
<1>3. QED
  BY <1>1, <1>2, FlowInvariant, PTL DEF Spec

(***************************************************************************)
(* A cancelled group is dead, but for the orders written to afterwards.    *)
(***************************************************************************)
Ended(o) == status[o] = "CANCELLED" \/ o \in revived

\* The rule of group-status.ts says CANCELLED of cancelled orders only.
LEMMA GroupRuleCancelled ==
  ASSUME NEW S \in SUBSET OrderStatus, GroupStatusFrom(S) = "CANCELLED"
  PROVE  S \subseteq {"CANCELLED"}
<1> DEFINE ranks == {Rank[s] : s \in (S \ {"CANCELLED", "REFUNDED"}) \ {"DISPUTED"}}
<1>1. \A r \in 0 .. 7 : Uniform(r) # "CANCELLED"
  BY DEF Uniform
<1>2. \A r \in ranks : Uniform(r) # "CANCELLED"
  BY <1>1 DEF Rank, OrderStatus
<1>3. QED
  BY <1>2 DEF GroupStatusFrom

LEMMA EndedKept ==
  ASSUME FlowInv, [Next]_vars, NEW o \in Orders, Ended(o)
  PROVE  Ended(o)'
<1>1. CASE \E g \in Groups : Checkout(g)
  BY <1>1 DEF Checkout, Ended, FlowInv, TypeOK
<1>2. CASE \E x \in Orders : Cancels(x)
  BY <1>2 DEF Cancels, WriteStatus, Ended, FlowInv, TypeOK
<1>3. CASE \E S \in SUBSET Orders, target \in OrderStatus : Moves(S, target)
  BY <1>3 DEF Moves, WriteStatus, Ended, FlowInv, TypeOK
<1>4. CASE UNCHANGED <<status, stockVars, revived>>
  BY <1>4 DEF Ended
<1>5. QED
  BY <1>1, <1>2, <1>3, <1>4, StepShape

LEMMA CancelledGroupStep ==
  ASSUME FlowInv, CancelledGroupIsDead, [Next]_vars
  PROVE  CancelledGroupIsDead'
<1> SUFFICES ASSUME NEW g \in Groups, groupStatus'[g] = "CANCELLED", NEW o \in OrdersOf(g)
             PROVE  Ended(o)'
  BY DEF CancelledGroupIsDead, Ended, OrdersOf
<1>1. o \in Orders /\ GroupOf[o] = g
  BY DEF OrdersOf
<1>2. CASE groupStatus[g] = "CANCELLED"
  <2>1. Ended(o)
    BY <1>2 DEF CancelledGroupIsDead, Ended
  <2>2. QED
    BY <1>1, <2>1, EndedKept
<1>3. CASE groupStatus[g] # "CANCELLED"
  <2>1. FlowInv'
    BY FlowStep
  <2>2. \/ \E s \in Sweeps, x \in Orders : SweepClaim(s, x)
        \/ \E c \in Confirmations : ApplyCommit(c)
        \/ \E r \in Requests : UpdateCommit(r)
    BY <1>3 DEF Next, Checkout, Age, SweepNext, SweepRead, SweepFail, PaymentNext,
                PaymentCheck, PaymentCreate, PaymentVerdict, ApplyRead, RequestNext,
                UpdateRead, ShipRead, ShipCommit, TrackRead, TrackCommit,
                PickupRead, PickupCommit, EndShipment, Reads, vars, orderVars
  <2>3. ASSUME GroupStatusFrom({status'[x] : x \in OrdersOf(g)}) = "CANCELLED",
               \A x \in OrdersOf(g) : Placed(x)'
        PROVE  Ended(o)'
    <3>1. \A x \in OrdersOf(g) : status'[x] \in OrderStatus
      BY <2>1, <2>3 DEF FlowInv, TypeOK, Placed, OrdersOf
    <3>2. {status'[x] : x \in OrdersOf(g)} \in SUBSET OrderStatus
      BY <3>1
    <3>3. QED
      BY <2>3, <3>2, GroupRuleCancelled DEF Ended
  <2>4. CASE \E s \in Sweeps, x \in Orders : SweepClaim(s, x)
    BY <1>3, <2>4 DEF SweepClaim, Ended, FlowInv, TypeOK
  <2>5. CASE \E c \in Confirmations : ApplyCommit(c)
    <3>1. PICK c \in Confirmations : ApplyCommit(c)
      BY <2>5
    <3>2. g = PaymentOf[Confirms[c]] /\ Confirms[c] \in Payments
      BY <1>3, <3>1, OrdersAssumption DEF ApplyCommit, FlowInv, TypeOK
    <3>3. payment'[Confirms[c]] # "none"
      BY <3>1, <3>2 DEF ApplyCommit, FlowInv, TypeOK
    <3>4. \A x \in OrdersOf(g) : Placed(x)'
      BY <2>1, <3>2, <3>3 DEF FlowInv, PaidPlaced, OrdersOf
    <3>5. GroupStatusFrom({status'[x] : x \in OrdersOf(g)}) = "CANCELLED"
      BY <3>1, <3>2 DEF ApplyCommit, FlowInv, TypeOK
    <3>6. QED
      BY <2>3, <3>4, <3>5
  <2>6. CASE \E r \in Requests : UpdateCommit(r)
    <3>1. PICK r \in Requests : UpdateCommit(r)
      BY <2>6
    <3>2. g = GroupOf[request[r].order]
      BY <1>3, <3>1 DEF UpdateCommit, RefreshGroup, FlowInv, TypeOK
    <3>3. request[r].order \in Orders /\ Placed(request[r].order)
      BY <3>1, HeldRequest DEF UpdateCommit
    <3>4. request[r].target \in OrderStatus /\ {request[r].order} \in SUBSET Orders
      BY <3>1, <3>3, HeldRequest DEF UpdateCommit
    <3>5. PICK x \in Orders : x = request[r].order
      BY <3>3
    <3>6. Placed(x)'
      BY <3>1, <3>3, <3>4, <3>5, WriteType DEF UpdateCommit
    <3>7. \A y \in OrdersOf(g) : Placed(y)'
      BY <2>1, <3>2, <3>5, <3>6 DEF FlowInv, GroupsTogether, OrdersOf
    <3>8. GroupStatusFrom({status'[y] : y \in OrdersOf(g)}) = "CANCELLED"
      BY <1>3, <3>1, <3>2 DEF UpdateCommit, RefreshGroup, FlowInv, TypeOK
    <3>9. QED
      BY <2>3, <3>7, <3>8
  <2>7. QED
    BY <2>2, <2>4, <2>5, <2>6
<1>4. QED
  BY <1>2, <1>3

\* A group announced as cancelled holds no live order, but for those a handler wrote to
\* after their cancellation.
THEOREM CancelledIsDead == Spec => []CancelledGroupIsDead
<1>1. Init => CancelledGroupIsDead
  BY DEF Init, CancelledGroupIsDead
<1>2. FlowInv /\ CancelledGroupIsDead /\ [Next]_vars => CancelledGroupIsDead'
  BY CancelledGroupStep
<1>3. QED
  BY <1>1, <1>2, FlowInvariant, PTL DEF Spec
=============================================================================
