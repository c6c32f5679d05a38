----------------------------- MODULE OrderRules -----------------------------
(***************************************************************************)
(* The status tables of the marketplace, shared by every module that moves *)
(* an order: the transition table and the role tables of order.service.ts, *)
(* and the rule that deduces the status of an order group from the         *)
(* statuses of its sub-orders (group-status.ts).  No state, no variables.  *)
(***************************************************************************)
EXTENDS Integers, Sequences

OrderStatus ==
  {"PENDING", "PAID", "CONFIRMED", "PROCESSING", "READY_TO_SHIP", "SHIPPED",
   "IN_TRANSIT", "DELIVERED", "COMPLETED", "CANCELLED", "REFUNDED", "DISPUTED"}

\* TRANSITIONS: the targets updateStatus accepts from each status.
Transitions ==
  [PENDING       |-> {"PAID", "CANCELLED"},
   PAID          |-> {"CONFIRMED", "PROCESSING", "READY_TO_SHIP", "CANCELLED", "REFUNDED",
                      "DISPUTED"},
   CONFIRMED     |-> {"PROCESSING", "READY_TO_SHIP", "CANCELLED", "DISPUTED"},
   PROCESSING    |-> {"READY_TO_SHIP", "SHIPPED", "CANCELLED", "DISPUTED"},
   READY_TO_SHIP |-> {"SHIPPED", "CANCELLED", "DISPUTED"},
   SHIPPED       |-> {"IN_TRANSIT", "DELIVERED", "DISPUTED"},
   IN_TRANSIT    |-> {"DELIVERED", "DISPUTED", "CANCELLED"},
   DELIVERED     |-> {"COMPLETED", "DISPUTED", "REFUNDED"},
   COMPLETED     |-> {"DISPUTED"},
   CANCELLED     |-> {},
   REFUNDED      |-> {},
   DISPUTED      |-> {"REFUNDED", "COMPLETED", "CANCELLED"}]

Roles == {"seller", "buyer", "admin"}

SellerAllowed == {"CONFIRMED", "PROCESSING", "READY_TO_SHIP", "SHIPPED",
                  "IN_TRANSIT", "DELIVERED", "CANCELLED"}
BuyerAllowed  == {"COMPLETED", "CANCELLED"}

\* The checks updateStatus makes on the order it has read.
MayMove(role, seen, target) ==
  /\ target \in Transitions[seen]
  /\ role = "seller" => target \in SellerAllowed
  /\ role = "buyer"  => /\ target \in BuyerAllowed
                        /\ target = "CANCELLED" => seen \in {"PENDING", "PAID"}

-----------------------------------------------------------------------------
GroupStatus ==
  {"PENDING", "PAID", "PROCESSING", "PARTIALLY_SHIPPED", "SHIPPED",
   "PARTIALLY_DELIVERED", "DELIVERED", "COMPLETED", "CANCELLED", "REFUNDED"}

\* RANG: how far along a sub-order is; the statuses out of the race have none.
Rank ==
  [PENDING |-> 0, PAID |-> 1, CONFIRMED |-> 2, PROCESSING |-> 3, READY_TO_SHIP |-> 4,
   SHIPPED |-> 5, IN_TRANSIT |-> 5, DELIVERED |-> 6, COMPLETED |-> 7,
   CANCELLED |-> -1, REFUNDED |-> -1, DISPUTED |-> -1]

\* UNIFORME: the group status when every running sub-order has this rank.
Uniform(rank) ==
  <<"PENDING", "PAID", "PAID", "PROCESSING", "PROCESSING", "SHIPPED", "DELIVERED",
    "COMPLETED">>[rank + 1]

\* groupStatusFrom depends only on which statuses occur, so it takes their set.  The
\* group goes at the pace of its slowest running sub-order, and says so when the
\* stores are not at the same point.
GroupStatusFrom(statuses) ==
  LET alive == statuses \ {"CANCELLED", "REFUNDED"}
      ranks == {Rank[s] : s \in alive \ {"DISPUTED"}}
      astride(r) == (\E x \in ranks : x >= r) /\ (\E x \in ranks : x < r)
  IN  IF statuses = {} THEN "PENDING"
      ELSE IF alive = {} THEN IF "REFUNDED" \in statuses THEN "REFUNDED" ELSE "CANCELLED"
      ELSE IF ranks = {} THEN "PROCESSING"
      ELSE IF \E r \in ranks : ranks = {r} THEN Uniform(CHOOSE r \in ranks : TRUE)
      ELSE IF astride(6) THEN "PARTIALLY_DELIVERED"
      ELSE IF astride(5) THEN "PARTIALLY_SHIPPED"
      ELSE "PROCESSING"
=============================================================================
