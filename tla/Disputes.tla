------------------------------ MODULE Disputes ------------------------------
(***************************************************************************)
(* The after-sales life of paid orders: disputes (dispute.routes.ts,       *)
(* escalation.ts) and the ledger lines they hold (ledger.ts), with what    *)
(* else writes the same orders: updateStatus, the carrier's tracking, and  *)
(* refunds (in one piece here; Refunds has their statements).              *)
(*                                                                         *)
(* Opening a dispute is one transaction.  Deciding one is a chain of       *)
(* commits without a transaction, and an administrator's request may die   *)
(* between any two of them.                                                *)
(***************************************************************************)
EXTENDS OrderRules

CONSTANTS
  Orders,      \* paid orders, on their way to the buyer
  Total,       \* Total[o]: what the buyer paid for it
  Disputes,    \* disputes that may be opened
  About,       \* About[d]: the order d is about
  Overdue,     \* those the seller does not answer in time
  Resolvers,   \* administrators' requests to decide a dispute
  Movers,      \* requests of updateStatus
  Targets,     \* the statuses they ask for; DISPUTED, which an administrator may write
               \* by hand with no dispute, is left out
  Tracked,     \* the statuses of a parcel that are written to its order
  MaxCrashes   \* bound: requests to decide that die half way

ASSUME DisputesAssumption ==
  /\ Total \in [Orders -> Nat \ {0}]
  /\ About \in [Disputes -> Orders]
  /\ "nobody" \notin Disputes
  /\ Targets \subseteq OrderStatus \ {"DISPUTED"}
  /\ Tracked \subseteq {"SHIPPED", "IN_TRANSIT", "DELIVERED"}
  /\ MaxCrashes \in Nat

VARIABLES
  order,       \* order[o]: its status
  delivered,   \* orders with a deliveredAt
  matured,     \* those whose deliveredAt is longer ago than the protection period
  asked,       \* asked[o]: sum of its refunds under way or completed
  repaid,      \* repaid[o]: refundedAmount of its settlement part
  dispute,     \* dispute[d]: "none", or its status; all open ones but ESCALATED are "waiting"
  holder,      \* holder[o]: the dispute the order's ledger lines are held by, or "nobody"
  released,    \* orders whose ledger lines have a releasedAt
  resolver,    \* resolver[r]: how far the request got, and the dispute it decides
  mover,       \* mover[q]: the order a request has read, and what it will write
  crashes

dateVars  == <<delivered, matured>>
moneyVars == <<asked, repaid>>
holdVars  == <<holder, released>>
disputeVars == <<order, dateVars, moneyVars, dispute, holdVars, resolver, mover, crashes>>

Idle == [at |-> "idle"]
At(r, step) == resolver[r].at = step

\* BLOCKING_DISPUTES: every status of a dispute that is not decided.
Blocking(d) == dispute[d] \in {"waiting", "ESCALATED"}
BlockedBy(o) == {d \in Disputes : About[d] = o /\ Blocking(d)}

Init ==
  /\ order = [o \in Orders |-> "SHIPPED"]
  /\ delivered = {} /\ matured = {}
  /\ asked = [o \in Orders |-> 0]
  /\ repaid = [o \in Orders |-> 0]
  /\ dispute = [d \in Disputes |-> "none"]
  /\ holder = [o \in Orders |-> "nobody"]
  /\ released = {}
  /\ resolver = [r \in Resolvers |-> Idle]
  /\ mover = [q \in Movers |-> Idle]
  /\ crashes = 0

-----------------------------------------------------------------------------
(***************************************************************************)
(* Opening and escalation.                                                 *)
(***************************************************************************)

\* holdForDispute: the lines of the order that nothing holds and nothing released.
Hold(d) ==
  IF holder[About[d]] = "nobody" THEN holder' = [holder EXCEPT ![About[d]] = d]
  ELSE UNCHANGED holder

\* The order must be paid.  A second dispute is refused only beside one that is OPEN or
\* UNDER_REVIEW, and no dispute ever is: it is born waiting for an answer.
Open(d) ==
  /\ dispute[d] = "none"
  /\ order[About[d]] # "PENDING"
  /\ dispute' = [dispute EXCEPT ![d] = "waiting"]
  /\ order' = [order EXCEPT ![About[d]] = "DISPUTED"]
  /\ Hold(d)
  /\ UNCHANGED <<dateVars, moneyVars, released, resolver, mover, crashes>>

\* escalateOverdueDisputes claims on the status it read.
Escalate(d) ==
  /\ d \in Overdue /\ dispute[d] = "waiting"
  /\ dispute' = [dispute EXCEPT ![d] = "ESCALATED"]
  /\ UNCHANGED <<order, dateVars, moneyVars, holdVars, resolver, mover, crashes>>

-----------------------------------------------------------------------------
(***************************************************************************)
(* POST /:id/resolve, one commit after the other.                          *)
(***************************************************************************)
Goto(r, step) == resolver' = [resolver EXCEPT ![r].at = step]
Finish(r) == resolver' = [resolver EXCEPT ![r] = Idle]
Subject(r) == About[resolver[r].dispute]

ResolveRead(r, d) ==
  /\ At(r, "idle") /\ Blocking(d)
  /\ resolver' = [resolver EXCEPT ![r] = [at |-> "decide", dispute |-> d]]
  /\ UNCHANGED <<order, dateVars, moneyVars, dispute, holdVars, mover, crashes>>

\* By id, whatever the dispute has become since.
ResolveDecide(r) ==
  /\ At(r, "decide")
  /\ dispute' = [dispute EXCEPT ![resolver[r].dispute] = "decided"]
  /\ Goto(r, "release")
  /\ UNCHANGED <<order, dateVars, moneyVars, holdVars, mover, crashes>>

\* Mutant: the release looks for the order's lines, not for those this dispute holds.
ReleaseAll(r) ==
  /\ At(r, "release")
  /\ released' = released \cup {Subject(r)}
  /\ Goto(r, "count")
  /\ UNCHANGED <<order, dateVars, moneyVars, dispute, holder, mover, crashes>>

\* releaseHold: the lines this dispute holds.
ResolveRelease(r) ==
  /\ At(r, "release")
  /\ released' = released \cup {o \in Orders : holder[o] = resolver[r].dispute}
  /\ Goto(r, "count")
  /\ UNCHANGED <<order, dateVars, moneyVars, dispute, holder, mover, crashes>>

\* Mutant: another dispute that was decided still counts as one.
CountDecided(r) ==
  /\ At(r, "count")
  /\ IF {d \in Disputes : About[d] = Subject(r) /\ dispute[d] # "none"}
           \ {resolver[r].dispute} = {}
     THEN Goto(r, "look") ELSE Finish(r)
  /\ UNCHANGED <<order, dateVars, moneyVars, dispute, holdVars, mover, crashes>>

\* The order leaves DISPUTED with its last dispute.
ResolveCount(r) ==
  /\ At(r, "count")
  /\ IF BlockedBy(Subject(r)) \ {resolver[r].dispute} = {} THEN Goto(r, "look") ELSE Finish(r)
  /\ UNCHANGED <<order, dateVars, moneyVars, dispute, holdVars, mover, crashes>>

ResolveLook(r) ==
  LET o == Subject(r) IN
  /\ At(r, "look")
  /\ IF order[o] = "DISPUTED"
     THEN resolver' = [resolver EXCEPT
            ![r] = [at |-> "sum", dispute |-> @.dispute, delivered |-> o \in delivered]]
     ELSE Finish(r)
  /\ UNCHANGED <<order, dateVars, moneyVars, dispute, holdVars, mover, crashes>>

\* What becomes of the order: no end is invented for one that is neither refunded nor delivered.
ResolveSum(r) ==
  LET o == Subject(r)
      end == IF asked[o] >= Total[o] THEN "REFUNDED" ELSE "COMPLETED" IN
  /\ At(r, "sum")
  /\ IF end = "REFUNDED" \/ resolver[r].delivered
     THEN resolver' = [resolver EXCEPT
            ![r] = [at |-> "write", dispute |-> @.dispute, end |-> end]]
     ELSE Finish(r)
  /\ UNCHANGED <<order, dateVars, moneyVars, dispute, holdVars, mover, crashes>>

\* By id; refreshGroupStatus is then given the order's id, which no group has.
ResolveWrite(r) ==
  /\ At(r, "write")
  /\ order' = [order EXCEPT ![Subject(r)] = resolver[r].end]
  /\ Finish(r)
  /\ UNCHANGED <<dateVars, moneyVars, dispute, holdVars, mover, crashes>>

\* The request dies.  Sent again it is refused, once the dispute is decided.
ResolveCrash(r) ==
  /\ resolver[r].at \in {"release", "count", "look", "sum", "write"}
  /\ crashes < MaxCrashes
  /\ crashes' = crashes + 1
  /\ Goto(r, "lost")
  /\ UNCHANGED <<order, dateVars, moneyVars, dispute, holdVars, mover>>

\* The steps the server takes for a request it has begun.
Proceed(r) ==
  \/ ResolveDecide(r) \/ ResolveRelease(r) \/ ResolveCount(r)
  \/ ResolveLook(r) \/ ResolveSum(r) \/ ResolveWrite(r)

Resolve(r) == (\E d \in Disputes : ResolveRead(r, d)) \/ Proceed(r) \/ ResolveCrash(r)
-----------------------------------------------------------------------------
(***************************************************************************)
(* Others who write the order.                                             *)
(***************************************************************************)

\* deliveredAt is now, and the protection period begins again.
DeliverNow(o) == delivered' = delivered \cup {o} /\ matured' = matured \ {o}

\* Mutant: an order without a delivery date counts as delivered long ago.
MatureUndelivered(o) ==
  /\ o \notin matured
  /\ matured' = matured \cup {o}
  /\ UNCHANGED <<order, delivered, moneyVars, dispute, holdVars, resolver, mover, crashes>>

\* The protection period ends.
Mature(o) ==
  /\ o \in delivered \ matured
  /\ matured' = matured \cup {o}
  /\ UNCHANGED <<order, delivered, moneyVars, dispute, holdVars, resolver, mover, crashes>>

\* orderService.updateStatus: checked on what it read, written by id, deliveredAt included.
MoveRead(q, o, role, target) ==
  /\ mover[q] = Idle
  /\ MayMove(role, order[o], target)
  /\ mover' = [mover EXCEPT ![q] = [at |-> "write", order |-> o, target |-> target,
                                   delivered |-> o \in delivered]]
  /\ UNCHANGED <<order, dateVars, moneyVars, dispute, holdVars, resolver, crashes>>

\* A new deliveredAt, or the one that was read: a delivery since then is forgotten.
MoveCommit(q) ==
  LET o == mover[q].order IN
  /\ mover[q].at = "write"
  /\ order' = [order EXCEPT ![o] = mover[q].target]
  /\ IF mover[q].target = "DELIVERED" THEN DeliverNow(o)
     ELSE IF mover[q].delivered THEN delivered' = delivered \cup {o} /\ UNCHANGED matured
     ELSE delivered' = delivered \ {o} /\ matured' = matured \ {o}
  /\ mover' = [mover EXCEPT ![q] = Idle]
  /\ UNCHANGED <<moneyVars, dispute, holdVars, resolver, crashes>>

\* logisticsService.updateStatus, by the seller, and the pickup counter: what is said of the
\* parcel is written to the order by id, whatever its status, as often as it is said.
Track(o, status) ==
  /\ order' = [order EXCEPT ![o] = status]
  /\ IF status = "DELIVERED" THEN DeliverNow(o) ELSE UNCHANGED dateVars
  /\ UNCHANGED <<moneyVars, dispute, holdVars, resolver, mover, crashes>>

\* A refund has its row before the provider is asked.  One refund of an order at a time here.
RefundAsk(o, n) ==
  /\ asked[o] = repaid[o] /\ asked[o] + n <= Total[o]
  /\ asked' = [asked EXCEPT ![o] = @ + n]
  /\ UNCHANGED <<order, dateVars, repaid, dispute, holdVars, resolver, mover, crashes>>

\* The provider gave the money back: applyRefundToAllocation, and REFUNDED when it is all.
RefundBook(o) ==
  /\ asked[o] > repaid[o]
  /\ repaid' = [repaid EXCEPT ![o] = asked[o]]
  /\ order' = IF asked[o] >= Total[o] THEN [order EXCEPT ![o] = "REFUNDED"] ELSE order
  /\ UNCHANGED <<dateVars, asked, dispute, holdVars, resolver, mover, crashes>>

\* The provider refused.
RefundFail(o) ==
  /\ asked[o] > repaid[o]
  /\ asked' = [asked EXCEPT ![o] = repaid[o]]
  /\ UNCHANGED <<order, dateVars, repaid, dispute, holdVars, resolver, mover, crashes>>

Refund(o) == (\E n \in 1 .. Total[o] : RefundAsk(o, n)) \/ RefundBook(o) \/ RefundFail(o)

Move(q) ==
  \/ \E o \in Orders, role \in Roles, target \in Targets : MoveRead(q, o, role, target)
  \/ MoveCommit(q)

DisputeNext ==
  \/ \E d \in Disputes : Open(d) \/ Escalate(d)
  \/ \E r \in Resolvers : Resolve(r)
  \/ \E q \in Movers : Move(q)
  \/ \E o \in Orders :
       Refund(o) \/ Mature(o) \/ \E status \in Tracked : Track(o, status)

DisputeSpec == Init /\ [][DisputeNext]_disputeVars
-----------------------------------------------------------------------------
(***************************************************************************)
(* Properties.                                                             *)
(***************************************************************************)

\* Every variable keeps its type.
DisputeTypeOK ==
  /\ order \in [Orders -> OrderStatus]
  /\ matured \subseteq delivered /\ delivered \subseteq Orders
  /\ asked \in [Orders -> Nat]
  /\ repaid \in [Orders -> Nat]
  /\ dispute \in [Disputes -> {"none", "waiting", "ESCALATED", "decided"}]
  /\ holder \in [Orders -> Disputes \cup {"nobody"}]
  /\ released \subseteq Orders
  /\ \A r \in Resolvers :
       /\ resolver[r].at \in {"idle", "decide", "release", "count", "look", "sum", "write",
                              "lost"}
       /\ resolver[r].at # "idle" => resolver[r].dispute \in Disputes
  /\ \A q \in Movers : mover[q].at \in {"idle", "write"}
  /\ crashes \in 0 .. MaxCrashes

\* Requests that are deciding a dispute on order o, or died while they did.
Deciding(o) == {r \in Resolvers : resolver[r].at # "idle" /\ Subject(r) = o}

\* An order that was delivered leaves DISPUTED with its last dispute, in whatever order its
\* disputes are opened and decided: of two requests that decide two of them at once, the one
\* that counts last sees none left.  Without this its seller is never paid.
DisputeEnds ==
  \A o \in delivered :
    order[o] = "DISPUTED" => BlockedBy(o) # {} \/ Deciding(o) # {}

\* The ledger lines a dispute holds stay held until it is decided, and are then released,
\* at the latest when the request that decided it ends.
HoldFollowsDispute ==
  \A o \in Orders : holder[o] # "nobody" =>
    /\ Blocking(holder[o]) => o \notin released
    /\ dispute[holder[o]] = "decided" => o \in released \/ Deciding(o) # {}
=============================================================================
