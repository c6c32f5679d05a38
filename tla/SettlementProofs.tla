--------------------------- MODULE SettlementProofs ---------------------------
(***************************************************************************)
(* Proofs about Settlement and Disputes, for any orders, disputes,         *)
(* payouts and requests.                                                   *)
(*                                                                         *)
(* Payouts: the parts of a payout that nothing stale has written are those *)
(* of its amount, and one that was paid stays PAID; so the parts of two of *)
(* them are disjoint.  Their amounts are what somebody has read, and lie   *)
(* between what the parts are owed and what they were: that is kept since  *)
(* a refund only lowers what is owed (NetSumFalls).                        *)
(*                                                                         *)
(* Disputes: a request that decides one has a way to go, on which it       *)
(* releases the lines the dispute holds and takes the order out of         *)
(* DISPUTED.  The invariant says who is still on that way.                 *)
(***************************************************************************)
EXTENDS Settlement, SumTheorems

\* What the payouts are made of, and what an administrator's request has read.
PayoutTypes ==
  /\ part \in [Orders -> {"PENDING", "ELIGIBLE", "SETTLED", "CANCELLED"}]
  /\ payoutOf \in [Orders -> Payouts \cup {"none"}]
  /\ sweep \in [Sweeps -> SUBSET (Orders \X {"ELIGIBLE", "CANCELLED"})]
  /\ payout \in [Payouts -> {"none", "ELIGIBLE", "ON_HOLD", "PAID", "CANCELLED"}]
  /\ content \in [Payouts -> SUBSET Orders]
  /\ paid \subseteq Payouts /\ strayed \subseteq Payouts
  /\ DOMAIN admin = Admins
  /\ \A a \in Admins :
       /\ admin[a].at = "create" => admin[a].parts \subseteq Orders
       /\ admin[a].at = "write" => /\ admin[a].payout \in Payouts
                                   /\ admin[a].target \in DOMAIN Accepts
                                   /\ admin[a].seen \in Accepts[admin[a].target]

\* A payout that was paid stays PAID, or a request that had read it before strays.
PaidStays == \A p \in paid \ strayed : payout[p] = "PAID"

PayoutInv == PayoutTypes /\ PartsFollowPayout /\ PaidStays

LEMMA AcceptsShape ==
  /\ DOMAIN Accepts = {"PAID", "ON_HOLD", "ELIGIBLE", "CANCELLED"}
  /\ \A target \in DOMAIN Accepts :
       Accepts[target] \subseteq {"ELIGIBLE", "ON_HOLD", "CANCELLED"}
  BY DEF Accepts

LEMMA PayoutInit == SInit => PayoutInv
  BY SettlementAssumption
  DEF SInit, PayoutInv, PayoutTypes, PartsFollowPayout, PaidStays, PartsOf, Idle

LEMMA PayoutStep == PayoutInv /\ [Next]_vars => PayoutInv'
<1> SUFFICES ASSUME PayoutInv, [Next]_vars PROVE PayoutInv'
  OBVIOUS
<1> USE SettlementAssumption
<1>1. ASSUME UNCHANGED <<partVars, sweep, payoutVars, admin, historyVars>>
      PROVE  PayoutInv'
  BY <1>1 DEF partVars, payoutVars, historyVars, PayoutInv, PayoutTypes, PartsFollowPayout,
              PaidStays, PartsOf
<1>2. ASSUME NEW s \in Sweeps, SweepRead(s)
      PROVE  PayoutInv'
  <2>1. Verdicts \in SUBSET (Orders \X {"ELIGIBLE", "CANCELLED"})
    BY DEF Verdicts
  <2> HIDE DEF Verdicts
  <2> QED
    BY <1>2, <2>1 DEF SweepRead, partVars, payoutVars, historyVars, PayoutInv, PayoutTypes,
                      PartsFollowPayout, PaidStays, PartsOf
<1>3. ASSUME NEW s \in Sweeps, SweepWrite(s)
      PROVE  PayoutInv'
  <2>1. PICK v \in sweep[s] :
          /\ part' = IF part[v[1]] = "PENDING" THEN [part EXCEPT ![v[1]] = v[2]] ELSE part
          /\ sweep' = [sweep EXCEPT ![s] = @ \ {v}]
          /\ UNCHANGED <<payoutOf, payoutVars, admin, historyVars>>
    BY <1>3 DEF SweepWrite
  <2>2. v[1] \in Orders /\ v[2] \in {"ELIGIBLE", "CANCELLED"}
    BY <2>1 DEF PayoutInv, PayoutTypes
  <2> QED
    BY <2>1, <2>2 DEF payoutVars, historyVars, PayoutInv, PayoutTypes, PartsFollowPayout,
                      PaidStays, PartsOf
<1>4. ASSUME NEW s \in Sweeps, SweepLost(s)
      PROVE  PayoutInv'
  BY <1>4 DEF SweepLost, partVars, payoutVars, historyVars, PayoutInv, PayoutTypes,
              PartsFollowPayout, PaidStays, PartsOf
<1>5. ASSUME NEW a \in Admins, CreateRead(a)
      PROVE  PayoutInv'
  BY <1>5 DEF CreateRead, partVars, payoutVars, historyVars, PayoutInv, PayoutTypes,
              PartsFollowPayout, PaidStays, PartsOf, Idle
<1>6. ASSUME NEW a \in Admins, NEW p \in Payouts, CreateCommit(a, p)
      PROVE  PayoutInv'
  <2> DEFINE parts == admin[a].parts
  <2>1. parts \subseteq Orders /\ payout[p] = "none"
    BY <1>6 DEF CreateCommit, PayoutInv, PayoutTypes
  <2>2. CASE \A o \in parts : Free(o)
    <3>1. /\ part' = [o \in Orders |-> IF o \in parts THEN "SETTLED" ELSE part[o]]
          /\ payoutOf' = [o \in Orders |-> IF o \in parts THEN p ELSE payoutOf[o]]
          /\ payout' = [payout EXCEPT ![p] = "ELIGIBLE"]
          /\ content' = [content EXCEPT ![p] = parts]
          /\ admin' = [admin EXCEPT ![a] = Idle]
          /\ UNCHANGED <<sweep, paid, strayed>>
      BY <1>6, <2>2 DEF CreateCommit, historyVars
    <3>2. \A o \in parts : part[o] = "ELIGIBLE" /\ payoutOf[o] = "none"
      BY <2>2 DEF Free
    <3> HIDE DEF parts
    <3>3. PayoutTypes'
      BY <2>1, <3>1 DEF PayoutInv, PayoutTypes, Idle
    <3>4. \A o \in Orders : (payoutOf[o] # "none" <=> part[o] = "SETTLED")'
      BY <2>1, <3>1 DEF PayoutInv, PayoutTypes, PartsFollowPayout
    <3>5. \A x \in Payouts \ {p} : PartsOf(x)' = PartsOf(x)
      BY <2>1, <3>1, <3>2 DEF PayoutInv, PayoutTypes, PartsOf
    <3>6. p \notin strayed => PartsOf(p)' = parts
      BY <2>1, <3>1 DEF PayoutInv, PayoutTypes, PartsFollowPayout, PartsOf
    <3>7. PartsFollowPayout'
      BY <2>1, <3>1, <3>4, <3>5, <3>6 DEF PayoutInv, PayoutTypes, PartsFollowPayout
    <3>8. PaidStays'
      BY <2>1, <3>1 DEF PayoutInv, PayoutTypes, PaidStays
    <3> QED
      BY <3>3, <3>7, <3>8 DEF PayoutInv
  <2>3. CASE ~\A o \in parts : Free(o)
    BY <1>6, <2>3 DEF CreateCommit, partVars, payoutVars, historyVars, PayoutInv, PayoutTypes,
                      PartsFollowPayout, PaidStays, PartsOf, Idle
  <2> QED
    BY <2>2, <2>3
<1>7. ASSUME NEW a \in Admins, NEW p \in Payouts, NEW target \in DOMAIN Accepts,
             PayoutRead(a, p, target)
      PROVE  PayoutInv'
  BY <1>7 DEF PayoutRead, partVars, payoutVars, historyVars, PayoutInv, PayoutTypes,
              PartsFollowPayout, PaidStays, PartsOf, Idle
<1>8. ASSUME NEW a \in Admins, PayoutWrite(a)
      PROVE  PayoutInv'
  <2>1. PICK p \in Payouts :
          /\ p = admin[a].payout
          /\ admin[a].target \in {"PAID", "ON_HOLD", "ELIGIBLE", "CANCELLED"}
          /\ admin[a].seen \in {"ELIGIBLE", "ON_HOLD", "CANCELLED"}
    BY <1>8, AcceptsShape DEF PayoutWrite, PayoutInv, PayoutTypes
  <2> DEFINE target == admin[a].target
             freed == IF target = "CANCELLED" THEN PartsOf(p) ELSE {}
  <2>2. /\ payout' = [payout EXCEPT ![p] = target]
        /\ part' = [o \in Orders |-> IF o \in freed THEN "ELIGIBLE" ELSE part[o]]
        /\ payoutOf' = [o \in Orders |-> IF o \in freed THEN "none" ELSE payoutOf[o]]
        /\ paid' = IF target = "PAID" THEN paid \cup {p} ELSE paid
        /\ strayed' = IF payout[p] = admin[a].seen /\ payout[p] # "CANCELLED" THEN strayed
                      ELSE strayed \cup {p}
        /\ admin' = [admin EXCEPT ![a] = Idle]
        /\ UNCHANGED <<sweep, content>>
    BY <1>8, <2>1 DEF PayoutWrite, Stray
  <2>3. freed \subseteq PartsOf(p)
    OBVIOUS
  <2>4. target = "CANCELLED" => freed = PartsOf(p)
    OBVIOUS
  <2>5. target # "CANCELLED" => freed = {}
    OBVIOUS
  <2>6. p \notin strayed' => payout[p] \in {"ELIGIBLE", "ON_HOLD"} /\ p \notin strayed
    BY <2>1, <2>2
  <2>7. target \in {"PAID", "ON_HOLD", "ELIGIBLE", "CANCELLED"}
    BY <2>1
  <2> HIDE DEF target, freed
  <2>8. PayoutTypes'
    BY <2>1, <2>2, <2>7 DEF PayoutInv, PayoutTypes, Idle
  <2>9. \A o \in Orders : (payoutOf[o] # "none" <=> part[o] = "SETTLED")'
    BY <2>2 DEF PayoutInv, PayoutTypes, PartsFollowPayout
  <2>10. \A x \in Payouts \ {p} : PartsOf(x)' = PartsOf(x)
    BY <2>2, <2>3 DEF PayoutInv, PayoutTypes, PartsOf
  <2>11. target = "CANCELLED" => PartsOf(p)' = {}
    BY <2>1, <2>2, <2>7, <2>4 DEF PartsOf
  <2>12. target # "CANCELLED" => PartsOf(p)' = PartsOf(p)
    BY <2>1, <2>2, <2>7, <2>5 DEF PartsOf, PayoutInv, PayoutTypes
  <2>13. strayed \subseteq strayed'
    BY <2>2
  <2>14. p \notin strayed' =>
           PartsOf(p)' = IF payout'[p] \in {"none", "CANCELLED"} THEN {} ELSE content'[p]
    BY <2>1, <2>2, <2>7, <2>6, <2>11, <2>12 DEF PayoutInv, PayoutTypes, PartsFollowPayout
  <2>15. PartsFollowPayout'
    BY <2>2, <2>9, <2>10, <2>13, <2>14 DEF PayoutInv, PayoutTypes, PartsFollowPayout
  <2>16. PaidStays'
    BY <2>1, <2>2, <2>7, <2>6, <2>13 DEF PayoutInv, PayoutTypes, PaidStays
  <2> QED
    BY <2>8, <2>15, <2>16 DEF PayoutInv
<1>9. CASE UNCHANGED vars
  BY <1>1, <1>9 DEF vars
<1>10. CASE UNCHANGED settlementVars
  BY <1>1, <1>10 DEF settlementVars
<1> QED
  BY <1>2, <1>3, <1>4, <1>5, <1>6, <1>7, <1>8, <1>9, <1>10 DEF Next, Administer

\* The parts of any payout that no stale request has written to are the parts its amount was
\* made of (createPayout, cancelPayout), whatever sweeps and requests cross.
THEOREM PartsAreFollowed == Spec => []PartsFollowPayout
<1>1. PayoutInv => PartsFollowPayout
  BY DEF PayoutInv
<1> QED
  BY <1>1, PayoutInit, PayoutStep, PTL DEF Spec

\* No seller is paid twice for an order by two payouts (processPayout), but for those a stale
\* request has written to.
THEOREM NobodyIsPaidTwice == Spec => []PaidOnce
<1>1. PayoutInv => PaidOnce
  <2> SUFFICES ASSUME PayoutInv, NEW p \in paid \ strayed, NEW q \in paid \ strayed, p # q
               PROVE  content[p] \cap content[q] = {}
    BY DEF PaidOnce
  <2>1. p \in Payouts /\ q \in Payouts /\ payout[p] = "PAID" /\ payout[q] = "PAID"
    BY DEF PayoutInv, PayoutTypes, PaidStays
  <2>2. content[p] = PartsOf(p) /\ content[q] = PartsOf(q)
    BY <2>1 DEF PayoutInv, PartsFollowPayout
  <2> QED
    BY <2>2 DEF PartsOf
<1> QED
  BY <1>1, PayoutInit, PayoutStep, PTL DEF Spec
-----------------------------------------------------------------------------
(***************************************************************************)
(* Disputes.                                                               *)
(***************************************************************************)

\* What a request to decide a dispute knows at each step.
ResolverRecord ==
  [at : {"idle"}] \cup
  [at : {"decide", "release", "count", "look", "lost"}, dispute : Disputes] \cup
  [at : {"sum", "lost"}, dispute : Disputes, delivered : BOOLEAN] \cup
  [at : {"write", "lost"}, dispute : Disputes, end : {"REFUNDED", "COMPLETED"}]

AfterSales ==
  /\ order \in [Orders -> OrderStatus]
  /\ delivered \subseteq Orders
  /\ dispute \in [Disputes -> {"none", "waiting", "ESCALATED", "decided"}]
  /\ holder \in [Orders -> Disputes \cup {"nobody"}]
  /\ released \subseteq Orders
  /\ resolver \in [Resolvers -> ResolverRecord]
  /\ DOMAIN mover = Movers
  /\ \A q \in Movers :
       mover[q].at = "write" => mover[q].order \in Orders /\ mover[q].target \in Targets

\* A request past its first write has decided its dispute.
Decided ==
  \A r \in Resolvers :
    resolver[r].at \notin {"idle", "decide"} => dispute[resolver[r].dispute] = "decided"

\* A dispute holds lines of its own order, and only decided ones have released theirs.
HoldShape ==
  \A o \in Orders :
    /\ holder[o] # "nobody" => About[holder[o]] = o /\ dispute[holder[o]] # "none"
    /\ o \in released => holder[o] # "nobody" /\ dispute[holder[o]] = "decided"

\* The lines of a decided dispute are released, or a request is about to, or died.
ReleaseComes ==
  \A o \in Orders :
    holder[o] # "nobody" /\ dispute[holder[o]] = "decided" =>
      \/ o \in released
      \/ \E r \in Resolvers : /\ resolver[r].at \in {"release", "lost"}
                              /\ resolver[r].dispute = holder[o]

\* Requests that will take a delivered order out of DISPUTED, or died on the way.  One that
\* read the order before it was delivered is not among them.
OnTheWay(r) ==
  \/ resolver[r].at \in {"decide", "release", "count", "look", "write", "lost"}
  \/ resolver[r].at = "sum" /\ resolver[r].delivered

EndComes ==
  \A o \in delivered :
    order[o] = "DISPUTED" =>
      \/ BlockedBy(o) # {}
      \/ \E r \in Resolvers : Subject(r) = o /\ OnTheWay(r)

DisputeInv == AfterSales /\ Decided /\ HoldShape /\ ReleaseComes /\ EndComes

\* What moving a request on leaves of its record.
LEMMA GotoShape ==
  ASSUME AfterSales, NEW r \in Resolvers, NEW step \in {"release", "count", "look", "lost"},
         resolver[r].at \notin {"idle", "lost"},
         resolver[r].at \in {"sum", "write"} => step = "lost",
         Goto(r, step)
  PROVE  /\ resolver' \in [Resolvers -> ResolverRecord]
         /\ resolver'[r].at = step /\ resolver'[r].dispute = resolver[r].dispute
         /\ \A x \in Resolvers \ {r} : resolver'[x] = resolver[x]
<1>1. resolver' = [resolver EXCEPT ![r] = [resolver[r] EXCEPT !.at = step]]
  BY DEF Goto
<1>2. resolver[r] \in ResolverRecord
  BY DEF AfterSales
<1>3. /\ [resolver[r] EXCEPT !.at = step] \in ResolverRecord
      /\ [resolver[r] EXCEPT !.at = step].at = step
      /\ [resolver[r] EXCEPT !.at = step].dispute = resolver[r].dispute
  BY <1>2 DEF ResolverRecord
<1> QED
  BY <1>1, <1>3 DEF AfterSales

\* A request that ends is ready for another dispute.
LEMMA FinishShape ==
  ASSUME AfterSales, NEW r \in Resolvers, Finish(r)
  PROVE  /\ resolver' \in [Resolvers -> ResolverRecord]
         /\ resolver'[r].at = "idle"
         /\ \A x \in Resolvers \ {r} : resolver'[x] = resolver[x]
<1>1. Idle \in ResolverRecord /\ Idle.at = "idle"
  BY DEF Idle, ResolverRecord
<1> QED
  BY <1>1 DEF AfterSales, Finish

\* The record of a request that has begun.
LEMMA ResolverShape ==
  ASSUME AfterSales, NEW r \in Resolvers, resolver[r].at # "idle"
  PROVE  /\ resolver[r].dispute \in Disputes
         /\ resolver[r].at \in {"decide", "release", "count", "look", "sum", "write", "lost"}
         /\ resolver[r].at = "sum" => resolver[r].delivered \in BOOLEAN
         /\ resolver[r].at = "write" => resolver[r].end \in {"REFUNDED", "COMPLETED"}
  BY DEF AfterSales, ResolverRecord

LEMMA DisputeInit == SInit => DisputeInv
<1> SUFFICES ASSUME SInit PROVE DisputeInv
  OBVIOUS
<1>1. Idle \in ResolverRecord /\ Idle.at = "idle"
  BY DEF Idle, ResolverRecord
<1>2. \A r \in Resolvers : resolver[r] = Idle
  BY DEF SInit, Init
<1>3. AfterSales
  BY <1>1 DEF SInit, Init, AfterSales, OrderStatus
<1>4. Decided
  BY <1>1, <1>2 DEF Decided
<1>5. HoldShape /\ ReleaseComes /\ EndComes
  BY DEF SInit, Init, HoldShape, ReleaseComes, EndComes
<1> QED
  BY <1>3, <1>4, <1>5 DEF DisputeInv

LEMMA DisputeStep == DisputeInv /\ [Next]_vars => DisputeInv'
<1> SUFFICES ASSUME DisputeInv, [Next]_vars PROVE DisputeInv'
  OBVIOUS
<1> USE DisputesAssumption DEF Blocking, BlockedBy, At, dateVars,
                              holdVars, moneyVars
<1> USE DEF DisputeInv
<1>1. ASSUME UNCHANGED <<order, delivered, dispute, holdVars, resolver, mover>>
      PROVE  DisputeInv'
  BY <1>1 DEF holdVars, AfterSales, Decided, HoldShape, ReleaseComes, EndComes, Subject, OnTheWay
<1>2. ASSUME NEW d \in Disputes, Open(d)
      PROVE  DisputeInv'
  <2>1. /\ dispute[d] = "none" /\ dispute' = [dispute EXCEPT ![d] = "waiting"]
        /\ order' = [order EXCEPT ![About[d]] = "DISPUTED"]
        /\ holder' = IF holder[About[d]] = "nobody" THEN [holder EXCEPT ![About[d]] = d]
                     ELSE holder
        /\ UNCHANGED <<delivered, released, resolver, mover>>
    BY <1>2 DEF Open, Hold
  <2>2. AfterSales'
    BY <2>1 DEF AfterSales, OrderStatus
  <2>3. Decided'
    BY <2>1, ResolverShape DEF Decided, AfterSales
  <2>4. HoldShape'
    BY <2>1 DEF HoldShape, AfterSales
  <2>5. ReleaseComes'
    BY <2>1 DEF ReleaseComes, AfterSales, HoldShape
  <2>6. EndComes'
    <3>1. BlockedBy(About[d])' # {}
      BY <2>1 DEF AfterSales
    <3>2. \A o \in Orders : BlockedBy(o) \subseteq BlockedBy(o)'
      BY <2>1 DEF AfterSales
    <3> QED
      BY <2>1, <3>1, <3>2 DEF EndComes, AfterSales, Subject, OnTheWay
  <2> QED
    BY <2>2, <2>3, <2>4, <2>5, <2>6
<1>3. ASSUME NEW d \in Disputes, Escalate(d)
      PROVE  DisputeInv'
  <2>1. /\ dispute[d] = "waiting" /\ dispute' = [dispute EXCEPT ![d] = "ESCALATED"]
        /\ UNCHANGED <<order, delivered, holder, released, resolver, mover>>
    BY <1>3 DEF Escalate, holdVars
  <2>2. AfterSales' /\ Decided' /\ HoldShape' /\ ReleaseComes'
    BY <2>1, ResolverShape DEF AfterSales, Decided, HoldShape, ReleaseComes
  <2>3. \A o \in Orders : BlockedBy(o) \subseteq BlockedBy(o)'
    BY <2>1 DEF AfterSales
  <2> QED
    BY <2>1, <2>2, <2>3 DEF EndComes, AfterSales, Subject, OnTheWay
<1>4. ASSUME NEW r \in Resolvers, NEW d \in Disputes, ResolveRead(r, d)
      PROVE  DisputeInv'
  <2>1. /\ resolver[r].at = "idle"
        /\ resolver' = [resolver EXCEPT ![r] = [at |-> "decide", dispute |-> d]]
        /\ UNCHANGED <<order, delivered, dispute, holder, released, mover>>
    BY <1>4 DEF ResolveRead, holdVars
  <2>2. AfterSales'
    BY <2>1 DEF AfterSales, ResolverRecord
  <2>3. /\ resolver'[r].at = "decide"
        /\ \A x \in Resolvers \ {r} : resolver'[x] = resolver[x]
    BY <2>1 DEF AfterSales
  <2> QED
    BY <2>1, <2>2, <2>3 DEF Decided, HoldShape, ReleaseComes, EndComes, Subject, OnTheWay
<1>5. ASSUME NEW r \in Resolvers, ResolveDecide(r)
      PROVE  DisputeInv'
  <2> DEFINE d == resolver[r].dispute
  <2>1. /\ resolver[r].at = "decide" /\ dispute' = [dispute EXCEPT ![d] = "decided"]
        /\ UNCHANGED <<order, delivered, holder, released, mover>>
    BY <1>5 DEF ResolveDecide, holdVars
  <2>2. /\ resolver' \in [Resolvers -> ResolverRecord]
        /\ resolver'[r].at = "release" /\ resolver'[r].dispute = resolver[r].dispute
        /\ \A x \in Resolvers \ {r} : resolver'[x] = resolver[x]
    BY <1>5, <2>1, GotoShape DEF ResolveDecide
  <2>3. d \in Disputes
    BY <2>1, ResolverShape
  <2>4. AfterSales'
    BY <2>1, <2>2 DEF AfterSales
  <2>5. \A x \in Disputes : dispute'[x] = IF x = resolver[r].dispute THEN "decided" ELSE dispute[x]
    BY <2>1 DEF AfterSales
  <2>6. Decided'
    BY <2>1, <2>2, <2>3, <2>5, ResolverShape DEF Decided
  <2>7. HoldShape'
    BY <2>1, <2>3, <2>5 DEF HoldShape, AfterSales
  <2>8. ReleaseComes'
    BY <2>1, <2>2, <2>3, <2>5 DEF ReleaseComes, AfterSales
  <2>9. EndComes'
    BY <2>1, <2>2, <2>3, <2>5 DEF EndComes, Subject, OnTheWay, AfterSales
  <2> QED
    BY <2>4, <2>6, <2>7, <2>8, <2>9
<1>6. ASSUME NEW r \in Resolvers, ResolveRelease(r)
      PROVE  DisputeInv'
  <2>1. /\ resolver[r].at = "release"
        /\ released' = released \cup {o \in Orders : holder[o] = resolver[r].dispute}
        /\ UNCHANGED <<order, delivered, dispute, holder, mover>>
    BY <1>6 DEF ResolveRelease
  <2>2. /\ resolver' \in [Resolvers -> ResolverRecord]
        /\ resolver'[r].at = "count" /\ resolver'[r].dispute = resolver[r].dispute
        /\ \A x \in Resolvers \ {r} : resolver'[x] = resolver[x]
    BY <1>6, <2>1, GotoShape DEF ResolveRelease
  <2>3. resolver[r].dispute \in Disputes /\ dispute[resolver[r].dispute] = "decided"
    BY <2>1, ResolverShape DEF Decided
  <2>4. AfterSales' /\ Decided'
    BY <2>1, <2>2, <2>3 DEF AfterSales, Decided
  <2>5. HoldShape'
    BY <2>1, <2>3 DEF HoldShape
  <2>6. ReleaseComes'
    BY <2>1, <2>2 DEF ReleaseComes
  <2>7. EndComes'
    BY <2>1, <2>2, <2>3 DEF EndComes, Subject, OnTheWay
  <2> QED
    BY <2>4, <2>5, <2>6, <2>7
<1>7. ASSUME NEW r \in Resolvers, ResolveCount(r)
      PROVE  DisputeInv'
  <2>1. /\ resolver[r].at = "count"
        /\ UNCHANGED <<order, delivered, dispute, holder, released, mover>>
    BY <1>7 DEF ResolveCount, holdVars
  <2>2. CASE Goto(r, "look")
    <3>1. /\ resolver' \in [Resolvers -> ResolverRecord]
          /\ resolver'[r].at = "look" /\ resolver'[r].dispute = resolver[r].dispute
          /\ \A x \in Resolvers \ {r} : resolver'[x] = resolver[x]
      BY <2>1, <2>2, GotoShape
    <3>2. AfterSales' /\ Decided' /\ HoldShape' /\ ReleaseComes'
      BY <2>1, <3>1 DEF AfterSales, Decided, HoldShape, ReleaseComes
    <3>3. EndComes'
      BY <2>1, <3>1 DEF EndComes, Subject, OnTheWay
    <3> QED
      BY <3>2, <3>3
  <2>3. CASE Finish(r) /\ BlockedBy(Subject(r)) # {}
    <3>1. /\ resolver' \in [Resolvers -> ResolverRecord]
          /\ resolver'[r].at = "idle"
          /\ \A x \in Resolvers \ {r} : resolver'[x] = resolver[x]
      BY <2>3, FinishShape
    <3>2. AfterSales' /\ Decided' /\ HoldShape' /\ ReleaseComes'
      BY <2>1, <3>1 DEF AfterSales, Decided, HoldShape, ReleaseComes
    <3>3. EndComes'
      BY <2>1, <2>3, <3>1 DEF EndComes, Subject, OnTheWay
    <3> QED
      BY <3>2, <3>3
  <2> QED
    BY <1>7, <2>2, <2>3 DEF ResolveCount
<1>8. ASSUME NEW r \in Resolvers, ResolveLook(r)
      PROVE  DisputeInv'
  <2> DEFINE o == Subject(r)
  <2>1. /\ resolver[r].at = "look"
        /\ UNCHANGED <<order, delivered, dispute, holder, released, mover>>
    BY <1>8 DEF ResolveLook, holdVars
  <2>2. resolver[r].dispute \in Disputes
    BY <2>1, ResolverShape
  <2>3. CASE order[o] = "DISPUTED"
    <3>1. resolver' = [resolver EXCEPT ![r] = [at |-> "sum", dispute |-> resolver[r].dispute,
                                               delivered |-> Subject(r) \in delivered]]
      BY <1>8, <2>3 DEF ResolveLook
    <3>2. AfterSales'
      BY <2>1, <2>2, <3>1 DEF AfterSales, ResolverRecord
    <3>3. /\ resolver'[r].at = "sum" /\ resolver'[r].dispute = resolver[r].dispute
          /\ resolver'[r].delivered <=> Subject(r) \in delivered
          /\ \A x \in Resolvers \ {r} : resolver'[x] = resolver[x]
      BY <3>1 DEF AfterSales
    <3>4. Decided' /\ HoldShape' /\ ReleaseComes'
      BY <2>1, <3>3 DEF Decided, HoldShape, ReleaseComes
    <3>5. EndComes'
      BY <2>1, <3>3 DEF EndComes, Subject, OnTheWay
    <3> QED
      BY <3>2, <3>4, <3>5
  <2>4. CASE order[o] # "DISPUTED"
    <3>1. Finish(r)
      BY <1>8, <2>4 DEF ResolveLook
    <3>2. /\ resolver' \in [Resolvers -> ResolverRecord]
          /\ resolver'[r].at = "idle"
          /\ \A x \in Resolvers \ {r} : resolver'[x] = resolver[x]
      BY <3>1, FinishShape
    <3>3. AfterSales' /\ Decided' /\ HoldShape' /\ ReleaseComes'
      BY <2>1, <3>2 DEF AfterSales, Decided, HoldShape, ReleaseComes
    <3>4. EndComes'
      BY <2>1, <2>4, <3>2 DEF EndComes, Subject, OnTheWay
    <3> QED
      BY <3>3, <3>4
  <2> QED
    BY <2>3, <2>4
<1>9. ASSUME NEW r \in Resolvers, ResolveSum(r)
      PROVE  DisputeInv'
  <2>1. /\ resolver[r].at = "sum"
        /\ UNCHANGED <<order, delivered, dispute, holder, released, mover>>
    BY <1>9 DEF ResolveSum, holdVars
  <2>2. resolver[r].dispute \in Disputes
    BY <2>1, ResolverShape
  <2>3. CASE \E end \in {"REFUNDED", "COMPLETED"} :
               resolver' = [resolver EXCEPT ![r] = [at |-> "write",
                              dispute |-> resolver[r].dispute, end |-> end]]
    <3>1. AfterSales'
      BY <2>1, <2>2, <2>3 DEF AfterSales, ResolverRecord
    <3>2. /\ resolver'[r].at = "write" /\ resolver'[r].dispute = resolver[r].dispute
          /\ \A x \in Resolvers \ {r} : resolver'[x] = resolver[x]
      BY <2>3 DEF AfterSales
    <3>3. Decided' /\ HoldShape' /\ ReleaseComes' /\ EndComes'
      BY <2>1, <3>2 DEF Decided, HoldShape, ReleaseComes, EndComes, Subject, OnTheWay
    <3> QED
      BY <3>1, <3>3
  <2>4. CASE Finish(r) /\ ~resolver[r].delivered
    <3>1. /\ resolver' \in [Resolvers -> ResolverRecord]
          /\ resolver'[r].at = "idle"
          /\ \A x \in Resolvers \ {r} : resolver'[x] = resolver[x]
      BY <2>4, FinishShape
    <3>2. AfterSales' /\ Decided' /\ HoldShape' /\ ReleaseComes'
      BY <2>1, <3>1 DEF AfterSales, Decided, HoldShape, ReleaseComes
    <3>3. EndComes'
      BY <2>1, <2>4, <3>1 DEF EndComes, Subject, OnTheWay
    <3> QED
      BY <3>2, <3>3
  <2> QED
    BY <1>9, <2>3, <2>4 DEF ResolveSum
<1>10. ASSUME NEW r \in Resolvers, ResolveWrite(r)
       PROVE  DisputeInv'
  <2>1. /\ resolver[r].at = "write" /\ Finish(r)
        /\ order' = [order EXCEPT ![Subject(r)] = resolver[r].end]
        /\ UNCHANGED <<delivered, dispute, holder, released, mover>>
    BY <1>10 DEF ResolveWrite, holdVars
  <2>2. /\ resolver[r].end \in {"REFUNDED", "COMPLETED"}
        /\ resolver' \in [Resolvers -> ResolverRecord]
        /\ resolver'[r].at = "idle"
        /\ \A x \in Resolvers \ {r} : resolver'[x] = resolver[x]
    BY <2>1, FinishShape, ResolverShape
  <2>3. order' \in [Orders -> OrderStatus]
    BY <2>1, <2>2 DEF AfterSales, OrderStatus
  <2>4. AfterSales' /\ Decided' /\ HoldShape' /\ ReleaseComes'
    BY <2>1, <2>2, <2>3 DEF AfterSales, Decided, HoldShape, ReleaseComes
  <2>5. \A o \in Orders : order'[o] = "DISPUTED" => order[o] = "DISPUTED" /\ o # Subject(r)
    BY <2>1, <2>2 DEF AfterSales
  <2>6. EndComes'
    BY <2>1, <2>2, <2>5 DEF EndComes, Subject, OnTheWay, AfterSales
  <2> QED
    BY <2>4, <2>6
<1>11. ASSUME NEW r \in Resolvers, ResolveCrash(r)
       PROVE  DisputeInv'
  <2>1. /\ resolver[r].at \in {"release", "count", "look", "sum", "write"}
        /\ Goto(r, "lost")
        /\ UNCHANGED <<order, delivered, dispute, holder, released, mover>>
    BY <1>11 DEF ResolveCrash, holdVars
  <2>2. /\ resolver' \in [Resolvers -> ResolverRecord]
        /\ resolver'[r].at = "lost" /\ resolver'[r].dispute = resolver[r].dispute
        /\ \A x \in Resolvers \ {r} : resolver'[x] = resolver[x]
    BY <2>1, GotoShape
  <2>3. AfterSales' /\ Decided' /\ HoldShape' /\ ReleaseComes'
    BY <2>1, <2>2 DEF AfterSales, Decided, HoldShape, ReleaseComes
  <2>4. EndComes'
    BY <2>1, <2>2 DEF EndComes, Subject, OnTheWay
  <2> QED
    BY <2>3, <2>4
<1>12. ASSUME NEW q \in Movers, Move(q)
       PROVE  DisputeInv'
  <2>1. CASE \E o \in Orders, role \in Roles, target \in Targets : MoveRead(q, o, role, target)
    BY <2>1 DEF MoveRead, holdVars, AfterSales, Decided, HoldShape, ReleaseComes, EndComes,
                Subject, OnTheWay
  <2>2. CASE MoveCommit(q)
    <3>1. /\ order' = [order EXCEPT ![mover[q].order] = mover[q].target]
          /\ \/ delivered' = delivered \cup {mover[q].order}
             \/ delivered' = delivered \ {mover[q].order}
          /\ mover' = [mover EXCEPT ![q] = Idle]
          /\ UNCHANGED <<dispute, holder, released, resolver>>
          /\ mover[q].order \in Orders /\ mover[q].target \in OrderStatus \ {"DISPUTED"}
      BY <2>2 DEF MoveCommit, DeliverNow, holdVars, AfterSales
    <3>2. AfterSales'
      BY <3>1 DEF AfterSales, Idle
    <3>3. \A o \in Orders : order'[o] = "DISPUTED" =>
            order[o] = "DISPUTED" /\ (o \in delivered' => o \in delivered)
      BY <3>1 DEF AfterSales
    <3>4. Decided' /\ HoldShape' /\ ReleaseComes'
      BY <3>1 DEF Decided, HoldShape, ReleaseComes
    <3>5. EndComes'
      BY <3>1, <3>2, <3>3 DEF EndComes, Subject, OnTheWay, AfterSales
    <3> QED
      BY <3>2, <3>4, <3>5
  <2> QED
    BY <1>12, <2>1, <2>2 DEF Move
<1>13. ASSUME NEW o \in Orders,
              Refund(o) \/ Mature(o) \/ \E status \in Tracked : Track(o, status)
       PROVE  DisputeInv'
  <2>1. /\ \/ UNCHANGED <<order, delivered>>
           \/ order' = [order EXCEPT ![o] = "REFUNDED"] /\ delivered' = delivered
           \/ /\ \E status \in Tracked : order' = [order EXCEPT ![o] = status]
              /\ delivered' = delivered \/ delivered' = delivered \cup {o}
        /\ UNCHANGED <<dispute, holder, released, resolver, mover>>
    <3>1. CASE Refund(o)
      BY <3>1 DEF Refund, RefundAsk, RefundBook, RefundFail
    <3>2. CASE Mature(o)
      BY <3>2 DEF Mature
    <3>3. CASE \E status \in Tracked : Track(o, status)
      BY <3>3 DEF Track, DeliverNow
    <3> QED
      BY <1>13, <3>1, <3>2, <3>3
  <2>2. AfterSales'
    BY <2>1 DEF AfterSales, OrderStatus
  <2>3. \A x \in Orders : order'[x] = "DISPUTED" =>
          order[x] = "DISPUTED" /\ (x \in delivered' => x \in delivered)
    BY <2>1 DEF AfterSales
  <2>4. Decided' /\ HoldShape' /\ ReleaseComes'
    BY <2>1 DEF Decided, HoldShape, ReleaseComes
  <2>5. EndComes'
    BY <2>1, <2>2, <2>3 DEF EndComes, Subject, OnTheWay, AfterSales
  <2> QED
    BY <2>2, <2>4, <2>5
<1>14. CASE DisputeNext
  BY <1>2, <1>3, <1>4, <1>5, <1>6, <1>7, <1>8, <1>9, <1>10, <1>11, <1>12, <1>13, <1>14
  DEF DisputeNext, Resolve, Proceed
<1>15. CASE UNCHANGED disputeVars
  BY <1>1, <1>15 DEF disputeVars, holdVars
<1>16. ASSUME NEW s \in Sweeps, SweepRead(s) \/ SweepWrite(s) \/ SweepLost(s)
       PROVE  DisputeInv'
  BY <1>1, <1>16 DEF SweepRead, SweepWrite, SweepLost, disputeVars, holdVars
<1>17. ASSUME NEW a \in Admins, Administer(a)
       PROVE  UNCHANGED disputeVars
  BY <1>17 DEF Administer, CreateRead, CreateCommit, PayoutRead, PayoutWrite
<1> QED
  BY <1>14, <1>15, <1>16, <1>17 DEF Next, vars

\* A delivered order whose last dispute was decided leaves DISPUTED (dispute.routes.ts), however
\* its disputes are opened and decided, unless the request died.
THEOREM DisputedOrderComesOut == Spec => []DisputeEnds
<1>1. DisputeInv => DisputeEnds
  BY DEF DisputeInv, EndComes, DisputeEnds, OnTheWay, Deciding
<1> QED
  BY <1>1, DisputeInit, DisputeStep, PTL DEF Spec

\* The lines of an order stay held while its dispute is open and are released once it is decided
\* (ledger.ts), unless the request died.
THEOREM HeldUntilDecided == Spec => []HoldFollowsDispute
<1>1. DisputeInv => HoldFollowsDispute
  BY DEF DisputeInv, HoldShape, ReleaseComes, HoldFollowsDispute, Deciding, Subject, Blocking
<1> QED
  BY <1>1, DisputeInit, DisputeStep, PTL DEF Spec
-----------------------------------------------------------------------------
(***************************************************************************)
(* Amounts, and the types of what is left.                                 *)
(***************************************************************************)

\* What the orders have been refunded, the clock, and the requests.
MoneyTypes ==
  /\ asked \in [Orders -> Nat] /\ repaid \in [Orders -> Nat]
  /\ matured \subseteq delivered
  /\ \A q \in Movers : mover[q].at \in {"idle", "write"}
  /\ \A a \in Admins : admin[a].at \in {"idle", "create", "write"}
  /\ sum \in [Payouts -> Nat]
  /\ crashes \in 0 .. MaxCrashes

\* n lies between what the parts of S are still owed and what they were owed at first.
Covers(n, S) == n \in NetSum(S) .. OwedSum(S)

\* So does what a request has added up, from when it read the parts, and the amount of a
\* payout, from when it was made: a refund in between lowers what is owed.
AmountsCover ==
  /\ \A a \in Admins : admin[a].at = "create" => Covers(admin[a].sum, admin[a].parts)
  /\ \A p \in Payouts : Covers(sum[p], content[p])

AmountInv == DisputeInv /\ PayoutInv /\ MoneyTypes /\ AmountsCover

\* What parts are owed are natural numbers, and refunds only take away from them.
LEMMA OwedSums ==
  ASSUME repaid \in [Orders -> Nat], NEW S \in SUBSET Orders
  PROVE  NetSum(S) \in Nat /\ OwedSum(S) \in Nat /\ NetSum(S) <= OwedSum(S)
<1> DEFINE net == [o \in Orders |-> Net(o)]
           owed == [o \in Orders |-> Owed(o)]
<1>1. \A o \in S : net[o] \in Nat /\ owed[o] \in Nat /\ net[o] <= owed[o]
  BY SettlementAssumption DEF Net, Owed
<1>2. IsFiniteSet(S)
  BY SettlementAssumption, FS_Subset
<1> HIDE DEF net, owed
<1>3. /\ SumFunctionOnSet(net, S) \in Nat /\ SumFunctionOnSet(owed, S) \in Nat
      /\ SumFunctionOnSet(net, S) <= SumFunctionOnSet(owed, S)
  BY <1>1, <1>2, SumNat, SumLess
<1> QED
  BY <1>3 DEF NetSum, OwedSum, net, owed

LEMMA NetSumFalls ==
  ASSUME repaid \in [Orders -> Nat], repaid' \in [Orders -> Nat],
         \A o \in Orders : repaid[o] <= repaid'[o], NEW S \in SUBSET Orders
  PROVE  NetSum(S)' <= NetSum(S)
<1> DEFINE before == [o \in Orders |-> Net(o)]
           after == [o \in Orders |-> Net(o)']
<1>1. \A o \in S : before[o] \in Nat /\ after[o] \in Nat /\ after[o] <= before[o]
  BY SettlementAssumption DEF Net, Owed
<1>2. IsFiniteSet(S)
  BY SettlementAssumption, FS_Subset
<1> HIDE DEF before, after
<1>3. SumFunctionOnSet(after, S) <= SumFunctionOnSet(before, S)
  BY <1>1, <1>2, SumLess
<1> QED
  BY <1>3 DEF NetSum, before, after

LEMMA CoversKept ==
  ASSUME repaid \in [Orders -> Nat], repaid' \in [Orders -> Nat],
         \A o \in Orders : repaid[o] <= repaid'[o],
         NEW S \in SUBSET Orders, NEW n, Covers(n, S)
  PROVE  Covers(n, S)'
<1>1. NetSum(S)' <= NetSum(S)
  BY NetSumFalls
<1>2. NetSum(S) \in Nat /\ OwedSum(S) \in Nat
  BY OwedSums
<1>3. NetSum(S)' \in Nat
  BY OwedSums, SettlementAssumption, FS_Subset, SumNat DEF NetSum, Net, Owed
<1>4. OwedSum(S)' = OwedSum(S)
  BY DEF OwedSum, Owed
<1> QED
  BY <1>1, <1>2, <1>3, <1>4 DEF Covers

LEMMA AmountInit == SInit => AmountInv
<1> SUFFICES ASSUME SInit PROVE AmountInv
  OBVIOUS
<1>1. MoneyTypes
  BY DisputesAssumption DEF SInit, Init, MoneyTypes, Idle
<1>2. \A a \in Admins : admin[a].at # "create"
  BY DEF SInit, Idle
<1>3. ASSUME NEW p \in Payouts
      PROVE  Covers(sum[p], content[p])
  <2>1. sum[p] = 0 /\ content[p] = {}
    BY DEF SInit
  <2>2. NetSum({}) = 0 /\ OwedSum({}) = 0
    BY SumEmpty DEF NetSum, OwedSum
  <2> QED
    BY <2>1, <2>2 DEF Covers
<1> QED
  BY <1>1, <1>2, <1>3, DisputeInit, PayoutInit DEF AmountInv, AmountsCover

\* The types, and that nothing takes a refund back.
LEMMA MoneyStep ==
  ASSUME DisputeInv, PayoutInv, MoneyTypes, AmountsCover, [Next]_vars
  PROVE  MoneyTypes' /\ \A o \in Orders : repaid[o] <= repaid'[o]
<1> DEFINE Grown == \A o \in Orders : repaid[o] <= repaid'[o]
<1> USE DisputesAssumption DEF MoneyTypes, Idle, dateVars, moneyVars
<1>1. ASSUME UNCHANGED <<asked, repaid, matured, delivered, mover, admin, sum, crashes>>
      PROVE  MoneyTypes' /\ Grown
  BY <1>1
<1>2. ASSUME NEW r \in Resolvers, Resolve(r), UNCHANGED settlementVars
      PROVE  MoneyTypes' /\ Grown
  <2>1. CASE ResolveCrash(r)
    BY <1>2, <2>1 DEF ResolveCrash, moneyVars, settlementVars, payoutVars
  <2>2. CASE Proceed(r)
    BY <1>1, <1>2, <2>2 DEF Proceed, ResolveDecide, ResolveRelease, ResolveCount, ResolveLook,
      ResolveSum, ResolveWrite, moneyVars, settlementVars, payoutVars
  <2>3. CASE \E d \in Disputes : ResolveRead(r, d)
    BY <1>1, <1>2, <2>3 DEF ResolveRead, moneyVars, settlementVars, payoutVars
  <2> QED
    BY <1>2, <2>1, <2>2, <2>3 DEF Resolve
<1>3. ASSUME NEW d \in Disputes, Open(d) \/ Escalate(d), UNCHANGED settlementVars
      PROVE  MoneyTypes' /\ Grown
  BY <1>1, <1>3 DEF Open, Escalate, moneyVars, settlementVars, payoutVars
<1>4. ASSUME NEW q \in Movers, Move(q), UNCHANGED settlementVars
      PROVE  MoneyTypes' /\ Grown
  <2>1. DOMAIN mover = Movers
    BY DEF DisputeInv, AfterSales
  <2>2. CASE \E o \in Orders, role \in Roles, target \in Targets : MoveRead(q, o, role, target)
    BY <1>4, <2>1, <2>2 DEF MoveRead, moneyVars, settlementVars, payoutVars
  <2>3. CASE MoveCommit(q)
    <3>1. /\ mover' = [mover EXCEPT ![q] = Idle]
          /\ UNCHANGED <<asked, repaid, crashes, admin, sum>>
      BY <1>4, <2>3 DEF MoveCommit, settlementVars, payoutVars
    <3>2. matured' \subseteq delivered'
      BY <2>3 DEF MoveCommit, DeliverNow
    <3> QED
      BY <2>1, <3>1, <3>2
  <2> QED
    BY <1>4, <2>2, <2>3 DEF Move
<1>5. ASSUME NEW o \in Orders, UNCHANGED settlementVars,
             Refund(o) \/ Mature(o) \/ \E status \in Tracked : Track(o, status)
      PROVE  MoneyTypes' /\ Grown
  <2>1. CASE Mature(o) \/ \E status \in Tracked : Track(o, status)
    BY <1>5, <2>1 DEF Mature, Track, DeliverNow, dateVars, moneyVars, settlementVars, payoutVars
  <2>2. CASE \E n \in 1 .. Total[o] : RefundAsk(o, n)
    <3>1. PICK n \in 1 .. Total[o] : RefundAsk(o, n)
      BY <2>2
    <3>2. asked[o] + n \in Nat
      OBVIOUS
    <3>3. asked' = [asked EXCEPT ![o] = @ + n] /\ UNCHANGED <<dateVars, repaid, mover, crashes>>
      BY <3>1 DEF RefundAsk
    <3> QED
      BY <1>5, <3>2, <3>3 DEF dateVars, settlementVars, payoutVars
  <2>3. CASE RefundBook(o) \/ RefundFail(o)
    BY <1>5, <2>3 DEF RefundBook, RefundFail, settlementVars, payoutVars
  <2> QED
    BY <1>5, <2>1, <2>2, <2>3 DEF Refund
<1>6. ASSUME NEW s \in Sweeps, SweepRead(s) \/ SweepWrite(s) \/ SweepLost(s)
      PROVE  MoneyTypes' /\ Grown
  <2>1. CASE SweepRead(s) \/ SweepWrite(s)
    BY <1>1, <2>1 DEF SweepRead, SweepWrite, disputeVars, payoutVars
  <2>2. CASE SweepLost(s)
    BY <2>2 DEF SweepLost, moneyVars, payoutVars
  <2> QED
    BY <1>6, <2>1, <2>2
<1>7. ASSUME NEW a \in Admins, Administer(a)
      PROVE  MoneyTypes' /\ Grown
  <2>1. DOMAIN admin = Admins
    BY DEF PayoutInv, PayoutTypes
  <2>2. UNCHANGED <<asked, repaid, matured, delivered, mover, crashes>>
    BY <1>7 DEF Administer, CreateRead, CreateCommit, PayoutRead, PayoutWrite, disputeVars
  <2>3. \A x \in Admins : admin'[x].at \in {"idle", "create", "write"}
    BY <1>7, <2>1 DEF Administer, CreateRead, CreateCommit, PayoutRead, PayoutWrite
  <2>4. sum' \in [Payouts -> Nat]
    <3>1. CASE \E p \in Payouts : CreateCommit(a, p)
      <4>1. PICK p \in Payouts : CreateCommit(a, p)
        BY <3>1
      <4>2. admin[a].parts \in SUBSET Orders /\ Covers(admin[a].sum, admin[a].parts)
        BY <4>1 DEF CreateCommit, PayoutInv, PayoutTypes, AmountsCover
      <4>3. admin[a].sum \in Nat
        BY <4>2, OwedSums DEF Covers
      <4>4. sum' = sum \/ sum' = [sum EXCEPT ![p] = admin[a].sum]
        BY <4>1 DEF CreateCommit, payoutVars
      <4> QED
        BY <4>3, <4>4
    <3>2. CASE CreateRead(a) \/ PayoutWrite(a) \/
               \E p \in Payouts, target \in DOMAIN Accepts : PayoutRead(a, p, target)
      BY <3>2 DEF CreateRead, PayoutWrite, PayoutRead, payoutVars
    <3> QED
      BY <1>7, <3>1, <3>2 DEF Administer
  <2> QED
    BY <2>2, <2>3, <2>4
<1>8. CASE UNCHANGED vars
  BY <1>1, <1>8 DEF vars, disputeVars, payoutVars
<1> QED
  BY <1>2, <1>3, <1>4, <1>5, <1>6, <1>7, <1>8 DEF Next, DisputeNext

\* A payout whose amount or parts are new has them from the request that made it.
Made(p) ==
  \/ sum'[p] = sum[p] /\ content'[p] = content[p]
  \/ \E a \in Admins : /\ admin[a].at = "create"
                       /\ sum'[p] = admin[a].sum /\ content'[p] = admin[a].parts

\* A request that has added up amounts did so before, or does so now.
AddedUp(a) ==
  admin'[a].at = "create" =>
    \/ admin'[a] = admin[a]
    \/ /\ repaid' = repaid /\ admin'[a].parts \in SUBSET Orders
       /\ Covers(admin'[a].sum, admin'[a].parts)

LEMMA AmountsFollow ==
  ASSUME PayoutInv, AmountsCover, repaid \in [Orders -> Nat], repaid' \in [Orders -> Nat],
         \A o \in Orders : repaid[o] <= repaid'[o],
         \A a \in Admins : AddedUp(a), \A p \in Payouts : Made(p)
  PROVE  AmountsCover'
<1> USE DEF Covers, NetSum, OwedSum, Net, Owed
<1>1. ASSUME NEW n, NEW S \in SUBSET Orders, Covers(n, S)
      PROVE  Covers(n, S)'
  <2> USE <1>1
  <2> HIDE DEF Covers, NetSum, OwedSum, Net, Owed
  <2> QED
    BY CoversKept
<1>2. ASSUME NEW a \in Admins, admin'[a].at = "create"
      PROVE  Covers(admin[a].sum, admin[a].parts)'
  <2>1. PICK n, S : n = admin'[a].sum /\ S = admin'[a].parts
    OBVIOUS
  <2>2. S \in SUBSET Orders /\ Covers(n, S)
    <3>1. CASE admin'[a] = admin[a]
      BY <1>2, <2>1, <3>1 DEF PayoutInv, PayoutTypes, AmountsCover
    <3>2. CASE admin'[a] # admin[a]
      BY <1>2, <2>1, <3>2 DEF AddedUp
    <3> QED
      BY <3>1, <3>2
  <2>3. Covers(n, S)'
    BY <1>1, <2>2
  <2> QED
    BY <2>1, <2>3
<1>3. ASSUME NEW p \in Payouts
      PROVE  Covers(sum[p], content[p])'
  <2>1. PICK n, S : n = sum'[p] /\ S = content'[p]
    OBVIOUS
  <2>2. S \in SUBSET Orders /\ Covers(n, S)
    <3>1. CASE sum'[p] = sum[p] /\ content'[p] = content[p]
      BY <2>1, <3>1 DEF PayoutInv, PayoutTypes, AmountsCover
    <3>2. ASSUME NEW a \in Admins, admin[a].at = "create",
                 sum'[p] = admin[a].sum, content'[p] = admin[a].parts
          PROVE  S \in SUBSET Orders /\ Covers(n, S)
      BY <2>1, <3>2 DEF PayoutInv, PayoutTypes, AmountsCover
    <3> QED
      BY <3>1, <3>2 DEF Made
  <2>3. Covers(n, S)'
    BY <1>1, <2>2
  <2> QED
    BY <2>1, <2>3
<1> HIDE DEF Covers
<1> QED
  BY <1>2, <1>3 DEF AmountsCover

LEMMA AmountStep == AmountInv /\ [Next]_vars => AmountInv'
<1> SUFFICES ASSUME AmountInv, [Next]_vars PROVE AmountInv'
  OBVIOUS
<1> USE DEF AmountInv
<1>1. DisputeInv' /\ PayoutInv'
  BY DisputeStep, PayoutStep
<1>2. MoneyTypes' /\ \A o \in Orders : repaid[o] <= repaid'[o]
  BY MoneyStep
<1>3. repaid \in [Orders -> Nat] /\ repaid' \in [Orders -> Nat]
  BY <1>2 DEF MoneyTypes
<1> DEFINE Follow == (\A a \in Admins : AddedUp(a)) /\ (\A p \in Payouts : Made(p))
<1>4. SUFFICES Follow
  BY <1>1, <1>2, <1>3, AmountsFollow
<1>5. ASSUME UNCHANGED <<payoutVars, admin>>
      PROVE  Follow
  BY <1>5 DEF payoutVars, AddedUp, Made
<1>6. ASSUME NEW a \in Admins, Administer(a)
      PROVE  Follow
  <2>1. DOMAIN admin = Admins
    BY DEF PayoutInv, PayoutTypes
  <2>2. CASE CreateRead(a)
    <3> DEFINE parts == {o \in Orders : Free(o)}
    <3>1. /\ UNCHANGED <<repaid, payoutVars>>
          /\ admin' = [admin EXCEPT
               ![a] = [at |-> "create", parts |-> parts, sum |-> NetSum(parts)]]
      BY <2>2 DEF CreateRead, disputeVars, moneyVars
    <3>2. parts \in SUBSET Orders
      OBVIOUS
    <3> HIDE DEF parts
    <3>3. NetSum(parts) \in Nat /\ OwedSum(parts) \in Nat /\ NetSum(parts) <= OwedSum(parts)
      BY <1>3, <3>2, OwedSums
    <3>4. Covers(NetSum(parts), parts)
      BY <3>3 DEF Covers
    <3>5. admin'[a].parts = parts /\ admin'[a].sum = NetSum(parts)
      BY <2>1, <3>1
    <3>6. AddedUp(a)
      BY <3>1, <3>2, <3>4, <3>5, Zenon DEF AddedUp, Covers, NetSum, OwedSum, Net, Owed
    <3>7. \A x \in Admins \ {a} : admin'[x] = admin[x]
      BY <2>1, <3>1
    <3> QED
      BY <3>1, <3>6, <3>7 DEF AddedUp, Made, payoutVars
  <2>3. ASSUME NEW p \in Payouts, CreateCommit(a, p)
        PROVE  Follow
    <3>1. /\ admin[a].at = "create" /\ admin' = [admin EXCEPT ![a] = Idle]
          /\ \/ UNCHANGED <<sum, content>>
             \/ /\ sum' = [sum EXCEPT ![p] = admin[a].sum]
                /\ content' = [content EXCEPT ![p] = admin[a].parts]
      BY <2>3 DEF CreateCommit, payoutVars
    <3>2. \A x \in Admins : AddedUp(x)
      BY <2>1, <3>1 DEF AddedUp, Idle
    <3>3. \A q \in Payouts : Made(q)
      BY <3>1 DEF Made, MoneyTypes, PayoutInv, PayoutTypes
    <3> QED
      BY <3>2, <3>3
  <2>4. CASE \/ PayoutWrite(a)
             \/ \E p \in Payouts, target \in DOMAIN Accepts : PayoutRead(a, p, target)
    <3>1. UNCHANGED <<sum, content>>
      BY <2>4 DEF PayoutWrite, PayoutRead, payoutVars
    <3>2. \A x \in Admins : admin'[x].at = "create" => admin'[x] = admin[x]
      BY <2>1, <2>4 DEF PayoutWrite, PayoutRead, Idle
    <3> QED
      BY <3>1, <3>2 DEF AddedUp, Made
  <2> QED
    BY <1>6, <2>2, <2>3, <2>4 DEF Administer
<1>7. ASSUME NEW s \in Sweeps, SweepRead(s) \/ SweepWrite(s) \/ SweepLost(s)
      PROVE  UNCHANGED <<payoutVars, admin>>
  BY <1>7 DEF SweepRead, SweepWrite, SweepLost
<1> HIDE DEF Follow
<1> QED
  BY <1>5, <1>6, <1>7 DEF Next, settlementVars, vars

\* Every variable of the settlement and of the disputes under it keeps its type, the amounts
\* of the payouts with them.
THEOREM SettlementTypes == Spec => []TypeOK
<1>1. AmountInv => TypeOK
  <2> SUFFICES ASSUME AmountInv PROVE TypeOK
    OBVIOUS
  <2>1. \A r \in Resolvers :
          /\ resolver[r].at \in {"idle", "decide", "release", "count", "look", "sum", "write",
                                 "lost"}
          /\ resolver[r].at # "idle" => resolver[r].dispute \in Disputes
    BY ResolverShape DEF AmountInv, DisputeInv
  <2>2. DisputeTypeOK
    BY <2>1 DEF AmountInv, DisputeInv, AfterSales, MoneyTypes, DisputeTypeOK
  <2> QED
    BY <2>2 DEF AmountInv, PayoutInv, PayoutTypes, MoneyTypes, TypeOK
<1> QED
  BY <1>1, AmountInit, AmountStep, PTL DEF Spec

\* The amount of a payout is worth its parts (createPayout): at least what they are still
\* owed, at most what they were owed before any refund, although the sum is read before the
\* transaction that attaches them, and refunds and other creations go on in between.
THEOREM AmountsCoverParts == Spec => []AmountCoversParts
<1>1. ASSUME AmountInv, NEW p \in Payouts \ strayed, payout[p] \notin {"none", "CANCELLED"}
      PROVE  sum[p] \in NetSum(PartsOf(p)) .. OwedSum(PartsOf(p))
  <2>1. PartsOf(p) = content[p]
    BY <1>1 DEF AmountInv, PayoutInv, PartsFollowPayout
  <2>2. Covers(sum[p], content[p])
    BY <1>1 DEF AmountInv, AmountsCover
  <2> QED
    BY <2>1, <2>2 DEF Covers
<1>2. AmountInv => AmountCoversParts
  BY <1>1 DEF AmountCoversParts
<1> QED
  BY <1>2, AmountInit, AmountStep, PTL DEF Spec
=============================================================================
