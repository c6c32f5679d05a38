----------------------------- MODULE Settlement -----------------------------
(***************************************************************************)
(* settlement.service.ts: what a shop is owed for each order, when it may  *)
(* be paid, and the payouts administrators make of it.  The environment is *)
(* Disputes: deliveries, disputes and refunds go on meanwhile.             *)
(*                                                                         *)
(* The eligibility sweep works from what it read; its writes are           *)
(* conditional on the part's status.  Of the operations on a payout only   *)
(* the attachment of its parts is conditional: process, hold, release and  *)
(* cancel check the status they have read and write by id.                 *)
(***************************************************************************)
EXTENDS Disputes, FiniteSets, Functions

CONSTANTS
  Gross,       \* Gross[o]: goods and shipping of the order
  Fee,         \* Fee[o]: the commission taken from it
  Sweeps,      \* runs of refreshEligibility that may be under way together
  Payouts,     \* payouts that may be created, all of one shop and currency
  Admins       \* administrators' requests under way

ASSUME SettlementAssumption ==
  /\ IsFiniteSet(Orders)
  /\ Gross \in [Orders -> Nat] /\ Fee \in [Orders -> Nat]
  /\ "none" \notin Payouts

VARIABLES
  part,        \* part[o]: status of the order's settlement part
  payoutOf,    \* payoutOf[o]: the payout the part is attached to, or "none"
  sweep,       \* sweep[s]: what the run has still to do, a set of parts and their verdicts
  payout,      \* payout[p]: its status, "none" before it exists
  sum,         \* sum[p]: its amount
  content,     \* history: the parts whose money makes its amount
  admin,       \* admin[a]: what a request has read and is about to write
  paid,        \* history: payouts that were ever PAID
  strayed      \* history: payouts written to after they were cancelled, or after their
               \* status had changed since the request read it

partVars   == <<part, payoutOf>>
payoutVars == <<payout, sum, content>>
historyVars == <<paid, strayed>>
vars == <<disputeVars, partVars, sweep, payoutVars, admin, historyVars>>

\* netOf, never negative.
Owed(o)   == IF Gross[o] > Fee[o] THEN Gross[o] - Fee[o] ELSE 0
Net(o)    == IF Owed(o) > repaid[o] THEN Owed(o) - repaid[o] ELSE 0
NetSum(S) == SumFunctionOnSet([o \in Orders |-> Net(o)], S)
OwedSum(S) == SumFunctionOnSet([o \in Orders |-> Owed(o)], S)
PartsOf(p) == {o \in Orders : payoutOf[o] = p}

SInit ==
  /\ Init
  /\ part = [o \in Orders |-> "PENDING"]
  /\ payoutOf = [o \in Orders |-> "none"]
  /\ sweep = [s \in Sweeps |-> {}]
  /\ payout = [p \in Payouts |-> "none"]
  /\ sum = [p \in Payouts |-> 0]
  /\ content = [p \in Payouts |-> {}]
  /\ admin = [a \in Admins |-> Idle]
  /\ paid = {} /\ strayed = {}

-----------------------------------------------------------------------------
(***************************************************************************)
(* refreshEligibility.                                                     *)
(***************************************************************************)
Promotable(o) ==
  /\ order[o] \in {"DELIVERED", "COMPLETED"} /\ o \in matured /\ BlockedBy(o) = {}

\* What the run will write: nothing is owed any more, or the three conditions hold.
Verdicts ==
  {<<o, "CANCELLED">> : o \in {x \in Orders : part[x] = "PENDING" /\ Net(x) = 0}} \cup
  {<<o, "ELIGIBLE">> : o \in {x \in Orders : part[x] = "PENDING" /\ Net(x) > 0 /\ Promotable(x)}}

SweepRead(s) ==
  /\ sweep[s] = {} /\ Verdicts # {}
  /\ sweep' = [sweep EXCEPT ![s] = Verdicts]
  /\ UNCHANGED <<disputeVars, partVars, payoutVars, admin, historyVars>>

\* Mutant: written by id, whatever the part has become.
SweepWriteById(s) ==
  \E v \in sweep[s] :
    /\ part' = [part EXCEPT ![v[1]] = v[2]]
    /\ sweep' = [sweep EXCEPT ![s] = @ \ {v}]
    /\ UNCHANGED <<disputeVars, payoutOf, payoutVars, admin, historyVars>>

\* Conditional on PENDING.
SweepWrite(s) ==
  \E v \in sweep[s] :
    /\ part' = IF part[v[1]] = "PENDING" THEN [part EXCEPT ![v[1]] = v[2]] ELSE part
    /\ sweep' = [sweep EXCEPT ![s] = @ \ {v}]
    /\ UNCHANGED <<disputeVars, payoutOf, payoutVars, admin, historyVars>>

\* The run dies; the parts it left are found again by the next one.
SweepLost(s) ==
  /\ sweep[s] # {} /\ crashes < MaxCrashes
  /\ crashes' = crashes + 1
  /\ sweep' = [sweep EXCEPT ![s] = {}]
  /\ UNCHANGED <<order, dateVars, moneyVars, dispute, holdVars, resolver, mover, partVars,
                 payoutVars, admin, historyVars>>

-----------------------------------------------------------------------------
(***************************************************************************)
(* Payouts.                                                                *)
(***************************************************************************)
Free(o) == part[o] = "ELIGIBLE" /\ payoutOf[o] = "none"

\* The parts and their sum are read before the transaction.
CreateRead(a) ==
  LET parts == {o \in Orders : Free(o)} IN
  /\ admin[a] = Idle
  /\ NetSum(parts) > 0
  /\ admin' = [admin EXCEPT ![a] = [at |-> "create", parts |-> parts, sum |-> NetSum(parts)]]
  /\ UNCHANGED <<disputeVars, partVars, sweep, payoutVars, historyVars>>

\* Mutant: the parts attached are not counted.
CreateUncounted(a, p) ==
  LET parts == admin[a].parts IN
  /\ admin[a].at = "create" /\ payout[p] = "none"
  /\ LET got == {o \in parts : Free(o)} IN
     /\ part' = [o \in Orders |-> IF o \in got THEN "SETTLED" ELSE part[o]]
     /\ payoutOf' = [o \in Orders |-> IF o \in got THEN p ELSE payoutOf[o]]
     /\ payout' = [payout EXCEPT ![p] = "ELIGIBLE"]
     /\ sum' = [sum EXCEPT ![p] = admin[a].sum]
     /\ content' = [content EXCEPT ![p] = parts]
  /\ admin' = [admin EXCEPT ![a] = Idle]
  /\ UNCHANGED <<disputeVars, sweep, historyVars>>

\* All the parts that were read must still be free, or the transaction leaves nothing.
CreateCommit(a, p) ==
  LET parts == admin[a].parts IN
  /\ admin[a].at = "create" /\ payout[p] = "none"
  /\ IF \A o \in parts : Free(o)
     THEN /\ part' = [o \in Orders |-> IF o \in parts THEN "SETTLED" ELSE part[o]]
          /\ payoutOf' = [o \in Orders |-> IF o \in parts THEN p ELSE payoutOf[o]]
          /\ payout' = [payout EXCEPT ![p] = "ELIGIBLE"]
          /\ sum' = [sum EXCEPT ![p] = admin[a].sum]
          /\ content' = [content EXCEPT ![p] = parts]
     ELSE UNCHANGED <<partVars, payoutVars>>
  /\ admin' = [admin EXCEPT ![a] = Idle]
  /\ UNCHANGED <<disputeVars, sweep, historyVars>>

\* Mutant: a payout that was paid may be cancelled.
AcceptsPaid ==
  [PAID      |-> {"ELIGIBLE"},
   ON_HOLD   |-> {"ELIGIBLE", "ON_HOLD", "CANCELLED"},
   ELIGIBLE  |-> {"ON_HOLD"},
   CANCELLED |-> {"ELIGIBLE", "ON_HOLD", "CANCELLED", "PAID"}]

\* The statuses from which each operation accepts to write its own.  PROCESSING and FAILED
\* are accepted by processPayout too, and nothing writes them.
Accepts ==
  [PAID      |-> {"ELIGIBLE"},
   ON_HOLD   |-> {"ELIGIBLE", "ON_HOLD", "CANCELLED"},
   ELIGIBLE  |-> {"ON_HOLD"},
   CANCELLED |-> {"ELIGIBLE", "ON_HOLD", "CANCELLED"}]

\* The two histories.
Stray(a) ==
  LET p == admin[a].payout IN
  /\ paid' = IF admin[a].target = "PAID" THEN paid \cup {p} ELSE paid
  /\ strayed' = IF payout[p] = admin[a].seen /\ payout[p] # "CANCELLED" THEN strayed
                ELSE strayed \cup {p}

PayoutRead(a, p, target) ==
  /\ admin[a] = Idle
  /\ payout[p] \in Accepts[target]
  /\ admin' = [admin EXCEPT
       ![a] = [at |-> "write", payout |-> p, target |-> target, seen |-> payout[p]]]
  /\ UNCHANGED <<disputeVars, partVars, sweep, payoutVars, historyVars>>

\* By id.  A cancellation gives the attached parts back in the same transaction.
PayoutWrite(a) ==
  LET p == admin[a].payout
      freed == IF admin[a].target = "CANCELLED" THEN PartsOf(p) ELSE {} IN
  /\ admin[a].at = "write"
  /\ payout' = [payout EXCEPT ![p] = admin[a].target]
  /\ part' = [o \in Orders |-> IF o \in freed THEN "ELIGIBLE" ELSE part[o]]
  /\ payoutOf' = [o \in Orders |-> IF o \in freed THEN "none" ELSE payoutOf[o]]
  /\ Stray(a)
  /\ admin' = [admin EXCEPT ![a] = Idle]
  /\ UNCHANGED <<disputeVars, sweep, sum, content>>

Administer(a) ==
  \/ CreateRead(a) \/ \E p \in Payouts : CreateCommit(a, p)
  \/ \E p \in Payouts, target \in DOMAIN Accepts : PayoutRead(a, p, target)
  \/ PayoutWrite(a)

settlementVars == <<partVars, sweep, payoutVars, admin, historyVars>>

Next ==
  \/ DisputeNext /\ UNCHANGED settlementVars
  \/ \E s \in Sweeps : SweepRead(s) \/ SweepWrite(s) \/ SweepLost(s)
  \/ \E a \in Admins : Administer(a)

\* The settlements job is scheduled by cron for ever, and a request the server has begun is
\* worked through.  Nobody has to open or decide a dispute, or to make a payout.
Spec == /\ SInit /\ [][Next]_vars
        /\ \A s \in Sweeps : WF_vars(SweepRead(s) \/ SweepWrite(s))
        /\ WF_vars(UNCHANGED settlementVars /\ \E r \in Resolvers : Proceed(r))
-----------------------------------------------------------------------------
(***************************************************************************)
(* Properties.                                                             *)
(***************************************************************************)

\* Every variable keeps its type.
TypeOK ==
  /\ DisputeTypeOK
  /\ part \in [Orders -> {"PENDING", "ELIGIBLE", "SETTLED", "CANCELLED"}]
  /\ payoutOf \in [Orders -> Payouts \cup {"none"}]
  /\ sweep \in [Sweeps -> SUBSET (Orders \X {"ELIGIBLE", "CANCELLED"})]
  /\ payout \in [Payouts -> {"none", "ELIGIBLE", "ON_HOLD", "PAID", "CANCELLED"}]
  /\ sum \in [Payouts -> Nat]
  /\ content \in [Payouts -> SUBSET Orders]
  /\ \A a \in Admins : admin[a].at \in {"idle", "create", "write"}
  /\ paid \subseteq Payouts /\ strayed \subseteq Payouts

\* No seller is paid twice for an order: two payouts that were paid share no part, unless one
\* of them was written to after it was cancelled (holdPayout accepts a cancelled payout, and
\* releasePayout then makes it payable again) or after its status had changed since the
\* request read it.
PaidOnce ==
  \A p, q \in paid \ strayed :
    p # q => content[p] \cap content[q] = {}

\* A part is SETTLED exactly while a payout has it, and a payout has the parts its amount was
\* made of until it is cancelled, whatever sweeps, creations and cancellations cross.
PartsFollowPayout ==
  /\ \A o \in Orders : payoutOf[o] # "none" <=> part[o] = "SETTLED"
  /\ \A p \in Payouts \ strayed :
       PartsOf(p) = IF payout[p] \in {"none", "CANCELLED"} THEN {} ELSE content[p]

\* The amount of a payout lies between what its parts are still owed and what they were owed
\* before any refund: a creation that crosses another counts no part that is not its own.
AmountCoversParts ==
  \A p \in Payouts \ strayed :
    payout[p] \notin {"none", "CANCELLED"} =>
      sum[p] \in NetSum(PartsOf(p)) .. OwedSum(PartsOf(p))

\* What dispute.routes.ts says when a dispute is opened: the order's money must not leave any
\* more until it is decided.
NothingPaidUnderDispute ==
  [][\A p \in Payouts : payout[p] # "PAID" /\ payout'[p] = "PAID" =>
       \A o \in PartsOf(p) : BlockedBy(o) = {}]_vars

\* The seller of a delivered order is settled: if in the end the protection period is over, no
\* dispute is left and the order does not go back on its way, its part does not stay PENDING,
\* although the order may have to come back from DISPUTED first.  Excluded are an order that
\* was refunded or cancelled, one the parcel's tracking took back to SHIPPED or IN_TRANSIT for
\* good, and one whose last dispute was decided by a request that died (sent again it is
\* refused, and the order stays DISPUTED).
SellerIsSettled ==
  \A o \in Orders :
    <>[](/\ o \in matured /\ BlockedBy(o) = {}
         /\ order[o] \in {"DELIVERED", "COMPLETED", "DISPUTED"}
         /\ \A r \in Deciding(o) : resolver[r].at # "lost")
      => <>(part[o] # "PENDING")
=============================================================================
