---------------------------- MODULE PaymentEvents ----------------------------
(***************************************************************************)
(* payment.service.ts at the grain of its statements, for the payments of  *)
(* one order group: create, the provider's webhooks and applySuccess with  *)
(* the ledger, the settlement and the commission it books.                 *)
(*                                                                         *)
(* The provider delivers an event several times; a delivery is one HTTP    *)
(* request and may die at any statement.  Recording the event and applying *)
(* it are two separate commits.  Inside applySuccess the payment row is    *)
(* locked by its update, and the ledger's unique index makes a second      *)
(* insert of the same sale wait for the first transaction, then do nothing.*)
(***************************************************************************)
EXTENDS Integers, Sequences, FiniteSets

CONSTANTS
  Payments,    \* calls of create: each makes at most one payment row
  KeyOf,       \* KeyOf[a]: the idempotency key the buyer's client sent, or NoKey
  NoKey,
  Orders,      \* the sub-orders of the group, in the order applySuccess loads them
  Events,      \* provider events
  About,       \* About[e]: the payment event e is about
  Verdict,     \* Verdict[e]: the status event e brings
  Deliveries,  \* requests that bring an event: webhooks and confirmations
  EventOf,     \* EventOf[d]: the event request d carries
  Polls,       \* the requests that are not webhooks but the buyer's confirm: the answer to
               \* each is an event of its own
  MaxCrashes   \* bound: requests that die before their end

ASSUME EventsAssumption ==
  /\ DOMAIN KeyOf = Payments
  /\ Len(Orders) \in Nat
  /\ About \in [Events -> Payments]
  /\ Verdict \in [Events -> {"SUCCEEDED", "FAILED", "PENDING"}]
  /\ EventOf \in [Deliveries -> Events]
  /\ Polls \subseteq Deliveries
  /\ \A d \in Polls, x \in Deliveries : EventOf[x] = EventOf[d] => x = d
  /\ MaxCrashes \in Nat

Lines == 1 .. Len(Orders)

VARIABLES
  payment,    \* payment[a]: the status of its row; "none" and "creating" before it has one,
              \* "reused" or "refused" when it gets none
  paid,       \* orders (by position) that left PENDING
  seen,       \* events recorded in touma_payment_events
  applied,    \* history: how many times applySuccess ran to its commit, for each event
  sale,       \* orders with a committed sale in the ledger, and so a settlement part
  commission, \* commission[i]: committed commission rows of order i
  delivery,   \* delivery[d]: how far request d got, or its outcome
  line,       \* line[d]: the order request d is booking
  written,    \* written[d]: sales and commissions d's open transaction has inserted
  crashes     \* requests that died, bounded by MaxCrashes

rowVars  == <<payment, paid>>
bookVars == <<sale, commission>>
txVars   == <<line, written>>
vars == <<rowVars, seen, applied, bookVars, delivery, txVars, crashes>>

Nothing == [sales |-> {}, commissions |-> {}]
Exists(a) == payment[a] \in {"PENDING", "FAILED", "SUCCEEDED"}

Init ==
  /\ payment = [a \in Payments |-> "none"]
  /\ paid = {}
  /\ seen = {}
  /\ applied = [e \in Events |-> 0]
  /\ sale = {}
  /\ commission = [i \in Lines |-> 0]
  /\ delivery = [d \in Deliveries |-> "idle"]
  /\ line = [d \in Deliveries |-> 1]
  /\ written = [d \in Deliveries |-> Nothing]
  /\ crashes = 0

-----------------------------------------------------------------------------
(***************************************************************************)
(* paymentService.create: checks, the provider's answer, the row.          *)
(***************************************************************************)

\* The orders await payment; a payment of this key or one in flight is given back.
CreateCheck(a) ==
  /\ payment[a] = "none"
  /\ paid = {}
  /\ payment' = [payment EXCEPT ![a] =
       IF \E b \in Payments : \/ payment[b] = "PENDING"
                              \/ Exists(b) /\ KeyOf[a] # NoKey /\ KeyOf[b] = KeyOf[a]
       THEN "reused" ELSE "creating"]
  /\ UNCHANGED <<paid, seen, applied, bookVars, delivery, txVars, crashes>>

\* idempotencyKey is unique: the row of a key that another call has used is refused.
CreateWrite(a) ==
  /\ payment[a] = "creating"
  /\ payment' = [payment EXCEPT ![a] =
       IF KeyOf[a] # NoKey /\ \E b \in Payments : Exists(b) /\ KeyOf[b] = KeyOf[a]
       THEN "refused" ELSE "PENDING"]
  /\ UNCHANGED <<paid, seen, applied, bookVars, delivery, txVars, crashes>>

-----------------------------------------------------------------------------
(***************************************************************************)
(* handleWebhook.                                                          *)
(***************************************************************************)
PaymentOf(d) == About[EventOf[d]]

\* Transactions of applySuccess that hold the payment row of a.
Holders(a) == {d \in Deliveries : delivery[d] \in {"sale", "commission"} /\ PaymentOf(d) = a}

To(d, step) == delivery' = [delivery EXCEPT ![d] = step]

\* The payment must exist and the event must be unknown; the reference reaches the
\* database only when create has written its row.
Receive(d) ==
  /\ delivery[d] = "idle" /\ d \notin Polls
  /\ payment[PaymentOf(d)] \notin {"none", "reused"}
  /\ To(d, IF ~Exists(PaymentOf(d)) THEN "unknown"
           ELSE IF EventOf[d] \in seen THEN "duplicate" ELSE "checked")
  /\ UNCHANGED <<rowVars, seen, applied, bookVars, txVars, crashes>>

\* confirm asks the provider itself about a payment it read as pending; the event it
\* records has no externalId, so nothing can refuse it.
ReceivePoll(d) ==
  /\ delivery[d] = "idle" /\ d \in Polls
  /\ Exists(PaymentOf(d))
  /\ To(d, IF payment[PaymentOf(d)] = "PENDING" THEN "recorded" ELSE "unknown")
  /\ UNCHANGED <<rowVars, seen, applied, bookVars, txVars, crashes>>

\* Mutant: the event is looked up, never inserted under its unique externalId.
RecordTwice(d) ==
  /\ delivery[d] = "checked"
  /\ seen' = seen \cup {EventOf[d]}
  /\ To(d, "recorded")
  /\ UNCHANGED <<rowVars, applied, bookVars, txVars, crashes>>

\* externalId is unique: of two requests past the check, one insert fails.
Record(d) ==
  /\ delivery[d] = "checked"
  /\ IF EventOf[d] \in seen
     THEN To(d, "error") /\ UNCHANGED seen
     ELSE To(d, "recorded") /\ seen' = seen \cup {EventOf[d]}
  /\ UNCHANGED <<rowVars, applied, bookVars, txVars, crashes>>

\* A verdict other than SUCCEEDED is written whatever the row says, after its lock.
WriteVerdict(d) ==
  LET a == PaymentOf(d) IN
  /\ delivery[d] = "recorded"
  /\ Verdict[EventOf[d]] # "SUCCEEDED"
  /\ Holders(a) = {}
  /\ payment' = [payment EXCEPT ![a] = Verdict[EventOf[d]]]
  /\ To(d, "accepted")
  /\ UNCHANGED <<paid, seen, applied, bookVars, txVars, crashes>>

-----------------------------------------------------------------------------
(***************************************************************************)
(* applySuccess, statement by statement.                                   *)
(***************************************************************************)

\* The payment is read: nothing more to do when it says SUCCEEDED.
ApplyRead(d) ==
  /\ delivery[d] = "recorded"
  /\ Verdict[EventOf[d]] = "SUCCEEDED"
  /\ To(d, IF payment[PaymentOf(d)] = "SUCCEEDED" THEN "accepted" ELSE "applying")
  /\ UNCHANGED <<rowVars, seen, applied, bookVars, txVars, crashes>>

\* Mutant: the payment row is updated outside the transaction that books the sale.
ApplyLockCommitted(d) ==
  /\ delivery[d] = "applying"
  /\ Holders(PaymentOf(d)) = {}
  /\ payment' = [payment EXCEPT ![PaymentOf(d)] = "SUCCEEDED"]
  /\ To(d, "sale")
  /\ UNCHANGED <<paid, seen, applied, bookVars, txVars, crashes>>

\* Its update locks the payment row, until the commit that shows SUCCEEDED.
ApplyLock(d) ==
  /\ delivery[d] = "applying"
  /\ Holders(PaymentOf(d)) = {}
  /\ To(d, "sale")
  /\ UNCHANGED <<rowVars, seen, applied, bookVars, txVars, crashes>>

\* Mutant: the commission is counted and inserted before the sale is booked.
ApplyCommissionFirst(d) ==
  LET i == line[d] IN
  /\ delivery[d] = "sale" /\ i \in Lines
  /\ written' = [written EXCEPT
       ![d].sales = IF i \in sale THEN @ ELSE @ \cup {i},
       ![d].commissions = IF commission[i] = 0 THEN @ \cup {i} ELSE @]
  /\ line' = [line EXCEPT ![d] = @ + 1]
  /\ UNCHANGED <<rowVars, seen, applied, bookVars, delivery, crashes>>

\* recordSale and allocateForPayment: insert unless it exists.  An insert that another
\* open transaction made is waited for.
ApplySale(d) ==
  LET i == line[d] IN
  /\ delivery[d] = "sale" /\ i \in Lines
  /\ \A x \in Deliveries \ {d} : i \notin written[x].sales
  /\ written' = IF i \in sale THEN written ELSE [written EXCEPT ![d].sales = @ \cup {i}]
  /\ To(d, "commission")
  /\ UNCHANGED <<rowVars, seen, applied, bookVars, line, crashes>>

\* The commission has no unique index: it is counted, then inserted when there is none.
ApplyCommission(d) ==
  LET i == line[d] IN
  /\ delivery[d] = "commission"
  /\ written' = IF commission[i] = 0 THEN [written EXCEPT ![d].commissions = @ \cup {i}]
                ELSE written
  /\ line' = [line EXCEPT ![d] = i + 1]
  /\ To(d, "sale")
  /\ UNCHANGED <<rowVars, seen, applied, bookVars, crashes>>

ApplyCommit(d) ==
  LET e == EventOf[d] IN
  /\ delivery[d] = "sale" /\ line[d] > Len(Orders)
  /\ payment' = [payment EXCEPT ![PaymentOf(d)] = "SUCCEEDED"]
  /\ paid' = Lines
  /\ applied' = [applied EXCEPT ![e] = @ + 1]
  /\ sale' = sale \cup written[d].sales
  /\ commission' = [i \in Lines |->
       IF i \in written[d].commissions THEN commission[i] + 1 ELSE commission[i]]
  /\ written' = [written EXCEPT ![d] = Nothing]
  /\ To(d, "accepted")
  /\ UNCHANGED <<seen, line, crashes>>

\* The request dies: its open transaction leaves nothing, what it had committed stays.
Crash(d) ==
  /\ delivery[d] \in {"checked", "recorded", "applying", "sale", "commission"}
  /\ crashes < MaxCrashes
  /\ crashes' = crashes + 1
  /\ written' = [written EXCEPT ![d] = Nothing]
  /\ To(d, "lost")
  /\ UNCHANGED <<rowVars, seen, applied, bookVars, line>>

Handle(d) ==
  \/ Receive(d) \/ ReceivePoll(d) \/ Record(d) \/ WriteVerdict(d)
  \/ ApplyRead(d) \/ ApplyLock(d) \/ ApplySale(d) \/ ApplyCommission(d) \/ ApplyCommit(d)

Next ==
  \/ \E a \in Payments : CreateCheck(a) \/ CreateWrite(a)
  \/ \E d \in Deliveries : Handle(d) \/ Crash(d)

Spec == Init /\ [][Next]_vars
-----------------------------------------------------------------------------
(***************************************************************************)
(* Properties.                                                             *)
(***************************************************************************)

\* Every variable keeps its type.
TypeOK ==
  /\ payment \in [Payments -> {"none", "creating", "reused", "refused", "PENDING", "FAILED", "SUCCEEDED"}]
  /\ paid \subseteq Lines
  /\ seen \subseteq Events
  /\ applied \in [Events -> Nat]
  /\ sale \subseteq Lines
  /\ commission \in [Lines -> Nat]
  /\ delivery \in [Deliveries -> {"idle", "unknown", "duplicate", "checked", "error", "recorded",
                                  "applying", "sale", "commission", "accepted", "lost"}]
  /\ line \in [Deliveries -> 1 .. Len(Orders) + 1]
  /\ written \in [Deliveries -> [sales : SUBSET Lines, commissions : SUBSET Lines]]
  /\ crashes \in 0 .. MaxCrashes

\* One commission per order, although nothing but the order of the statements keeps two
\* transactions from both counting none: two payments of the group, two verdicts of one
\* payment, a crash in between.
CommissionOnce == \A i \in Lines : commission[i] <= 1

\* A payment that says SUCCEEDED is booked in full: every order it covers is paid, has its
\* sale in the ledger, its settlement part and its commission (LEDGER_SALE_WITHOUT_COMMISSION
\* of integrity.service.ts), whatever died on the way.
SucceededIsBooked ==
  (\E a \in Payments : payment[a] = "SUCCEEDED") =>
    /\ paid = Lines /\ sale = Lines
    /\ \A i \in Lines : commission[i] = 1

\* A replayed webhook is never applied twice, the requests in flight together included.
EventAppliedOnce == \A e \in Events : applied[e] <= 1
=============================================================================
