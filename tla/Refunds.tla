------------------------------- MODULE Refunds -------------------------------
(***************************************************************************)
(* refund.service.ts, statement by statement, for the orders of one        *)
(* payment: execute refunds one order, executeForPayment spreads an amount *)
(* over the orders one after the other.  Calls run at the same time.       *)
(*                                                                         *)
(* A refund row is written before the provider is asked, then the total is *)
(* looked at again, so that two calls see each other; the books (payment,  *)
(* commission, settlement part, ledger) follow in one transaction, after   *)
(* the provider's answer.  The update of the payment row makes two of      *)
(* those transactions run one after the other.                             *)
(***************************************************************************)
EXTENDS Integers, FiniteSets, Functions

CONSTANTS
  Orders,      \* the paid orders of the payment
  Total,       \* Total[o]: the order's total
  Charged,     \* Charged[o]: the commission recorded when it was paid
  Singles,     \* calls of execute
  OrderOf,     \* OrderOf[s]: the order call s is about
  Asked,       \* Asked[s]: the amount it asks for, or 0 for all that is left
  Batches,     \* calls of executeForPayment
  Spread,      \* Spread[b]: the amount b asks for, or 0 for all that is left
  MaxRefusals, \* bound: calls the provider refuses
  MaxCrashes   \* bound: calls that die before their end

\* Each batch makes at most one call of execute for each order.
Calls == Singles \cup (Batches \X Orders)

ASSUME RefundsAssumption ==
  /\ IsFiniteSet(Orders) /\ IsFiniteSet(Calls)
  /\ Singles \cap (Batches \X Orders) = {}
  /\ Total \in [Orders -> Nat \ {0}]
  /\ Charged \in [Orders -> Nat] /\ \A o \in Orders : Charged[o] <= Total[o]
  /\ OrderOf \in [Singles -> Orders] /\ Asked \in [Singles -> Nat]
  /\ Spread \in [Batches -> Nat]
  /\ MaxRefusals \in Nat /\ MaxCrashes \in Nat

VARIABLES
  step,        \* step[c]: how far call c of execute got
  amount,      \* amount[c]: what it asks for, then what it decided to refund
  seen,        \* seen[c]: payment.refundedAmount when c read the payment
  full,        \* full[c]: orderFullyRefunded as c decided it
  row,         \* row[c]: status of its refund row, or "none"
  out,         \* calls for which the provider has given the money back
  refunded,    \* payment.refundedAmount; the payment's status follows from it
  booked,      \* booked[o]: refundedAmount of its settlement part, and its ledger debits
  commission,  \* commission[o]: sum of its commission rows, reversals included
  marked,      \* orders with status REFUNDED
  todo,        \* todo[b]: orders batch b has not come to
  rest,        \* rest[b]: what b has still to spread
  refusals, crashes

callVars  == <<step, amount, seen, full, row>>
bookVars  == <<refunded, booked, commission, marked>>
batchVars == <<todo, rest>>
boundVars == <<refusals, crashes>>
vars == <<callVars, out, bookVars, batchVars, boundVars>>

Target(c) == IF c \in Singles THEN OrderOf[c] ELSE c[2]
PaidAmount == SumFunctionOnSet(Total, Orders)

\* refundedTotal counts the refunds under way with those completed.
RowsOf(o, statuses) == {c \in Calls : Target(c) = o /\ row[c] \in statuses}
SumOf(o, statuses)  == SumFunctionOnSet(amount, RowsOf(o, statuses))
RefundedTotal(o)    == SumOf(o, {"PROCESSING", "COMPLETED"})
Refundable(o)       == IF Total[o] > RefundedTotal(o) THEN Total[o] - RefundedTotal(o) ELSE 0

Init ==
  /\ step = [c \in Calls |-> IF c \in Singles THEN "called" ELSE "idle"]
  /\ amount = [c \in Calls |-> IF c \in Singles THEN Asked[c] ELSE 0]
  /\ seen = [c \in Calls |-> 0]
  /\ full = [c \in Calls |-> FALSE]
  /\ row = [c \in Calls |-> "none"]
  /\ out = {}
  /\ refunded = 0
  /\ booked = [o \in Orders |-> 0]
  /\ commission = Charged
  /\ marked = {}
  /\ todo = [b \in Batches |-> Orders]
  /\ rest = Spread
  /\ refusals = 0 /\ crashes = 0

Goto(c, s) == step' = [step EXCEPT ![c] = s]

-----------------------------------------------------------------------------
(***************************************************************************)
(* refundService.execute.                                                  *)
(***************************************************************************)

\* settledPaymentFor: a payment given back in full is not found.
ReadPayment(c) ==
  /\ step[c] = "called"
  /\ seen' = [seen EXCEPT ![c] = refunded]
  /\ Goto(c, IF refunded < PaidAmount THEN "read" ELSE "refused")
  /\ UNCHANGED <<amount, full, row, out, bookVars, batchVars, boundVars>>

\* The amount, under its two ceilings: what is left of the order, what is left of the payment.
Check(c) ==
  LET left == Refundable(Target(c))
      sum  == IF amount[c] = 0 THEN left ELSE amount[c] IN
  /\ step[c] = "read"
  /\ amount' = [amount EXCEPT ![c] = sum]
  /\ Goto(c, IF sum > 0 /\ sum <= left /\ seen[c] + sum <= PaidAmount THEN "checked" ELSE "refused")
  /\ UNCHANGED <<seen, full, row, out, bookVars, batchVars, boundVars>>

\* The trace of the request, before the provider hears of it.
Insert(c) ==
  /\ step[c] = "checked"
  /\ row' = [row EXCEPT ![c] = "PROCESSING"]
  /\ Goto(c, "inserted")
  /\ UNCHANGED <<amount, seen, full, out, bookVars, batchVars, boundVars>>

\* Mutant: the total is not looked at again.
NoSecondLook(c) ==
  /\ step[c] = "inserted"
  /\ Goto(c, "asking")
  /\ UNCHANGED <<amount, seen, full, row, out, bookVars, batchVars, boundVars>>

\* With its row visible to the others, the call looks at the total again.
Verify(c) ==
  /\ step[c] = "inserted"
  /\ Goto(c, IF RefundedTotal(Target(c)) > Total[Target(c)] THEN "failing" ELSE "asking")
  /\ UNCHANGED <<amount, seen, full, row, out, bookVars, batchVars, boundVars>>

\* Mutant: the provider gave the money back, and the call takes the answer for a refusal.
RefuseAfterRepaying(c) ==
  /\ step[c] = "asking"
  /\ refusals < MaxRefusals
  /\ refusals' = refusals + 1
  /\ out' = out \cup {c}
  /\ Goto(c, "failing")
  /\ UNCHANGED <<amount, seen, full, row, bookVars, batchVars, crashes>>

\* refundPayment throws.
Refuse(c) ==
  /\ step[c] = "asking"
  /\ refusals < MaxRefusals
  /\ refusals' = refusals + 1
  /\ Goto(c, "failing")
  /\ UNCHANGED <<amount, seen, full, row, out, bookVars, batchVars, crashes>>

Repay(c) ==
  /\ step[c] = "asking"
  /\ out' = out \cup {c}
  /\ Goto(c, "repaid")
  /\ UNCHANGED <<amount, seen, full, row, bookVars, batchVars, boundVars>>

Fail(c) ==
  /\ step[c] = "failing"
  /\ row' = [row EXCEPT ![c] = "FAILED"]
  /\ Goto(c, "refused")
  /\ UNCHANGED <<amount, seen, full, out, bookVars, batchVars, boundVars>>

\* Mutant: only what is completed counts.
DecideOnCompleted(c) ==
  LET o == Target(c) IN
  /\ step[c] = "repaid"
  /\ full' = [full EXCEPT ![c] = SumOf(o, {"COMPLETED"}) + amount[c] >= Total[o]]
  /\ Goto(c, "decided")
  /\ UNCHANGED <<amount, seen, row, out, bookVars, batchVars, boundVars>>

\* orderFullyRefunded, before the transaction that uses it.
Decide(c) ==
  /\ step[c] = "repaid"
  /\ full' = [full EXCEPT ![c] = RefundedTotal(Target(c)) >= Total[Target(c)]]
  /\ Goto(c, "decided")
  /\ UNCHANGED <<amount, seen, row, out, bookVars, batchVars, boundVars>>

\* roundTo in a currency without decimals: half up.
Rounded(n, d) == (2 * n + d) \div (2 * d)

\* Mutant: the commission given back is a share of what was charged, not of what is left.
ReversalOfCharged(o, n) == Rounded(Charged[o] * n, Total[o])

\* The share of the commission that goes back with n, of the commission as it stands.
Reversal(o, n) == Rounded(commission[o] * n, Total[o])

\* Mutant: the payment's sum is written from the value read before the provider was asked.
BookAbsolute(c) ==
  LET o == Target(c) IN
  /\ step[c] = "decided"
  /\ row' = [row EXCEPT ![c] = "COMPLETED"]
  /\ refunded' = seen[c] + amount[c]
  /\ commission' = [commission EXCEPT ![o] = @ - Reversal(o, amount[c])]
  /\ booked' = [booked EXCEPT ![o] = @ + amount[c]]
  /\ marked' = IF full[c] THEN marked \cup {o} ELSE marked
  /\ Goto(c, "done")
  /\ UNCHANGED <<amount, seen, full, out, batchVars, boundVars>>

\* The transaction: row, payment, commission, settlement part, ledger, order.
Book(c) ==
  LET o == Target(c) IN
  /\ step[c] = "decided"
  /\ row' = [row EXCEPT ![c] = "COMPLETED"]
  /\ refunded' = refunded + amount[c]
  /\ commission' = [commission EXCEPT ![o] = @ - Reversal(o, amount[c])]
  /\ booked' = [booked EXCEPT ![o] = @ + amount[c]]
  /\ marked' = IF full[c] THEN marked \cup {o} ELSE marked
  /\ Goto(c, "done")
  /\ UNCHANGED <<amount, seen, full, out, batchVars, boundVars>>

\* The process or the request dies; what was committed and paid stays.
Crash(c) ==
  /\ step[c] \in {"checked", "inserted", "asking", "failing", "repaid", "decided"}
  /\ crashes < MaxCrashes
  /\ crashes' = crashes + 1
  /\ Goto(c, "lost")
  /\ UNCHANGED <<amount, seen, full, row, out, bookVars, batchVars, refusals>>

-----------------------------------------------------------------------------
(***************************************************************************)
(* refundService.executeForPayment.                                        *)
(***************************************************************************)

\* The call of execute batch b waits for.
Running(b) == {o \in Orders : step[<<b, o>>] \notin {"idle", "done"}}

\* Skips an order with nothing left, or calls execute with the part it can take.
BatchNext(b, o) ==
  LET left == Refundable(o)
      part == IF Spread[b] # 0 /\ rest[b] < left THEN rest[b] ELSE left IN
  /\ Running(b) = {} /\ o \in todo[b]
  /\ Spread[b] # 0 => rest[b] > 0
  /\ todo' = [todo EXCEPT ![b] = @ \ {o}]
  /\ IF left = 0
     THEN UNCHANGED <<step, amount, rest>>
     ELSE /\ Goto(<<b, o>>, "called")
          /\ amount' = [amount EXCEPT ![<<b, o>>] = part]
          /\ rest' = IF Spread[b] = 0 THEN rest ELSE [rest EXCEPT ![b] = @ - part]
  /\ UNCHANGED <<seen, full, row, out, bookVars, boundVars>>

Execute(c) ==
  \/ ReadPayment(c) \/ Check(c) \/ Insert(c) \/ Verify(c) \/ Refuse(c) \/ Repay(c)
  \/ Fail(c) \/ Decide(c) \/ Book(c)

Next ==
  \/ \E c \in Calls : Execute(c) \/ Crash(c)
  \/ \E b \in Batches, o \in Orders : BatchNext(b, o)

Spec == Init /\ [][Next]_vars
-----------------------------------------------------------------------------
(***************************************************************************)
(* Properties.                                                             *)
(***************************************************************************)

\* Every variable keeps its type.  The commission kept on an order is never negative:
\* reversals of concurrent partial refunds, each rounded, do not add up to more than was
\* charged.
TypeOK ==
  /\ step \in [Calls -> {"idle", "called", "read", "checked", "inserted", "asking", "failing",
                         "repaid", "decided", "done", "refused", "lost"}]
  /\ amount \in [Calls -> Nat]
  /\ seen \in [Calls -> Nat]
  /\ full \in [Calls -> BOOLEAN]
  /\ row \in [Calls -> {"none", "PROCESSING", "COMPLETED", "FAILED"}]
  /\ out \subseteq Calls
  /\ refunded \in Nat
  /\ booked \in [Orders -> Nat]
  /\ commission \in [Orders -> Nat]
  /\ marked \subseteq Orders
  /\ todo \in [Batches -> SUBSET Orders]
  /\ rest \in [Batches -> Nat]
  /\ refusals \in 0 .. MaxRefusals /\ crashes \in 0 .. MaxCrashes

Contract == INSTANCE RefundContract WITH
  About <- [c \in Calls |-> Target(c)],
  phase <- [c \in Calls |-> IF c \in out
                            THEN IF row[c] = "COMPLETED" THEN "booked" ELSE "given"
                            ELSE IF step[c] = "refused" THEN "refused" ELSE "open"],
  sum <- [c \in Calls |-> IF c \in out THEN amount[c] ELSE 0]

\* The calls keep the contract their callers rely on.  In particular no order is given back
\* more than it cost, whatever calls and batches run at once or die: of two calls that saw
\* the same balance, at most the one that fits goes out; and a call is answered as refused
\* only if no money went out.
KeepsContract == Contract!ContractSpec

\* No money is lost from sight: what went out is in the books or stands in a row still
\* PROCESSING, that the ceiling counts, also when the call died.
TraceBeforeMoney == \A c \in out : row[c] \in {"PROCESSING", "COMPLETED"}

\* The books agree: the payment's sum is that of the settlement parts, which are the
\* completed rows of their orders.
BooksAgree ==
  /\ refunded = SumFunctionOnSet(booked, Orders)
  /\ \A o \in Orders : booked[o] = SumOf(o, {"COMPLETED"})

\* An order whose refunds add up to its total ends REFUNDED, although each call decides
\* before its transaction and sees the other's row unbooked.
FullRefundIsMarked ==
  \A o \in Orders : booked[o] = Total[o] => o \in marked
=============================================================================
