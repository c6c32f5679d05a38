---------------------------- MODULE RefundsProofs ----------------------------
(***************************************************************************)
(* Proofs about Refunds for any orders, calls, batches and amounts.        *)
(*                                                                         *)
(* One inductive invariant serves all properties.  RowOfStep ties each     *)
(* call's refund row and the provider's answer to how far the call got;    *)
(* Ceiling is why the second look at the total is enough: the calls that   *)
(* passed it hold together no more than their order cost, because each     *)
(* counted, when it passed, the rows of all that had passed before.  From  *)
(* the ceiling follow the contract (Given never exceeds the total), that   *)
(* no commission is taken back twice, and that the call which completes a  *)
(* full refund has seen it complete (FullSeen).                            *)
(***************************************************************************)
EXTENDS Refunds, SumTheorems

\* The row of a call, and the provider's answer, are where the call got to.
RowOfStep ==
  \A c \in Calls :
    /\ step[c] \in {"idle", "called", "read", "checked"} => row[c] = "none"
    /\ step[c] \in {"inserted", "asking", "failing", "repaid", "decided"} => row[c] = "PROCESSING"
    /\ step[c] = "done" <=> row[c] = "COMPLETED"
    /\ step[c] = "lost" => row[c] \in {"none", "PROCESSING"}
    /\ step[c] \in {"repaid", "decided", "done"} => c \in out
    /\ c \in out => step[c] \in {"repaid", "decided", "done", "lost"} /\ row[c] # "none"
    /\ step[c] \notin {"idle", "called", "read", "refused"} => amount[c] > 0

\* A batch has not called execute for the orders it has not come to.
NotCalled == \A b \in Batches : \A o \in todo[b] : step[<<b, o>>] = "idle"

\* The calls about o that passed the second look and may have paid, or still may.
Passed(o) == {c \in Calls : Target(c) = o /\ (c \in out \/ step[c] = "asking")}

\* They hold together no more than the order cost.
Ceiling == \A o \in Orders : SumFunctionOnSet(amount, Passed(o)) <= Total[o]

\* The calls about o that have decided whether the order is refunded in full.
DecidedOf(o) == {c \in Calls : Target(c) = o /\ step[c] \in {"decided", "done"}}

\* When they add up to the total, one of them has seen it; it marks the order.
FullSeen ==
  \A o \in Orders :
    SumFunctionOnSet(amount, DecidedOf(o)) >= Total[o] => \E c \in DecidedOf(o) : full[c]
FullMarks == \A c \in Calls : step[c] = "done" /\ full[c] => Target(c) \in marked

RefundInv ==
  TypeOK /\ RowOfStep /\ NotCalled /\ Ceiling /\ BooksAgree /\ FullSeen /\ FullMarks

-----------------------------------------------------------------------------
(***************************************************************************)
(* Facts about the constants and about arithmetic.                         *)
(***************************************************************************)
\* A call is about one of the orders, and a batch's call about the order it was made for.
LEMMA TargetIn ==
  /\ \A c \in Calls : Target(c) \in Orders
  /\ \A b \in Batches, o \in Orders : <<b, o>> \in Calls /\ Target(<<b, o>>) = o
BY RefundsAssumption DEF Calls, Target

\* Any set of calls is finite, so its amounts add up.
LEMMA SumsOfCalls ==
  ASSUME TypeOK, NEW S \in SUBSET Calls
  PROVE  IsFiniteSet(S) /\ SumFunctionOnSet(amount, S) \in Nat
<1>1. IsFiniteSet(S)
  BY RefundsAssumption, FS_Subset
<1>2. \A c \in S : amount[c] \in Nat
  BY DEF TypeOK
<1> QED
  BY <1>1, <1>2, SumNat

\* Fewer calls, with amounts that did not change, add up to no more.
LEMMA PartOfSum ==
  ASSUME NEW T, IsFiniteSet(T), NEW f, NEW g, \A c \in T : f[c] \in Nat,
         NEW S \in SUBSET T, \A c \in S : g[c] = f[c]
  PROVE  SumFunctionOnSet(g, S) <= SumFunctionOnSet(f, T)
<1>1. IsFiniteSet(S)
  BY FS_Subset
<1>2. SumFunctionOnSet(g, S) = SumFunctionOnSet(f, S)
  BY <1>1, SumSame
<1>3. SumFunctionOnSet(f, S) <= SumFunctionOnSet(f, T)
  BY SumSubset
<1> QED
  BY <1>2, <1>3

\* Half up, a share of n out of d of a commission k is at most k.
LEMMA RoundedBounds ==
  ASSUME NEW k \in Nat, NEW d \in Nat \ {0}, NEW n \in 0 .. d
  PROVE  Rounded(k * n, d) \in 0 .. k
<1> DEFINE x == 2 * (k * n) + d
<1>1. k * n \in Nat /\ k * n <= k * d
  <2>1. k * n \in Nat /\ k * d \in Nat
    OBVIOUS
  <2>2. k * d = k * n + k * (d - n) /\ k * (d - n) >= 0
    OBVIOUS
  <2> QED
    BY <2>1, <2>2
<1>2. k * d \in Nat
  OBVIOUS
<1>3. x \in Nat /\ x < (k + 1) * (2 * d)
  <2>1. (k + 1) * (2 * d) = 2 * (k * d) + 2 * d
    OBVIOUS
  <2> QED
    BY <1>1, <1>2, <2>1
<1>4. \A y \in Nat, q \in Nat \ {0}, m \in Nat : y < m * q => y \div q \in Nat /\ y \div q < m
  OBVIOUS
<1>5. x \div (2 * d) \in Nat /\ x \div (2 * d) < k + 1
  <2>1. 2 * d \in Nat \ {0} /\ k + 1 \in Nat
    OBVIOUS
  <2> HIDE DEF x
  <2> QED
    BY <1>3, <1>4, <2>1
<1> QED
  BY <1>5 DEF Rounded

\* A call that passed asks for no more than its order cost.
LEMMA PassedFits ==
  ASSUME TypeOK, Ceiling, NEW c \in Calls, c \in Passed(Target(c))
  PROVE  amount[c] <= Total[Target(c)]
<1> DEFINE o == Target(c)
<1>1. o \in Orders /\ Passed(o) \in SUBSET Calls
  BY TargetIn DEF Passed
<1>2. IsFiniteSet(Passed(o)) /\ \A d \in Passed(o) : amount[d] \in Nat
  BY <1>1, SumsOfCalls DEF TypeOK
<1>3. SumFunctionOnSet(amount, Passed(o)) = amount[c] + SumFunctionOnSet(amount, Passed(o) \ {c})
  BY <1>2, SumRemove
<1>4. SumFunctionOnSet(amount, Passed(o) \ {c}) \in Nat
  BY <1>1, SumsOfCalls
<1>5. SumFunctionOnSet(amount, Passed(o)) <= Total[o]
  BY <1>1 DEF Ceiling
<1>6. Total[o] \in Nat /\ amount[c] \in Nat
  BY <1>1, RefundsAssumption DEF TypeOK
<1> QED
  BY <1>3, <1>4, <1>5, <1>6

-----------------------------------------------------------------------------
(***************************************************************************)
(* Types.                                                                  *)
(***************************************************************************)
LEMMA RefundableNat ==
  ASSUME TypeOK, NEW o \in Orders
  PROVE  RefundedTotal(o) \in Nat /\ Refundable(o) \in Nat
<1>1. RefundedTotal(o) \in Nat
  <2>1. RowsOf(o, {"PROCESSING", "COMPLETED"}) \in SUBSET Calls
    BY DEF RowsOf
  <2> QED
    BY <2>1, SumsOfCalls DEF RefundedTotal, SumOf
<1>2. Total[o] \in Nat
  BY RefundsAssumption
<1> QED
  BY <1>1, <1>2 DEF Refundable

LEMMA TypeInit == Init => TypeOK
  BY RefundsAssumption DEF Init, TypeOK

\* What the transaction takes back of a commission is part of what is left of it.
LEMMA ReversalFits ==
  ASSUME TypeOK, RowOfStep, Ceiling, NEW c \in Calls, step[c] = "decided"
  PROVE  Reversal(Target(c), amount[c]) \in 0 .. commission[Target(c)]
<1>1. Target(c) \in Orders /\ c \in Passed(Target(c))
  BY TargetIn DEF Passed, RowOfStep
<1>2. amount[c] <= Total[Target(c)]
  BY <1>1, PassedFits
<1>3. /\ commission[Target(c)] \in Nat /\ Total[Target(c)] \in Nat \ {0}
      /\ amount[c] \in 0 .. Total[Target(c)]
  BY <1>1, <1>2, RefundsAssumption DEF TypeOK
<1> QED
  BY <1>3, RoundedBounds DEF Reversal

LEMMA TypeStep == TypeOK /\ RowOfStep /\ Ceiling /\ [Next]_vars => TypeOK'
<1> SUFFICES ASSUME TypeOK, RowOfStep, Ceiling, [Next]_vars PROVE TypeOK'
  OBVIOUS
<1> USE DEF TypeOK, Goto, bookVars, batchVars, boundVars
<1>1. ASSUME NEW c \in Calls,
             ReadPayment(c) \/ Insert(c) \/ Verify(c) \/ Repay(c) \/ Fail(c) \/ Decide(c)
      PROVE  TypeOK'
  <2>1. CASE ReadPayment(c) \/ Insert(c) \/ Verify(c)
    BY <2>1 DEF ReadPayment, Insert, Verify
  <2>2. CASE Repay(c) \/ Fail(c)
    BY <2>2 DEF Repay, Fail
  <2>3. CASE Decide(c)
    <3>1. (RefundedTotal(Target(c)) >= Total[Target(c)]) \in BOOLEAN
      OBVIOUS
    <3>2. full' \in [Calls -> BOOLEAN]
      BY <2>3, <3>1, Zenon DEF Decide
    <3> QED
      BY <2>3, <3>2 DEF Decide
  <2> QED
    BY <1>1, <2>1, <2>2, <2>3
<1>2. ASSUME NEW c \in Calls, Check(c)
      PROVE  TypeOK'
  <2>1. Refundable(Target(c)) \in Nat
    BY TargetIn, RefundableNat
  <2> QED
    BY <1>2, <2>1 DEF Check
<1>3. ASSUME NEW c \in Calls, Refuse(c) \/ Crash(c)
      PROVE  TypeOK'
  BY <1>3, RefundsAssumption DEF Refuse, Crash
<1>4. ASSUME NEW c \in Calls, Book(c)
      PROVE  TypeOK'
  <2>1. Target(c) \in Orders /\ step[c] = "decided"
    BY <1>4, TargetIn DEF Book
  <2>2. commission[Target(c)] - Reversal(Target(c), amount[c]) \in Nat
    BY <2>1, ReversalFits
  <2>3. commission' \in [Orders -> Nat]
    BY <1>4, <2>1, <2>2 DEF Book
  <2> QED
    BY <1>4, <2>1, <2>3 DEF Book
<1>5. ASSUME NEW b \in Batches, NEW o \in Orders, BatchNext(b, o)
      PROVE  TypeOK'
  <2> DEFINE left == Refundable(o)
             part == IF Spread[b] # 0 /\ rest[b] < left THEN rest[b] ELSE left
  <2>1. left \in Nat /\ rest[b] \in Nat /\ Spread[b] \in Nat
    BY RefundableNat, RefundsAssumption
  <2>2. part \in Nat /\ (Spread[b] # 0 => rest[b] - part \in Nat)
    BY <2>1
  <2>3. /\ \/ UNCHANGED <<step, amount, rest>>
           \/ /\ Goto(<<b, o>>, "called")
              /\ amount' = [amount EXCEPT ![<<b, o>>] = part]
              /\ rest' = IF Spread[b] = 0 THEN rest ELSE [rest EXCEPT ![b] = @ - part]
        /\ todo' = [todo EXCEPT ![b] = @ \ {o}]
        /\ UNCHANGED <<seen, full, row, out, bookVars, boundVars>>
    BY <1>5 DEF BatchNext
  <2> HIDE DEF part
  <2>4. amount' \in [Calls -> Nat]
    BY <2>2, <2>3
  <2>5. rest' \in [Batches -> Nat] /\ todo' \in [Batches -> SUBSET Orders]
    BY <2>1, <2>2, <2>3
  <2> QED
    BY <2>3, <2>4, <2>5
<1>6. CASE UNCHANGED vars
  BY <1>6 DEF vars, callVars
<1> QED
  BY <1>1, <1>2, <1>3, <1>4, <1>5, <1>6 DEF Next, Execute

-----------------------------------------------------------------------------
(***************************************************************************)
(* Rows, steps and answers.                                                *)
(***************************************************************************)
LEMMA RowInit == Init => RowOfStep /\ NotCalled
  BY RefundsAssumption DEF Init, RowOfStep, NotCalled, Calls

LEMMA RowStep == TypeOK /\ RowOfStep /\ NotCalled /\ [Next]_vars => RowOfStep' /\ NotCalled'
<1> SUFFICES ASSUME TypeOK, RowOfStep, NotCalled, [Next]_vars PROVE RowOfStep' /\ NotCalled'
  OBVIOUS
<1> USE DEF TypeOK, Goto, bookVars, batchVars, boundVars
<1>1. ASSUME NEW c \in Calls, Execute(c) \/ Crash(c)
      PROVE  NotCalled'
  <2>1. step[c] # "idle" /\ todo' = todo /\ \A d \in Calls \ {c} : step'[d] = step[d]
    <3>1. CASE ReadPayment(c) \/ Check(c) \/ Insert(c) \/ Verify(c) \/ Refuse(c)
      BY <3>1 DEF ReadPayment, Check, Insert, Verify, Refuse
    <3>2. CASE Repay(c) \/ Fail(c) \/ Decide(c) \/ Book(c) \/ Crash(c)
      BY <3>2 DEF Repay, Fail, Decide, Book, Crash
    <3> QED
      BY <1>1, <3>1, <3>2 DEF Execute
  <2> QED
    BY <2>1, TargetIn DEF NotCalled
<1>2. ASSUME NEW c \in Calls,
             ReadPayment(c) \/ Insert(c) \/ Verify(c) \/ Repay(c) \/ Fail(c) \/ Decide(c)
      PROVE  RowOfStep'
  <2>1. CASE ReadPayment(c) \/ Insert(c) \/ Verify(c)
    BY <2>1 DEF RowOfStep, ReadPayment, Insert, Verify
  <2>2. CASE Repay(c) \/ Fail(c) \/ Decide(c)
    BY <2>2 DEF RowOfStep, Repay, Fail, Decide
  <2> QED
    BY <1>2, <2>1, <2>2
<1>3. ASSUME NEW c \in Calls, Check(c)
      PROVE  RowOfStep'
  <2>1. Refundable(Target(c)) \in Nat
    BY TargetIn, RefundableNat
  <2> QED
    BY <1>3, <2>1 DEF RowOfStep, Check
<1>4. ASSUME NEW c \in Calls, Refuse(c) \/ Crash(c) \/ Book(c)
      PROVE  RowOfStep'
  BY <1>4 DEF RowOfStep, Refuse, Crash, Book
<1>5. ASSUME NEW b \in Batches, NEW o \in Orders, BatchNext(b, o)
      PROVE  RowOfStep' /\ NotCalled'
  <2> DEFINE c == <<b, o>>
  <2>1. c \in Calls /\ step[c] = "idle"
    BY <1>5, TargetIn DEF BatchNext, NotCalled
  <2>2. /\ row' = row /\ out' = out /\ todo' = [todo EXCEPT ![b] = @ \ {o}]
        /\ \/ UNCHANGED <<step, amount>>
           \/ step' = [step EXCEPT ![c] = "called"]
        /\ \A d \in Calls \ {c} : amount'[d] = amount[d]
    BY <1>5 DEF BatchNext
  <2>3. RowOfStep'
    BY <2>1, <2>2 DEF RowOfStep
  <2>4. \A e \in Batches : \A p \in todo'[e] :
          p \in todo[e] /\ <<e, p>> # c /\ <<e, p>> \in Calls
    BY <2>2, TargetIn
  <2>5. \A d \in Calls \ {c} : step'[d] = step[d]
    BY <2>2
  <2>6. NotCalled'
    BY <2>4, <2>5, Zenon DEF NotCalled
  <2> QED
    BY <2>3, <2>6
<1>6. CASE UNCHANGED vars
  BY <1>6 DEF RowOfStep, NotCalled, vars, callVars
<1> QED
  BY <1>1, <1>2, <1>3, <1>4, <1>5, <1>6 DEF Next, Execute

-----------------------------------------------------------------------------
(***************************************************************************)
(* The ceiling.                                                            *)
(***************************************************************************)
LEMMA CeilingInit == Init => Ceiling
<1> SUFFICES ASSUME Init, NEW o \in Orders PROVE SumFunctionOnSet(amount, Passed(o)) <= Total[o]
  BY DEF Ceiling
<1>1. Passed(o) = {}
  BY DEF Init, Passed
<1> QED
  BY <1>1, SumEmpty, RefundsAssumption

\* A step after which no other call counts, and none with another amount, keeps the ceiling.
LEMMA CeilingKept ==
  ASSUME TypeOK, TypeOK', Ceiling,
         \A c \in Calls : c \in out' \/ step'[c] = "asking" =>
           (c \in out \/ step[c] = "asking") /\ amount'[c] = amount[c]
  PROVE  Ceiling'
<1> SUFFICES ASSUME NEW o \in Orders
             PROVE  SumFunctionOnSet(amount', Passed(o)') <= Total[o]
  BY DEF Ceiling
<1>1. Passed(o)' \in SUBSET Passed(o) /\ \A c \in Passed(o)' : amount'[c] = amount[c]
  BY DEF Passed, Target
<1>2. Passed(o) \in SUBSET Calls /\ Passed(o)' \in SUBSET Calls
  BY DEF Passed
<1>3. IsFiniteSet(Passed(o)) /\ \A c \in Passed(o) : amount[c] \in Nat
  BY <1>2, SumsOfCalls DEF TypeOK
<1> DEFINE before == SumFunctionOnSet(amount, Passed(o))
           after  == SumFunctionOnSet(amount', Passed(o)')
<1>4. after <= before
  BY <1>1, <1>3, PartOfSum
<1>5. before <= Total[o]
  BY DEF Ceiling
<1>6. before \in Nat
  BY <1>2, SumsOfCalls
<1>7. after \in Nat
  BY <1>2, SumsOfCalls, RefundsAssumption, FS_Subset, SumNat DEF TypeOK
<1>8. Total[o] \in Nat
  BY RefundsAssumption
<1> HIDE DEF before, after
<1> QED
  BY <1>4, <1>5, <1>6, <1>7, <1>8 DEF after

\* The call that passes joins the others, and was counted with them.
LEMMA CeilingPass ==
  ASSUME TypeOK, RowOfStep, Ceiling, NEW c \in Calls, Verify(c)
  PROVE  Ceiling'
<1>1. /\ step[c] = "inserted" /\ amount' = amount /\ out' = out
      /\ step' = [step EXCEPT ![c] = IF RefundedTotal(Target(c)) > Total[Target(c)]
                                     THEN "failing" ELSE "asking"]
  BY DEF Verify, Goto
<1>2. TypeOK'
  BY DEF TypeOK, Verify, Goto, bookVars, batchVars, boundVars
<1>3. CASE RefundedTotal(Target(c)) > Total[Target(c)]
  <2>1. step' = [step EXCEPT ![c] = "failing"]
    BY <1>1, <1>3
  <2> QED
    BY <1>1, <1>2, <2>1, CeilingKept DEF TypeOK
<1>4. CASE ~(RefundedTotal(Target(c)) > Total[Target(c)])
  <2>1. step' = [step EXCEPT ![c] = "asking"]
    BY <1>1, <1>4
  <2>2. SUFFICES ASSUME NEW o \in Orders
                 PROVE  SumFunctionOnSet(amount, Passed(o)') <= Total[o]
    BY <1>1 DEF Ceiling
  <2>3. CASE o # Target(c)
    <3>1. Passed(o)' = Passed(o)
      BY <1>1, <2>1, <2>3 DEF Passed, Target, TypeOK
    <3> QED
      BY <3>1 DEF Ceiling
  <2>4. CASE o = Target(c)
    <3> DEFINE rows == RowsOf(o, {"PROCESSING", "COMPLETED"})
    <3>1. Passed(o)' \in SUBSET rows
      BY <1>1, <2>1, <2>4 DEF Passed, RowsOf, Target, RowOfStep, TypeOK
    <3>2. rows \in SUBSET Calls
      BY DEF RowsOf
    <3>3. IsFiniteSet(rows) /\ \A d \in rows : amount[d] \in Nat
      BY <3>2, SumsOfCalls DEF TypeOK
    <3>4. SumFunctionOnSet(amount, Passed(o)') <= RefundedTotal(o)
      BY <3>1, <3>3, SumSubset DEF RefundedTotal, SumOf
    <3>5. RefundedTotal(o) \in Nat /\ SumFunctionOnSet(amount, Passed(o)') \in Nat
      BY <3>1, <3>2, RefundableNat, SumsOfCalls
    <3>6. Total[o] \in Nat
      BY RefundsAssumption
    <3> QED
      BY <1>4, <2>4, <3>4, <3>5, <3>6
  <2> QED
    BY <2>3, <2>4
<1> QED
  BY <1>3, <1>4

LEMMA CeilingStep ==
  TypeOK /\ TypeOK' /\ RowOfStep /\ NotCalled /\ Ceiling /\ [Next]_vars => Ceiling'
<1> SUFFICES ASSUME TypeOK, TypeOK', RowOfStep, NotCalled, Ceiling, [Next]_vars PROVE Ceiling'
  OBVIOUS
<1> DEFINE Counts(c) == c \in out \/ step[c] = "asking"
           Kept == \A d \in Calls : Counts(d)' => Counts(d) /\ amount'[d] = amount[d]
<1>1. SUFFICES Kept \/ \E c \in Calls : Verify(c)
  BY CeilingKept, CeilingPass
<1> USE DEF TypeOK, Goto
<1>2. ASSUME NEW c \in Calls, Execute(c) \/ Crash(c)
      PROVE  Kept \/ Verify(c)
  <2>1. CASE ReadPayment(c) \/ Insert(c) \/ Refuse(c) \/ Repay(c)
    BY <2>1 DEF ReadPayment, Insert, Refuse, Repay
  <2>2. CASE Fail(c) \/ Decide(c) \/ Book(c) \/ Crash(c)
    BY <2>2 DEF Fail, Decide, Book, Crash
  <2>3. CASE Check(c)
    <3>1. ~Counts(c) /\ ~Counts(c)'
      BY <2>3 DEF Check, RowOfStep
    <3>2. out' = out /\ \A d \in Calls \ {c} : step'[d] = step[d] /\ amount'[d] = amount[d]
      BY <2>3 DEF Check
    <3> QED
      BY <3>1, <3>2
  <2> QED
    BY <1>2, <2>1, <2>2, <2>3 DEF Execute
<1>3. ASSUME NEW b \in Batches, NEW o \in Orders, BatchNext(b, o)
      PROVE  Kept
  <2> DEFINE c == <<b, o>>
  <2>1. c \in Calls /\ step[c] = "idle" /\ ~Counts(c)
    BY <1>3, TargetIn DEF BatchNext, NotCalled, RowOfStep
  <2>2. /\ out' = out
        /\ UNCHANGED <<step, amount>> \/ step' = [step EXCEPT ![c] = "called"]
        /\ \A d \in Calls \ {c} : amount'[d] = amount[d]
    BY <1>3 DEF BatchNext
  <2> HIDE DEF c
  <2>3. ~Counts(c)' /\ \A d \in Calls \ {c} : step'[d] = step[d]
    BY <2>1, <2>2
  <2> QED
    BY <2>1, <2>2, <2>3
<1>4. CASE UNCHANGED vars
  BY <1>4 DEF vars, callVars
<1> QED
  BY <1>2, <1>3, <1>4 DEF Next

-----------------------------------------------------------------------------
(***************************************************************************)
(* The books.                                                              *)
(***************************************************************************)
LEMMA BooksInit == Init => BooksAgree
<1> SUFFICES ASSUME Init PROVE BooksAgree
  OBVIOUS
<1>1. refunded = SumFunctionOnSet(booked, Orders)
  BY RefundsAssumption, SumZero DEF Init
<1>2. ASSUME NEW o \in Orders
      PROVE  booked[o] = SumOf(o, {"COMPLETED"})
  <2>1. RowsOf(o, {"COMPLETED"}) = {}
    BY DEF Init, RowsOf
  <2> QED
    BY <2>1, SumEmpty DEF Init, SumOf
<1> QED
  BY <1>1, <1>2 DEF BooksAgree

\* A step that completes no row keeps the books.
LEMMA BooksKept ==
  ASSUME TypeOK, BooksAgree, refunded' = refunded, booked' = booked,
         \A c \in Calls : /\ row'[c] = "COMPLETED" <=> row[c] = "COMPLETED"
                          /\ row[c] = "COMPLETED" => amount'[c] = amount[c]
  PROVE  BooksAgree'
<1>1. ASSUME NEW o \in Orders
      PROVE  SumOf(o, {"COMPLETED"})' = SumOf(o, {"COMPLETED"})
  <2> DEFINE rows == RowsOf(o, {"COMPLETED"})
  <2>1. rows' = rows /\ \A c \in rows : amount'[c] = amount[c]
    BY DEF RowsOf, Target
  <2>2. IsFiniteSet(rows)
    BY SumsOfCalls DEF RowsOf
  <2> QED
    BY <2>1, <2>2, SumSame DEF SumOf
<1> QED
  BY <1>1 DEF BooksAgree

\* The transaction adds the same amount to the completed rows, to the part and to the payment.
LEMMA BooksBook ==
  ASSUME TypeOK, TypeOK', RowOfStep, BooksAgree, NEW c \in Calls, Book(c)
  PROVE  BooksAgree'
<1> DEFINE o == Target(c)
<1>1. o \in Orders /\ row[c] = "PROCESSING"
  BY TargetIn DEF Book, RowOfStep
<1>2. /\ row' = [row EXCEPT ![c] = "COMPLETED"] /\ amount' = amount
      /\ refunded' = refunded + amount[c]
      /\ booked' = [booked EXCEPT ![o] = @ + amount[c]]
  BY DEF Book
<1>3. ASSUME NEW p \in Orders
      PROVE  booked'[p] = SumOf(p, {"COMPLETED"})'
  <2> DEFINE rows == RowsOf(p, {"COMPLETED"})
  <2>1. booked[p] = SumFunctionOnSet(amount, rows)
    BY DEF BooksAgree, SumOf
  <2>2. rows \in SUBSET Calls /\ c \notin rows
    BY <1>1 DEF RowsOf
  <2>3. CASE p = o
    <3>1. rows' = rows \cup {c}
      BY <1>2, <2>3 DEF RowsOf, Target, TypeOK
    <3>2. IsFiniteSet(rows) /\ \A x \in rows \cup {c} : amount[x] \in Nat
      BY <2>2, SumsOfCalls DEF TypeOK
    <3> HIDE DEF rows
    <3>3. SumFunctionOnSet(amount, rows \cup {c}) = amount[c] + SumFunctionOnSet(amount, rows)
      BY <2>2, <3>2, SumAdd
    <3>4. SumOf(p, {"COMPLETED"})' = amount[c] + booked[p]
      BY <1>2, <2>1, <3>1, <3>3 DEF SumOf, rows
    <3>5. booked'[p] = booked[p] + amount[c] /\ booked[p] \in Nat /\ amount[c] \in Nat
      BY <1>1, <1>2, <2>3 DEF TypeOK
    <3> QED
      BY <3>4, <3>5
  <2>4. CASE p # o
    <3>1. rows' = rows
      BY <1>2, <2>4 DEF RowsOf, Target, TypeOK
    <3>2. SumOf(p, {"COMPLETED"})' = SumFunctionOnSet(amount, rows)
      BY <1>2, <3>1 DEF SumOf
    <3> QED
      BY <1>1, <1>2, <2>1, <2>4, <3>2 DEF TypeOK
  <2> QED
    BY <2>3, <2>4
<1>4. refunded' = SumFunctionOnSet(booked', Orders)
  <2>1. \A p \in Orders : booked[p] \in Nat /\ booked'[p] \in Nat
    BY DEF TypeOK
  <2>2. \A p \in Orders \ {o} : booked[p] = booked'[p]
    BY <1>1, <1>2 DEF TypeOK
  <2>3. IsFiniteSet(Orders)
    BY RefundsAssumption
  <2> HIDE DEF o
  <2>4. SumFunctionOnSet(booked', Orders)
          = SumFunctionOnSet(booked, Orders) + (booked'[o] - booked[o])
    BY <1>1, <2>1, <2>2, <2>3, SumChange
  <2>5. booked'[o] - booked[o] = amount[c]
    BY <1>1, <1>2 DEF TypeOK
  <2> QED
    BY <1>2, <2>4, <2>5 DEF BooksAgree
<1> QED
  BY <1>3, <1>4 DEF BooksAgree

LEMMA BooksStep ==
  TypeOK /\ TypeOK' /\ RowOfStep /\ NotCalled /\ BooksAgree /\ [Next]_vars => BooksAgree'
<1> SUFFICES ASSUME TypeOK, TypeOK', RowOfStep, NotCalled, BooksAgree, [Next]_vars
             PROVE  BooksAgree'
  OBVIOUS
<1> DEFINE Kept == /\ refunded' = refunded /\ booked' = booked
                   /\ \A c \in Calls : /\ row'[c] = "COMPLETED" <=> row[c] = "COMPLETED"
                                       /\ row[c] = "COMPLETED" => amount'[c] = amount[c]
<1>1. SUFFICES Kept \/ \E c \in Calls : Book(c)
  BY BooksKept, BooksBook
<1> USE DEF TypeOK, Goto, bookVars
<1>2. ASSUME NEW c \in Calls, Execute(c) \/ Crash(c)
      PROVE  Kept \/ Book(c)
  <2>1. CASE ReadPayment(c) \/ Verify(c) \/ Refuse(c) \/ Repay(c) \/ Decide(c) \/ Crash(c)
    BY <2>1 DEF ReadPayment, Verify, Refuse, Repay, Decide, Crash
  <2>2. CASE Check(c) \/ Insert(c) \/ Fail(c)
    BY <2>2 DEF Check, Insert, Fail, RowOfStep
  <2> QED
    BY <1>2, <2>1, <2>2 DEF Execute
<1>3. ASSUME NEW b \in Batches, NEW o \in Orders, BatchNext(b, o)
      PROVE  Kept
  <2> DEFINE c == <<b, o>>
  <2>1. c \in Calls /\ row[c] = "none"
    BY <1>3, TargetIn DEF BatchNext, NotCalled, RowOfStep
  <2>2. /\ row' = row /\ refunded' = refunded /\ booked' = booked
        /\ \A d \in Calls \ {c} : amount'[d] = amount[d]
    BY <1>3 DEF BatchNext
  <2> HIDE DEF c
  <2> QED
    BY <2>1, <2>2
<1>4. CASE UNCHANGED vars
  BY <1>4 DEF vars, callVars
<1> QED
  BY <1>2, <1>3, <1>4 DEF Next

-----------------------------------------------------------------------------
(***************************************************************************)
(* The full refund.                                                        *)
(***************************************************************************)
LEMMA FullInit == Init => FullSeen /\ FullMarks
<1> SUFFICES ASSUME Init PROVE FullSeen /\ FullMarks
  OBVIOUS
<1>1. FullMarks
  BY DEF Init, FullMarks
<1>2. ASSUME NEW o \in Orders
      PROVE  ~(SumFunctionOnSet(amount, DecidedOf(o)) >= Total[o])
  <2>1. DecidedOf(o) = {}
    BY DEF Init, DecidedOf
  <2>2. SumFunctionOnSet(amount, DecidedOf(o)) = 0
    BY <2>1, SumEmpty
  <2>3. Total[o] \in Nat \ {0}
    BY RefundsAssumption
  <2> QED
    BY <2>2, <2>3
<1> QED
  BY <1>1, <1>2 DEF FullSeen

\* The calls that decided are among those that passed: they add up to the total at most.
LEMMA DecidedFits ==
  ASSUME TypeOK, RowOfStep, Ceiling, NEW o \in Orders, NEW S \in SUBSET Passed(o)
  PROVE  /\ SumFunctionOnSet(amount, S) \in Nat
         /\ SumFunctionOnSet(amount, S) <= Total[o]
         /\ DecidedOf(o) \in SUBSET Passed(o)
<1>1. Passed(o) \in SUBSET Calls /\ S \in SUBSET Calls
  BY DEF Passed
<1>2. IsFiniteSet(Passed(o)) /\ \A d \in Passed(o) : amount[d] \in Nat
  BY <1>1, SumsOfCalls DEF TypeOK
<1>3. SumFunctionOnSet(amount, S) <= SumFunctionOnSet(amount, Passed(o))
  BY <1>2, SumSubset
<1>4. /\ SumFunctionOnSet(amount, S) \in Nat /\ SumFunctionOnSet(amount, Passed(o)) \in Nat
      /\ Total[o] \in Nat
  BY <1>1, SumsOfCalls, RefundsAssumption
<1>5. SumFunctionOnSet(amount, Passed(o)) <= Total[o]
  BY DEF Ceiling
<1>6. DecidedOf(o) \in SUBSET Passed(o)
  BY DEF DecidedOf, Passed, RowOfStep
<1> QED
  BY <1>3, <1>4, <1>5, <1>6

\* A step that leaves the decided calls as they are keeps what they have seen.
LEMMA FullKept ==
  ASSUME TypeOK, FullSeen,
         \A c \in Calls : /\ step'[c] \in {"decided", "done"} <=> step[c] \in {"decided", "done"}
                          /\ step[c] \in {"decided", "done"} =>
                               amount'[c] = amount[c] /\ full'[c] = full[c]
  PROVE  FullSeen'
<1> SUFFICES ASSUME NEW o \in Orders, SumFunctionOnSet(amount', DecidedOf(o)') >= Total[o]
             PROVE  \E c \in DecidedOf(o)' : full'[c]
  BY DEF FullSeen
<1>1. DecidedOf(o)' = DecidedOf(o)
  BY DEF DecidedOf, Target
<1>2. \A c \in DecidedOf(o) : amount'[c] = amount[c] /\ full'[c] = full[c]
  BY DEF DecidedOf
<1>3. IsFiniteSet(DecidedOf(o))
  BY SumsOfCalls DEF DecidedOf
<1>4. SumFunctionOnSet(amount', DecidedOf(o)') = SumFunctionOnSet(amount, DecidedOf(o))
  BY <1>1, <1>2, <1>3, SumSame
<1> QED
  BY <1>1, <1>2, <1>4 DEF FullSeen

\* The last call to decide counts the rows of all that decided before.
LEMMA FullDecide ==
  ASSUME TypeOK, RowOfStep, FullSeen, NEW c \in Calls, Decide(c)
  PROVE  FullSeen'
<1>1. /\ step[c] = "repaid" /\ amount' = amount /\ step' = [step EXCEPT ![c] = "decided"]
      /\ full' = [full EXCEPT ![c] = RefundedTotal(Target(c)) >= Total[Target(c)]]
  BY DEF Decide, Goto
<1>2. SUFFICES ASSUME NEW o \in Orders, SumFunctionOnSet(amount, DecidedOf(o)') >= Total[o]
               PROVE  \E d \in DecidedOf(o)' : full'[d]
  BY <1>1 DEF FullSeen
<1>3. CASE o # Target(c)
  <2>1. DecidedOf(o)' = DecidedOf(o) /\ c \notin DecidedOf(o)
    BY <1>1, <1>3 DEF DecidedOf, Target, TypeOK
  <2>2. PICK d \in DecidedOf(o) : full[d]
    BY <1>2, <2>1 DEF FullSeen
  <2>3. full'[d] = full[d]
    BY <1>1, <2>1 DEF DecidedOf, TypeOK
  <2> QED
    BY <2>1, <2>2, <2>3
<1>4. CASE o = Target(c)
  <2> DEFINE rows == RowsOf(o, {"PROCESSING", "COMPLETED"})
  <2>1. DecidedOf(o)' \in SUBSET rows /\ c \in DecidedOf(o)'
    BY <1>1, <1>4 DEF DecidedOf, RowsOf, Target, RowOfStep, TypeOK
  <2>2. IsFiniteSet(rows) /\ \A d \in rows : amount[d] \in Nat
    BY SumsOfCalls DEF RowsOf, TypeOK
  <2>3. SumFunctionOnSet(amount, DecidedOf(o)') <= RefundedTotal(o)
    BY <2>1, <2>2, SumSubset DEF RefundedTotal, SumOf
  <2>4. RefundedTotal(o) \in Nat /\ Total[o] \in Nat
    BY RefundableNat, RefundsAssumption
  <2>5. SumFunctionOnSet(amount, DecidedOf(o)') \in Nat
    <3>1. DecidedOf(o)' \in SUBSET Calls
      BY DEF DecidedOf
    <3> QED
      BY <3>1, SumsOfCalls
  <2>6. RefundedTotal(o) >= Total[o]
    BY <1>2, <2>3, <2>4, <2>5
  <2>7. full'[c]
    BY <1>1, <1>4, <2>6, Zenon DEF TypeOK
  <2> QED
    BY <2>1, <2>7
<1> QED
  BY <1>3, <1>4

\* Without the decision of a call that dies, the others do not add up to the total.
LEMMA FullCrash ==
  ASSUME TypeOK, RowOfStep, Ceiling, FullSeen, NEW c \in Calls, step[c] = "decided", Crash(c)
  PROVE  FullSeen'
<1>1. amount' = amount /\ full' = full /\ step' = [step EXCEPT ![c] = "lost"]
  BY DEF Crash, Goto
<1>2. SUFFICES ASSUME NEW o \in Orders, SumFunctionOnSet(amount, DecidedOf(o)') >= Total[o]
               PROVE  \E d \in DecidedOf(o)' : full[d]
  BY <1>1 DEF FullSeen
<1>3. CASE o # Target(c)
  <2>1. DecidedOf(o)' = DecidedOf(o)
    BY <1>1, <1>3 DEF DecidedOf, Target, TypeOK
  <2> QED
    BY <1>2, <2>1 DEF FullSeen
<1>4. CASE o = Target(c)
  <2> DEFINE before == DecidedOf(o)
             after  == DecidedOf(o)'
  <2>1. after = before \ {c} /\ c \in before
    BY <1>1, <1>4 DEF DecidedOf, Target, TypeOK
  <2>2. IsFiniteSet(before) /\ \A d \in before : amount[d] \in Nat
    BY SumsOfCalls DEF DecidedOf, TypeOK
  <2>3. before \in SUBSET Passed(o)
    BY DecidedFits
  <2>4. SumFunctionOnSet(amount, before) <= Total[o]
    BY <2>3, DecidedFits
  <2> HIDE DEF before, after
  <2>5. SumFunctionOnSet(amount, before) = amount[c] + SumFunctionOnSet(amount, after)
    BY <2>1, <2>2, SumRemove
  <2>6. amount[c] > 0 /\ amount[c] \in Nat /\ Total[o] \in Nat
    BY RefundsAssumption DEF RowOfStep, TypeOK
  <2>7. SumFunctionOnSet(amount, after) \in Nat
    <3>1. after \in SUBSET Calls
      BY DEF after, DecidedOf
    <3> QED
      BY <3>1, SumsOfCalls
  <2>8. SumFunctionOnSet(amount, after) >= Total[o]
    BY <1>2 DEF after
  <2> QED
    BY <2>4, <2>5, <2>6, <2>7, <2>8
<1> QED
  BY <1>3, <1>4

LEMMA FullStep ==
  ASSUME TypeOK, RowOfStep, NotCalled, Ceiling, FullSeen, FullMarks, [Next]_vars
  PROVE  FullSeen' /\ FullMarks'
<1> DEFINE Decided(c) == step[c] \in {"decided", "done"}
           Kept == \A c \in Calls : /\ Decided(c)' <=> Decided(c)
                                    /\ Decided(c) => amount'[c] = amount[c] /\ full'[c] = full[c]
           Marks == /\ marked \subseteq marked'
                    /\ \A c \in Calls : step'[c] = "done" =>
                         \/ step[c] = "done" /\ full'[c] = full[c]
                         \/ full'[c] => Target(c) \in marked'
<1>1. SUFFICES Marks /\ (Kept \/ \E c \in Calls : Decide(c) \/ (step[c] = "decided" /\ Crash(c)))
  <2>1. ASSUME Marks PROVE FullMarks'
    BY <2>1 DEF FullMarks, Target
  <2> QED
    BY <2>1, FullKept, FullDecide, FullCrash
<1> USE DEF TypeOK, Goto, bookVars
<1>2. ASSUME NEW c \in Calls, Execute(c) \/ Crash(c)
      PROVE  Marks /\ (Kept \/ Decide(c) \/ (step[c] = "decided" /\ Crash(c)))
  <2>1. CASE ReadPayment(c) \/ Insert(c) \/ Verify(c) \/ Refuse(c)
    BY <2>1 DEF ReadPayment, Insert, Verify, Refuse
  <2>2. CASE Repay(c) \/ Fail(c) \/ Check(c)
    BY <2>2 DEF Repay, Fail, Check
  <2>3. CASE Decide(c)
    <3>1. marked' = marked /\ \A d \in Calls : step'[d] = "done" => d # c /\ step[d] = "done"
      BY <2>3 DEF Decide
    <3>2. \A d \in Calls \ {c} : full'[d] = full[d]
      BY <2>3 DEF Decide
    <3> QED
      BY <2>3, <3>1, <3>2
  <2>4. CASE Book(c)
    BY <2>4 DEF Book
  <2>5. CASE Crash(c)
    BY <2>5 DEF Crash
  <2> QED
    BY <1>2, <2>1, <2>2, <2>3, <2>4, <2>5 DEF Execute
<1>3. ASSUME NEW b \in Batches, NEW o \in Orders, BatchNext(b, o)
      PROVE  Marks /\ Kept
  <2> DEFINE c == <<b, o>>
  <2>1. c \in Calls /\ step[c] = "idle"
    BY <1>3, TargetIn DEF BatchNext, NotCalled
  <2>2. /\ marked' = marked /\ full' = full
        /\ UNCHANGED <<step, amount>> \/ step' = [step EXCEPT ![c] = "called"]
        /\ \A d \in Calls \ {c} : amount'[d] = amount[d]
    BY <1>3 DEF BatchNext
  <2> HIDE DEF c
  <2>3. ~Decided(c) /\ ~Decided(c)' /\ \A d \in Calls \ {c} : step'[d] = step[d]
    BY <2>1, <2>2
  <2> QED
    BY <2>2, <2>3
<1>4. CASE UNCHANGED vars
  BY <1>4 DEF vars, callVars
<1> QED
  BY <1>2, <1>3, <1>4 DEF Next

-----------------------------------------------------------------------------
(***************************************************************************)
(* The invariant, and the properties.                                      *)
(***************************************************************************)
LEMMA RefundInvInductive == Spec => []RefundInv
<1>1. Init => RefundInv
  BY TypeInit, RowInit, CeilingInit, BooksInit, FullInit DEF RefundInv
<1>2. RefundInv /\ [Next]_vars => RefundInv'
  BY TypeStep, RowStep, CeilingStep, BooksStep, FullStep DEF RefundInv
<1> QED
  BY <1>1, <1>2, PTL DEF Spec

\* Every variable keeps its type, the commission of an order with it: however many partial
\* refunds of an order are booked, and whatever each is rounded to, no more is taken back
\* of its commission than was charged.
THEOREM RefundsTypes == Spec => []TypeOK
<1>1. RefundInv => TypeOK
  BY DEF RefundInv
<1> QED
  BY <1>1, RefundInvInductive, PTL

\* Money that went out is in a row that the ceiling counts, also when the call died right
\* after the provider's answer.
THEOREM MoneyHasTrace == Spec => []TraceBeforeMoney
<1>1. RefundInv => TraceBeforeMoney
  BY DEF RefundInv, RowOfStep, TypeOK, TraceBeforeMoney
<1> QED
  BY <1>1, RefundInvInductive, PTL

\* The payment's refunded amount is the sum of its settlement parts, and each part is the
\* sum of its order's completed rows, whatever calls ran at the same time.
THEOREM RefundBooksAgree == Spec => []BooksAgree
<1>1. RefundInv => BooksAgree
  BY DEF RefundInv
<1> QED
  BY <1>1, RefundInvInductive, PTL

\* An order that was refunded in full is REFUNDED: of the calls that together refunded it,
\* the last to look saw the whole, since each looks after its own row is written.
THEOREM FullRefundMarked == Spec => []FullRefundIsMarked
<1>1. ASSUME RefundInv, NEW o \in Orders, booked[o] = Total[o]
      PROVE  o \in marked
  <2> DEFINE done == {c \in Calls : Target(c) = o /\ step[c] = "done"}
  <2> USE DEF RefundInv
  <2>1. done = RowsOf(o, {"COMPLETED"})
    BY <1>1 DEF RowsOf, RowOfStep
  <2>2. SumFunctionOnSet(amount, done) = Total[o]
    BY <1>1, <2>1 DEF BooksAgree, SumOf
  <2>3. done \in SUBSET DecidedOf(o) /\ DecidedOf(o) \in SUBSET Passed(o)
    BY <1>1, DecidedFits DEF DecidedOf
  <2>4. /\ SumFunctionOnSet(amount, DecidedOf(o)) \in Nat
        /\ SumFunctionOnSet(amount, DecidedOf(o)) <= Total[o]
    BY <1>1, <2>3, DecidedFits
  <2>5. IsFiniteSet(DecidedOf(o)) /\ \A c \in DecidedOf(o) : amount[c] \in Nat
    BY <1>1, SumsOfCalls DEF DecidedOf, TypeOK
  <2>6. SumFunctionOnSet(amount, DecidedOf(o)) >= Total[o]
    <3>1. SumFunctionOnSet(amount, done) <= SumFunctionOnSet(amount, DecidedOf(o))
      BY <2>3, <2>5, SumSubset
    <3>2. Total[o] \in Nat
      BY RefundsAssumption
    <3> QED
      BY <2>2, <2>4, <3>1, <3>2
  <2>7. PICK c \in DecidedOf(o) : full[c]
    BY <1>1, <2>6 DEF FullSeen
  <2>8. CASE c \in done
    BY <1>1, <2>7, <2>8 DEF FullMarks
  <2>9. CASE c \notin done
    <3> DEFINE others == DecidedOf(o) \ {c}
    <3>1. SumFunctionOnSet(amount, DecidedOf(o)) = amount[c] + SumFunctionOnSet(amount, others)
      BY <2>5, SumRemove
    <3>2. amount[c] > 0 /\ amount[c] \in Nat
      BY <1>1, <2>5 DEF DecidedOf, RowOfStep
    <3>3. done \in SUBSET others /\ others \in SUBSET DecidedOf(o)
      BY <2>3, <2>9
    <3>4. IsFiniteSet(others) /\ SumFunctionOnSet(amount, others) \in Nat
      BY <2>5, <3>3, FS_Subset, SumNat
    <3>5. SumFunctionOnSet(amount, done) <= SumFunctionOnSet(amount, others)
      BY <2>5, <3>3, <3>4, SumSubset
    <3>6. Total[o] \in Nat
      BY RefundsAssumption
    <3> HIDE DEF others, done
    <3> QED
      BY <2>2, <2>4, <3>1, <3>2, <3>4, <3>5, <3>6
  <2> QED
    BY <2>8, <2>9
<1>2. RefundInv => FullRefundIsMarked
  BY <1>1 DEF FullRefundIsMarked
<1> QED
  BY <1>2, RefundInvInductive, PTL

-----------------------------------------------------------------------------
(***************************************************************************)
(* The contract, step by step.                                             *)
(***************************************************************************)
\* What the contract sees of a call.
Phase(c) == IF c \in out THEN IF row[c] = "COMPLETED" THEN "booked" ELSE "given"
            ELSE IF step[c] = "refused" THEN "refused" ELSE "open"
GivenSum(c) == IF c \in out THEN amount[c] ELSE 0
Phases == [c \in Calls |-> Phase(c)]
Sums   == [c \in Calls |-> GivenSum(c)]

LEMMA ContractStart == Init => Contract!ContractInit
  BY DEF Init, Contract!ContractInit

\* The contract adds up as the model does.
LEMMA ContractSum ==
  ASSUME NEW f, NEW S
  PROVE  Contract!SumFunctionOnSet(f, S) = SumFunctionOnSet(f, S)
BY Zenon DEF Contract!SumFunctionOnSet, Contract!FoldFunctionOnSet, Contract!MapThenFoldSet,
             SumFunctionOnSet, FoldFunctionOnSet, MapThenFoldSet

\* What the contract calls given is the sum of what the provider gave back.
LEMMA GivenIs ==
  ASSUME TypeOK, NEW o \in Orders
  PROVE  Contract!Given(o) = SumFunctionOnSet(amount, {c \in out : Target(c) = o})
<1> DEFINE G == {c \in out : Target(c) = o}
<1>1. G = {c \in Calls : /\ [d \in Calls |-> Target(d)][c] = o
                         /\ Phases[c] \in {"given", "booked"}}
  BY DEF TypeOK, Phases, Phase
<1>2. Contract!Given(o) = SumFunctionOnSet(Sums, G)
  BY <1>1, ContractSum, Zenon DEF Contract!Given, Phases, Phase, Sums, GivenSum
<1>3. IsFiniteSet(G) /\ \A c \in G : Sums[c] = amount[c]
  BY SumsOfCalls DEF TypeOK, Sums, GivenSum
<1> QED
  BY <1>2, <1>3, SumSame

\* When the provider gives money back, the order has as much left: the call had passed.
LEMMA RepayGives ==
  ASSUME RefundInv, NEW c \in Calls, Repay(c)
  PROVE  \E n \in 1 .. Total[Target(c)] : Contract!Give(c, n)
<1> DEFINE o == Target(c)
           G == {d \in out : Target(d) = o}
<1> USE DEF RefundInv
<1>1. /\ step[c] = "asking" /\ out' = out \cup {c} /\ amount' = amount /\ row' = row
      /\ step' = [step EXCEPT ![c] = "repaid"]
  BY DEF Repay, Goto
<1>2. o \in Orders /\ c \notin out /\ amount[c] \in Nat /\ amount[c] > 0 /\ row[c] = "PROCESSING"
  BY <1>1, TargetIn DEF RowOfStep, TypeOK
<1>3. G \cup {c} \in SUBSET Passed(o)
  BY <1>1 DEF Passed, TypeOK
<1>4. SumFunctionOnSet(amount, G \cup {c}) <= Total[o]
  BY <1>2, <1>3, DecidedFits
<1>5. SumFunctionOnSet(amount, G \cup {c}) = amount[c] + SumFunctionOnSet(amount, G)
  <2>1. IsFiniteSet(G) /\ c \notin G /\ \A d \in G \cup {c} : amount[d] \in Nat
    BY <1>2, SumsOfCalls DEF TypeOK
  <2> HIDE DEF G
  <2> QED
    BY <2>1, SumAdd
<1>6. Contract!Given(o) = SumFunctionOnSet(amount, G)
  BY <1>2, GivenIs
<1>7. Contract!Given(o) \in Nat /\ Total[o] \in Nat
  BY <1>2, <1>6, SumsOfCalls, RefundsAssumption DEF TypeOK
<1> HIDE DEF G
<1>8. amount[c] \in 1 .. Total[o] /\ Contract!Given(o) + amount[c] <= Total[o]
  BY <1>2, <1>4, <1>5, <1>6, <1>7
<1>9. Phases[c] = "open" /\ Phases' = [Phases EXCEPT ![c] = "given"]
  BY <1>1, <1>2 DEF Phases, Phase, TypeOK
<1>10. Sums' = [Sums EXCEPT ![c] = amount[c]]
  BY <1>1, <1>2 DEF Sums, GivenSum, TypeOK
<1>11. [d \in Calls |-> Target(d)][c] = o
  OBVIOUS
<1> HIDE DEF o
<1>12. PICK n \in 1 .. Total[o] : n = amount[c]
  BY <1>8
<1>13. n > 0
  BY <1>2, <1>12
<1>14. Contract!Give(c, n)
  BY <1>8, <1>9, <1>10, <1>11, <1>12, <1>13, Zenon
  DEF Contract!Give, Phases, Phase, Sums, GivenSum
<1> QED
  BY <1>14 DEF o

\* The transaction settles what was given, once.
LEMMA BookSettles ==
  ASSUME RefundInv, NEW c \in Calls, Book(c)
  PROVE  Contract!Settle(c)
<1> USE DEF RefundInv
<1>1. /\ step[c] = "decided" /\ out' = out /\ amount' = amount
      /\ row' = [row EXCEPT ![c] = "COMPLETED"] /\ step' = [step EXCEPT ![c] = "done"]
  BY DEF Book, Goto
<1>2. c \in out /\ row[c] = "PROCESSING"
  BY <1>1 DEF RowOfStep
<1>3. Phases[c] = "given" /\ Phases' = [Phases EXCEPT ![c] = "booked"] /\ Sums' = Sums
  BY <1>1, <1>2 DEF Phases, Phase, Sums, GivenSum, TypeOK
<1> QED
  BY <1>3, Zenon DEF Contract!Settle, Phases, Phase, Sums, GivenSum

\* A call that ends refused has given nothing: it declines, or it had not been open.
LEMMA RefusalDeclines ==
  ASSUME RefundInv, NEW c \in Calls, ReadPayment(c) \/ Check(c) \/ Fail(c)
  PROVE  Contract!Decline(c) \/ (Phases' = Phases /\ Sums' = Sums)
<1> USE DEF RefundInv
<1>1. /\ c \notin out /\ out' = out /\ step[c] # "refused" /\ row[c] # "COMPLETED"
      /\ \A d \in Calls \ {c} : step'[d] = step[d] /\ amount'[d] = amount[d] /\ row'[d] = row[d]
  BY DEF ReadPayment, Check, Fail, Goto, RowOfStep, TypeOK
<1>2. Sums' = Sums
  BY <1>1 DEF Sums, GivenSum
<1>3. Phases[c] = "open" /\ \A d \in Calls \ {c} : Phase(d)' = Phase(d)
  BY <1>1 DEF Phases, Phase
<1>4. CASE step'[c] = "refused"
  <2>1. Phases' = [Phases EXCEPT ![c] = "refused"]
    BY <1>1, <1>3, <1>4 DEF Phases, Phase
  <2> QED
    BY <1>2, <1>3, <2>1, Zenon DEF Contract!Decline, Phases, Phase, Sums, GivenSum
<1>5. CASE step'[c] # "refused"
  <2>1. Phases' = Phases
    BY <1>1, <1>3, <1>5 DEF Phases, Phase
  <2> QED
    BY <1>2, <2>1
<1> QED
  BY <1>4, <1>5

LEMMA ContractStep ==
  ASSUME RefundInv, [Next]_vars
  PROVE  Contract!ContractNext \/ (Phases' = Phases /\ Sums' = Sums)
<1> USE DEF RefundInv
<1>1. ASSUME NEW c \in Calls, ReadPayment(c) \/ Check(c) \/ Fail(c) \/ Repay(c) \/ Book(c)
      PROVE  Contract!ContractNext \/ (Phases' = Phases /\ Sums' = Sums)
  <2>1. [d \in Calls |-> Target(d)][c] = Target(c)
    OBVIOUS
  <2>2. CASE Repay(c)
    BY <2>1, <2>2, RepayGives, Zenon DEF Contract!ContractNext
  <2>3. CASE Book(c)
    BY <2>3, BookSettles, Zenon DEF Contract!ContractNext
  <2>4. CASE ReadPayment(c) \/ Check(c) \/ Fail(c)
    BY <2>4, RefusalDeclines, Zenon DEF Contract!ContractNext
  <2> QED
    BY <1>1, <2>2, <2>3, <2>4
<1>2. ASSUME NEW c \in Calls, Insert(c) \/ Verify(c) \/ Refuse(c) \/ Decide(c) \/ Crash(c)
      PROVE  Phases' = Phases /\ Sums' = Sums
  <2>1. /\ out' = out /\ amount' = amount /\ step[c] # "refused" /\ step'[c] # "refused"
        /\ row[c] # "COMPLETED" /\ row'[c] # "COMPLETED"
        /\ \A d \in Calls \ {c} : step'[d] = step[d] /\ row'[d] = row[d]
    BY <1>2 DEF Insert, Verify, Refuse, Decide, Crash, Goto, RowOfStep, TypeOK
  <2> QED
    BY <2>1 DEF Phases, Phase, Sums, GivenSum
<1>3. ASSUME NEW b \in Batches, NEW o \in Orders, BatchNext(b, o)
      PROVE  Phases' = Phases /\ Sums' = Sums
  <2> DEFINE c == <<b, o>>
  <2>1. c \in Calls /\ step[c] = "idle" /\ c \notin out
    BY <1>3, TargetIn DEF BatchNext, NotCalled, RowOfStep
  <2>2. /\ row' = row /\ out' = out
        /\ UNCHANGED <<step, amount>> \/ step' = [step EXCEPT ![c] = "called"]
        /\ \A d \in Calls \ {c} : amount'[d] = amount[d]
    BY <1>3 DEF BatchNext, Goto, TypeOK
  <2> HIDE DEF c
  <2>3. step'[c] # "refused" /\ \A d \in Calls \ {c} : step'[d] = step[d]
    BY <2>1, <2>2 DEF TypeOK
  <2> QED
    BY <2>1, <2>2, <2>3 DEF Phases, Phase, Sums, GivenSum
<1>4. CASE UNCHANGED vars
  BY <1>4 DEF vars, callVars, Phases, Phase, Sums, GivenSum
<1> QED
  BY <1>1, <1>2, <1>3, <1>4 DEF Next, Execute

\* execute and executeForPayment implement RefundContract, for any number of calls and
\* batches at once, refused or dying anywhere.
THEOREM RefundsKeepContract == Spec => KeepsContract
<1>1. Init => Contract!ContractInit
  BY ContractStart
<1>2. RefundInv /\ [Next]_vars => [Contract!ContractNext]_Contract!contractVars
  <2>1. SUFFICES ASSUME RefundInv, [Next]_vars
                 PROVE  Contract!ContractNext \/ Contract!contractVars' = Contract!contractVars
    OBVIOUS
  <2>2. CASE Phases' = Phases /\ Sums' = Sums
    BY <2>2, Zenon DEF Contract!contractVars, Phases, Phase, Sums, GivenSum
  <2> QED
    BY <2>1, <2>2, ContractStep
<1> QED
  BY <1>1, <1>2, RefundInvInductive, PTL DEF Spec, KeepsContract, Contract!ContractSpec

\* Never more than its total is given back for an order: the sum over all calls to which
\* the provider said yes, booked or not, those that died included.
CeilingHeld ==
  \A o \in Orders : SumFunctionOnSet(amount, {c \in out : Target(c) = o}) <= Total[o]

\* The ceiling that the second look at the total is there for holds of the money itself.
THEOREM NeverMoreThanTotal == Spec => []CeilingHeld
<1>1. ASSUME RefundInv, NEW o \in Orders
      PROVE  SumFunctionOnSet(amount, {c \in out : Target(c) = o}) <= Total[o]
  <2>1. {c \in out : Target(c) = o} \in SUBSET Passed(o)
    BY <1>1 DEF RefundInv, Passed, TypeOK
  <2> QED
    BY <1>1, <2>1, DecidedFits DEF RefundInv
<1>2. RefundInv => CeilingHeld
  BY <1>1 DEF CeilingHeld
<1> QED
  BY <1>2, RefundInvInductive, PTL
=============================================================================
