---------------------------- MODULE SellerProofs ----------------------------
(***************************************************************************)
(* Proofs about what is settled on a seller's word: the cash handed over   *)
(* at the door (CashDesk) and the goods that came back (Returns), for any  *)
(* requests, returns, calls and amounts.                                   *)
(*                                                                         *)
(* Cash.  One inductive invariant.  Its first part is about the keys:      *)
(* while a request runs under a key, the key says IN_PROGRESS, so nothing  *)
(* but a stale retry can let a second one in.  The second says that a      *)
(* request that is done, and a payment that succeeded, have their sale.    *)
(* The third follows the collection: a request between its collection and  *)
(* its sale leaves it COLLECTED, and one that is failing leaves it FAILED, *)
(* as long as no stale write replaces one end of the collection by the     *)
(* other.                                                                  *)
(*                                                                         *)
(* Returns.  UnitsCounted adds up: what stock got back was returned, and   *)
(* what is being returned was bought.  CallsPay and OneCall say that a     *)
(* return has one call of execute that was not refused, which gave exactly *)
(* what it asks for.  The calls are those of RefundContract, which         *)
(* RefundsProofs shows the code of execute to implement.                   *)
(***************************************************************************)
EXTENDS CashDesk, Returns, SumTheorems

\* A request runs under a key alone, and the key says so.
KeyHeld ==
  \A k \in Keys \ unguarded :
    /\ \A r, x \in Running(k) : r = x
    /\ Running(k) # {} => key[k] = "IN_PROGRESS"

\* What is said to be done is booked.
DoneIsBooked ==
  /\ \A k \in Keys : key[k] = "COMPLETED" => ledger = "sale"
  /\ \A r \in Requests : step[r] = "done" => ledger = "sale"
  /\ payment = "SUCCEEDED" => ledger = "sale"

\* What a handler in the middle of its writes can count on.
Midway ==
  crossed = {} =>
    /\ \A r \in Booking : collection = "COD_COLLECTED"
    /\ \A f \in Failures : step[f] = "written" => collection = "COD_FAILED"

LEMMA TypeInit == Init => TypeOK
  BY CashAssumption, KeysAssumption DEF Init, KeyInit, TypeOK, KeyTypeOK

LEMMA TypeStep == TypeOK /\ [Next]_vars => TypeOK'
<1> SUFFICES ASSUME TypeOK, [Next]_vars PROVE TypeOK'
  OBVIOUS
<1> USE CashAssumption, KeysAssumption DEF TypeOK, KeyTypeOK
<1>1. ASSUME NEW r \in Requests, Middleware(r), UNCHANGED deskVars
      PROVE  TypeOK'
  <2>1. CASE Claim(r) \/ PassWithoutKey(r)
    BY <1>1, <2>1 DEF Claim, PassWithoutKey, Goto, SetKey, deskVars
  <2>2. CASE Lookup(r)
    BY <1>1, <2>2 DEF Lookup, Goto, deskVars
  <2>3. CASE Reclaim(r)
    BY <1>1, <2>3 DEF Reclaim, Goto, SetKey, deskVars
  <2> QED
    BY <1>1, <2>1, <2>2, <2>3 DEF Middleware
<1>2. ASSUME NEW r \in Requests, Collect(r)
      PROVE  TypeOK'
  <2>1. CASE CollectRead(r) \/ CollectWrite(r) \/ ApplyRead(r) \/ ApplyCommit(r)
    BY <2>1 DEF CollectRead, CollectWrite, ApplyRead, ApplyCommit, Handles, Advance, Write, Ended,
                keyVars
  <2>2. CASE Respond(r)
    BY <2>2 DEF Respond, Answer, Goto, SetKey, deskVars
  <2>3. CASE Throw(r) \/ Die(r)
    BY <2>3 DEF Throw, Die, Fault, Advance, Goto, keyVars
  <2> QED
    BY <1>2, <2>1, <2>2, <2>3 DEF Collect
<1>3. ASSUME NEW k \in Keys, Purge(k), UNCHANGED deskVars
      PROVE  TypeOK'
  BY <1>3 DEF Purge, deskVars
<1>4. ASSUME NEW c \in Confirms, ConfirmRead(c) \/ ConfirmWrite(c)
      PROVE  TypeOK'
  BY <1>4 DEF ConfirmRead, ConfirmWrite, Advance, Write, Ended, keyVars
<1>5. ASSUME NEW f \in Failures, FailRead(f) \/ FailWrite(f) \/ FailPayment(f)
      PROVE  TypeOK'
  BY <1>5 DEF FailRead, FailWrite, FailPayment, Advance, Write, Ended, keyVars
<1>6. CASE UNCHANGED vars
  BY <1>6 DEF vars, keyVars, deskVars
<1> QED
  BY <1>1, <1>2, <1>3, <1>4, <1>5, <1>6 DEF Next

-----------------------------------------------------------------------------
(***************************************************************************)
(* The keys.                                                               *)
(***************************************************************************)
LEMMA KeyStep == TypeOK /\ KeyHeld /\ [Next]_vars => KeyHeld'
<1> SUFFICES ASSUME TypeOK, KeyHeld, [Next]_vars,
                    NEW k \in Keys, k \notin unguarded'
             PROVE  /\ \A r, x \in Running(k)' : r = x
                    /\ Running(k)' # {} => key'[k] = "IN_PROGRESS"
  BY DEF KeyHeld
<1> USE CashAssumption, KeysAssumption
<1>1. /\ k \notin unguarded
      /\ \A r, x \in Running(k) : r = x
      /\ Running(k) # {} => key[k] = "IN_PROGRESS"
  <2>1. unguarded \subseteq unguarded'
    BY DEF Next, Middleware, Claim, PassWithoutKey, Lookup, Reclaim, Collect, CollectRead,
           CollectWrite, ApplyRead, ApplyCommit, Respond, Answer, Throw, Die, Purge,
           ConfirmRead, ConfirmWrite, FailRead, FailWrite, FailPayment, keyVars, vars
  <2> QED
    BY <2>1 DEF KeyHeld
<1>2. ASSUME UNCHANGED <<at, key>>
      PROVE  /\ \A r, x \in Running(k)' : r = x
             /\ Running(k)' # {} => key'[k] = "IN_PROGRESS"
  BY <1>1, <1>2 DEF Running
<1>3. ASSUME NEW r \in Requests, Claim(r)
      PROVE  /\ \A y, x \in Running(k)' : y = x
             /\ Running(k)' # {} => key'[k] = "IN_PROGRESS"
  BY <1>1, <1>3 DEF Claim, Running, Goto, SetKey, TypeOK, KeyTypeOK
<1>4. ASSUME NEW r \in Requests, PassWithoutKey(r)
      PROVE  /\ \A y, x \in Running(k)' : y = x
             /\ Running(k)' # {} => key'[k] = "IN_PROGRESS"
  BY <1>1, <1>4 DEF PassWithoutKey, Running, Goto, TypeOK, KeyTypeOK
<1>5. ASSUME NEW r \in Requests, Lookup(r)
      PROVE  /\ \A y, x \in Running(k)' : y = x
             /\ Running(k)' # {} => key'[k] = "IN_PROGRESS"
  BY <1>1, <1>5 DEF Lookup, Running, Goto, TypeOK, KeyTypeOK
<1>6. ASSUME NEW r \in Requests, Reclaim(r)
      PROVE  /\ \A y, x \in Running(k)' : y = x
             /\ Running(k)' # {} => key'[k] = "IN_PROGRESS"
  BY <1>1, <1>6 DEF Reclaim, Running, Goto, SetKey, TypeOK, KeyTypeOK
<1>7. ASSUME NEW r \in Requests, Respond(r)
      PROVE  /\ \A y, x \in Running(k)' : y = x
             /\ Running(k)' # {} => key'[k] = "IN_PROGRESS"
  BY <1>1, <1>7 DEF Respond, Answer, Running, Goto, SetKey, TypeOK, KeyTypeOK
<1>8. ASSUME NEW r \in Requests, Die(r)
      PROVE  /\ \A y, x \in Running(k)' : y = x
             /\ Running(k)' # {} => key'[k] = "IN_PROGRESS"
  BY <1>1, <1>8 DEF Die, Running, Goto, TypeOK, KeyTypeOK
<1>9. ASSUME NEW x \in Keys, Purge(x)
      PROVE  /\ \A y, r \in Running(k)' : y = r
             /\ Running(k)' # {} => key'[k] = "IN_PROGRESS"
  BY <1>1, <1>9 DEF Purge, Running, TypeOK, KeyTypeOK
<1>10. ASSUME NEW r \in Requests,
              CollectRead(r) \/ CollectWrite(r) \/ ApplyRead(r) \/ ApplyCommit(r) \/ Throw(r)
       PROVE  UNCHANGED <<at, key>>
  BY <1>10 DEF CollectRead, CollectWrite, ApplyRead, ApplyCommit, Throw, keyVars
<1>11. ASSUME NEW c \in Confirms, ConfirmRead(c) \/ ConfirmWrite(c)
       PROVE  UNCHANGED <<at, key>>
  BY <1>11 DEF ConfirmRead, ConfirmWrite, keyVars
<1>12. ASSUME NEW f \in Failures, FailRead(f) \/ FailWrite(f) \/ FailPayment(f)
       PROVE  UNCHANGED <<at, key>>
  BY <1>12 DEF FailRead, FailWrite, FailPayment, keyVars
<1>13. CASE UNCHANGED vars
  BY <1>13, <1>2 DEF vars, keyVars
<1> QED
  BY <1>2, <1>3, <1>4, <1>5, <1>6, <1>7, <1>8, <1>9, <1>10, <1>11, <1>12, <1>13
     DEF Next, Middleware, Collect

-----------------------------------------------------------------------------
(***************************************************************************)
(* The sale.                                                               *)
(***************************************************************************)
LEMMA DoneStep == TypeOK /\ DoneIsBooked /\ [Next]_vars => DoneIsBooked'
<1> SUFFICES ASSUME TypeOK, DoneIsBooked, [Next]_vars PROVE DoneIsBooked'
  OBVIOUS
<1> USE CashAssumption, KeysAssumption DEF TypeOK, KeyTypeOK, DoneIsBooked
<1>1. ASSUME NEW r \in Requests, Middleware(r), UNCHANGED deskVars
      PROVE  DoneIsBooked'
  BY <1>1 DEF Middleware, Claim, PassWithoutKey, Lookup, Reclaim, Goto, SetKey, deskVars
<1>2. ASSUME NEW r \in Requests, Collect(r)
      PROVE  DoneIsBooked'
  <2>1. CASE CollectRead(r) \/ CollectWrite(r) \/ ApplyRead(r) \/ ApplyCommit(r)
    BY <2>1 DEF CollectRead, CollectWrite, ApplyRead, ApplyCommit, Handles, Advance, Write, keyVars
  <2>2. CASE Respond(r)
    BY <2>2 DEF Respond, Answer, Goto, SetKey, deskVars
  <2>3. CASE Throw(r) \/ Die(r)
    BY <2>3 DEF Throw, Die, Fault, Advance, Goto, keyVars
  <2> QED
    BY <1>2, <2>1, <2>2, <2>3 DEF Collect
<1>3. ASSUME NEW k \in Keys, Purge(k), UNCHANGED deskVars
      PROVE  DoneIsBooked'
  BY <1>3 DEF Purge, deskVars
<1>4. ASSUME NEW c \in Confirms, ConfirmRead(c) \/ ConfirmWrite(c)
      PROVE  DoneIsBooked'
  BY <1>4 DEF ConfirmRead, ConfirmWrite, Advance, Write, keyVars
<1>5. ASSUME NEW f \in Failures, FailRead(f) \/ FailWrite(f) \/ FailPayment(f)
      PROVE  DoneIsBooked'
  BY <1>5 DEF FailRead, FailWrite, FailPayment, Advance, Write, keyVars
<1>6. CASE UNCHANGED vars
  BY <1>6 DEF vars, keyVars, deskVars
<1> QED
  BY <1>1, <1>2, <1>3, <1>4, <1>5, <1>6 DEF Next

-----------------------------------------------------------------------------
(***************************************************************************)
(* The collection.                                                         *)
(***************************************************************************)
Agreed == Midway /\ CashAndBooksAgree

LEMMA AgreedStep == TypeOK /\ DoneIsBooked /\ Agreed /\ [Next]_vars => Agreed'
<1> SUFFICES ASSUME TypeOK, DoneIsBooked, Agreed, [Next]_vars, crossed' = {} PROVE Agreed'
  BY DEF Agreed, Midway, CashAndBooksAgree
<1> USE CashAssumption, KeysAssumption DEF TypeOK, KeyTypeOK
<1>1. crossed = {}
  BY DEF Next, Middleware, Claim, PassWithoutKey, Lookup, Reclaim, Collect, CollectRead,
         CollectWrite, ApplyRead, ApplyCommit, Respond, Throw, Die, Fault, Purge, Write,
         ConfirmRead, ConfirmWrite, FailRead, FailWrite, FailPayment, deskVars, vars
<1> USE <1>1 DEF Agreed, Midway, CashAndBooksAgree, Booking
<1>2. ASSUME NEW r \in Requests, Middleware(r), UNCHANGED deskVars
      PROVE  Agreed'
  BY <1>2 DEF Middleware, Claim, PassWithoutKey, Lookup, Reclaim, Goto, SetKey, deskVars
<1>3. ASSUME NEW r \in Requests, CollectRead(r)
      PROVE  Agreed'
  BY <1>3 DEF CollectRead, Handles, Advance, keyVars
<1>4. ASSUME NEW r \in Requests, CollectWrite(r)
      PROVE  Agreed'
  BY <1>4 DEF CollectWrite, Handles, Advance, Write, Ended, keyVars
<1>5. ASSUME NEW r \in Requests, ApplyRead(r)
      PROVE  Agreed'
  BY <1>5 DEF ApplyRead, Handles, Advance, DoneIsBooked, keyVars
<1>6. ASSUME NEW r \in Requests, ApplyCommit(r)
      PROVE  Agreed'
  BY <1>6 DEF ApplyCommit, Handles, Advance, keyVars
<1>7. ASSUME NEW r \in Requests, Respond(r)
      PROVE  Agreed'
  BY <1>7 DEF Respond, Answer, Goto, SetKey, deskVars
<1>8. ASSUME NEW r \in Requests, Throw(r) \/ Die(r)
      PROVE  Agreed'
  BY <1>8 DEF Throw, Die, Fault, Advance, Goto, keyVars
<1>9. ASSUME NEW k \in Keys, Purge(k), UNCHANGED deskVars
      PROVE  Agreed'
  BY <1>9 DEF Purge, deskVars
<1>10. ASSUME NEW c \in Confirms, ConfirmRead(c) \/ ConfirmWrite(c)
       PROVE  Agreed'
  BY <1>10 DEF ConfirmRead, ConfirmWrite, Advance, Write, Ended, keyVars
<1>11. ASSUME NEW f \in Failures, FailRead(f)
       PROVE  Agreed'
  BY <1>11 DEF FailRead, Advance, keyVars
<1>12. ASSUME NEW f \in Failures, FailWrite(f)
       PROVE  Agreed'
  BY <1>12 DEF FailWrite, Advance, Write, Ended, keyVars
<1>13. ASSUME NEW f \in Failures, FailPayment(f)
       PROVE  Agreed'
  BY <1>13 DEF FailPayment, Advance, keyVars
<1>14. CASE UNCHANGED vars
  BY <1>14 DEF vars, keyVars, deskVars
<1> QED
  BY <1>2, <1>3, <1>4, <1>5, <1>6, <1>7, <1>8, <1>9, <1>10, <1>11, <1>12, <1>13, <1>14
     DEF Next, Collect

-----------------------------------------------------------------------------
(***************************************************************************)
(* The theorems.                                                           *)
(***************************************************************************)
IInv == TypeOK /\ KeyHeld /\ DoneIsBooked /\ Agreed

LEMMA IInvInit == Init => IInv
<1> SUFFICES ASSUME Init PROVE IInv
  OBVIOUS
<1>1. TypeOK
  BY TypeInit
<1> USE CashAssumption, KeysAssumption DEF Init, KeyInit
<1>2. KeyHeld
  BY DEF KeyHeld, Running
<1>3. DoneIsBooked
  BY DEF DoneIsBooked
<1>4. Agreed
  BY DEF Agreed, Midway, CashAndBooksAgree, Booking
<1> QED
  BY <1>1, <1>2, <1>3, <1>4 DEF IInv

\* The inductive invariant of the cash desk.
THEOREM DeskInvariant == Spec => []IInv
<1>1. IInv /\ [Next]_vars => IInv'
  BY TypeStep, KeyStep, DoneStep, AgreedStep DEF IInv
<1> QED
  BY IInvInit, <1>1, PTL DEF Spec

\* Every variable of the cash desk keeps its type.
THEOREM TypeCorrect == Spec => []TypeOK
<1>1. IInv => TypeOK
  BY DEF IInv
<1> QED
  BY DeskInvariant, <1>1, PTL

\* For any number of requests and keys, two requests of one key run at once only after two
\* retries of one failure, or a purge under a retry.
THEOREM RunsOneAtATime == Spec => []OneAtATime
<1>1. IInv => OneAtATime
  BY DEF IInv, KeyHeld, OneAtATime
<1> QED
  BY DeskInvariant, <1>1, PTL

\* For any requests and faults, cash and books agree unless a stale write or a request that
\* broke off came between them.
THEOREM CashIsBooked == Spec => []CashAndBooksAgree
<1>1. IInv => CashAndBooksAgree
  BY DEF IInv, Agreed
<1> QED
  BY DeskInvariant, <1>1, PTL

\* A replayed answer tells the truth, for any requests, keys, faults and purges.
THEOREM ReplaysAreTrue == Spec => []ReplayIsTrue
<1>1. IInv => ReplayIsTrue
  BY DEF IInv, DoneIsBooked, ReplayIsTrue
<1> QED
  BY DeskInvariant, <1>1, PTL

-----------------------------------------------------------------------------
(***************************************************************************)
(* Returns.                                                                *)
(***************************************************************************)

\* Statuses and amounts have their types.  What a handler is about to write is a return it has
\* read; a creation has counted the units that are left.
ReturnTypes ==
  /\ phase \in [Calls -> {"open", "given", "booked", "refused"}]
  /\ sum \in [Calls -> Nat]
  /\ ret \in [Returns -> {"none", "REQUESTED", "REFUNDED"} \cup Targets]
  /\ back \in [Orders -> Nat]
  /\ DOMAIN task = Handlers
  /\ \A h \in Handlers :
       /\ task[h].at \in {"idle", "create", "move"}
       /\ task[h].at # "idle" => task[h].return \in Returns
       /\ task[h].at = "create" =>
            task[h].used + Units[task[h].return] <= Bought[Origin[task[h].return]]
       /\ task[h].at = "move" => task[h].target \in Targets
  /\ returnOf \in [Calls -> Returns \cup {NoReturn}]
  /\ closed \subseteq {c \in Calls : returnOf[c] # NoReturn}

\* Returns of an order whose goods came back, or whose money did.
CameBack(o) == {t \in Returns : Origin[t] = o /\ ret[t] \in {"RECEIVED", "REFUNDED"}}

\* As long as no creation of the order crossed another and no write to its returns was stale:
\* stock got back the units of returns that came back, and those in use were bought.
UnitsCounted ==
  \A o \in Orders \ crowded :
    (\A t \in stale : Origin[t] # o) =>
      /\ back[o] <= SumFunctionOnSet(Units, CameBack(o))
      /\ Used(o) <= Bought[o]

\* A call that has given money back gave what its return asks for, and a return that is
\* REFUNDED has one that is booked.
CallsPay ==
  /\ \A c \in Calls :
       /\ phase[c] \in {"open", "refused"} => sum[c] = 0
       /\ phase[c] \in {"given", "booked"} /\ returnOf[c] # NoReturn =>
            sum[c] = Requested(returnOf[c])
  /\ \A t \in Returns :
       ret[t] = "REFUNDED" => \E c \in Calls : returnOf[c] = t /\ phase[c] = "booked"

\* A call that has marked its return left it REFUNDED, and no second call joins one that was
\* not refused, unless the two run together or a write is stale.
OneCall ==
  \A t \in Returns \ stale :
    /\ \A c \in closed : returnOf[c] = t => ret[t] = "REFUNDED"
    /\ t \notin together =>
         \A c, d \in Calls :
           returnOf[c] = t /\ returnOf[d] = t /\ phase[c] # "refused" /\ phase[d] # "refused"
             => c = d

ReturnInv == ReturnTypes /\ UnitsCounted /\ CallsPay /\ OneCall

LEMMA ReturnSums ==
  ASSUME NEW S \in SUBSET Returns
  PROVE  IsFiniteSet(S) /\ (\A t \in S : Units[t] \in Nat) /\ SumFunctionOnSet(Units, S) \in Nat
<1>1. IsFiniteSet(S) /\ \A t \in S : Units[t] \in Nat
  BY ReturnsAssumption, FS_Subset
<1> QED
  BY <1>1, SumNat

\* A return asks for a number of its order's currency units.
LEMMA RequestedNat == \A t \in Returns : Requested(t) \in Nat
<1> SUFFICES ASSUME NEW t \in Returns PROVE Requested(t) \in Nat
  OBVIOUS
<1>1. /\ Units[t] \in Nat /\ Total[Origin[t]] \in Nat
      /\ Bought[Origin[t]] \in Nat /\ Bought[Origin[t]] > 0
  BY ReturnsAssumption
<1>2. Total[Origin[t]] \div Bought[Origin[t]] \in Nat
  BY <1>1
<1>3. \A m, n \in Nat : m * n \in Nat
  OBVIOUS
<1> QED
  BY <1>1, <1>2, <1>3 DEF Requested

\* What the statuses of the table say of the statuses that are counted.
LEMMA FromShape ==
  /\ \A target \in Targets : "REFUNDED" \notin From(target)
  /\ From("RECEIVED") = {"APPROVED", "IN_TRANSIT"}
  /\ From("REFUNDED") = {"APPROVED", "RECEIVED"}
  /\ \A target \in Targets \ {"RECEIVED"} : "RECEIVED" \notin From(target)
  /\ \A target \in Targets \cup {"REFUNDED"} :
       From(target) \cap {"none", "REJECTED", "CANCELLED"} = {}
  BY DEF From, Targets

\* Calls of execute, as far as the contract lets them move.
LEMMA RunShape ==
  ASSUME ReturnTypes, NEW c \in Calls, RefundRuns(c)
  PROVE  /\ phase' \in [Calls -> {"open", "given", "booked", "refused"}]
         /\ sum' \in [Calls -> Nat]
         /\ \A d \in Calls \ {c} : phase'[d] = phase[d] /\ sum'[d] = sum[d]
         /\ \/ phase[c] = "given" /\ phase'[c] = "booked" /\ sum'[c] = sum[c]
            \/ phase[c] = "open" /\ phase'[c] = "refused" /\ sum'[c] = sum[c]
            \/ /\ phase[c] = "open" /\ phase'[c] = "given"
               /\ returnOf[c] # NoReturn => sum'[c] = Requested(returnOf[c])
         /\ UNCHANGED returnVars
<1> USE DEF ReturnTypes
<1>1. CASE Settle(c) \/ Decline(c)
  BY <1>1 DEF RefundRuns, Settle, Decline
<1>2. CASE \E n \in 1 .. Total[About[c]] :
             Give(c, n) /\ (returnOf[c] # NoReturn => n = Requested(returnOf[c]))
  <2>1. PICK n \in 1 .. Total[About[c]] :
          Give(c, n) /\ (returnOf[c] # NoReturn => n = Requested(returnOf[c]))
    BY <1>2
  <2>2. n \in Nat
    OBVIOUS
  <2> QED
    BY <2>1, <2>2 DEF RefundRuns, Give
<1> QED
  BY <1>1, <1>2 DEF RefundRuns

LEMMA ReturnTypesStep == ReturnTypes /\ [ReturnsNext]_allVars => ReturnTypes'
<1> SUFFICES ASSUME ReturnTypes, [ReturnsNext]_allVars PROVE ReturnTypes'
  OBVIOUS
<1> USE ReturnsAssumption DEF ReturnTypes, contractVars, historyVars
<1>1. ASSUME NEW c \in Calls, RefundRuns(c)
      PROVE  ReturnTypes'
  BY <1>1, RunShape DEF returnVars
<1>2. ASSUME NEW c \in Calls, RefundWrite(c)
      PROVE  ReturnTypes'
  BY <1>2 DEF RefundWrite, WriteReturn
<1>3. ASSUME NEW c \in Calls, NEW t \in Returns, RefundRead(c, t)
      PROVE  ReturnTypes'
  BY <1>3 DEF RefundRead
<1>4. ASSUME NEW h \in Handlers, NEW t \in Returns, CreateRead(h, t)
      PROVE  ReturnTypes'
  <2>1. /\ task' = [task EXCEPT ![h] = [at |-> "create", return |-> t, used |-> Used(Origin[t])]]
        /\ Used(Origin[t]) + Units[t] <= Bought[Origin[t]]
        /\ UNCHANGED <<contractVars, ret, back, returnOf, closed>>
    BY <1>4 DEF CreateRead, Take
  <2> QED
    BY <2>1
<1>5. ASSUME NEW h \in Handlers, NEW t \in Returns, NEW target \in Targets, MoveRead(h, t, target)
      PROVE  ReturnTypes'
  BY <1>5 DEF MoveRead, Take
<1>6. ASSUME NEW h \in Handlers, CreateWrite(h)
      PROVE  ReturnTypes'
  BY <1>6 DEF CreateWrite, Done
<1>7. ASSUME NEW h \in Handlers, MoveWrite(h)
      PROVE  ReturnTypes'
  <2> DEFINE t == task[h].return
  <2>1. t \in Returns /\ task[h].target \in Targets
    BY <1>7 DEF MoveWrite
  <2>2. back' \in [Orders -> Nat]
    <3>1. CASE back' = [back EXCEPT ![Origin[t]] = @ + Units[t]]
      <4>1. Origin[t] \in Orders /\ back[Origin[t]] + Units[t] \in Nat
        BY <2>1
      <4> HIDE DEF t
      <4> QED
        BY <3>1, <4>1
    <3> QED
      BY <1>7, <3>1 DEF MoveWrite
  <2>3. ret' = [ret EXCEPT ![t] = task[h].target] /\ task' = [task EXCEPT ![h] = [at |-> "idle"]]
    BY <1>7 DEF MoveWrite, WriteReturn, Done
  <2>4. UNCHANGED <<contractVars, returnOf, closed>>
    BY <1>7 DEF MoveWrite
  <2> QED
    BY <2>1, <2>2, <2>3, <2>4
<1>8. CASE UNCHANGED allVars
  BY <1>8 DEF allVars, returnVars
<1> QED
  BY <1>1, <1>2, <1>3, <1>4, <1>5, <1>6, <1>7, <1>8 DEF ReturnsNext

\* Returns of an order that have taken units of it.
InUse(o) == {t \in Returns : Origin[t] = o /\ ret[t] \notin {"none", "REJECTED", "CANCELLED"}}

\* Writing a status, with the units that receive puts back, keeps the count.
LEMMA UnitsWrite ==
  ASSUME ReturnTypes, UnitsCounted, NEW t \in Returns, NEW target \in Targets \cup {"REFUNDED"},
         WriteReturn(t, target), crowded' = crowded,
         \/ back' = back
         \/ target = "RECEIVED" /\ back' = [back EXCEPT ![Origin[t]] = @ + Units[t]]
  PROVE  UnitsCounted'
<1> SUFFICES ASSUME NEW o \in Orders \ crowded, \A x \in stale' : Origin[x] # o
             PROVE  /\ back'[o] <= SumFunctionOnSet(Units, CameBack(o)')
                    /\ SumFunctionOnSet(Units, InUse(o)') <= Bought[o]
  BY DEF UnitsCounted, Used, InUse
<1>1. /\ ret' = [ret EXCEPT ![t] = target]
      /\ stale' = IF ret[t] \in From(target) THEN stale ELSE stale \cup {t}
  BY DEF WriteReturn
<1>2. \A x \in stale : Origin[x] # o
  BY <1>1
<1> DEFINE came == SumFunctionOnSet(Units, CameBack(o))
           used == SumFunctionOnSet(Units, InUse(o))
<1>3. back[o] <= came /\ used <= Bought[o]
  BY <1>2 DEF UnitsCounted, Used, InUse
<1>4. /\ came \in Nat /\ used \in Nat /\ back[o] \in Nat /\ Bought[o] \in Nat
      /\ SumFunctionOnSet(Units, CameBack(o)') \in Nat
      /\ SumFunctionOnSet(Units, InUse(o)') \in Nat
  <2>1. /\ CameBack(o) \in SUBSET Returns /\ CameBack(o)' \in SUBSET Returns
        /\ InUse(o) \in SUBSET Returns /\ InUse(o)' \in SUBSET Returns
    BY DEF CameBack, InUse
  <2> QED
    BY <2>1, ReturnSums, ReturnsAssumption DEF ReturnTypes
<1>5. CASE Origin[t] # o
  <2>1. CameBack(o)' = CameBack(o) /\ InUse(o)' = InUse(o)
    BY <1>1, <1>5 DEF CameBack, InUse, ReturnTypes
  <2>2. back'[o] = back[o]
    BY <1>5 DEF ReturnTypes
  <2> QED
    BY <1>3, <2>1, <2>2
<1>6. CASE Origin[t] = o
  <2>1. ret[t] \in From(target)
    BY <1>1, <1>6
  <2>2. \A x \in Returns : ret'[x] = IF x = t THEN target ELSE ret[x]
    BY <1>1 DEF ReturnTypes
  <2>3. CASE target = "RECEIVED"
    <3>1. ret[t] \in {"APPROVED", "IN_TRANSIT"}
      BY <2>1, <2>3, FromShape
    <3>2. CameBack(o)' = CameBack(o) \cup {t} /\ t \notin CameBack(o) /\ InUse(o)' = InUse(o)
      BY <1>6, <2>2, <2>3, <3>1 DEF CameBack, InUse
    <3>3. SumFunctionOnSet(Units, CameBack(o) \cup {t}) = Units[t] + came
      <4>1. IsFiniteSet(CameBack(o)) /\ \A x \in CameBack(o) \cup {t} : Units[x] \in Nat
        BY ReturnSums, ReturnsAssumption DEF CameBack
      <4> QED
        BY <3>2, <4>1, SumAdd
    <3>4. back'[o] <= back[o] + Units[t]
      <4>1. Units[t] \in Nat
        BY ReturnsAssumption
      <4> QED
        BY <1>4, <1>6, <4>1 DEF ReturnTypes
    <3>5. Units[t] \in Nat /\ back'[o] \in Nat
      BY <1>4, <1>6, ReturnsAssumption DEF ReturnTypes
    <3> HIDE DEF came, used
    <3>6. \A m, n, u \in Nat : m <= n => m + u <= u + n
      OBVIOUS
    <3>7. back[o] + Units[t] <= Units[t] + came
      BY <1>3, <1>4, <3>5, <3>6
    <3>8. back'[o] <= Units[t] + came
      BY <1>4, <3>4, <3>5, <3>7
    <3> QED
      BY <1>3, <3>2, <3>3, <3>8 DEF used
  <2>4. CASE target = "REFUNDED"
    <3>1. ret[t] \in {"APPROVED", "RECEIVED"} /\ back' = back
      BY <2>1, <2>4, FromShape
    <3>2. CameBack(o) \in SUBSET CameBack(o)' /\ InUse(o)' = InUse(o)
      BY <1>6, <2>2, <2>4, <3>1 DEF CameBack, InUse
    <3>3. came <= SumFunctionOnSet(Units, CameBack(o)')
      <4>1. IsFiniteSet(CameBack(o)') /\ \A x \in CameBack(o)' : Units[x] \in Nat
        BY ReturnSums DEF CameBack
      <4> QED
        BY <3>2, <4>1, SumSubset
    <3> QED
      BY <1>3, <1>4, <3>1, <3>2, <3>3
  <2>5. CASE target \in Targets \ {"RECEIVED"}
    <3>1. /\ back' = back /\ ret[t] \notin {"none", "REJECTED", "CANCELLED"}
          /\ ret[t] \notin {"RECEIVED", "REFUNDED"} /\ target \notin {"RECEIVED", "REFUNDED"}
      BY <2>1, <2>5, FromShape DEF Targets
    <3>2. CameBack(o)' = CameBack(o) /\ InUse(o)' \in SUBSET InUse(o)
      BY <1>6, <2>2, <3>1 DEF CameBack, InUse
    <3>3. SumFunctionOnSet(Units, InUse(o)') <= used
      <4>1. IsFiniteSet(InUse(o)) /\ \A x \in InUse(o) : Units[x] \in Nat
        BY ReturnSums DEF InUse
      <4> QED
        BY <3>2, <4>1, SumSubset
    <3> QED
      BY <1>3, <1>4, <3>1, <3>2, <3>3
  <2> QED
    BY <2>3, <2>4, <2>5
<1> QED
  BY <1>5, <1>6

\* A return created from a count that still holds takes units that are left.
LEMMA UnitsCreate ==
  ASSUME ReturnTypes, UnitsCounted, NEW h \in Handlers, CreateWrite(h)
  PROVE  UnitsCounted'
<1> DEFINE t == task[h].return
<1>1. /\ t \in Returns /\ ret[t] = "none" /\ ret' = [ret EXCEPT ![t] = "REQUESTED"]
      /\ task[h].used + Units[t] <= Bought[Origin[t]]
      /\ crowded' = IF Used(Origin[t]) = task[h].used THEN crowded ELSE crowded \cup {Origin[t]}
      /\ back' = back /\ stale' = stale
  BY DEF CreateWrite, ReturnTypes
<1> HIDE DEF t
<1> SUFFICES ASSUME NEW o \in Orders \ crowded', \A x \in stale : Origin[x] # o
             PROVE  /\ back[o] <= SumFunctionOnSet(Units, CameBack(o)')
                    /\ SumFunctionOnSet(Units, InUse(o)') <= Bought[o]
  BY <1>1 DEF UnitsCounted, Used, InUse
<1>2. o \in Orders \ crowded
  BY <1>1
<1>3. /\ back[o] <= SumFunctionOnSet(Units, CameBack(o))
      /\ SumFunctionOnSet(Units, InUse(o)) <= Bought[o]
  BY <1>2 DEF UnitsCounted, Used, InUse
<1>4. \A x \in Returns : ret'[x] = IF x = t THEN "REQUESTED" ELSE ret[x]
  BY <1>1 DEF ReturnTypes
<1>5. CameBack(o)' = CameBack(o)
  BY <1>1, <1>4 DEF CameBack
<1>6. CASE Origin[t] # o
  <2>1. InUse(o)' = InUse(o)
    BY <1>4, <1>6 DEF InUse
  <2> QED
    BY <1>3, <1>5, <2>1
<1>7. CASE Origin[t] = o
  <2>1. InUse(o)' = InUse(o) \cup {t} /\ t \notin InUse(o)
    BY <1>1, <1>4, <1>7 DEF InUse
  <2>2. SumFunctionOnSet(Units, InUse(o) \cup {t}) = Units[t] + SumFunctionOnSet(Units, InUse(o))
    <3>1. IsFiniteSet(InUse(o)) /\ \A x \in InUse(o) \cup {t} : Units[x] \in Nat
      BY <1>1, ReturnSums, ReturnsAssumption DEF InUse
    <3> QED
      BY <2>1, <3>1, SumAdd
  <2>3. SumFunctionOnSet(Units, InUse(o)) = task[h].used
    BY <1>1, <1>7 DEF Used, InUse
  <2>4. SumFunctionOnSet(Units, InUse(o)) \in Nat /\ Units[t] \in Nat
    BY <1>1, ReturnSums, ReturnsAssumption DEF InUse
  <2>5. SumFunctionOnSet(Units, InUse(o)) + Units[t] <= Bought[o]
    BY <1>1, <1>7, <2>3
  <2>6. \A m, n \in Nat : m + n = n + m
    OBVIOUS
  <2>7. SumFunctionOnSet(Units, InUse(o)') <= Bought[o]
    BY <2>1, <2>2, <2>4, <2>5, <2>6
  <2> QED
    BY <1>3, <1>5, <2>7
<1> QED
  BY <1>6, <1>7

LEMMA UnitsStep == ReturnTypes /\ UnitsCounted /\ [ReturnsNext]_allVars => UnitsCounted'
<1> SUFFICES ASSUME ReturnTypes, UnitsCounted, [ReturnsNext]_allVars PROVE UnitsCounted'
  OBVIOUS
<1>1. ASSUME UNCHANGED <<ret, back, crowded, stale>>
      PROVE  UnitsCounted'
  BY <1>1 DEF UnitsCounted, CameBack, Used
<1>2. ASSUME NEW c \in Calls, RefundRuns(c) \/ \E t \in Returns : RefundRead(c, t)
      PROVE  UnitsCounted'
  BY <1>1, <1>2 DEF RefundRuns, RefundRead, returnVars, historyVars
<1>3. ASSUME NEW c \in Calls, RefundWrite(c)
      PROVE  UnitsCounted'
  <2>1. returnOf[c] \in Returns
    BY <1>3 DEF RefundWrite, ReturnTypes
  <2> QED
    BY <1>3, <2>1, UnitsWrite DEF RefundWrite
<1>4. ASSUME NEW h \in Handlers, NEW t \in Returns,
             CreateRead(h, t) \/ \E target \in Targets : MoveRead(h, t, target)
      PROVE  UnitsCounted'
  BY <1>1, <1>4 DEF CreateRead, MoveRead, historyVars
<1>5. ASSUME NEW h \in Handlers, MoveWrite(h)
      PROVE  UnitsCounted'
  <2>1. task[h].return \in Returns /\ task[h].target \in Targets
    BY <1>5 DEF MoveWrite, ReturnTypes
  <2> QED
    BY <1>5, <2>1, UnitsWrite DEF MoveWrite
<1>6. CASE UNCHANGED allVars
  BY <1>1, <1>6 DEF allVars, returnVars, historyVars
<1> QED
  BY <1>2, <1>3, <1>4, <1>5, <1>6, UnitsCreate DEF ReturnsNext

LEMMA CallsStep ==
  ReturnTypes /\ CallsPay /\ OneCall /\ [ReturnsNext]_allVars => CallsPay' /\ OneCall'
<1> SUFFICES ASSUME ReturnTypes, CallsPay, OneCall, [ReturnsNext]_allVars
             PROVE  CallsPay' /\ OneCall'
  OBVIOUS
<1> USE ReturnsAssumption DEF contractVars, historyVars
<1>1. ASSUME NEW c \in Calls, RefundRuns(c)
      PROVE  CallsPay' /\ OneCall'
  <2>1. /\ \A d \in Calls \ {c} : phase'[d] = phase[d] /\ sum'[d] = sum[d]
        /\ \/ phase[c] = "given" /\ phase'[c] = "booked" /\ sum'[c] = sum[c]
           \/ phase[c] = "open" /\ phase'[c] = "refused" /\ sum'[c] = sum[c]
           \/ /\ phase[c] = "open" /\ phase'[c] = "given"
              /\ returnOf[c] # NoReturn => sum'[c] = Requested(returnOf[c])
    BY <1>1, RunShape
  <2>2. UNCHANGED <<ret, returnOf, closed, stale, together>>
    BY <1>1 DEF RefundRuns, returnVars
  <2>3. \A d \in Calls : /\ phase[d] = "booked" => phase'[d] = "booked"
                         /\ phase[d] = "refused" => phase'[d] = "refused"
    BY <2>1
  <2>4. CallsPay'
    BY <2>1, <2>2, <2>3 DEF CallsPay, Requested
  <2>5. OneCall'
    BY <2>2, <2>3 DEF OneCall
  <2> QED
    BY <2>4, <2>5
<1>2. ASSUME NEW c \in Calls, RefundWrite(c)
      PROVE  CallsPay' /\ OneCall'
  <2>1. PICK t \in Returns : t = returnOf[c]
    BY <1>2 DEF RefundWrite, ReturnTypes
  <2>2. /\ phase[c] = "booked" /\ closed' = closed \cup {c}
        /\ \A x \in Returns : ret'[x] = IF x = t THEN "REFUNDED" ELSE ret[x]
        /\ stale \subseteq stale' /\ UNCHANGED <<phase, sum, returnOf, together>>
    BY <1>2, <2>1 DEF RefundWrite, WriteReturn, ReturnTypes
  <2>3. CallsPay'
    BY <2>1, <2>2 DEF CallsPay, Requested
  <2>4. OneCall'
    BY <2>1, <2>2 DEF OneCall
  <2> QED
    BY <2>3, <2>4
<1>3. ASSUME NEW c \in Calls, NEW t \in Returns, RefundRead(c, t)
      PROVE  CallsPay' /\ OneCall'
  <2>1. /\ returnOf[c] = NoReturn /\ phase[c] = "open" /\ t # NoReturn
        /\ \A d \in Calls : returnOf'[d] = IF d = c THEN t ELSE returnOf[d]
        /\ together' = IF UnderWay(t) = {} THEN together ELSE together \cup {t}
        /\ UNCHANGED <<phase, sum, ret, closed, stale>>
    BY <1>3 DEF RefundRead, ReturnTypes
  <2>2. ret[t] # "REFUNDED"
    BY <1>3, FromShape DEF RefundRead
  <2>3. c \notin closed
    BY <2>1 DEF ReturnTypes
  <2>4. CallsPay'
    BY <2>1 DEF CallsPay, Requested
  <2>5. ASSUME t \notin stale, t \notin together', NEW d \in Calls, returnOf[d] = t
        PROVE  phase[d] = "refused"
    <3>1. d \notin closed
      BY <2>2, <2>5 DEF OneCall
    <3>2. UnderWay(t) = {}
      BY <2>1, <2>5
    <3> QED
      BY <2>5, <3>1, <3>2 DEF UnderWay
  <2>6. ASSUME NEW x \in Returns \ stale, x \notin together', NEW d \in Calls, NEW e \in Calls,
               returnOf'[d] = x, returnOf'[e] = x, phase[d] # "refused", phase[e] # "refused"
        PROVE  d = e
    <3>1. CASE x = t
      BY <2>1, <2>5, <2>6, <3>1
    <3>2. CASE x # t
      <4>1. returnOf[d] = x /\ returnOf[e] = x /\ x \notin together
        BY <2>1, <2>6, <3>2
      <4> QED
        BY <2>6, <4>1 DEF OneCall
    <3> QED
      BY <3>1, <3>2
  <2>7. \A x \in Returns \ stale : \A d \in closed : returnOf'[d] = x => ret[x] = "REFUNDED"
    BY <2>1, <2>3 DEF OneCall, ReturnTypes
  <2>8. OneCall'
    BY <2>1, <2>6, <2>7 DEF OneCall
  <2> QED
    BY <2>4, <2>8
<1>4. ASSUME NEW h \in Handlers, CreateWrite(h) \/ MoveWrite(h)
      PROVE  CallsPay' /\ OneCall'
  <2>1. PICK t \in Returns, target \in Targets :
          /\ ret' = [ret EXCEPT ![t] = target] \/ ret' = [ret EXCEPT ![t] = "REQUESTED"]
          /\ stale \subseteq stale'
          /\ t \notin stale' => ret[t] # "REFUNDED"
    <3>1. CASE CreateWrite(h)
      BY <3>1 DEF CreateWrite, ReturnTypes, Targets
    <3>2. CASE MoveWrite(h)
      <4>1. task[h].return \in Returns /\ task[h].target \in Targets
        BY <3>2 DEF MoveWrite, ReturnTypes
      <4>2. PICK t \in Returns, target \in Targets : t = task[h].return /\ target = task[h].target
        BY <4>1
      <4>3. /\ ret' = [ret EXCEPT ![t] = target]
            /\ stale' = IF ret[t] \in From(target) THEN stale ELSE stale \cup {t}
        BY <3>2, <4>2 DEF MoveWrite, WriteReturn
      <4>4. t \notin stale' => ret[t] # "REFUNDED"
        BY <4>3, FromShape
      <4> QED
        BY <4>3, <4>4
    <3> QED
      BY <1>4, <3>1, <3>2
  <2>2. \A x \in Returns : /\ ret'[x] = "REFUNDED" => ret[x] = "REFUNDED"
                           /\ x # t => ret'[x] = ret[x]
    BY <2>1 DEF ReturnTypes, Targets
  <2>3. UNCHANGED <<phase, sum, returnOf, closed, together>>
    BY <1>4 DEF CreateWrite, MoveWrite
  <2>4. CallsPay'
    BY <2>2, <2>3 DEF CallsPay, Requested
  <2>5. OneCall'
    BY <2>1, <2>2, <2>3 DEF OneCall
  <2> QED
    BY <2>4, <2>5
<1>5. ASSUME UNCHANGED <<phase, sum, ret, returnOf, closed, stale, together>>
      PROVE  CallsPay' /\ OneCall'
  BY <1>5 DEF CallsPay, OneCall, Requested
<1>6. ASSUME NEW h \in Handlers, NEW t \in Returns,
             CreateRead(h, t) \/ \E target \in Targets : MoveRead(h, t, target)
      PROVE  CallsPay' /\ OneCall'
  BY <1>5, <1>6 DEF CreateRead, MoveRead
<1>7. CASE UNCHANGED allVars
  BY <1>5, <1>7 DEF allVars, returnVars
<1> QED
  BY <1>1, <1>2, <1>3, <1>4, <1>6, <1>7 DEF ReturnsNext

LEMMA ReturnInvInit == ReturnsInit => ReturnInv
<1> SUFFICES ASSUME ReturnsInit PROVE ReturnInv
  OBVIOUS
<1> USE ReturnsAssumption DEF ReturnsInit, ContractInit
<1>1. ReturnTypes
  BY DEF ReturnTypes
<1>2. UnitsCounted
  <2> SUFFICES ASSUME NEW o \in Orders
               PROVE  back[o] <= SumFunctionOnSet(Units, CameBack(o)) /\ Used(o) <= Bought[o]
    BY DEF UnitsCounted
  <2>1. CameBack(o) = {} /\ InUse(o) = {}
    BY DEF CameBack, InUse
  <2>2. SumFunctionOnSet(Units, CameBack(o)) = 0 /\ Used(o) = 0
    BY <2>1, SumEmpty DEF Used, InUse
  <2>3. back[o] = 0 /\ Bought[o] \in Nat
    OBVIOUS
  <2> QED
    BY <2>2, <2>3
<1>3. CallsPay /\ OneCall
  BY DEF CallsPay, OneCall
<1> QED
  BY <1>1, <1>2, <1>3 DEF ReturnInv

LEMMA ReturnInvInductive == ReturnsSpec => []ReturnInv
<1>1. ReturnInv /\ [ReturnsNext]_allVars => ReturnInv'
  BY ReturnTypesStep, UnitsStep, CallsStep DEF ReturnInv
<1> QED
  BY <1>1, ReturnInvInit, PTL DEF ReturnsSpec

\* receive puts back in stock no more units of an order than were bought, whatever returns
\* of it are created, moved and received, but for creations from a stale count and writes to
\* a return that had moved on.
THEOREM NoUnitTwice == ReturnsSpec => []UnitsComeBackOnce
<1>1. ASSUME ReturnInv, NEW o \in Orders \ crowded, \A t \in stale : Origin[t] # o
      PROVE  back[o] <= Bought[o]
  <2>1. back[o] <= SumFunctionOnSet(Units, CameBack(o)) /\ Used(o) <= Bought[o]
    BY <1>1 DEF ReturnInv, UnitsCounted
  <2>2. CameBack(o) \in SUBSET InUse(o)
    BY DEF CameBack, InUse
  <2>3. InUse(o) \in SUBSET Returns /\ CameBack(o) \in SUBSET Returns
    BY DEF InUse, CameBack
  <2>4. SumFunctionOnSet(Units, CameBack(o)) <= SumFunctionOnSet(Units, InUse(o))
    BY <2>2, <2>3, ReturnSums, SumSubset
  <2>5. /\ SumFunctionOnSet(Units, CameBack(o)) \in Nat
        /\ SumFunctionOnSet(Units, InUse(o)) \in Nat
        /\ back[o] \in Nat /\ Bought[o] \in Nat
    BY <1>1, <2>3, ReturnSums, ReturnsAssumption DEF ReturnInv, ReturnTypes
  <2> QED
    BY <2>1, <2>4, <2>5 DEF Used, InUse
<1>2. ReturnInv => UnitsComeBackOnce
  BY <1>1 DEF UnitsComeBackOnce
<1> QED
  BY <1>2, ReturnInvInductive, PTL

\* A return says REFUNDED only with its money booked (refund), and is paid what it asks for
\* at most, by whatever calls of execute and in whatever order they end, but for two of them
\* under way at once, one that died before it marked the return, or a stale write.
THEOREM ReturnPaidOnce == ReturnsSpec => []ReturnRefundedOnce
<1>1. ASSUME ReturnInv, NEW t \in Returns, t \notin together \cup stale
      PROVE  PaidFor(t) <= Requested(t)
  <2> DEFINE calls == {c \in Calls : returnOf[c] = t}
  <2> USE DEF ReturnInv
  <2>1. /\ IsFiniteSet(calls)
        /\ \A c \in calls : sum[c] \in Nat /\ (phase[c] = "refused" => sum[c] = 0)
    BY <1>1, ReturnsAssumption, FS_Subset DEF ReturnTypes, CallsPay
  <2>2. Requested(t) \in Nat
    BY RequestedNat
  <2>3. CASE \A c \in calls : phase[c] = "refused"
    <3>1. SumFunctionOnSet(sum, calls) = 0
      BY <2>1, <2>3, SumZero
    <3> QED
      BY <2>2, <3>1 DEF PaidFor
  <2>4. ASSUME NEW c \in calls, phase[c] # "refused"
        PROVE  PaidFor(t) <= Requested(t)
    <3>1. \A d \in calls \ {c} : sum[d] = 0
      BY <1>1, <2>1, <2>4 DEF OneCall
    <3>2. IsFiniteSet(calls \ {c})
      BY <2>1, FS_Subset
    <3>3. SumFunctionOnSet(sum, calls \ {c}) = 0
      BY <3>1, <3>2, SumZero
    <3>4. SumFunctionOnSet(sum, calls) = sum[c] + SumFunctionOnSet(sum, calls \ {c})
      BY <2>1, SumRemove
    <3>5. sum[c] \in {0, Requested(t)}
      BY <1>1, <2>4, ReturnsAssumption DEF CallsPay, ReturnTypes
    <3> HIDE DEF calls
    <3> QED
      BY <2>2, <3>3, <3>4, <3>5 DEF PaidFor, calls
  <2> QED
    BY <2>3, <2>4
<1>2. ReturnInv => ReturnRefundedOnce
  BY <1>1 DEF ReturnInv, CallsPay, ReturnRefundedOnce
<1> QED
  BY <1>2, ReturnInvInductive, PTL
=============================================================================
