------------------------------ MODULE Returns ------------------------------
(***************************************************************************)
(* returns/return.service.ts: requests to give units of delivered orders   *)
(* back, decided by the seller, received, put back in stock and refunded   *)
(* by calls of execute, of which RefundContract says what they promise.    *)
(*                                                                         *)
(* Every operation reads the request, checks its status and writes it by   *)
(* id.  The amount approved is the amount requested: units at the price    *)
(* of the order.                                                           *)
(***************************************************************************)
EXTENDS RefundContract

CONSTANTS
  Returns,     \* requests for a return
  Origin,      \* Origin[t]: the order it is about
  Units,       \* Units[t]: how many units it gives back
  Bought,      \* Bought[o]: units of order o
  Handlers,    \* HTTP requests under way on returns, their refund excepted
  NoReturn     \* stands for the return of a call of execute that refunds none

ASSUME ReturnsAssumption ==
  /\ IsFiniteSet(Calls) /\ IsFiniteSet(Returns)
  /\ Total \in [Orders -> Nat \ {0}] /\ About \in [Calls -> Orders]
  /\ Origin \in [Returns -> Orders]
  /\ Units \in [Returns -> Nat \ {0}] /\ Bought \in [Orders -> Nat \ {0}]
  /\ NoReturn \notin Returns

VARIABLES
  ret,         \* ret[t]: its status, "none" before it is created
  back,        \* back[o]: units of o put back in stock
  task,        \* task[h]: what handler h has read and is about to write
  returnOf,    \* returnOf[c]: the return that call c of execute refunds, or NoReturn
  closed,      \* refund calls that have marked their return
  crowded,     \* history: orders with a return created from a count that had changed
  stale,       \* history: returns written to a status that theirs did not allow
  together     \* history: returns with two refund calls under way at once

historyVars == <<crowded, stale, together>>
returnVars == <<ret, back, task, returnOf, closed, historyVars>>
allVars == <<contractVars, returnVars>>

\* The statuses from which each is reached; no handler writes the others of the table.
From(target) ==
  CASE target = "APPROVED"   -> {"REQUESTED"}
    [] target = "REJECTED"   -> {"REQUESTED"}
    [] target = "IN_TRANSIT" -> {"APPROVED"}
    [] target = "RECEIVED"   -> {"APPROVED", "IN_TRANSIT"}
    [] target = "CANCELLED"  -> {"REQUESTED", "APPROVED", "IN_TRANSIT"}
    [] target = "REFUNDED"   -> {"APPROVED", "RECEIVED"}

Requested(t) == Units[t] * (Total[Origin[t]] \div Bought[Origin[t]])

ReturnsInit ==
  /\ ContractInit
  /\ ret = [t \in Returns |-> "none"]
  /\ back = [o \in Orders |-> 0]
  /\ task = [h \in Handlers |-> [at |-> "idle"]]
  /\ returnOf = [c \in Calls |-> NoReturn]
  /\ closed = {}
  /\ crowded = {} /\ stale = {} /\ together = {}

\* Mutant: units that have come back can be returned again.
UsedAwaited(o) ==
  SumFunctionOnSet(Units,
    {t \in Returns : Origin[t] = o /\ ret[t] \in {"REQUESTED", "APPROVED", "IN_TRANSIT"}})

\* Units of an order that a return alive or settled has taken.
Used(o) ==
  SumFunctionOnSet(Units,
    {t \in Returns : Origin[t] = o /\ ret[t] \notin {"none", "REJECTED", "CANCELLED"}})

\* The order is REFUNDED, no longer DELIVERED or COMPLETED.
RefundedInFull(o) ==
  Total[o] = SumFunctionOnSet(sum, {c \in Calls : About[c] = o /\ phase[c] = "booked"})

Take(h, next) == task[h] = [at |-> "idle"] /\ task' = [task EXCEPT ![h] = next]
Done(h)       == task' = [task EXCEPT ![h] = [at |-> "idle"]]

\* create reads the order and the units other returns have taken, and inserts.
CreateRead(h, t) ==
  LET o == Origin[t] IN
  /\ ret[t] = "none" /\ ~RefundedInFull(o)
  /\ Used(o) + Units[t] <= Bought[o]
  /\ Take(h, [at |-> "create", return |-> t, used |-> Used(o)])
  /\ UNCHANGED <<contractVars, ret, back, returnOf, closed, historyVars>>

CreateWrite(h) ==
  LET t == task[h].return IN
  /\ task[h].at = "create" /\ ret[t] = "none"
  /\ ret' = [ret EXCEPT ![t] = "REQUESTED"]
  /\ crowded' = IF Used(Origin[t]) = task[h].used THEN crowded ELSE crowded \cup {Origin[t]}
  /\ Done(h)
  /\ UNCHANGED <<contractVars, back, returnOf, closed, stale, together>>

WriteReturn(t, target) ==
  /\ ret' = [ret EXCEPT ![t] = target]
  /\ stale' = IF ret[t] \in From(target) THEN stale ELSE stale \cup {t}

\* approve, reject, ship, receive and cancel: the read, and the check of the transition.
MoveRead(h, t, target) ==
  /\ ret[t] \in From(target)
  /\ Take(h, [at |-> "move", return |-> t, target |-> target])
  /\ UNCHANGED <<contractVars, ret, back, returnOf, closed, historyVars>>

\* The write, by id.  receive puts the units back in the same transaction, if asked to.
MoveWrite(h) ==
  LET t == task[h].return IN
  /\ task[h].at = "move"
  /\ WriteReturn(t, task[h].target)
  /\ \/ UNCHANGED back
     \/ /\ task[h].target = "RECEIVED"
        /\ back' = [back EXCEPT ![Origin[t]] = @ + Units[t]]
  /\ Done(h)
  /\ UNCHANGED <<contractVars, returnOf, closed, crowded, together>>

\* Refund calls of a return that have neither ended nor marked it: they run, or have died.
UnderWay(t) ==
  {c \in Calls \ closed : returnOf[c] = t /\ phase[c] # "refused"}

\* Mutant: a return that was refunded can be again.
RefundReadAgain(c, t) ==
  /\ returnOf[c] = NoReturn /\ phase[c] = "open" /\ About[c] = Origin[t]
  /\ ret[t] \in From("REFUNDED") \cup {"REFUNDED"}
  /\ returnOf' = [returnOf EXCEPT ![c] = t]
  /\ together' = IF UnderWay(t) = {} THEN together ELSE together \cup {t}
  /\ UNCHANGED <<contractVars, ret, back, task, closed, crowded, stale>>

\* refund reads the return and calls execute.
RefundRead(c, t) ==
  /\ returnOf[c] = NoReturn /\ phase[c] = "open" /\ About[c] = Origin[t]
  /\ ret[t] \in From("REFUNDED")
  /\ returnOf' = [returnOf EXCEPT ![c] = t]
  /\ together' = IF UnderWay(t) = {} THEN together ELSE together \cup {t}
  /\ UNCHANGED <<contractVars, ret, back, task, closed, crowded, stale>>

\* execute at work: with the amount approved for the return, or any amount of the
\* administration's own.
RefundRuns(c) ==
  /\ \/ Settle(c) \/ Decline(c)
     \/ \E n \in 1 .. Total[About[c]] :
          Give(c, n) /\ (returnOf[c] # NoReturn => n = Requested(returnOf[c]))
  /\ UNCHANGED returnVars

\* execute has returned: the return is marked, by id.
RefundWrite(c) ==
  /\ phase[c] = "booked" /\ returnOf[c] # NoReturn /\ c \notin closed
  /\ WriteReturn(returnOf[c], "REFUNDED")
  /\ closed' = closed \cup {c}
  /\ UNCHANGED <<contractVars, back, task, returnOf, crowded, together>>

Targets == {"APPROVED", "REJECTED", "IN_TRANSIT", "RECEIVED", "CANCELLED"}

ReturnsNext ==
  \/ \E c \in Calls : RefundRuns(c) \/ RefundWrite(c) \/ \E t \in Returns : RefundRead(c, t)
  \/ \E h \in Handlers, t \in Returns :
       CreateRead(h, t) \/ \E target \in Targets : MoveRead(h, t, target)
  \/ \E h \in Handlers : CreateWrite(h) \/ MoveWrite(h)

ReturnsSpec == ReturnsInit /\ [][ReturnsNext]_allVars
-----------------------------------------------------------------------------
(***************************************************************************)
(* Properties.                                                             *)
(***************************************************************************)

\* No unit is put back in stock twice: an order gives back at most what was bought, unless two
\* returns were created from the same count or a return was moved by a request that had read
\* it before another one moved it.
UnitsComeBackOnce ==
  \A o \in Orders \ crowded :
    (\A t \in stale : Origin[t] # o) => back[o] <= Bought[o]

PaidFor(t) == SumFunctionOnSet(sum, {c \in Calls : returnOf[c] = t})

\* A return is marked REFUNDED only with its money booked, and it is refunded once, as
\* return.service.ts promises: only two refunds under way at once, a refund that died before it
\* marked the return, or a stale write lets a second one out.
ReturnRefundedOnce ==
  \A t \in Returns :
    /\ ret[t] = "REFUNDED" => \E c \in Calls : returnOf[c] = t /\ phase[c] = "booked"
    /\ t \notin together \cup stale => PaidFor(t) <= Requested(t)
=============================================================================
