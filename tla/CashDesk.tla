------------------------------ MODULE CashDesk ------------------------------
(***************************************************************************)
(* Cash on delivery (cod.service.ts, payment.routes.ts) for one payment:   *)
(* the seller takes the collection on, then states that the money was      *)
(* handed over, or that it was not.  The route that states the collection  *)
(* is wrapped in the middleware of IdempotencyKeys; the sale is booked by  *)
(* applySuccess, after the collection was committed.                       *)
(*                                                                         *)
(* Every operation reads the collection, checks it and writes it by id;    *)
(* failing writes the collection and the payment in two commits.           *)
(* applySuccess is what PaymentEvents checks it to be: it books the sale   *)
(* once, and its transaction commits as a whole.                           *)
(***************************************************************************)
EXTENDS IdempotencyKeys, Integers

CONSTANTS
  Confirms,    \* requests to confirm
  Failures,    \* requests to state that the money was not handed over
  MaxFaults    \* bound: requests that die or whose database call throws

ASSUME CashAssumption ==
  /\ MaxFaults \in Nat
  /\ Requests \cap Confirms = {} /\ Requests \cap Failures = {} /\ Confirms \cap Failures = {}

VARIABLES
  collection,  \* status of the collection
  payment,     \* status of the payment
  ledger,      \* "sale" once the sale is in it, "empty" before
  step,        \* step[r]: how far request r is in its handler
  crossed,     \* history: requests that wrote over another end of the collection
  broken,      \* history: requests that ended between the collection and the sale
  faults

deskVars == <<collection, payment, ledger, step, crossed, broken, faults>>
vars == <<keyVars, deskVars>>

Init ==
  /\ KeyInit
  /\ collection = "COD_PENDING" /\ payment = "PENDING" /\ ledger = "empty"
  /\ step = [r \in Requests \cup Confirms \cup Failures |-> "start"]
  /\ crossed = {} /\ broken = {} /\ faults = 0

Advance(r, s) == step' = [step EXCEPT ![r] = s]

Ended == {"COD_COLLECTED", "COD_FAILED"}

Write(r, status) ==
  /\ collection' = status
  /\ crossed' = IF collection \in Ended \ {status} THEN crossed \cup {r} ELSE crossed

-----------------------------------------------------------------------------
(***************************************************************************)
(* POST /payments/:id/cash/collect.                                        *)
(***************************************************************************)
Handles(r, s) == at[r] = "handling" /\ step[r] = s

\* A collection that ended is refused.
CollectRead(r) ==
  /\ Handles(r, "start")
  /\ Advance(r, IF collection \in Ended THEN "error" ELSE "checked")
  /\ UNCHANGED <<keyVars, collection, payment, ledger, crossed, broken, faults>>

\* By id.
CollectWrite(r) ==
  /\ Handles(r, "checked")
  /\ Write(r, "COD_COLLECTED")
  /\ Advance(r, "collected")
  /\ UNCHANGED <<keyVars, payment, ledger, broken, faults>>

\* Mutant: any payment that has a verdict is taken for applied.
ApplyReadVerdict(r) ==
  /\ Handles(r, "collected")
  /\ Advance(r, IF payment # "PENDING" THEN "done" ELSE "applying")
  /\ UNCHANGED <<keyVars, collection, payment, ledger, crossed, broken, faults>>

\* applySuccess has nothing to do for a payment that says SUCCEEDED.
ApplyRead(r) ==
  /\ Handles(r, "collected")
  /\ Advance(r, IF payment = "SUCCEEDED" THEN "done" ELSE "applying")
  /\ UNCHANGED <<keyVars, collection, payment, ledger, crossed, broken, faults>>

ApplyCommit(r) ==
  /\ Handles(r, "applying")
  /\ payment' = "SUCCEEDED" /\ ledger' = "sale"
  /\ Advance(r, "done")
  /\ UNCHANGED <<keyVars, collection, crossed, broken, faults>>

Respond(r) ==
  /\ step[r] \in {"done", "error"}
  /\ Answer(r, step[r] = "done")
  /\ UNCHANGED deskVars

\* A call of the database throws, and the error handler answers; or the request dies with its
\* process, and leaves its key in progress.
Fault(r) ==
  /\ at[r] = "handling" /\ step[r] \notin {"done", "error"}
  /\ faults < MaxFaults
  /\ faults' = faults + 1
  /\ broken' = IF step[r] \in {"collected", "applying"} THEN broken \cup {r} ELSE broken
  /\ UNCHANGED <<collection, payment, ledger, crossed>>

Throw(r) == Fault(r) /\ Advance(r, "error") /\ UNCHANGED keyVars
Die(r)   == Fault(r) /\ Goto(r, "lost") /\ UNCHANGED <<key, unguarded, step>>

-----------------------------------------------------------------------------
(***************************************************************************)
(* confirm and fail, which no key protects.                                *)
(***************************************************************************)
ConfirmRead(c) ==
  /\ step[c] = "start"
  /\ Advance(c, IF collection = "COD_PENDING" THEN "checked" ELSE "error")
  /\ UNCHANGED <<keyVars, collection, payment, ledger, crossed, broken, faults>>

ConfirmWrite(c) ==
  /\ step[c] = "checked"
  /\ Write(c, "COD_CONFIRMED")
  /\ Advance(c, "done")
  /\ UNCHANGED <<keyVars, payment, ledger, broken, faults>>

\* A collection already failed may be failed again.
FailRead(f) ==
  /\ step[f] = "start"
  /\ Advance(f, IF collection = "COD_COLLECTED" THEN "error" ELSE "checked")
  /\ UNCHANGED <<keyVars, collection, payment, ledger, crossed, broken, faults>>

\* Mutant: the payment is failed before the collection.
FailPaymentFirst(f) ==
  /\ step[f] = "checked"
  /\ payment' = "FAILED"
  /\ Advance(f, "written")
  /\ UNCHANGED <<keyVars, collection, ledger, crossed, broken, faults>>

FailWrite(f) ==
  /\ step[f] = "checked"
  /\ Write(f, "COD_FAILED")
  /\ Advance(f, "written")
  /\ UNCHANGED <<keyVars, payment, ledger, broken, faults>>

FailPayment(f) ==
  /\ step[f] = "written"
  /\ payment' = "FAILED"
  /\ Advance(f, "done")
  /\ UNCHANGED <<keyVars, collection, ledger, crossed, broken, faults>>

Collect(r) ==
  \/ CollectRead(r) \/ CollectWrite(r) \/ ApplyRead(r) \/ ApplyCommit(r)
  \/ Respond(r) \/ Throw(r) \/ Die(r)

Middleware(r) == Claim(r) \/ PassWithoutKey(r) \/ Lookup(r) \/ Reclaim(r)

Next ==
  \/ \E r \in Requests : (Middleware(r) /\ UNCHANGED deskVars) \/ Collect(r)
  \/ \E k \in Keys : Purge(k) /\ UNCHANGED deskVars
  \/ \E c \in Confirms : ConfirmRead(c) \/ ConfirmWrite(c)
  \/ \E f \in Failures : FailRead(f) \/ FailWrite(f) \/ FailPayment(f)

Spec == Init /\ [][Next]_vars
-----------------------------------------------------------------------------
(***************************************************************************)
(* Properties.                                                             *)
(***************************************************************************)

\* Every variable keeps its type.
TypeOK ==
  /\ KeyTypeOK
  /\ collection \in {"COD_PENDING", "COD_CONFIRMED", "COD_COLLECTED", "COD_FAILED"}
  /\ payment \in {"PENDING", "SUCCEEDED", "FAILED"}
  /\ ledger \in {"empty", "sale"}
  /\ crossed \subseteq Requests \cup Confirms \cup Failures
  /\ broken \subseteq Requests
  /\ step \in [Requests \cup Confirms \cup Failures ->
                 {"start", "checked", "collected", "applying", "written", "done", "error"}]
  /\ faults \in 0 .. MaxFaults
  /\ \A r \in Requests : at[r] \in {"idle", "known", "retrying"} => step[r] = "start"

Booking == {r \in Requests : at[r] = "handling" /\ step[r] \in {"collected", "applying"}}

\* The rule of cod.service.ts: an order is never said paid before the money has changed hands,
\* and once it has, the sale is booked.  Unless a stale write has replaced the end of the
\* collection by another, the sale, the payment and the collection agree; only a request that
\* broke off in between leaves cash without a sale.
CashAndBooksAgree ==
  crossed = {} =>
    /\ ledger = "sale" => payment = "SUCCEEDED" /\ collection = "COD_COLLECTED"
    /\ payment = "FAILED" => collection = "COD_FAILED"
    /\ collection = "COD_COLLECTED" => ledger = "sale" \/ Booking # {} \/ broken # {}

\* A replayed answer tells the truth: the key of a collection is COMPLETED only when its sale
\* is booked, whichever of its requests wrote it last.
ReplayIsTrue ==
  \A k \in Keys : key[k] = "COMPLETED" => ledger = "sale"
=============================================================================
