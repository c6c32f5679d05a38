------------------------------- MODULE Quotes -------------------------------
(***************************************************************************)
(* One request for quotation and the offers shops make for it              *)
(* (b2b.service.ts, negotiation.ts): revisions by the seller, requests by  *)
(* the buyer, rejection, withdrawal, expiry, acceptance, closing.          *)
(*                                                                         *)
(* Every operation reads the offer, checks what it read, and writes in a   *)
(* transaction.  Acceptance, rejection and withdrawal are conditional on   *)
(* the offer still being open; revisions, counter-proposals and the close  *)
(* of the request for quotation are written by id.                         *)
(*                                                                         *)
(* Lines and totals are versions: what is told apart is whether the lines  *)
(* of an offer are those its total was computed from.                      *)
(***************************************************************************)
EXTENDS Integers, Sequences, FiniteSets

CONSTANTS
  Offers,      \* one for each shop that may answer
  Requests,    \* requests under way
  MaxVersions  \* bound: offers, revisions and counter-proposals made in all

ASSUME QuotesAssumption == MaxVersions \in Nat

VARIABLES
  rfq,         \* status of the request for quotation
  status,      \* status[k]: status of the offer, "none" before it is made
  lines,       \* lines[k]: the versions its rows belong to
  total,       \* total[k]: the version of its total
  stale,       \* offers whose validUntil is past
  proposed,    \* offers that have a counter-proposal of the buyer with lines
  orders,      \* orders[k]: the orders made from it, in the order they were made
  request,     \* request[q]: what a request has read, and the step it is at
  version,     \* how many versions were made
  revived,     \* history: offers written COUNTERED when they were already closed
  late,        \* history: offers made when another had been accepted
  crossed,     \* history: offers two revisions of which rewrote the lines at once
  torn         \* history: offers revised while an acceptance had read their total and not
               \* yet their lines

offerVars   == <<status, lines, total>>
historyVars == <<revived, late, crossed, torn>>
vars == <<rfq, offerVars, stale, proposed, orders, request, version, historyVars>>

OpenStatus == {"SUBMITTED", "COUNTERED"}
Live(k)    == status[k] \in OpenStatus
Ordered    == {k \in Offers : orders[k] # <<>>}
Idle       == [at |-> "idle"]

Init ==
  /\ rfq = "OPEN"
  /\ status = [k \in Offers |-> "none"]
  /\ lines = [k \in Offers |-> {}]
  /\ total = [k \in Offers |-> 0]
  /\ stale = {} /\ proposed = {}
  /\ orders = [k \in Offers |-> <<>>]
  /\ request = [q \in Requests |-> Idle]
  /\ version = 0
  /\ revived = {} /\ late = {} /\ crossed = {} /\ torn = {}

Start(q, task) == request[q] = Idle /\ request' = [request EXCEPT ![q] = task]
Finish(q)      == request' = [request EXCEPT ![q] = Idle]
NextVersion    == version < MaxVersions /\ version' = version + 1

-----------------------------------------------------------------------------
(***************************************************************************)
(* createQuote: one offer for each shop, by a unique index.                *)
(***************************************************************************)
QuoteRead(q, k) ==
  /\ rfq \in {"OPEN", "QUOTED"} /\ status[k] = "none"
  /\ Start(q, [at |-> "quote", offer |-> k, rfq |-> rfq])
  /\ UNCHANGED <<rfq, offerVars, stale, proposed, orders, version, historyVars>>

\* Mutant: the offer is written without its lines.
QuoteHeader(q) ==
  LET k == request[q].offer IN
  /\ request[q].at = "quote" /\ status[k] = "none"
  /\ NextVersion
  /\ status' = [status EXCEPT ![k] = "SUBMITTED"]
  /\ total' = [total EXCEPT ![k] = version']
  /\ rfq' = IF request[q].rfq = "OPEN" THEN "QUOTED" ELSE rfq
  /\ late' = IF Ordered # {} THEN late \cup {k} ELSE late
  /\ Finish(q)
  /\ UNCHANGED <<lines, stale, proposed, orders, revived, crossed, torn>>

\* The first answer writes QUOTED by id.
QuoteCommit(q) ==
  LET k == request[q].offer IN
  /\ request[q].at = "quote" /\ status[k] = "none"
  /\ NextVersion
  /\ status' = [status EXCEPT ![k] = "SUBMITTED"]
  /\ lines' = [lines EXCEPT ![k] = {version'}]
  /\ total' = [total EXCEPT ![k] = version']
  /\ rfq' = IF request[q].rfq = "OPEN" THEN "QUOTED" ELSE rfq
  /\ late' = IF Ordered # {} THEN late \cup {k} ELSE late
  /\ Finish(q)
  /\ UNCHANGED <<stale, proposed, orders, revived, crossed, torn>>

QuoteDuplicate(q) ==
  /\ request[q].at = "quote" /\ status[request[q].offer] # "none"
  /\ Finish(q)
  /\ UNCHANGED <<rfq, offerVars, stale, proposed, orders, version, historyVars>>

-----------------------------------------------------------------------------
(***************************************************************************)
(* counter, applyProposal, negotiate.                                      *)
(***************************************************************************)

\* COUNTERED by id, whatever the offer has become since it was read.
Reopen(k) ==
  /\ status' = [status EXCEPT ![k] = "COUNTERED"]
  /\ revived' = IF Live(k) THEN revived ELSE revived \cup {k}

\* The seller revises the offer, with or without a new validity, or takes over what the buyer
\* proposed, for which the validity is not looked at.
ReviseRead(q, k, validity) ==
  /\ Live(k)
  /\ k \notin stale \/ (k \in proposed /\ validity = "kept")
  /\ Start(q, [at |-> "revise", offer |-> k, validity |-> validity])
  /\ UNCHANGED <<rfq, offerVars, stale, proposed, orders, version, historyVars>>

\* The first statement on the lines: it deletes those that are committed when it starts, and
\* waits for whoever is deleting them too.
ReviseDelete(q) ==
  LET k == request[q].offer
      rewriting == {x \in Requests \ {q} : request[x].at = "rewrite" /\ request[x].offer = k}
  IN
  /\ request[q].at = "revise"
  /\ request' = [request EXCEPT ![q] =
       [at |-> "rewrite", offer |-> k, validity |-> @.validity, deletes |-> lines[k]]]
  /\ crossed' = IF rewriting # {} THEN crossed \cup {k} ELSE crossed
  /\ UNCHANGED <<rfq, offerVars, stale, proposed, orders, version, revived, late, torn>>

\* Mutant: the new lines are added and the total is left.
ReviseLinesOnly(q) ==
  LET k == request[q].offer IN
  /\ request[q].at = "rewrite"
  /\ NextVersion
  /\ Reopen(k)
  /\ lines' = [lines EXCEPT ![k] = (@ \ request[q].deletes) \cup {version'}]
  /\ stale' = IF request[q].validity = "renewed" THEN stale \ {k} ELSE stale
  /\ Finish(q)
  /\ UNCHANGED <<rfq, total, proposed, orders, late, crossed, torn>>

\* An acceptance of offer k is between its two reads.
HalfRead(k) == \E x \in Requests : request[x].at = "items" /\ request[x].offer = k

ReviseCommit(q) ==
  LET k == request[q].offer IN
  /\ request[q].at = "rewrite"
  /\ NextVersion
  /\ Reopen(k)
  /\ lines' = [lines EXCEPT ![k] = (@ \ request[q].deletes) \cup {version'}]
  /\ total' = [total EXCEPT ![k] = version']
  /\ stale' = IF request[q].validity = "renewed" THEN stale \ {k} ELSE stale
  /\ torn' = IF HalfRead(k) THEN torn \cup {k} ELSE torn
  /\ Finish(q)
  /\ UNCHANGED <<rfq, proposed, orders, late, crossed>>

\* The buyer's counter, or a counter-offer by message: the offer keeps its lines and total.
AskRead(q, k) ==
  /\ Live(k) /\ k \notin stale
  /\ Start(q, [at |-> "ask", offer |-> k])
  /\ UNCHANGED <<rfq, offerVars, stale, proposed, orders, version, historyVars>>

\* A counter-offer by message names no lines and cannot be taken over.
AskCommit(q, withLines) ==
  LET k == request[q].offer IN
  /\ request[q].at = "ask"
  /\ NextVersion
  /\ Reopen(k)
  /\ proposed' = IF withLines THEN proposed \cup {k} ELSE proposed
  /\ Finish(q)
  /\ UNCHANGED <<rfq, lines, total, stale, orders, late, crossed, torn>>

-----------------------------------------------------------------------------
(***************************************************************************)
(* acceptQuote.                                                            *)
(***************************************************************************)

\* One findUnique, two statements: the offer with its total, then its lines.
AcceptRead(q, k) ==
  /\ Live(k) /\ k \notin stale
  /\ Start(q, [at |-> "items", offer |-> k, total |-> total[k]])
  /\ UNCHANGED <<rfq, offerVars, stale, proposed, orders, version, historyVars>>

AcceptItems(q) ==
  /\ request[q].at = "items"
  /\ request' = [request EXCEPT ![q] =
       [at |-> "accept", offer |-> @.offer, total |-> @.total, lines |-> lines[@.offer]]]
  /\ UNCHANGED <<rfq, offerVars, stale, proposed, orders, version, historyVars>>

\* Mutant: the amount is read again at the end.
OrderOfNow(q) == [lines |-> request[q].lines, total |-> total[request[q].offer]]

\* The order a request makes: the lines and the total it has read.
OrderOf(q) == [lines |-> request[q].lines, total |-> request[q].total]

\* Mutant: the competitors that are being negotiated are forgotten.
CompetitorsSubmitted(k) == {x \in Offers \ {k} : status[x] = "SUBMITTED"}

\* The offers of the other shops that are still open.
Competitors(k) == {x \in Offers \ {k} : Live(x)}

\* Mutant: the offer is not claimed.
AcceptUnclaimed(q) ==
  LET k == request[q].offer IN
  /\ request[q].at = "accept"
  /\ orders' = [orders EXCEPT ![k] = Append(@, OrderOf(q))]
  /\ status' = [x \in Offers |-> IF x = k THEN "ACCEPTED"
                                 ELSE IF x \in Competitors(k) THEN "REJECTED" ELSE status[x]]
  /\ rfq' = "AWARDED"
  /\ Finish(q)
  /\ UNCHANGED <<lines, total, stale, proposed, version, historyVars>>

\* One transaction: the order, the claim of the offer, the others rejected, the request for
\* quotation awarded whatever its status.
AcceptCommit(q) ==
  LET k == request[q].offer IN
  /\ request[q].at = "accept" /\ Live(k)
  /\ orders' = [orders EXCEPT ![k] = Append(@, OrderOf(q))]
  /\ status' = [x \in Offers |-> IF x = k THEN "ACCEPTED"
                                 ELSE IF x \in Competitors(k) THEN "REJECTED" ELSE status[x]]
  /\ rfq' = "AWARDED"
  /\ Finish(q)
  /\ UNCHANGED <<lines, total, stale, proposed, version, historyVars>>

\* The claim finds the offer closed: nothing is left of the transaction.
AcceptRefused(q) ==
  /\ request[q].at = "accept" /\ ~Live(request[q].offer)
  /\ Finish(q)
  /\ UNCHANGED <<rfq, offerVars, stale, proposed, orders, version, historyVars>>

-----------------------------------------------------------------------------
(***************************************************************************)
(* Ends of an offer, and of the request for quotation.                     *)
(***************************************************************************)

\* reject (by the buyer) and withdraw write on the condition they check: one step.
End(k, target) ==
  /\ Live(k)
  /\ status' = [status EXCEPT ![k] = target]
  /\ UNCHANGED <<rfq, lines, total, stale, proposed, orders, request, version, historyVars>>

Outdate(k) ==
  /\ Live(k) /\ k \notin stale
  /\ stale' = stale \cup {k}
  /\ UNCHANGED <<rfq, offerVars, proposed, orders, request, version, historyVars>>

\* expireStaleQuotes, on every read of a negotiation.
Expire ==
  /\ \E k \in stale : Live(k)
  /\ status' = [k \in Offers |-> IF k \in stale /\ Live(k) THEN "EXPIRED" ELSE status[k]]
  /\ UNCHANGED <<rfq, lines, total, stale, proposed, orders, request, version, historyVars>>

CloseRead(q) ==
  /\ rfq \in {"OPEN", "QUOTED"}
  /\ Start(q, [at |-> "close"])
  /\ UNCHANGED <<rfq, offerVars, stale, proposed, orders, version, historyVars>>

\* By id.
CloseCommit(q) ==
  /\ request[q].at = "close"
  /\ rfq' = "CLOSED"
  /\ Finish(q)
  /\ UNCHANGED <<offerVars, stale, proposed, orders, version, historyVars>>

Begin(q) ==
  \/ CloseRead(q)
  \/ \E k \in Offers : \/ QuoteRead(q, k) \/ AskRead(q, k) \/ AcceptRead(q, k)
                       \/ \E validity \in {"kept", "renewed"} : ReviseRead(q, k, validity)

Continue(q) ==
  \/ QuoteCommit(q) \/ QuoteDuplicate(q) \/ ReviseDelete(q) \/ ReviseCommit(q)
  \/ AcceptItems(q) \/ AcceptCommit(q) \/ AcceptRefused(q) \/ CloseCommit(q)
  \/ \E withLines \in BOOLEAN : AskCommit(q, withLines)

Next ==
  \/ \E q \in Requests : Begin(q) \/ Continue(q)
  \/ \E k \in Offers : Outdate(k) \/ End(k, "REJECTED") \/ End(k, "WITHDRAWN")
  \/ Expire

Spec == Init /\ [][Next]_vars
-----------------------------------------------------------------------------
(***************************************************************************)
(* Properties.                                                             *)
(***************************************************************************)
Versions == 1 .. MaxVersions

\* Every variable keeps its type, and an offer that was made has lines and a total.
TypeOK ==
  /\ rfq \in {"OPEN", "QUOTED", "AWARDED", "CLOSED"}
  /\ status \in [Offers -> OpenStatus \cup
                             {"none", "ACCEPTED", "REJECTED", "EXPIRED", "WITHDRAWN"}]
  /\ lines \in [Offers -> SUBSET Versions]
  /\ total \in [Offers -> Versions \cup {0}]
  /\ \A k \in Offers : IF status[k] = "none" THEN lines[k] = {} /\ total[k] = 0
                                             ELSE lines[k] # {} /\ total[k] # 0
  /\ proposed \subseteq Offers /\ stale \subseteq Offers
  /\ orders \in [Offers -> Seq([lines : SUBSET Versions, total : Versions])]
  /\ DOMAIN request = Requests
  /\ \A q \in Requests : request[q].at \in {"idle", "quote", "revise", "rewrite", "ask",
                                            "items", "accept", "close"}
  /\ version \in 0 .. MaxVersions
  /\ revived \cup late \cup crossed \cup torn \subseteq Offers

\* acceptQuote promises that two acceptances cannot make two orders of one offer.  It holds of
\* every offer that no stale revision or counter-proposal has reopened: it has one order
\* exactly if it is ACCEPTED.
OneOrderPerOffer ==
  \A k \in Offers \ revived :
    Len(orders[k]) = (IF status[k] = "ACCEPTED" THEN 1 ELSE 0)

\* Once an offer has been accepted no other can be: none is open but those reopened by a stale
\* write and those of sellers who had read the request for quotation before the award.
AwardClosesTheRest ==
  Ordered # {} => \A k \in Offers \ (revived \cup late) : ~Live(k)

\* The lines of an offer are those its total was computed from, however revisions, proposals
\* and acceptances follow one another, unless two revisions rewrote them at the same time:
\* each then deletes the lines it has seen and the lines of both stay.
LinesMatchTotal ==
  \A k \in Offers \ crossed : status[k] # "none" => lines[k] = {total[k]}

OfOneVersion(order) == \E v \in Versions : order.lines = {v} /\ order.total <= v

\* An order is billed what its lines come to, although it is written from an offer that may
\* have been revised since it was read.  Its lines are of one version of the offer, never of
\* two, and its total is of the same version; of an earlier one only if the offer was revised
\* between the two reads of an acceptance (it is never billed a total it has no lines of yet).
\* Excluded, as above, are offers two revisions of which rewrote the lines at once.
OrdersAddUp ==
  \A k \in Offers \ crossed : \A i \in DOMAIN orders[k] :
    /\ OfOneVersion(orders[k][i])
    /\ k \notin torn => orders[k][i].lines = {orders[k][i].total}
=============================================================================
