---------------------------- MODULE QuotesProofs ----------------------------
(***************************************************************************)
(* Proofs about Quotes for any offers, any requests under way and any      *)
(* number of versions.                                                     *)
(*                                                                         *)
(* The inductive invariant adds to the properties what a request that is   *)
(* under way still knows of the offer it has read: that it exists; that    *)
(* the lines its revision deletes are the lines of the offer, as long as   *)
(* no other revision rewrites them; and, of an acceptance, that the total  *)
(* it has read is the offer's or an older one, and so are the lines it     *)
(* reads next, which are the later of the two.  Only a revision between    *)
(* the two reads can tell them apart, and it leaves the offer torn.        *)
(***************************************************************************)
EXTENDS Quotes, SequenceTheorems, TLAPS

\* What a request has read is an offer that was made, with its lines and total.
TaskOK ==
  \A q \in Requests :
    /\ request[q].at \in {"quote", "revise", "rewrite", "ask", "items", "accept"} =>
         request[q].offer \in Offers
    /\ request[q].at \in {"revise", "rewrite", "ask", "items", "accept"} =>
         status[request[q].offer] # "none"
    /\ request[q].at = "rewrite" => request[q].deletes \subseteq Versions
    /\ request[q].at \in {"items", "accept"} => request[q].total \in Versions
    /\ request[q].at = "accept" => request[q].lines \subseteq Versions

Typed == TypeOK /\ TaskOK

\* Of the revisions of an offer one at most rewrites its lines, and it deletes all of them,
\* unless two have crossed.
Rewriting ==
  \A q \in Requests :
    request[q].at = "rewrite" /\ request[q].offer \notin crossed =>
      /\ request[q].deletes = lines[request[q].offer]
      /\ \A x \in Requests :
           request[x].at = "rewrite" /\ request[x].offer = request[q].offer => x = q

\* No offer has a version that is yet to be made.
Made == \A k \in Offers : total[k] <= version

\* Until it reads the lines, an acceptance has the offer's total or an earlier one.
Accepting ==
  \A q \in Requests :
    LET k == request[q].offer IN
    /\ request[q].at = "items" =>
         request[q].total <= total[k] /\ (k \notin torn => request[q].total = total[k])
    /\ request[q].at = "accept" /\ k \notin crossed =>
         /\ OfOneVersion(request[q])
         /\ k \notin torn => request[q].lines = {request[q].total}

Sums == Rewriting /\ Made /\ Accepting /\ LinesMatchTotal /\ OrdersAddUp

-----------------------------------------------------------------------------
\* A new version is one that no offer has.
LEMMA VersionsGrow ==
  TypeOK /\ NextVersion =>
    version' \in Versions /\ version' # 0 /\ version' \in 0 .. MaxVersions
  BY QuotesAssumption DEF TypeOK, NextVersion, Versions

LEMMA TypedInit == Init => Typed
  BY QuotesAssumption DEF Init, Typed, TypeOK, TaskOK, Idle, OpenStatus, Versions

LEMMA TypedStep == Typed /\ [Next]_vars => Typed'
<1> SUFFICES ASSUME Typed, [Next]_vars PROVE Typed'
  OBVIOUS
<1> USE DEF Typed, TypeOK, TaskOK, Idle, offerVars, historyVars
<1>1. ASSUME NEW q \in Requests, NEW k \in Offers, QuoteRead(q, k)
      PROVE  Typed'
  BY <1>1, ZenonT(30) DEF QuoteRead, Start
<1>2. ASSUME NEW q \in Requests, QuoteCommit(q)
      PROVE  Typed'
  <2>1. version' \in Versions /\ version' # 0 /\ version' \in 0 .. MaxVersions
    BY <1>2, VersionsGrow DEF QuoteCommit
  <2> DEFINE k == request[q].offer
  <2>2. /\ k \in Offers
        /\ status' = [status EXCEPT ![k] = "SUBMITTED"]
        /\ lines' = [lines EXCEPT ![k] = {version'}]
        /\ total' = [total EXCEPT ![k] = version']
        /\ rfq' \in {"OPEN", "QUOTED", "AWARDED", "CLOSED"}
        /\ late' \subseteq Offers
        /\ DOMAIN request' = Requests
        /\ \A x \in Requests : request'[x].at \in {"idle", request[x].at}
        /\ UNCHANGED <<stale, proposed, orders, revived, crossed, torn>>
    BY <1>2 DEF QuoteCommit, Finish
  <2> HIDE DEF k
  <2>3. /\ status' \in [Offers -> OpenStatus \cup
                             {"none", "ACCEPTED", "REJECTED", "EXPIRED", "WITHDRAWN"}]
        /\ lines' \in [Offers -> SUBSET Versions]
        /\ total' \in [Offers -> Versions \cup {0}]
    BY <2>1, <2>2 DEF OpenStatus
  <2>4. \A x \in Offers : IF status'[x] = "none" THEN lines'[x] = {} /\ total'[x] = 0
                                               ELSE lines'[x] # {} /\ total'[x] # 0
    BY <2>1, <2>2
  <2>5. \A x \in Requests : request'[x].at \in {"idle", "quote", "revise", "rewrite", "ask",
                                               "items", "accept", "close"}
    BY <2>2
  <2>6. TypeOK'
    BY <2>1, <2>2, <2>3, <2>4, <2>5
  <2>7. TaskOK'
    BY <1>2, <2>1 DEF QuoteCommit, Finish
  <2> QED
    BY <2>6, <2>7
<1>3. ASSUME NEW q \in Requests, QuoteDuplicate(q)
      PROVE  Typed'
  BY <1>3 DEF QuoteDuplicate, Finish
<1>4. ASSUME NEW q \in Requests, NEW k \in Offers, NEW validity \in {"kept", "renewed"},
             ReviseRead(q, k, validity)
      PROVE  Typed'
  BY <1>4, ZenonT(30) DEF ReviseRead, Start, Live, OpenStatus
<1>5. ASSUME NEW q \in Requests, ReviseDelete(q)
      PROVE  Typed'
  <2>1. /\ DOMAIN request' = Requests
        /\ \A x \in Requests : request'[x].at \in {"rewrite", request[x].at}
        /\ crossed' \subseteq Offers
        /\ UNCHANGED <<rfq, status, lines, total, stale, proposed, orders, version, revived,
                       late, torn>>
    BY <1>5 DEF ReviseDelete
  <2>2. TypeOK'
    BY <2>1
  <2>3. lines[request[q].offer] \subseteq Versions
    BY <1>5 DEF ReviseDelete
  <2>4. TaskOK'
    BY <1>5, <2>3 DEF ReviseDelete
  <2> QED
    BY <2>2, <2>4
<1>6. ASSUME NEW q \in Requests, ReviseCommit(q)
      PROVE  Typed'
  <2>1. version' \in Versions /\ version' # 0 /\ version' \in 0 .. MaxVersions
    BY <1>6, VersionsGrow DEF ReviseCommit
  <2> DEFINE k == request[q].offer
  <2>2. /\ k \in Offers /\ status[k] # "none"
        /\ status' = [status EXCEPT ![k] = "COUNTERED"]
        /\ lines' = [lines EXCEPT ![k] = (@ \ request[q].deletes) \cup {version'}]
        /\ total' = [total EXCEPT ![k] = version']
        /\ stale' \subseteq Offers /\ revived' \subseteq Offers /\ torn' \subseteq Offers
        /\ DOMAIN request' = Requests
        /\ \A x \in Requests : request'[x].at \in {"idle", request[x].at}
        /\ UNCHANGED <<rfq, proposed, orders, late, crossed>>
    BY <1>6 DEF ReviseCommit, Finish, Reopen
  <2> HIDE DEF k
  <2>3. /\ status' \in [Offers -> OpenStatus \cup
                             {"none", "ACCEPTED", "REJECTED", "EXPIRED", "WITHDRAWN"}]
        /\ lines' \in [Offers -> SUBSET Versions]
        /\ total' \in [Offers -> Versions \cup {0}]
    BY <2>1, <2>2 DEF OpenStatus
  <2>4. \A x \in Offers : IF status'[x] = "none" THEN lines'[x] = {} /\ total'[x] = 0
                                               ELSE lines'[x] # {} /\ total'[x] # 0
    BY <2>1, <2>2
  <2>5. \A x \in Requests : request'[x].at \in {"idle", "quote", "revise", "rewrite", "ask",
                                               "items", "accept", "close"}
    BY <2>2
  <2>6. TypeOK'
    BY <2>1, <2>2, <2>3, <2>4, <2>5
  <2>7. TaskOK'
    BY <1>6 DEF ReviseCommit, Finish, Reopen
  <2> QED
    BY <2>6, <2>7
<1>7. ASSUME NEW q \in Requests, NEW k \in Offers, AskRead(q, k)
      PROVE  Typed'
  BY <1>7, ZenonT(30) DEF AskRead, Start, Live, OpenStatus
<1>8. ASSUME NEW q \in Requests, NEW withLines \in BOOLEAN, AskCommit(q, withLines)
      PROVE  Typed'
  <2>1. version' \in 0 .. MaxVersions
    BY <1>8, VersionsGrow DEF AskCommit
  <2>2. /\ request[q].offer \in Offers /\ status[request[q].offer] # "none"
        /\ status' = [status EXCEPT ![request[q].offer] = "COUNTERED"]
        /\ proposed' \subseteq Offers /\ revived' \subseteq Offers
        /\ DOMAIN request' = Requests
        /\ \A x \in Requests : request'[x].at \in {"idle", request[x].at}
        /\ UNCHANGED <<rfq, lines, total, stale, orders, late, crossed, torn>>
    BY <1>8 DEF AskCommit, Finish, Reopen
  <2>3. TypeOK'
    BY <2>1, <2>2 DEF OpenStatus
  <2>4. TaskOK'
    BY <1>8 DEF AskCommit, Finish, Reopen
  <2> QED
    BY <2>3, <2>4
<1>9. ASSUME NEW q \in Requests, NEW k \in Offers, AcceptRead(q, k)
      PROVE  Typed'
  BY <1>9, ZenonT(30) DEF AcceptRead, Start, Live, OpenStatus
<1>10. ASSUME NEW q \in Requests, AcceptCommit(q)
       PROVE  Typed'
  <2> DEFINE k == request[q].offer
  <2>1. OrderOf(q) \in [lines : SUBSET Versions, total : Versions]
    BY <1>10 DEF AcceptCommit, OrderOf
  <2>2. Append(orders[k], OrderOf(q)) \in Seq([lines : SUBSET Versions, total : Versions])
    <3>1. k \in Offers /\ orders[k] \in Seq([lines : SUBSET Versions, total : Versions])
      BY <1>10 DEF AcceptCommit
    <3> QED
      BY <2>1, <3>1, AppendProperties
  <2>3. orders' \in [Offers -> Seq([lines : SUBSET Versions, total : Versions])]
    BY <1>10, <2>2 DEF AcceptCommit
  <2>4. \A x \in Offers : status'[x] = "none" <=> status[x] = "none"
    BY <1>10 DEF AcceptCommit, Competitors, Live, OpenStatus
  <2>5. TypeOK'
    BY <1>10, <2>3, <2>4 DEF AcceptCommit, Finish
  <2>6. TaskOK'
    BY <1>10, <2>4 DEF AcceptCommit, Finish
  <2> QED
    BY <2>5, <2>6
<1>11. ASSUME NEW q \in Requests, AcceptRefused(q)
       PROVE  Typed'
  BY <1>11 DEF AcceptRefused, Finish
<1>12. ASSUME NEW q \in Requests, AcceptItems(q)
       PROVE  Typed'
  BY <1>12 DEF AcceptItems
<1>13. ASSUME NEW q \in Requests, CloseRead(q)
       PROVE  Typed'
  BY <1>13, ZenonT(30) DEF CloseRead, Start
<1>14. ASSUME NEW q \in Requests, CloseCommit(q)
       PROVE  Typed'
  BY <1>14 DEF CloseCommit, Finish
<1>15. ASSUME NEW k \in Offers, Outdate(k)
       PROVE  Typed'
  BY <1>15 DEF Outdate, Live, OpenStatus
<1>16. ASSUME NEW k \in Offers, NEW target \in {"REJECTED", "WITHDRAWN"}, End(k, target)
       PROVE  Typed'
  BY <1>16 DEF End, Live, OpenStatus
<1>17. ASSUME Expire
       PROVE  Typed'
  BY <1>17 DEF Expire, Live, OpenStatus
<1>18. CASE UNCHANGED vars
  BY <1>18 DEF vars, offerVars, historyVars
<1> HIDE DEF Typed
<1> QED
  BY <1>1, <1>2, <1>3, <1>4, <1>5, <1>6, <1>7, <1>8, <1>9, <1>10, <1>11, <1>12, <1>13, <1>14,
     <1>15, <1>16, <1>17, <1>18 DEF Next, Begin, Continue

-----------------------------------------------------------------------------
(***************************************************************************)
(* Lines and totals.                                                       *)
(***************************************************************************)
LEMMA SumsStep == Typed /\ Sums /\ [Next]_vars => Sums'
<1> SUFFICES ASSUME Typed, Sums, [Next]_vars PROVE Sums'
  OBVIOUS
<1> USE DEF Typed, TypeOK, TaskOK, Idle, offerVars, historyVars,
            Sums, Rewriting, Made, Accepting, LinesMatchTotal, OrdersAddUp
<1>0. version \in Nat /\ \A k \in Offers : total[k] \in Nat
  BY QuotesAssumption DEF Versions
<1>1. ASSUME NEW q \in Requests, NEW k \in Offers, QuoteRead(q, k)
      PROVE  Sums'
  BY <1>1 DEF QuoteRead, Start
<1>2. ASSUME NEW q \in Requests, QuoteCommit(q)
      PROVE  Sums'
  <2> DEFINE k == request[q].offer
  <2>1. /\ request[q].at = "quote" /\ k \in Offers /\ status[k] = "none" /\ orders' = orders
        /\ request' = [request EXCEPT ![q] = Idle] /\ version' = version + 1
        /\ status' = [status EXCEPT ![k] = "SUBMITTED"]
        /\ lines' = [lines EXCEPT ![k] = {version'}] /\ total' = [total EXCEPT ![k] = version']
        /\ crossed' = crossed /\ torn' = torn
    BY <1>2 DEF QuoteCommit, Finish, NextVersion
  <2>2. \A x \in Requests :
          \/ request'[x].at = "idle"
          \/ request'[x] = request[x]
             /\ (request[x].at \in {"items", "accept", "rewrite"} => request[x].offer # k)
    BY <2>1
  <2> HIDE DEF k
  <2>3. Rewriting' /\ Accepting'
    BY <2>1, <2>2
  <2>4. Made'
    BY <1>0, <2>1
  <2>5. LinesMatchTotal' /\ OrdersAddUp'
    BY <2>1
  <2> QED
    BY <2>3, <2>4, <2>5
<1>3. ASSUME NEW q \in Requests, QuoteDuplicate(q)
      PROVE  Sums'
  BY <1>3 DEF QuoteDuplicate, Finish
<1>4. ASSUME NEW q \in Requests, NEW k \in Offers, NEW validity \in {"kept", "renewed"},
             ReviseRead(q, k, validity)
      PROVE  Sums'
  BY <1>4 DEF ReviseRead, Start, Live, OpenStatus
<1>5. ASSUME NEW q \in Requests, ReviseDelete(q)
      PROVE  Sums'
  BY <1>5 DEF ReviseDelete
<1>6. ASSUME NEW q \in Requests, ReviseCommit(q)
      PROVE  Sums'
  <2> DEFINE k == request[q].offer
  <2>1. /\ request[q].at = "rewrite" /\ k \in Offers /\ status[k] # "none" /\ orders' = orders
        /\ request' = [request EXCEPT ![q] = Idle] /\ version' = version + 1
        /\ status' = [status EXCEPT ![k] = "COUNTERED"]
        /\ lines' = [lines EXCEPT ![k] = (@ \ request[q].deletes) \cup {version'}]
        /\ total' = [total EXCEPT ![k] = version']
        /\ crossed' = crossed /\ torn' = IF HalfRead(k) THEN torn \cup {k} ELSE torn
    BY <1>6 DEF ReviseCommit, Finish, NextVersion, Reopen
  <2>2. \A x \in Requests :
          \/ request'[x].at = "idle"
          \/ request'[x] = request[x] /\ x # q
    BY <2>1
  <2>3. k \notin crossed => lines'[k] = {total'[k]}
    BY <2>1
  <2>4. \A x \in Requests : request[x].at = "items" /\ request[x].offer = k => k \in torn'
    BY <2>1 DEF HalfRead
  <2>5. total[k] <= total'[k] /\ total'[k] \in Nat /\ \A x \in Offers \ {k} : total'[x] = total[x]
    BY <1>0, <2>1
  <2> HIDE DEF k
  <2>6. Rewriting'
    <3>1. \A x \in Requests \ {q} : request[x].at = "rewrite" =>
            request[x].offer # k \/ k \in crossed
      BY <2>1 DEF k
    <3> QED
      BY <2>1, <2>2, <3>1
  <2>7. Accepting'
    <3> SUFFICES ASSUME NEW x \in Requests, request'[x] = request[x], x # q,
                        request[x].at \in {"items", "accept"}
                 PROVE  LET o == request[x].offer IN
                        /\ request[x].at = "items" =>
                             /\ request[x].total <= total'[o]
                             /\ o \notin torn' => request[x].total = total'[o]
                        /\ request[x].at = "accept" /\ o \notin crossed =>
                             /\ OfOneVersion(request[x])
                             /\ o \notin torn' => request[x].lines = {request[x].total}
      BY <2>1, <2>2
    <3>1. request[x].offer \in Offers /\ request[x].total \in Nat /\ torn \subseteq torn'
      BY <2>1, QuotesAssumption DEF Versions
    <3>2. CASE request[x].at = "accept"
      BY <3>1, <3>2
    <3>3. CASE request[x].at = "items" /\ request[x].offer = k
      <4>1. request[x].total <= total[k] /\ k \in torn'
        BY <2>4, <3>3
      <4> QED
        BY <1>0, <2>1, <2>5, <3>1, <3>3, <4>1
    <3>4. CASE request[x].at = "items" /\ request[x].offer # k
      BY <2>5, <3>1, <3>4
    <3> QED
      BY <3>2, <3>3, <3>4
  <2>8. Made'
    BY <1>0, <2>1
  <2>9. LinesMatchTotal' /\ OrdersAddUp'
    BY <2>1, <2>3
  <2> QED
    BY <2>6, <2>7, <2>8, <2>9
<1>7. ASSUME NEW q \in Requests, NEW k \in Offers, AskRead(q, k)
      PROVE  Sums'
  BY <1>7 DEF AskRead, Start, Live, OpenStatus
<1>8. ASSUME NEW q \in Requests, NEW withLines \in BOOLEAN, AskCommit(q, withLines)
      PROVE  Sums'
  <2>1. /\ request[q].at = "ask" /\ status[request[q].offer] # "none"
        /\ request' = [request EXCEPT ![q] = Idle] /\ version' = version + 1
        /\ status' = [status EXCEPT ![request[q].offer] = "COUNTERED"]
        /\ UNCHANGED <<lines, total, orders, crossed, torn>>
    BY <1>8 DEF AskCommit, Finish, NextVersion, Reopen
  <2>2. \A x \in Requests : request'[x].at = "idle" \/ request'[x] = request[x]
    BY <2>1
  <2>3. Rewriting' /\ Accepting'
    BY <2>1, <2>2
  <2>4. Made'
    BY <1>0, <2>1
  <2>5. LinesMatchTotal' /\ OrdersAddUp'
    BY <2>1
  <2> QED
    BY <2>3, <2>4, <2>5
<1>9. ASSUME NEW q \in Requests, NEW k \in Offers, AcceptRead(q, k)
      PROVE  Sums'
  <2>1. /\ request' = [request EXCEPT ![q] = [at |-> "items", offer |-> k, total |-> total[k]]]
        /\ UNCHANGED <<status, lines, total, orders, version, crossed, torn>>
    BY <1>9 DEF AcceptRead, Start
  <2>2. /\ request'[q].at = "items" /\ request'[q].offer = k /\ request'[q].total = total[k]
        /\ \A x \in Requests \ {q} : request'[x] = request[x]
    BY <2>1
  <2>3. Rewriting'
    BY <2>1, <2>2
  <2>4. Accepting'
    <3>1. total[k] <= total[k]
      BY <1>0
    <3> QED
      BY <2>1, <2>2, <3>1
  <2>5. Made' /\ LinesMatchTotal' /\ OrdersAddUp'
    BY <2>1
  <2> QED
    BY <2>3, <2>4, <2>5
<1>10. ASSUME NEW q \in Requests, AcceptCommit(q)
       PROVE  Sums'
  <2> DEFINE k == request[q].offer
  <2>1. /\ request[q].at = "accept" /\ k \in Offers /\ Live(k)
        /\ request' = [request EXCEPT ![q] = Idle]
        /\ orders' = [orders EXCEPT ![k] = Append(@, OrderOf(q))]
        /\ UNCHANGED <<lines, total, version, crossed, torn>>
    BY <1>10 DEF AcceptCommit, Finish
  <2>2. \A x \in Offers : status'[x] = "none" <=> status[x] = "none"
    BY <1>10, <2>1 DEF AcceptCommit, Competitors, Live, OpenStatus
  <2>3. \A x \in Requests : request'[x].at = "idle" \/ request'[x] = request[x]
    BY <2>1
  <2>4. Rewriting' /\ Accepting' /\ Made' /\ LinesMatchTotal'
    BY <2>1, <2>2, <2>3
  <2>5. k \notin crossed =>
          /\ OfOneVersion(OrderOf(q))
          /\ k \notin torn => OrderOf(q).lines = {OrderOf(q).total}
    BY <2>1 DEF OrderOf, OfOneVersion
  <2>6. \A i \in DOMAIN orders'[k] :
          (i \in DOMAIN orders[k] /\ orders'[k][i] = orders[k][i]) \/ orders'[k][i] = OrderOf(q)
    BY <2>1
  <2>7. \A x \in Offers \ {k} : orders'[x] = orders[x]
    BY <2>1
  <2>8. OrdersAddUp'
    <3> HIDE DEF k
    <3> QED
      BY <2>1, <2>5, <2>6, <2>7
  <2> QED
    BY <2>4, <2>8
<1>11. ASSUME NEW q \in Requests, AcceptRefused(q)
       PROVE  Sums'
  BY <1>11 DEF AcceptRefused, Finish
<1>12. ASSUME NEW q \in Requests, AcceptItems(q)
       PROVE  Sums'
  <2> DEFINE k == request[q].offer
             order == [at |-> "accept", offer |-> k, total |-> request[q].total, lines |-> lines[k]]
  <2>1. /\ request[q].at = "items" /\ k \in Offers /\ status[k] # "none"
        /\ request' = [request EXCEPT ![q] = order]
        /\ UNCHANGED <<status, lines, total, orders, version, crossed, torn>>
    BY <1>12 DEF AcceptItems
  <2>2. request'[q] = order /\ \A x \in Requests \ {q} : request'[x] = request[x]
    BY <2>1
  <2>3. k \notin crossed =>
          OfOneVersion(order) /\ (k \notin torn => order.lines = {order.total})
    <3>1. total[k] \in Versions
      BY <2>1
    <3>2. /\ k \notin crossed => lines[k] = {total[k]}
          /\ request[q].total <= total[k]
          /\ k \notin torn => request[q].total = total[k]
      BY <2>1
    <3>3. order.lines = lines[k] /\ order.total = request[q].total
      OBVIOUS
    <3> HIDE DEF k, order
    <3> QED
      BY <3>1, <3>2, <3>3 DEF OfOneVersion
  <2>4. order.at = "accept" /\ order.offer = k
    OBVIOUS
  <2> HIDE DEF order
  <2>5. Rewriting' /\ Accepting'
    BY <2>1, <2>2, <2>3, <2>4
  <2>6. Made' /\ LinesMatchTotal' /\ OrdersAddUp'
    BY <2>1
  <2> QED
    BY <2>5, <2>6
<1>13. ASSUME NEW q \in Requests, CloseRead(q)
       PROVE  Sums'
  BY <1>13 DEF CloseRead, Start
<1>14. ASSUME NEW q \in Requests, CloseCommit(q)
       PROVE  Sums'
  BY <1>14 DEF CloseCommit, Finish
<1>15. ASSUME NEW k \in Offers, Outdate(k)
       PROVE  Sums'
  BY <1>15 DEF Outdate, Live, OpenStatus
<1>16. ASSUME NEW k \in Offers, NEW target \in {"REJECTED", "WITHDRAWN"}, End(k, target)
       PROVE  Sums'
  BY <1>16 DEF End, Live, OpenStatus
<1>17. ASSUME Expire
       PROVE  Sums'
  BY <1>17 DEF Expire, Live, OpenStatus
<1>18. CASE UNCHANGED vars
  BY <1>18 DEF vars, offerVars, historyVars
<1> HIDE DEF Typed, Sums
<1> QED
  BY <1>1, <1>2, <1>3, <1>4, <1>5, <1>6, <1>7, <1>8, <1>9, <1>10, <1>11, <1>12, <1>13, <1>14,
     <1>15, <1>16, <1>17, <1>18, SMTT(30) DEF Next, Begin, Continue

-----------------------------------------------------------------------------
(***************************************************************************)
(* Awards.                                                                 *)
(***************************************************************************)
Awards == OneOrderPerOffer /\ AwardClosesTheRest

LEMMA AwardsStep == Typed /\ Awards /\ [Next]_vars => Awards'
<1> SUFFICES ASSUME Typed, Awards, [Next]_vars PROVE Awards'
  OBVIOUS
<1> USE DEF Typed, TypeOK, TaskOK, Idle, offerVars, historyVars,
            Awards, OneOrderPerOffer, AwardClosesTheRest, Ordered, Live, OpenStatus
<1>1. ASSUME NEW q \in Requests, NEW k \in Offers, QuoteRead(q, k)
      PROVE  Awards'
  BY <1>1 DEF QuoteRead, Start
<1>2. ASSUME NEW q \in Requests, QuoteCommit(q)
      PROVE  Awards'
  BY <1>2 DEF QuoteCommit, Finish, NextVersion, Ordered
<1>3. ASSUME NEW q \in Requests, QuoteDuplicate(q)
      PROVE  Awards'
  BY <1>3 DEF QuoteDuplicate, Finish
<1>4. ASSUME NEW q \in Requests, NEW k \in Offers, NEW validity \in {"kept", "renewed"},
             ReviseRead(q, k, validity)
      PROVE  Awards'
  BY <1>4 DEF ReviseRead, Start, Live, OpenStatus
<1>5. ASSUME NEW q \in Requests, ReviseDelete(q)
      PROVE  Awards'
  BY <1>5 DEF ReviseDelete
<1>6. ASSUME NEW q \in Requests, ReviseCommit(q)
      PROVE  Awards'
  BY <1>6 DEF ReviseCommit, Finish, NextVersion, Reopen, Live, OpenStatus
<1>7. ASSUME NEW q \in Requests, NEW k \in Offers, AskRead(q, k)
      PROVE  Awards'
  BY <1>7 DEF AskRead, Start, Live, OpenStatus
<1>8. ASSUME NEW q \in Requests, NEW withLines \in BOOLEAN, AskCommit(q, withLines)
      PROVE  Awards'
  BY <1>8 DEF AskCommit, Finish, NextVersion, Reopen, Live, OpenStatus
<1>9. ASSUME NEW q \in Requests, NEW k \in Offers, AcceptRead(q, k)
      PROVE  Awards'
  BY <1>9 DEF AcceptRead, Start, Live, OpenStatus
<1>10. ASSUME NEW q \in Requests, AcceptCommit(q)
       PROVE  Awards'
  <2> DEFINE k == request[q].offer
  <2>1. k \in Offers /\ Live(k)
    BY <1>10 DEF AcceptCommit
  <2>2. Len(orders'[k]) = Len(orders[k]) + 1
    BY <1>10, <2>1 DEF AcceptCommit
  <2>3. \A x \in Offers \ {k} : orders'[x] = orders[x]
    BY <1>10 DEF AcceptCommit
  <2>4. OneOrderPerOffer'
    <3>1. status'[k] = "ACCEPTED" /\ status[k] # "ACCEPTED" /\ revived' = revived
      BY <1>10, <2>1 DEF AcceptCommit
    <3>2. \A x \in Offers \ {k} : status'[x] = "ACCEPTED" <=> status[x] = "ACCEPTED"
      BY <1>10 DEF AcceptCommit, Competitors
    <3>3. \A x \in Offers \ revived : Len(orders[x]) = (IF status[x] = "ACCEPTED" THEN 1 ELSE 0)
      OBVIOUS
    <3> HIDE DEF k, Typed, Awards
    <3>4. \A x \in Offers \ revived :
            Len(orders'[x]) = (IF status'[x] = "ACCEPTED" THEN 1 ELSE 0)
      BY <2>1, <2>2, <2>3, <3>1, <3>2, <3>3
    <3> QED
      BY <3>1, <3>4
  <2>5. \A x \in Offers : status'[x] \notin OpenStatus
    BY <1>10, <2>1 DEF AcceptCommit, Competitors
  <2> QED
    BY <2>4, <2>5
<1>11. ASSUME NEW q \in Requests, AcceptRefused(q)
       PROVE  Awards'
  BY <1>11 DEF AcceptRefused, Finish
<1>12. ASSUME NEW q \in Requests, AcceptItems(q)
       PROVE  Awards'
  BY <1>12 DEF AcceptItems
<1>13. ASSUME NEW q \in Requests, CloseRead(q)
       PROVE  Awards'
  BY <1>13 DEF CloseRead, Start
<1>14. ASSUME NEW q \in Requests, CloseCommit(q)
       PROVE  Awards'
  BY <1>14 DEF CloseCommit, Finish
<1>15. ASSUME NEW k \in Offers, Outdate(k)
       PROVE  Awards'
  BY <1>15 DEF Outdate, Live, OpenStatus
<1>16. ASSUME NEW k \in Offers, NEW target \in {"REJECTED", "WITHDRAWN"}, End(k, target)
       PROVE  Awards'
  BY <1>16 DEF End, Live, OpenStatus
<1>17. ASSUME Expire
       PROVE  Awards'
  BY <1>17 DEF Expire, Live, OpenStatus
<1>18. CASE UNCHANGED vars
  BY <1>18 DEF vars, offerVars, historyVars
<1> HIDE DEF Typed, Awards
<1> QED
  BY <1>1, <1>2, <1>3, <1>4, <1>5, <1>6, <1>7, <1>8, <1>9, <1>10, <1>11, <1>12, <1>13, <1>14,
     <1>15, <1>16, <1>17, <1>18, SMTT(30) DEF Next, Begin, Continue

-----------------------------------------------------------------------------
(***************************************************************************)
(* The theorems.                                                           *)
(***************************************************************************)
IInv == Typed /\ Sums /\ Awards

LEMMA IInvInit == Init => IInv
<1> SUFFICES ASSUME Init PROVE IInv
  OBVIOUS
<1>1. Typed
  BY TypedInit
<1>2. Sums
  BY DEF Init, Idle, Sums, Rewriting, Made, Accepting, LinesMatchTotal, OrdersAddUp
<1>3. Awards
  BY DEF Init, Awards, OneOrderPerOffer, AwardClosesTheRest, Ordered
<1> QED
  BY <1>1, <1>2, <1>3 DEF IInv

\* The inductive invariant of a request for quotation.
THEOREM QuotesInvariant == Spec => []IInv
<1>1. IInv /\ [Next]_vars => IInv'
  BY TypedStep, SumsStep, AwardsStep DEF IInv
<1> QED
  BY IInvInit, <1>1, PTL DEF Spec

\* Every variable keeps its type.
THEOREM TypeCorrect == Spec => []TypeOK
<1>1. IInv => TypeOK
  BY DEF IInv, Typed
<1> QED
  BY QuotesInvariant, <1>1, PTL

\* For any number of shops and requests, an offer no stale write has reopened makes one order
\* exactly when it is accepted.
THEOREM OneOrder == Spec => []OneOrderPerOffer
<1>1. IInv => OneOrderPerOffer
  BY DEF IInv, Awards
<1> QED
  BY QuotesInvariant, <1>1, PTL

\* For any number of shops, an award leaves no offer open but those reopened or late.
THEOREM AwardCloses == Spec => []AwardClosesTheRest
<1>1. IInv => AwardClosesTheRest
  BY DEF IInv, Awards
<1> QED
  BY QuotesInvariant, <1>1, PTL

\* For any revisions and requests, the lines of an offer are those of its total unless two
\* revisions crossed.
THEOREM LinesAreTheTotals == Spec => []LinesMatchTotal
<1>1. IInv => LinesMatchTotal
  BY DEF IInv, Sums
<1> QED
  BY QuotesInvariant, <1>1, PTL

\* For any revisions and requests, what an order bills is the sum of its lines unless two
\* revisions of its offer crossed.
THEOREM OrdersAreSums == Spec => []OrdersAddUp
<1>1. IInv => OrdersAddUp
  BY DEF IInv, Sums
<1> QED
  BY QuotesInvariant, <1>1, PTL
=============================================================================
