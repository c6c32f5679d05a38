-------------------------- MODULE MCPaymentEvents --------------------------
(***************************************************************************)
(* TLC instance of PaymentEvents: a group of two orders that two clicks    *)
(* without an idempotency key may pay twice.  The provider announces the   *)
(* success of each payment, the first in two deliveries, and a late        *)
(* failure of the first; the buyer's client also polls the first.          *)
(***************************************************************************)
EXTENDS PaymentEvents, TLC

CONSTANTS a1, a2, ok1, ok2, ko1, polled, d1, d2, d3, d4, poll

MCOrders  == <<"o1", "o2">>
MCKeyOf   == [a \in Payments |-> NoKey]
MCAbout   == (ok1 :> a1) @@ (ok2 :> a2) @@ (ko1 :> a1) @@ (polled :> a1)
MCVerdict == (ok1 :> "SUCCEEDED") @@ (ok2 :> "SUCCEEDED") @@ (ko1 :> "FAILED")
             @@ (polled :> "SUCCEEDED")
MCEventOf == [d \in Deliveries |->
                IF d \in {d1, d2} THEN ok1
                ELSE IF d = d3 THEN ok2 ELSE IF d = d4 THEN ko1 ELSE polled]
=============================================================================
