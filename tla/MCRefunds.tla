----------------------------- MODULE MCRefunds -----------------------------
(***************************************************************************)
(* TLC instance of Refunds: a payment of two orders.  One call asks for    *)
(* half of the first, one for all that is left of it, and the              *)
(* administration spreads 5 over both.  Half of a commission of three is   *)
(* rounded up.                                                             *)
(***************************************************************************)
EXTENDS Refunds, TLC

CONSTANTS o1, o2, half, all, batch

MCTotal   == (o1 :> 4) @@ (o2 :> 2)
MCCharged == (o1 :> 3) @@ (o2 :> 1)
MCOrderOf == [s \in Singles |-> o1]
MCAsked   == (half :> 2) @@ (all :> 0)
MCSpread  == [b \in Batches |-> 5]
=============================================================================
