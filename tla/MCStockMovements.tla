-------------------------- MODULE MCStockMovements --------------------------
(***************************************************************************)
(* TLC instance of StockMovements: two baskets take cocoa and rice in      *)
(* opposite orders, with stock for both of rice but for one only of cocoa; *)
(* an older order that holds one bag of cocoa is cancelled, the seller     *)
(* counts the cocoa, and a last basket takes cocoa alone.                  *)
(***************************************************************************)
EXTENDS StockMovements, TLC

CONSTANTS cocoa, rice, cocoaFirst, riceFirst, back, count, single

MCInitialStock    == (cocoa :> 2) @@ (rice :> 2)
MCInitialReserved == (cocoa :> 1) @@ (rice :> 0)
MCKind   == (cocoaFirst :> "take") @@ (riceFirst :> "take") @@ (single :> "take")
            @@ (back :> "release") @@ (count :> "set")
MCBasket == (cocoaFirst :> <<cocoa, rice>>) @@ (riceFirst :> <<rice, cocoa>>)
            @@ (single :> <<cocoa>>) @@ (back :> <<cocoa>>) @@ (count :> <<cocoa>>)
MCAmount == (cocoaFirst :> (cocoa :> 2 @@ rice :> 1)) @@ (riceFirst :> (rice :> 1 @@ cocoa :> 1))
            @@ (single :> (cocoa :> 2)) @@ (back :> (cocoa :> 1)) @@ (count :> (cocoa :> 1))
=============================================================================
