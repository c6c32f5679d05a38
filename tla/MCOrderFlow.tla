---------------------------- MODULE MCOrderFlow ----------------------------
(***************************************************************************)
(* TLC instance of OrderFlow: a basket of two stores (group g1: orders o1  *)
(* and o2) and a rival basket (g2: order o3).  o1 needs two bags of cocoa  *)
(* and o3 one, with two in stock: the two baskets compete.  o2 is an order *)
(* of one bag of rice, collected at a pickup counter where a run says so.  *)
(***************************************************************************)
EXTENDS OrderFlow, TLC

CONSTANTS g1, g2, o1, o2, o3, cocoa, rice, a1

MCGroupOf      == (o1 :> g1) @@ (o2 :> g1) @@ (o3 :> g2)
MCUnits        == 1 .. 4
MCOrderOf      == <<o1, o1, o2, o3>>
MCProductOf    == <<cocoa, cocoa, rice, cocoa>>
MCInitialStock == (cocoa :> 2) @@ (rice :> 1)
MCPaymentOf    == (a1 :> g1)
MCConfirms     == [c \in Confirmations |-> a1]

\* Requests, sweeps and confirmations are interchangeable.
Symmetry == Permutations(Requests) \cup Permutations(Sweeps) \cup Permutations(Confirmations)
=============================================================================
