---------------------------- MODULE MCSettlement ----------------------------
(***************************************************************************)
(* TLC instances of Settlement.  The one with payouts has one order and    *)
(* two administrators; the one without has two disputes on the order, two  *)
(* requests that decide them and one that moves the order meanwhile.       *)
(***************************************************************************)
EXTENDS Settlement, TLC

CONSTANTS o1

MCAbout == [d \in Disputes |-> o1]
MCTwo   == [o \in Orders |-> 2]
MCOne   == [o \in Orders |-> 1]
MCNone  == [o \in Orders |-> 0]

\* Payouts, requests of administrators and sweeps are alike.
Symmetric == Permutations(Payouts) \cup Permutations(Admins) \cup Permutations(Sweeps)
=============================================================================
