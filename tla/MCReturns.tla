----------------------------- MODULE MCReturns -----------------------------
(***************************************************************************)
(* TLC instance of Returns: one order of two units, returns of one unit    *)
(* and of both, two handlers, and two calls of execute, each of which may  *)
(* refund a return or be the administration's own.                         *)
(***************************************************************************)
EXTENDS Returns, TLC

CONSTANTS o1, t1, t2, s1, s2, h1, h2

MCTotal   == (o1 :> 2)
MCBought  == (o1 :> 2)
MCAbout   == [c \in Calls |-> o1]
MCOrigin  == [t \in Returns |-> o1]
MCUnits   == (t1 :> 1) @@ (t2 :> 2)
Symmetry  == Permutations(Calls) \cup Permutations(Handlers)
=============================================================================
