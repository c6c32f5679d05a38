----------------------------- MODULE MCCashDesk -----------------------------
(***************************************************************************)
(* TLC instance of CashDesk: three requests with one key, so that two can  *)
(* retry the failure of the first, one without a key, a confirmation and a *)
(* failure.                                                                *)
(***************************************************************************)
EXTENDS CashDesk, TLC

CONSTANTS r1, r2, r3, bare, k1

MCKeyOf == [r \in Requests |-> IF r = bare THEN NoKey ELSE k1]
Retries == Permutations({r1, r2, r3})
=============================================================================
