---------------------------- MODULE MCDiscounts -----------------------------
(***************************************************************************)
(* TLC instance of Discounts: two baskets that compete for a coupon with   *)
(* one use left and a budget that covers one of them, and two requests     *)
(* that move points meanwhile, for one of the orders.                      *)
(***************************************************************************)
EXTENDS Discounts, TLC

\* Requests are alike.
Symmetric == Permutations(Clerks)
=============================================================================
