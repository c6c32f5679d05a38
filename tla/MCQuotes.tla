------------------------------ MODULE MCQuotes ------------------------------
(***************************************************************************)
(* TLC instances of Quotes: two shops, two requests under way.             *)
(***************************************************************************)
EXTENDS Quotes, TLC

\* Offers, and requests, are alike.
Symmetric == Permutations(Offers) \cup Permutations(Requests)
=============================================================================
