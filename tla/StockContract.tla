--------------------------- MODULE StockContract ---------------------------
(***************************************************************************)
(* What the stock promises its callers: each transaction applies all its   *)
(* lines at once or none, a basket is served only when every line can be,  *)
(* and refused only when some line cannot.  OrderFlow takes and releases   *)
(* stock at this grain; StockMovements implements it statement by          *)
(* statement.                                                              *)
(***************************************************************************)
EXTENDS Integers, FiniteSets

CONSTANTS
  Products,      \* inventory lines
  InitialStock,  \* quantity of each at first
  InitialReserved, \* units of each that earlier orders hold
  Transactions,  \* database transactions that move stock
  Kind,          \* Kind[t]: "take" (basket), "release" (cancellation) or "set" (seller's count)
  Amount         \* Amount[t]: the products transaction t writes and how many units of each

VARIABLES
  stock,   \* stock[p]: quantity on sale and reserved counter
  outcome  \* outcome[t]: "open", then "done", "refused" or "failed"

Lines(t) == DOMAIN Amount[t]

\* One line of a transaction applied to a row.
Apply(t, p, row) ==
  LET n == Amount[t][p] IN
  CASE Kind[t] = "take"    -> [quantity |-> row.quantity - n, reserved |-> row.reserved + n]
    [] Kind[t] = "release" -> [quantity |-> row.quantity + n,
                               reserved |-> IF row.reserved > n THEN row.reserved - n ELSE 0]
    [] Kind[t] = "set"     -> [quantity |-> n, reserved |-> row.reserved]

Short(t, p, row) == Kind[t] = "take" /\ row.quantity < Amount[t][p]

Init ==
  /\ stock = [p \in Products |-> [quantity |-> InitialStock[p], reserved |-> InitialReserved[p]]]
  /\ outcome = [t \in Transactions |-> "open"]

Serve(t) ==
  /\ outcome[t] = "open"
  /\ \A p \in Lines(t) : ~Short(t, p, stock[p])
  /\ outcome' = [outcome EXCEPT ![t] = "done"]
  /\ stock' = [p \in Products |-> IF p \in Lines(t) THEN Apply(t, p, stock[p]) ELSE stock[p]]

Refuse(t) ==
  /\ outcome[t] = "open"
  /\ \E p \in Lines(t) : Short(t, p, stock[p])
  /\ outcome' = [outcome EXCEPT ![t] = "refused"]
  /\ UNCHANGED stock

\* The database gives the transaction up: deadlock, timeout, lost connection.
Fail(t) ==
  /\ outcome[t] = "open"
  /\ outcome' = [outcome EXCEPT ![t] = "failed"]
  /\ UNCHANGED stock

Next == \E t \in Transactions : Serve(t) \/ Refuse(t) \/ Fail(t)

Spec == Init /\ [][Next]_<<stock, outcome>>
=============================================================================
