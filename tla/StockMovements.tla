--------------------------- MODULE StockMovements ---------------------------
(***************************************************************************)
(* stock.service.ts, statement by statement, under PostgreSQL's READ       *)
(* COMMITTED: every stock write locks its inventory row until its          *)
(* transaction ends, reads see the last committed version, and each        *)
(* movement is written to a journal in the same transaction.               *)
(*                                                                         *)
(* A transaction works through its lines in the order of its basket:       *)
(* prelever for a basket, libererStock for a cancellation, fixerStock for  *)
(* a seller's count.  Baskets that share products in opposite orders can   *)
(* wait for each other; the database then fails one of them.               *)
(***************************************************************************)
EXTENDS Integers, Sequences, FiniteSets

CONSTANTS
  Products,
  InitialStock,
  InitialReserved,
  Transactions,
  Kind,
  Basket,   \* Basket[t]: the products of t's lines, in order, each once
  Amount

ASSUME MovementsAssumption ==
  /\ "none" \notin Transactions
  /\ InitialStock \in [Products -> Nat]
  /\ InitialReserved \in [Products -> Nat]
  /\ Kind \in [Transactions -> {"take", "release", "set"}]
  /\ \A t \in Transactions :
       /\ Basket[t] \in Seq(Products)
       /\ \A i, j \in 1 .. Len(Basket[t]) : Basket[t][i] = Basket[t][j] => i = j
       /\ Amount[t] \in [{Basket[t][i] : i \in 1 .. Len(Basket[t])} -> Nat]

None == "none"

VARIABLES
  row,       \* row[p]: the newest version of the row, the lock owner's when there is one
  committed, \* committed[p]: the version other transactions read
  owner,     \* owner[p]: the transaction that holds p's row lock, or None
  journal,   \* journal[p]: the movements of p, the lock owner's included
  line,      \* line[t]: the line t is at
  before,    \* before[t]: <<v>> once libererStock or fixerStock has read version v, or <<>>
  outcome    \* outcome[t]: "open", then "done", "refused" or "failed"

vars == <<row, committed, owner, journal, line, before, outcome>>

Init ==
  /\ row = [p \in Products |-> [quantity |-> InitialStock[p], reserved |-> InitialReserved[p]]]
  /\ committed = row
  /\ owner = [p \in Products |-> None]
  /\ journal = [p \in Products |-> <<[delta |-> InitialStock[p], after |-> InitialStock[p]]>>]
  /\ line = [t \in Transactions |-> 1]
  /\ before = [t \in Transactions |-> <<>>]
  /\ outcome = [t \in Transactions |-> "open"]

-----------------------------------------------------------------------------
AtLine(t) == outcome[t] = "open" /\ line[t] <= Len(Basket[t])
Current(t) == Basket[t][line[t]]
Units(t)   == Amount[t][Current(t)]

\* An UPDATE waits for the row lock.
CanLock(t) == owner[Current(t)] \in {None, t}

\* The UPDATE of one line, its re-read and its journal line: nobody sees or touches the
\* row in between.
Move(t, after, delta) ==
  LET p == Current(t) IN
  /\ CanLock(t)
  /\ owner' = [owner EXCEPT ![p] = t]
  /\ row' = [row EXCEPT ![p] = after]
  /\ journal' = [journal EXCEPT ![p] = Append(@, [delta |-> delta, after |-> after.quantity])]
  /\ line' = [line EXCEPT ![t] = @ + 1]
  /\ before' = [before EXCEPT ![t] = <<>>]
  /\ UNCHANGED <<committed, outcome>>

\* The transaction leaves: its versions and its journal lines with it.
Rollback(t, why) ==
  /\ outcome' = [outcome EXCEPT ![t] = why]
  /\ row' = [p \in Products |-> IF owner[p] = t THEN committed[p] ELSE row[p]]
  /\ journal' = [p \in Products |->
       IF owner[p] = t THEN SubSeq(journal[p], 1, Len(journal[p]) - 1) ELSE journal[p]]
  /\ owner' = [p \in Products |-> IF owner[p] = t THEN None ELSE owner[p]]
  /\ before' = [before EXCEPT ![t] = <<>>]
  /\ UNCHANGED <<committed, line>>

\* Mutant: the decrement without its condition on the quantity.
TakeUnconditional(t) ==
  LET now == row[Current(t)] IN
  /\ AtLine(t) /\ Kind[t] = "take"
  /\ Move(t, [quantity |-> now.quantity - Units(t), reserved |-> now.reserved + Units(t)],
          -Units(t))

\* prelever, served: quantity >= n is evaluated on the locked row.
Take(t) ==
  LET now == row[Current(t)] IN
  /\ AtLine(t) /\ Kind[t] = "take"
  /\ now.quantity >= Units(t)
  /\ Move(t, [quantity |-> now.quantity - Units(t), reserved |-> now.reserved + Units(t)],
          -Units(t))

\* Mutant: a short line is waited for, with the locks of the lines already served.
TakeRefusedWaits(t) ==
  /\ AtLine(t) /\ Kind[t] = "take"
  /\ committed[Current(t)].quantity < Units(t)
  /\ UNCHANGED vars

\* prelever, refused: the row others committed is short of units, and the checkout throws
\* its whole transaction away.
TakeRefused(t) ==
  /\ AtLine(t) /\ Kind[t] = "take"
  /\ committed[Current(t)].quantity < Units(t)
  /\ Rollback(t, "refused")

\* libererStock and fixerStock first read the row, without a lock.
ReadBefore(t) ==
  /\ AtLine(t) /\ Kind[t] \in {"release", "set"}
  /\ before[t] = <<>>
  /\ before' = [before EXCEPT ![t] = <<committed[Current(t)]>>]
  /\ UNCHANGED <<row, committed, owner, journal, line, outcome>>

\* Mutant: the row is written from the first read, the way a read-modify-write would.
ReleaseFromFirstRead(t) ==
  /\ AtLine(t) /\ Kind[t] = "release"
  /\ before[t] # <<>>
  /\ LET seen == before[t][1] IN
     Move(t, [quantity |-> seen.quantity + Units(t),
              reserved |-> IF seen.reserved > Units(t) THEN seen.reserved - Units(t) ELSE 0],
          Units(t))

\* Mutant: the journal predicts the result from the first read instead of reading it.
ReleasePredicts(t) ==
  LET p   == Current(t)
      now == row[p] IN
  /\ AtLine(t) /\ Kind[t] = "release"
  /\ before[t] # <<>> /\ CanLock(t)
  /\ owner' = [owner EXCEPT ![p] = t]
  /\ row' = [row EXCEPT ![p] =
       [quantity |-> now.quantity + Units(t),
        reserved |-> IF now.reserved > Units(t) THEN now.reserved - Units(t) ELSE 0]]
  /\ journal' = [journal EXCEPT ![p] =
       Append(@, [delta |-> Units(t), after |-> before[t][1].quantity + Units(t)])]
  /\ line' = [line EXCEPT ![t] = @ + 1]
  /\ before' = [before EXCEPT ![t] = <<>>]
  /\ UNCHANGED <<committed, outcome>>

\* libererStock: relative update of the locked row, journalled against the first read.
Release(t) ==
  LET now   == row[Current(t)]
      after == [quantity |-> now.quantity + Units(t),
                reserved |-> IF now.reserved > Units(t) THEN now.reserved - Units(t) ELSE 0] IN
  /\ AtLine(t) /\ Kind[t] = "release"
  /\ before[t] # <<>>
  /\ Move(t, after, after.quantity - before[t][1].quantity)

\* fixerStock: absolute update, journalled against the first read.
SetQuantity(t) ==
  LET now == row[Current(t)] IN
  /\ AtLine(t) /\ Kind[t] = "set"
  /\ before[t] # <<>>
  /\ Move(t, [quantity |-> Units(t), reserved |-> now.reserved],
          Units(t) - before[t][1].quantity)

Commit(t) ==
  /\ outcome[t] = "open" /\ line[t] > Len(Basket[t])
  /\ outcome' = [outcome EXCEPT ![t] = "done"]
  /\ committed' = [p \in Products |-> IF owner[p] = t THEN row[p] ELSE committed[p]]
  /\ owner' = [p \in Products |-> IF owner[p] = t THEN None ELSE owner[p]]
  /\ UNCHANGED <<row, journal, line, before>>

\* The transactions t waits for, directly: the owner of the row its next write needs.
WaitsFor(t) ==
  IF AtLine(t) /\ (Kind[t] = "take" \/ before[t] # <<>>) /\ ~CanLock(t)
  THEN {owner[Current(t)]} ELSE {}

\* PostgreSQL finds a ring of transactions that wait for each other and fails one of them.
Deadlocked(t) ==
  \E ring \in SUBSET Transactions :
    /\ t \in ring
    /\ \A u \in ring : /\ WaitsFor(u) \cap ring # {}
                       /\ \E v \in ring : u \in WaitsFor(v)

DeadlockVictim(t) ==
  /\ Deadlocked(t)
  /\ Rollback(t, "failed")

\* A lost connection, a timeout, a crash of the server, an error in a later statement.
Abort(t) ==
  /\ outcome[t] = "open"
  /\ Rollback(t, "failed")

Step(t) == \/ Take(t) \/ TakeRefused(t) \/ ReadBefore(t) \/ Release(t) \/ SetQuantity(t)
           \/ Commit(t) \/ DeadlockVictim(t)

Next == \E t \in Transactions : Step(t) \/ Abort(t)

\* The server runs every transaction it opened, and the database its deadlock detector.
Spec == Init /\ [][Next]_vars /\ \A t \in Transactions : WF_vars(Step(t))
-----------------------------------------------------------------------------
(***************************************************************************)
(* Properties.                                                             *)
(***************************************************************************)
Version == [quantity : Nat, reserved : Nat]

\* Every variable keeps its type: no interleaving brings a quantity or a counter below
\* zero (INVENTORY_NEGATIVE of integrity.service.ts), in committed rows or in between.
TypeOK ==
  /\ row \in [Products -> Version]
  /\ committed \in [Products -> Version]
  /\ owner \in [Products -> Transactions \cup {None}]
  /\ \A p \in Products : journal[p] \in Seq([delta : Int, after : Nat])
  /\ \A t \in Transactions : line[t] \in 1 .. Len(Basket[t]) + 1
  /\ \A t \in Transactions : before[t] = <<>> \/ (Len(before[t]) = 1 /\ before[t][1] \in Version)
  /\ outcome \in [Transactions -> {"open", "done", "refused", "failed"}]

\* INVENTORY_LEDGER_DRIFT: the last movement of a product says the quantity of its row,
\* after any interleaving, refusal, deadlock or crash.
JournalAgrees ==
  \A p \in Products :
    /\ journal[p][Len(journal[p])].after = row[p].quantity
    /\ owner[p] = None => row[p] = committed[p]

\* The transactions implement the contract: what others see changes by whole baskets,
\* each served or refused for a reason that holds at that moment.
Contract == INSTANCE StockContract WITH stock <- committed
Atomic == Contract!Spec

\* No transaction stays open: baskets with crossed lines do not wait for ever.
EveryTransactionEnds == \A t \in Transactions : outcome[t] = "open" ~> outcome[t] # "open"
=============================================================================
