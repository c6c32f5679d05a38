----------------------------- MODULE StockProofs -----------------------------
(***************************************************************************)
(* Proofs about StockMovements, for any products, transactions, baskets    *)
(* and amounts: the journal agrees with the rows, and the transactions     *)
(* implement StockContract.                                                *)
(*                                                                         *)
(* The inductive invariant says what an open transaction has done: it owns *)
(* exactly the rows of the lines behind it; each of those rows is its      *)
(* committed version with this one line applied, which that version could  *)
(* serve; and each has one journal line more than the committed version.   *)
(***************************************************************************)
EXTENDS StockMovements, SequenceTheorems, TLAPS

Movement == [delta : Int, after : Nat]

Types ==
  /\ row \in [Products -> Version]
  /\ committed \in [Products -> Version]
  /\ owner \in [Products -> Transactions \cup {None}]
  /\ journal \in [Products -> Seq(Movement)]
  /\ line \in [Transactions -> Nat \ {0}]
  /\ \A t \in Transactions : line[t] <= Len(Basket[t]) + 1
  /\ before \in [Transactions -> Seq(Version)]
  /\ \A t \in Transactions : Len(before[t]) <= 1
  /\ outcome \in [Transactions -> {"open", "done", "refused", "failed"}]

\* An open transaction owns the rows of the lines behind it, and nobody else owns any.
Owners ==
  /\ \A t \in Transactions : outcome[t] = "open" =>
       \A i \in 1 .. Len(Basket[t]) : i < line[t] => owner[Basket[t][i]] = t
  /\ \A p \in Products, t \in Transactions : owner[p] = t =>
       /\ outcome[t] = "open"
       /\ \E i \in 1 .. Len(Basket[t]) : i < line[t] /\ Basket[t][i] = p

\* What a transaction made of the rows it owns; a row nobody owns is the committed one.
Versions ==
  \A p \in Products :
    /\ owner[p] = None => row[p] = committed[p]
    /\ \A t \in Transactions : owner[p] = t =>
         /\ ~Contract!Short(t, p, committed[p])
         /\ row[p] = Contract!Apply(t, p, committed[p])

\* The journal's last line says the newest version, and the one before it the committed one.
Journal ==
  \A p \in Products :
    LET j == journal[p] IN
    /\ Len(j) >= 1 /\ j[Len(j)].after = row[p].quantity
    /\ owner[p] # None => Len(j) >= 2 /\ j[Len(j) - 1].after = committed[p].quantity

StockInv == Types /\ Owners /\ Versions /\ Journal

-----------------------------------------------------------------------------
\* The lines of a basket: products, whose units are numbers, none twice.
LEMMA BasketShape ==
  ASSUME NEW t \in Transactions
  PROVE  /\ Len(Basket[t]) \in Nat
         /\ \A i \in 1 .. Len(Basket[t]) : /\ Basket[t][i] \in Products
                                           /\ Basket[t][i] \in DOMAIN Amount[t]
                                           /\ Amount[t][Basket[t][i]] \in Nat
         /\ \A i, j \in 1 .. Len(Basket[t]) : Basket[t][i] = Basket[t][j] => i = j
         /\ \A p \in DOMAIN Amount[t] : \E i \in 1 .. Len(Basket[t]) : Basket[t][i] = p
<1>1. Basket[t] \in Seq(Products)
  BY MovementsAssumption
<1>2. \A i, j \in 1 .. Len(Basket[t]) : Basket[t][i] = Basket[t][j] => i = j
  BY MovementsAssumption
<1>3. Amount[t] \in [{Basket[t][i] : i \in 1 .. Len(Basket[t])} -> Nat]
  BY MovementsAssumption
<1> QED
  BY <1>1, <1>2, <1>3

LEMMA LineShape ==
  ASSUME StockInv, NEW t \in Transactions, AtLine(t)
  PROVE  /\ line[t] \in 1 .. Len(Basket[t])
         /\ Current(t) \in Products /\ Units(t) \in Nat /\ Units(t) = Amount[t][Current(t)]
         /\ Current(t) \in DOMAIN Amount[t]
         /\ owner[Current(t)] # t
<1>1. line[t] \in 1 .. Len(Basket[t])
  BY BasketShape DEF AtLine, StockInv, Types
<1>2. /\ Current(t) \in Products /\ Units(t) \in Nat /\ Units(t) = Amount[t][Current(t)]
      /\ Current(t) \in DOMAIN Amount[t]
  BY <1>1, BasketShape DEF Current, Units
<1>3. ASSUME owner[Current(t)] = t PROVE FALSE
  <2>1. PICK i \in 1 .. Len(Basket[t]) : i < line[t] /\ Basket[t][i] = Current(t)
    BY <1>2, <1>3 DEF StockInv, Owners
  <2> QED
    BY <1>1, <2>1, BasketShape DEF Current
<1> QED
  BY <1>1, <1>2, <1>3

LEMMA StockInit == Init => StockInv
<1> SUFFICES ASSUME Init PROVE StockInv
  OBVIOUS
<1> USE MovementsAssumption
<1> DEFINE v(p) == [quantity |-> InitialStock[p], reserved |-> InitialReserved[p]]
           m(p) == [delta |-> InitialStock[p], after |-> InitialStock[p]]
<1>1. \A p \in Products : v(p) \in Version /\ v(p).quantity = InitialStock[p]
  BY DEF Version
<1>2. \A p \in Products : /\ <<m(p)>> \in Seq(Movement) /\ Len(<<m(p)>>) = 1
                          /\ <<m(p)>>[1].after = InitialStock[p]
  BY DEF Movement
<1>3. /\ row = [p \in Products |-> v(p)] /\ committed = row
      /\ journal = [p \in Products |-> <<m(p)>>]
      /\ owner = [p \in Products |-> None]
      /\ line = [t \in Transactions |-> 1]
      /\ before = [t \in Transactions |-> <<>>]
      /\ outcome = [t \in Transactions |-> "open"]
  BY DEF Init
<1> HIDE DEF v, m
<1>4. Types
  BY <1>1, <1>2, <1>3, BasketShape DEF Types
<1>5. Owners
  BY <1>3, BasketShape DEF Owners, None
<1>6. Versions
  BY <1>3 DEF Versions, None
<1>7. Journal
  BY <1>1, <1>2, <1>3 DEF Journal
<1> QED
  BY <1>4, <1>5, <1>6, <1>7 DEF StockInv

\* The write of a line keeps the invariant, when it writes what the contract says and the
\* committed version can serve it.
LEMMA MoveKeeps ==
  ASSUME StockInv, NEW t \in Transactions, AtLine(t), NEW after \in Version, NEW delta \in Int,
         Move(t, after, delta),
         ~Contract!Short(t, Current(t), row[Current(t)]),
         after = Contract!Apply(t, Current(t), row[Current(t)])
  PROVE  StockInv'
<1> USE MovementsAssumption
<1>1. PICK p \in Products : p = Current(t)
  BY LineShape
<1>2. owner[p] = None /\ row[p] = committed[p] /\ t # None
  BY <1>1, LineShape DEF Move, CanLock, None, StockInv, Versions
<1>3. /\ owner' = [owner EXCEPT ![p] = t]
      /\ row' = [row EXCEPT ![p] = after]
      /\ journal' = [journal EXCEPT
           ![p] = Append(journal[p], [delta |-> delta, after |-> after.quantity])]
      /\ line' = [line EXCEPT ![t] = line[t] + 1]
      /\ before' = [before EXCEPT ![t] = <<>>]
      /\ UNCHANGED <<committed, outcome>>
  BY <1>1 DEF Move
<1>4. line[t] \in 1 .. Len(Basket[t]) /\ Basket[t][line[t]] = p
  BY <1>1, LineShape DEF Current
<1>5. after.quantity \in Nat /\ [delta |-> delta, after |-> after.quantity] \in Movement
  BY DEF Version, Movement
<1>6. Types'
  <2>1. row' \in [Products -> Version] /\ owner' \in [Products -> Transactions \cup {None}]
    BY <1>3 DEF StockInv, Types
  <2>2. journal' \in [Products -> Seq(Movement)]
    BY <1>3, <1>5 DEF StockInv, Types
  <2>3. line' \in [Transactions -> Nat \ {0}]
    BY <1>3, <1>4, SMTT(30) DEF StockInv, Types
  <2>4. \A u \in Transactions : line'[u] <= Len(Basket[u]) + 1
    BY <1>3, <1>4, BasketShape, SMTT(30) DEF StockInv, Types
  <2>5. before' \in [Transactions -> Seq(Version)]
    BY <1>3 DEF StockInv, Types
  <2>6. \A u \in Transactions : Len(before'[u]) <= 1
    BY <1>3 DEF StockInv, Types
  <2> QED
    BY <1>3, <2>1, <2>2, <2>3, <2>4, <2>5, <2>6 DEF StockInv, Types
<1>7. \A u \in Transactions : line'[u] = IF u = t THEN line[t] + 1 ELSE line[u]
  BY <1>3 DEF StockInv, Types
<1>8. Owners'
  <2>1. ASSUME NEW u \in Transactions, outcome'[u] = "open",
               NEW i \in 1 .. Len(Basket[u]), i < line'[u]
        PROVE  owner'[Basket[u][i]] = u
    <3>1. Basket[u][i] \in Products
      BY BasketShape
    <3>2. CASE u = t /\ i = line[t]
      BY <1>3, <1>4, <3>2 DEF StockInv, Types
    <3>3. CASE ~(u = t /\ i = line[t])
      <4>1. i < line[u]
        BY <1>4, <1>7, <2>1, <3>3, BasketShape
      <4>2. owner[Basket[u][i]] = u
        BY <1>3, <2>1, <4>1 DEF StockInv, Owners
      <4>3. Basket[u][i] # p
        BY <1>2, <4>2, MovementsAssumption DEF None
      <4> QED
        BY <1>3, <3>1, <4>2, <4>3 DEF StockInv, Types
    <3> QED
      BY <3>2, <3>3
  <2>2. ASSUME NEW q \in Products, NEW u \in Transactions, owner'[q] = u
        PROVE  /\ outcome'[u] = "open"
               /\ \E i \in 1 .. Len(Basket[u]) : i < line'[u] /\ Basket[u][i] = q
    <3>1. CASE q = p
      <4>1. u = t
        BY <1>3, <2>2, <3>1 DEF StockInv, Types
      <4>2. outcome'[u] = "open" /\ line[t] < line'[u]
        BY <1>3, <1>4, <1>7, <4>1 DEF AtLine
      <4> QED
        BY <1>4, <3>1, <4>1, <4>2
    <3>2. CASE q # p
      <4>1. owner[q] = u
        BY <1>3, <2>2, <3>2 DEF StockInv, Types
      <4>2. PICK i \in 1 .. Len(Basket[u]) : i < line[u] /\ Basket[u][i] = q
        BY <4>1 DEF StockInv, Owners
      <4>3. outcome'[u] = "open" /\ i < line'[u]
        BY <1>3, <1>4, <1>7, <4>1, <4>2 DEF StockInv, Owners, Types
      <4> QED
        BY <4>2, <4>3
    <3> QED
      BY <3>1, <3>2
  <2> QED
    BY <2>1, <2>2 DEF Owners
<1>9. Versions'
  <2>1. row'[p] = after /\ owner'[p] = t /\ committed'[p] = row[p]
    BY <1>2, <1>3 DEF StockInv, Types
  <2>2. \A q \in Products \ {p} : row'[q] = row[q] /\ owner'[q] = owner[q]
    BY <1>3 DEF StockInv, Types
  <2>3. /\ owner'[p] # None
        /\ \A u \in Transactions : owner'[p] = u =>
             /\ ~Contract!Short(u, p, committed'[p])
             /\ row'[p] = Contract!Apply(u, p, committed'[p])
    BY <1>1, <1>2, <2>1
  <2>4. ASSUME NEW q \in Products \ {p}
        PROVE  /\ owner'[q] = None => row'[q] = committed'[q]
               /\ \A u \in Transactions : owner'[q] = u =>
                    /\ ~Contract!Short(u, q, committed'[q])
                    /\ row'[q] = Contract!Apply(u, q, committed'[q])
    BY <1>3, <2>2 DEF StockInv, Versions
  <2> QED
    BY <2>3, <2>4 DEF Versions, Contract!Short, Contract!Apply
<1>10. Journal'
  <2>1. journal[p] \in Seq(Movement) /\ Len(journal[p]) >= 1
        /\ journal[p][Len(journal[p])].after = committed[p].quantity
    BY <1>2 DEF StockInv, Types, Journal
  <2> DEFINE j == Append(journal[p], [delta |-> delta, after |-> after.quantity])
  <2>2. /\ Len(j) = Len(journal[p]) + 1
        /\ j[Len(j)] = [delta |-> delta, after |-> after.quantity]
        /\ j[Len(j) - 1] = journal[p][Len(journal[p])]
    BY <2>1, <1>5
  <2>3. journal'[p] = j /\ row'[p] = after /\ committed' = committed
    BY <1>3 DEF StockInv, Types
  <2>4. \A q \in Products \ {p} :
          row'[q] = row[q] /\ owner'[q] = owner[q] /\ journal'[q] = journal[q]
    BY <1>3 DEF StockInv, Types
  <2> HIDE DEF j
  <2>5. /\ Len(journal'[p]) >= 1 /\ Len(journal'[p]) >= 2
        /\ journal'[p][Len(journal'[p])].after = row'[p].quantity
        /\ journal'[p][Len(journal'[p]) - 1].after = committed'[p].quantity
    BY <2>1, <2>2, <2>3, SMTT(30)
  <2>6. ASSUME NEW q \in Products \ {p}
        PROVE  /\ Len(journal'[q]) >= 1 /\ journal'[q][Len(journal'[q])].after = row'[q].quantity
               /\ owner'[q] # None =>
                    /\ Len(journal'[q]) >= 2
                    /\ journal'[q][Len(journal'[q]) - 1].after = committed'[q].quantity
    BY <2>3, <2>4 DEF StockInv, Journal
  <2> QED
    BY <2>5, <2>6 DEF Journal
<1> QED
  BY <1>6, <1>8, <1>9, <1>10 DEF StockInv

\* What the transaction did leaves with it.
LEMMA RollbackKeeps ==
  ASSUME StockInv, NEW t \in Transactions, outcome[t] = "open",
         NEW why \in {"refused", "failed"}, Rollback(t, why)
  PROVE  StockInv'
<1> USE MovementsAssumption
<1> \A u \in Transactions : u # None
  BY DEF None
<1>1. /\ outcome' = [outcome EXCEPT ![t] = why]
      /\ row' = [p \in Products |-> IF owner[p] = t THEN committed[p] ELSE row[p]]
      /\ journal' = [p \in Products |->
           IF owner[p] = t THEN SubSeq(journal[p], 1, Len(journal[p]) - 1) ELSE journal[p]]
      /\ owner' = [p \in Products |-> IF owner[p] = t THEN None ELSE owner[p]]
      /\ before' = [before EXCEPT ![t] = <<>>]
      /\ UNCHANGED <<committed, line>>
  BY DEF Rollback
<1>2. ASSUME NEW p \in Products, owner[p] = t
      PROVE  /\ SubSeq(journal[p], 1, Len(journal[p]) - 1) \in Seq(Movement)
             /\ Len(SubSeq(journal[p], 1, Len(journal[p]) - 1)) = Len(journal[p]) - 1
             /\ SubSeq(journal[p], 1, Len(journal[p]) - 1)[Len(journal[p]) - 1]
                  = journal[p][Len(journal[p]) - 1]
             /\ Len(journal[p]) >= 2
  <2>1. journal[p] \in Seq(Movement) /\ Len(journal[p]) >= 2
    BY <1>2 DEF StockInv, Types, Journal
  <2> QED
    BY <2>1
<1>3. Types'
  <2>1. journal' \in [Products -> Seq(Movement)]
    BY <1>1, <1>2 DEF StockInv, Types
  <2>2. before' \in [Transactions -> Seq(Version)] /\ \A u \in Transactions : Len(before'[u]) <= 1
    BY <1>1 DEF StockInv, Types
  <2>3. row' \in [Products -> Version] /\ owner' \in [Products -> Transactions \cup {None}]
    BY <1>1 DEF StockInv, Types
  <2>4. outcome' \in [Transactions -> {"open", "done", "refused", "failed"}]
    BY <1>1 DEF StockInv, Types
  <2> QED
    BY <1>1, <2>1, <2>2, <2>3, <2>4 DEF StockInv, Types
<1>4. \A u \in Transactions : outcome'[u] = "open" => u # t /\ outcome[u] = "open"
  BY <1>1 DEF StockInv, Types
<1>5. \A p \in Products, u \in Transactions : owner'[p] = u => u # t /\ owner[p] = u
  BY <1>1
<1>6. \A p \in Products, u \in Transactions \ {t} : owner[p] = u => owner'[p] = u
  BY <1>1
<1>7. \A u \in Transactions \ {t} : outcome'[u] = outcome[u]
  BY <1>1 DEF StockInv, Types
<1>8. Owners'
  <2>1. ASSUME NEW u \in Transactions, outcome'[u] = "open",
               NEW i \in 1 .. Len(Basket[u]), i < line'[u]
        PROVE  owner'[Basket[u][i]] = u
    BY <1>1, <1>4, <1>6, <2>1, BasketShape DEF StockInv, Owners
  <2>2. ASSUME NEW q \in Products, NEW u \in Transactions, owner'[q] = u
        PROVE  /\ outcome'[u] = "open"
               /\ \E i \in 1 .. Len(Basket[u]) : i < line'[u] /\ Basket[u][i] = q
    <3>1. u # t /\ owner[q] = u
      BY <1>5, <2>2
    <3>2. outcome[u] = "open" /\ \E i \in 1 .. Len(Basket[u]) : i < line[u] /\ Basket[u][i] = q
      BY <3>1, SMTT(30) DEF StockInv, Owners
    <3> QED
      BY <1>1, <1>7, <3>1, <3>2
  <2> QED
    BY <2>1, <2>2 DEF Owners
<1>9. Versions'
  <2>1. ASSUME NEW q \in Products
        PROVE  /\ owner'[q] = None => row'[q] = committed'[q]
               /\ \A u \in Transactions : owner'[q] = u =>
                    /\ ~Contract!Short(u, q, committed'[q])
                    /\ row'[q] = Contract!Apply(u, q, committed'[q])
    BY <1>1, <1>5 DEF StockInv, Versions
  <2> QED
    BY <2>1 DEF Versions, Contract!Short, Contract!Apply
<1>10. Journal'
  <2>1. ASSUME NEW p \in Products
        PROVE  /\ Len(journal'[p]) >= 1 /\ journal'[p][Len(journal'[p])].after = row'[p].quantity
               /\ owner'[p] # None =>
                    /\ Len(journal'[p]) >= 2
                    /\ journal'[p][Len(journal'[p]) - 1].after = committed'[p].quantity
    <3>1. CASE owner[p] = t
      <4>1. /\ journal'[p] = SubSeq(journal[p], 1, Len(journal[p]) - 1)
            /\ row'[p] = committed[p] /\ owner'[p] = None
        BY <1>1, <3>1
      <4>2. Len(journal[p]) \in Nat /\ journal[p][Len(journal[p]) - 1].after = committed[p].quantity
        BY <3>1 DEF StockInv, Types, Journal
      <4> HIDE <1>1
      <4> QED
        BY <1>2, <3>1, <4>1, <4>2
    <3>2. CASE owner[p] # t
      BY <1>1, <3>2 DEF StockInv, Journal
    <3> QED
      BY <3>1, <3>2
  <2> QED
    BY <2>1 DEF Journal
<1> QED
  BY <1>3, <1>8, <1>9, <1>10 DEF StockInv

LEMMA CommitKeeps == ASSUME StockInv, NEW t \in Transactions, Commit(t) PROVE StockInv'
<1> USE MovementsAssumption
<1> \A u \in Transactions : u # None
  BY DEF None
<1>1. /\ outcome' = [outcome EXCEPT ![t] = "done"]
      /\ committed' = [p \in Products |-> IF owner[p] = t THEN row[p] ELSE committed[p]]
      /\ owner' = [p \in Products |-> IF owner[p] = t THEN None ELSE owner[p]]
      /\ UNCHANGED <<row, journal, line, before>>
  BY DEF Commit
<1>2. Types'
  BY <1>1 DEF StockInv, Types
<1>3. \A u \in Transactions : outcome'[u] = "open" => u # t /\ outcome[u] = "open"
  BY <1>1 DEF StockInv, Types
<1>4. \A p \in Products, u \in Transactions : owner'[p] = u => u # t /\ owner[p] = u
  BY <1>1
<1>5. \A p \in Products, u \in Transactions \ {t} : owner[p] = u => owner'[p] = u
  BY <1>1
<1>6. \A u \in Transactions \ {t} : outcome'[u] = outcome[u]
  BY <1>1 DEF StockInv, Types
<1>7. Owners'
  <2>1. ASSUME NEW u \in Transactions, outcome'[u] = "open",
               NEW i \in 1 .. Len(Basket[u]), i < line'[u]
        PROVE  owner'[Basket[u][i]] = u
    BY <1>1, <1>3, <1>5, <2>1, BasketShape DEF StockInv, Owners
  <2>2. ASSUME NEW q \in Products, NEW u \in Transactions, owner'[q] = u
        PROVE  /\ outcome'[u] = "open"
               /\ \E i \in 1 .. Len(Basket[u]) : i < line'[u] /\ Basket[u][i] = q
    <3>1. u # t /\ owner[q] = u
      BY <1>4, <2>2
    <3>2. outcome[u] = "open" /\ \E i \in 1 .. Len(Basket[u]) : i < line[u] /\ Basket[u][i] = q
      BY <3>1 DEF StockInv, Owners
    <3> QED
      BY <1>1, <1>6, <3>1, <3>2
  <2> QED
    BY <2>1, <2>2 DEF Owners
<1>8. Versions'
  <2>1. ASSUME NEW q \in Products
        PROVE  /\ owner'[q] = None => row'[q] = committed'[q]
               /\ \A u \in Transactions : owner'[q] = u =>
                    /\ ~Contract!Short(u, q, committed'[q])
                    /\ row'[q] = Contract!Apply(u, q, committed'[q])
    BY <1>1, <1>4 DEF StockInv, Versions
  <2> QED
    BY <2>1 DEF Versions, Contract!Short, Contract!Apply
<1>9. Journal'
  BY <1>1 DEF StockInv, Journal
<1> QED
  BY <1>2, <1>7, <1>8, <1>9 DEF StockInv

LEMMA NothingChanges ==
  ASSUME StockInv, UNCHANGED <<row, committed, owner, journal, line, outcome>>,
         before' \in [Transactions -> Seq(Version)], \A u \in Transactions : Len(before'[u]) <= 1
  PROVE  StockInv'
<1>1. Types'
  BY DEF StockInv, Types
<1>2. Owners'
  BY DEF StockInv, Owners
<1>3. Versions'
  BY DEF StockInv, Versions, Contract!Short, Contract!Apply
<1>4. Journal'
  BY DEF StockInv, Journal
<1> QED
  BY <1>1, <1>2, <1>3, <1>4 DEF StockInv

\* The three writes are what the contract says of a line.
LEMMA TakeKeeps == ASSUME StockInv, NEW t \in Transactions, Take(t) PROVE StockInv'
<1>1. AtLine(t) /\ Kind[t] = "take"
  BY DEF Take
<1>2. PICK now \in Version : now = row[Current(t)]
  BY <1>1, LineShape DEF StockInv, Types
<1> DEFINE after == [quantity |-> now.quantity - Units(t), reserved |-> now.reserved + Units(t)]
<1>3. now.quantity >= Units(t) /\ Move(t, after, -Units(t))
  BY <1>2 DEF Take
<1>4. after \in Version /\ -Units(t) \in Int
  BY <1>1, <1>3, LineShape DEF Version
<1>5. /\ ~Contract!Short(t, Current(t), row[Current(t)])
      /\ after = Contract!Apply(t, Current(t), row[Current(t)])
  BY <1>1, <1>2, <1>3, LineShape DEF Version, Contract!Short, Contract!Apply
<1> HIDE DEF after
<1> QED
  BY <1>1, <1>3, <1>4, <1>5, MoveKeeps

LEMMA ReleaseKeeps == ASSUME StockInv, NEW t \in Transactions, Release(t) PROVE StockInv'
<1>1. AtLine(t) /\ Kind[t] = "release" /\ before[t] # <<>>
  BY DEF Release
<1>2. PICK now \in Version : now = row[Current(t)]
  BY <1>1, LineShape DEF StockInv, Types
<1>3. before[t][1] \in Version
  BY <1>1 DEF StockInv, Types
<1> DEFINE after == [quantity |-> now.quantity + Units(t),
                     reserved |-> IF now.reserved > Units(t) THEN now.reserved - Units(t) ELSE 0]
           delta == after.quantity - before[t][1].quantity
<1>4. Move(t, after, delta)
  BY <1>2 DEF Release
<1>5. after \in Version /\ delta \in Int
  BY <1>1, <1>3, LineShape DEF Version
<1>6. /\ ~Contract!Short(t, Current(t), row[Current(t)])
      /\ after = Contract!Apply(t, Current(t), row[Current(t)])
  BY <1>1, <1>2, LineShape DEF Version, Contract!Short, Contract!Apply
<1> HIDE DEF after, delta
<1> QED
  BY <1>1, <1>4, <1>5, <1>6, MoveKeeps

LEMMA SetKeeps == ASSUME StockInv, NEW t \in Transactions, SetQuantity(t) PROVE StockInv'
<1>1. AtLine(t) /\ Kind[t] = "set" /\ before[t] # <<>>
  BY DEF SetQuantity
<1>2. PICK now \in Version : now = row[Current(t)]
  BY <1>1, LineShape DEF StockInv, Types
<1>3. before[t][1] \in Version
  BY <1>1 DEF StockInv, Types
<1> DEFINE after == [quantity |-> Units(t), reserved |-> now.reserved]
           delta == Units(t) - before[t][1].quantity
<1>4. Move(t, after, delta)
  BY <1>2 DEF SetQuantity
<1>5. after \in Version /\ delta \in Int
  BY <1>1, <1>3, LineShape DEF Version
<1>6. /\ ~Contract!Short(t, Current(t), row[Current(t)])
      /\ after = Contract!Apply(t, Current(t), row[Current(t)])
  BY <1>1, <1>2, LineShape DEF Version, Contract!Short, Contract!Apply
<1> HIDE DEF after, delta
<1> QED
  BY <1>1, <1>4, <1>5, <1>6, MoveKeeps

LEMMA ReadKeeps == ASSUME StockInv, NEW t \in Transactions, ReadBefore(t) PROVE StockInv'
<1>1. PICK v \in Version : before' = [before EXCEPT ![t] = <<v>>]
  BY LineShape DEF ReadBefore, StockInv, Types
<1>2. UNCHANGED <<row, committed, owner, journal, line, outcome>>
  BY DEF ReadBefore
<1>3. before' \in [Transactions -> Seq(Version)] /\ \A u \in Transactions : Len(before'[u]) <= 1
  BY <1>1 DEF StockInv, Types
<1> QED
  BY <1>2, <1>3, NothingChanges

\* A transaction that waits for another is open.
LEMMA VictimIsOpen == ASSUME NEW t \in Transactions, Deadlocked(t) PROVE outcome[t] = "open"
<1>1. WaitsFor(t) # {}
  BY DEF Deadlocked
<1> QED
  BY <1>1 DEF WaitsFor, AtLine

LEMMA StockStep == StockInv /\ [Next]_vars => StockInv'
<1> SUFFICES ASSUME StockInv, [Next]_vars PROVE StockInv'
  OBVIOUS
<1>1. ASSUME NEW t \in Transactions, TakeRefused(t)
      PROVE  StockInv'
  <2>1. outcome[t] = "open" /\ Rollback(t, "refused")
    BY <1>1 DEF TakeRefused, AtLine
  <2> QED
    BY <2>1, RollbackKeeps
<1>2. ASSUME NEW t \in Transactions, DeadlockVictim(t) \/ Abort(t)
      PROVE  StockInv'
  <2>1. outcome[t] = "open" /\ Rollback(t, "failed")
    BY <1>2, VictimIsOpen DEF DeadlockVictim, Abort
  <2> QED
    BY <2>1, RollbackKeeps
<1>3. CASE UNCHANGED vars
  BY <1>3, NothingChanges DEF vars, StockInv, Types
<1> QED
  BY <1>1, <1>2, <1>3, TakeKeeps, ReleaseKeeps, SetKeeps, ReadKeeps, CommitKeeps DEF Next, Step

-----------------------------------------------------------------------------
\* No interleaving brings a quantity or a reserved counter below zero.
THEOREM StockIsTyped == Spec => []TypeOK
<1>1. StockInv => TypeOK
  <2> SUFFICES ASSUME StockInv PROVE TypeOK
    OBVIOUS
  <2>1. \A t \in Transactions : line[t] \in 1 .. Len(Basket[t]) + 1
    BY BasketShape DEF StockInv, Types
  <2>2. \A t \in Transactions :
          before[t] = <<>> \/ (Len(before[t]) = 1 /\ before[t][1] \in Version)
    <3> SUFFICES ASSUME NEW t \in Transactions, before[t] # <<>>
                 PROVE  Len(before[t]) = 1 /\ before[t][1] \in Version
      OBVIOUS
    <3>1. before[t] \in Seq(Version) /\ Len(before[t]) <= 1
      BY DEF StockInv, Types
    <3>2. Len(before[t]) \in Nat \ {0}
      BY <3>1, EmptySeq
    <3>3. \A n \in Nat \ {0} : n <= 1 => n = 1
      OBVIOUS
    <3>4. Len(before[t]) = 1
      BY <3>1, <3>2, <3>3, Zenon
    <3> QED
      BY <3>1, <3>4
  <2> QED
    BY <2>1, <2>2 DEF StockInv, Types, TypeOK, Movement
<1> QED
  BY <1>1, StockInit, StockStep, PTL DEF Spec

\* The last line of a product's journal says the quantity of its row (stock.service.ts).
THEOREM JournalIsTrue == Spec => []JournalAgrees
<1>1. StockInv => JournalAgrees
  BY DEF StockInv, Journal, Versions, JournalAgrees
<1> QED
  BY <1>1, StockInit, StockStep, PTL DEF Spec

-----------------------------------------------------------------------------
(***************************************************************************)
(* The refinement: committing is serving the basket, a refusal is one, and *)
(* everything else but a failure is hidden from other transactions.        *)
(***************************************************************************)
LEMMA CommitServes == ASSUME StockInv, NEW t \in Transactions, Commit(t) PROVE Contract!Serve(t)
<1>1. /\ outcome[t] = "open" /\ line[t] > Len(Basket[t])
      /\ outcome' = [outcome EXCEPT ![t] = "done"]
      /\ committed' = [p \in Products |-> IF owner[p] = t THEN row[p] ELSE committed[p]]
  BY DEF Commit
<1>2. ASSUME NEW p \in DOMAIN Amount[t]
      PROVE  p \in Products /\ owner[p] = t
  <2>1. PICK i \in 1 .. Len(Basket[t]) : Basket[t][i] = p
    BY BasketShape
  <2>2. i < line[t]
    BY <1>1, BasketShape DEF StockInv, Types
  <2> QED
    BY <1>1, <2>1, <2>2, BasketShape DEF StockInv, Owners
<1>3. \A p \in Products : owner[p] = t => p \in DOMAIN Amount[t]
  BY BasketShape DEF StockInv, Owners
<1>4. \A p \in Products : owner[p] = t =>
        ~Contract!Short(t, p, committed[p]) /\ row[p] = Contract!Apply(t, p, committed[p])
  BY DEF StockInv, Versions
<1>5. committed' = [p \in Products |->
        IF p \in Contract!Lines(t) THEN Contract!Apply(t, p, committed[p]) ELSE committed[p]]
  BY <1>1, <1>2, <1>3, <1>4 DEF Contract!Lines
<1> QED
  BY <1>1, <1>2, <1>4, <1>5 DEF Contract!Serve, Contract!Lines

LEMMA RefusalRefuses ==
  ASSUME StockInv, NEW t \in Transactions, TakeRefused(t) PROVE Contract!Refuse(t)
<1>1. /\ AtLine(t) /\ Kind[t] = "take" /\ committed[Current(t)].quantity < Units(t)
      /\ outcome' = [outcome EXCEPT ![t] = "refused"] /\ UNCHANGED committed
  BY DEF TakeRefused, Rollback
<1>2. Current(t) \in DOMAIN Amount[t] /\ Units(t) = Amount[t][Current(t)]
  BY <1>1, LineShape
<1> QED
  BY <1>1, <1>2 DEF AtLine, Contract!Refuse, Contract!Short, Contract!Lines

LEMMA FailureFails ==
  ASSUME NEW t \in Transactions, DeadlockVictim(t) \/ Abort(t) PROVE Contract!Fail(t)
  BY VictimIsOpen DEF DeadlockVictim, Abort, Rollback, Contract!Fail

LEMMA OthersAreHidden ==
  ASSUME NEW t \in Transactions, Take(t) \/ ReadBefore(t) \/ Release(t) \/ SetQuantity(t)
  PROVE  UNCHANGED <<committed, outcome>>
  BY DEF Take, ReadBefore, Release, SetQuantity, Move

\* What other transactions see of the stock changes by whole baskets, each served or refused
\* for a reason that holds at that moment: the statements implement StockContract.
THEOREM StatementsAreAtomic == Spec => Atomic
<1>1. Init => Contract!Init
  BY DEF Init, Contract!Init
<1>2. StockInv /\ [Next]_vars => [Contract!Next]_<<committed, outcome>>
  <2> SUFFICES ASSUME StockInv, [Next]_vars
               PROVE  Contract!Next \/ UNCHANGED <<committed, outcome>>
    OBVIOUS
  <2>1. CASE UNCHANGED vars
    BY <2>1 DEF vars
  <2> QED
    BY <2>1, CommitServes, RefusalRefuses, FailureFails, OthersAreHidden
    DEF Next, Step, Contract!Next
<1> QED
  BY <1>1, <1>2, StockInit, StockStep, PTL DEF Spec, Atomic, Contract!Spec
=============================================================================
