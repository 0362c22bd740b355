--------------------------- MODULE InventoryProofs ---------------------------
(***************************************************************************)
(* The safety properties of Inventory, and that it keeps Ledger's books,   *)
(* for any numbers of places, loans, members, requests and pieces.         *)
(***************************************************************************)
EXTENDS Inventory, FiniteSetTheorems, TLAPS

(***************************************************************************)
(* Counting pieces                                                         *)
(***************************************************************************)
(* What some holders have, as a number. *)
Holdings(D) == [D -> 0..MostOwned]

(* Each holder has a part of a sum, which is nothing when nobody has any.    *)
LEMMA SumParts ==
    ASSUME NEW D, IsFiniteSet(D), NEW f \in Holdings(D)
    PROVE  /\ IsFiniteSet(Pieces(f)) /\ Sum(f) \in Nat
           /\ \A d \in D : f[d] <= Sum(f)
           /\ Sum(f) = 0 <=> \A d \in D : f[d] = 0
<1>1. MostOwned \in Nat /\ IsFiniteSet(Totals)
    BY InventoryAssumption, FS_Interval DEF Totals
<1>2. DOMAIN f = D /\ \A d \in D : f[d] \in Nat /\ f[d] <= MostOwned
    BY <1>1 DEF Holdings
<1>3. IsFiniteSet(D \X Totals)
    BY <1>1, FS_Product
<1>4. Pieces(f) \in SUBSET (D \X Totals)
    BY <1>2 DEF Pieces
<1>5. IsFiniteSet(Pieces(f)) /\ Sum(f) \in Nat
    BY <1>3, <1>4, FS_Subset, FS_CardinalityType DEF Sum
<1>6. ASSUME NEW d \in D
      PROVE  f[d] <= Sum(f)
    <2> DEFINE Own == {d} \X (1..f[d])
    <2>1. IsFiniteSet({d}) /\ Cardinality({d}) = 1
        BY FS_Singleton
    <2>2. IsFiniteSet(1..f[d]) /\ Cardinality(1..f[d]) = f[d]
        BY <1>2, FS_Interval
    <2>3. Cardinality(Own) = f[d]
        <3>1. Cardinality(Own) = Cardinality({d}) * Cardinality(1..f[d])
            BY <2>1, <2>2, FS_Product
        <3>2. Cardinality(Own) = 1 * f[d]
            BY <3>1, <2>1, <2>2, Zenon
        <3> HIDE DEF Own
        <3> QED  BY <3>2, <1>2
    <2>4. Own \in SUBSET Pieces(f)
        BY <1>1, <1>2 DEF Pieces, Totals
    <2> QED  BY <2>3, <2>4, <1>5, FS_Subset DEF Sum
<1>7. Sum(f) = 0 <=> Pieces(f) = {}
    BY <1>5, FS_EmptySet DEF Sum
<1>8. ASSUME \A d \in D : f[d] = 0
      PROVE  Pieces(f) = {}
    BY <1>2, <1>8 DEF Pieces, Totals
<1> QED  BY <1>2, <1>5, <1>6, <1>7, <1>8

(* A sum changes by as much as one of its parts does. *)
LEMMA SumChanged ==
    ASSUME NEW D, IsFiniteSet(D), NEW f \in Holdings(D),
           NEW d \in D, NEW n \in 0..MostOwned
    PROVE  /\ [f EXCEPT ![d] = n] \in Holdings(D)
           /\ Sum([f EXCEPT ![d] = n]) = Sum(f) - f[d] + n
<1> DEFINE g == [f EXCEPT ![d] = n]
           Others == {p \in D \X Totals : p[1] # d /\ p[2] <= f[p[1]]}
           Own(k) == {d} \X (1..k)
<1>1. MostOwned \in Nat /\ n \in Nat /\ n <= MostOwned /\ f[d] \in 0..MostOwned
    BY InventoryAssumption DEF Holdings
<1>2. DOMAIN f = D /\ DOMAIN g = D /\ g \in Holdings(D)
    BY DEF Holdings
<1>3. IsFiniteSet(Pieces(f)) /\ IsFiniteSet(Pieces(g)) /\ Sum(f) \in Nat /\ Sum(g) \in Nat
    BY <1>2, SumParts
<1>4. Others \in SUBSET Pieces(f)
    BY <1>2 DEF Pieces
<1>5. IsFiniteSet(Others) /\ Cardinality(Others) \in Nat
    BY <1>3, <1>4, FS_Subset, FS_CardinalityType
<1>6. ASSUME NEW h \in Holdings(D), \A e \in D \ {d} : h[e] = f[e]
      PROVE  Sum(h) = Cardinality(Others) + h[d]
    <2>1. h[d] \in Nat /\ h[d] <= MostOwned /\ DOMAIN h = D
        BY <1>1, InventoryAssumption DEF Holdings
    <2>2. IsFiniteSet({d}) /\ Cardinality({d}) = 1
        BY FS_Singleton
    <2>3. IsFiniteSet(1..h[d]) /\ Cardinality(1..h[d]) = h[d]
        BY <2>1, FS_Interval
    <2>4. IsFiniteSet(Own(h[d])) /\ Cardinality(Own(h[d])) = h[d]
        BY <2>1, <2>2, <2>3, FS_Product
    <2>5. Pieces(h) = Others \cup Own(h[d])
        <3>1. ASSUME NEW p \in Pieces(h)
              PROVE  p \in Others \cup Own(h[d])
            <4>1. p \in D \X Totals /\ p[2] <= h[p[1]]
                BY <2>1 DEF Pieces
            <4>2. CASE p[1] = d
                BY <4>1, <4>2, <2>1 DEF Totals
            <4>3. CASE p[1] # d
                BY <4>1, <4>3, <1>6
            <4> QED  BY <4>2, <4>3
        <3>2. ASSUME NEW p \in Others
              PROVE  p \in Pieces(h)
            BY <3>2, <1>6, <2>1 DEF Pieces
        <3>3. ASSUME NEW p \in Own(h[d])
              PROVE  p \in Pieces(h)
            BY <3>3, <2>1, <1>1 DEF Pieces, Totals
        <3> QED  BY <3>1, <3>2, <3>3
    <2>6. Others \cap Own(h[d]) = {}
        OBVIOUS
    <2>7. Cardinality(Others \cap Own(h[d])) = 0
        BY <2>6, FS_EmptySet
    <2> HIDE DEF Others, Own
    <2> QED  BY <2>1, <2>4, <2>5, <2>7, <1>5, FS_Union DEF Sum
<1>7. g[d] = n /\ \A e \in D \ {d} : g[e] = f[e]
    BY DEF Holdings
<1>8. Sum(f) = Cardinality(Others) + f[d] /\ Sum(g) = Cardinality(Others) + g[d]
    BY <1>2, <1>6, <1>7
<1> HIDE DEF Others, Own
<1> QED  BY <1>1, <1>2, <1>3, <1>5, <1>7, <1>8

(* Who has no more each has no more together, and less when someone has.     *)
LEMMA SumSmaller ==
    ASSUME NEW D, IsFiniteSet(D), NEW f \in Holdings(D), NEW g \in Holdings(D),
           \A d \in D : f[d] <= g[d]
    PROVE  Sum(f) <= Sum(g) /\ (f # g => Sum(f) < Sum(g))
<1>1. DOMAIN f = D /\ DOMAIN g = D
    BY DEF Holdings
<1>2. \A d \in D : f[d] \in Nat /\ g[d] \in Nat /\ g[d] <= MostOwned
    BY InventoryAssumption DEF Holdings
<1>3. IsFiniteSet(Pieces(g)) /\ Sum(f) \in Nat /\ Sum(g) \in Nat
    BY SumParts
<1>4. Pieces(f) \in SUBSET Pieces(g)
    <2> SUFFICES ASSUME NEW p \in Pieces(f)
                 PROVE  p \in Pieces(g)
        OBVIOUS
    <2>1. p \in D \X Totals /\ p[2] <= f[p[1]]
        BY <1>1 DEF Pieces
    <2>2. p[1] \in D /\ p[2] \in Nat
        BY <2>1, InventoryAssumption DEF Totals
    <2>3. p[2] <= g[p[1]]
        BY <2>1, <2>2, <1>2
    <2> QED  BY <2>1, <2>3, <1>1 DEF Pieces
<1>5. ASSUME f # g
      PROVE  Pieces(f) # Pieces(g)
    <2>1. PICK d \in D : f[d] # g[d]
        BY <1>5, <1>1 DEF Holdings
    <2>2. f[d] < g[d] /\ g[d] \in Totals
        BY <2>1, <1>2, InventoryAssumption DEF Totals
    <2>3. <<d, g[d]>> \in Pieces(g) /\ <<d, g[d]>> \notin Pieces(f)
        BY <2>2, <1>1, <1>2 DEF Pieces
    <2> QED  BY <2>3
<1> QED  BY <1>3, <1>4, <1>5, FS_Subset DEF Sum

(* adjust_stock, as long as the row stays within its bounds. *)
LEMMA AdjustedSum ==
    ASSUME NEW s \in Holdings(Places), NEW spot \in Spots, NEW n \in Int,
           spot \in Places => s[spot] + n \in 0..MostOwned
    PROVE  /\ Adjusted(s, spot, n) \in Holdings(Places)
           /\ \A p \in Places : Adjusted(s, spot, n)[p] = IF p = spot THEN s[p] + n ELSE s[p]
           /\ Sum(Adjusted(s, spot, n)) = Sum(s) + IF spot \in Places THEN n ELSE 0
<1>1. IsFiniteSet(Places) /\ MostOwned \in Nat
    BY InventoryAssumption
<1>2. Sum(s) \in Nat
    BY <1>1, SumParts
<1>3. CASE spot \in Places
    <2>1. s[spot] \in Nat /\ s[spot] + n \in Nat
        BY <1>1, <1>3 DEF Holdings
    <2>2. (IF s[spot] + n <= 0 THEN 0 ELSE s[spot] + n) = s[spot] + n
        BY <2>1
    <2>3. Adjusted(s, spot, n) = [s EXCEPT ![spot] = IF s[spot] + n <= 0 THEN 0 ELSE s[spot] + n]
        BY <1>3 DEF Adjusted
    <2>4. Adjusted(s, spot, n) = [s EXCEPT ![spot] = s[spot] + n]
        BY <2>2, <2>3
    <2>5. /\ [s EXCEPT ![spot] = s[spot] + n] \in Holdings(Places)
          /\ Sum([s EXCEPT ![spot] = s[spot] + n]) = Sum(s) - s[spot] + (s[spot] + n)
        BY <1>1, <1>3, SumChanged
    <2>6. Sum(s) - s[spot] + (s[spot] + n) = Sum(s) + n
        BY <1>2, <2>1
    <2>7. \A p \in Places : [s EXCEPT ![spot] = s[spot] + n][p] = IF p = spot THEN s[p] + n ELSE s[p]
        BY DEF Holdings
    <2> QED  BY <1>3, <2>4, <2>5, <2>6, <2>7
<1>4. CASE spot \notin Places
    BY <1>2, <1>4 DEF Adjusted
<1> QED  BY <1>3, <1>4

-----------------------------------------------------------------------------
(* Before the item is added there is nothing to count or to give back. *)
NotYet ==
    ~item.added =>
        /\ item.total = 0 /\ ~item.retired
        /\ Open = {} /\ \A p \in Places : shelf[p] = 0

(* What is placed and what is lent was once counted in the total. *)
Bounded == Placed + Out <= MostOwned

(* What a request carries, whatever has happened since it read. *)
Fits(q) ==
    /\ q.op = "create" => q.qty \in Totals
    /\ q.op = "checkout" => q.qty \in Totals /\ q.who \in Members
                                /\ q.from \in Places \cup {Unspecified}
    /\ q.op = "move" => q.qty \in Totals /\ q.from \in Spots /\ q.from # q.to
    /\ q.op \in {"countPlaced", "countOut", "save"} => q.qty \in Totals
    /\ q.op = "remove" => q.from \in Places
    /\ q.op \notin {"idle", "create", "remove"} => item.added

(* What it still knows as long as nobody has written since. *)
Knows(q) == ~q.stale =>
    /\ q.op = "create" => Usable(q.to)
    /\ q.op = "checkout" => ~item.retired
    /\ q.op = "move" => ~item.retired /\ Usable(q.to)
    /\ q.op = "countPlaced" => Out <= q.sum
    /\ q.op = "countOut" => Placed <= q.sum
    /\ q.op = "save" => Placed + Out <= q.qty
    /\ q.op = "retire" => Open = {}
    /\ q.op = "remove" => item.retired \/ shelf[q.from] = 0

Ready == \A t \in Threads : Fits(thread[t]) /\ Knows(thread[t])

(* The inductive invariant. *)
Sound == TypeOK /\ NotYet /\ Bounded /\ Ready /\ NoPhantoms /\ RetiredIsHome /\ NothingStranded
-----------------------------------------------------------------------------
(***************************************************************************)
(* The counts in a state, and what each transaction does to them           *)
(***************************************************************************)
LEMMA Counts ==
    ASSUME TypeOK
    PROVE  /\ shelf \in Holdings(Places) /\ Lent \in Holdings(Loans)
           /\ Placed \in Nat /\ Out \in Nat /\ item.total \in Nat /\ item.total <= MostOwned
           /\ \A p \in Places : shelf[p] \in Nat /\ shelf[p] <= Placed
           /\ \A l \in Loans : Lent[l] = loan[l].qty /\ loan[l].qty \in Nat /\ loan[l].qty <= Out
           /\ \A l \in Loans : IF l \in Open THEN loan[l].qty > 0 ELSE loan[l].qty = 0
           /\ Open = {} <=> Out = 0
           /\ (\A p \in Places : shelf[p] = 0) <=> Placed = 0
<1>1. IsFiniteSet(Places) /\ IsFiniteSet(Loans) /\ MostOwned \in Nat /\ MostOwned > 0
    BY InventoryAssumption
<1>2. shelf \in Holdings(Places) /\ item.total \in Nat /\ item.total <= MostOwned
    BY <1>1 DEF TypeOK, Holdings
<1>3. \A l \in Loans : loan[l] \in [who : Members, qty : Totals, from : Spots] \cup {NoLoan}
    BY DEF TypeOK
<1>4. NoLoan.qty = 0
    BY DEF NoLoan
<1>5. \A l \in Loans : loan[l].qty \in 0..MostOwned
    BY <1>1, <1>3, <1>4 DEF Totals
<1>6. \A l \in Loans : IF l \in Open THEN loan[l].qty > 0 ELSE loan[l].qty = 0
    BY <1>1, <1>3, <1>4 DEF Totals, Open
<1>7. Lent \in Holdings(Loans) /\ \A l \in Loans : Lent[l] = loan[l].qty
    BY <1>5 DEF Lent, Holdings
<1>8. Placed \in Nat /\ (\A p \in Places : shelf[p] <= Placed)
          /\ (Placed = 0 <=> \A p \in Places : shelf[p] = 0)
    BY <1>1, <1>2, SumParts DEF Placed
<1>9. Out \in Nat /\ (\A l \in Loans : Lent[l] <= Out) /\ (Out = 0 <=> \A l \in Loans : Lent[l] = 0)
    BY <1>1, <1>7, SumParts DEF Out
<1>10. Open = {} <=> Out = 0
    BY <1>6, <1>7, <1>9 DEF Open
<1>11. \A p \in Places : shelf[p] \in Nat
    BY <1>1, <1>2 DEF Holdings
<1>12. \A l \in Loans : loan[l].qty \in Nat
    BY <1>1, <1>5
<1> QED  BY <1>2, <1>6, <1>7, <1>8, <1>9, <1>10, <1>11, <1>12

(* One loan is made or given back. *)
LEMMA LoanEffect ==
    ASSUME TypeOK, NEW l \in Loans, NEW r, r.qty \in 0..MostOwned,
           loan' = [loan EXCEPT ![l] = r]
    PROVE  /\ Lent' = [Lent EXCEPT ![l] = r.qty] /\ Lent' \in Holdings(Loans)
           /\ Out' = Out - loan[l].qty + r.qty
<1>1. IsFiniteSet(Loans) /\ Lent \in Holdings(Loans) /\ Lent[l] = loan[l].qty
    BY InventoryAssumption, Counts
<1>2. Lent' = [Lent EXCEPT ![l] = r.qty]
    BY DEF TypeOK, Lent
<1>3. /\ [Lent EXCEPT ![l] = r.qty] \in Holdings(Loans)
      /\ Sum([Lent EXCEPT ![l] = r.qty]) = Sum(Lent) - Lent[l] + r.qty
    BY <1>1, SumChanged
<1> QED  BY <1>1, <1>2, <1>3 DEF Out

LEMMA CheckoutEffect ==
    ASSUME TypeOK, Bounded, NEW q \in Thread, q.op = "checkout", Fits(q),
           NEW from \in Sources(q), q.qty <= Have(from), NEW l \in Loans \ Open,
           shelf' = Adjusted(shelf, from, -q.qty),
           loan' = [loan EXCEPT ![l] = [who |-> q.who, qty |-> q.qty, from |-> from]]
    PROVE  /\ from \in Spots /\ q.qty \in Nat /\ q.qty > 0 /\ q.qty <= MostOwned
           /\ shelf' \in Holdings(Places)
           /\ \A p \in Places : shelf'[p] = IF p = from THEN shelf[p] - q.qty ELSE shelf[p]
           /\ Lent' = [Lent EXCEPT ![l] = q.qty]
           /\ Placed' = Placed - IF from \in Places THEN q.qty ELSE 0
           /\ Out' = Out + q.qty
           /\ Placed' + Out' <= MostOwned
<1>1. MostOwned \in Nat /\ q.qty \in Nat /\ q.qty > 0 /\ q.qty <= MostOwned
    BY InventoryAssumption DEF Fits, Totals
<1>2. from \in Spots
    BY DEF Sources, Fits, Spots
<1>3. from \in Places => shelf[from] + -q.qty \in 0..MostOwned
    BY <1>1, Counts DEF Have, Bounded
<1>4. /\ shelf' \in Holdings(Places)
      /\ \A p \in Places : shelf'[p] = IF p = from THEN shelf[p] + -q.qty ELSE shelf[p]
      /\ Placed' = Placed + IF from \in Places THEN -q.qty ELSE 0
    <2>1. shelf \in Holdings(Places) /\ -q.qty \in Int
        BY <1>1, Counts
    <2>2. /\ Adjusted(shelf, from, -q.qty) \in Holdings(Places)
          /\ \A p \in Places : Adjusted(shelf, from, -q.qty)[p] = IF p = from THEN shelf[p] + -q.qty ELSE shelf[p]
          /\ Sum(Adjusted(shelf, from, -q.qty)) = Sum(shelf) + IF from \in Places THEN -q.qty ELSE 0
        BY <2>1, <1>2, <1>3, AdjustedSum
    <2> QED  BY <2>2 DEF Placed
<1>5. /\ Lent' = [Lent EXCEPT ![l] = q.qty]
      /\ Out' = Out - loan[l].qty + q.qty
    <2> DEFINE row == [who |-> q.who, qty |-> q.qty, from |-> from]
    <2>1. row.qty = q.qty /\ row.qty \in 0..MostOwned
        BY <1>1
    <2>2. loan' = [loan EXCEPT ![l] = row]
        OBVIOUS
    <2> HIDE DEF row
    <2>3. /\ Lent' = [Lent EXCEPT ![l] = row.qty]
          /\ Out' = Out - loan[l].qty + row.qty
        BY <2>1, <2>2, LoanEffect
    <2> QED  BY <2>1, <2>3
<1>6. loan[l].qty = 0
    BY Counts
<1>7. Out' = Out + q.qty
    BY <1>1, <1>5, <1>6, Counts
<1>8. Placed' + Out' <= MostOwned
    BY <1>1, <1>4, <1>7, Counts DEF Bounded, Have, Unplaced
<1>9. Placed' = Placed - IF from \in Places THEN q.qty ELSE 0
    BY <1>1, <1>4, Counts
<1>10. \A p \in Places : shelf'[p] = IF p = from THEN shelf[p] - q.qty ELSE shelf[p]
    BY <1>1, <1>4, Counts
<1> QED  BY <1>1, <1>2, <1>4, <1>5, <1>7, <1>8, <1>9, <1>10

LEMMA MoveEffect ==
    ASSUME TypeOK, Bounded, NEW q \in Thread, q.op = "move", Fits(q),
           q.qty <= Have(q.from),
           shelf' = Adjusted(Adjusted(shelf, q.from, -q.qty), q.to, q.qty)
    PROVE  /\ q.from \in Spots /\ q.to \in Spots /\ q.from # q.to
           /\ q.qty \in Nat /\ q.qty > 0
           /\ shelf' \in Holdings(Places)
           /\ \A p \in Places : shelf'[p] = IF p = q.from THEN shelf[p] - q.qty
                                           ELSE IF p = q.to THEN shelf[p] + q.qty ELSE shelf[p]
           /\ Placed' = Placed - (IF q.from \in Places THEN q.qty ELSE 0)
                              + (IF q.to \in Places THEN q.qty ELSE 0)
           /\ Placed' + Out <= MostOwned
<1> DEFINE mid == Adjusted(shelf, q.from, -q.qty)
<1>1. /\ MostOwned \in Nat /\ q.qty \in Nat /\ q.qty > 0 /\ q.qty <= MostOwned
      /\ q.from \in Spots /\ q.to \in Spots /\ q.from # q.to
    BY InventoryAssumption DEF Fits, Totals, Thread
<1>2. q.from \in Places => shelf[q.from] + -q.qty \in 0..MostOwned
    BY <1>1, Counts DEF Have, Bounded
<1>3. /\ mid \in Holdings(Places)
      /\ \A p \in Places : mid[p] = IF p = q.from THEN shelf[p] + -q.qty ELSE shelf[p]
      /\ Sum(mid) = Placed + IF q.from \in Places THEN -q.qty ELSE 0
    <2>1. shelf \in Holdings(Places) /\ -q.qty \in Int
        BY <1>1, Counts
    <2>2. /\ Adjusted(shelf, q.from, -q.qty) \in Holdings(Places)
          /\ \A p \in Places : Adjusted(shelf, q.from, -q.qty)[p] = IF p = q.from THEN shelf[p] + -q.qty ELSE shelf[p]
          /\ Sum(Adjusted(shelf, q.from, -q.qty)) = Sum(shelf) + IF q.from \in Places THEN -q.qty ELSE 0
        BY <2>1, <1>1, <1>2, AdjustedSum
    <2> QED  BY <2>2 DEF Placed
<1>4. Sum(mid) \in Nat /\ \A p \in Places : mid[p] \in Nat /\ mid[p] <= Sum(mid)
    BY <1>1, <1>3, InventoryAssumption, SumParts DEF Holdings
<1> HIDE DEF mid
<1>5. Sum(mid) + q.qty + Out <= MostOwned
    BY <1>1, <1>3, <1>4, Counts DEF Bounded, Have, Unplaced
<1>6. q.to \in Places => mid[q.to] + q.qty \in 0..MostOwned
    BY <1>1, <1>4, <1>5, Counts
<1>7. shelf' = Adjusted(mid, q.to, q.qty)
    BY DEF mid
<1>8. /\ shelf' \in Holdings(Places)
      /\ \A p \in Places : shelf'[p] = IF p = q.to THEN mid[p] + q.qty ELSE mid[p]
      /\ Placed' = Sum(mid) + IF q.to \in Places THEN q.qty ELSE 0
    BY <1>1, <1>3, <1>6, <1>7, AdjustedSum DEF Placed
<1>9. \A p \in Places : shelf'[p] = IF p = q.from THEN shelf[p] - q.qty
                                  ELSE IF p = q.to THEN shelf[p] + q.qty ELSE shelf[p]
    BY <1>1, <1>3, <1>8, Counts
<1>10. Placed' = Placed - (IF q.from \in Places THEN q.qty ELSE 0)
                     + (IF q.to \in Places THEN q.qty ELSE 0)
    BY <1>1, <1>3, <1>8, Counts
<1>11. Placed' + Out <= MostOwned
    BY <1>1, <1>4, <1>5, <1>8, Counts
<1> QED  BY <1>1, <1>8, <1>9, <1>10, <1>11

LEMMA ReturnEffect ==
    ASSUME TypeOK, Bounded, NEW l \in Open, NEW to \in Spots,
           loan' = [loan EXCEPT ![l] = NoLoan],
           shelf' = Adjusted(shelf, to, loan[l].qty)
    PROVE  /\ loan[l].qty \in Nat /\ loan[l].qty > 0
           /\ shelf' \in Holdings(Places)
           /\ \A p \in Places : shelf'[p] = IF p = to THEN shelf[p] + loan[l].qty ELSE shelf[p]
           /\ Lent' = [Lent EXCEPT ![l] = 0]
           /\ Placed' = Placed + IF to \in Places THEN loan[l].qty ELSE 0
           /\ Out' = Out - loan[l].qty /\ Out' \in Nat
           /\ Placed' + Out' <= MostOwned
<1>1. /\ MostOwned \in Nat /\ l \in Loans
      /\ loan[l].qty \in Nat /\ loan[l].qty > 0 /\ loan[l].qty <= Out
    BY InventoryAssumption, Counts DEF Open
<1>2. to \in Places => shelf[to] + loan[l].qty \in 0..MostOwned
    BY <1>1, Counts DEF Bounded
<1>3. /\ shelf' \in Holdings(Places)
      /\ \A p \in Places : shelf'[p] = IF p = to THEN shelf[p] + loan[l].qty ELSE shelf[p]
      /\ Placed' = Placed + IF to \in Places THEN loan[l].qty ELSE 0
    <2>1. shelf \in Holdings(Places) /\ loan[l].qty \in Int
        BY <1>1, Counts
    <2>2. /\ Adjusted(shelf, to, loan[l].qty) \in Holdings(Places)
          /\ \A p \in Places : Adjusted(shelf, to, loan[l].qty)[p] = IF p = to THEN shelf[p] + loan[l].qty ELSE shelf[p]
          /\ Sum(Adjusted(shelf, to, loan[l].qty)) = Sum(shelf) + IF to \in Places THEN loan[l].qty ELSE 0
        BY <2>1, <1>1, <1>2, AdjustedSum
    <2> QED  BY <2>2 DEF Placed
<1>4. NoLoan.qty = 0 /\ 0 \in 0..MostOwned
    BY <1>1 DEF NoLoan
<1>5. /\ Lent' = [Lent EXCEPT ![l] = 0]
      /\ Out' = Out - loan[l].qty + 0
    BY <1>1, <1>4, LoanEffect
<1>6. Out' = Out - loan[l].qty /\ Out' \in Nat
    BY <1>1, <1>5, Counts
<1>7. Placed' + Out' <= MostOwned
    BY <1>1, <1>3, <1>6, Counts DEF Bounded
<1> QED  BY <1>1, <1>3, <1>5, <1>6, <1>7

(* The loans of one borrower are forgotten. *)
LEMMA ForgetEffect ==
    ASSUME TypeOK, NEW m \in Members,
           loan' = [l \in Loans |-> IF loan[l].who = m THEN NoLoan ELSE loan[l]]
    PROVE  /\ Lent' = [l \in Loans |-> IF loan[l].who = m THEN 0 ELSE Lent[l]]
           /\ Out' \in Nat /\ Out' <= Out /\ (Lent' # Lent => Out' < Out)
<1>1. IsFiniteSet(Loans) /\ MostOwned \in Nat
    BY InventoryAssumption
<1>2. Lent \in Holdings(Loans) /\ \A l \in Loans : Lent[l] = loan[l].qty /\ Lent[l] \in Nat
    BY Counts
<1>3. Lent' = [l \in Loans |-> IF loan[l].who = m THEN 0 ELSE Lent[l]]
    BY <1>2 DEF Lent, NoLoan
<1>4. Lent' \in Holdings(Loans)
    BY <1>1, <1>2, <1>3 DEF Holdings
<1>5. \A l \in Loans : Lent'[l] <= Lent[l]
    BY <1>2, <1>3
<1> QED  BY <1>1, <1>2, <1>3, <1>4, <1>5, SumSmaller, SumParts DEF Out
-----------------------------------------------------------------------------
(***************************************************************************)
(* Sound is inductive                                                      *)
(***************************************************************************)
Rows == <<item, place, shelf, loan, present, raced>>

LEMMA Initially == Init => Sound
<1> SUFFICES ASSUME Init
             PROVE  Sound
    OBVIOUS
<1>1. MostOwned \in Nat /\ MostOwned > 0 /\ 0 \in 0..MostOwned
    BY InventoryAssumption
<1>2. Open = {}
    BY DEF Init, Open
<1>3. Idle \in Thread
    BY <1>1 DEF Idle, Thread, Spots
<1>4. TypeOK
    BY <1>1, <1>2, <1>3 DEF Init, TypeOK
<1>5. Placed = 0 /\ Out = 0 /\ item.total = 0
    BY <1>2, <1>4, Counts DEF Init
<1>6. Fits(Idle) /\ Knows(Idle)
    BY DEF Idle, Fits, Knows
<1>7. Ready
    BY <1>6 DEF Init, Ready
<1>8. NotYet /\ Bounded /\ NoPhantoms
    BY <1>1, <1>2, <1>5 DEF Init, NotYet, Bounded, NoPhantoms, Unplaced
<1>9. RetiredIsHome /\ NothingStranded
    BY <1>2 DEF Init, RetiredIsHome, NothingStranded
<1> QED  BY <1>4, <1>7, <1>8, <1>9 DEF Sound

(* A step that writes nothing: what the request carries is all that counts.  *)
LEMMA NothingWritten ==
    ASSUME Sound, UNCHANGED Rows, NEW t \in Threads, NEW q \in Thread, Fits(q), Knows(q),
           thread' = [thread EXCEPT ![t] = q]
    PROVE  Sound'
<1> USE DEF Rows
<1>1. Open' = Open /\ Placed' = Placed /\ Out' = Out /\ Unplaced' = Unplaced
    BY DEF Open, Placed, Lent, Out, Unplaced
<1>2. TypeOK'
    BY <1>1 DEF Sound, TypeOK
<1>3. \A u \in Threads : Fits(thread'[u]) /\ Knows(thread'[u])
    BY DEF Sound, Ready, TypeOK
<1>4. Ready'
    <2> SUFFICES ASSUME NEW u \in Threads
                 PROVE  (Fits(thread[u]) /\ Knows(thread[u]))'
        BY DEF Ready
    <2>1. Fits(thread[u])'
        BY <1>3 DEF Fits
    <2>2. Knows(thread[u])'
        BY <1>1, <1>3 DEF Knows, Usable
    <2> QED  BY <2>1, <2>2
<1>5. NotYet' /\ Bounded' /\ NoPhantoms' /\ RetiredIsHome' /\ NothingStranded'
    BY <1>1 DEF Sound, NotYet, Bounded, NoPhantoms, RetiredIsHome, NothingStranded
<1> QED  BY <1>2, <1>4, <1>5 DEF Sound

LEMMA Refusing ==
    ASSUME Sound, NEW t \in Threads, Refused(t)
    PROVE  Sound'
<1>1. Idle \in Thread
    BY InventoryAssumption DEF Idle, Thread, Spots
<1>2. Fits(Idle) /\ Knows(Idle)
    BY DEF Idle, Fits, Knows
<1> QED  BY <1>1, <1>2, NothingWritten DEF Refused, Rows

(* A write leaves the others with what they carry, and knowing nothing. *)
LEMMA AgedKnowsNothing ==
    ASSUME Sound, thread' \in [Threads -> {Idle} \cup {Aged(thread[u]) : u \in Threads}],
           item.added => item'.added
    PROVE  Ready' /\ thread' \in [Threads -> Thread]
<1>1. Idle \in Thread
    BY InventoryAssumption DEF Idle, Thread, Spots
<1>2. ASSUME NEW q \in Thread, Fits(q)
      PROVE  /\ Aged(q) \in Thread /\ Fits(Aged(q))
             /\ Aged(q).op = "idle" \/ Aged(q).stale
    <2>1. CASE q.op = "idle"
        BY <1>2, <2>1 DEF Aged
    <2>2. CASE q.op # "idle"
        <3> DEFINE r == [q EXCEPT !.stale = TRUE]
        <3>1. Aged(q) = r
            BY <2>2 DEF Aged
        <3>2. /\ r \in Thread /\ r.stale /\ r.op = q.op /\ r.qty = q.qty /\ r.who = q.who
              /\ r.from = q.from /\ r.to = q.to
            BY DEF Thread
        <3> HIDE DEF r
        <3>3. Fits(r)
            BY <1>2, <3>2 DEF Fits
        <3> QED  BY <3>1, <3>2, <3>3
    <2> QED  BY <2>1, <2>2
<1>3. Idle.op = "idle" /\ Fits(Idle)
    BY DEF Idle, Fits
<1>4. ASSUME NEW u \in Threads
      PROVE  /\ thread'[u] \in Thread /\ Fits(thread'[u])
             /\ thread'[u].op = "idle" \/ thread'[u].stale
    <2>1. \A w \in Threads : thread[w] \in Thread /\ Fits(thread[w])
        BY DEF Sound, TypeOK, Ready
    <2>2. thread'[u] = Idle \/ \E w \in Threads : thread'[u] = Aged(thread[w])
        OBVIOUS
    <2> QED  BY <1>1, <1>2, <1>3, <2>1, <2>2
<1>5. thread' \in [Threads -> Thread]
    BY <1>4
<1>6. Ready'
    <2> SUFFICES ASSUME NEW u \in Threads
                 PROVE  (Fits(thread[u]) /\ Knows(thread[u]))'
        BY DEF Ready
    <2>1. Fits(thread[u])'
        BY <1>4 DEF Fits
    <2>2. Knows(thread[u])'
        BY <1>4 DEF Knows
    <2> QED  BY <2>1, <2>2
<1> QED  BY <1>5, <1>6

LEMMA Writing ==
    ASSUME Sound, NEW t \in Threads, Wrote(t), item.added => item'.added
    PROVE  /\ Ready' /\ thread' \in [Threads -> Thread] /\ raced' \in BOOLEAN
           /\ thread[t] \in Thread /\ Fits(thread[t])
           /\ ~raced' => ~raced /\ ~thread[t].stale /\ Knows(thread[t])
<1>1. thread[t] \in Thread /\ Fits(thread[t]) /\ Knows(thread[t]) /\ raced \in BOOLEAN
    BY DEF Sound, TypeOK, Ready
<1>2. raced' \in BOOLEAN /\ (~raced' => ~raced /\ ~thread[t].stale)
    BY <1>1 DEF Wrote, Thread
<1>3. thread' \in [Threads -> {Idle} \cup {Aged(thread[u]) : u \in Threads}]
    BY DEF Wrote
<1> QED  BY <1>1, <1>2, <1>3, AgedKnowsNothing

-----------------------------------------------------------------------------
LEMMA AskingKeepsSound ==
    ASSUME Sound, NEW t \in Threads,
           AskCreate(t) \/ AskCheckout(t) \/ AskMove(t) \/ AskEdit(t) \/ AskRetire(t)
               \/ AskRemovePlace(t)
    PROVE  Sound'
<1>1. \E q \in Thread : Fits(q) /\ Knows(q) /\ Ask(t, q)
    <2>1. /\ Totals \subseteq 0..MostOwned /\ 0 \in 0..MostOwned /\ Loose \in Spots
          /\ Places \subseteq Spots /\ present \subseteq Members /\ Totals \subseteq Nat
        BY InventoryAssumption DEF Totals, Spots, Sound, TypeOK
    <2>2. Placed \in Nat /\ Out \in Nat /\ Placed + Out <= MostOwned /\ MostOwned \in Nat
        BY Counts, InventoryAssumption DEF Sound, Bounded
    <2>3. Placed \in 0..MostOwned /\ Out \in 0..MostOwned /\ (Open = {} <=> Out = 0)
        BY <2>2, Counts DEF Sound
    <2>4. CASE AskCreate(t)
        <3>1. PICK n \in Totals, to \in Spots :
                 Usable(to) /\ Ask(t, [Idle EXCEPT !.op = "create", !.qty = n, !.to = to])
            BY <2>4 DEF AskCreate
        <3> DEFINE q == [Idle EXCEPT !.op = "create", !.qty = n, !.to = to]
        <3>2. q \in Thread /\ Fits(q) /\ Knows(q)
            BY <2>1, <3>1 DEF Idle, Thread, Fits, Knows
        <3> QED  BY <3>1, <3>2
    <2>5. CASE AskCheckout(t)
        <3>1. PICK n \in Totals, from \in Places \cup {Unspecified}, m \in present :
                 /\ item.added /\ ~item.retired
                 /\ Ask(t, [Idle EXCEPT !.op = "checkout", !.qty = n, !.from = from, !.who = m])
            BY <2>5 DEF AskCheckout
        <3> DEFINE q == [Idle EXCEPT !.op = "checkout", !.qty = n, !.from = from, !.who = m]
        <3>2. q \in Thread /\ Fits(q) /\ Knows(q)
            BY <2>1, <3>1 DEF Idle, Thread, Fits, Knows
        <3> QED  BY <3>1, <3>2
    <2>6. CASE AskMove(t)
        <3>1. PICK n \in Totals, from \in Spots, to \in Spots :
                 /\ item.added /\ ~item.retired /\ from # to /\ Usable(to)
                 /\ Ask(t, [Idle EXCEPT !.op = "move", !.qty = n, !.from = from, !.to = to])
            BY <2>6 DEF AskMove
        <3> DEFINE q == [Idle EXCEPT !.op = "move", !.qty = n, !.from = from, !.to = to]
        <3>2. q \in Thread /\ Fits(q) /\ Knows(q)
            BY <2>1, <3>1 DEF Idle, Thread, Fits, Knows
        <3> QED  BY <3>1, <3>2
    <2>7. CASE AskEdit(t)
        <3>1. PICK n \in Totals :
                 /\ item.added
                 /\ \/ Ask(t, [Idle EXCEPT !.op = "countPlaced", !.qty = n, !.sum = Out])
                    \/ Ask(t, [Idle EXCEPT !.op = "countOut", !.qty = n, !.sum = Placed])
            BY <2>7 DEF AskEdit
        <3> DEFINE q == [Idle EXCEPT !.op = "countPlaced", !.qty = n, !.sum = Out]
                   r == [Idle EXCEPT !.op = "countOut", !.qty = n, !.sum = Placed]
        <3>2. q \in Thread /\ q.op = "countPlaced" /\ q.qty = n /\ q.sum = Out
            BY <2>1, <2>3 DEF Idle, Thread
        <3>3. r \in Thread /\ r.op = "countOut" /\ r.qty = n /\ r.sum = Placed
            BY <2>1, <2>3 DEF Idle, Thread
        <3> HIDE DEF q, r
        <3>4. Fits(q) /\ Knows(q)
            BY <2>2, <3>1, <3>2 DEF Fits, Knows
        <3>5. Fits(r) /\ Knows(r)
            BY <2>2, <3>1, <3>3 DEF Fits, Knows
        <3>6. Ask(t, q) \/ Ask(t, r)
            BY <3>1 DEF q, r
        <3> QED  BY <3>2, <3>3, <3>4, <3>5, <3>6
    <2>8. CASE AskRetire(t)
        <3> DEFINE q == [Idle EXCEPT !.op = "retire"]
        <3>1. item.added /\ Out = 0 /\ Ask(t, q)
            BY <2>8 DEF AskRetire
        <3>2. q \in Thread /\ Fits(q) /\ Knows(q)
            BY <2>1, <2>3, <3>1 DEF Idle, Thread, Fits, Knows
        <3> QED  BY <3>1, <3>2
    <2>9. CASE AskRemovePlace(t)
        <3>1. PICK p \in Places :
                 /\ item.retired \/ shelf[p] = 0
                 /\ Ask(t, [Idle EXCEPT !.op = "remove", !.from = p])
            BY <2>9 DEF AskRemovePlace
        <3> DEFINE q == [Idle EXCEPT !.op = "remove", !.from = p]
        <3>2. q \in Thread /\ Fits(q) /\ Knows(q)
            BY <2>1, <3>1 DEF Idle, Thread, Fits, Knows
        <3> QED  BY <3>1, <3>2
    <2> QED  BY <2>4, <2>5, <2>6, <2>7, <2>8, <2>9
<1> QED  BY <1>1, NothingWritten DEF Ask, Rows

LEMMA CreateEffect ==
    ASSUME Sound, NEW t \in Threads, Create(t)
    PROVE  LET q == thread[t] IN
           /\ q.qty \in Nat /\ q.qty > 0 /\ q.qty <= MostOwned /\ q.to \in Spots
           /\ Open = {} /\ Open' = {} /\ Out = 0 /\ Out' = 0 /\ Placed = 0 /\ item.total = 0
           /\ \A p \in Places : shelf[p] = 0
           /\ shelf' \in Holdings(Places)
           /\ \A p \in Places : shelf'[p] = IF p = q.to THEN q.qty ELSE 0
           /\ Placed' = IF q.to \in Places THEN q.qty ELSE 0
<1> DEFINE q == thread[t]
<1>1. /\ q.op = "create" /\ ~item.added /\ shelf' = Adjusted(shelf, q.to, q.qty)
      /\ UNCHANGED loan /\ q \in Thread /\ Fits(q)
    BY DEF Create, Sound, TypeOK, Ready
<1>2. q.qty \in Nat /\ q.qty > 0 /\ q.qty <= MostOwned /\ MostOwned \in Nat /\ q.to \in Spots
    BY <1>1, InventoryAssumption DEF Fits, Totals, Thread
<1>3. /\ Open = {} /\ Open' = {} /\ Out = 0 /\ Out' = 0 /\ Placed = 0 /\ item.total = 0
      /\ \A p \in Places : shelf[p] = 0
    BY <1>1, Counts DEF Sound, NotYet, Open, Out, Lent
<1> HIDE DEF q
<1>4. shelf \in Holdings(Places) /\ (q.to \in Places => shelf[q.to] + q.qty \in 0..MostOwned)
    BY <1>2, <1>3, Counts DEF Sound
<1>5. /\ Adjusted(shelf, q.to, q.qty) \in Holdings(Places)
      /\ \A p \in Places : Adjusted(shelf, q.to, q.qty)[p] = IF p = q.to THEN shelf[p] + q.qty ELSE shelf[p]
      /\ Sum(Adjusted(shelf, q.to, q.qty)) = Sum(shelf) + IF q.to \in Places THEN q.qty ELSE 0
    BY <1>2, <1>4, AdjustedSum
<1>6. /\ shelf' \in Holdings(Places)
      /\ \A p \in Places : shelf'[p] = IF p = q.to THEN q.qty ELSE 0
      /\ Placed' = IF q.to \in Places THEN q.qty ELSE 0
    BY <1>1, <1>2, <1>3, <1>5 DEF Placed
<1> QED  BY <1>2, <1>3, <1>6 DEF q

LEMMA CreateKeepsSound ==
    ASSUME Sound, NEW t \in Threads, Create(t)
    PROVE  Sound'
<1> DEFINE q == thread[t]
<1>1. /\ q.op = "create" /\ ~item.added /\ item' = [added |-> TRUE, retired |-> FALSE, total |-> q.qty]
      /\ Wrote(t) /\ UNCHANGED <<place, loan, present>>
    BY DEF Create
<1>2. /\ Ready' /\ thread' \in [Threads -> Thread] /\ raced' \in BOOLEAN
      /\ q \in Thread /\ Fits(q) /\ (~raced' => Knows(q) /\ ~q.stale)
    BY <1>1, Writing
<1>3. q.qty \in Nat /\ q.qty > 0 /\ q.qty <= MostOwned /\ q.to \in Spots /\ MostOwned \in Nat
    BY CreateEffect, InventoryAssumption
<1>4. Open' = {} /\ Out' = 0
    BY CreateEffect
<1>5. /\ shelf' \in Holdings(Places) /\ \A p \in Places : p # q.to => shelf'[p] = 0
      /\ Placed' = IF q.to \in Places THEN q.qty ELSE 0
    BY CreateEffect
<1> HIDE DEF q
<1>6. TypeOK'
    BY <1>1, <1>2, <1>3, <1>4, <1>5 DEF Sound, TypeOK, Holdings
<1>7. NotYet' /\ Bounded' /\ NoPhantoms' /\ RetiredIsHome'
    BY <1>1, <1>3, <1>4, <1>5 DEF NotYet, Bounded, NoPhantoms, Unplaced, RetiredIsHome
<1>8. NothingStranded'
    <2> SUFFICES ASSUME ~raced', NEW p \in Places, shelf'[p] > 0
                 PROVE  place'[p] = "there"
        BY DEF NothingStranded
    <2>1. p = q.to
        BY <1>5
    <2>2. Usable(q.to)
        BY <1>1, <1>2 DEF Knows, q
    <2> QED  BY <1>1, <2>1, <2>2 DEF Usable
<1> QED  BY <1>2, <1>6, <1>7, <1>8 DEF Sound
LEMMA CheckoutKeepsSound ==
    ASSUME Sound, NEW t \in Threads, Checkout(t)
    PROVE  Sound'
<1> DEFINE q == thread[t]
<1>1. TypeOK /\ Bounded /\ q \in Thread /\ Fits(q) /\ q.op = "checkout"
    BY DEF Sound, TypeOK, Ready, Checkout
<1>2. CASE Refused(t)
    BY <1>2, Refusing
<1>3. ASSUME ~Refused(t)
      PROVE  Sound'
    <2>1. PICK from \in Sources(q), l \in Loans \ Open :
             /\ q.qty <= Have(from) /\ q.who \in present
             /\ shelf' = Adjusted(shelf, from, -q.qty)
             /\ loan' = [loan EXCEPT ![l] = [who |-> q.who, qty |-> q.qty, from |-> from]]
             /\ Wrote(t) /\ UNCHANGED <<item, place, present>>
        BY <1>3 DEF Checkout
    <2>2. /\ from \in Spots /\ q.qty \in Nat /\ q.qty > 0 /\ q.qty <= MostOwned
          /\ shelf' \in Holdings(Places)
          /\ \A p \in Places : shelf'[p] = IF p = from THEN shelf[p] - q.qty ELSE shelf[p]
          /\ Placed' = Placed - IF from \in Places THEN q.qty ELSE 0
          /\ Out' = Out + q.qty
          /\ Placed' + Out' <= MostOwned
        BY <1>1, <2>1, CheckoutEffect
    <2>3. /\ Ready' /\ thread' \in [Threads -> Thread] /\ raced' \in BOOLEAN
          /\ (~raced' => ~raced /\ ~q.stale /\ Knows(q))
        BY <2>1, Writing
    <2>4. MostOwned \in Nat /\ q.who \in Members /\ item.added /\ Placed \in Nat /\ Out \in Nat
              /\ item.total \in Nat
        BY <1>1, InventoryAssumption, Counts DEF Fits
    <2> HIDE DEF q
    <2>5. \A k \in Loans : loan'[k] = IF k = l THEN [who |-> q.who, qty |-> q.qty, from |-> from]
                                    ELSE loan[k]
        BY <1>1, <2>1 DEF TypeOK
    <2>6. [who |-> q.who, qty |-> q.qty, from |-> from] \in [who : Members, qty : Totals, from : Spots]
        BY <2>2, <2>4 DEF Totals
    <2>7. TypeOK'
        <3>1. loan' \in [Loans -> [who : Members, qty : Totals, from : Spots] \cup {NoLoan}]
            BY <1>1, <2>1, <2>6 DEF TypeOK
        <3>2. \A k \in Open' : loan'[k].who \in present'
            BY <1>1, <2>1, <2>5 DEF TypeOK, Open
        <3> QED  BY <1>1, <2>1, <2>2, <2>3, <3>1, <3>2 DEF TypeOK, Holdings
    <2>8. NotYet' /\ Bounded'
        BY <2>1, <2>2, <2>4 DEF NotYet, Bounded
    <2>9. NoPhantoms'
        <3> SUFFICES ASSUME ~raced'
                     PROVE  Unplaced' >= 0
            BY DEF NoPhantoms
        <3>1. Unplaced >= 0
            BY <2>3 DEF Sound, NoPhantoms
        <3>2. CASE from \in Places
            BY <2>1, <2>2, <2>4, <3>1, <3>2 DEF Unplaced
        <3>3. CASE from \notin Places
            <4>1. q.qty <= Unplaced
                BY <2>1, <3>3 DEF Have
            <4> QED  BY <2>1, <2>2, <2>4, <3>3, <4>1 DEF Unplaced
        <3> QED  BY <3>2, <3>3
    <2>10. RetiredIsHome'
        BY <1>1, <2>1, <2>3 DEF Knows, RetiredIsHome
    <2>11. NothingStranded'
        <3> SUFFICES ASSUME ~raced', ~item.retired, NEW p \in Places, shelf'[p] > 0
                     PROVE  place[p] = "there"
            BY <2>1 DEF NothingStranded
        <3>1. shelf[p] > 0
            BY <1>1, <2>2, Counts
        <3> QED  BY <2>3, <3>1 DEF Sound, NothingStranded
    <2> QED  BY <2>3, <2>7, <2>8, <2>9, <2>10, <2>11 DEF Sound
<1> QED  BY <1>2, <1>3

LEMMA MoveKeepsSound ==
    ASSUME Sound, NEW t \in Threads, Move(t)
    PROVE  Sound'
<1> DEFINE q == thread[t]
<1>1. TypeOK /\ Bounded /\ q \in Thread /\ Fits(q) /\ q.op = "move"
    BY DEF Sound, TypeOK, Ready, Move
<1>2. CASE Refused(t)
    BY <1>2, Refusing
<1>3. ASSUME ~Refused(t)
      PROVE  Sound'
    <2>1. /\ q.qty <= Have(q.from)
          /\ shelf' = Adjusted(Adjusted(shelf, q.from, -q.qty), q.to, q.qty)
          /\ Wrote(t) /\ UNCHANGED <<item, place, loan, present>>
        BY <1>3 DEF Move
    <2>2. /\ q.from \in Spots /\ q.to \in Spots /\ q.from # q.to
          /\ q.qty \in Nat /\ q.qty > 0
          /\ shelf' \in Holdings(Places)
          /\ \A p \in Places : shelf'[p] = IF p = q.from THEN shelf[p] - q.qty
                                          ELSE IF p = q.to THEN shelf[p] + q.qty ELSE shelf[p]
          /\ Placed' = Placed - (IF q.from \in Places THEN q.qty ELSE 0)
                             + (IF q.to \in Places THEN q.qty ELSE 0)
          /\ Placed' + Out <= MostOwned
        BY <1>1, <2>1, MoveEffect
    <2>3. /\ Ready' /\ thread' \in [Threads -> Thread] /\ raced' \in BOOLEAN
          /\ (~raced' => ~raced /\ ~q.stale /\ Knows(q))
        BY <2>1, Writing
    <2>4. item.added /\ Placed \in Nat /\ Out \in Nat /\ item.total \in Nat
        BY <1>1, Counts DEF Fits
    <2>5. Out' = Out /\ Open' = Open
        BY <2>1 DEF Out, Lent, Open
    <2> HIDE DEF q
    <2>6. TypeOK'
        BY <1>1, <2>1, <2>2, <2>3, <2>5 DEF TypeOK, Holdings
    <2>7. NotYet' /\ Bounded'
        BY <2>1, <2>2, <2>4, <2>5 DEF NotYet, Bounded
    <2>8. NoPhantoms'
        <3> SUFFICES ASSUME ~raced'
                     PROVE  Unplaced' >= 0
            BY DEF NoPhantoms
        <3>1. Unplaced >= 0
            BY <2>3 DEF Sound, NoPhantoms
        <3>2. CASE q.from \in Places
            BY <2>1, <2>2, <2>4, <2>5, <3>1, <3>2 DEF Unplaced
        <3>3. CASE q.from \notin Places
            <4>1. q.qty <= Unplaced
                BY <2>1, <3>3 DEF Have
            <4> QED  BY <2>1, <2>2, <2>4, <2>5, <3>3, <4>1 DEF Unplaced
        <3> QED  BY <3>2, <3>3
    <2>9. RetiredIsHome'
        BY <2>1, <2>3, <2>5 DEF Sound, RetiredIsHome
    <2>10. NothingStranded'
        <3> SUFFICES ASSUME ~raced', ~item.retired, NEW p \in Places, shelf'[p] > 0
                     PROVE  place[p] = "there"
            BY <2>1 DEF NothingStranded
        <3>1. p = q.to \/ shelf[p] > 0
            BY <1>1, <2>2, Counts
        <3>2. Usable(q.to)
            BY <1>1, <2>3 DEF Knows
        <3> QED  BY <2>3, <3>1, <3>2 DEF Sound, NothingStranded, Usable
    <2> QED  BY <2>3, <2>6, <2>7, <2>8, <2>9, <2>10 DEF Sound
<1> QED  BY <1>2, <1>3

LEMMA ReturnKeepsSound ==
    ASSUME Sound, NEW l \in Loans, NEW picked \in Spots \cup {Unspecified}, Return(l, picked)
    PROVE  Sound'
<1> DEFINE to == GivenBackTo(l, picked)
<1>1. /\ TypeOK /\ Bounded /\ l \in Open /\ loan[l] \in [who : Members, qty : Totals, from : Spots]
      /\ picked \in Spots => Usable(picked)
      /\ loan' = [loan EXCEPT ![l] = NoLoan] /\ shelf' = Adjusted(shelf, to, loan[l].qty)
      /\ thread' = [t \in Threads |-> Aged(thread[t])]
      /\ UNCHANGED <<item, place, present, raced>>
    BY DEF Sound, TypeOK, Return, Open
<1>2. to \in Spots /\ Usable(to)
    BY <1>1, InventoryAssumption DEF GivenBackTo, Spots, Usable
<1> HIDE DEF to
<1>3. /\ loan[l].qty \in Nat /\ loan[l].qty > 0
      /\ shelf' \in Holdings(Places)
      /\ \A p \in Places : shelf'[p] = IF p = to THEN shelf[p] + loan[l].qty ELSE shelf[p]
      /\ Placed' = Placed + IF to \in Places THEN loan[l].qty ELSE 0
      /\ Out' = Out - loan[l].qty
      /\ Placed' + Out' <= MostOwned
    BY <1>1, <1>2, ReturnEffect
<1>4. Open' \subseteq Open /\ \A k \in Open' : loan'[k] = loan[k]
    BY <1>1 DEF TypeOK, Open
<1>5. TypeOK /\ Placed \in Nat /\ Out \in Nat /\ item.total \in Nat
    BY <1>1, Counts
<1>6. item.added
    BY <1>1 DEF Sound, NotYet
<1>7. Ready' /\ thread' \in [Threads -> Thread]
    BY <1>1, AgedKnowsNothing
<1>8. TypeOK'
    <2>1. loan' \in [Loans -> [who : Members, qty : Totals, from : Spots] \cup {NoLoan}]
        BY <1>1 DEF TypeOK
    <2> QED  BY <1>1, <1>3, <1>4, <1>7, <2>1 DEF TypeOK, Holdings
<1>9. NotYet' /\ Bounded'
    BY <1>1, <1>3, <1>6 DEF NotYet, Bounded
<1>10. NoPhantoms'
    BY <1>1, <1>3, <1>5 DEF Sound, NoPhantoms, Unplaced
<1>11. RetiredIsHome'
    BY <1>1, <1>4 DEF Sound, RetiredIsHome
<1>12. NothingStranded'
    <2> SUFFICES ASSUME ~raced, ~item.retired, NEW p \in Places, shelf'[p] > 0
                 PROVE  place[p] = "there"
        BY <1>1 DEF NothingStranded
    <2>1. p = to \/ shelf[p] > 0
        BY <1>3
    <2> QED  BY <1>2, <2>1 DEF Sound, NothingStranded, Usable
<1> QED  BY <1>7, <1>8, <1>9, <1>10, <1>11, <1>12 DEF Sound

LEMMA EditCountKeepsSound ==
    ASSUME Sound, NEW t \in Threads, EditCount(t)
    PROVE  Sound'
<1> DEFINE q == thread[t]
           r == [q EXCEPT !.op = "save", !.sum = 0]
           sum == q.sum + IF q.op = "countPlaced" THEN Placed ELSE Out
<1>1. TypeOK /\ q \in Thread /\ Fits(q) /\ Knows(q) /\ q.op \in {"countPlaced", "countOut"}
    BY DEF Sound, TypeOK, Ready, EditCount
<1>2. CASE Refused(t)
    BY <1>2, Refusing
<1>3. ASSUME ~Refused(t)
      PROVE  Sound'
    <2>1. /\ ~(q.qty < sum) /\ thread' = [thread EXCEPT ![t].op = "save", ![t].sum = 0]
          /\ UNCHANGED Rows
        BY <1>3 DEF EditCount, Rows
    <2>2. thread' = [thread EXCEPT ![t] = r]
        BY <1>1, <2>1 DEF TypeOK
    <2>3. r \in Thread /\ r.op = "save" /\ r.qty = q.qty /\ r.stale = q.stale
        <3>1. 0 \in 0..MostOwned
            BY InventoryAssumption
        <3>2. ASSUME NEW x \in Thread
              PROVE  LET y == [x EXCEPT !.op = "save", !.sum = 0]
                     IN  y \in Thread /\ y.op = "save" /\ y.qty = x.qty /\ y.stale = x.stale
            BY <3>1 DEF Thread
        <3> QED  BY <1>1, <3>2
    <2>4. q.qty \in Nat /\ q.sum \in Nat /\ Placed \in Nat /\ Out \in Nat
        BY <1>1, Counts, InventoryAssumption DEF Thread
    <2>5. ~q.stale => Placed + Out <= sum
        BY <1>1, <2>4 DEF Knows
    <2>6. ~q.stale => Placed + Out <= q.qty
        BY <2>1, <2>4, <2>5
    <2> HIDE DEF q, r, sum
    <2>7. Fits(r) /\ Knows(r)
        BY <1>1, <2>3, <2>6 DEF Fits, Knows
    <2> QED  BY <2>1, <2>2, <2>3, <2>7, NothingWritten
<1> QED  BY <1>2, <1>3

LEMMA EditSaveKeepsSound ==
    ASSUME Sound, NEW t \in Threads, EditSave(t)
    PROVE  Sound'
<1> DEFINE q == thread[t]
<1>1. CASE Refused(t)
    BY <1>1, Refusing
<1>2. ASSUME ~Refused(t)
      PROVE  Sound'
    <2>1. /\ q.op = "save" /\ item' = [item EXCEPT !.total = q.qty] /\ Wrote(t)
          /\ UNCHANGED <<place, shelf, loan, present>>
        BY <1>2 DEF EditSave
    <2>2. item' = [added |-> item.added, retired |-> item.retired, total |-> q.qty]
        BY <2>1 DEF Sound, TypeOK
    <2>3. /\ Ready' /\ thread' \in [Threads -> Thread] /\ raced' \in BOOLEAN /\ Fits(q)
          /\ (~raced' => ~raced /\ ~q.stale /\ Knows(q))
        BY <2>1, <2>2, Writing
    <2>4. item.added /\ q.qty \in Nat /\ q.qty <= MostOwned /\ MostOwned \in Nat
        BY <2>1, <2>3, InventoryAssumption DEF Fits, Totals
    <2>5. Open' = Open /\ Placed' = Placed /\ Out' = Out /\ Placed \in Nat /\ Out \in Nat
        BY <2>1, Counts DEF Sound, Open, Placed, Lent, Out
    <2> HIDE DEF q
    <2>6. TypeOK'
        BY <2>1, <2>2, <2>3, <2>4, <2>5 DEF Sound, TypeOK
    <2>7. NotYet' /\ Bounded'
        BY <2>2, <2>4, <2>5 DEF Sound, NotYet, Bounded
    <2>8. NoPhantoms'
        BY <2>1, <2>2, <2>3, <2>4, <2>5 DEF Knows, NoPhantoms, Unplaced
    <2>9. RetiredIsHome' /\ NothingStranded'
        BY <2>1, <2>2, <2>3, <2>5 DEF Sound, RetiredIsHome, NothingStranded
    <2> QED  BY <2>3, <2>6, <2>7, <2>8, <2>9 DEF Sound
<1> QED  BY <1>1, <1>2

LEMMA RetireKeepsSound ==
    ASSUME Sound, NEW t \in Threads, Retire(t)
    PROVE  Sound'
<1>1. /\ thread[t].op = "retire" /\ item' = [item EXCEPT !.retired = TRUE] /\ Wrote(t)
      /\ UNCHANGED <<place, shelf, loan, present>>
    BY DEF Retire
<1>2. item' = [added |-> item.added, retired |-> TRUE, total |-> item.total]
    BY <1>1 DEF Sound, TypeOK
<1>3. /\ Ready' /\ thread' \in [Threads -> Thread] /\ raced' \in BOOLEAN /\ Fits(thread[t])
      /\ (~raced' => ~raced /\ ~thread[t].stale /\ Knows(thread[t]))
    BY <1>1, <1>2, Writing
<1>4. item.added
    BY <1>1, <1>3 DEF Fits
<1>5. Open' = Open /\ Placed' = Placed /\ Out' = Out
    BY <1>1 DEF Open, Placed, Lent, Out
<1>6. TypeOK'
    BY <1>1, <1>2, <1>3, <1>5 DEF Sound, TypeOK
<1>7. NotYet' /\ Bounded' /\ NoPhantoms'
    BY <1>2, <1>3, <1>4, <1>5 DEF Sound, NotYet, Bounded, NoPhantoms, Unplaced
<1>8. RetiredIsHome' /\ NothingStranded'
    BY <1>1, <1>2, <1>3, <1>5 DEF Knows, RetiredIsHome, NothingStranded
<1> QED  BY <1>3, <1>6, <1>7, <1>8 DEF Sound

LEMMA RemovePlaceKeepsSound ==
    ASSUME Sound, NEW t \in Threads, RemovePlace(t)
    PROVE  Sound'
<1> DEFINE q == thread[t]
<1>1. CASE Refused(t)
    BY <1>1, Refusing
<1>2. ASSUME ~Refused(t)
      PROVE  Sound'
    <2>1. /\ q.op = "remove" /\ place' = [place EXCEPT ![q.from] = "removed"] /\ Wrote(t)
          /\ UNCHANGED <<item, shelf, loan, present>>
        BY <1>2 DEF RemovePlace
    <2>2. /\ Ready' /\ thread' \in [Threads -> Thread] /\ raced' \in BOOLEAN /\ Fits(q)
          /\ (~raced' => ~raced /\ ~q.stale /\ Knows(q))
        BY <2>1, Writing
    <2>3. Open' = Open /\ Placed' = Placed /\ Out' = Out
        BY <2>1 DEF Open, Placed, Lent, Out
    <2>4. TypeOK'
        BY <2>1, <2>2, <2>3 DEF Sound, TypeOK
    <2>5. NotYet' /\ Bounded' /\ NoPhantoms' /\ RetiredIsHome'
        BY <2>1, <2>2, <2>3 DEF Sound, NotYet, Bounded, NoPhantoms, Unplaced, RetiredIsHome
    <2>6. NothingStranded'
        <3> SUFFICES ASSUME ~raced', ~item.retired, NEW p \in Places, shelf[p] > 0
                     PROVE  place'[p] = "there"
            BY <2>1 DEF NothingStranded
        <3>1. p # q.from
            BY <2>1, <2>2 DEF Knows
        <3>2. place[p] = "there"
            BY <2>2 DEF Sound, NothingStranded
        <3> QED  BY <2>1, <3>1, <3>2 DEF Sound, TypeOK
    <2> QED  BY <2>2, <2>4, <2>5, <2>6 DEF Sound
<1> QED  BY <1>1, <1>2
LEMMA AddPlaceKeepsSound ==
    ASSUME Sound, NEW p \in Places, AddPlace(p)
    PROVE  Sound'
<1>1. /\ place' = [place EXCEPT ![p] = "there"]
      /\ UNCHANGED <<item, shelf, loan, present, thread, raced>>
    BY DEF AddPlace
<1>2. Open' = Open /\ Placed' = Placed /\ Out' = Out
    BY <1>1 DEF Open, Placed, Lent, Out
<1>3. \A r \in Places : place'[r] = IF r = p THEN "there" ELSE place[r]
    BY <1>1 DEF Sound, TypeOK
<1>4. TypeOK'
    BY <1>1, <1>2 DEF Sound, TypeOK
<1>5. NotYet' /\ Bounded' /\ NoPhantoms' /\ RetiredIsHome' /\ NothingStranded'
    BY <1>1, <1>2, <1>3
    DEF Sound, NotYet, Bounded, NoPhantoms, Unplaced, RetiredIsHome, NothingStranded
<1>6. Ready'
    <2> SUFFICES ASSUME NEW t \in Threads
                 PROVE  (Fits(thread[t]) /\ Knows(thread[t]))'
        BY DEF Ready
    <2>1. thread' = thread /\ Fits(thread[t]) /\ Knows(thread[t])
        BY <1>1 DEF Sound, Ready
    <2>2. Fits(thread[t])'
        BY <1>1, <2>1 DEF Fits
    <2>3. Knows(thread[t])'
        BY <1>1, <1>2, <1>3, <2>1 DEF Knows, Usable
    <2> QED  BY <2>2, <2>3
<1> QED  BY <1>4, <1>5, <1>6 DEF Sound

(* Loans that are forgotten or change hands: nobody has to know.             *)
LEMMA FewerLoans ==
    ASSUME Sound, UNCHANGED <<item, place, shelf, thread, raced>>,
           Open' \subseteq Open, Out' \in Nat, Out' <= Out, TypeOK'
    PROVE  Sound'
<1>1. /\ Placed' = Placed /\ Placed \in Nat /\ Out \in Nat /\ item.total \in Nat
      /\ MostOwned \in Nat
    BY Counts, InventoryAssumption DEF Sound, Placed
<1>2. NotYet' /\ Bounded'
    <2>1. NotYet'
        BY DEF Sound, NotYet
    <2>2. \A a, b, c \in Nat : c <= b /\ a + b <= MostOwned => a + c <= MostOwned
        BY InventoryAssumption
    <2>3. Bounded'
        BY <1>1, <2>2, Zenon DEF Sound, Bounded
    <2> QED  BY <2>1, <2>3
<1>3. NoPhantoms' /\ RetiredIsHome' /\ NothingStranded'
    BY <1>1 DEF Sound, NoPhantoms, Unplaced, RetiredIsHome, NothingStranded
<1>4. Ready'
    <2> SUFFICES ASSUME NEW t \in Threads
                 PROVE  (Fits(thread[t]) /\ Knows(thread[t]))'
        BY DEF Ready
    <2>1. Fits(thread[t]) /\ Knows(thread[t]) /\ thread[t].qty \in Nat /\ thread[t].sum \in Nat
        BY <1>1 DEF Sound, Ready, TypeOK, Thread
    <2>2. Fits(thread[t])'
        BY <2>1 DEF Fits
    <2>3. Knows(thread[t])'
        BY <1>1, <2>1 DEF Knows, Usable
    <2> QED  BY <2>2, <2>3
<1> QED  BY <1>2, <1>3, <1>4 DEF Sound

LEMMA DeleteMemberKeepsSound ==
    ASSUME Sound, NEW m \in Members, DeleteMember(m)
    PROVE  Sound'
<1>1. /\ TypeOK /\ present' = present \ {m}
      /\ loan' = [l \in Loans |-> IF loan[l].who = m THEN NoLoan ELSE loan[l]]
      /\ UNCHANGED <<item, place, shelf, thread, raced>>
    BY DEF DeleteMember, Sound
<1>2. Out' \in Nat /\ Out' <= Out
    BY <1>1, ForgetEffect
<1>3. Open' = {l \in Open : loan[l].who # m} /\ \A l \in Open' : loan'[l] = loan[l]
    BY <1>1 DEF Open
<1>4. TypeOK'
    BY <1>1, <1>3 DEF TypeOK
<1> QED  BY <1>1, <1>2, <1>3, <1>4, FewerLoans

LEMMA MergeMembersKeepsSound ==
    ASSUME Sound, NEW keep \in Members, NEW drop \in Members, MergeMembers(keep, drop)
    PROVE  Sound' /\ Lent' = Lent
<1>1. /\ TypeOK /\ keep \in present /\ keep # drop /\ drop # NoOne /\ present' = present \ {drop}
      /\ loan' = [l \in Loans |-> IF loan[l].who = drop THEN [loan[l] EXCEPT !.who = keep]
                                                     ELSE loan[l]]
      /\ UNCHANGED <<item, place, shelf, thread, raced>>
    BY InventoryAssumption DEF MergeMembers, Inherited, Sound
<1>2. NoLoan.who = NoOne /\ NoLoan.qty = 0 /\ 0 \notin Totals
    BY DEF NoLoan, Totals
<1>3. ASSUME NEW l \in Loans
      PROVE  /\ l \notin Open => loan'[l] = NoLoan
             /\ l \in Open => /\ loan'[l] \in [who : Members, qty : Totals, from : Spots]
                              /\ loan'[l].qty = loan[l].qty
                              /\ loan'[l].who = IF loan[l].who = drop THEN keep ELSE loan[l].who
    <2>1. CASE l \notin Open
        <3>1. loan[l] = NoLoan
            BY <2>1 DEF Open
        <3> QED  BY <1>1, <1>2, <2>1, <3>1
    <2>2. CASE l \in Open
        <3>1. loan[l] \in [who : Members, qty : Totals, from : Spots]
            BY <1>1, <2>2 DEF TypeOK, Open
        <3>2. loan'[l] = IF loan[l].who = drop THEN [loan[l] EXCEPT !.who = keep] ELSE loan[l]
            BY <1>1
        <3> QED  BY <2>2, <3>1, <3>2
    <2> QED  BY <2>1, <2>2
<1>4. Open' = Open
    <2>1. \A l \in Loans : l \in Open => loan'[l] # NoLoan
        BY <1>2, <1>3
    <2> QED  BY <1>3, <2>1 DEF Open
<1>5. \A l \in Loans : loan'[l].qty = loan[l].qty
    BY <1>3 DEF Open
<1>6. Lent' = Lent /\ Out' = Out
    BY <1>5 DEF Lent, Out
<1>7. TypeOK'
    <2>1. loan' \in [Loans -> [who : Members, qty : Totals, from : Spots] \cup {NoLoan}]
        BY <1>1, <1>3
    <2>2. \A l \in Open' : loan'[l].who \in present'
        BY <1>1, <1>3, <1>4 DEF TypeOK, Open
    <2> QED  BY <1>1, <2>1, <2>2 DEF TypeOK
<1>8. Out \in Nat
    BY <1>1, Counts
<1> QED  BY <1>1, <1>4, <1>6, <1>7, <1>8, FewerLoans

LEMMA StutterKeepsSound ==
    ASSUME Sound, UNCHANGED vars
    PROVE  Sound'
<1> USE DEF vars
<1>1. Open' = Open /\ Placed' = Placed /\ Out' = Out /\ Unplaced' = Unplaced
    BY DEF Open, Placed, Lent, Out, Unplaced
<1>2. TypeOK' /\ NotYet' /\ Bounded' /\ NoPhantoms' /\ RetiredIsHome' /\ NothingStranded'
    BY <1>1 DEF Sound, TypeOK, NotYet, Bounded, NoPhantoms, RetiredIsHome, NothingStranded
<1>3. Ready'
    BY <1>1 DEF Sound, Ready, Fits, Knows, Usable
<1> QED  BY <1>2, <1>3 DEF Sound

(* What one request does, or one of the steps that no request waits for.     *)
LEMMA StepKeepsSound ==
    ASSUME Sound, NEW t \in Threads, Step(t)
    PROVE  Sound'
<1>1. CASE AskCreate(t) \/ AskCheckout(t) \/ AskMove(t) \/ AskEdit(t) \/ AskRetire(t)
               \/ AskRemovePlace(t)
    BY <1>1, AskingKeepsSound
<1>2. CASE Create(t)
    BY <1>2, CreateKeepsSound
<1>3. CASE Checkout(t)
    BY <1>3, CheckoutKeepsSound
<1>4. CASE Move(t)
    BY <1>4, MoveKeepsSound
<1>5. CASE EditCount(t)
    BY <1>5, EditCountKeepsSound
<1>6. CASE EditSave(t)
    BY <1>6, EditSaveKeepsSound
<1>7. CASE Retire(t)
    BY <1>7, RetireKeepsSound
<1>8. CASE RemovePlace(t)
    BY <1>8, RemovePlaceKeepsSound
<1> QED  BY <1>1, <1>2, <1>3, <1>4, <1>5, <1>6, <1>7, <1>8 DEF Step

LEMMA NextKeepsSound == Sound /\ [Next]_vars => Sound'
<1> SUFFICES ASSUME Sound, [Next]_vars
             PROVE  Sound'
    OBVIOUS
<1>1. CASE \E t \in Threads : Step(t)
    BY <1>1, StepKeepsSound
<1>2. CASE \E l \in Loans, to \in Spots \cup {Unspecified} : Return(l, to)
    BY <1>2, ReturnKeepsSound
<1>3. CASE \E p \in Places : AddPlace(p)
    BY <1>3, AddPlaceKeepsSound
<1>4. CASE \E m \in Members : DeleteMember(m)
    BY <1>4, DeleteMemberKeepsSound
<1>5. CASE \E keep, drop \in Members : MergeMembers(keep, drop)
    BY <1>5, MergeMembersKeepsSound
<1>6. CASE UNCHANGED vars
    BY <1>6, StutterKeepsSound
<1> QED  BY <1>1, <1>2, <1>3, <1>4, <1>5, <1>6 DEF Next

-----------------------------------------------------------------------------
(* Whatever overlaps, the item, its places, its loans and the requests agree *)
(* in every reachable state, as far as nobody has written on stale counts.   *)
THEOREM AlwaysSound == Spec => []Sound
<1>1. Init => Sound
    BY Initially
<1>2. Sound /\ [Next]_vars => Sound'
    BY NextKeepsSound
<1> QED  BY <1>1, <1>2, PTL DEF Spec

(* Every variable keeps its type: no shelf goes below zero or above what was *)
(* ever owned, and every borrower is a member that is there.                 *)
THEOREM TypesHold == Spec => []TypeOK
<1>1. Sound => TypeOK
    BY DEF Sound
<1> QED  BY <1>1, AlwaysSound, PTL

(* Unless a request wrote on stale counts, what is placed and lent was       *)
(* counted in the total.                                                     *)
THEOREM NeverPhantoms == Spec => []NoPhantoms
<1>1. Sound => NoPhantoms
    BY DEF Sound
<1> QED  BY <1>1, AlwaysSound, PTL

(* Unless a request wrote on stale counts, nothing of a removed item is out. *)
THEOREM RetiredStaysHome == Spec => []RetiredIsHome
<1>1. Sound => RetiredIsHome
    BY DEF Sound
<1> QED  BY <1>1, AlwaysSound, PTL

(* Unless a request wrote on stale counts, nothing is kept where there is no *)
(* place any more.                                                           *)
THEOREM NeverStranded == Spec => []NothingStranded
<1>1. Sound => NothingStranded
    BY DEF Sound
<1> QED  BY <1>1, AlwaysSound, PTL
-----------------------------------------------------------------------------
(***************************************************************************)
(* The books are kept: every step is one of Ledger's, or changes nothing   *)
(***************************************************************************)
(* Who has how many, holder by holder. *)
LEMMA CountOf ==
    /\ Count = [h \in Books!Holders |-> Count[h]] /\ Books!Holders = Spots \cup Loans
    /\ \A p \in Places : Count[p] = shelf[p]
    /\ \A l \in Loans : Count[l] = Lent[l]
    /\ Count[Loose] = Unplaced
    /\ Loose \notin Places \cup Loans /\ Places \cap Loans = {}
BY InventoryAssumption DEF Count, Lent, Spots, Books!Holders

LEMMA CountOfNext ==
    /\ Count' = [h \in Books!Holders |-> Count'[h]]
    /\ \A p \in Places : Count'[p] = shelf'[p]
    /\ \A l \in Loans : Count'[l] = Lent'[l]
    /\ Count'[Loose] = Unplaced'
BY InventoryAssumption DEF Count, Lent, Spots, Books!Holders

(* Pieces that go from one holder to another. *)
LEMMA Transferred ==
    ASSUME NEW from \in Books!Holders, NEW to \in Books!Holders, from # to,
           NEW n \in Nat, n > 0, Count[from] \in Int, n <= Count[from],
           \A h \in Books!Holders : Count'[h] = IF h = from THEN Count[h] - n
                                               ELSE IF h = to THEN Count[h] + n ELSE Count[h]
    PROVE  Books!Transfer(Count, Count', from, to, n)
<1>1. n \in 1..Count[from]
    OBVIOUS
<1>2. Count' = [Count EXCEPT ![from] = Count[from] - n, ![to] = Count[to] + n]
    BY CountOf, CountOfNext
<1> QED  BY <1>1, <1>2 DEF Books!Transfer

LEMMA CreateArrives ==
    ASSUME Sound, NEW t \in Threads, Create(t)
    PROVE  Books!Next
<1> DEFINE q == thread[t]
<1>1. /\ q.qty \in Nat /\ q.qty > 0 /\ q.to \in Spots
      /\ Open = {} /\ Open' = {} /\ Out = 0 /\ Out' = 0 /\ Placed = 0 /\ item.total = 0
      /\ \A p \in Places : shelf[p] = 0
      /\ \A p \in Places : shelf'[p] = IF p = q.to THEN q.qty ELSE 0
      /\ Placed' = IF q.to \in Places THEN q.qty ELSE 0
    BY CreateEffect
<1>2. item'.total = q.qty
    BY DEF Create
<1> HIDE DEF q
<1>3. \A l \in Loans : Lent[l] = 0 /\ Lent'[l] = 0
    <2>1. Lent' = Lent
        BY DEF Create, Lent
    <2> QED  BY <1>1, <2>1, Counts DEF Sound
<1>4. Unplaced = 0 /\ Unplaced' = IF q.to \in Places THEN 0 ELSE q.qty
    BY <1>1, <1>2 DEF Unplaced
<1>5. ASSUME NEW h \in Books!Holders
      PROVE  Count[h] = 0 /\ Count'[h] = IF h = q.to THEN q.qty ELSE 0
    BY <1>1, <1>3, <1>4, CountOf, CountOfNext DEF Spots
<1>6. Count' = [Count EXCEPT ![q.to] = item'.total]
    BY <1>2, <1>5, CountOf, CountOfNext
<1>7. q.to \in Places \cup {Loose}
    BY <1>1 DEF Spots
<1>8. Books!Arrive(Count, Count', q.to)
    BY <1>1, <1>2, <1>6 DEF Books!Arrive
<1> QED  BY <1>7, <1>8 DEF Books!Next

LEMMA CheckoutLends ==
    ASSUME Sound, NEW t \in Threads, Checkout(t), ~Refused(t)
    PROVE  Books!Next
<1> DEFINE q == thread[t]
<1>1. TypeOK /\ Bounded /\ q \in Thread /\ Fits(q) /\ q.op = "checkout"
    BY DEF Sound, TypeOK, Ready, Checkout
<1>2. PICK from \in Sources(q), l \in Loans \ Open :
         /\ q.qty <= Have(from)
         /\ shelf' = Adjusted(shelf, from, -q.qty)
         /\ loan' = [loan EXCEPT ![l] = [who |-> q.who, qty |-> q.qty, from |-> from]]
         /\ UNCHANGED item
    BY DEF Checkout
<1> HIDE DEF q
<1>3. /\ from \in Spots /\ q.qty \in Nat /\ q.qty > 0
      /\ \A p \in Places : shelf'[p] = IF p = from THEN shelf[p] - q.qty ELSE shelf[p]
      /\ Lent' = [Lent EXCEPT ![l] = q.qty]
      /\ Placed' = Placed - IF from \in Places THEN q.qty ELSE 0
      /\ Out' = Out + q.qty
    BY <1>1, <1>2, CheckoutEffect
<1>4. /\ Placed \in Nat /\ Out \in Nat /\ item.total \in Nat /\ Lent \in Holdings(Loans) /\ Lent[l] = 0
      /\ \A p \in Places : shelf[p] \in Nat
    BY <1>1, Counts
<1>5. \A k \in Loans : Lent'[k] = IF k = l THEN q.qty ELSE Lent[k]
    BY <1>3, <1>4 DEF Holdings
<1>6. Unplaced \in Int /\ Unplaced' = Unplaced - IF from \in Places THEN 0 ELSE q.qty
    BY <1>2, <1>3, <1>4 DEF Unplaced
<1>7. Count[from] \in Int /\ q.qty <= Count[from] /\ Count[l] = 0 /\ Count'[l] = q.qty
    BY <1>2, <1>3, <1>4, <1>5, <1>6, CountOf, CountOfNext DEF Have, Spots
<1>8. from \in Books!Holders /\ l \in Books!Holders /\ from # l
    BY <1>3, CountOf DEF Spots
<1>9. \A h \in Books!Holders : Count'[h] = IF h = from THEN Count[h] - q.qty
                                        ELSE IF h = l THEN Count[h] + q.qty ELSE Count[h]
    <2> SUFFICES ASSUME NEW h \in Books!Holders
                 PROVE  Count'[h] = IF h = from THEN Count[h] - q.qty
                                    ELSE IF h = l THEN Count[h] + q.qty ELSE Count[h]
        OBVIOUS
    <2>1. CASE h \in Places
        BY <1>3, <2>1, CountOf, CountOfNext
    <2>2. CASE h \in Loans
        BY <1>3, <1>5, <1>7, <2>2, CountOf, CountOfNext DEF Spots
    <2>3. CASE h = Loose
        BY <1>3, <1>6, <2>3, CountOf, CountOfNext DEF Spots
    <2> QED  BY <2>1, <2>2, <2>3, CountOf DEF Spots
<1>10. Books!Transfer(Count, Count', from, l, Count'[l])
    BY <1>3, <1>7, <1>8, <1>9, Transferred
<1>11. Books!Lend(Count, Count')
    BY <1>3, <1>7, <1>10 DEF Books!Lend, Spots
<1> QED  BY <1>2, <1>11 DEF Books!Next

LEMMA MoveMoves ==
    ASSUME Sound, NEW t \in Threads, Move(t), ~Refused(t)
    PROVE  Books!Next
<1> DEFINE q == thread[t]
<1>1. TypeOK /\ Bounded /\ q \in Thread /\ Fits(q) /\ q.op = "move"
    BY DEF Sound, TypeOK, Ready, Move
<1>2. /\ q.qty <= Have(q.from)
      /\ shelf' = Adjusted(Adjusted(shelf, q.from, -q.qty), q.to, q.qty)
      /\ UNCHANGED <<item, loan>>
    BY DEF Move
<1>3. /\ q.from \in Spots /\ q.to \in Spots /\ q.from # q.to /\ q.qty \in Nat /\ q.qty > 0
      /\ \A p \in Places : shelf'[p] = IF p = q.from THEN shelf[p] - q.qty
                                      ELSE IF p = q.to THEN shelf[p] + q.qty ELSE shelf[p]
      /\ Placed' = Placed - (IF q.from \in Places THEN q.qty ELSE 0)
                         + (IF q.to \in Places THEN q.qty ELSE 0)
    BY <1>1, <1>2, MoveEffect
<1> HIDE DEF q
<1>4. /\ Placed \in Nat /\ Out \in Nat /\ item.total \in Nat
      /\ \A p \in Places : shelf[p] \in Nat
    BY <1>1, Counts
<1>5. Lent' = Lent /\ Out' = Out
    BY <1>2 DEF Lent, Out
<1>6. Unplaced \in Int /\ Unplaced' = Unplaced + (IF q.from \in Places THEN q.qty ELSE 0)
                                           - (IF q.to \in Places THEN q.qty ELSE 0)
    BY <1>2, <1>3, <1>4, <1>5 DEF Unplaced
<1>7. /\ Count[q.from] \in Int /\ Count[q.to] \in Int /\ q.qty <= Count[q.from]
      /\ q.from \in Books!Holders /\ q.to \in Books!Holders
    BY <1>2, <1>3, <1>4, <1>6, CountOf DEF Have, Spots
<1>8. \A h \in Books!Holders : Count'[h] = IF h = q.from THEN Count[h] - q.qty
                                        ELSE IF h = q.to THEN Count[h] + q.qty ELSE Count[h]
    <2> SUFFICES ASSUME NEW h \in Books!Holders
                 PROVE  Count'[h] = IF h = q.from THEN Count[h] - q.qty
                                    ELSE IF h = q.to THEN Count[h] + q.qty ELSE Count[h]
        OBVIOUS
    <2>1. CASE h \in Places
        BY <1>3, <2>1, CountOf, CountOfNext
    <2>2. CASE h \in Loans
        BY <1>3, <1>5, <2>2, CountOf, CountOfNext DEF Spots
    <2>3. CASE h = Loose
        BY <1>3, <1>6, <2>3, CountOf, CountOfNext DEF Spots
    <2> QED  BY <2>1, <2>2, <2>3, CountOf DEF Spots
<1>9. Count'[q.to] - Count[q.to] = q.qty
    BY <1>3, <1>7, <1>8
<1>10. Books!Transfer(Count, Count', q.from, q.to, Count'[q.to] - Count[q.to])
    BY <1>3, <1>7, <1>8, <1>9, Transferred
<1>11. Books!Move(Count, Count')
    BY <1>3, <1>10 DEF Books!Move, Spots
<1> QED  BY <1>2, <1>11 DEF Books!Next

LEMMA ReturnGivesBack ==
    ASSUME Sound, NEW l \in Loans, NEW picked \in Spots \cup {Unspecified}, Return(l, picked)
    PROVE  Books!Next
<1> DEFINE to == GivenBackTo(l, picked)
           n == loan[l].qty
<1>1. /\ TypeOK /\ Bounded /\ l \in Open /\ loan[l] \in [who : Members, qty : Totals, from : Spots]
      /\ loan' = [loan EXCEPT ![l] = NoLoan] /\ shelf' = Adjusted(shelf, to, loan[l].qty)
      /\ UNCHANGED item
    BY DEF Sound, TypeOK, Return, Open
<1>2. to \in Spots
    BY <1>1 DEF GivenBackTo, Spots
<1> HIDE DEF to
<1>3. /\ n \in Nat /\ n > 0
      /\ \A p \in Places : shelf'[p] = IF p = to THEN shelf[p] + n ELSE shelf[p]
      /\ Lent' = [Lent EXCEPT ![l] = 0]
      /\ Placed' = Placed + IF to \in Places THEN n ELSE 0
      /\ Out' = Out - n
    BY <1>1, <1>2, ReturnEffect
<1>4. /\ Placed \in Nat /\ Out \in Nat /\ item.total \in Nat /\ Lent \in Holdings(Loans) /\ Lent[l] = n
      /\ \A p \in Places : shelf[p] \in Nat
    BY <1>1, Counts
<1> HIDE DEF n
<1>5. \A k \in Loans : Lent'[k] = IF k = l THEN 0 ELSE Lent[k]
    BY <1>3, <1>4 DEF Holdings
<1>6. Unplaced \in Int /\ Unplaced' = Unplaced + IF to \in Places THEN 0 ELSE n
    BY <1>1, <1>3, <1>4 DEF Unplaced
<1>7. Count[l] = n
    BY <1>4, CountOf
<1>8. to \in Books!Holders /\ l \in Books!Holders /\ l # to
    BY <1>2, CountOf DEF Spots
<1>9. \A h \in Books!Holders : Count'[h] = IF h = l THEN Count[h] - n
                                        ELSE IF h = to THEN Count[h] + n ELSE Count[h]
    <2> SUFFICES ASSUME NEW h \in Books!Holders
                 PROVE  Count'[h] = IF h = l THEN Count[h] - n
                                    ELSE IF h = to THEN Count[h] + n ELSE Count[h]
        OBVIOUS
    <2>1. CASE h \in Places
        BY <1>3, <2>1, CountOf, CountOfNext
    <2>2. CASE h \in Loans
        BY <1>2, <1>3, <1>5, <1>7, <2>2, CountOf, CountOfNext DEF Spots
    <2>3. CASE h = Loose
        BY <1>2, <1>3, <1>6, <2>3, CountOf, CountOfNext DEF Spots
    <2> QED  BY <2>1, <2>2, <2>3, CountOf DEF Spots
<1>10. Books!Transfer(Count, Count', l, to, Count[l])
    BY <1>3, <1>7, <1>8, <1>9, Transferred
<1>11. Books!GiveBack(Count, Count')
    BY <1>2, <1>10 DEF Books!GiveBack, Spots
<1> QED  BY <1>1, <1>11 DEF Books!Next

LEMMA EditSaveTakesStock ==
    ASSUME Sound, NEW t \in Threads, EditSave(t), ~Refused(t)
    PROVE  Books!Next
<1>1. UNCHANGED <<shelf, loan>> /\ item'.total = thread[t].qty /\ thread[t].qty \in Nat
    BY InventoryAssumption DEF EditSave, Sound, TypeOK, Thread
<1>2. Placed' = Placed /\ Lent' = Lent /\ Out' = Out
    BY <1>1 DEF Placed, Lent, Out
<1>3. Placed \in Nat /\ Out \in Nat /\ item.total \in Nat
    BY Counts DEF Sound
<1>4. Unplaced' = Unplaced + item'.total - item.total
    BY <1>1, <1>2, <1>3 DEF Unplaced
<1>5. \A h \in Books!Holders : Count'[h] = IF h = Loose THEN Count[h] + item'.total - item.total
                                        ELSE Count[h]
    BY <1>1, <1>2, <1>4, CountOf, CountOfNext DEF Spots
<1>6. Count' = [Count EXCEPT ![Loose] = Count[Loose] + item'.total - item.total]
    BY <1>5, CountOf, CountOfNext
<1> QED  BY <1>6 DEF Books!Next, Books!Stocktake

LEMMA DeleteMemberForgets ==
    ASSUME Sound, NEW m \in Members, DeleteMember(m)
    PROVE  Books!Next \/ UNCHANGED <<item.total, Count>>
<1>1. /\ TypeOK /\ loan' = [l \in Loans |-> IF loan[l].who = m THEN NoLoan ELSE loan[l]]
      /\ UNCHANGED <<item, shelf>>
    BY DEF DeleteMember, Sound
<1>2. /\ Lent' = [l \in Loans |-> IF loan[l].who = m THEN 0 ELSE Lent[l]]
      /\ Out' \in Nat /\ (Lent' # Lent => Out' < Out)
    BY <1>1, ForgetEffect
<1>3. /\ Placed' = Placed /\ Placed \in Nat /\ Out \in Nat /\ item.total \in Nat
      /\ \A l \in Loans : Lent[l] \in Nat
    BY <1>1, Counts DEF Placed
<1>4. CASE Lent' = Lent
    <2>1. Unplaced' = Unplaced
        BY <1>1, <1>3, <1>4 DEF Unplaced, Out
    <2>2. \A h \in Books!Holders : Count'[h] = Count[h]
        BY <1>1, <1>4, <2>1, CountOf, CountOfNext DEF Spots
    <2>3. Count' = Count
        BY <2>2, CountOf, CountOfNext
    <2> QED  BY <1>1, <2>3
<1>5. CASE Lent' # Lent
    <2> DEFINE gone == {l \in Loans : Count[l] > 0 /\ Count'[l] = 0}
    <2>1. Unplaced' > Unplaced
        BY <1>1, <1>2, <1>3, <1>5 DEF Unplaced
    <2>2. \A h \in Books!Holders \ (gone \cup {Loose}) : Count'[h] = Count[h]
        <3> SUFFICES ASSUME NEW h \in Books!Holders \ (gone \cup {Loose})
                     PROVE  Count'[h] = Count[h]
            OBVIOUS
        <3>1. CASE h \in Places
            BY <1>1, <3>1, CountOf, CountOfNext
        <3>2. CASE h \in Loans
            BY <1>2, <1>3, <3>2, CountOf, CountOfNext
        <3> QED  BY <3>1, <3>2, CountOf DEF Spots
    <2>3. Count'[Loose] > Count[Loose]
        BY <2>1, CountOf, CountOfNext
    <2>4. Books!Forget(Count, Count')
        BY <2>2, <2>3 DEF Books!Forget
    <2> QED  BY <1>1, <2>4 DEF Books!Next
<1> QED  BY <1>4, <1>5

LEMMA StepKeepsBooks == Sound /\ [Next]_vars => [Books!Next]_<<item.total, Count>>
<1> SUFFICES ASSUME Sound, [Next]_vars
             PROVE  Books!Next \/ UNCHANGED <<item.total, Count>>
    OBVIOUS
<1>1. ASSUME item'.total = item.total, shelf' = shelf, Lent' = Lent
      PROVE  UNCHANGED <<item.total, Count>>
    <2>1. Unplaced' = Unplaced
        BY <1>1 DEF Unplaced, Placed, Out
    <2>2. \A h \in Books!Holders : Count'[h] = Count[h]
        BY <1>1, <2>1, CountOf, CountOfNext DEF Spots
    <2> QED  BY <1>1, <2>2, CountOf, CountOfNext
<1>2. ASSUME UNCHANGED <<item, shelf, loan>>
      PROVE  UNCHANGED <<item.total, Count>>
    BY <1>1, <1>2 DEF Lent
<1>3. ASSUME NEW t \in Threads, Step(t)
      PROVE  Books!Next \/ UNCHANGED <<item.total, Count>>
    <2>1. CASE AskCreate(t) \/ AskCheckout(t) \/ AskMove(t) \/ AskEdit(t) \/ AskRetire(t)
                   \/ AskRemovePlace(t) \/ EditCount(t) \/ RemovePlace(t) \/ Refused(t)
        BY <1>2, <2>1
        DEF AskCreate, AskCheckout, AskMove, AskEdit, AskRetire, AskRemovePlace, Ask,
            EditCount, RemovePlace, Refused
    <2>2. CASE Create(t)
        BY <2>2, CreateArrives
    <2>3. CASE Checkout(t) /\ ~Refused(t)
        BY <2>3, CheckoutLends
    <2>4. CASE Move(t) /\ ~Refused(t)
        BY <2>4, MoveMoves
    <2>5. CASE EditSave(t) /\ ~Refused(t)
        BY <2>5, EditSaveTakesStock
    <2>6. CASE Retire(t)
        <3>1. item'.total = item.total /\ UNCHANGED <<shelf, loan>>
            BY <2>6 DEF Retire, Sound, TypeOK
        <3> QED  BY <1>1, <3>1 DEF Lent
    <2> QED  BY <1>3, <2>1, <2>2, <2>3, <2>4, <2>5, <2>6 DEF Step
<1>4. CASE \E l \in Loans, to \in Spots \cup {Unspecified} : Return(l, to)
    BY <1>4, ReturnGivesBack
<1>5. CASE \E p \in Places : AddPlace(p)
    BY <1>2, <1>5 DEF AddPlace
<1>6. CASE \E m \in Members : DeleteMember(m)
    BY <1>6, DeleteMemberForgets
<1>7. ASSUME NEW keep \in Members, NEW drop \in Members, MergeMembers(keep, drop)
      PROVE  UNCHANGED <<item.total, Count>>
    <2>1. UNCHANGED <<item, shelf>> /\ Lent' = Lent
        BY <1>7, MergeMembersKeepsSound DEF MergeMembers
    <2> QED  BY <1>1, <2>1
<1>8. CASE UNCHANGED vars
    BY <1>2, <1>8 DEF vars
<1> QED  BY <1>3, <1>4, <1>5, <1>6, <1>7, <1>8 DEF Next

(* "Two check-outs can't both take the last one", nothing comes back twice,  *)
(* and only an edit changes how many there are: whatever requests overlap,   *)
(* the inventory implements Ledger.                                          *)
THEOREM BooksAreKept == Spec => KeepsBooks
<1>1. Init => Books!Init
    <2> SUFFICES ASSUME Init
                 PROVE  Books!Init
        OBVIOUS
    <2>1. Sound /\ item.total = 0 /\ Open = {} /\ \A p \in Places : shelf[p] = 0
        BY Initially DEF Init, Open
    <2>2. Placed = 0 /\ Out = 0 /\ \A l \in Loans : Lent[l] = 0
        BY <2>1, Counts DEF Sound
    <2>3. Unplaced = 0
        BY <2>1, <2>2 DEF Unplaced
    <2>4. \A h \in Books!Holders : Count[h] = 0
        BY <2>1, <2>2, <2>3, CountOf DEF Spots
    <2> QED  BY <2>1, <2>4, CountOf DEF Books!Init
<1>2. Sound /\ [Next]_vars => [Books!Next]_<<item.total, Count>>
    BY StepKeepsBooks
<1> QED  BY <1>1, <1>2, AlwaysSound, PTL DEF Spec, KeepsBooks, Books!Spec
=============================================================================
