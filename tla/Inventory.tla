------------------------------ MODULE Inventory ------------------------------
(***************************************************************************)
(* One item of the LUG's inventory: how many there are, where they are     *)
(* kept, and who has borrowed some.                                        *)
(*                                                                         *)
(* A request first reads what it needs to refuse early, and then writes;   *)
(* lending, moving and giving back count again inside a transaction, an    *)
(* edit of the total and the two removals write on what they have read.    *)
(* The reads before a transaction are one step: each is of a row that only *)
(* goes one way, and may go right after the step.  An edit counts loans    *)
(* and places by two queries in either order, and other requests get in    *)
(* between.  Who may do what is left out.                                  *)
(***************************************************************************)
EXTENDS Integers, FiniteSets

CONSTANTS
    Places,      \* storage locations
    Members,     \* member records
    Loans,       \* open rows of inventory_loans
    Threads,     \* request threads
    Loose,       \* not placed
    Unspecified, \* no place picked on the form
    NoOne,       \* not a member
    MostOwned    \* bound: the highest total (100000 in the code)

ASSUME InventoryAssumption ==
    /\ MostOwned \in Nat \ {0}
    /\ IsFiniteSet(Places)
    /\ IsFiniteSet(Loans) /\ Cardinality(Loans) >= MostOwned   \* a row for any loan
    /\ {Loose, Unspecified} \cap (Places \cup Loans) = {} /\ Loose # Unspecified
    /\ Places \cap Loans = {}
    /\ NoOne \notin Members

VARIABLES
    item,      \* its row: [added, retired, total]
    place,     \* each storage location: "new", "there" or "removed"
    shelf,     \* how many are at each (inventory_stock)
    loan,      \* each open loan: [who, qty, from]; NoLoan when the row is free
    present,   \* the member records that exist
    thread,    \* what each request thread is about to write
    raced      \* history: a request wrote although another had since it read

vars == <<item, place, shelf, loan, present, thread, raced>>

Spots == Places \cup {Loose}
Totals == 1..MostOwned
NoLoan == [who |-> NoOne, qty |-> 0, from |-> Loose]
Idle == [op |-> "idle", from |-> Loose, to |-> Loose, who |-> NoOne, qty |-> 0, sum |-> 0,
         stale |-> FALSE]
Thread == [op : {"idle", "create", "checkout", "move", "countPlaced", "countOut", "save",
                 "retire", "remove"},
           from : Spots \cup {Unspecified}, to : Spots, who : Members \cup {NoOne},
           qty : 0..MostOwned, sum : 0..MostOwned, stale : BOOLEAN]

Init ==
    /\ item = [added |-> FALSE, retired |-> FALSE, total |-> 0]
    /\ place \in [Places -> {"new", "there"}]
    /\ shelf = [p \in Places |-> 0]
    /\ loan = [l \in Loans |-> NoLoan]
    /\ present = Members
    /\ thread = [t \in Threads |-> Idle]
    /\ raced = FALSE

-----------------------------------------------------------------------------
(* SUM(quantity), by counting the pieces: no holder has more than MostOwned. *)
Pieces(has) == {p \in (DOMAIN has) \X Totals : p[2] <= has[p[1]]}
Sum(has) == Cardinality(Pieces(has))

Lent == [l \in Loans |-> loan[l].qty]
Placed == Sum(shelf)
Out == Sum(Lent)
Unplaced == item.total - Placed - Out
Open == {l \in Loans : loan[l] # NoLoan}

Usable(p) == p \in Places => place[p] = "there"
Have(p) == IF p \in Places THEN shelf[p] ELSE Unplaced

(* adjust_stock: what is not placed is not counted, and no row goes below 0. *)
Adjusted(s, p, n) ==
    IF p \in Places THEN [s EXCEPT ![p] = IF @ + n <= 0 THEN 0 ELSE @ + n] ELSE s

Ask(t, q) ==
    /\ thread[t].op = "idle"
    /\ thread' = [thread EXCEPT ![t] = q]
    /\ UNCHANGED <<item, place, shelf, loan, present, raced>>

(* A write is done: what others have read before it is stale. *)
Aged(q) == IF q.op = "idle" THEN q ELSE [q EXCEPT !.stale = TRUE]
Wrote(t) ==
    /\ thread' = [u \in Threads |-> IF u = t THEN Idle ELSE Aged(thread[u])]
    /\ raced' = (raced \/ thread[t].stale)
Refused(t) ==
    /\ thread' = [thread EXCEPT ![t] = Idle]
    /\ UNCHANGED <<item, place, shelf, loan, present, raced>>

-----------------------------------------------------------------------------
(* POST /inventory *)
AskCreate(t) ==
    \E n \in Totals, to \in Spots :
        /\ ~item.added /\ Usable(to)
        /\ \A u \in Threads : thread[u].op # "create"
        /\ Ask(t, [Idle EXCEPT !.op = "create", !.qty = n, !.to = to])

Create(t) ==
    LET q == thread[t] IN
    /\ q.op = "create" /\ ~item.added
    /\ item' = [added |-> TRUE, retired |-> FALSE, total |-> q.qty]
    /\ shelf' = Adjusted(shelf, q.to, q.qty)
    /\ Wrote(t)
    /\ UNCHANGED <<place, loan, present>>

\* Mutant of AskCheckout: an item that was removed can still be lent.
AskCheckoutRetired(t) ==
    \E n \in Totals, from \in Places \cup {Unspecified}, m \in present :
        /\ item.added /\ Usable(from)
        /\ Ask(t, [Idle EXCEPT !.op = "checkout", !.qty = n, !.from = from, !.who = m])

(* POST /inventory/checkout *)
AskCheckout(t) ==
    \E n \in Totals, from \in Places \cup {Unspecified}, m \in present :
        /\ item.added /\ ~item.retired /\ Usable(from)
        /\ Ask(t, [Idle EXCEPT !.op = "checkout", !.qty = n, !.from = from, !.who = m])

(* No place picked: what isn't placed, else from wherever has the most. *)
Sources(q) ==
    LET fit == {p \in Places : shelf[p] >= q.qty} IN
    CASE q.from # Unspecified -> {q.from}
      [] q.from = Unspecified /\ Unplaced < q.qty /\ fit # {} ->
            {p \in fit : \A r \in fit : shelf[r] <= shelf[p]}
      [] OTHER -> {Loose}

\* Mutant of Checkout: the transaction trusts what was there before it.
CheckoutUnchecked(t) ==
    LET q == thread[t] IN
    /\ q.op = "checkout"
    /\ \E from \in Sources(q), l \in Loans \ Open :
         IF q.who \in present
         THEN /\ shelf' = Adjusted(shelf, from, -q.qty)
              /\ loan' = [loan EXCEPT ![l] = [who |-> q.who, qty |-> q.qty, from |-> from]]
              /\ Wrote(t)
              /\ UNCHANGED <<item, place, present>>
         ELSE Refused(t)

(* The transaction counts again; the insert fails when the member is gone. *)
Checkout(t) ==
    LET q == thread[t] IN
    /\ q.op = "checkout"
    /\ \E from \in Sources(q) :
         IF q.qty <= Have(from) /\ q.who \in present
         THEN /\ shelf' = Adjusted(shelf, from, -q.qty)
              /\ \E l \in Loans \ Open :
                    loan' = [loan EXCEPT ![l] = [who |-> q.who, qty |-> q.qty, from |-> from]]
              /\ Wrote(t)
              /\ UNCHANGED <<item, place, present>>
         ELSE Refused(t)

(* POST /inventory/<id>/move *)
AskMove(t) ==
    \E n \in Totals, from, to \in Spots :
        /\ item.added /\ ~item.retired
        /\ from # to /\ Usable(from) /\ Usable(to)
        /\ Ask(t, [Idle EXCEPT !.op = "move", !.qty = n, !.from = from, !.to = to])

Move(t) ==
    LET q == thread[t] IN
    /\ q.op = "move"
    /\ IF q.qty <= Have(q.from)
       THEN /\ shelf' = Adjusted(Adjusted(shelf, q.from, -q.qty), q.to, q.qty)
            /\ Wrote(t)
            /\ UNCHANGED <<item, place, loan, present>>
       ELSE Refused(t)

\* Mutant of GivenBackTo: back to where it came from, whatever has become of it.
GivenBackToOrigin(l, to) == IF to = Unspecified THEN loan[l].from ELSE to

(* Where a loan goes back to: where it came from, while that is there. *)
GivenBackTo(l, to) ==
    IF to # Unspecified THEN to
    ELSE IF Usable(loan[l].from) THEN loan[l].from ELSE Loose

(* POST /inventory/loans/<id>/return: one transaction. *)
Return(l, picked) ==
    LET to == GivenBackTo(l, picked) IN
    /\ l \in Open
    /\ picked \in Spots => Usable(picked)
    /\ loan' = [loan EXCEPT ![l] = NoLoan]
    /\ shelf' = Adjusted(shelf, to, loan[l].qty)
    /\ thread' = [t \in Threads |-> Aged(thread[t])]
    /\ UNCHANGED <<item, place, present, raced>>

(* POST /inventory/<id>: what is out and what is placed, one after the other, *)
AskEdit(t) ==
    \E n \in Totals :
        /\ item.added
        /\ \/ Ask(t, [Idle EXCEPT !.op = "countPlaced", !.qty = n, !.sum = Out])
           \/ Ask(t, [Idle EXCEPT !.op = "countOut", !.qty = n, !.sum = Placed])

\* Mutant of EditCount: pieces that are placed are not counted.
EditCountOut(t) ==
    LET q == thread[t]
        sum == IF q.op = "countPlaced" THEN q.sum ELSE Out
    IN
    /\ q.op \in {"countPlaced", "countOut"}
    /\ IF q.qty < sum
       THEN Refused(t)
       ELSE /\ thread' = [thread EXCEPT ![t].op = "save", ![t].sum = 0]
            /\ UNCHANGED <<item, place, shelf, loan, present, raced>>

(* ... added up and compared, *)
EditCount(t) ==
    LET q == thread[t]
        sum == q.sum + IF q.op = "countPlaced" THEN Placed ELSE Out
    IN
    /\ q.op \in {"countPlaced", "countOut"}
    /\ IF q.qty < sum
       THEN Refused(t)
       ELSE /\ thread' = [thread EXCEPT ![t].op = "save", ![t].sum = 0]
            /\ UNCHANGED <<item, place, shelf, loan, present, raced>>

(* ... and then the new total is written. *)
EditSave(t) ==
    /\ thread[t].op = "save"
    /\ IF item.retired
       THEN Refused(t)
       ELSE /\ item' = [item EXCEPT !.total = thread[t].qty]
            /\ Wrote(t)
            /\ UNCHANGED <<place, shelf, loan, present>>

(* POST /inventory/<id>/archive *)
AskRetire(t) ==
    /\ item.added /\ Out = 0
    /\ Ask(t, [Idle EXCEPT !.op = "retire"])

Retire(t) ==
    /\ thread[t].op = "retire"
    /\ item' = [item EXCEPT !.retired = TRUE]
    /\ Wrote(t)
    /\ UNCHANGED <<place, shelf, loan, present>>

(* POST /inventory/locations/<id>/archive *)
AskRemovePlace(t) ==
    \E p \in Places :
        /\ place[p] # "new"
        /\ item.retired \/ shelf[p] = 0
        /\ Ask(t, [Idle EXCEPT !.op = "remove", !.from = p])

RemovePlace(t) ==
    LET p == thread[t].from IN
    /\ thread[t].op = "remove"
    /\ IF place[p] = "there"
       THEN /\ place' = [place EXCEPT ![p] = "removed"]
            /\ Wrote(t)
            /\ UNCHANGED <<item, shelf, loan, present>>
       ELSE Refused(t)

(* POST /inventory/locations *)
AddPlace(p) ==
    /\ place[p] = "new"
    /\ place' = [place EXCEPT ![p] = "there"]
    /\ UNCHANGED <<item, shelf, loan, present, thread, raced>>

(* Deleting a member deletes their loans with them (migration 059). *)
DeleteMember(m) ==
    /\ m \in present
    /\ present' = present \ {m}
    /\ loan' = [l \in Loans |-> IF loan[l].who = m THEN NoLoan ELSE loan[l]]
    /\ UNCHANGED <<item, place, shelf, thread, raced>>

\* Mutant of Inherited: the loans stay with the record that is deleted.
InheritedByNobody(keep, drop) == loan

(* MemberMerge::merge: the loans of the one become the other's. *)
Inherited(keep, drop) ==
    [l \in Loans |-> IF loan[l].who = drop THEN [loan[l] EXCEPT !.who = keep] ELSE loan[l]]

MergeMembers(keep, drop) ==
    /\ {keep, drop} \subseteq present /\ keep # drop
    /\ present' = present \ {drop}
    /\ loan' = Inherited(keep, drop)
    /\ UNCHANGED <<item, place, shelf, thread, raced>>

-----------------------------------------------------------------------------
Step(t) ==
    \/ AskCreate(t) \/ Create(t)
    \/ AskCheckout(t) \/ Checkout(t)
    \/ AskMove(t) \/ Move(t)
    \/ AskEdit(t) \/ EditCount(t) \/ EditSave(t)
    \/ AskRetire(t) \/ Retire(t)
    \/ AskRemovePlace(t) \/ RemovePlace(t)

Next ==
    \/ \E t \in Threads : Step(t)
    \/ \E l \in Loans, to \in Spots \cup {Unspecified} : Return(l, to)
    \/ \E p \in Places : AddPlace(p)
    \/ \E m \in Members : DeleteMember(m)
    \/ \E keep, drop \in Members : MergeMembers(keep, drop)

Spec == Init /\ [][Next]_vars

-----------------------------------------------------------------------------
(* Properties *)

(* Every variable has its type, and whoever has borrowed something is there. *)
TypeOK ==
    /\ item \in [added : BOOLEAN, retired : BOOLEAN, total : 0..MostOwned]
    /\ place \in [Places -> {"new", "there", "removed"}]
    /\ shelf \in [Places -> 0..MostOwned]
    /\ loan \in [Loans -> [who : Members, qty : Totals, from : Spots] \cup {NoLoan}]
    /\ present \subseteq Members
    /\ thread \in [Threads -> Thread]
    /\ raced \in BOOLEAN
    /\ \A l \in Open : loan[l].who \in present

(* Whatever overlaps, pieces are only moved from where there are as many:    *)
(* "two check-outs can't both take the last one", nothing comes back twice,  *)
(* and only an edit changes how many there are.                              *)
Count == [h \in Spots \cup Loans |->
            IF h \in Places THEN shelf[h] ELSE IF h \in Loans THEN loan[h].qty ELSE Unplaced]
Books == INSTANCE Ledger WITH total <- item.total, count <- Count
KeepsBooks == Books!Spec

(* As long as no request has written on stale counts: there are at least as  *)
(* many as are placed and lent, ...                                          *)
NoPhantoms == ~raced => Unplaced >= 0

(* ... nothing of an item that was removed is still out, ...                 *)
RetiredIsHome == ~raced /\ item.retired => Open = {}

(* ... and nothing is kept where there is no place any more, out of reach of *)
(* a move.                                                                   *)
NothingStranded ==
    ~raced /\ ~item.retired => \A p \in Places : shelf[p] > 0 => place[p] = "there"
=============================================================================
