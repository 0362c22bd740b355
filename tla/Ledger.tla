------------------------------- MODULE Ledger -------------------------------
(***************************************************************************)
(* What the inventory promises about the pieces of one item: every piece   *)
(* is in one place, with one borrower, or loose.  Pieces are only ever     *)
(* moved, from where there are as many, and only a stocktake changes how   *)
(* many there are, by what is loose.                                       *)
(***************************************************************************)
EXTENDS Integers

CONSTANTS
    Places,    \* where pieces are kept
    Loans,     \* loans they are out on
    Loose      \* neither: not placed

VARIABLES
    total,     \* how many pieces there are
    count      \* how many of them each holder has

Holders == Places \cup Loans \cup {Loose}

Init ==
    /\ total = 0
    /\ count = [h \in Holders |-> 0]

(* A new item arrives, all of it in one place or loose. *)
Arrive(was, now, h) ==
    /\ total = 0 /\ total' > 0
    /\ now = [was EXCEPT ![h] = total']

Transfer(was, now, from, to, n) ==
    /\ from # to
    /\ n \in 1..was[from]
    /\ now = [was EXCEPT ![from] = @ - n, ![to] = @ + n]

(* Places and what is loose give and take any part, ... *)
Move(was, now) ==
    \E from, to \in Places \cup {Loose} : Transfer(was, now, from, to, now[to] - was[to])

(* ... a loan is taken out once and comes back whole. *)
Lend(was, now) ==
    \E from \in Places \cup {Loose}, l \in Loans :
        was[l] = 0 /\ Transfer(was, now, from, l, now[l])
GiveBack(was, now) ==
    \E l \in Loans, to \in Places \cup {Loose} : Transfer(was, now, l, to, was[l])

(* Borrowers leave: their loans are forgotten, and count as loose. *)
Forget(was, now) ==
    LET gone == {l \in Loans : was[l] > 0 /\ now[l] = 0} IN
    /\ \A h \in Holders \ (gone \cup {Loose}) : now[h] = was[h]
    /\ now[Loose] > was[Loose]

Stocktake(was, now) == now = [was EXCEPT ![Loose] = @ + total' - total]

Next ==
    LET was == count
        now == count'
    IN
    \/ \E h \in Places \cup {Loose} : Arrive(was, now, h)
    \/ Stocktake(was, now)
    \/ UNCHANGED total /\ (Move(was, now) \/ Lend(was, now) \/ GiveBack(was, now) \/ Forget(was, now))

Spec == Init /\ [][Next]_<<total, count>>
=============================================================================
