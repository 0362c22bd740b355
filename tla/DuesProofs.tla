----------------------------- MODULE DuesProofs -----------------------------
(***************************************************************************)
(* The safety properties of Dues, for any bounds and any grace period.     *)
(***************************************************************************)
EXTENDS Dues, WellFoundedInduction, TLAPS

(* A set of dates that is not empty has a latest: the one with the fewest  *)
(* days to go to the last.                                                 *)
LEMMA LatestDate ==
    ASSUME NEW S \in SUBSET Dates, S # {}
    PROVE  Max(S) \in S /\ \A d \in S : d <= Max(S)
<1> DEFINE ToGo == {LastDay - d : d \in S}
           Less == OpToRel(<, Nat)
<1>1. ToGo \subseteq Nat /\ ToGo # {}
    <2>1. \A d \in S : LastDay - d \in Nat
        BY DuesAssumption DEF Dates
    <2>2. PICK d \in S : TRUE
        OBVIOUS
    <2> QED  BY <2>1, <2>2
<1>2. \E n \in ToGo : \A m \in ToGo : ~(<<m, n>> \in Less)
    BY <1>1, NatLessThanWellFounded, WFMin, Zenon
<1>3. PICK e \in S : \A d \in S : ~(<<LastDay - d, LastDay - e>> \in Less)
    BY <1>2, Zenon
<1>4. \A d \in S : ~(LastDay - d < LastDay - e)
    <2>1. \A d \in S : LastDay - d \in Nat
        BY DuesAssumption DEF Dates
    <2> QED  BY <1>3, <2>1 DEF OpToRel
<1>5. \A d \in S : e >= d
    BY <1>4, DuesAssumption, SMT DEF Dates
<1>6. \E x \in S : \A y \in S : x >= y
    BY <1>5
<1>7. Max(S) \in S /\ \A y \in S : Max(S) >= y
    BY <1>6, Zenon DEF Max
<1> QED  BY <1>7, DuesAssumption, SMT DEF Dates

-----------------------------------------------------------------------------
(* A payment that is not there covers nothing. *)
Covered(d) == \A p \in Payments : covers[p] <= d

Shaped(q) ==
    /\ q \in Request
    /\ q.op \in {"backfill", "lower"} => q.date > 0

(* What a request knows as long as nobody has written since it read. *)
Knows(q, u, cs) == ~q.stale =>
    /\ q.op = "form" => q.date = u
    /\ q.op = "lower" => \A p \in Payments : cs[p] <= q.date

(* And as long as nobody has meant to change the dues by hand: a record that *)
(* is about to be saved leaves the date and the mark as they are, but for    *)
(* the form, which marks as paid whoever has a date.                         *)
Leaves(q, p, u) ==
    ~q.stale /\ q.op \in {"update", "save"} => q.date = u /\ (p => q.paid) /\ (q.paid => u > 0)

Clean == ~decided /\ ~raced

(* The date covers every payment, and whoever has a date to come is paid.    *)
Sound ==
    Clean => /\ Covered(until)
             /\ paid => until > 0
             /\ until >= today => paid

IInv ==
    /\ TypeOK
    /\ \A r \in Requests :
          /\ Shaped(request[r]) /\ Knows(request[r], until, covers)
          /\ Clean => Leaves(request[r], paid, until)
    /\ Sound

-----------------------------------------------------------------------------
LEMMA IdleKnows ==
    /\ Shaped(Idle) /\ Idle.op = "idle"
    /\ \A p, u, cs : Knows(Idle, u, cs) /\ Leaves(Idle, p, u)
BY DuesAssumption, SMT DEF Shaped, Knows, Leaves, Idle, Request, Payments, Dates

LEMMA LatestCoverCovers ==
    ASSUME TypeOK
    PROVE  LatestCover \in Dates /\ Covered(LatestCover)
<1> DEFINE S == {covers[p] : p \in OnRecord} \cup {0}
<1>1. S \in SUBSET Dates /\ S # {}
    BY DuesAssumption DEF TypeOK, OnRecord, Dates
<1>2. Max(S) \in Dates /\ \A d \in S : d <= Max(S)
    BY <1>1, LatestDate
<1>3. \A p \in Payments : covers[p] \in S
    BY DEF TypeOK, OnRecord, Dates
<1> QED  BY <1>2, <1>3 DEF LatestCover, Covered

(* A request that reads keeps the invariant if it knows what it should. *)
LEMMA ReadsKeep ==
    ASSUME IInv, NEW r \in Requests, NEW q, request' = [request EXCEPT ![r] = q],
           UNCHANGED <<today, paid, until, made, covers, raced>>,
           decided' \in BOOLEAN, decided => decided',
           Shaped(q), Knows(q, until, covers), ~decided' /\ ~raced => Leaves(q, paid, until)
    PROVE  IInv'
<1>1. Clean' => Clean /\ ~decided' /\ ~raced
    BY DEF Clean
<1>2. TypeOK'
    BY DEF IInv, TypeOK, Shaped, OnRecord
<1>3. \A p \in Requests :
         /\ Shaped(request'[p]) /\ Knows(request'[p], until', covers')
         /\ Clean' => Leaves(request'[p], paid', until')
    BY <1>1 DEF IInv, TypeOK
<1>4. Sound'
    BY <1>1 DEF IInv, Sound, Covered
<1> QED  BY <1>2, <1>3, <1>4 DEF IInv

(* What the others have read is out of date once something is written. *)
LEMMA OthersOutdated ==
    ASSUME IInv,
           \A p \in Requests : \/ request'[p] = [request[p] EXCEPT !.stale = request[p].op # "idle"]
                               \/ request'[p].op \in {"idle", "refit"} /\ Shaped(request'[p])
    PROVE  \A p \in Requests :
              /\ Shaped(request'[p]) /\ Knows(request'[p], until', covers')
              /\ Leaves(request'[p], paid', until')
<1> SUFFICES ASSUME NEW p \in Requests
             PROVE  /\ Shaped(request'[p]) /\ Knows(request'[p], until', covers')
                    /\ Leaves(request'[p], paid', until')
    OBVIOUS
<1>1. CASE request'[p] = [request[p] EXCEPT !.stale = request[p].op # "idle"]
    <2>1. Shaped(request[p])
        BY DEF IInv
    <2>2. /\ request'[p] \in Request /\ request'[p].op = request[p].op
          /\ request'[p].date = request[p].date
          /\ request'[p].stale = (request[p].op # "idle")
        BY <1>1, <2>1 DEF Shaped, Request
    <2> QED  BY <2>1, <2>2 DEF Shaped, Knows, Leaves
<1>2. CASE request'[p].op \in {"idle", "refit"} /\ Shaped(request'[p])
    BY <1>2 DEF Knows, Leaves
<1> QED  BY <1>1, <1>2

(* A step that writes keeps the invariant if it leaves the dues sound. *)
LEMMA WritesKeep ==
    ASSUME IInv,
           \/ request' = Outdated(request)
           \/ \E r \in Requests : \E q :
                 /\ request' = [Outdated(request) EXCEPT ![r] = q]
                 /\ q.op \in {"idle", "refit"} /\ Shaped(q),
           today' = today, made' \in 0..MostPayments, covers' \in [Payments -> Dates],
           \A p \in Payments : covers'[p] > 0 => p <= made',
           paid' \in BOOLEAN, until' \in Dates, decided' \in BOOLEAN, raced' \in BOOLEAN,
           Sound'
    PROVE  IInv'
<1>1. \A p \in Requests :
         \/ request'[p] = [request[p] EXCEPT !.stale = request[p].op # "idle"]
         \/ request'[p].op \in {"idle", "refit"} /\ Shaped(request'[p])
    BY DEF Outdated
<1>2. \A p \in Requests :
         /\ Shaped(request'[p]) /\ Knows(request'[p], until', covers')
         /\ Leaves(request'[p], paid', until')
    BY <1>1, OthersOutdated
<1>3. request' \in [Requests -> Request]
    <2>1. request' = [p \in Requests |-> request'[p]]
        BY DEF Outdated
    <2> QED  BY <1>2, <2>1, Zenon DEF Shaped
<1>4. TypeOK'
    BY <1>3 DEF IInv, TypeOK, OnRecord
<1> QED  BY <1>2, <1>4 DEF IInv

-----------------------------------------------------------------------------
(* The steps that only read. *)

LEMMA Reading ==
    ASSUME IInv, NEW r \in Requests,
           AskDelete(r) \/ Refit(r) \/ FallBack(r) \/ AskBackfill(r) \/ OpenForm(r)
             \/ PostForm(r) \/ CopyRecord(r) \/ Update(r) \/ ReadRecord(r) \/ Abandon(r)
    PROVE  IInv'
<1> DEFINE q == request[r]
<1>1. /\ q \in Request /\ Shaped(q) /\ Knows(q, until, covers)
      /\ Clean => Leaves(q, paid, until)
      /\ until \in Dates /\ paid \in BOOLEAN /\ decided \in BOOLEAN /\ raced \in BOOLEAN
      /\ covers \in [Payments -> Dates]
    BY DEF IInv, TypeOK, Shaped
<1>2. ASSUME NEW n, Reads(r, n), Shaped(n), Knows(n, until, covers),
             Clean => Leaves(n, paid, until)
      PROVE  IInv'
    <2>1. /\ request' = [request EXCEPT ![r] = n]
          /\ UNCHANGED <<today, paid, until, made, covers, raced>> /\ decided' = decided
        BY <1>2 DEF Reads
    <2>2. decided' \in BOOLEAN /\ (decided => decided')
        BY <1>1, <2>1
    <2>3. ~decided' /\ ~raced => Leaves(n, paid, until)
        BY <1>2, <2>1 DEF Clean
    <2> QED  BY <1>2, <2>1, <2>2, <2>3, ReadsKeep
<1>3. Reads(r, Idle) => IInv'
    BY <1>2, IdleKnows
<1>4. 1 \in Payments /\ 0 \in Dates
    BY DuesAssumption DEF Payments, Dates
<1>5. CASE AskDelete(r)
    <2>1. PICK p \in OnRecord :
             Reads(r, [Idle EXCEPT !.op = "remove", !.payment = p, !.date = covers[p]])
        BY <1>5 DEF AskDelete
    <2> DEFINE n == [Idle EXCEPT !.op = "remove", !.payment = p, !.date = covers[p]]
    <2>2. Shaped(n) /\ Knows(n, until, covers) /\ Leaves(n, paid, until)
        BY <1>1 DEF OnRecord, Shaped, Knows, Leaves, Idle, Request
    <2> QED  BY <1>2, <2>1, <2>2
<1>6. CASE Refit(r)
    <2> DEFINE n == [q EXCEPT !.op = "fallBack", !.stale = FALSE]
    <2>1. Shaped(n) /\ Knows(n, until, covers) /\ Leaves(n, paid, until)
        BY <1>1 DEF Shaped, Knows, Leaves, Request
    <2>2. Reads(r, n) \/ Reads(r, Idle)
        BY <1>6 DEF Refit
    <2> QED  BY <1>2, <1>3, <2>1, <2>2
<1>7. CASE FallBack(r)
    <2> DEFINE n == [q EXCEPT !.op = "lower", !.date = LatestCover]
    <2>1. CASE Reads(r, n) /\ LatestCover # 0
        <3>1. LatestCover \in Dates /\ LatestCover > 0 /\ \A p \in Payments : covers[p] <= LatestCover
            BY <2>1, LatestCoverCovers, DuesAssumption DEF IInv, Covered, Dates
        <3>2. /\ n \in Request /\ n.op = "lower" /\ n.date = LatestCover
            BY <1>1, <3>1 DEF Request
        <3>3. Shaped(n) /\ Knows(n, until, covers) /\ Leaves(n, paid, until)
            BY <3>1, <3>2 DEF Shaped, Knows, Leaves
        <3> QED  BY <1>2, <2>1, <3>3
    <2>2. CASE Reads(r, Idle)
        BY <1>3, <2>2
    <2> QED  BY <1>7, <2>1, <2>2 DEF FallBack
<1>8. CASE AskBackfill(r)
    <2> DEFINE n == [Idle EXCEPT !.op = "backfill", !.date = until]
    <2>1. Shaped(n) /\ Knows(n, until, covers) /\ Leaves(n, paid, until)
        BY <1>1, <1>4, <1>8 DEF AskBackfill, Shaped, Knows, Leaves, Idle, Request
    <2> QED  BY <1>2, <1>8, <2>1 DEF AskBackfill
<1>9. CASE OpenForm(r)
    <2> DEFINE n == [Idle EXCEPT !.op = "form", !.date = until]
    <2>1. Shaped(n) /\ Knows(n, until, covers) /\ Leaves(n, paid, until)
        BY <1>1, <1>4 DEF Shaped, Knows, Leaves, Idle, Request
    <2> QED  BY <1>2, <1>9, <2>1 DEF OpenForm
<1>10. CASE PostForm(r)
    <2>1. PICK d \in Dates :
             /\ request' = [request EXCEPT ![r] = [@ EXCEPT !.op = "update", !.date = d, !.paid = d > 0]]
             /\ decided' = (decided \/ d # q.date)
        BY <1>10 DEF PostForm
    <2>6. PICK b \in BOOLEAN : b = (d > 0)
        <3>1. d \in Int
            BY <2>1, DuesAssumption DEF Dates
        <3>2. CASE d > 0
            <4>1. TRUE = (d > 0)
                BY <3>1, <3>2
            <4> QED  BY <4>1
        <3>3. CASE ~(d > 0)
            <4>1. FALSE = (d > 0)
                BY <3>1, <3>3
            <4> QED  BY <4>1
        <3> QED  BY <3>2, <3>3
    <2> DEFINE n == [q EXCEPT !.op = "update", !.date = d, !.paid = b]
    <2>2. /\ n \in Request /\ n.op = "update" /\ n.date = d /\ n.paid = b
          /\ n.stale = q.stale
        BY <1>1 DEF Request
    <2>3. Shaped(n) /\ Knows(n, until, covers)
        BY <2>2 DEF Shaped, Knows
    <2>4. ~decided' /\ ~raced => Leaves(n, paid, until)
        <3>1. ASSUME ~decided', ~raced  PROVE ~decided /\ d = q.date
            BY <2>1, <3>1, <1>1
        <3>2. ASSUME ~decided', ~raced  PROVE paid => until > 0
            BY <3>1, <3>2 DEF IInv, Sound, Clean
        <3> QED  BY <1>1, <1>10, <2>2, <2>6, <3>1, <3>2 DEF PostForm, Knows, Leaves
    <2>5. /\ request' = [request EXCEPT ![r] = n]
          /\ UNCHANGED <<today, paid, until, made, covers, raced>>
          /\ decided' \in BOOLEAN /\ (decided => decided')
        BY <1>1, <1>10, <2>1, <2>6 DEF PostForm
    <2> QED  BY <2>3, <2>4, <2>5, ReadsKeep
<1>11. CASE CopyRecord(r)
    <2>1. PICK d \in Dates, p \in BOOLEAN :
             /\ request' = [request EXCEPT ![r] = [Idle EXCEPT !.op = "update", !.date = d, !.paid = p]]
             /\ decided' = (decided \/ d # until \/ p # paid)
        BY <1>11 DEF CopyRecord
    <2> DEFINE n == [Idle EXCEPT !.op = "update", !.date = d, !.paid = p]
    <2>2. /\ n \in Request /\ n.op = "update" /\ n.date = d /\ n.paid = p
        BY <1>4 DEF Request, Idle
    <2>3. Shaped(n) /\ Knows(n, until, covers)
        BY <2>2 DEF Shaped, Knows
    <2>4. ~decided' /\ ~raced => Leaves(n, paid, until)
        <3>1. ASSUME ~decided', ~raced  PROVE d = until /\ p = paid /\ (paid => until > 0)
            BY <2>1, <3>1, <1>1 DEF IInv, Sound, Clean
        <3> QED  BY <2>2, <3>1 DEF Leaves
    <2>5. /\ UNCHANGED <<today, paid, until, made, covers, raced>>
          /\ decided' \in BOOLEAN /\ (decided => decided')
        BY <1>1, <1>11, <2>1 DEF CopyRecord
    <2> QED  BY <2>1, <2>3, <2>4, <2>5, ReadsKeep
<1>12. CASE Update(r)
    <2> DEFINE n == [q EXCEPT !.op = "save", !.date = IF q.date = 0 THEN until ELSE q.date]
    <2>1. q.op = "update" /\ Reads(r, n)
        BY <1>12 DEF Update
    <2>2. /\ n \in Request /\ n.op = "save" /\ n.paid = q.paid /\ n.stale = q.stale
          /\ n.date = IF q.date = 0 THEN until ELSE q.date
        BY <1>1 DEF Request
    <2>3. Shaped(n) /\ Knows(n, until, covers) /\ (Clean => Leaves(n, paid, until))
        BY <1>1, <2>1, <2>2 DEF Shaped, Knows, Leaves
    <2> QED  BY <1>2, <2>1, <2>3
<1>13. CASE ReadRecord(r)
    <2> DEFINE n == [Idle EXCEPT !.op = "save", !.date = until, !.paid = paid]
    <2>1. n \in Request /\ n.op = "save" /\ n.date = until /\ n.paid = paid
        BY <1>1, <1>4 DEF Request, Idle
    <2>2. Shaped(n) /\ Knows(n, until, covers) /\ (Clean => Leaves(n, paid, until))
        BY <2>1 DEF Shaped, Knows, Leaves, IInv, Sound
    <2> QED  BY <1>2, <1>13, <2>1, <2>2 DEF ReadRecord
<1>14. CASE Abandon(r)
    BY <1>3, <1>14 DEF Abandon
<1> QED  BY <1>5, <1>6, <1>7, <1>8, <1>9, <1>10, <1>11, <1>12, <1>13, <1>14

-----------------------------------------------------------------------------
(* The steps that write. *)

LEMMA Paying ==
    ASSUME IInv, NEW c \in Dates, c > 0, Pay(c), UNCHANGED <<today, decided, raced>>,
           \/ request' = Outdated(request)
           \/ \E r \in Requests : \E q :
                 /\ request' = [Outdated(request) EXCEPT ![r] = q]
                 /\ q.op \in {"idle", "refit"} /\ Shaped(q)
    PROVE  IInv'
<1>1. /\ made < MostPayments /\ made' = made + 1
      /\ covers' = [covers EXCEPT ![made + 1] = c]
      /\ paid' = TRUE /\ until' = IF until > c THEN until ELSE c
    BY DEF Pay, Sets
<1>2. /\ made \in 0..MostPayments /\ covers \in [Payments -> Dates] /\ until \in Dates
      /\ \A p \in Payments : covers[p] > 0 => p <= made
      /\ decided \in BOOLEAN /\ raced \in BOOLEAN
    BY DEF IInv, TypeOK, OnRecord
<1>3. made' \in 0..MostPayments /\ made + 1 \in Payments
    BY <1>1, <1>2, DuesAssumption DEF Payments
<1>4. /\ covers' \in [Payments -> Dates] /\ until' \in Dates /\ paid' \in BOOLEAN
      /\ \A p \in Payments : covers'[p] > 0 => p <= made'
    BY <1>1, <1>2, <1>3, DuesAssumption DEF Payments
<1>5. Sound'
    <2> SUFFICES ASSUME Clean'
                 PROVE  Covered(until)' /\ (paid => until > 0)' /\ (until >= today => paid)'
        BY DEF Sound
    <2>1. Covered(until)
        BY DEF Clean, IInv, Sound
    <2>2. \A p \in Payments : covers'[p] <= until'
        BY <1>1, <1>2, <1>3, <2>1, DuesAssumption DEF Covered, Dates
    <2> QED  BY <1>1, <1>2, <2>2, DuesAssumption DEF Covered, Dates
<1> QED  BY <1>2, <1>3, <1>4, <1>5, WritesKeep

(* Writing the two columns: as they are, or a date that covers everything. *)
LEMMA Setting ==
    ASSUME IInv, UNCHANGED <<today, made, covers>>, paid' \in BOOLEAN, until' \in Dates,
           decided' \in BOOLEAN, raced' \in BOOLEAN, Sound',
           \/ request' = Outdated(request)
           \/ \E r \in Requests : request' = [Outdated(request) EXCEPT ![r] = Idle]
    PROVE  IInv'
<1>1. /\ made' \in 0..MostPayments /\ covers' \in [Payments -> Dates]
      /\ \A p \in Payments : covers'[p] > 0 => p <= made'
    BY DEF IInv, TypeOK, OnRecord
<1> QED  BY <1>1, IdleKnows, WritesKeep

LEMMA Recording == ASSUME IInv, Record PROVE IInv'
<1>1. \A c \in Days : c \in Dates /\ c > 0
    BY DuesAssumption DEF Days, Dates
<1> QED  BY <1>1, Paying DEF Record

LEMMA Backfilling == ASSUME IInv, NEW r \in Requests, Backfill(r) PROVE IInv'
<1>1. /\ request[r].date \in Dates /\ request[r].date > 0
    BY DEF IInv, Shaped, Backfill, Request
<1>2. request' = [Outdated(request) EXCEPT ![r] = Idle]
    BY DEF Backfill
<1> QED  BY <1>1, <1>2, IdleKnows, Paying DEF Backfill

LEMMA Editing == ASSUME IInv, EditPayment PROVE IInv'
<1>1. PICK p \in OnRecord, c \in Days :
         /\ covers' = [covers EXCEPT ![p] = c]
         /\ LET followed == IF covers[p] = until
                            THEN Max({covers[q] : q \in OnRecord \ {p}} \cup {c})
                            ELSE until
                next == IF c > followed THEN c ELSE followed
            IN IF next = until THEN UNCHANGED <<paid, until>> ELSE MovesTo(next)
         /\ request' = Outdated(request)
         /\ UNCHANGED <<today, made, decided, raced>>
    BY DEF EditPayment
<1> DEFINE S == {covers[q] : q \in OnRecord \ {p}} \cup {c}
           followed == IF covers[p] = until THEN Max(S) ELSE until
           next == IF c > followed THEN c ELSE followed
<1>2. /\ covers \in [Payments -> Dates] /\ until \in Dates /\ paid \in BOOLEAN
      /\ made \in 0..MostPayments /\ decided \in BOOLEAN /\ raced \in BOOLEAN
      /\ today \in Nat /\ p \in Payments /\ covers[p] > 0
      /\ \A q \in Payments : covers[q] > 0 => q <= made
      /\ c \in Dates /\ c > 0 /\ Dates \subseteq Nat
    BY DuesAssumption DEF IInv, TypeOK, OnRecord, Days, Dates
<1>3. Max(S) \in S /\ Max(S) \in Dates /\ \A d \in S : d <= Max(S)
    <2>1. S \in SUBSET Dates /\ S # {}
        BY <1>2 DEF OnRecord
    <2> QED  BY <2>1, LatestDate
<1>4. /\ next \in Dates /\ next > 0 /\ c <= next
      /\ covers[p] # until => until <= next
      /\ covers[p] = until => \A q \in Payments \ {p} : covers[q] <= next
    <2>1. \A q \in Payments : covers[q] \in Nat /\ (covers[q] > 0 \/ covers[q] = 0)
        <3>1. \A q \in Payments : covers[q] \in Nat
            BY <1>2
        <3>2. \A n \in Nat : n > 0 \/ n = 0
            OBVIOUS
        <3> QED  BY <3>1, <3>2, Zenon
    <2>2. \A q \in Payments \ {p} : covers[q] \in S \/ covers[q] = 0
        BY <2>1 DEF OnRecord
    <2>3. c \in S
        OBVIOUS
    <2> DEFINE m == Max(S)
    <2>4. m \in Nat /\ c <= m /\ c \in Nat /\ until \in Nat
        BY <1>2, <1>3, <2>3
    <2>5. \A q \in Payments \ {p} : covers[q] <= m
        <3> HIDE DEF S
        <3> QED  BY <1>3, <2>1, <2>2, <2>4
    <2>6. m \in Dates
        BY <1>3
    <2> HIDE DEF m
    <2>7. followed = (IF covers[p] = until THEN m ELSE until)
        BY DEF m
    <2> HIDE DEF followed
    <2>8. next \in Dates /\ next > 0 /\ c <= next /\ (covers[p] # until => until <= next)
        BY <1>2, <2>4, <2>6, <2>7
    <2>9. covers[p] = until => next = m
        BY <1>2, <2>4, <2>7
    <2> QED  BY <2>5, <2>8, <2>9
<1> HIDE DEF next, followed, S
<1>5. IF next = until THEN paid' = paid /\ until' = until
      ELSE until' = next /\ paid' = (paid \/ next >= today)
    BY <1>1 DEF next, followed, S, MovesTo, Sets
<1>6. /\ covers' \in [Payments -> Dates] /\ until' = next /\ until' \in Dates
      /\ \A q \in Payments : covers'[q] > 0 => q <= made'
    BY <1>1, <1>2, <1>4, <1>5
<1>7. paid' \in BOOLEAN /\ (paid => paid') /\ (until' # until => (until' >= today => paid'))
      /\ (until' = until => paid' = paid)
    BY <1>2, <1>4, <1>5
<1>8. Sound'
    <2> SUFFICES ASSUME Clean'
                 PROVE  Covered(until)' /\ (paid => until > 0)' /\ (until >= today => paid)'
        BY DEF Sound
    <2>1. Covered(until) /\ (until >= today => paid)
        BY <1>1 DEF Clean, IInv, Sound
    <2>2. \A q \in Payments \ {p} : covers[q] <= next
        <3>1. \A q \in Payments : covers[q] \in Nat /\ covers[q] <= until
            BY <1>2, <2>1 DEF Covered
        <3>2. next \in Nat /\ until \in Nat
            BY <1>2, <1>4
        <3> QED  BY <1>4, <3>1, <3>2
    <2>3. Covered(until)'
        BY <1>1, <1>2, <1>4, <1>6, <2>2 DEF Covered
    <2> QED  BY <1>1, <1>4, <1>6, <1>7, <2>1, <2>3
<1> QED  BY <1>1, <1>2, <1>6, <1>7, <1>8, WritesKeep

LEMMA Removing == ASSUME IInv, NEW r \in Requests, Remove(r) PROVE IInv'
<1> DEFINE q == request[r]
<1>1. q \in Request /\ Shaped(q) /\ q.op = "remove"
    BY DEF IInv, Shaped, Remove
<1>2. CASE covers[q.payment] = 0
    BY <1>2, IdleKnows, ReadsKeep DEF Remove, Reads, Clean, IInv, TypeOK
<1>3. CASE covers[q.payment] # 0
    <2> DEFINE n == [q EXCEPT !.op = "refit"]
    <2>1. /\ covers' = [covers EXCEPT ![q.payment] = 0]
          /\ request' = [Outdated(request) EXCEPT ![r] = n]
          /\ UNCHANGED <<today, paid, until, made, decided, raced>>
        BY <1>3 DEF Remove
    <2>2. Shaped(n) /\ n.op = "refit"
        BY <1>1 DEF Shaped, Request
    <2>3. /\ covers \in [Payments -> Dates] /\ 0 \in Dates /\ made \in 0..MostPayments
          /\ paid \in BOOLEAN /\ until \in Dates /\ decided \in BOOLEAN /\ raced \in BOOLEAN
          /\ \A p \in Payments : covers[p] > 0 => p <= made
        BY DuesAssumption DEF IInv, TypeOK, OnRecord, Dates
    <2>4. /\ covers' \in [Payments -> Dates]
          /\ \A p \in Payments : covers'[p] > 0 => p <= made'
          /\ \A p \in Payments : covers'[p] = covers[p] \/ covers'[p] = 0
        <3>1. covers' \in [Payments -> Dates]
            BY <2>1, <2>3
        <3>2. \A p \in Payments : covers'[p] = covers[p] \/ covers'[p] = 0
            BY <2>1, <2>3
        <3> QED  BY <2>1, <2>3, <3>1, <3>2
    <2>5. Sound'
        <3> SUFFICES ASSUME Clean'
                     PROVE  Covered(until)' /\ (paid => until > 0)' /\ (until >= today => paid)'
            BY DEF Sound
        <3>1. Covered(until) /\ (paid => until > 0) /\ (until >= today => paid)
            BY <2>1 DEF Clean, IInv, Sound
        <3>2. 0 <= until
            BY <2>3, DuesAssumption DEF Dates
        <3>3. \A p \in Payments : covers'[p] <= until
            BY <2>4, <3>1, <3>2 DEF Covered
        <3> QED  BY <2>1, <3>1, <3>3 DEF Covered
    <2> QED  BY <2>1, <2>2, <2>3, <2>4, <2>5, WritesKeep
<1> QED  BY <1>2, <1>3

LEMMA Lowering == ASSUME IInv, NEW r \in Requests, Lower(r) PROVE IInv'
<1> DEFINE q == request[r]
<1>1. /\ q.date \in Dates /\ q.date > 0 /\ q.stale \in BOOLEAN
      /\ ~q.stale => Covered(q.date)
    BY DEF IInv, Shaped, Knows, Covered, Lower, Request
<1>2. /\ until' = q.date /\ paid' = (paid \/ q.date >= today)
      /\ raced' = (raced \/ q.stale) /\ UNCHANGED <<today, made, covers, decided>>
      /\ request' = [Outdated(request) EXCEPT ![r] = Idle]
    BY DEF Lower, MovesTo, Sets
<1>3. paid \in BOOLEAN /\ decided \in BOOLEAN /\ raced \in BOOLEAN /\ today \in Nat
    BY DuesAssumption DEF IInv, TypeOK
<1>4. paid' \in BOOLEAN /\ decided' \in BOOLEAN /\ raced' \in BOOLEAN /\ until' \in Dates
    BY <1>1, <1>2, <1>3, DuesAssumption DEF Dates
<1>5. Sound'
    <2> SUFFICES ASSUME Clean'
                 PROVE  Covered(until)' /\ (paid => until > 0)' /\ (until >= today => paid)'
        BY DEF Sound
    <2>1. ~q.stale
        BY <1>1, <1>2, <1>3 DEF Clean
    <2> QED  BY <1>1, <1>2, <2>1 DEF Covered
<1> QED  BY <1>2, <1>4, <1>5, Setting

LEMMA Saving ==
    ASSUME IInv, NEW r \in Requests, Save(r)
    PROVE  IInv' /\ (Clean' => until' = until /\ (paid => paid'))
<1> DEFINE q == request[r]
<1>1. /\ q.date \in Dates /\ q.paid \in BOOLEAN /\ q.stale \in BOOLEAN
      /\ Clean /\ ~q.stale => q.date = until /\ (paid => q.paid) /\ (q.paid => until > 0)
    BY DEF IInv, Shaped, Leaves, Save, Request
<1>2. /\ until' = q.date /\ paid' = q.paid
      /\ raced' = (raced \/ q.stale) /\ UNCHANGED <<today, made, covers, decided>>
      /\ request' = [Outdated(request) EXCEPT ![r] = Idle]
    BY DEF Save, Sets
<1>3. decided' \in BOOLEAN /\ raced' \in BOOLEAN
    BY <1>1, <1>2 DEF IInv, TypeOK
<1>4. Clean' => Clean /\ ~q.stale
    BY <1>1, <1>2 DEF Clean, IInv, TypeOK
<1>5. Sound'
    BY <1>1, <1>2, <1>4 DEF IInv, Sound, Covered
<1>6. IInv'
    BY <1>1, <1>2, <1>3, <1>5, Setting
<1> QED  BY <1>1, <1>2, <1>4, <1>6

LEMMA SettingPaid == ASSUME IInv, SetPaid PROVE IInv' /\ decided'
<1>1. PICK d \in Dates : paid' = (d > 0) /\ until' = d
    BY DEF SetPaid, Sets
<1>2. paid' \in BOOLEAN
    BY <1>1, DuesAssumption DEF Dates
<1>3. /\ decided' = TRUE /\ request' = Outdated(request)
      /\ UNCHANGED <<today, made, covers, raced>> /\ raced' \in BOOLEAN
    BY DEF SetPaid, IInv, TypeOK
<1>4. Sound'
    BY <1>3 DEF Sound, Clean
<1> QED  BY <1>1, <1>2, <1>3, <1>4, Setting

LEMMA Expiring == ASSUME IInv, Expire PROVE IInv' /\ until + Grace < today
<1>1. /\ until + Grace < today /\ paid' = FALSE /\ until' = until
      /\ request' = Outdated(request)
      /\ UNCHANGED <<today, made, covers, decided, raced>>
    BY DEF Expire, Lapsed, Sets
<1>2. /\ until \in Nat /\ until \in Dates /\ today \in Nat
      /\ decided \in BOOLEAN /\ raced \in BOOLEAN
    BY DuesAssumption DEF IInv, TypeOK, Dates
<1>3. ~(until >= today)
    BY <1>1, <1>2, DuesAssumption
<1>4. Sound'
    BY <1>1, <1>3 DEF IInv, Sound, Clean, Covered
<1> QED  BY <1>1, <1>2, <1>4, Setting

LEMMA Ticking == ASSUME IInv, Tick PROVE IInv'
<1>1. /\ today' = today + 1 /\ today < LastDay + Grace + 1
      /\ UNCHANGED <<paid, until, made, covers, request, decided, raced>>
    BY DEF Tick
<1>2. today \in Nat /\ until \in Nat /\ today' \in 1..(LastDay + Grace + 1)
    BY <1>1, DuesAssumption DEF IInv, TypeOK, Dates
<1>3. TypeOK'
    BY <1>1, <1>2 DEF IInv, TypeOK, OnRecord
<1>4. until >= today' => until >= today
    BY <1>1, <1>2
<1>5. Sound'
    BY <1>1, <1>4 DEF IInv, Sound, Clean, Covered
<1> QED  BY <1>1, <1>3, <1>5 DEF IInv, Clean

-----------------------------------------------------------------------------
LEMMA InitEstablishes == ASSUME Init PROVE IInv
<1>1. /\ today = 1 /\ until \in Dates /\ until \in Nat /\ paid = (until > 0) /\ made = 0
      /\ covers = [p \in Payments |-> 0] /\ request = [r \in Requests |-> Idle]
      /\ decided = FALSE /\ raced = FALSE
    BY DuesAssumption DEF Init, Dates
<1>2. TypeOK
    <2>1. today \in 1..(LastDay + Grace + 1) /\ made \in 0..MostPayments
          /\ 0 \in Dates /\ paid \in BOOLEAN
        BY <1>1, DuesAssumption DEF Dates
    <2>2. OnRecord = {}
        BY <1>1 DEF OnRecord
    <2>3. request \in [Requests -> Request]
        BY <1>1, IdleKnows DEF Shaped
    <2> QED  BY <1>1, <2>1, <2>2, <2>3 DEF TypeOK
<1>3. Sound
    <2>1. \A p \in Payments : covers[p] = 0
        BY <1>1
    <2>2. Covered(until)
        BY <1>1, <2>1 DEF Covered
    <2>3. until >= today => until > 0
        BY <1>1
    <2>4. CASE until > 0
        BY <2>2, <2>4, <1>1 DEF Sound
    <2>5. CASE ~(until > 0)
        <3>1. ~paid
            BY <1>1, <2>5, Zenon
        <3> QED  BY <2>2, <2>3, <2>5, <3>1 DEF Sound
    <2> QED  BY <2>4, <2>5
<1> QED  BY <1>1, <1>2, <1>3, IdleKnows DEF IInv

LEMMA NextKeeps == ASSUME IInv, [Next]_vars PROVE IInv'
<1>1. ASSUME NEW r \in Requests, Step(r)  PROVE IInv'
    BY <1>1, Reading, Removing, Lowering, Backfilling, Saving DEF Step
<1>2. CASE UNCHANGED vars
    BY <1>2 DEF vars, IInv, TypeOK, OnRecord, Sound, Clean, Covered
<1> QED
    BY <1>1, <1>2, Recording, Editing, SettingPaid, Expiring, Ticking DEF Next

-----------------------------------------------------------------------------
(* Every variable keeps its type, and only payments given an id are there.   *)
THEOREM TypesHold == Spec => []TypeOK
<1>1. IInv => TypeOK
    BY DEF IInv
<1> QED  BY InitEstablishes, NextKeeps, <1>1, PTL DEF Spec

(* Whatever overlaps, every payment counts while nobody has set the date by  *)
(* hand and no request has written on what was no longer so.                 *)
THEOREM AlwaysCounts == Spec => []PaymentsCount
<1>1. ASSUME IInv  PROVE PaymentsCount
    <2> SUFFICES ASSUME Clean, NEW p \in OnRecord  PROVE Counts(p)
        BY DEF PaymentsCount, Clean
    <2>1. /\ Covered(until) /\ (until >= today => paid)
          /\ covers[p] \in Nat /\ until \in Nat /\ today \in Nat /\ p \in Payments
        BY <1>1, DuesAssumption DEF IInv, Sound, TypeOK, OnRecord, Dates
    <2> QED  BY <2>1 DEF Counts, Covered
<1> QED  BY InitEstablishes, NextKeeps, <1>1, PTL DEF Spec

(* Without a hand or a race, the mark goes when the grace period is over and *)
(* not before.                                                               *)
THEOREM GraceHolds == Spec => GraceIsKept
<1> DEFINE Kept == paid /\ ~paid' => until + Grace < today \/ decided' \/ raced'
<1>1. ASSUME IInv, [Next]_vars  PROVE [Kept]_vars
    <2> SUFFICES ASSUME Next, paid, ~paid'
                 PROVE  until + Grace < today \/ decided' \/ raced'
        BY <1>1
    <2>1. CASE Expire
        BY <1>1, <2>1, Expiring
    <2>2. CASE SetPaid
        BY <1>1, <2>2, SettingPaid
    <2>3. ASSUME NEW r \in Requests, Save(r)  PROVE decided' \/ raced'
        BY <1>1, <2>3, Saving DEF Clean
    <2>4. CASE paid' = paid \/ paid' = TRUE
        BY <2>4
    <2>5. CASE \E d : MovesTo(d)
        BY <2>5 DEF MovesTo, Sets
    <2>6. \/ Expire \/ SetPaid \/ \E r \in Requests : Save(r)
          \/ paid' = paid \/ paid' = TRUE \/ \E d : MovesTo(d)
        BY DEF Next, Step, Record, EditPayment, Tick, AskDelete, Remove, Refit, FallBack, Lower,
               AskBackfill, Backfill, Pay, Sets, OpenForm, PostForm, CopyRecord, Update,
               ReadRecord, Abandon, Reads
    <2> QED  BY <2>1, <2>2, <2>3, <2>4, <2>5, <2>6
<1> QED  BY InitEstablishes, NextKeeps, <1>1, PTL DEF Spec, GraceIsKept
=============================================================================
