-------------------------------- MODULE Dues --------------------------------
(***************************************************************************)
(* The dues of one member: whether they count as paid and until when (two  *)
(* columns of their record), the payments on record, and everything that   *)
(* writes either.                                                          *)
(*                                                                         *)
(* Payments move the date in a transaction of their own.  The rest reads   *)
(* first and writes later: deleting a payment, the backfill, and every     *)
(* change to the member's record, which writes the whole row from the copy *)
(* it read - the form on the page, the member's own page, the JSON API,    *)
(* signing in, the sync with Discord and the nickname refresh, none of     *)
(* which is about dues.  Dates are days counted from 1; 0 is no date.      *)
(***************************************************************************)
EXTENDS FiniteSetsExt

CONSTANTS
    Requests,      \* request and sync threads
    LastDay,       \* bound: the last day there is
    Grace,         \* Settings > Dues: days a member stays paid after the date
    MostPayments   \* bound: payments ever recorded

ASSUME DuesAssumption ==
    LastDay \in Nat \ {0} /\ Grace \in Nat /\ MostPayments \in Nat \ {0}

VARIABLES
    today,     \* the day
    paid,      \* members.is_paid
    until,     \* members.paid_until
    made,      \* payments ever recorded: their ids are 1..made
    covers,    \* what each covers until; 0 when there is no such payment
    request,   \* what each request has read and is about to do
    decided,   \* history: somebody has set the date by hand
    raced      \* history: a request has written on what was no longer so

vars == <<today, paid, until, made, covers, request, decided, raced>>

Days == 1..LastDay
Dates == 0..LastDay
Payments == 1..MostPayments
OnRecord == {p \in Payments : covers[p] > 0}
LatestCover == Max({covers[p] : p \in OnRecord} \cup {0})

Idle == [op |-> "idle", payment |-> 1, date |-> 0, paid |-> FALSE, stale |-> FALSE]
Request == [op : {"idle", "remove", "refit", "fallBack", "lower", "backfill", "form", "update", "save"},
            payment : Payments, date : Dates, paid : BOOLEAN, stale : BOOLEAN]

Init ==
    /\ today = 1
    /\ until \in Dates
    /\ paid = (until > 0)
    /\ made = 0
    /\ covers = [p \in Payments |-> 0]
    /\ request = [r \in Requests |-> Idle]
    /\ decided = FALSE
    /\ raced = FALSE

-----------------------------------------------------------------------------
(* A request reads, and goes on to q. *)
Reads(r, q) ==
    /\ request' = [request EXCEPT ![r] = q]
    /\ UNCHANGED <<today, paid, until, made, covers, decided, raced>>

(* Requests under way that have read what now changes. *)
Outdated(s) == [q \in Requests |-> [s[q] EXCEPT !.stale = s[q].op # "idle"]]

Sets(p, d) ==   \* the two columns of the record
    /\ paid' = p
    /\ until' = d

\* Mutant of Pay: the date becomes what the payment covers, even when that is earlier.
PayCovers(c) ==
    /\ made < MostPayments
    /\ made' = made + 1
    /\ covers' = [covers EXCEPT ![made + 1] = c]
    /\ Sets(TRUE, c)

\* Mutant of Pay: a payment no id is given out for.
PayUncounted(c) ==
    /\ made < MostPayments
    /\ made' = made
    /\ covers' = [covers EXCEPT ![made + 1] = c]
    /\ Sets(TRUE, IF until > c THEN until ELSE c)

(* DuesRepository::record, one transaction: the date never moves back. *)
Pay(c) ==
    /\ made < MostPayments
    /\ made' = made + 1
    /\ covers' = [covers EXCEPT ![made + 1] = c]
    /\ Sets(TRUE, IF until > c THEN until ELSE c)

Record ==
    /\ \E c \in Days : Pay(c)
    /\ request' = Outdated(request)
    /\ UNCHANGED <<today, decided, raced>>

(* set_paid_until: a date to come marks them paid, a past one is left to the
   daily check. *)
MovesTo(d) == Sets(paid \/ d >= today, d)

(* Editing a payment, one transaction: if it gave the date, the date follows. *)
EditPayment ==
    \E p \in OnRecord, c \in Days :
        /\ covers' = [covers EXCEPT ![p] = c]
        /\ LET followed == IF covers[p] = until
                           THEN Max({covers[q] : q \in OnRecord \ {p}} \cup {c})
                           ELSE until
               next == IF c > followed THEN c ELSE followed
           IN IF next = until THEN UNCHANGED <<paid, until>> ELSE MovesTo(next)
        /\ request' = Outdated(request)
        /\ UNCHANGED <<today, made, decided, raced>>

-----------------------------------------------------------------------------
(* Deleting a payment: find it, remove it, and, if it gave the date, fall back
   to the latest that is left - one statement after another. *)
AskDelete(r) ==
    /\ request[r].op = "idle"
    /\ \E p \in OnRecord : Reads(r, [Idle EXCEPT !.op = "remove", !.payment = p, !.date = covers[p]])

Remove(r) ==
    LET q == request[r] IN
    /\ q.op = "remove"
    /\ IF covers[q.payment] = 0
       THEN Reads(r, Idle)
       ELSE /\ covers' = [covers EXCEPT ![q.payment] = 0]
            /\ request' = [Outdated(request) EXCEPT ![r] = [q EXCEPT !.op = "refit"]]
            /\ UNCHANGED <<today, paid, until, made, decided, raced>>

Refit(r) ==
    /\ request[r].op = "refit"
    /\ Reads(r, IF request[r].date = until THEN [request[r] EXCEPT !.op = "fallBack", !.stale = FALSE]
                ELSE Idle)

FallBack(r) ==
    LET q == request[r] IN
    /\ q.op = "fallBack"
    /\ Reads(r, IF LatestCover \in {0, q.date} THEN Idle
                ELSE [q EXCEPT !.op = "lower", !.date = LatestCover])

Lower(r) ==
    LET q == request[r] IN
    /\ q.op = "lower"
    /\ MovesTo(q.date)
    /\ request' = [Outdated(request) EXCEPT ![r] = Idle]
    /\ raced' = (raced \/ q.stale)
    /\ UNCHANGED <<today, made, covers, decided>>

(* The backfill: a payment for each member marked paid that none covers. *)
AskBackfill(r) ==
    /\ request[r].op = "idle" /\ paid /\ until > 0
    /\ \A p \in OnRecord : covers[p] < until
    /\ Reads(r, [Idle EXCEPT !.op = "backfill", !.date = until])

Backfill(r) ==
    LET q == request[r] IN
    /\ q.op = "backfill"
    /\ Pay(q.date)
    /\ request' = [Outdated(request) EXCEPT ![r] = Idle]
    /\ UNCHANGED <<today, decided, raced>>

-----------------------------------------------------------------------------
(* "Dues" on the members page: the date by hand, one statement; none marks the
   member unpaid. *)
SetPaid ==
    /\ \E d \in Dates : Sets(d > 0, d)
    /\ decided' = TRUE
    /\ request' = Outdated(request)
    /\ UNCHANGED <<today, made, covers, raced>>

(* The edit form shows the date, and saving the form saves what it shows. *)
OpenForm(r) ==
    /\ request[r].op = "idle"
    /\ Reads(r, [Idle EXCEPT !.op = "form", !.date = until])

PostForm(r) ==
    /\ request[r].op = "form"
    /\ \E d \in Dates :
          /\ request' = [request EXCEPT ![r] = [@ EXCEPT !.op = "update", !.date = d, !.paid = d > 0]]
          /\ decided' = (decided \/ d # request[r].date)
    /\ UNCHANGED <<today, paid, until, made, covers, raced>>

(* The member's own page and the JSON API start from a copy of the record;
   the API may name other values. *)
CopyRecord(r) ==
    /\ request[r].op = "idle"
    /\ \E d \in Dates, p \in BOOLEAN :
          /\ request' = [request EXCEPT ![r] = [Idle EXCEPT !.op = "update", !.date = d, !.paid = p]]
          /\ decided' = (decided \/ d # until \/ p # paid)
    /\ UNCHANGED <<today, paid, until, made, covers, raced>>

(* MemberService::update reads the record again: no date keeps the one there. *)
Update(r) ==
    LET q == request[r] IN
    /\ q.op = "update"
    /\ Reads(r, [q EXCEPT !.op = "save", !.date = IF q.date = 0 THEN until ELSE q.date])

(* Signing in, the Discord sync and the nickname refresh save a copy as it is. *)
ReadRecord(r) ==
    /\ request[r].op = "idle"
    /\ Reads(r, [Idle EXCEPT !.op = "save", !.date = until, !.paid = paid])

(* MemberRepository::update writes every column. *)
Save(r) ==
    LET q == request[r] IN
    /\ q.op = "save"
    /\ Sets(q.paid, q.date)
    /\ raced' = (raced \/ q.stale)
    /\ request' = [Outdated(request) EXCEPT ![r] = Idle]
    /\ UNCHANGED <<today, made, covers, decided>>

-----------------------------------------------------------------------------
Lapsed == paid /\ until > 0 /\ until + Grace < today

\* Mutant of Expire: without the grace period.
ExpireAtOnce ==
    /\ paid /\ until > 0 /\ until < today
    /\ Sets(FALSE, until)
    /\ request' = Outdated(request)
    /\ UNCHANGED <<today, made, covers, decided, raced>>

(* The daily check, one statement. *)
Expire ==
    /\ Lapsed
    /\ Sets(FALSE, until)
    /\ request' = Outdated(request)
    /\ UNCHANGED <<today, made, covers, decided, raced>>

Tick ==
    /\ today < LastDay + Grace + 1
    /\ today' = today + 1
    /\ UNCHANGED <<paid, until, made, covers, request, decided, raced>>

(* The server restarts, or a request fails before it has written. *)
Abandon(r) ==
    /\ request[r].op # "idle"
    /\ Reads(r, Idle)

Step(r) ==
    \/ AskDelete(r) \/ Remove(r) \/ Refit(r) \/ FallBack(r) \/ Lower(r)
    \/ AskBackfill(r) \/ Backfill(r)
    \/ OpenForm(r) \/ PostForm(r) \/ CopyRecord(r) \/ Update(r) \/ ReadRecord(r) \/ Save(r)
    \/ Abandon(r)

Next == Record \/ EditPayment \/ SetPaid \/ Expire \/ Tick \/ \E r \in Requests : Step(r)

Spec == Init /\ [][Next]_vars

-----------------------------------------------------------------------------
(* Properties *)

(* Every variable has its type, and payments have the ids given out. *)
TypeOK ==
    /\ today \in 1..(LastDay + Grace + 1)
    /\ paid \in BOOLEAN
    /\ until \in Dates
    /\ made \in 0..MostPayments
    /\ covers \in [Payments -> Dates]
    /\ request \in [Requests -> Request]
    /\ decided \in BOOLEAN /\ raced \in BOOLEAN
    /\ \A p \in OnRecord : p <= made

(* Each payment on record extends the date to at least what it covers, and   *)
(* who has paid for today counts as paid ...                                 *)
Counts(p) == covers[p] <= until /\ (covers[p] >= today => paid)

(* ... as long as nobody has set the date by hand and no request has written *)
(* on what was no longer so, whatever else overlaps: deleting, editing and   *)
(* recording payments, signing in, syncing, and the daily check.             *)
PaymentsCount == ~decided /\ ~raced => \A p \in OnRecord : Counts(p)

(* The same with requests that do write on what is no longer so: changes to  *)
(* the member's record leave their dues alone.                               *)
PaymentsPreserved == ~decided => \A p \in OnRecord : Counts(p)

(* Without a hand or a race, a member stays paid to the end of the grace     *)
(* period.                                                                   *)
GraceIsKept ==
    [][paid /\ ~paid' => until + Grace < today \/ decided' \/ raced']_vars
=============================================================================
