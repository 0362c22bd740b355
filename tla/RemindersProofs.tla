--------------------------- MODULE RemindersProofs ---------------------------
(***************************************************************************)
(* For any number of loops and members: the types of Reminders, that an    *)
(* event gets one reminder post, that the post goes with the event, that a *)
(* muted member gets nothing more than what was being sent, by DM or mail, *)
(* and that nobody hears of a thing more often than is due to them and     *)
(* they asked for.                                                         *)
(***************************************************************************)
EXTENDS Reminders, FiniteSetTheorems, TLAPS

(* The claim passes the right to post on to one loop, which posts once. *)
OneMayPost ==
    /\ ~claimed => shown = 0 /\ \A l \in Loops : loop[l].at \notin {"post", "keep"}
    /\ \A l \in Loops : loop[l].at = "post" => shown = 0
    /\ \A l, k \in Loops : loop[l].at = "post" /\ loop[k].at = "post" => l = k

(* A post chat_posts does not know is about to be noted, or nobody will. *)
NotedSoon ==
    /\ ~ref /\ shown > 0 => raced \/ \E l \in Loops : loop[l].at = "keep"
    /\ removal = "done" /\ ~raced => \A l \in Loops : loop[l].at \notin {"post", "keep"}

(* The leeway covers what the errands under way may still send: a DM, and a mail. *)
Underway(m) == Cardinality(Sending(m)) + Cardinality(Busy(m))
LeewayCovers == \A m \in Members : IF m \in quiet THEN leeway[m] >= Underway(m) ELSE leeway[m] >= 0

(* A list names people for the kind it is of, and rows that are there. *)
ListsOfKind ==
    \A l \in Loops : \A e \in loop[l].todo :
        /\ loop[l].at = "loans" => kind = "loan" /\ e.n = 0
        /\ loop[l].at = "going" => kind = "event" /\ e.n = 0
        /\ loop[l].at = "shifts" => kind = "shift"
        /\ loop[l].at = "snoozed" => e.n \in DOMAIN dms[e.member]

(* What is open to a member: the first reminder of an event or a shift that no *)
(* loop has claimed, one from each loop that may list them, and one for each   *)
(* row they asked for.                                                         *)
Listed(l, m) == \E e \in loop[l].todo : e.member = m
Unclaimed(m) == (kind = "event" /\ ~claimed) \/ (kind = "shift" /\ m \in held \ marked)
MayList(m) ==
    {l \in Loops :
        \/ kind = "event" /\ (loop[l].at \in {"post", "keep"} \/ (loop[l].at = "going" /\ Listed(l, m)))
        \/ kind = "loan" /\ (m \in held \ marked \/ (loop[l].at = "loans" /\ Listed(l, m)))}
Asked(m) == {n \in DOMAIN dms[m] : dms[m][n] \in {"later", "due"}}
Open(m) == (IF Unclaimed(m) THEN 1 ELSE 0) + Cardinality(MayList(m)) + Cardinality(Asked(m))

(* What was sent, what is open and the errands under way are no more than the *)
(* member asked for and the reminder that is due to them.                     *)
Fair(m) == asked[m] + (IF kind = "loan" THEN Cardinality(Loops) ELSE 1)
Covered ==
    \A m \in Members :
        /\ told[m] + Open(m) + Cardinality(Sending(m)) <= Fair(m)
        /\ mailed[m] + Open(m) + Cardinality(Busy(m)) <= Fair(m)

OnceInv == TypeOK /\ ListsOfKind /\ Covered

PostInv == TypeOK /\ OneMayPost /\ PostedOnce /\ NotedSoon /\ PostGoesWithEvent

USE RemindersAssumption

-----------------------------------------------------------------------------
LEMMA InitTypes == Init => TypeOK
<1> SUFFICES ASSUME Init PROVE TypeOK
    OBVIOUS
<1>1. loop \in [Loops -> Round]
    BY DEF Init, Resting, Round, Stages
<1>2. <<>> \in Seq(RowStates)
    OBVIOUS
<1>3. dms \in [Members -> Seq(RowStates)]
    BY <1>2 DEF Init
<1>4. told \in [Members -> Nat] /\ mailed = told /\ asked = told /\ leeway \in [Members -> Int]
    BY DEF Init
<1>5. /\ status = "on" /\ kind \in Kinds /\ phase \in {"far", "due"} /\ held = Members /\ marked = {}
      /\ quiet = {} /\ shown = 0 /\ removal = "none" /\ stops = 0
    BY DEF Init
<1>6. claimed \in BOOLEAN /\ ref \in BOOLEAN /\ raced \in BOOLEAN
    BY DEF Init
<1>7. QED
    BY <1>1, <1>3, <1>4, <1>5, <1>6 DEF TypeOK

LEMMA InitPosts == Init => OneMayPost /\ PostedOnce /\ NotedSoon /\ PostGoesWithEvent
BY DEF Init, OneMayPost, PostedOnce, NotedSoon, PostGoesWithEvent, Resting

LEMMA InitLeeway == Init => LeewayCovers
BY DEF Init, LeewayCovers

(* The lists name members, and a loop moved on is somewhere in a round. *)
LEMMA ListsAreErrands ==
    ASSUME TypeOK
    PROVE  DueLoans \subseteq Errand /\ DueAgain \subseteq Errand /\ Going \subseteq Errand /\ DueShifts \subseteq Errand
<1>1. Rows \subseteq Nat
    <2>1. Cardinality(Loops) \in Nat
        BY FS_CardinalityType
    <2>2. QED
        BY <2>1 DEF Rows
<1>2. ASSUME NEW k, NEW S \in SUBSET Members PROVE Errands(k, S) \subseteq Errand
    BY DEF Errands, Errand
<1>3. held \in SUBSET Members /\ held \ marked \in SUBSET Members /\ held \ (marked \cup quiet) \in SUBSET Members
    BY DEF TypeOK
<1>4. DueLoans \subseteq Errand /\ Going \subseteq Errand /\ DueShifts \subseteq Errand
    BY <1>2, <1>3 DEF DueLoans, Going, DueShifts
<1>5. DueAgain \subseteq Errand
    BY <1>1 DEF DueAgain, Errand
<1>6. QED
    BY <1>4, <1>5

LEMMA GoTypes ==
    ASSUME TypeOK, NEW l \in Loops, NEW stage \in Stages, NEW list \in SUBSET Errand, Go(l, stage, list)
    PROVE  loop' \in [Loops -> Round]
BY DEF TypeOK, Go, Round

LEMMA RowChanges ==
    ASSUME NEW s \in Seq(RowStates), NEW n, NEW v \in RowStates
    PROVE  [s EXCEPT ![n] = v] \in Seq(RowStates)
<1> DEFINE t == [s EXCEPT ![n] = v]
<1>1. s \in [1..Len(s) -> RowStates] /\ Len(s) \in Nat
    OBVIOUS
<1>2. t \in [1..Len(s) -> RowStates]
    BY <1>1
<1>3. QED
    BY <1>1, <1>2

LEMMA SetTypes ==
    ASSUME TypeOK, NEW l \in Loops, NEW e \in loop[l].todo, NEW goes, Set(l, e, goes)
    PROVE  e \in Errand /\ loop' \in [Loops -> Round]
<1>1. loop[l] \in Round
    BY DEF TypeOK
<1>2. e \in Errand
    BY <1>1 DEF Round
<1>3. QED
    BY <1>1, <1>2 DEF TypeOK, Set, Round

(* An errand goes on: the loop stays where it is in its list, and either is *)
(* done with the errand or has a DM behind it.                              *)
GoesOn(l) == SendDM(l) \/ Confirm(l) \/ Forget(l) \/ Mail(l)

LEMMA ErrandGoesOn ==
    ASSUME TypeOK, NEW l \in Loops, GoesOn(l)
    PROVE  /\ loop' \in [Loops -> Round]
           /\ \A k \in Loops \ {l} : loop'[k] = loop[k]
           /\ \A k \in Loops : loop'[k].at = loop[k].at /\ loop'[k].todo = loop[k].todo
           /\ loop[l].doing # None /\ loop[l].doing.member \in Members
           /\ \/ loop'[l].doing = None /\ (Confirm(l) \/ Mail(l))
              \/ loop'[l].doing = loop[l].doing /\ loop'[l].by # "dm" /\ (SendDM(l) \/ Forget(l))
<1>1. loop \in [Loops -> Round] /\ loop[l] \in Round
    BY DEF TypeOK
<1>2. loop[l].doing # None /\ loop[l].doing.member \in Members
    BY <1>1 DEF GoesOn, SendDM, Confirm, Forget, Mail, Errs, Round, Errand
<1>3. CASE Quits(l) /\ (Confirm(l) \/ Mail(l))
    BY <1>1, <1>2, <1>3 DEF Quits, Round
<1>4. ASSUME SendDM(l) \/ Forget(l), NEW by \in {"there", "mail"}, NEW row \in Nat,
             loop' = [loop EXCEPT ![l].by = by, ![l].row = row]
      PROVE  /\ loop' \in [Loops -> Round]
             /\ \A k \in Loops \ {l} : loop'[k] = loop[k]
             /\ \A k \in Loops : loop'[k].at = loop[k].at /\ loop'[k].todo = loop[k].todo
             /\ loop'[l].doing = loop[l].doing /\ loop'[l].by # "dm"
    BY <1>1, <1>4 DEF Round
<1>5. CASE loop' = [loop EXCEPT ![l].by = "mail"] /\ SendDM(l)
    BY <1>1, <1>2, <1>5 DEF Round
<1>6. Len(dms[loop[l].doing.member]) + 1 \in Nat
    BY <1>2 DEF TypeOK
<1>7. QED
    BY <1>2, <1>3, <1>4, <1>5, <1>6 DEF GoesOn, SendDM, Confirm, Forget, Mail

LEMMA SpentTypes ==
    ASSUME TypeOK, NEW m \in Members, Spent(m)
    PROVE  /\ leeway' \in [Members -> Int]
           /\ \A x \in Members \ {m} : leeway'[x] = leeway[x]
           /\ leeway'[m] = leeway[m] - (IF m \in quiet THEN 1 ELSE 0)
<1>1. leeway \in [Members -> Int]
    BY DEF TypeOK
<1>2. leeway[m] - (IF m \in quiet THEN 1 ELSE 0) \in Int
    BY <1>1
<1>3. QED
    BY <1>1, <1>2 DEF Spent

-----------------------------------------------------------------------------
LEMMA TypesStep == TypeOK /\ [Next]_vars => TypeOK'
<1> SUFFICES ASSUME TypeOK, [Next]_vars PROVE TypeOK'
    OBVIOUS
<1> USE DEF event, people, history
<1>1. ASSUME NEW l \in Loops, Move(l) PROVE TypeOK'
    <2>1. loop' \in [Loops -> Round]
        <3>1. CASE ShiftsDone(l)
            BY <3>1 DEF TypeOK, ShiftsDone, Resting, Round, Stages
        <3>2. CASE StartRound(l) \/ LoansDone(l)
            BY <3>2, GoTypes, ListsAreErrands DEF StartRound, LoansDone, Stages
        <3>3. CASE SnoozedDone(l) \/ GoingDone(l)
            BY <3>3, GoTypes, ListsAreErrands DEF SnoozedDone, GoingDone, Stages
        <3>4. QED
            BY <1>1, <3>1, <3>2, <3>3 DEF Move
    <2>2. QED
        BY <1>1, <2>1 DEF Move, TypeOK
<1>2. ASSUME NEW l \in Loops, ClaimEvent(l) PROVE TypeOK'
    <2>1. loop' \in [Loops -> Round]
        BY <1>2, GoTypes, ListsAreErrands DEF ClaimEvent, Stages
    <2>2. QED
        BY <1>2, <2>1 DEF ClaimEvent, TypeOK
<1>3. ASSUME NEW l \in Loops, Post(l) \/ Keep(l) PROVE TypeOK'
    <2>1. loop' \in [Loops -> Round]
        BY <1>3, GoTypes, ListsAreErrands DEF Post, Keep, Stages
    <2>2. shown' \in Nat /\ ref' \in BOOLEAN /\ claimed' \in BOOLEAN /\ raced' \in BOOLEAN
        <3>1. CASE Post(l)
            <4>1. shown' = shown + 1 \/ shown' = shown
                BY <3>1 DEF Post
            <4>2. UNCHANGED <<ref, claimed, raced>>
                BY <3>1 DEF Post
            <4>3. QED
                BY <4>1, <4>2 DEF TypeOK
        <3>2. CASE Keep(l)
            <4>1. ref' = TRUE /\ UNCHANGED <<shown, claimed, raced>>
                BY <3>2 DEF Keep
            <4>2. QED
                BY <4>1 DEF TypeOK
        <3>3. QED
            BY <1>3, <3>1, <3>2
    <2>3. /\ UNCHANGED <<kind, status, phase, removal, stops>>
          /\ UNCHANGED <<held, marked, quiet, dms, told, mailed, asked, leeway>>
        BY <1>3 DEF Post, Keep
    <2>4. QED
        BY <2>1, <2>2, <2>3 DEF TypeOK
<1>4. ASSUME NEW l \in Loops, Take(l) PROVE TypeOK'
    <2>1. PICK e \in loop[l].todo : TakeLoan(l, e) \/ TakeSnoozed(l, e) \/ TakeGoing(l, e) \/ TakeShift(l, e)
        BY <1>4 DEF Take
    <2>2. e \in Errand /\ loop' \in [Loops -> Round]
        BY <2>1, SetTypes DEF TakeLoan, TakeSnoozed, TakeGoing, TakeShift
    <2>3. marked' \subseteq Members
        BY <2>1, <2>2 DEF TypeOK, Errand, TakeLoan, TakeSnoozed, TakeGoing, TakeShift
    <2>4. dms' \in [Members -> Seq(RowStates)]
        <3>1. [dms[e.member] EXCEPT ![e.n] = "again"] \in Seq(RowStates)
            BY <2>2, RowChanges DEF TypeOK, Errand, RowStates
        <3>2. QED
            BY <2>1, <3>1 DEF TypeOK, TakeLoan, TakeSnoozed, TakeGoing, TakeShift
    <2>5. QED
        BY <1>4, <2>2, <2>3, <2>4 DEF Take, TypeOK
<1>5. ASSUME NEW l \in Loops, GoesOn(l) PROVE TypeOK'
    <2> DEFINE m == loop[l].doing.member
    <2>1. m \in Members /\ loop' \in [Loops -> Round]
        BY <1>5, ErrandGoesOn
    <2>2. CASE SendDM(l) \/ Mail(l)
        <3>1. told' \in [Members -> Nat] /\ mailed' \in [Members -> Nat]
            <4>1. told[m] + 1 \in Nat /\ mailed[m] + 1 \in Nat
                BY <2>1 DEF TypeOK
            <4>2. told \in [Members -> Nat] /\ mailed \in [Members -> Nat]
                BY DEF TypeOK
            <4>3. /\ told' = told \/ told' = [told EXCEPT ![m] = @ + 1]
                  /\ mailed' = mailed \/ mailed' = [mailed EXCEPT ![m] = @ + 1]
                BY <2>2 DEF SendDM, Mail
            <4>4. QED
                BY <4>1, <4>2, <4>3
        <3>2. leeway' \in [Members -> Int]
            <4>1. Spent(m) \/ leeway' = leeway
                BY <2>2 DEF SendDM, Mail
            <4>2. QED
                BY <2>1, <4>1, SpentTypes DEF TypeOK
        <3>3. dms' \in [Members -> Seq(RowStates)]
            <4>1. Append(dms[m], "sent") \in Seq(RowStates)
                BY <2>1 DEF TypeOK, RowStates
            <4>2. QED
                BY <2>2, <4>1 DEF SendDM, Mail, TypeOK
        <3>4. UNCHANGED <<kind, event, held, marked, quiet, asked, phase, stops>>
            BY <2>2 DEF SendDM, Mail
        <3>5. QED
            BY <2>1, <3>1, <3>2, <3>3, <3>4 DEF TypeOK
    <2>3. CASE Confirm(l)
        BY <2>1, <2>3 DEF Confirm, TypeOK
    <2>4. CASE Forget(l)
        <3>1. [dms[m] EXCEPT ![loop[l].row] = "gone"] \in Seq(RowStates)
            BY <2>1, RowChanges DEF TypeOK, RowStates
        <3>2. dms' \in [Members -> Seq(RowStates)]
            BY <2>1, <2>4, <3>1 DEF Forget, TypeOK
        <3>3. QED
            BY <2>1, <2>4, <3>2 DEF Forget, TypeOK
    <2>5. QED
        BY <1>5, <2>2, <2>3, <2>4 DEF GoesOn
<1>7. ASSUME NEW l \in Loops, Stop(l) PROVE TypeOK'
    <2>1. loop' \in [Loops -> Round]
        BY <1>7 DEF Stop, TypeOK, Resting, Round, Stages
    <2>2. QED
        BY <1>7, <2>1 DEF Stop, TypeOK
<1>8. ASSUME Click PROVE TypeOK'
    <2>1. ASSUME NEW m \in Members, NEW n \in DOMAIN dms[m], Snooze(m, n) PROVE TypeOK'
        <3>1. [dms[m] EXCEPT ![n] = "later"] \in Seq(RowStates)
            BY RowChanges DEF TypeOK, RowStates
        <3>2. dms' \in [Members -> Seq(RowStates)] /\ asked' \in [Members -> Nat]
            BY <2>1, <3>1 DEF Snooze, TypeOK
        <3>3. QED
            BY <2>1, <3>2 DEF Snooze, TypeOK
    <2>2. ASSUME NEW m \in Members, Mute(m) PROVE TypeOK'
        <3>1. Busy(m) \in SUBSET Loops /\ Sending(m) \in SUBSET Loops
            BY DEF Busy, Sending
        <3>2. Cardinality(Sending(m)) + Cardinality(Busy(m)) \in Int
            BY <3>1, FS_Subset, FS_CardinalityType
        <3>3. QED
            BY <2>2, <3>2 DEF Mute, TypeOK
    <2>3. ASSUME NEW m \in Members, Unmute(m) \/ Leave(m) PROVE TypeOK'
        BY <2>3 DEF Unmute, Leave, TypeOK
    <2>4. QED
        BY <1>8, <2>1, <2>2, <2>3 DEF Click
<1>9. CASE SetStatus \/ Reschedule \/ Delete
    BY <1>9 DEF SetStatus, Reschedule, Delete, TypeOK
<1>10. CASE DropRow \/ RemovePosts \/ Tick
    <2>1. CASE DropRow
        BY <2>1 DEF DropRow, TypeOK
    <2>2. CASE RemovePosts
        <3>1. shown' \in Nat /\ removal' = "done"
            BY <2>2 DEF RemovePosts, TypeOK
        <3>2. raced' \in BOOLEAN /\ ref' \in BOOLEAN
            BY <2>2 DEF RemovePosts
        <3>3. QED
            BY <2>2, <3>1, <3>2 DEF RemovePosts, TypeOK
    <2>3. CASE Tick
        BY <2>3 DEF Tick, TypeOK
    <2>4. QED
        BY <1>10, <2>1, <2>2, <2>3
<1>11. ASSUME NEW m \in Members, NEW n \in DOMAIN dms[m], ComesDue(m, n) PROVE TypeOK'
    <2>1. [dms[m] EXCEPT ![n] = "due"] \in Seq(RowStates)
        BY RowChanges DEF TypeOK, RowStates
    <2>2. QED
        BY <1>11, <2>1 DEF ComesDue, TypeOK
<1>12. CASE UNCHANGED vars
    BY <1>12 DEF vars, TypeOK
<1>13. QED
    BY <1>1, <1>2, <1>3, <1>4, <1>5, <1>7, <1>8, <1>9, <1>10, <1>11, <1>12 DEF Next, Work, Wake, GoesOn

-----------------------------------------------------------------------------
(* Steps that leave the post alone, and move no loop to or from posting it. *)
LEMMA PostLeftAlone ==
    ASSUME TypeOK, OneMayPost, PostedOnce, NotedSoon, PostGoesWithEvent,
           UNCHANGED <<claimed, shown, ref>>, raced => raced',
           removal' = removal \/ removal' # "done",
           \A k \in Loops : loop'[k].at = loop[k].at \/
               (loop[k].at \notin {"post", "keep"} /\ loop'[k].at \notin {"post", "keep"})
    PROVE  OneMayPost' /\ PostedOnce' /\ NotedSoon' /\ PostGoesWithEvent'
<1>1. OneMayPost'
    BY DEF OneMayPost
<1>2. PostedOnce' /\ PostGoesWithEvent'
    BY DEF PostedOnce, PostGoesWithEvent
<1>3. (\E k \in Loops : loop[k].at = "keep") => \E k \in Loops : loop'[k].at = "keep"
    OBVIOUS
<1>4. NotedSoon'
    BY <1>3 DEF NotedSoon
<1>5. QED
    BY <1>1, <1>2, <1>4

(* Where the loops are after one of them moves on. *)
LEMMA GoMoves ==
    ASSUME TypeOK, NEW l \in Loops, NEW stage, NEW list, Go(l, stage, list)
    PROVE  loop'[l].at = stage /\ \A k \in Loops \ {l} : loop'[k] = loop[k]
BY DEF Go, TypeOK

LEMMA PostsStep == PostInv /\ [Next]_vars => OneMayPost' /\ PostedOnce' /\ NotedSoon' /\ PostGoesWithEvent'
<1> SUFFICES ASSUME PostInv, [Next]_vars PROVE OneMayPost' /\ PostedOnce' /\ NotedSoon' /\ PostGoesWithEvent'
    OBVIOUS
<1> DEFINE Goal == OneMayPost' /\ PostedOnce' /\ NotedSoon' /\ PostGoesWithEvent'
<1> USE DEF event, people, history
<1>0. TypeOK /\ OneMayPost /\ PostedOnce /\ NotedSoon /\ PostGoesWithEvent
    BY DEF PostInv
<1>1. ASSUME NEW l \in Loops, Move(l) PROVE Goal
    <2>1. \A k \in Loops : loop'[k].at = loop[k].at \/
               (loop[k].at \notin {"post", "keep"} /\ loop'[k].at \notin {"post", "keep"})
        <3>1. CASE ShiftsDone(l)
            BY <1>0, <3>1 DEF ShiftsDone, Resting, TypeOK
        <3>2. CASE StartRound(l) \/ LoansDone(l) \/ SnoozedDone(l) \/ GoingDone(l)
            BY <1>0, <3>2, GoMoves DEF StartRound, LoansDone, SnoozedDone, GoingDone
        <3>3. QED
            BY <1>1, <3>1, <3>2 DEF Move
    <2>2. QED
        BY <1>0, <1>1, <2>1, PostLeftAlone DEF Move
<1>2. ASSUME NEW l \in Loops, ClaimEvent(l) PROVE Goal
    <2>1. \A k \in Loops \ {l} : loop'[k] = loop[k]
        BY <1>0, <1>2, GoMoves DEF ClaimEvent
    <2>2. CASE ~claimed /\ status # "gone"
        <3>1. /\ claimed' = TRUE /\ loop'[l].at = "post" /\ shown' = 0 /\ ref' = ref
              /\ removal' = removal /\ (removal = "done" => raced')
              /\ \A k \in Loops : loop[k].at \notin {"post", "keep"}
            BY <1>0, <1>2, <2>2, GoMoves DEF ClaimEvent, OneMayPost
        <3>2. QED
            BY <2>1, <3>1 DEF OneMayPost, PostedOnce, NotedSoon, PostGoesWithEvent
    <2>3. CASE ~(~claimed /\ status # "gone")
        <3>1. loop[l].at = "event" /\ loop'[l].at = "shifts"
            BY <1>0, <1>2, <2>3, GoMoves DEF ClaimEvent
        <3>2. /\ UNCHANGED <<shown, ref>> /\ removal' = removal /\ (raced => raced')
              /\ claimed' = (claimed \/ (~claimed /\ status # "gone")) /\ claimed \in BOOLEAN
            BY <1>0, <1>2 DEF ClaimEvent, TypeOK
        <3>3. claimed' = claimed
            BY <2>3, <3>2
        <3>4. QED
            BY <1>0, <2>1, <3>1, <3>2, <3>3, PostLeftAlone
    <2>4. QED
        BY <2>2, <2>3
<1>3. ASSUME NEW l \in Loops, Post(l) PROVE Goal
    <2>1. /\ loop[l].at = "post" /\ shown = 0 /\ claimed /\ (removal = "done" => raced)
          /\ \A k \in Loops \ {l} : loop[k].at # "post"
        BY <1>0, <1>3 DEF Post, OneMayPost, NotedSoon
    <2>2. \A k \in Loops \ {l} : loop'[k] = loop[k]
        BY <1>0, <1>3, GoMoves DEF Post
    <2>3. UNCHANGED <<claimed, ref, removal, raced>>
        BY <1>3 DEF Post
    <2>4. \/ shown' = 1 /\ loop'[l].at = "keep"
          \/ shown' = 0 /\ loop'[l].at = "going"
        BY <1>0, <1>3, <2>1, GoMoves DEF Post
    <2>5. OneMayPost' /\ PostedOnce'
        BY <2>1, <2>2, <2>3, <2>4 DEF OneMayPost, PostedOnce
    <2>6. NotedSoon' /\ PostGoesWithEvent'
        BY <1>0, <2>1, <2>2, <2>3, <2>4 DEF NotedSoon, PostGoesWithEvent
    <2>7. QED
        BY <2>5, <2>6
<1>4. ASSUME NEW l \in Loops, Keep(l) PROVE Goal
    <2>1. loop[l].at = "keep" /\ loop'[l].at = "going" /\ \A k \in Loops \ {l} : loop'[k] = loop[k]
        BY <1>0, <1>4, GoMoves DEF Keep
    <2>2. ref' /\ UNCHANGED <<claimed, shown, removal, raced>>
        BY <1>4 DEF Keep
    <2>3. OneMayPost' /\ PostedOnce'
        BY <1>0, <2>1, <2>2 DEF OneMayPost, PostedOnce
    <2>4. NotedSoon' /\ PostGoesWithEvent'
        BY <1>0, <2>1, <2>2 DEF NotedSoon, PostGoesWithEvent
    <2>5. QED
        BY <2>3, <2>4
<1>5. ASSUME NEW l \in Loops, Take(l) PROVE Goal
    <2>1. PICK e, goes : Set(l, e, goes)
        BY <1>5 DEF Take, TakeLoan, TakeSnoozed, TakeGoing, TakeShift
    <2>2. \A k \in Loops : loop'[k].at = loop[k].at
        BY <1>0, <2>1 DEF Set, TypeOK, Round
    <2>3. UNCHANGED <<claimed, shown, ref, raced, removal>>
        BY <1>5 DEF Take
    <2>4. QED
        BY <1>0, <2>2, <2>3, PostLeftAlone
<1>6. ASSUME NEW l \in Loops, GoesOn(l) PROVE Goal
    <2>1. \A k \in Loops : loop'[k].at = loop[k].at
        BY <1>0, <1>6, ErrandGoesOn
    <2>2. UNCHANGED <<claimed, shown, ref, raced, removal>>
        BY <1>6 DEF GoesOn, SendDM, Confirm, Forget, Mail
    <2>3. QED
        BY <1>0, <2>1, <2>2, PostLeftAlone
<1>7. ASSUME NEW l \in Loops, Stop(l) PROVE Goal
    <2>1. loop'[l].at = "rest" /\ \A k \in Loops \ {l} : loop'[k] = loop[k]
        BY <1>0, <1>7 DEF Stop, Resting, TypeOK
    <2>2. UNCHANGED <<claimed, shown, ref, removal>> /\ (raced => raced') /\ (loop[l].at = "keep" => raced')
        BY <1>7 DEF Stop
    <2>3. OneMayPost' /\ PostedOnce'
        BY <1>0, <2>1, <2>2 DEF OneMayPost, PostedOnce
    <2>4. NotedSoon' /\ PostGoesWithEvent'
        BY <1>0, <2>1, <2>2 DEF NotedSoon, PostGoesWithEvent
    <2>5. QED
        BY <2>3, <2>4
<1>8. CASE Click
    BY <1>0, <1>8, PostLeftAlone DEF Click, Snooze, Mute, Unmute, Leave
<1>9. CASE SetStatus \/ Reschedule \/ Delete \/ DropRow \/ Tick
    BY <1>0, <1>9, PostLeftAlone DEF SetStatus, Reschedule, Delete, DropRow, Tick
<1>10. CASE RemovePosts
    <2>1. /\ removal' = "done" /\ ~ref' /\ UNCHANGED <<claimed, loop>> /\ shown' = IF ref THEN 0 ELSE shown
          /\ (raced => raced') /\ ((\E k \in Loops : loop[k].at \in {"post", "keep"}) => raced')
        BY <1>10 DEF RemovePosts
    <2>2. OneMayPost' /\ PostedOnce'
        BY <1>0, <2>1 DEF OneMayPost, PostedOnce, TypeOK
    <2>3. NotedSoon' /\ PostGoesWithEvent'
        BY <1>0, <2>1 DEF NotedSoon, PostGoesWithEvent
    <2>4. QED
        BY <2>2, <2>3
<1>11. ASSUME NEW m \in Members, Wake(m) PROVE Goal
    BY <1>0, <1>11, PostLeftAlone DEF Wake, ComesDue
<1>12. CASE UNCHANGED vars
    BY <1>0, <1>12, PostLeftAlone DEF vars
<1>13. QED
    BY <1>1, <1>2, <1>3, <1>4, <1>5, <1>6, <1>7, <1>8, <1>9, <1>10, <1>11, <1>12 DEF Next, Work, GoesOn

-----------------------------------------------------------------------------
LEMMA UnderwayIsFinite ==
    ASSUME NEW m
    PROVE  /\ IsFiniteSet(Sending(m)) /\ Cardinality(Sending(m)) \in Nat
           /\ IsFiniteSet(Busy(m)) /\ Cardinality(Busy(m)) \in Nat
           /\ Underway(m) \in Nat
<1>1. Sending(m) \subseteq Loops /\ Busy(m) \subseteq Loops
    BY DEF Sending, Busy
<1>2. IsFiniteSet(Sending(m)) /\ IsFiniteSet(Busy(m))
    BY <1>1, FS_Subset
<1>3. QED
    BY <1>2, FS_CardinalityType DEF Underway

LEMMA UnderwayShrinks ==
    ASSUME NEW m, Sending(m)' \subseteq Sending(m), Busy(m)' \subseteq Busy(m)
    PROVE  /\ Underway(m)' <= Underway(m) /\ Underway(m)' \in Nat
           /\ \A l : \/ l \in Sending(m) \ Sending(m)'
                    \/ l \in Busy(m) \ Busy(m)'  => Underway(m)' + 1 <= Underway(m)
<1>1. /\ Cardinality(Sending(m)') <= Cardinality(Sending(m)) /\ Cardinality(Sending(m)') \in Nat
      /\ Cardinality(Busy(m)') <= Cardinality(Busy(m)) /\ Cardinality(Busy(m)') \in Nat
    BY UnderwayIsFinite, FS_Subset, FS_CardinalityType
<1>2. ASSUME NEW S, NEW T, NEW x \in S, x \notin T, T \subseteq S, IsFiniteSet(S)
      PROVE  Cardinality(T) + 1 <= Cardinality(S)
    <2>1. IsFiniteSet(S \ {x}) /\ Cardinality(S \ {x}) = Cardinality(S) - 1
        BY <1>2, FS_RemoveElement
    <2>2. Cardinality(T) <= Cardinality(S \ {x}) /\ Cardinality(T) \in Nat /\ Cardinality(S) \in Nat
        BY <1>2, <2>1, FS_Subset, FS_CardinalityType
    <2>3. QED
        BY <2>1, <2>2
<1>3. ASSUME NEW l, l \in Sending(m) \ Sending(m)' \/ l \in Busy(m) \ Busy(m)'
      PROVE  Underway(m)' + 1 <= Underway(m)
    <2>1. \/ Cardinality(Sending(m)') + 1 <= Cardinality(Sending(m))
          \/ Cardinality(Busy(m)') + 1 <= Cardinality(Busy(m))
        BY <1>2, <1>3, UnderwayIsFinite
    <2>2. QED
        BY <1>1, <2>1, UnderwayIsFinite DEF Underway
<1>4. QED
    BY <1>1, <1>3, UnderwayIsFinite DEF Underway

(* No step but the click itself starts another errand for somebody who muted. *)
LEMMA NothingStarted ==
    ASSUME TypeOK, LeewayCovers, UNCHANGED <<quiet, leeway>>,
           \A m \in quiet : Sending(m)' \subseteq Sending(m) /\ Busy(m)' \subseteq Busy(m)
    PROVE  LeewayCovers'
<1> SUFFICES ASSUME NEW m \in Members
             PROVE  IF m \in quiet THEN leeway[m] >= Underway(m)' ELSE leeway[m] >= 0
    BY DEF LeewayCovers
<1>1. CASE m \in quiet
    <2>1. Underway(m)' <= Underway(m) /\ Underway(m)' \in Nat
        BY <1>1, UnderwayShrinks
    <2>2. leeway[m] >= Underway(m) /\ leeway[m] \in Int /\ Underway(m) \in Nat
        BY <1>1, UnderwayIsFinite DEF LeewayCovers, TypeOK
    <2>3. QED
        BY <1>1, <2>1, <2>2
<1>2. CASE m \notin quiet
    BY <1>2 DEF LeewayCovers
<1>3. QED
    BY <1>1, <1>2

(* A loop that has no errand any more. *)
LEMMA OneStops ==
    ASSUME NEW l \in Loops, \A k \in Loops \ {l} : loop'[k] = loop[k], loop'[l].doing = None
    PROVE  \A m : Sending(m)' \subseteq Sending(m) /\ Busy(m)' \subseteq Busy(m)
BY DEF Sending, Busy

(* What an errand that goes on has used up, of those that are under way. *)
LEMMA ErrandUsesUp ==
    ASSUME TypeOK, NEW l \in Loops, GoesOn(l)
    PROVE  /\ \A m : Sending(m)' \subseteq Sending(m) /\ Busy(m)' \subseteq Busy(m)
           /\ \A m : m = loop[l].doing.member =>
                /\ SendDM(l) => l \in Sending(m) \ Sending(m)'
                /\ Mail(l) => l \in Busy(m) \ Busy(m)'
<1>1. /\ \A k \in Loops \ {l} : loop'[k] = loop[k]
      /\ loop[l].doing # None
      /\ loop'[l].doing = None \/ (loop'[l].doing = loop[l].doing /\ loop'[l].by # "dm")
    BY ErrandGoesOn
<1>2. \A m : Sending(m)' \subseteq Sending(m) /\ Busy(m)' \subseteq Busy(m)
    BY <1>1 DEF Sending, Busy
<1>3. ASSUME NEW m, m = loop[l].doing.member, SendDM(l) PROVE l \in Sending(m) \ Sending(m)'
    <2>1. loop[l].by = "dm"
        BY <1>3 DEF SendDM, Errs
    <2>2. QED
        BY <1>1, <1>3, <2>1 DEF Sending, Busy
<1>4. ASSUME NEW m, m = loop[l].doing.member, Mail(l) PROVE l \in Busy(m) \ Busy(m)'
    <2>1. loop'[l].doing = None
        BY <1>4 DEF Mail, Quits, TypeOK, Round
    <2>2. QED
        BY <1>1, <1>4, <2>1 DEF Busy
<1>5. QED
    BY <1>2, <1>3, <1>4

LEMMA LeewayStep == TypeOK /\ LeewayCovers /\ [Next]_vars => LeewayCovers'
<1> SUFFICES ASSUME TypeOK, LeewayCovers, [Next]_vars PROVE LeewayCovers'
    OBVIOUS
<1> USE DEF event, people, history
<1>1. ASSUME NEW l \in Loops, Move(l) \/ ClaimEvent(l) \/ Post(l) \/ Keep(l) \/ Stop(l) PROVE LeewayCovers'
    <2>1. loop'[l].doing = None /\ \A k \in Loops \ {l} : loop'[k] = loop[k]
        <3>1. CASE Move(l)
            BY <3>1 DEF Move, StartRound, LoansDone, SnoozedDone, GoingDone, ShiftsDone, Resting, Go, TypeOK
        <3>2. CASE ClaimEvent(l) \/ Post(l) \/ Keep(l)
            BY <3>2 DEF ClaimEvent, Post, Keep, Go, TypeOK
        <3>3. CASE Stop(l)
            BY <3>3 DEF Stop, Resting, TypeOK
        <3>4. QED
            BY <1>1, <3>1, <3>2, <3>3
    <2>2. UNCHANGED <<quiet, leeway>>
        BY <1>1 DEF Move, ClaimEvent, Post, Keep, Stop
    <2>3. QED
        BY <2>1, <2>2, OneStops, NothingStarted
<1>2. ASSUME NEW l \in Loops, Take(l) PROVE LeewayCovers'
    <2>0. PICK e \in loop[l].todo : TakeLoan(l, e) \/ TakeSnoozed(l, e) \/ TakeGoing(l, e) \/ TakeShift(l, e)
        BY <1>2 DEF Take
    <2>1. \E goes : Set(l, e, goes) /\ (goes => Wanted(e))
        <3>1. CASE TakeLoan(l, e) \/ TakeGoing(l, e)
            BY <3>1 DEF TakeLoan, TakeGoing
        <3>2. CASE TakeSnoozed(l, e)
            <4> DEFINE goes == dms[e.member][e.n] \in {"later", "due"} /\ Wanted(e)
            <4>1. Set(l, e, goes) /\ (goes => Wanted(e))
                BY <3>2 DEF TakeSnoozed
            <4>2. QED
                BY <4>1
        <3>3. CASE TakeShift(l, e)
            <4> DEFINE goes == e.member \in held \ marked /\ Wanted(e)
            <4>1. Set(l, e, goes) /\ (goes => Wanted(e))
                BY <3>3 DEF TakeShift
            <4>2. QED
                BY <4>1
        <3>4. QED
            BY <2>0, <3>1, <3>2, <3>3
    <2>2. UNCHANGED <<quiet, leeway>>
        BY <1>2 DEF Take
    <2>3. /\ \A k \in Loops \ {l} : loop'[k] = loop[k]
          /\ loop'[l].doing = None \/ (loop'[l].doing = e /\ Wanted(e))
        BY <2>1 DEF Set, TypeOK, Round
    <2>4. ASSUME NEW m \in quiet PROVE Sending(m)' \subseteq Sending(m) /\ Busy(m)' \subseteq Busy(m)
        BY <2>3 DEF Sending, Busy, Wanted
    <2>5. QED
        BY <2>2, <2>4, NothingStarted
<1>3. ASSUME NEW l \in Loops, GoesOn(l) PROVE LeewayCovers'
    <2>0. PICK m \in Members : m = loop[l].doing.member
        BY <1>3, ErrandGoesOn
    <2>1. \A x : Sending(x)' \subseteq Sending(x) /\ Busy(x)' \subseteq Busy(x)
        BY <1>3, ErrandUsesUp
    <2>2. quiet' = quiet
        BY <1>3 DEF GoesOn, SendDM, Confirm, Forget, Mail
    <2>3. CASE UNCHANGED leeway
        BY <2>1, <2>2, <2>3, NothingStarted
    <2>4. CASE Spent(m) /\ (SendDM(l) \/ Mail(l))
        <3>1. Underway(m)' + 1 <= Underway(m)
            BY <1>3, <2>0, <2>1, <2>4, ErrandUsesUp, UnderwayShrinks
        <3>2. ASSUME NEW x \in Members PROVE IF x \in quiet THEN leeway'[x] >= Underway(x)' ELSE leeway'[x] >= 0
            <4>1. Underway(x)' <= Underway(x) /\ Underway(x)' \in Nat /\ Underway(x) \in Nat
                BY <2>1, UnderwayShrinks, UnderwayIsFinite
            <4>2. leeway[x] \in Int /\ IF x \in quiet THEN leeway[x] >= Underway(x) ELSE leeway[x] >= 0
                BY DEF LeewayCovers, TypeOK
            <4>3. leeway'[x] = IF x = m /\ m \in quiet THEN leeway[x] - 1 ELSE leeway[x]
                BY <2>4, <4>2, SpentTypes
            <4>4. CASE x = m
                BY <3>1, <4>1, <4>2, <4>3, <4>4
            <4>5. CASE x # m
                BY <4>1, <4>2, <4>3, <4>5
            <4>6. QED
                BY <4>4, <4>5
        <3>3. QED
            BY <2>2, <3>2 DEF LeewayCovers
    <2>5. QED
        BY <1>3, <2>0, <2>3, <2>4 DEF GoesOn, SendDM, Confirm, Forget, Mail
<1>4. ASSUME NEW m \in Members, Mute(m) \/ Unmute(m) PROVE LeewayCovers'
    <2>1. \A x : Underway(x)' = Underway(x)
        BY <1>4 DEF Mute, Unmute, Underway, Sending, Busy
    <2>2. \A x \in Members \ {m} : leeway'[x] = leeway[x] /\ (x \in quiet' <=> x \in quiet)
        BY <1>4 DEF Mute, Unmute, TypeOK
    <2>3. CASE Mute(m)
        <3>1. leeway'[m] = Underway(m) /\ m \in quiet'
            BY <2>3 DEF Mute, Underway, TypeOK
        <3>2. Underway(m) \in Nat
            BY UnderwayIsFinite
        <3>3. QED
            BY <2>1, <2>2, <3>1, <3>2 DEF LeewayCovers
    <2>4. CASE Unmute(m)
        <3>1. leeway'[m] = 0 /\ m \notin quiet'
            BY <2>4 DEF Unmute, TypeOK
        <3>2. QED
            BY <2>1, <2>2, <3>1 DEF LeewayCovers
    <2>5. QED
        BY <1>4, <2>3, <2>4
<1>5. ASSUME UNCHANGED <<quiet, leeway, loop>> PROVE LeewayCovers'
    <2>1. \A x : Sending(x)' = Sending(x) /\ Busy(x)' = Busy(x)
        BY <1>5 DEF Sending, Busy
    <2>2. QED
        BY <1>5, <2>1, NothingStarted
<1>6. CASE Click
    BY <1>4, <1>5, <1>6 DEF Click, Snooze, Leave
<1>7. CASE SetStatus \/ Reschedule \/ Delete \/ DropRow \/ RemovePosts \/ Tick
    BY <1>5, <1>7 DEF SetStatus, Reschedule, Delete, DropRow, RemovePosts, Tick
<1>8. ASSUME NEW m \in Members, Wake(m) PROVE LeewayCovers'
    BY <1>5, <1>8 DEF Wake, ComesDue
<1>9. CASE UNCHANGED vars
    BY <1>5, <1>9 DEF vars
<1>10. QED
    BY <1>1, <1>2, <1>3, <1>6, <1>7, <1>8, <1>9 DEF Next, Work, GoesOn

LEMMA LeewayIsEnough == TypeOK /\ LeewayCovers => MuteIsHeard
<1>1. \A m : Underway(m) \in Nat
    BY UnderwayIsFinite
<1>2. QED
    BY <1>1 DEF TypeOK, LeewayCovers, MuteIsHeard

-----------------------------------------------------------------------------
(* How the size of a set changes when it shrinks, loses x or gains x. *)
LEMMA Shrinks ==
    ASSUME NEW S, NEW T, IsFiniteSet(S), T \subseteq S
    PROVE  Cardinality(T) <= Cardinality(S) /\ Cardinality(T) \in Nat /\ Cardinality(S) \in Nat
BY FS_Subset, FS_CardinalityType

LEMMA Loses ==
    ASSUME NEW S, NEW T, NEW x \in S, IsFiniteSet(S), T \subseteq S \ {x}
    PROVE  Cardinality(T) + 1 <= Cardinality(S) /\ Cardinality(T) \in Nat /\ Cardinality(S) \in Nat
<1>1. /\ IsFiniteSet(S \ {x}) /\ Cardinality(S \ {x}) = Cardinality(S) - 1
      /\ Cardinality(S) \in Nat /\ Cardinality(S \ {x}) \in Nat
    BY FS_RemoveElement, FS_CardinalityType
<1>2. Cardinality(T) <= Cardinality(S \ {x}) /\ Cardinality(T) \in Nat
    BY <1>1, Shrinks
<1>3. QED
    BY <1>1, <1>2

LEMMA Gains ==
    ASSUME NEW S, NEW T, NEW x, IsFiniteSet(S), T \subseteq S \cup {x}
    PROVE  Cardinality(T) <= Cardinality(S) + 1 /\ Cardinality(T) \in Nat /\ Cardinality(S) \in Nat
<1>1. /\ IsFiniteSet(S \cup {x}) /\ Cardinality(S \cup {x}) <= Cardinality(S) + 1
      /\ Cardinality(S) \in Nat /\ Cardinality(S \cup {x}) \in Nat
    <2>1. Cardinality(S \cup {x}) = IF x \in S THEN Cardinality(S) ELSE Cardinality(S) + 1
        BY FS_AddElement
    <2>2. QED
        BY <2>1, FS_AddElement, FS_CardinalityType
<1>2. Cardinality(T) <= Cardinality(S \cup {x}) /\ Cardinality(T) \in Nat
    BY <1>1, Shrinks
<1>3. QED
    BY <1>1, <1>2

(* All that is counted is finite. *)
LEMMA CountsAreFinite ==
    ASSUME TypeOK, NEW m \in Members
    PROVE  /\ IsFiniteSet(MayList(m)) /\ IsFiniteSet(Asked(m)) /\ IsFiniteSet(Sending(m)) /\ IsFiniteSet(Busy(m))
           /\ Cardinality(MayList(m)) \in Nat /\ Cardinality(Asked(m)) \in Nat
           /\ Cardinality(Sending(m)) \in Nat /\ Cardinality(Busy(m)) \in Nat
<1>1. MayList(m) \subseteq Loops /\ Sending(m) \subseteq Loops /\ Busy(m) \subseteq Loops
    BY DEF MayList, Sending, Busy
<1>2. IsFiniteSet(1..Len(dms[m]))
    BY FS_Interval DEF TypeOK
<1>3. Asked(m) \subseteq 1..Len(dms[m])
    BY DEF Asked, TypeOK
<1>4. IsFiniteSet(MayList(m)) /\ IsFiniteSet(Asked(m)) /\ IsFiniteSet(Sending(m)) /\ IsFiniteSet(Busy(m))
    BY <1>1, <1>2, <1>3, FS_Subset
<1>5. QED
    BY <1>4, FS_CardinalityType

-----------------------------------------------------------------------------
(* Rows are added, and what is forgotten keeps its number. *)
LEMMA RowsStay ==
    ASSUME TypeOK, [Next]_vars, NEW m \in Members
    PROVE  DOMAIN dms[m] \subseteq DOMAIN dms'[m]
<1> USE DEF event, people, history
<1>0. dms \in [Members -> Seq(RowStates)] /\ loop \in [Loops -> Round]
    BY DEF TypeOK
<1>1. ASSUME NEW x \in Members, NEW n, NEW v, dms' = [dms EXCEPT ![x][n] = v] PROVE DOMAIN dms'[m] = DOMAIN dms[m]
    BY <1>0, <1>1
<1>2. ASSUME NEW l \in Loops, Take(l) PROVE DOMAIN dms[m] \subseteq DOMAIN dms'[m]
    <2>1. PICK e \in loop[l].todo : TakeLoan(l, e) \/ TakeSnoozed(l, e) \/ TakeGoing(l, e) \/ TakeShift(l, e)
        BY <1>2 DEF Take
    <2>2. e.member \in Members
        BY <1>0 DEF Round, Errand
    <2>3. dms' = dms \/ dms' = [dms EXCEPT ![e.member][e.n] = "again"]
        BY <2>1 DEF TakeLoan, TakeSnoozed, TakeGoing, TakeShift
    <2>4. QED
        BY <1>1, <2>2, <2>3
<1>3. ASSUME NEW l \in Loops, SendDM(l) PROVE DOMAIN dms[m] \subseteq DOMAIN dms'[m]
    <2> DEFINE x == loop[l].doing.member
    <2>1. x \in Members
        BY <1>3, ErrandGoesOn DEF GoesOn
    <2>2. CASE dms' = [dms EXCEPT ![x] = Append(@, "sent")]
        <3>1. dms[x] \in Seq(RowStates) /\ dms[m] \in Seq(RowStates)
            BY <1>0, <2>1
        <3>2. DOMAIN dms[x] \subseteq DOMAIN Append(dms[x], "sent")
            BY <3>1
        <3>3. QED
            BY <1>0, <2>1, <2>2, <3>2
    <2>3. QED
        BY <1>3, <2>2 DEF SendDM
<1>4. ASSUME NEW x \in Members, NEW n, Snooze(x, n) \/ ComesDue(x, n) PROVE DOMAIN dms[m] \subseteq DOMAIN dms'[m]
    BY <1>1, <1>4 DEF Snooze, ComesDue
<1>5. ASSUME NEW l \in Loops,
             Move(l) \/ ClaimEvent(l) \/ Post(l) \/ Keep(l) \/ Confirm(l) \/ Mail(l) \/ Stop(l)
      PROVE  dms' = dms
    BY <1>5 DEF Move, ClaimEvent, Post, Keep, Confirm, Mail, Stop
<1>6. ASSUME NEW x \in Members, Mute(x) \/ Unmute(x) \/ Leave(x) PROVE dms' = dms
    BY <1>6 DEF Mute, Unmute, Leave
<1>7. CASE SetStatus \/ Reschedule \/ Delete \/ DropRow \/ RemovePosts \/ Tick \/ UNCHANGED vars
    BY <1>7 DEF SetStatus, Reschedule, Delete, DropRow, RemovePosts, Tick, vars
<1>8. ASSUME NEW l \in Loops, Forget(l) PROVE DOMAIN dms[m] \subseteq DOMAIN dms'[m]
    <2>1. loop[l].doing.member \in Members
        BY <1>8, ErrandGoesOn DEF GoesOn
    <2>2. QED
        BY <1>1, <1>8, <2>1 DEF Forget
<1>9. QED
    BY <1>2, <1>3, <1>4, <1>5, <1>6, <1>7, <1>8 DEF Next, Work, Click, Wake

(* Lists that only get shorter, and one that is read. *)
LEMMA ListsKept ==
    ASSUME TypeOK, ListsOfKind, kind' = kind,
           \A m \in Members : DOMAIN dms[m] \subseteq DOMAIN dms'[m],
           \A l \in Loops : \/ loop'[l].at = loop[l].at /\ loop'[l].todo \subseteq loop[l].todo
                            \/ loop'[l].todo = {}
    PROVE  ListsOfKind'
<1> SUFFICES ASSUME NEW l \in Loops, NEW e \in loop'[l].todo
             PROVE  /\ loop'[l].at = "loans" => kind = "loan" /\ e.n = 0
                    /\ loop'[l].at = "going" => kind = "event" /\ e.n = 0
                    /\ loop'[l].at = "shifts" => kind = "shift"
                    /\ loop'[l].at = "snoozed" => e.n \in DOMAIN dms'[e.member]
    BY DEF ListsOfKind
<1>1. loop'[l].at = loop[l].at /\ e \in loop[l].todo
    OBVIOUS
<1>2. e.member \in Members
    BY <1>1 DEF TypeOK, Round, Errand
<1>3. QED
    BY <1>1, <1>2 DEF ListsOfKind

LEMMA ListsRead ==
    ASSUME TypeOK, ListsOfKind, UNCHANGED <<kind, dms>>, NEW l \in Loops, NEW stage, NEW list, Go(l, stage, list),
           \A e \in list : /\ stage = "loans" => kind = "loan" /\ e.n = 0
                           /\ stage = "going" => kind = "event" /\ e.n = 0
                           /\ stage = "shifts" => kind = "shift"
                           /\ stage = "snoozed" => e.n \in DOMAIN dms[e.member]
    PROVE  ListsOfKind'
<1>1. loop'[l].at = stage /\ loop'[l].todo = list
    BY DEF Go, TypeOK
<1>2. \A k \in Loops \ {l} : loop'[k] = loop[k]
    BY GoMoves
<1>3. QED
    BY <1>1, <1>2 DEF ListsOfKind

LEMMA WhatIsListed ==
    ASSUME TypeOK
    PROVE  /\ \A e \in DueLoans : kind = "loan" /\ e.n = 0 /\ e.member \in held \ marked
           /\ \A e \in DueAgain : e.n \in DOMAIN dms[e.member]
           /\ \A e \in Going : kind = "event" /\ e.n = 0
           /\ \A e \in DueShifts : kind = "shift" /\ e.n = 0
<1>1. ASSUME NEW k, NEW S, NEW e \in Errands(k, S) PROVE kind = k /\ e.n = 0 /\ e.member \in S
    BY DEF Errands
<1>2. \A e \in DueLoans : kind = "loan" /\ e.n = 0 /\ e.member \in held \ marked
    BY <1>1 DEF DueLoans
<1>3. ASSUME NEW e \in DueAgain PROVE e.n \in DOMAIN dms[e.member]
    <2>1. e.member \in Members /\ e.n \in Rows /\ e.n <= Len(dms[e.member])
        BY DEF DueAgain
    <2>2. Cardinality(Loops) \in Nat
        BY FS_CardinalityType
    <2>3. e.n \in Nat /\ e.n >= 1
        BY <2>1, <2>2 DEF Rows
    <2>4. dms[e.member] \in Seq(RowStates)
        BY <2>1 DEF TypeOK
    <2>5. QED
        BY <2>1, <2>3, <2>4
<1>4. \A e \in Going : kind = "event" /\ e.n = 0
    BY <1>1 DEF Going
<1>5. \A e \in DueShifts : kind = "shift" /\ e.n = 0
    BY <1>1 DEF DueShifts
<1>6. QED
    BY <1>2, <1>3, <1>4, <1>5

LEMMA ListsStep == TypeOK /\ ListsOfKind /\ [Next]_vars => ListsOfKind'
<1> SUFFICES ASSUME TypeOK, ListsOfKind, [Next]_vars PROVE ListsOfKind'
    OBVIOUS
<1> USE DEF event, people, history
<1>0. \A m \in Members : DOMAIN dms[m] \subseteq DOMAIN dms'[m]
    BY RowsStay
<1>1. ASSUME NEW l \in Loops, Move(l) PROVE ListsOfKind'
    <2>0. UNCHANGED <<kind, dms>>
        BY <1>1 DEF Move
    <2>1. CASE StartRound(l)
        BY <2>0, <2>1, WhatIsListed, ListsRead DEF StartRound
    <2>2. CASE LoansDone(l)
        BY <2>0, <2>2, WhatIsListed, ListsRead DEF LoansDone
    <2>3. CASE SnoozedDone(l)
        <3>1. CASE Go(l, "event", {})
            BY <2>0, <3>1, ListsRead
        <3>2. CASE Go(l, "shifts", DueShifts)
            BY <2>0, <3>2, WhatIsListed, ListsRead
        <3>3. QED
            BY <2>3, <3>1, <3>2 DEF SnoozedDone
    <2>4. CASE GoingDone(l)
        BY <2>0, <2>4, WhatIsListed, ListsRead DEF GoingDone
    <2>5. CASE ShiftsDone(l)
        <3>1. loop'[l].todo = {} /\ \A k \in Loops \ {l} : loop'[k] = loop[k]
            BY <2>5 DEF ShiftsDone, Resting, TypeOK
        <3>2. QED
            BY <1>0, <2>0, <3>1, ListsKept
    <2>6. QED
        BY <1>1, <2>1, <2>2, <2>3, <2>4, <2>5 DEF Move
<1>2. ASSUME NEW l \in Loops, ClaimEvent(l) \/ Post(l) \/ Keep(l) PROVE ListsOfKind'
    <2>0. UNCHANGED <<kind, dms>>
        BY <1>2 DEF ClaimEvent, Post, Keep
    <2>1. Go(l, "post", {}) \/ Go(l, "keep", {}) \/ Go(l, "going", Going) \/ Go(l, "shifts", DueShifts)
        BY <1>2 DEF ClaimEvent, Post, Keep
    <2>2. CASE Go(l, "post", {}) \/ Go(l, "keep", {})
        BY <2>0, <2>2, ListsRead
    <2>3. CASE Go(l, "going", Going)
        BY <2>0, <2>3, WhatIsListed, ListsRead
    <2>4. CASE Go(l, "shifts", DueShifts)
        BY <2>0, <2>4, WhatIsListed, ListsRead
    <2>5. QED
        BY <2>1, <2>2, <2>3, <2>4
<1>3. ASSUME NEW l \in Loops, Take(l) PROVE ListsOfKind'
    <2>1. PICK e, goes : Set(l, e, goes)
        BY <1>3 DEF Take, TakeLoan, TakeSnoozed, TakeGoing, TakeShift
    <2>2. \A k \in Loops : loop'[k].at = loop[k].at /\ loop'[k].todo \subseteq loop[k].todo
        BY <2>1 DEF Set, TypeOK, Round
    <2>3. kind' = kind
        BY <1>3 DEF Take
    <2>4. QED
        BY <1>0, <2>2, <2>3, ListsKept
<1>4. ASSUME NEW l \in Loops, GoesOn(l) PROVE ListsOfKind'
    <2>1. \A k \in Loops : loop'[k].at = loop[k].at /\ loop'[k].todo = loop[k].todo
        BY <1>4, ErrandGoesOn
    <2>2. kind' = kind
        BY <1>4 DEF GoesOn, SendDM, Confirm, Forget, Mail
    <2>3. QED
        BY <1>0, <2>1, <2>2, ListsKept
<1>5. ASSUME NEW l \in Loops, Stop(l) PROVE ListsOfKind'
    <2>1. loop'[l].todo = {} /\ \A k \in Loops \ {l} : loop'[k] = loop[k]
        BY <1>5 DEF Stop, Resting, TypeOK
    <2>2. QED
        BY <1>0, <1>5, <2>1, ListsKept DEF Stop
<1>6. CASE Click
    <2>1. UNCHANGED <<kind, loop>>
        BY <1>6 DEF Click, Snooze, Mute, Unmute, Leave
    <2>2. QED
        BY <1>0, <2>1, ListsKept
<1>7. CASE SetStatus \/ Reschedule \/ Delete \/ DropRow \/ RemovePosts \/ Tick \/ UNCHANGED vars
    <2>1. UNCHANGED <<kind, loop>>
        BY <1>7 DEF SetStatus, Reschedule, Delete, DropRow, RemovePosts, Tick, vars
    <2>2. QED
        BY <1>0, <2>1, ListsKept
<1>8. ASSUME NEW m \in Members, Wake(m) PROVE ListsOfKind'
    BY <1>0, <1>8, ListsKept DEF Wake, ComesDue
<1>9. QED
    BY <1>1, <1>2, <1>3, <1>4, <1>5, <1>6, <1>7, <1>8 DEF Next, Work, GoesOn

-----------------------------------------------------------------------------
LEMMA InitLists == Init => ListsOfKind
BY DEF Init, Resting, ListsOfKind

LEMMA InitCovered == Init => Covered
<1> SUFFICES ASSUME Init, NEW m \in Members
             PROVE  told[m] + Open(m) + Cardinality(Sending(m)) <= Fair(m) /\ mailed[m] + Open(m) + Cardinality(Busy(m)) <= Fair(m)
    BY DEF Covered
<1>1. told[m] = 0 /\ mailed[m] = 0 /\ asked[m] = 0
    BY DEF Init
<1>2. Sending(m) = {} /\ Busy(m) = {} /\ Asked(m) = {}
    BY DEF Init, Resting, Sending, Busy, Asked
<1>3. Cardinality({}) = 0 /\ Cardinality(Loops) \in Nat
    BY FS_EmptySet, FS_CardinalityType
<1>4. CASE kind = "loan"
    <2>1. MayList(m) = Loops /\ ~Unclaimed(m)
        BY <1>4 DEF Init, Resting, MayList, Unclaimed
    <2>2. QED
        BY <1>1, <1>2, <1>3, <1>4, <2>1 DEF Open, Fair
<1>5. CASE kind # "loan"
    <2>1. MayList(m) = {}
        BY <1>5 DEF Init, Resting, MayList
    <2>2. QED
        BY <1>1, <1>2, <1>3, <1>5, <2>1 DEF Open, Fair
<1>6. QED
    BY <1>4, <1>5

CountsNat ==
    \A m \in Members : Open(m) \in Nat /\ Cardinality(Sending(m)) \in Nat /\ Cardinality(Busy(m)) \in Nat

LEMMA CountsAreNat == TypeOK => CountsNat
BY CountsAreFinite DEF Open, CountsNat

LEMMA OpenShrinks ==
    ASSUME TypeOK, NEW m \in Members, Unclaimed(m)' => Unclaimed(m),
           MayList(m)' \subseteq MayList(m), Asked(m)' \subseteq Asked(m)
    PROVE  Open(m)' <= Open(m)
<1>1. /\ Cardinality(MayList(m)') <= Cardinality(MayList(m))
      /\ Cardinality(MayList(m)') \in Nat /\ Cardinality(MayList(m)) \in Nat
    BY CountsAreFinite, Shrinks
<1>2. /\ Cardinality(Asked(m)') <= Cardinality(Asked(m))
      /\ Cardinality(Asked(m)') \in Nat /\ Cardinality(Asked(m)) \in Nat
    BY CountsAreFinite, Shrinks
<1>3. QED
    BY <1>1, <1>2 DEF Open

(* What a member may still get does not grow, but by what they ask for. *)
LEMMA StaysCovered ==
    ASSUME TypeOK, TypeOK', Covered, kind' = kind,
           \A m \in Members :
               /\ told'[m] + Open(m)' + Cardinality(Sending(m)') + asked[m]
                    <= told[m] + Open(m) + Cardinality(Sending(m)) + asked'[m]
               /\ mailed'[m] + Open(m)' + Cardinality(Busy(m)') + asked[m]
                    <= mailed[m] + Open(m) + Cardinality(Busy(m)) + asked'[m]
    PROVE  Covered'
<1> SUFFICES ASSUME NEW m \in Members
             PROVE  /\ told'[m] + Open(m)' + Cardinality(Sending(m)') <= Fair(m)'
                    /\ mailed'[m] + Open(m)' + Cardinality(Busy(m)') <= Fair(m)'
    BY DEF Covered
<1>1. Open(m) \in Nat /\ Cardinality(Sending(m)) \in Nat /\ Cardinality(Busy(m)) \in Nat
    BY CountsAreNat DEF CountsNat
<1>2. TypeOK' => CountsNat'
    BY CountsAreNat, PTL
<1>3. Open(m)' \in Nat /\ Cardinality(Sending(m)') \in Nat /\ Cardinality(Busy(m)') \in Nat
    BY <1>2 DEF CountsNat
<1>4. /\ told[m] \in Nat /\ told'[m] \in Nat /\ mailed[m] \in Nat /\ mailed'[m] \in Nat
      /\ asked[m] \in Nat /\ asked'[m] \in Nat
    BY DEF TypeOK
<1>5. told[m] + Open(m) + Cardinality(Sending(m)) <= Fair(m) /\ mailed[m] + Open(m) + Cardinality(Busy(m)) <= Fair(m)
    BY DEF Covered
<1>6. PICK k \in Nat : Fair(m) = asked[m] + k /\ Fair(m)' = asked'[m] + k
    <2>1. Cardinality(Loops) \in Nat
        BY FS_CardinalityType
    <2>2. CASE kind = "loan"
        BY <2>1, <2>2 DEF Fair
    <2>3. CASE kind # "loan"
        BY <2>3 DEF Fair
    <2>4. QED
        BY <2>2, <2>3
<1>7. QED
    BY <1>1, <1>3, <1>4, <1>5, <1>6

LEMMA NothingNew ==
    ASSUME TypeOK, TypeOK', Covered, UNCHANGED <<kind, told, mailed, asked>>,
           \A m \in Members : /\ Unclaimed(m)' => Unclaimed(m)
                              /\ MayList(m)' \subseteq MayList(m) /\ Asked(m)' \subseteq Asked(m)
                              /\ Sending(m)' \subseteq Sending(m) /\ Busy(m)' \subseteq Busy(m)
    PROVE  Covered'
<1>1. ASSUME NEW m \in Members
      PROVE  /\ told'[m] + Open(m)' + Cardinality(Sending(m)') + asked[m]
                   <= told[m] + Open(m) + Cardinality(Sending(m)) + asked'[m]
             /\ mailed'[m] + Open(m)' + Cardinality(Busy(m)') + asked[m]
                   <= mailed[m] + Open(m) + Cardinality(Busy(m)) + asked'[m]
    <2>1. Open(m)' <= Open(m)
        BY OpenShrinks
    <2>2. /\ Cardinality(Sending(m)') <= Cardinality(Sending(m)) /\ Cardinality(Sending(m)') \in Nat
          /\ Cardinality(Sending(m)) \in Nat
        BY CountsAreFinite, Shrinks
    <2>3. /\ Cardinality(Busy(m)') <= Cardinality(Busy(m)) /\ Cardinality(Busy(m)') \in Nat
          /\ Cardinality(Busy(m)) \in Nat
        BY CountsAreFinite, Shrinks
    <2>4. TypeOK' => CountsNat'
        BY CountsAreNat, PTL
    <2>5. Open(m) \in Nat /\ Open(m)' \in Nat
        BY <2>4, CountsAreNat DEF CountsNat
    <2>6. told[m] \in Nat /\ mailed[m] \in Nat /\ asked[m] \in Nat
        BY DEF TypeOK
    <2>7. QED
        BY <2>1, <2>2, <2>3, <2>5, <2>6
<1>2. QED
    BY <1>1, StaysCovered

(* A loop that is idle afterwards adds no errand. *)
LEMMA GoesIdle ==
    ASSUME NEW l \in Loops, \A k \in Loops \ {l} : loop'[k] = loop[k], loop'[l].doing = None
    PROVE  \A m : Sending(m)' \subseteq Sending(m) /\ Busy(m)' \subseteq Busy(m)
BY DEF Sending, Busy

(* A list entry or a row is worked off: what was open is an errand now. *)
LEMMA TradedForErrand ==
    ASSUME TypeOK, TypeOK', Covered, UNCHANGED <<kind, told, mailed, asked>>, NEW l \in Loops, NEW m \in Members,
           \A k \in Loops \ {l} : loop'[k] = loop[k], loop'[l].doing = None \/ loop'[l].doing.member = m,
           Open(m)' + 1 <= Open(m), \A x \in Members \ {m} : Open(x)' <= Open(x)
    PROVE  Covered'
<1>1. ASSUME NEW x \in Members
      PROVE  /\ told'[x] + Open(x)' + Cardinality(Sending(x)') + asked[x]
                   <= told[x] + Open(x) + Cardinality(Sending(x)) + asked'[x]
             /\ mailed'[x] + Open(x)' + Cardinality(Busy(x)') + asked[x]
                   <= mailed[x] + Open(x) + Cardinality(Busy(x)) + asked'[x]
    <2>1. TypeOK' => CountsNat'
        BY CountsAreNat, PTL
    <2>2. Open(x) \in Nat /\ Open(x)' \in Nat
        BY <2>1, CountsAreNat DEF CountsNat
    <2>3. told[x] \in Nat /\ mailed[x] \in Nat /\ asked[x] \in Nat
        BY DEF TypeOK
    <2>4. CASE x = m
        <3>1. Sending(x)' \subseteq Sending(x) \cup {l} /\ Busy(x)' \subseteq Busy(x) \cup {l}
            BY DEF Sending, Busy
        <3>2. /\ Cardinality(Sending(x)') <= Cardinality(Sending(x)) + 1 /\ Cardinality(Sending(x)') \in Nat
              /\ Cardinality(Sending(x)) \in Nat
            BY <3>1, CountsAreFinite, Gains
        <3>3. /\ Cardinality(Busy(x)') <= Cardinality(Busy(x)) + 1 /\ Cardinality(Busy(x)') \in Nat
              /\ Cardinality(Busy(x)) \in Nat
            BY <3>1, CountsAreFinite, Gains
        <3>4. Open(x)' + 1 <= Open(x)
            BY <2>4
        <3>5. QED
            BY <2>2, <2>3, <3>2, <3>3, <3>4
    <2>5. CASE x # m
        <3>1. Sending(x)' \subseteq Sending(x) /\ Busy(x)' \subseteq Busy(x)
            BY <2>5 DEF Sending, Busy
        <3>2. /\ Cardinality(Sending(x)') <= Cardinality(Sending(x)) /\ Cardinality(Sending(x)') \in Nat
              /\ Cardinality(Sending(x)) \in Nat
            BY <3>1, CountsAreFinite, Shrinks
        <3>3. /\ Cardinality(Busy(x)') <= Cardinality(Busy(x)) /\ Cardinality(Busy(x)') \in Nat
              /\ Cardinality(Busy(x)) \in Nat
            BY <3>1, CountsAreFinite, Shrinks
        <3>4. Open(x)' <= Open(x)
            BY <2>5
        <3>5. QED
            BY <2>2, <2>3, <3>2, <3>3, <3>4
    <2>6. QED
        BY <2>4, <2>5
<1>2. QED
    BY <1>1, StaysCovered

(* Moving on through a round lists nobody it should not. *)
LEMMA MovesCovered ==
    ASSUME TypeOK, TypeOK', ListsOfKind, Covered, NEW l \in Loops, Move(l)
    PROVE  Covered'
<1> USE DEF event, people, history
<1>1. /\ UNCHANGED <<kind, claimed, held, marked, dms, told, mailed, asked>>
      /\ \A k \in Loops \ {l} : loop'[k] = loop[k]
      /\ loop'[l].doing = None
    <2>1. UNCHANGED <<kind, claimed, held, marked, dms, told, mailed, asked>>
        BY DEF Move
    <2>2. CASE ShiftsDone(l)
        BY <2>1, <2>2 DEF ShiftsDone, Resting, TypeOK
    <2>3. ASSUME NEW stage, NEW list, Go(l, stage, list)
          PROVE  loop'[l].doing = None /\ \A k \in Loops \ {l} : loop'[k] = loop[k]
        BY <2>3 DEF Go, TypeOK
    <2>4. CASE StartRound(l) \/ LoansDone(l) \/ SnoozedDone(l) \/ GoingDone(l)
        BY <2>1, <2>3, <2>4 DEF StartRound, LoansDone, SnoozedDone, GoingDone
    <2>5. QED
        BY <2>2, <2>4 DEF Move
<1>2. \/ loop'[l].at \notin {"post", "keep", "going", "loans"}
      \/ loop'[l].at = "loans" /\ loop'[l].todo = DueLoans
    <2>1. ASSUME NEW stage, NEW list, Go(l, stage, list) PROVE loop'[l].at = stage /\ loop'[l].todo = list
        BY <2>1 DEF Go, TypeOK
    <2>2. CASE ShiftsDone(l)
        BY <2>2 DEF ShiftsDone, Resting, TypeOK
    <2>3. CASE StartRound(l)
        BY <2>1, <2>3 DEF StartRound
    <2>4. CASE LoansDone(l) \/ SnoozedDone(l) \/ GoingDone(l)
        BY <2>1, <2>4 DEF LoansDone, SnoozedDone, GoingDone
    <2>5. QED
        BY <2>2, <2>3, <2>4 DEF Move
<1>3. ASSUME NEW m \in Members PROVE MayList(m)' \subseteq MayList(m)
    <2>1. ASSUME NEW k \in Loops, k # l, k \in MayList(m)' PROVE k \in MayList(m)
        BY <1>1, <2>1 DEF MayList, Listed
    <2>2. ASSUME l \in MayList(m)' PROVE l \in MayList(m)
        <3>1. kind = "loan" /\ (m \in held \ marked \/ (loop'[l].todo = DueLoans /\ \E e \in loop'[l].todo : e.member = m))
            BY <1>1, <1>2, <2>2 DEF MayList, Listed
        <3>2. m \in held \ marked
            BY <3>1, WhatIsListed
        <3>3. QED
            BY <3>1, <3>2 DEF MayList
    <2>3. QED
        BY <2>1, <2>2 DEF MayList
<1>4. \A m \in Members : (Unclaimed(m)' => Unclaimed(m)) /\ Asked(m)' \subseteq Asked(m)
    BY <1>1 DEF Unclaimed, Asked
<1>5. \A m : Sending(m)' \subseteq Sending(m) /\ Busy(m)' \subseteq Busy(m)
    BY <1>1, GoesIdle
<1>6. QED
    BY <1>1, <1>3, <1>4, <1>5, NothingNew

(* The claim of an event becomes the list of one loop. *)
LEMMA PostingCovered ==
    ASSUME TypeOK, TypeOK', Covered, NEW l \in Loops, ClaimEvent(l) \/ Post(l) \/ Keep(l)
    PROVE  Covered'
<1> USE DEF event, people, history
<1>1. UNCHANGED <<kind, held, marked, dms, told, mailed, asked>>
    BY DEF ClaimEvent, Post, Keep
<1>2. PICK stage, list : Go(l, stage, list) /\ stage \in {"post", "keep", "going", "shifts"}
    BY DEF ClaimEvent, Post, Keep
<1>3. /\ \A k \in Loops \ {l} : loop'[k] = loop[k]
      /\ loop'[l].doing = None /\ loop'[l].at = stage
    BY <1>2 DEF Go, TypeOK
<1>4. \A m : Sending(m)' \subseteq Sending(m) /\ Busy(m)' \subseteq Busy(m)
    BY <1>3, GoesIdle
<1>5. ASSUME NEW m PROVE Asked(m)' \subseteq Asked(m)
    BY <1>1 DEF Asked
<1>6. CASE ClaimEvent(l) /\ ~claimed /\ status # "gone" /\ kind = "event"
    <2>1. claimed' = TRUE
        BY <1>6 DEF ClaimEvent
    <2>2. ASSUME NEW m \in Members PROVE Open(m)' <= Open(m)
        <3>1. Unclaimed(m) /\ ~Unclaimed(m)'
            BY <1>1, <1>6, <2>1 DEF Unclaimed
        <3>2. MayList(m)' \subseteq MayList(m) \cup {l}
            BY <1>1, <1>3, <1>6 DEF MayList, Listed
        <3>3. /\ Cardinality(MayList(m)') <= Cardinality(MayList(m)) + 1 /\ Cardinality(MayList(m)') \in Nat
              /\ Cardinality(MayList(m)) \in Nat
            BY <3>2, CountsAreFinite, Gains
        <3>4. /\ Cardinality(Asked(m)') <= Cardinality(Asked(m)) /\ Cardinality(Asked(m)') \in Nat
              /\ Cardinality(Asked(m)) \in Nat
            BY <1>5, CountsAreFinite, Shrinks
        <3>5. QED
            BY <3>1, <3>3, <3>4 DEF Open
    <2>3. ASSUME NEW m \in Members
          PROVE  /\ told'[m] + Open(m)' + Cardinality(Sending(m)') + asked[m]
                       <= told[m] + Open(m) + Cardinality(Sending(m)) + asked'[m]
                 /\ mailed'[m] + Open(m)' + Cardinality(Busy(m)') + asked[m]
                       <= mailed[m] + Open(m) + Cardinality(Busy(m)) + asked'[m]
        <3>1. Open(m)' <= Open(m)
            BY <2>2
        <3>2. /\ Cardinality(Sending(m)') <= Cardinality(Sending(m)) /\ Cardinality(Sending(m)') \in Nat
              /\ Cardinality(Sending(m)) \in Nat
            BY <1>4, CountsAreFinite, Shrinks
        <3>3. /\ Cardinality(Busy(m)') <= Cardinality(Busy(m)) /\ Cardinality(Busy(m)') \in Nat
              /\ Cardinality(Busy(m)) \in Nat
            BY <1>4, CountsAreFinite, Shrinks
        <3>4. TypeOK' => CountsNat'
            BY CountsAreNat, PTL
        <3>5. Open(m) \in Nat /\ Open(m)' \in Nat
            BY <3>4, CountsAreNat DEF CountsNat
        <3>6. told[m] \in Nat /\ mailed[m] \in Nat /\ asked[m] \in Nat
            BY DEF TypeOK
        <3>7. QED
            BY <1>1, <3>1, <3>2, <3>3, <3>5, <3>6
    <2>4. QED
        BY <1>1, <2>3, StaysCovered
<1>7. CASE ~(ClaimEvent(l) /\ ~claimed /\ status # "gone" /\ kind = "event")
    <2>1. kind = "event" => claimed' = claimed
        <3>1. CASE Post(l) \/ Keep(l)
            BY <3>1 DEF Post, Keep
        <3>2. CASE ClaimEvent(l)
            <4>1. claimed' = (claimed \/ (~claimed /\ status # "gone")) /\ claimed \in BOOLEAN
                BY <3>2 DEF ClaimEvent, TypeOK
            <4>2. QED
                BY <1>7, <3>2, <4>1
        <3>3. QED
            BY <3>1, <3>2
    <2>2. ASSUME NEW m PROVE Unclaimed(m)' => Unclaimed(m)
        BY <1>1, <2>1 DEF Unclaimed
    <2>3. kind = "event" => loop'[l].at \notin {"post", "keep", "going"} \/ loop[l].at \in {"post", "keep"}
        <3>1. CASE Post(l) \/ Keep(l)
            BY <3>1 DEF Post, Keep
        <3>2. CASE ClaimEvent(l)
            <4>1. kind = "event" => Go(l, "shifts", DueShifts)
                BY <1>7, <3>2 DEF ClaimEvent
            <4>2. QED
                BY <4>1, GoMoves
        <3>3. QED
            BY <3>1, <3>2
    <2>4. ASSUME NEW m PROVE MayList(m)' \subseteq MayList(m)
        <3>1. ASSUME NEW k \in Loops, k # l, k \in MayList(m)' PROVE k \in MayList(m)
            BY <1>1, <1>3, <3>1 DEF MayList, Listed
        <3>2. ASSUME l \in MayList(m)' PROVE l \in MayList(m)
            BY <1>1, <1>2, <1>3, <2>3, <3>2 DEF MayList, Listed
        <3>3. QED
            BY <3>1, <3>2 DEF MayList
    <2>5. QED
        BY <1>1, <1>4, <1>5, <2>2, <2>4, NothingNew
<1>8. QED
    BY <1>6, <1>7

(* Nothing opens while marks are added, people leave and lists get shorter. *)
LEMMA NothingOpens ==
    ASSUME UNCHANGED <<kind, claimed>>, held' \ marked' \subseteq held \ marked,
           \A k \in Loops : loop'[k].at = loop[k].at /\ loop'[k].todo \subseteq loop[k].todo
    PROVE  \A m : (Unclaimed(m)' => Unclaimed(m)) /\ MayList(m)' \subseteq MayList(m)
<1> SUFFICES ASSUME NEW m PROVE (Unclaimed(m)' => Unclaimed(m)) /\ MayList(m)' \subseteq MayList(m)
    OBVIOUS
<1>1. m \in held' \ marked' => m \in held \ marked
    OBVIOUS
<1>2. ASSUME NEW k \in Loops, Listed(k, m)' PROVE Listed(k, m)
    BY <1>2 DEF Listed
<1>3. ASSUME NEW k \in Loops, k \in MayList(m)' PROVE k \in MayList(m)
    BY <1>1, <1>2, <1>3 DEF MayList
<1>4. MayList(m)' \subseteq MayList(m)
    BY <1>3 DEF MayList
<1>5. QED
    BY <1>1, <1>4 DEF Unclaimed

(* An entry of a list, a row that was asked for or the claim is used up. *)
LEMMA OneLess ==
    ASSUME TypeOK, NEW m \in Members, Unclaimed(m)' => Unclaimed(m),
           MayList(m)' \subseteq MayList(m), Asked(m)' \subseteq Asked(m),
           \/ Unclaimed(m) /\ ~Unclaimed(m)'
           \/ \E l \in MayList(m) : l \notin MayList(m)'
           \/ \E n \in Asked(m) : n \notin Asked(m)'
    PROVE  Open(m)' + 1 <= Open(m)
<1>1. /\ Cardinality(MayList(m)') <= Cardinality(MayList(m))
      /\ Cardinality(MayList(m)') \in Nat /\ Cardinality(MayList(m)) \in Nat
    BY CountsAreFinite, Shrinks
<1>2. /\ Cardinality(Asked(m)') <= Cardinality(Asked(m))
      /\ Cardinality(Asked(m)') \in Nat /\ Cardinality(Asked(m)) \in Nat
    BY CountsAreFinite, Shrinks
<1>3. CASE Unclaimed(m) /\ ~Unclaimed(m)'
    BY <1>1, <1>2, <1>3 DEF Open
<1>4. CASE \E l \in MayList(m) : l \notin MayList(m)'
    <2>1. PICK l \in MayList(m) : l \notin MayList(m)'
        BY <1>4
    <2>2. MayList(m)' \subseteq MayList(m) \ {l}
        BY <2>1
    <2>3. Cardinality(MayList(m)') + 1 <= Cardinality(MayList(m))
        BY <2>1, <2>2, CountsAreFinite, Loses
    <2>4. QED
        BY <1>1, <1>2, <2>3 DEF Open
<1>5. CASE \E n \in Asked(m) : n \notin Asked(m)'
    <2>1. PICK n \in Asked(m) : n \notin Asked(m)'
        BY <1>5
    <2>2. Asked(m)' \subseteq Asked(m) \ {n}
        BY <2>1
    <2>3. Cardinality(Asked(m)') + 1 <= Cardinality(Asked(m))
        BY <2>1, <2>2, CountsAreFinite, Loses
    <2>4. QED
        BY <1>1, <1>2, <2>3 DEF Open
<1>6. QED
    BY <1>3, <1>4, <1>5

LEMMA TakesCovered ==
    ASSUME TypeOK, TypeOK', ListsOfKind, Covered, NEW l \in Loops, Take(l)
    PROVE  Covered'
<1> USE DEF event, people, history
<1>1. PICK e \in loop[l].todo : TakeLoan(l, e) \/ TakeSnoozed(l, e) \/ TakeGoing(l, e) \/ TakeShift(l, e)
    BY DEF Take
<1> DEFINE m == e.member
<1>2. e \in Errand /\ m \in Members /\ e = [member |-> m, n |-> e.n]
    BY DEF TypeOK, Round, Errand
<1>3. /\ UNCHANGED <<kind, claimed, held, told, mailed, asked>>
      /\ dms \in [Members -> Seq(RowStates)]
    BY DEF Take, TypeOK
<1>4. ASSUME NEW goes, Set(l, e, goes)
      PROVE  /\ \A k \in Loops \ {l} : loop'[k] = loop[k]
             /\ loop'[l].at = loop[l].at /\ loop'[l].todo = loop[l].todo \ {e}
             /\ loop'[l].doing = IF goes THEN e ELSE None
             /\ \A k \in Loops : loop'[k].at = loop[k].at /\ loop'[k].todo \subseteq loop[k].todo
    BY <1>4 DEF Set, TypeOK, Round
<1>5. PICK goes : Set(l, e, goes)
    BY <1>1 DEF TakeLoan, TakeSnoozed, TakeGoing, TakeShift
<1>6. /\ \A k \in Loops \ {l} : loop'[k] = loop[k]
      /\ loop'[l].at = loop[l].at /\ loop'[l].todo = loop[l].todo \ {e}
      /\ loop'[l].doing = None \/ loop'[l].doing.member = m
      /\ \A k \in Loops : loop'[k].at = loop[k].at /\ loop'[k].todo \subseteq loop[k].todo
    BY <1>4, <1>5
<1>7. held' \ marked' \subseteq held \ marked
    BY <1>1, <1>3 DEF TakeLoan, TakeSnoozed, TakeGoing, TakeShift
<1>8. \A x : (Unclaimed(x)' => Unclaimed(x)) /\ MayList(x)' \subseteq MayList(x)
    BY <1>3, <1>6, <1>7, NothingOpens
<1>9. \A x \in Members : Asked(x)' \subseteq Asked(x)
    <2>1. CASE dms' = dms
        BY <2>1 DEF Asked
    <2>2. CASE dms' = [dms EXCEPT ![m][e.n] = "again"]
        BY <1>2, <1>3, <2>2 DEF Asked
    <2>3. QED
        BY <1>1, <2>1, <2>2 DEF TakeLoan, TakeSnoozed, TakeGoing, TakeShift
<1>10. ASSUME loop'[l].doing = None PROVE Covered'
    <2>1. \A x : Sending(x)' \subseteq Sending(x) /\ Busy(x)' \subseteq Busy(x)
        BY <1>6, <1>10, GoesIdle
    <2>2. QED
        BY <1>3, <1>8, <1>9, <2>1, NothingNew
<1>11. ASSUME \/ Unclaimed(m) /\ ~Unclaimed(m)'
              \/ \E k \in MayList(m) : k \notin MayList(m)'
              \/ \E n \in Asked(m) : n \notin Asked(m)'
       PROVE  Covered'
    <2>1. Open(m)' + 1 <= Open(m)
        BY <1>2, <1>8, <1>9, <1>11, OneLess
    <2>2. \A x \in Members \ {m} : Open(x)' <= Open(x)
        BY <1>8, <1>9, OpenShrinks
    <2>3. QED
        BY <1>2, <1>3, <1>6, <2>1, <2>2, TradedForErrand
<1>12. CASE TakeLoan(l, e) \/ TakeGoing(l, e)
    <2>1. /\ TakeLoan(l, e) => loop[l].at = "loans" /\ kind = "loan" /\ m \in marked'
          /\ TakeGoing(l, e) => loop[l].at = "going" /\ kind = "event"
          /\ e.n = 0
        BY <1>12 DEF TakeLoan, TakeGoing, ListsOfKind
    <2>2. \A x \in loop[l].todo : x.n = 0
        BY <1>12 DEF TakeLoan, TakeGoing, ListsOfKind
    <2>3. \A x \in loop'[l].todo : x.member # m
        <3>1. SUFFICES ASSUME NEW x \in loop'[l].todo, x.member = m PROVE FALSE
            OBVIOUS
        <3>2. x \in loop[l].todo /\ x # e /\ x \in Errand
            BY <1>6 DEF TypeOK, Round
        <3>3. x = [member |-> m, n |-> 0] /\ e = [member |-> m, n |-> 0]
            BY <1>2, <2>1, <2>2, <3>1, <3>2 DEF Errand
        <3>4. QED
            BY <3>2, <3>3
    <2>4. l \in MayList(m)
        BY <1>12, <2>1 DEF MayList, Listed
    <2>5. l \notin MayList(m)'
        BY <1>3, <1>6, <1>12, <2>1, <2>3 DEF MayList, Listed
    <2>6. QED
        BY <1>11, <2>4, <2>5
<1>13. CASE TakeSnoozed(l, e)
    <2> DEFINE free == dms[m][e.n] \in {"later", "due"}
    <2>1. CASE free
        <3>1. dms' = [dms EXCEPT ![m][e.n] = "again"]
            BY <1>13, <2>1 DEF TakeSnoozed
        <3>2. e.n \in DOMAIN dms[m]
            BY <1>13 DEF TakeSnoozed, ListsOfKind
        <3>3. e.n \in Asked(m)
            BY <2>1, <3>2 DEF Asked
        <3>4. dms'[m][e.n] = "again"
            BY <1>2, <1>3, <3>1, <3>2
        <3>5. e.n \notin Asked(m)'
            BY <3>4 DEF Asked
        <3>6. QED
            BY <1>11, <3>3, <3>5
    <2>2. CASE ~free
        <3>1. Set(l, e, free /\ Wanted(e))
            BY <1>13 DEF TakeSnoozed
        <3>2. loop'[l].doing = None
            BY <1>4, <2>2, <3>1
        <3>3. QED
            BY <1>10, <3>2
    <2>3. QED
        BY <2>1, <2>2
<1>14. CASE TakeShift(l, e)
    <2> DEFINE free == m \in held \ marked
    <2>1. CASE free
        <3>1. m \in marked'
            BY <1>14, <2>1 DEF TakeShift
        <3>2. kind = "shift"
            BY <1>14 DEF TakeShift, ListsOfKind
        <3>3. Unclaimed(m) /\ ~Unclaimed(m)'
            BY <1>3, <2>1, <3>1, <3>2 DEF Unclaimed
        <3>4. QED
            BY <1>11, <3>3
    <2>2. CASE ~free
        <3>1. Set(l, e, free /\ Wanted(e))
            BY <1>14 DEF TakeShift
        <3>2. loop'[l].doing = None
            BY <1>4, <2>2, <3>1
        <3>3. QED
            BY <1>10, <3>2
    <2>3. QED
        BY <2>1, <2>2
<1>15. QED
    BY <1>1, <1>12, <1>13, <1>14

(* An errand ends in a DM, in a mail, in both, or in neither; a row that is *)
(* forgotten is one less that was asked for.                               *)
LEMMA SendsCovered ==
    ASSUME TypeOK, TypeOK', Covered, NEW l \in Loops, GoesOn(l)
    PROVE  Covered'
<1> USE DEF event, people, history
<1>0. loop \in [Loops -> Round] /\ dms \in [Members -> Seq(RowStates)]
      /\ told \in [Members -> Nat] /\ mailed \in [Members -> Nat]
    BY DEF TypeOK
<1>1. PICK m \in Members : m = loop[l].doing.member
    BY ErrandGoesOn
<1>2. /\ UNCHANGED <<kind, claimed, held, marked, asked>>
      /\ \A k \in Loops : loop'[k].at = loop[k].at /\ loop'[k].todo = loop[k].todo
    <2>1. UNCHANGED <<kind, claimed, held, marked, asked>>
        BY DEF GoesOn, SendDM, Confirm, Forget, Mail
    <2>2. QED
        BY <2>1, ErrandGoesOn
<1>3. \A x : (Unclaimed(x)' => Unclaimed(x)) /\ MayList(x)' \subseteq MayList(x)
    BY <1>2, NothingOpens
<1>4. ASSUME NEW x \in Members PROVE Asked(x)' \subseteq Asked(x)
    <2>1. CASE dms' = dms
        BY <2>1 DEF Asked
    <2>2. CASE dms' = [dms EXCEPT ![m] = Append(@, "sent")]
        <3>1. dms[m] \in Seq(RowStates) /\ dms[x] \in Seq(RowStates)
            BY <1>0, <1>1
        <3>2. CASE x = m
            <4>1. dms'[x] = Append(dms[x], "sent")
                BY <1>0, <1>1, <2>2, <3>2
            <4>2. ASSUME NEW n \in DOMAIN dms'[x], dms'[x][n] \in {"later", "due"}
                  PROVE  n \in DOMAIN dms[x] /\ dms[x][n] \in {"later", "due"}
                BY <3>1, <4>1, <4>2
            <4>3. QED
                BY <4>2 DEF Asked
        <3>3. CASE x # m
            BY <1>0, <2>2, <3>3 DEF Asked
        <3>4. QED
            BY <3>2, <3>3
    <2>3. CASE dms' = [dms EXCEPT ![m][loop[l].row] = "gone"]
        BY <1>0, <2>3 DEF Asked
    <2>4. QED
        BY <1>1, <2>1, <2>2, <2>3 DEF GoesOn, SendDM, Confirm, Forget, Mail
<1>5. \A x : Sending(x)' \subseteq Sending(x) /\ Busy(x)' \subseteq Busy(x)
    BY ErrandUsesUp
<1>6. \A x \in Members : Open(x)' <= Open(x)
    BY <1>3, <1>4, OpenShrinks
<1>7. \A x \in Members :
          /\ told'[x] = told[x] \/ (told'[x] = told[x] + 1 /\ \E k \in Sending(x) : k \notin Sending(x)')
          /\ mailed'[x] = mailed[x] \/ (mailed'[x] = mailed[x] + 1 /\ \E k \in Busy(x) : k \notin Busy(x)')
    <2>1. CASE SendDM(l)
        <3>1. l \in Sending(m) /\ l \notin Sending(m)'
            BY <1>1, <2>1, ErrandUsesUp
        <3>2. mailed' = mailed /\ (told' = [told EXCEPT ![m] = @ + 1] \/ told' = told)
            BY <1>1, <2>1 DEF SendDM
        <3>3. CASE told' = told
            BY <3>2, <3>3
        <3>4. CASE told' = [told EXCEPT ![m] = @ + 1]
            <4>1. told'[m] = told[m] + 1 /\ \A x \in Members \ {m} : told'[x] = told[x]
                BY <1>0, <1>1, <3>4
            <4>2. ASSUME NEW x \in Members
                  PROVE  told'[x] = told[x] \/ (told'[x] = told[x] + 1 /\ \E k \in Sending(x) : k \notin Sending(x)')
                BY <3>1, <4>1
            <4>3. QED
                BY <3>2, <4>2
        <3>5. QED
            BY <3>2, <3>3, <3>4
    <2>2. CASE Mail(l)
        <3>2. l \in Busy(m) /\ l \notin Busy(m)'
            BY <1>1, <2>2, ErrandUsesUp
        <3>3. told' = told /\ (mailed' = mailed \/ mailed' = [mailed EXCEPT ![m] = @ + 1])
            BY <1>1, <2>2 DEF Mail
        <3>4. CASE mailed' = mailed
            BY <3>3, <3>4
        <3>5. CASE mailed' = [mailed EXCEPT ![m] = @ + 1]
            <4>1. mailed'[m] = mailed[m] + 1 /\ \A x \in Members \ {m} : mailed'[x] = mailed[x]
                BY <1>0, <1>1, <3>5
            <4>2. ASSUME NEW x \in Members
                  PROVE  mailed'[x] = mailed[x] \/ (mailed'[x] = mailed[x] + 1 /\ \E k \in Busy(x) : k \notin Busy(x)')
                BY <3>2, <4>1
            <4>3. QED
                BY <3>3, <4>2
        <3>6. QED
            BY <3>3, <3>4, <3>5
    <2>3. CASE Confirm(l) \/ Forget(l)
        BY <2>3 DEF Confirm, Forget
    <2>4. QED
        BY <2>1, <2>2, <2>3 DEF GoesOn
<1>8. ASSUME NEW x \in Members
      PROVE  /\ told'[x] + Open(x)' + Cardinality(Sending(x)') + asked[x]
                   <= told[x] + Open(x) + Cardinality(Sending(x)) + asked'[x]
             /\ mailed'[x] + Open(x)' + Cardinality(Busy(x)') + asked[x]
                   <= mailed[x] + Open(x) + Cardinality(Busy(x)) + asked'[x]
    <2>1. TypeOK' => CountsNat'
        BY CountsAreNat, PTL
    <2>2. /\ Open(x) \in Nat /\ Open(x)' \in Nat /\ Open(x)' <= Open(x)
          /\ asked'[x] = asked[x] /\ asked[x] \in Nat
          /\ told[x] \in Nat /\ mailed[x] \in Nat
        BY <1>2, <1>6, <2>1, CountsAreNat DEF CountsNat, TypeOK
    <2>3. /\ Cardinality(Sending(x)') <= Cardinality(Sending(x)) /\ Cardinality(Sending(x)') \in Nat
          /\ Cardinality(Sending(x)) \in Nat
          /\ (\E k \in Sending(x) : k \notin Sending(x)') => Cardinality(Sending(x)') + 1 <= Cardinality(Sending(x))
        <3>1. Sending(x)' \subseteq Sending(x) /\ IsFiniteSet(Sending(x))
            BY <1>5, CountsAreFinite
        <3>2. ASSUME NEW k \in Sending(x), k \notin Sending(x)'
              PROVE  Cardinality(Sending(x)') + 1 <= Cardinality(Sending(x))
            <4>1. Sending(x)' \subseteq Sending(x) \ {k}
                BY <3>1, <3>2
            <4>2. QED
                BY <3>1, <4>1, Loses
        <3>3. QED
            BY <3>1, <3>2, Shrinks
    <2>4. /\ Cardinality(Busy(x)') <= Cardinality(Busy(x)) /\ Cardinality(Busy(x)') \in Nat
          /\ Cardinality(Busy(x)) \in Nat
          /\ (\E k \in Busy(x) : k \notin Busy(x)') => Cardinality(Busy(x)') + 1 <= Cardinality(Busy(x))
        <3>1. Busy(x)' \subseteq Busy(x) /\ IsFiniteSet(Busy(x))
            BY <1>5, CountsAreFinite
        <3>2. ASSUME NEW k \in Busy(x), k \notin Busy(x)'
              PROVE  Cardinality(Busy(x)') + 1 <= Cardinality(Busy(x))
            <4>1. Busy(x)' \subseteq Busy(x) \ {k}
                BY <3>1, <3>2
            <4>2. QED
                BY <3>1, <4>1, Loses
        <3>3. QED
            BY <3>1, <3>2, Shrinks
    <2>5. QED
        BY <1>7, <2>2, <2>3, <2>4
<1>9. QED
    BY <1>2, <1>8, StaysCovered

(* A row a member asks to hear of again, and one more time they asked. *)
LEMMA SnoozesCovered ==
    ASSUME TypeOK, TypeOK', Covered, NEW m \in Members, NEW n \in DOMAIN dms[m], Snooze(m, n)
    PROVE  Covered'
<1> USE DEF event, people, history
<1>1. /\ UNCHANGED <<kind, claimed, held, marked, told, mailed, loop>>
      /\ dms' = [dms EXCEPT ![m][n] = "later"] /\ asked' = [asked EXCEPT ![m] = @ + 1]
    BY DEF Snooze
<1>2. /\ \A x \in Members : asked'[x] = asked[x] + (IF x = m THEN 1 ELSE 0) /\ asked[x] \in Nat
      /\ \A x \in Members \ {m} : dms'[x] = dms[x]
      /\ DOMAIN dms'[m] = DOMAIN dms[m] /\ \A k \in DOMAIN dms[m] \ {n} : dms'[m][k] = dms[m][k]
    <2>1. \A x \in Members : asked'[x] = asked[x] + (IF x = m THEN 1 ELSE 0) /\ asked[x] \in Nat
        <3>1. asked \in [Members -> Nat]
            BY DEF TypeOK
        <3>2. asked'[m] = asked[m] + 1 /\ \A x \in Members \ {m} : asked'[x] = asked[x]
            BY <1>1, <3>1
        <3>3. QED
            BY <3>1, <3>2
    <2>2. \A x \in Members \ {m} : dms'[x] = dms[x]
        BY <1>1 DEF TypeOK
    <2>3. dms'[m] = [dms[m] EXCEPT ![n] = "later"]
        BY <1>1 DEF TypeOK
    <2>4. QED
        BY <2>1, <2>2, <2>3
<1>3. \A x : Unclaimed(x)' = Unclaimed(x) /\ MayList(x)' = MayList(x)
    BY <1>1 DEF Unclaimed, MayList, Listed
<1>4. \A x : Sending(x)' = Sending(x) /\ Busy(x)' = Busy(x)
    BY <1>1 DEF Sending, Busy
<1>5. ASSUME NEW x \in Members PROVE Open(x)' <= Open(x) + (IF x = m THEN 1 ELSE 0)
    <2>1. CASE x = m
        <3>1. Asked(x)' \subseteq Asked(x) \cup {n}
            BY <1>2, <2>1 DEF Asked
        <3>2. /\ Cardinality(Asked(x)') <= Cardinality(Asked(x)) + 1 /\ Cardinality(Asked(x)') \in Nat
              /\ Cardinality(Asked(x)) \in Nat /\ Cardinality(MayList(x)) \in Nat
            BY <3>1, CountsAreFinite, Gains
        <3>3. QED
            BY <1>3, <2>1, <3>2 DEF Open
    <2>2. CASE x # m
        <3>1. Asked(x)' \subseteq Asked(x)
            BY <1>2, <2>2 DEF Asked
        <3>2. Open(x)' <= Open(x)
            BY <1>3, <3>1, OpenShrinks
        <3>3. Open(x) \in Nat
            BY CountsAreNat DEF CountsNat
        <3>4. QED
            BY <2>2, <3>2, <3>3
    <2>3. QED
        BY <2>1, <2>2
<1>6. ASSUME NEW x \in Members
      PROVE  /\ told'[x] + Open(x)' + Cardinality(Sending(x)') + asked[x]
                   <= told[x] + Open(x) + Cardinality(Sending(x)) + asked'[x]
             /\ mailed'[x] + Open(x)' + Cardinality(Busy(x)') + asked[x]
                   <= mailed[x] + Open(x) + Cardinality(Busy(x)) + asked'[x]
    <2>1. TypeOK' => CountsNat'
        BY CountsAreNat, PTL
    <2>2. /\ Open(x) \in Nat /\ Open(x)' \in Nat /\ Cardinality(Sending(x)) \in Nat /\ Cardinality(Busy(x)) \in Nat
          /\ told[x] \in Nat /\ mailed[x] \in Nat
        BY <2>1, CountsAreNat DEF CountsNat, TypeOK
    <2>3. Cardinality(Sending(x)') = Cardinality(Sending(x)) /\ Cardinality(Busy(x)') = Cardinality(Busy(x))
        BY <1>4
    <2>4. told'[x] = told[x] /\ mailed'[x] = mailed[x]
        BY <1>1
    <2>5. QED
        BY <1>2, <1>5, <2>2, <2>3, <2>4
<1>7. QED
    BY <1>1, <1>6, StaysCovered

LEMMA CoveredStep == OnceInv /\ TypeOK' /\ [Next]_vars => Covered'
<1> SUFFICES ASSUME TypeOK, ListsOfKind, Covered, TypeOK', [Next]_vars PROVE Covered'
    BY DEF OnceInv
<1> USE DEF event, people, history
<1>1. ASSUME UNCHANGED <<kind, claimed, told, mailed, asked>>, held' \ marked' \subseteq held \ marked,
             \A m \in Members : Asked(m)' \subseteq Asked(m),
             \A k \in Loops : loop'[k].at = loop[k].at /\ loop'[k].todo \subseteq loop[k].todo,
             \A m : Sending(m)' \subseteq Sending(m) /\ Busy(m)' \subseteq Busy(m)
      PROVE  Covered'
    <2>1. \A m : (Unclaimed(m)' => Unclaimed(m)) /\ MayList(m)' \subseteq MayList(m)
        BY <1>1, NothingOpens
    <2>2. QED
        BY <1>1, <2>1, NothingNew
<1>2. ASSUME UNCHANGED <<kind, claimed, told, mailed, asked, loop>>, held' \ marked' \subseteq held \ marked,
             \A m \in Members : Asked(m)' \subseteq Asked(m)
      PROVE  Covered'
    <2>1. \A m : Sending(m)' \subseteq Sending(m) /\ Busy(m)' \subseteq Busy(m)
        BY <1>2 DEF Sending, Busy
    <2>2. QED
        BY <1>1, <1>2, <2>1
<1>3. ASSUME NEW l \in Loops, Stop(l) PROVE Covered'
    <2>1. /\ UNCHANGED <<kind, claimed, held, marked, dms, told, mailed, asked>>
          /\ \A k \in Loops \ {l} : loop'[k] = loop[k]
          /\ loop'[l].at = "rest" /\ loop'[l].doing = None
        BY <1>3 DEF Stop, Resting, TypeOK
    <2>2. \A m : Sending(m)' \subseteq Sending(m) /\ Busy(m)' \subseteq Busy(m)
        BY <2>1, GoesIdle
    <2>3. ASSUME NEW m PROVE MayList(m)' \subseteq MayList(m)
        <3>1. ASSUME NEW k \in Loops, k # l, k \in MayList(m)' PROVE k \in MayList(m)
            BY <2>1, <3>1 DEF MayList, Listed
        <3>2. ASSUME l \in MayList(m)' PROVE l \in MayList(m)
            BY <2>1, <3>2 DEF MayList, Listed
        <3>3. QED
            BY <3>1, <3>2 DEF MayList
    <2>4. \A m : (Unclaimed(m)' => Unclaimed(m)) /\ Asked(m)' \subseteq Asked(m)
        BY <2>1 DEF Unclaimed, Asked
    <2>5. QED
        BY <2>1, <2>2, <2>3, <2>4, NothingNew
<1>4. ASSUME NEW m \in Members, Mute(m) \/ Unmute(m) \/ Leave(m) PROVE Covered'
    <2>1. /\ UNCHANGED <<kind, claimed, told, mailed, asked, loop, dms>>
          /\ held' \ marked' \subseteq held \ marked
        BY <1>4 DEF Mute, Unmute, Leave
    <2>2. \A x : Asked(x)' \subseteq Asked(x)
        BY <2>1 DEF Asked
    <2>3. QED
        BY <1>2, <2>1, <2>2
<1>5. CASE SetStatus \/ Reschedule \/ Delete \/ DropRow \/ RemovePosts \/ Tick \/ UNCHANGED vars
    <2>1. /\ UNCHANGED <<kind, claimed, told, mailed, asked, loop, dms>>
          /\ held' \ marked' \subseteq held \ marked
        BY <1>5 DEF SetStatus, Reschedule, Delete, DropRow, RemovePosts, Tick, vars
    <2>2. \A x : Asked(x)' \subseteq Asked(x)
        BY <2>1 DEF Asked
    <2>3. QED
        BY <1>2, <2>1, <2>2
<1>6. ASSUME NEW m \in Members, NEW n \in DOMAIN dms[m], ComesDue(m, n) PROVE Covered'
    <2>1. /\ UNCHANGED <<kind, claimed, told, mailed, asked, loop, held, marked>>
          /\ dms' = [dms EXCEPT ![m][n] = "due"] /\ dms[m][n] = "later"
        BY <1>6 DEF ComesDue
    <2>2. \A x \in Members : Asked(x)' \subseteq Asked(x)
        BY <2>1 DEF Asked, TypeOK
    <2>3. QED
        BY <1>2, <2>1, <2>2
<1>7. CASE Click
    BY <1>4, <1>7, SnoozesCovered DEF Click
<1>8. QED
    BY <1>3, <1>5, <1>6, <1>7, MovesCovered, PostingCovered, TakesCovered, SendsCovered DEF Next, Work, Wake, GoesOn

LEMMA CoveredIsEnough == OnceInv => OncePerAsking
<1> SUFFICES ASSUME OnceInv, NEW m \in Members
             PROVE  told[m] <= Fair(m) /\ mailed[m] <= Fair(m)
    BY DEF OncePerAsking, Fair
<1>1. TypeOK /\ Covered
    BY DEF OnceInv
<1>2. Open(m) \in Nat /\ Cardinality(Sending(m)) \in Nat /\ Cardinality(Busy(m)) \in Nat
    BY <1>1, CountsAreNat DEF CountsNat
<1>3. told[m] \in Nat /\ mailed[m] \in Nat /\ Fair(m) \in Nat
    <2>1. Cardinality(Loops) \in Nat
        BY FS_CardinalityType
    <2>2. QED
        BY <1>1, <2>1 DEF TypeOK, Fair
<1>4. told[m] + Open(m) + Cardinality(Sending(m)) <= Fair(m) /\ mailed[m] + Open(m) + Cardinality(Busy(m)) <= Fair(m)
    BY <1>1 DEF Covered
<1>5. QED
    BY <1>2, <1>3, <1>4

-----------------------------------------------------------------------------
(* For any loops, members and bounds, every variable keeps its type, and an *)
(* event that is gone has nobody left who is going or has a shift.          *)
THEOREM TypesHold == Spec => []TypeOK
<1>1. QED
    BY InitTypes, TypesStep, PTL DEF Spec

LEMMA PostInvHolds == Spec => []PostInv
<1>1. Init => PostInv
    BY InitTypes, InitPosts DEF PostInv
<1>2. PostInv /\ [Next]_vars => PostInv'
    BY TypesStep, PostsStep DEF PostInv
<1>3. QED
    BY <1>1, <1>2, PTL DEF Spec

(* However many loops run at once, an event gets one reminder in its channel: *)
(* ReminderService::claim hands the right to post to one of them.             *)
THEOREM PostsOnce == Spec => []PostedOnce
<1>1. PostInv => PostedOnce
    BY DEF PostInv
<1>2. QED
    BY <1>1, PostInvHolds, PTL

(* Deleting the event takes its reminder down, unless a loop was between      *)
(* claiming the event and noting the post, or was cut short there.            *)
THEOREM PostGoes == Spec => []PostGoesWithEvent
<1>1. PostInv => PostGoesWithEvent
    BY DEF PostInv
<1>2. QED
    BY <1>1, PostInvHolds, PTL

(* A member who turned the reminders off gets no more, by DM and mail together, *)
(* than what the errands under way then may still send: the DM if it was still  *)
(* to come, and the mail in its place.  For any number of loops, whatever they  *)
(* had listed, and whichever DMs are lost or arrive without being confirmed.    *)
THEOREM MutesHold == Spec => []MuteIsHeard
<1>1. QED
    BY InitTypes, TypesStep, InitLeeway, LeewayStep, LeewayIsEnough, PTL DEF Spec

(* Each member hears of an event or a shift once, and once more for each time  *)
(* they asked to, by DM as by mail, however many loops work off the lists they *)
(* have read: the claims of the event, the signup and the row pass one errand  *)
(* on.  A loan is marked without a claim, so each loop may remind of it.       *)
THEOREM NobodyIsPestered == Spec => []OncePerAsking
<1>1. Init => OnceInv
    BY InitTypes, InitLists, InitCovered DEF OnceInv
<1>2. OnceInv /\ [Next]_vars => OnceInv'
    BY TypesStep, ListsStep, CoveredStep DEF OnceInv
<1>3. QED
    BY <1>1, <1>2, CoveredIsEnough, PTL DEF Spec
=============================================================================
