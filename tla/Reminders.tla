----------------------------- MODULE Reminders -----------------------------
(***************************************************************************)
(* The reminder loop, the direct messages it sends, and what their buttons *)
(* do.  Members are reminded of an event they are going to (a meeting goes *)
(* the same way), of a shift at it or of a LUG item they have borrowed:    *)
(* these share no rows, so a behaviour is about one kind.                  *)
(*                                                                         *)
(* A round of the loop reads a list at each of its stages and then works   *)
(* it off, with a call to Discord or the mail server per entry, while      *)
(* members click, somebody edits or deletes the event, and time passes.    *)
(* Several rounds may be under way when the server is started a second     *)
(* time ("two runs (or instances)", ReminderService.cpp:21).  Nobody who   *)
(* leaves a shift or returns an item gets it back: that is another row.    *)
(***************************************************************************)
EXTENDS Integers, Sequences, FiniteSets

CONSTANTS
    Loops,       \* reminder loops at work
    Members,
    MaxAsks,     \* a member asks to be reminded later so often, per kind
    MaxStops,    \* rounds cut short by an exception or a restart
    None

ASSUME RemindersAssumption ==
    /\ MaxAsks \in Nat /\ MaxStops \in Nat
    /\ IsFiniteSet(Loops)
    /\ None \notin [member : Members, n : Nat]

VARIABLES
    kind,        \* what the reminders of this behaviour are about
    status,      \* of the event: on, hushed (suppress_discord), cancelled, gone
    phase,       \* of its date, or the event's: far, due (within the lead time), past
    held,        \* who is going, has the shift, has the item
    claimed,     \* lug_events.reminder_sent_at is set
    marked,      \* shift signups and loans whose reminded_at / reminded_on is set
    shown, ref,  \* the reminder post on Discord, and whether chat_posts knows it
    removal,     \* the job that takes the posts down: none, queued, done
    quiet,       \* notification_optouts
    dms,         \* reminder_dms of a member, in the order they were recorded
    loop,        \* where each loop is
    told, mailed, asked, leeway, stops, raced    \* history, for the properties

event == <<status, claimed, shown, ref, removal, raced>>
people == <<held, marked, quiet, dms>>
history == <<told, mailed, asked, leeway>>
vars == <<kind, event, people, history, phase, loop, stops>>

Kinds == {"event", "shift", "loan"}
Stages == {"rest", "loans", "snoozed", "event", "post", "keep", "going", "shifts"}

(* An errand: to remind a member; n is the row of a snoozed DM. *)
Errand == [member : Members, n : Nat]
Errands(k, S) == {[member |-> m, n |-> 0] : m \in {m \in S : kind = k}}
RowStates == {"sent", "later", "due", "again", "gone"}
Rows == 1..(MaxAsks + Cardinality(Loops))

(* todo: what is left of the list; doing: the errand under way, and how far:  *)
(* a DM to send, one that arrived with the id of row, or a mail.              *)
Round == [at : Stages, todo : SUBSET Errand, doing : Errand \cup {None},
          by : {"dm", "there", "mail"}, row : Nat]
Resting == [at |-> "rest", todo |-> {}, doing |-> None, by |-> "dm", row |-> 0]

Init ==
    /\ status = "on" /\ claimed = FALSE
    /\ kind \in Kinds /\ phase \in {"far", "due"}
    /\ held = Members /\ marked = {} /\ quiet = {}
    /\ shown = 0 /\ ref = FALSE /\ removal = "none" /\ raced = FALSE
    /\ dms = [m \in Members |-> <<>>]
    /\ loop = [l \in Loops |-> Resting]
    /\ told = [m \in Members |-> 0] /\ mailed = told /\ asked = told /\ leeway = told
    /\ stops = 0

-----------------------------------------------------------------------------
(* The lists, each read as its stage begins. *)
DueLoans == IF phase = "far" THEN {} ELSE Errands("loan", held \ marked)
DueAgain == {e \in [member : Members, n : Rows] : e.n <= Len(dms[e.member]) /\ dms[e.member][e.n] = "due"}
Going == Errands("event", held)
DueShifts == IF phase = "due" THEN Errands("shift", held \ (marked \cup quiet)) ELSE {}
EventIsDue == kind = "event" /\ status = "on" /\ phase = "due"

Go(l, stage, list) ==
    loop' = [loop EXCEPT ![l] = [at |-> stage, todo |-> list, doing |-> None, by |-> "dm", row |-> 0]]
Done(l) == loop[l].todo = {} /\ loop[l].doing = None

(* run_once and its callers in main, stage after stage. *)
StartRound(l) == loop[l].at = "rest" /\ Go(l, "loans", DueLoans)
LoansDone(l) == loop[l].at = "loans" /\ Done(l) /\ Go(l, "snoozed", DueAgain)
SnoozedDone(l) ==
    /\ loop[l].at = "snoozed" /\ Done(l)
    /\ IF EventIsDue THEN Go(l, "event", {}) ELSE Go(l, "shifts", DueShifts)
GoingDone(l) == loop[l].at = "going" /\ Done(l) /\ Go(l, "shifts", DueShifts)
ShiftsDone(l) == loop[l].at = "shifts" /\ Done(l) /\ loop' = [loop EXCEPT ![l] = Resting]

Move(l) ==
    /\ StartRound(l) \/ LoansDone(l) \/ SnoozedDone(l) \/ GoingDone(l) \/ ShiftsDone(l)
    /\ UNCHANGED <<kind, event, people, history, phase, stops>>

\* Mutant: the event is claimed without asking whether it was.
ClaimEventBlindly(l) ==
    /\ loop[l].at = "event"
    /\ claimed' = TRUE
    /\ raced' = (raced \/ removal = "done")
    /\ Go(l, "post", {})
    /\ UNCHANGED <<kind, status, shown, ref, removal, people, history, phase, stops>>

(* claim: only one round gets the event, and none once its row is gone. *)
ClaimEvent(l) ==
    /\ loop[l].at = "event"
    /\ LET free == ~claimed /\ status # "gone" IN
       /\ claimed' = (claimed \/ free)
       /\ raced' = (raced \/ (free /\ removal = "done"))
       /\ IF free THEN Go(l, "post", {}) ELSE Go(l, "shifts", DueShifts)
    /\ UNCHANGED <<kind, status, shown, ref, removal, people, history, phase, stops>>

(* remind_event: the post may fail, which is not tried again. *)
Post(l) ==
    /\ loop[l].at = "post"
    /\ \/ shown' = shown + 1 /\ Go(l, "keep", {})
       \/ shown' = shown /\ Go(l, "going", Going)
    /\ UNCHANGED <<kind, status, claimed, ref, removal, raced, people, history, phase, stops>>

(* keep_reminder: written whether or not the event is still there. *)
Keep(l) ==
    /\ loop[l].at = "keep"
    /\ ref' = TRUE
    /\ Go(l, "going", Going)
    /\ UNCHANGED <<kind, status, claimed, shown, removal, raced, people, history, phase, stops>>

-----------------------------------------------------------------------------
\* Mutant: the opt-outs are read with the list only.
WantedAnyway(e) == TRUE

(* Working a list off.  notify reads the opt-outs as the errand starts. *)
Wanted(e) == e.member \notin quiet
Set(l, e, goes) ==
    loop' = [loop EXCEPT ![l].todo = @ \ {e}, ![l].doing = IF goes THEN e ELSE None,
                           ![l].by = "dm", ![l].row = 0]

(* LoanReminders marks a loan without asking whether it was marked, or       *)
(* returned, since the list was read.                                        *)
TakeLoan(l, e) ==
    /\ loop[l].at = "loans"
    /\ marked' = marked \cup {e.member}
    /\ Set(l, e, Wanted(e))
    /\ UNCHANGED dms

\* Mutant: the row is set to resent, not claimed.
TakeSnoozedUnclaimed(l, e) ==
    /\ loop[l].at = "snoozed"
    /\ dms' = [dms EXCEPT ![e.member][e.n] = "again"]
    /\ Set(l, e, Wanted(e))
    /\ UNCHANGED marked

\* Mutant: who has muted the kind is passed over before the row is claimed.
TakeSnoozedIfWanted(l, e) ==
    /\ loop[l].at = "snoozed"
    /\ LET free == dms[e.member][e.n] \in {"later", "due"} /\ Wanted(e) IN
       /\ dms' = IF free THEN [dms EXCEPT ![e.member][e.n] = "again"] ELSE dms
       /\ Set(l, e, free)
    /\ UNCHANGED marked

(* send_snoozed: claims the row, whatever it is a reminder of. *)
TakeSnoozed(l, e) ==
    /\ loop[l].at = "snoozed"
    /\ LET free == dms[e.member][e.n] \in {"later", "due"} IN
       /\ dms' = IF free THEN [dms EXCEPT ![e.member][e.n] = "again"] ELSE dms
       /\ Set(l, e, free /\ Wanted(e))
    /\ UNCHANGED marked

TakeGoing(l, e) ==
    /\ loop[l].at = "going"
    /\ Set(l, e, Wanted(e))
    /\ UNCHANGED <<marked, dms>>

(* claim_reminder: the signup is still there and not marked. *)
TakeShift(l, e) ==
    /\ loop[l].at = "shifts"
    /\ LET free == e.member \in held \ marked IN
       /\ marked' = IF free THEN marked \cup {e.member} ELSE marked
       /\ Set(l, e, free /\ Wanted(e))
    /\ UNCHANGED dms

Take(l) ==
    /\ loop[l].doing = None
    /\ \E e \in loop[l].todo : TakeLoan(l, e) \/ TakeSnoozed(l, e) \/ TakeGoing(l, e) \/ TakeShift(l, e)
    /\ UNCHANGED <<kind, event, held, quiet, history, phase, stops>>

(* What reaches a member who has muted the kind was under way when they did. *)
Spent(m) == leeway' = [leeway EXCEPT ![m] = @ - (IF m \in quiet THEN 1 ELSE 0)]
Errs(l, by) == loop[l].doing # None /\ loop[l].by = by
Quits(l) == loop' = [loop EXCEPT ![l].doing = None, ![l].by = "dm", ![l].row = 0]

(* record_dm and direct_message: the DM carries the id of a row of its own in *)
(* its buttons, which nobody sees before it arrives ...                       *)
SendDM(l) ==
    /\ Errs(l, "dm")
    /\ LET m == loop[l].doing.member IN
       \/ /\ dms' = [dms EXCEPT ![m] = Append(@, "sent")]
          /\ told' = [told EXCEPT ![m] = @ + 1]
          /\ Spent(m)
          /\ loop' = [loop EXCEPT ![l].by = "there", ![l].row = Len(dms[m]) + 1]
       \/ /\ loop' = [loop EXCEPT ![l].by = "mail"]
          /\ UNCHANGED <<dms, told, leeway>>
    /\ UNCHANGED <<kind, event, held, marked, quiet, mailed, asked, phase, stops>>

(* ... Discord confirms it ... *)
Confirm(l) ==
    /\ Errs(l, "there")
    /\ Quits(l)
    /\ UNCHANGED <<kind, event, people, history, phase, stops>>

(* ... or its answer is lost: forget_dm deletes the row, whatever was clicked *)
(* meanwhile, and the reminder is mailed as well.                             *)
Forget(l) ==
    /\ Errs(l, "there")
    /\ dms' = [dms EXCEPT ![loop[l].doing.member][loop[l].row] = "gone"]
    /\ loop' = [loop EXCEPT ![l].by = "mail", ![l].row = 0]
    /\ UNCHANGED <<kind, event, held, marked, quiet, history, phase, stops>>

(* Unless there is no address, or the member wants no emails; whether they    *)
(* have muted the kind since is not asked.                                    *)
Mail(l) ==
    /\ Errs(l, "mail")
    /\ LET m == loop[l].doing.member IN
       \/ mailed' = [mailed EXCEPT ![m] = @ + 1] /\ Spent(m)
       \/ UNCHANGED <<mailed, leeway>>
    /\ Quits(l)
    /\ UNCHANGED <<kind, event, people, told, asked, phase, stops>>

(* An exception, or a restart: what was claimed stays claimed. *)
Stop(l) ==
    /\ stops < MaxStops /\ loop[l].at # "rest"
    /\ stops' = stops + 1
    /\ raced' = (raced \/ loop[l].at = "keep")
    /\ loop' = [loop EXCEPT ![l] = Resting]
    /\ UNCHANGED <<kind, status, claimed, shown, ref, removal, people, history, phase>>

(* The errands under way for a member, and those whose DM is still to come. *)
Busy(m) == {l \in Loops : loop[l].doing # None /\ loop[l].doing.member = m}
Sending(m) == {l \in Busy(m) : loop[l].by = "dm"}

-----------------------------------------------------------------------------
(* ReminderActions: the buttons of a DM, old ones and second clicks included. *)
(* A snooze is also refused shortly before the start.                         *)
Snooze(m, n) ==
    /\ asked[m] < MaxAsks
    /\ phase # "past"
    /\ dms[m][n] # "gone"
    /\ dms' = [dms EXCEPT ![m][n] = "later"]
    /\ asked' = [asked EXCEPT ![m] = @ + 1]
    /\ UNCHANGED <<kind, event, held, marked, quiet, told, mailed, leeway, phase, loop, stops>>

(* Also under My Account, and by the link of an email. *)
Mute(m) ==
    /\ m \notin quiet
    /\ quiet' = quiet \cup {m}
    /\ leeway' = [leeway EXCEPT ![m] = Cardinality(Sending(m)) + Cardinality(Busy(m))]
    /\ UNCHANGED <<kind, event, held, marked, dms, told, mailed, asked, phase, loop, stops>>
Unmute(m) ==
    /\ m \in quiet
    /\ quiet' = quiet \ {m}
    /\ leeway' = [leeway EXCEPT ![m] = 0]
    /\ UNCHANGED <<kind, event, held, marked, dms, told, mailed, asked, phase, loop, stops>>

(* rsvp_off, shift_off, or the item is brought back. *)
Leave(m) ==
    /\ m \in held
    /\ phase # "past"
    /\ held' = held \ {m}
    /\ marked' = marked \ {m}
    /\ UNCHANGED <<kind, event, quiet, dms, history, phase, loop, stops>>

Click ==
    \/ \E m \in Members : \E n \in DOMAIN dms[m] : Snooze(m, n)
    \/ \E m \in Members : Mute(m) \/ Unmute(m) \/ Leave(m)

(* Saving the event (a loan has none): status, suppress_discord and the start *)
(* time.                                                                      *)
SetStatus ==
    /\ status # "gone" /\ kind # "loan"
    /\ status' \in {"on", "hushed", "cancelled"} \ {status}
    /\ UNCHANGED <<kind, claimed, shown, ref, removal, raced, people, history, phase, loop, stops>>
Reschedule ==
    /\ status # "gone" /\ removal = "none" /\ kind # "loan"
    /\ phase' \in {"far", "due"} \ {phase}
    /\ UNCHANGED <<kind, event, people, history, loop, stops>>

(* Deleting it: the posts by a job of their own, before the row or after. *)
Delete ==
    /\ status # "gone" /\ removal = "none" /\ kind # "loan"
    /\ removal' = "queued"
    /\ UNCHANGED <<kind, status, claimed, shown, ref, raced, people, history, phase, loop, stops>>

\* Mutant: the row alone, without the cascade.
DropRowAlone ==
    /\ status # "gone" /\ removal # "none"
    /\ status' = "gone"
    /\ UNCHANGED <<kind, claimed, shown, ref, removal, raced, people, history, phase, loop, stops>>

DropRow ==
    /\ status # "gone" /\ removal # "none"
    /\ status' = "gone"
    /\ held' = {} /\ marked' = {}
    /\ UNCHANGED <<kind, claimed, shown, ref, removal, raced, quiet, dms, history, phase, loop, stops>>

\* Mutant: the reminder is forgotten without being removed.
RemovePostsForgets ==
    /\ removal = "queued"
    /\ removal' = "done"
    /\ ref' = FALSE
    /\ raced' = (raced \/ \E l \in Loops : loop[l].at \in {"event", "post", "keep"})
    /\ UNCHANGED <<kind, status, claimed, shown, people, history, phase, loop, stops>>

RemovePosts ==
    /\ removal = "queued"
    /\ removal' = "done"
    /\ shown' = IF ref THEN 0 ELSE shown
    /\ ref' = FALSE
    /\ raced' = (raced \/ \E l \in Loops : loop[l].at \in {"event", "post", "keep"})
    /\ UNCHANGED <<kind, status, claimed, people, history, phase, loop, stops>>

(* Time passes: a date comes nearer, or the moment a member asked for comes. *)
Tick ==
    /\ \/ phase = "far" /\ phase' = "due"
       \/ phase = "due" /\ kind # "loan" /\ phase' = "past"
    /\ UNCHANGED <<kind, event, people, history, loop, stops>>
ComesDue(m, n) ==
    /\ dms[m][n] = "later"
    /\ dms' = [dms EXCEPT ![m][n] = "due"]
    /\ UNCHANGED <<kind, event, held, marked, quiet, history, phase, loop, stops>>
Wake(m) == \E n \in DOMAIN dms[m] : ComesDue(m, n)

-----------------------------------------------------------------------------
Work(l) == Move(l) \/ ClaimEvent(l) \/ Post(l) \/ Keep(l) \/ Take(l)
           \/ SendDM(l) \/ Confirm(l) \/ Forget(l) \/ Mail(l)

Next ==
    \/ \E l \in Loops : Work(l) \/ Stop(l)
    \/ Click \/ SetStatus \/ Reschedule \/ Delete \/ DropRow \/ RemovePosts \/ Tick \/ \E m \in Members : Wake(m)

(* Every loop goes on, and time does. *)
Fairness ==
    /\ \A l \in Loops : WF_vars(Work(l))
    /\ \A m \in Members : WF_vars(Wake(m))

Spec == Init /\ [][Next]_vars /\ Fairness

-----------------------------------------------------------------------------
TypeOK ==
    /\ status \in {"on", "hushed", "cancelled", "gone"}
    /\ kind \in Kinds /\ phase \in {"far", "due", "past"}
    /\ held \subseteq Members /\ marked \subseteq Members /\ quiet \subseteq Members
    /\ claimed \in BOOLEAN /\ shown \in Nat /\ ref \in BOOLEAN /\ raced \in BOOLEAN
    /\ removal \in {"none", "queued", "done"}
    /\ dms \in [Members -> Seq(RowStates)]
    /\ loop \in [Loops -> Round]
    /\ told \in [Members -> Nat] /\ mailed \in [Members -> Nat] /\ asked \in [Members -> Nat]
    /\ leeway \in [Members -> Int]
    /\ stops \in 0..MaxStops
    /\ status = "gone" => held = {}

(* A member hears of an event or a shift once, and once more for each time    *)
(* they asked to; the same holds for the mail that stands in for a DM.  Only  *)
(* a loan is reminded of by every loop: its mark is not a claim.              *)
OncePerAsking ==
    \A m \in Members :
        LET fair == asked[m] + (IF kind = "loan" THEN Cardinality(Loops) ELSE 1) IN
        told[m] <= fair /\ mailed[m] <= fair

(* However many rounds overlap, the channel gets one reminder. *)
PostedOnce == shown <= 1

(* After "Don't remind me" nothing more comes, by DM or by mail, but what the *)
(* errands under way at that moment still send: the DM, and the mail in place *)
(* of one that was not confirmed.  The lists the loops had read send nothing. *)
MuteIsHeard == \A m \in Members : leeway[m] >= 0

(* Deleting an event takes its reminder along, unless a round was just        *)
(* posting it, or was cut short before it could note the post.                *)
PostGoesWithEvent == removal = "done" /\ shown > 0 => raced

(* "I'll remind you again": the row is taken up, however rounds are cut       *)
(* short, by a loop that goes on to remind the member unless they have muted  *)
(* it; or it is lost, but only by the loop that sent the DM it is the row of, *)
(* when Discord did not confirm a DM that had arrived and been answered.      *)
Snoozed(m, n) == n \in DOMAIN dms[m] /\ dms[m][n] \in {"later", "due"}
TakenUp(m, n) == \E l \in Loops : m \notin quiet => loop'[l].doing = [member |-> m, n |-> n]
LostWithIt(m, n) == \E l \in Busy(m) : loop[l].by = "there" /\ loop[l].row = n
SnoozeIsKept ==
    /\ \A m \in Members : []<>(\A n \in DOMAIN dms[m] : ~Snoozed(m, n))
    /\ [][\A m \in Members : \A n \in DOMAIN dms[m] :
             Snoozed(m, n) /\ ~Snoozed(m, n)' => TakenUp(m, n) \/ LostWithIt(m, n)]_vars

(* Cancelled items are skipped: no list of event or shift reminders that is   *)
(* read while the event is cancelled names anybody.                           *)
CancelledAreSkipped ==
    [][\A l \in Loops :
           status = "cancelled" /\ kind # "loan" /\ loop'[l].at # loop[l].at => loop'[l].todo = {}]_vars
=============================================================================
