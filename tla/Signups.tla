------------------------------ MODULE Signups ------------------------------
(***************************************************************************)
(* Who is coming to one event: RSVPs, the capacity and the waitlist.       *)
(*                                                                         *)
(* A click reads the event's row (its capacity among it), then the         *)
(* clicker's RSVP, and only then starts a transaction; the transaction     *)
(* decides with the capacity read at the beginning.  Four paths lead here: *)
(* the page's button, the button under a Discord announcement, the button  *)
(* under a reminder, and a manager removing someone.  Meanwhile the event  *)
(* is edited or deleted and members are deleted or merged.                 *)
(*                                                                         *)
(* The order of (created_at, id) is kept as a relation: ahead[m] is the    *)
(* set of the members signed up before m.  Row times never go backwards.   *)
(***************************************************************************)
EXTENDS Naturals, FiniteSets

CONSTANTS
    Members,      \* member records
    Threads,      \* request threads
    Capacities,   \* the capacities an organiser may set
    NoOne         \* not a member

ASSUME SignupsAssumption ==
    /\ IsFiniteSet(Members)
    /\ Capacities \subseteq Nat \ {0}
    /\ NoOne \notin Members

VARIABLES
    there,     \* the event's row exists
    phase,     \* of its signup: "open", "closed" (deadline), "over" (or cancelled)
    max,       \* its capacity; 0 is unlimited
    present,   \* the member records that exist
    status,    \* each member's RSVP
    ahead,     \* who signed up before them
    thread,    \* what each request thread is doing
    peak,      \* history: the roomiest capacity the event has had
    edited,    \* history: the capacity has been changed
    freed,     \* history: room appeared by something else than a cancellation
    unaware    \* history: moved off the waitlist and not told yet

vars == <<there, phase, max, present, status, ahead, thread, peak, edited, freed, unaware>>
event == <<there, phase, max>>
history == <<peak, edited, freed>>

Phases == {"open", "closed", "over"}
Paths == {"page", "announcement", "reminder", "manager", "edit"}
Limits == Capacities \cup {0}

Idle == [pc |-> "idle", path |-> "page", who |-> NoOne, max |-> 0, phase |-> "over"]
Thread == [pc : {"idle", "decide", "rsvp", "cancel", "tell", "write"}, path : Paths,
           who : Members \cup {NoOne}, max : Limits, phase : Phases]

With(s) == {m \in Members : status[m] = s}
Going == With("going")
Waiting == With("waitlist")
SignedUp == Going \cup Waiting

Roomier(n, k) == n = 0 \/ (k # 0 /\ n >= k)
HasRoom(n, seats) == n = 0 \/ Cardinality(seats) < n

Init ==
    /\ there = TRUE
    /\ phase = "open"
    /\ max \in Limits
    /\ present = Members
    /\ status = [m \in Members |-> "none"]
    /\ ahead = [m \in Members |-> {}]
    /\ thread = [t \in Threads |-> Idle]
    /\ peak = max
    /\ edited = FALSE
    /\ freed = FALSE
    /\ unaware = {}

Rest(t) == thread' = [thread EXCEPT ![t] = Idle]

(* The clicker's request starts: it reads the event's row.  A removal goes   *)
(* straight to the transaction; the announcement's button gives up when the  *)
(* event is cancelled or over.                                               *)
Click(t, path, m) ==
    /\ thread[t].pc = "idle"
    /\ there
    /\ path # "manager" => m \in present
    /\ path = "announcement" => phase # "over"
    /\ thread' = [thread EXCEPT ![t] =
                    [pc |-> IF path = "manager" THEN "cancel" ELSE "decide",
                     path |-> path, who |-> m, max |-> max,
                     phase |-> IF path = "manager" THEN Idle.phase ELSE phase]]
    /\ UNCHANGED <<event, present, status, ahead, history, unaware>>

(* Then the clicker's RSVP: there is one to take back, ... *)
DecideCancel(t) ==
    /\ thread[t].pc = "decide"
    /\ status[thread[t].who] # "none"
    /\ thread' = [thread EXCEPT ![t].pc = "cancel", ![t].phase = Idle.phase]
    /\ UNCHANGED <<event, present, status, ahead, history, unaware>>

(* ... or one to make while signup is open, ... *)
DecideRsvp(t) ==
    /\ thread[t].pc = "decide"
    /\ thread[t].path # "reminder"
    /\ status[thread[t].who] = "none"
    /\ thread[t].phase = "open"
    /\ thread' = [thread EXCEPT ![t].pc = "rsvp"]
    /\ UNCHANGED <<event, present, status, ahead, history, unaware>>

(* ... or nothing: signup is closed, a reminder's button has no RSVP to take *)
(* back, or it is refused because the event has begun.                       *)
DecideNothing(t) ==
    /\ thread[t].pc = "decide"
    /\ \/ thread[t].path = "reminder"
       \/ status[thread[t].who] = "none" /\ thread[t].phase # "open"
    /\ Rest(t)
    /\ UNCHANGED <<event, present, status, ahead, history, unaware>>

Seat(m, s) ==
    /\ status' = [status EXCEPT ![m] = s]
    /\ ahead' = [ahead EXCEPT ![m] = SignedUp]

\* Mutant of Rsvp: the last seat is given out twice.
RsvpOneTooMany(t) ==
    LET q == thread[t] IN
    /\ q.pc = "rsvp"
    /\ IF there /\ q.who \in present /\ status[q.who] = "none"
       THEN Seat(q.who, IF q.max = 0 \/ Cardinality(Going) <= q.max THEN "going" ELSE "waitlist")
       ELSE UNCHANGED <<status, ahead>>
    /\ Rest(t)
    /\ UNCHANGED <<event, present, history, unaware>>

\* Mutant of Rsvp: a second click replaces the row (and its place in the line).
RsvpReplaces(t) ==
    LET q == thread[t] IN
    /\ q.pc = "rsvp"
    /\ IF there /\ q.who \in present
       THEN /\ status' = [status EXCEPT ![q.who] =
                            IF HasRoom(q.max, Going \ {q.who}) THEN "going" ELSE "waitlist"]
            /\ ahead' = [m \in Members |->
                            IF m = q.who THEN SignedUp \ {m} ELSE ahead[m] \ {q.who}]
       ELSE UNCHANGED <<status, ahead>>
    /\ Rest(t)
    /\ UNCHANGED <<event, present, history, unaware>>

(* RsvpRepository::rsvp: an RSVP that is there stays as it is; the insert    *)
(* fails when the event or the member is gone.                               *)
Rsvp(t) ==
    LET q == thread[t] IN
    /\ q.pc = "rsvp"
    /\ IF there /\ q.who \in present /\ status[q.who] = "none"
       THEN Seat(q.who, IF HasRoom(q.max, Going) THEN "going" ELSE "waitlist")
       ELSE UNCHANGED <<status, ahead>>
    /\ Rest(t)
    /\ UNCHANGED <<event, present, history, unaware>>

\* Mutant of Gone: the row stays counted ahead of others.
GoneAlone(m) == [ahead EXCEPT ![m] = {}]

(* The row of m goes, and nobody waits behind it any more. *)
Gone(m) == [x \in Members |-> IF x = m THEN {} ELSE ahead[x] \ {m}]

\* Mutant of CancelOnly: nobody moves up although there is a seat and somebody waits.
CancelForgets(t) ==
    LET q == thread[t] IN
    /\ q.pc = "cancel"
    /\ status' = [status EXCEPT ![q.who] = "none"]
    /\ ahead' = Gone(q.who)
    /\ unaware' = unaware \ {q.who}
    /\ Rest(t)
    /\ UNCHANGED <<event, present, history>>

(* RsvpRepository::cancel, when nobody moves up: nothing was there, no seat  *)
(* is free, or nobody waits.                                                 *)
CancelOnly(t) ==
    LET q == thread[t] IN
    /\ q.pc = "cancel"
    /\ status[q.who] = "going" /\ Waiting # {} => ~HasRoom(q.max, Going \ {q.who})
    /\ status' = [status EXCEPT ![q.who] = "none"]
    /\ ahead' = Gone(q.who)
    /\ unaware' = unaware \ {q.who}
    /\ Rest(t)
    /\ UNCHANGED <<event, present, history>>

First(w) == w \in Waiting /\ ahead[w] \cap Waiting = {}

\* Mutant of MoveUp: the newest on the waitlist moves up.
MoveUpLatest(t, w) ==
    LET q == thread[t] IN
    /\ q.pc = "cancel"
    /\ status[q.who] = "going"
    /\ HasRoom(q.max, Going \ {q.who})
    /\ w \in Waiting /\ Waiting \subseteq ahead[w] \cup {w}
    /\ status' = [status EXCEPT ![q.who] = "none", ![w] = "going"]
    /\ ahead' = Gone(q.who)
    /\ unaware' = (unaware \ {q.who}) \cup {w}
    /\ thread' = [thread EXCEPT ![t] = [Idle EXCEPT !.pc = "tell", !.who = w]]
    /\ UNCHANGED <<event, present, history>>

\* Mutant of MoveUp: a manager's removal tells nobody.
MoveUpSilently(t, w) ==
    LET q == thread[t] IN
    /\ q.pc = "cancel"
    /\ status[q.who] = "going"
    /\ HasRoom(q.max, Going \ {q.who})
    /\ First(w)
    /\ status' = [status EXCEPT ![q.who] = "none", ![w] = "going"]
    /\ ahead' = Gone(q.who)
    /\ unaware' = (unaware \ {q.who}) \cup {w}
    /\ thread' = [thread EXCEPT ![t] =
                    IF q.path = "manager" THEN Idle ELSE [Idle EXCEPT !.pc = "tell", !.who = w]]
    /\ UNCHANGED <<event, present, history>>

(* ... and when the member who waits longest does. *)
MoveUp(t, w) ==
    LET q == thread[t] IN
    /\ q.pc = "cancel"
    /\ status[q.who] = "going"
    /\ HasRoom(q.max, Going \ {q.who})
    /\ First(w)
    /\ status' = [status EXCEPT ![q.who] = "none", ![w] = "going"]
    /\ ahead' = Gone(q.who)
    /\ unaware' = (unaware \ {q.who}) \cup {w}
    /\ thread' = [thread EXCEPT ![t] = [Idle EXCEPT !.pc = "tell", !.who = w]]
    /\ UNCHANGED <<event, present, history>>

(* notify_promoted, after the transaction. *)
Tell(t) ==
    /\ thread[t].pc = "tell"
    /\ unaware' = unaware \ {thread[t].who}
    /\ Rest(t)
    /\ UNCHANGED <<event, present, status, ahead, history>>

-----------------------------------------------------------------------------
(* What happens around the clicks. *)

(* An organiser edits the event: EventService::update reads the row, ... *)
EditRead(t) ==
    /\ thread[t].pc = "idle"
    /\ there
    /\ thread' = [thread EXCEPT ![t] = [Idle EXCEPT !.pc = "write", !.path = "edit", !.max = max]]
    /\ UNCHANGED <<event, present, status, ahead, history, unaware>>

(* ... and writes it back whole: with the capacity it read, or a new one.    *)
(* Nobody is moved up, whatever the new capacity.                            *)
EditWrite(t, n) ==
    /\ thread[t].pc = "write"
    /\ n \in Capacities \cup {thread[t].max}
    /\ max' = IF there THEN n ELSE max
    /\ peak' = IF Roomier(peak, max') THEN peak ELSE max'
    /\ edited' = (edited \/ max' # max)
    /\ freed' = (freed \/ ~Roomier(max, max'))
    /\ Rest(t)
    /\ UNCHANGED <<there, phase, present, status, ahead, unaware>>

(* The deadline and the last day pass or are moved; the event is called off. *)
SetPhase(p) ==
    /\ there
    /\ phase # p
    /\ phase' = p
    /\ UNCHANGED <<there, max, present, status, ahead, thread, history, unaware>>

(* Rows that reference an event or a member go with it (migration 047). *)
DeleteEvent ==
    /\ there
    /\ there' = FALSE
    /\ status' = [m \in Members |-> "none"]
    /\ ahead' = [m \in Members |-> {}]
    /\ unaware' = {}
    /\ UNCHANGED <<phase, max, present, thread, history>>

DeleteMember(m) ==
    /\ m \in present
    /\ present' = present \ {m}
    /\ status' = [status EXCEPT ![m] = "none"]
    /\ ahead' = Gone(m)
    /\ unaware' = unaware \ {m}
    /\ freed' = (freed \/ (status[m] = "going" /\ Waiting # {}))
    /\ UNCHANGED <<event, thread, peak, edited>>

(* MemberMerge::merge: the dropped record's RSVP moves to the kept one, ... *)
Rename(S, drop, keep) == IF drop \in S THEN (S \ {drop}) \cup {keep} ELSE S

MergeMoves(keep, drop) ==
    /\ {keep, drop} \subseteq present /\ keep # drop
    /\ status[keep] = "none"
    /\ status' = [status EXCEPT ![keep] = status[drop], ![drop] = "none"]
    /\ ahead' = [m \in Members |->
                    IF m = drop THEN {}
                    ELSE IF m = keep THEN ahead[drop] ELSE Rename(ahead[m], drop, keep)]
    /\ present' = present \ {drop}
    /\ unaware' = unaware \ {drop}
    /\ UNCHANGED <<event, thread, history>>

(* ... unless that one has its own, which wins. *)
MergeKeeps(keep, drop) ==
    /\ {keep, drop} \subseteq present /\ keep # drop
    /\ status[keep] # "none"
    /\ status' = [status EXCEPT ![drop] = "none"]
    /\ ahead' = Gone(drop)
    /\ present' = present \ {drop}
    /\ unaware' = unaware \ {drop}
    /\ freed' = (freed \/ (status[drop] = "going" /\ Waiting # {}))
    /\ UNCHANGED <<event, thread, peak, edited>>

-----------------------------------------------------------------------------
Step(t) ==
    \/ \E path \in Paths \ {"edit"}, m \in Members : Click(t, path, m)
    \/ DecideCancel(t) \/ DecideRsvp(t) \/ DecideNothing(t)
    \/ Rsvp(t) \/ CancelOnly(t) \/ \E w \in Members : MoveUp(t, w)
    \/ Tell(t)
    \/ EditRead(t) \/ \E n \in Limits : EditWrite(t, n)

Around ==
    \/ \E p \in Phases : SetPhase(p)
    \/ DeleteEvent
    \/ \E m \in Members : DeleteMember(m)
    \/ \E keep, drop \in Members : MergeMoves(keep, drop) \/ MergeKeeps(keep, drop)

Next == (\E t \in Threads : Step(t)) \/ Around

Spec == Init /\ [][Next]_vars

-----------------------------------------------------------------------------
(* Properties *)

Types ==
    /\ there \in BOOLEAN
    /\ phase \in Phases
    /\ {max, peak} \subseteq Limits
    /\ present \subseteq Members
    /\ status \in [Members -> {"none", "going", "waitlist"}]
    /\ ahead \in [Members -> SUBSET Members]
    /\ thread \in [Threads -> Thread]
    /\ \A t \in Threads : thread[t].pc \notin {"idle", "write"} => thread[t].who \in Members
    /\ {edited, freed} \subseteq BOOLEAN
    /\ unaware \subseteq Members

OneLine ==
    /\ SignedUp \subseteq (IF there THEN present ELSE {})
    /\ \A m \in Members : ahead[m] \subseteq (IF m \in SignedUp THEN SignedUp \ {m} ELSE {})
    /\ \A m, n \in SignedUp : m # n => (m \in ahead[n] <=> n \notin ahead[m])

(* Every variable has its type, only records that exist have an RSVP, and    *)
(* the RSVPs stand in one line: no two of them in the same place.            *)
TypeOK == Types /\ OneLine

(* There are never more seats taken than the event ever had, however clicks, *)
(* edits and merges overlap ("two last-spot RSVPs could both get in").       *)
NoOverbooking == peak # 0 => Cardinality(Going) <= peak

(* Nobody waits while there is a seat, unless room was made by an edit, by   *)
(* deleting a member or by a merge, none of which moves anybody up.          *)
NoIdleSeat == ~freed /\ HasRoom(max, Going) => Waiting = {}

(* The seats went to those who signed up first, while the capacity is as it  *)
(* was: whoever holds a seat signed up before whoever waits.                 *)
SeatsInOrder ==
    ~freed /\ ~edited => \A g \in Going, w \in Waiting : g \in ahead[w]

(* Nobody is moved up in silence: whichever path freed the seat, a thread is *)
(* about to tell whoever got it.                                             *)
NoSilentMove == \A m \in unaware : \E t \in Threads : thread[t].pc = "tell" /\ thread[t].who = m

(* Somebody who waits never slips back in the line, whoever leaves, joins or *)
(* is merged (RsvpRepository::waitlist_position).                            *)
Place(m) == Cardinality(ahead[m] \cap Waiting)
PlaceNeverSlips ==
    [][\A m \in Members : m \in Waiting /\ m \in Waiting' => Place(m)' <= Place(m)]_vars

(* A cancelled seat goes to the next person, and a seat that is free is      *)
(* nobody's to wait for: what the feature list promises, without exceptions. *)
WaitlistMovesUp == HasRoom(max, Going) => Waiting = {}
=============================================================================
