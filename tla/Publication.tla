---------------------------- MODULE Publication ----------------------------
(***************************************************************************)
(* One LUG event on its way to Discord and to Google Calendar.             *)
(*                                                                         *)
(* A request thread edits the event's row (EventService) and hands a job   *)
(* to the pool of workers; the job talks to Discord (ChatHub) and to the   *)
(* calendar, one remote call at a time, and writes the ids it gets back    *)
(* into the row.  Nothing orders two jobs of the same event.               *)
(*                                                                         *)
(* The contents of an event are abstracted to a version number; versions   *)
(* remembers, for each version ever written, the fields the pipeline       *)
(* branches on.  A remote object is [id, kind, ver]: ver is the version it *)
(* shows.                                                                  *)
(*                                                                         *)
(* A remote call about a kind of object in MayFail may fail, whether it    *)
(* creates, edits or removes; a failed creation may have made its object   *)
(* all the same.  The code logs the failure and goes on as if nothing had  *)
(* happened, so history keeps what the row then knows nothing of.          *)
(***************************************************************************)
EXTENDS Naturals, Sequences, FiniteSets

CONSTANTS
    Workers,     \* threads of the pool
    Requests,    \* request threads
    Choices,     \* the contents an author may write: [scope, supD, supC]
    Switched,    \* the Discord parts whose switch is on
    MayFail,     \* the kinds of objects whose remote calls may fail
    HasForum,    \* threads are opened in a forum (else from the announcement)
    WithSync,    \* an admin may press "Send everything to Google Calendar"
    Patient,     \* requests wait until everything handed over is done
    MaxVer,      \* bound: versions written
    MaxId        \* bound: ids handed out before the last lost answer

Parts == {"thread", "announce", "scheduled", "chapter"}
Kinds == Parts \cup {"calendar"}
Content == [scope : {"lug", "chap"}, supD : BOOLEAN, supC : BOOLEAN]

NoRef == 0
Picked == 1      \* the thread a member of staff may pick ...
PickedThread == [id |-> Picked, kind |-> "thread", ver |-> 0]   \* ... on Discord from the start

ASSUME PublicationAssumption ==
    /\ Choices \subseteq Content
    /\ Switched \subseteq Parts
    /\ MayFail \subseteq Kinds
    /\ {HasForum, WithSync, Patient} \subseteq BOOLEAN
    /\ MaxVer \in Nat \ {0} /\ MaxId \in Nat

VARIABLES
    row,        \* the event's row: [live, ver, refs, owned]
    versions,   \* what each version written said
    queue,      \* jobs waiting in the pool
    worker,     \* what each worker is doing
    request,    \* what each request thread is doing
    remote,     \* what exists on Discord and in the calendar
    nextId,     \* the next id a service hands out
    history     \* [left, behind, missed, notes]: see History

vars == <<row, versions, queue, worker, request, remote, nextId, history>>

NoRefs == [k \in Kinds |-> NoRef]
NoRow == [live |-> FALSE, ver |-> 0, refs |-> NoRefs, owned |-> TRUE]
NoJob == [kind |-> "none", before |-> 0, upd |-> 0, refs |-> NoRefs, owned |-> TRUE]
IdleWorker == [pc |-> "idle", job |-> NoJob, now |-> 0, refs |-> NoRefs,
               owned |-> TRUE, todo |-> {}, made |-> NoRef, forum |-> HasForum]
IdleRequest == [pc |-> "idle", seen |-> NoRow, says |-> 0, thread |-> NoRef, made |-> NoRef]

Refs == [Kinds -> 0..nextId]
Row == [live : BOOLEAN, ver : 0..MaxVer, refs : Refs, owned : BOOLEAN]
Job == [kind : {"none", "publish", "change", "remove"}, before : 0..MaxVer,
        upd : 0..MaxVer, refs : Refs, owned : BOOLEAN]
Busy == {"find", "refs", "edit", "move", "unref", "takedown", "clear", "post",
         "save", "own", "link", "note", "calendar", "calsave"}
WorkerState == [pc : Busy \cup {"idle"}, job : Job, now : 0..MaxVer, refs : Refs,
                owned : BOOLEAN, todo : SUBSET Parts, made : 0..nextId, forum : BOOLEAN]
RequestState == [pc : {"idle", "disown", "write", "enqueue", "removal", "calendar", "delete",
                       "push", "keep"},
                 seen : Row, says : 0..MaxVer, thread : 0..nextId, made : 0..nextId]
Object == [id : 1..nextId, kind : Kinds, ver : 0..MaxVer]

\* left: threads replaced by another one on purpose, objects whose removal failed, and
\*       objects made by a call whose answer was lost;
\* behind: objects whose last edit failed;
\* missed: kinds whose last creation failed;
\* notes: update notes, each in a thread and of a version; nobody keeps their ids.
Note == [thread : 1..nextId, ver : 0..MaxVer]
History == [left : SUBSET (1..nextId), behind : SUBSET (1..nextId), missed : SUBSET Kinds,
            notes : SUBSET Note]

TypeOK ==
    /\ row \in Row
    /\ versions \in Seq(Content) /\ Len(versions) <= MaxVer
    /\ queue \in Seq(Job)
    /\ worker \in [Workers -> WorkerState]
    /\ request \in [Requests -> RequestState]
    /\ remote \subseteq Object
    /\ nextId \in Nat
    /\ history \in History
    /\ \A w \in Workers : worker[w].pc = "idle" => worker[w] = IdleWorker

Init ==
    /\ row = NoRow
    /\ versions = <<>>
    /\ queue = <<>>
    /\ worker = [w \in Workers |-> IdleWorker]
    /\ request = [r \in Requests |-> IdleRequest]
    /\ remote = {PickedThread}
    /\ nextId = Picked
    /\ history = [left |-> {}, behind |-> {}, missed |-> {}, notes |-> {}]

-----------------------------------------------------------------------------

Says(v) == versions[v]
Quiet == /\ queue = <<>>
         /\ \A w \in Workers : worker[w].pc = "idle"
         /\ \A r \in Requests : request[r].pc = "idle"
MayStart(r) == request[r].pc = "idle" /\ (Patient => Quiet)

Live(ids) == {o \in remote : o.id \in ids}
Without(ids) == {o \in remote : o.id \notin ids}
Showing(ids, v) == Without(ids) \cup {[o EXCEPT !.ver = v] : o \in Live(ids)}
Make(k, v) == [id |-> nextId + 1, kind |-> k, ver |-> v]

-----------------------------------------------------------------------------
(* The remote calls. *)

Refused(ids) == SUBSET {o.id : o \in {x \in Live(ids) : x.kind \in MayFail}}

(* What an edit fails on goes on showing what it showed. *)
EditAll(ids, v) ==
    \E kept \in Refused(ids) :
        /\ remote' = Showing(ids \ kept, v)
        /\ history' = [history EXCEPT !.behind = (@ \ ids) \cup kept]

(* What a removal fails on stays; a thread takes its notes with it. *)
RemoveAll(ids) ==
    \E kept \in Refused(ids) :
        /\ remote' = Without(ids \ kept)
        /\ history' = [history EXCEPT !.left = @ \cup kept, !.behind = @ \ ids,
                                      !.notes = {n \in @ : n.thread \notin ids \ kept}]

(* A creation answers with the new id, nextId'. *)
Created(k, v) ==
    /\ remote' = remote \cup {Make(k, v)}
    /\ nextId' = nextId + 1
    /\ history' = [history EXCEPT !.missed = @ \ {k}]

(* A failed one makes nothing, or something nobody will know the id of. *)
MakeFails(k, v) ==
    /\ k \in MayFail
    /\ \/ /\ history' = [history EXCEPT !.missed = @ \cup {k}]
          /\ UNCHANGED <<remote, nextId>>
       \/ /\ nextId < MaxId
          /\ remote' = remote \cup {Make(k, v)}
          /\ nextId' = nextId + 1
          /\ history' = [history EXCEPT !.missed = @ \cup {k}, !.left = @ \cup {nextId + 1}]

-----------------------------------------------------------------------------
(* The row's columns. *)

(* UPDATE ... WHERE id=?: no row, no effect. *)
SaveRef(k, id) == row' = IF row.live THEN [row EXCEPT !.refs[k] = id] ELSE row
SaveOwned(b) == row' = IF row.live THEN [row EXCEPT !.owned = b] ELSE row
ForgetRefs(ks) ==
    row' = IF row.live
           THEN [row EXCEPT !.refs = [k \in Kinds |-> IF k \in ks THEN NoRef ELSE @[k]]]
           ELSE row

-----------------------------------------------------------------------------
(* Request threads: EventService. *)

Goto(r, pc) == request' = [request EXCEPT ![r].pc = pc]
Done(r) == request' = [request EXCEPT ![r] = IdleRequest]

(* create: the row and its job.  A thread picked on the form is not ours. *)
Create(r) ==
    /\ MayStart(r) /\ versions = <<>>
    /\ \E c \in Choices, thread \in {NoRef, Picked} :
         /\ versions' = <<c>>
         /\ row' = [live |-> TRUE, ver |-> 1, owned |-> thread = NoRef,
                    refs |-> [NoRefs EXCEPT !["thread"] = thread]]
         /\ queue' = Append(queue, [NoJob EXCEPT !.kind = "publish", !.upd = 1])
    /\ UNCHANGED <<worker, request, remote, nextId, history>>

(* update, up to find_by_id: the snapshot the whole row is rewritten from.   *)
UpdateRead(r) ==
    /\ MayStart(r) /\ row.live /\ Len(versions) < MaxVer
    /\ \E c \in Choices, thread \in {row.refs["thread"], Picked} :
         /\ versions' = Append(versions, c)
         /\ request' = [request EXCEPT ![r] =
              [pc |-> IF thread = row.refs["thread"] THEN "write" ELSE "disown",
               seen |-> row, says |-> Len(versions) + 1, thread |-> thread, made |-> NoRef]]
    /\ UNCHANGED <<row, queue, worker, remote, nextId, history>>

\* Mutant of Disown: the ownership of a picked thread is not cleared.
DisownForgotten(r) ==
    /\ request[r].pc = "disown"
    /\ Goto(r, "write")
    /\ history' = [history EXCEPT !.left = @ \cup ({request[r].seen.refs["thread"]} \ {NoRef})]
    /\ UNCHANGED <<row, versions, queue, worker, remote, nextId>>

(* update, a thread picked: set_thread_owned(id, false). *)
Disown(r) ==
    /\ request[r].pc = "disown"
    /\ SaveOwned(FALSE)
    /\ Goto(r, "write")
    /\ history' = [history EXCEPT !.left = @ \cup ({request[r].seen.refs["thread"]} \ {NoRef})]
    /\ UNCHANGED <<versions, queue, worker, remote, nextId>>

(* update, repo_.update and the event's days: every column of the UPDATE, the *)
(* thread and the scheduled event among them, takes the snapshot's value.  On *)
(* a row deleted meanwhile the days violate their foreign key and it throws.  *)
UpdateWrite(r) ==
    LET q == request[r] IN
    /\ q.pc = "write"
    /\ IF row.live
       THEN /\ row' = [row EXCEPT !.ver = q.says, !.refs["thread"] = q.thread,
                                  !.refs["scheduled"] = q.seen.refs["scheduled"]]
            /\ Goto(r, "enqueue")
       ELSE row' = row /\ Done(r)
    /\ UNCHANGED <<versions, queue, worker, remote, nextId, history>>

(* update, run_external: the job captures the rows before and after. *)
UpdateEnqueue(r) ==
    LET q == request[r] IN
    /\ q.pc = "enqueue"
    /\ queue' = Append(queue, [kind |-> "change", before |-> q.seen.ver, upd |-> q.says,
                               refs |-> q.seen.refs, owned |-> q.seen.owned])
    /\ Done(r)
    /\ UNCHANGED <<row, versions, worker, remote, nextId, history>>

(* cancel, find_by_id: what is removed are the ids the row has now. *)
CancelRead(r) ==
    /\ MayStart(r) /\ row.live
    /\ request' = [request EXCEPT ![r] = [IdleRequest EXCEPT !.pc = "removal", !.seen = row]]
    /\ UNCHANGED <<row, versions, queue, worker, remote, nextId, history>>

(* cancel, is_thread_owned (true of a row that is gone) and run_external. *)
CancelEnqueue(r) ==
    LET seen == request[r].seen IN
    /\ request[r].pc = "removal"
    /\ queue' = Append(queue, [kind |-> "remove", before |-> seen.ver, upd |-> seen.ver,
                               refs |-> seen.refs, owned |-> row.live => row.owned])
    /\ Goto(r, "calendar")
    /\ UNCHANGED <<row, versions, worker, remote, nextId, history>>

(* cancel, delete_event: it swallows its errors. *)
CancelCalendar(r) ==
    /\ request[r].pc = "calendar"
    /\ RemoveAll({request[r].seen.refs["calendar"]})
    /\ Goto(r, "delete")
    /\ UNCHANGED <<row, versions, queue, worker, nextId>>

CancelDelete(r) ==
    /\ request[r].pc = "delete"
    /\ row' = NoRow
    /\ Done(r)
    /\ UNCHANGED <<versions, queue, worker, remote, nextId, history>>

(* sync_all_to_google_calendar, for this event: find_all ... *)
SyncRead(r) ==
    /\ WithSync /\ MayStart(r) /\ row.live
    /\ request' = [request EXCEPT ![r] = [IdleRequest EXCEPT !.pc = "push", !.seen = row]]
    /\ UNCHANGED <<row, versions, queue, worker, remote, nextId, history>>

(* ... create its entry, or fail to ... *)
SyncCreate(r) ==
    LET seen == request[r].seen IN
    /\ request[r].pc = "push" /\ seen.refs["calendar"] = NoRef
    /\ Created("calendar", seen.ver)
    /\ request' = [request EXCEPT ![r].pc = "keep", ![r].made = nextId + 1]
    /\ UNCHANGED <<row, versions, queue, worker>>

SyncCreateFails(r) ==
    LET seen == request[r].seen IN
    /\ request[r].pc = "push" /\ seen.refs["calendar"] = NoRef
    /\ MakeFails("calendar", seen.ver)
    /\ Done(r)
    /\ UNCHANGED <<row, versions, queue, worker>>

(* ... or update it ... *)
SyncUpdate(r) ==
    LET seen == request[r].seen IN
    /\ request[r].pc = "push" /\ seen.refs["calendar"] # NoRef
    /\ EditAll({seen.refs["calendar"]}, seen.ver)
    /\ Done(r)
    /\ UNCHANGED <<row, versions, queue, worker, nextId>>

(* ... and keep the new id. *)
SyncKeep(r) ==
    /\ request[r].pc = "keep"
    /\ SaveRef("calendar", request[r].made)
    /\ Done(r)
    /\ UNCHANGED <<versions, queue, worker, remote, nextId, history>>

-----------------------------------------------------------------------------
(* Workers: the jobs, and the ChatHub calls they make. *)

\* Mutant of Rest: the worker keeps the job it has finished.
RestHolding(w) == worker' = [worker EXCEPT ![w].pc = "idle"]

Become(w, new) == worker' = [worker EXCEPT ![w] = new]
Step(w, pc) == worker' = [worker EXCEPT ![w].pc = pc]
Rest(w) == Become(w, IdleWorker)

(* ThreadPool::worker_loop: the oldest job. *)
Take(w) ==
    /\ worker[w].pc = "idle" /\ queue # <<>>
    /\ queue' = Tail(queue)
    /\ LET job == Head(queue) IN
       Become(w, [IdleWorker EXCEPT !.pc = IF job.kind = "remove" THEN "takedown" ELSE "find",
                                    !.job = job, !.refs = job.refs, !.owned = job.owned])
    /\ UNCHANGED <<row, versions, request, remote, nextId, history>>

\* Mutant of Intent: a new event is published by what its author first asked.
IntentAsCreated(job, now) ==
    IF job.kind = "publish"
    THEN IF Says(job.upd).supD THEN "nothing" ELSE "publish"
    ELSE CASE ~Says(job.before).supD /\ Says(now).supD -> "remove"
           [] Says(job.before).supD /\ ~Says(now).supD -> "publish"
           [] ~Says(job.before).supD /\ ~Says(now).supD -> "update"
           [] OTHER -> "nothing"

(* What the change from one version to another asks of ChatHub. *)
Intent(job, now) ==
    LET hidden == Says(now).supD IN
    IF job.kind = "publish"
    THEN IF hidden \/ Says(job.upd).supD THEN "nothing" ELSE "publish"
    ELSE CASE ~Says(job.before).supD /\ hidden -> "remove"
           [] Says(job.before).supD /\ ~hidden -> "publish"
           [] ~Says(job.before).supD /\ ~hidden -> "update"
           [] OTHER -> "nothing"

\* Mutant of Find: a job whose event is gone is put back for later.
FindRequeues(w) ==
    /\ worker[w].pc = "find"
    /\ IF ~row.live
       THEN Rest(w) /\ queue' = Append(queue, worker[w].job)
       ELSE /\ worker' = [worker EXCEPT ![w].now = row.ver, ![w].pc =
                 IF Intent(worker[w].job, row.ver) = "nothing" THEN "calendar" ELSE "refs"]
            /\ UNCHANGED queue
    /\ UNCHANGED <<row, versions, request, remote, nextId, history>>

(* The job's own find_by_id: publishing stops when the event is gone, an     *)
(* update still goes on to the calendar.                                     *)
Find(w) ==
    LET job == worker[w].job IN
    /\ worker[w].pc = "find"
    /\ IF ~row.live
       THEN IF job.kind = "publish" THEN Rest(w) ELSE Step(w, "calendar")
       ELSE worker' = [worker EXCEPT ![w].now = row.ver,
              ![w].pc = IF Intent(job, row.ver) = "nothing" THEN "calendar" ELSE "refs"]
    /\ UNCHANGED <<row, versions, queue, request, remote, nextId, history>>

(* publish_event: what an event not yet on Discord still needs there. *)
PublishPlan(refs, now) ==
    Switched \ ((IF refs["thread"] = NoRef THEN {} ELSE {"thread"})
                  \cup (IF Says(now).scope = "chap" THEN {} ELSE {"chapter"})
                  \cup (IF HasForum \/ "announce" \in Switched THEN {} ELSE {"thread"}))

(* update_event, the event moved: one announcement, in the new place. *)
MovePlan(now) == Switched \cap {IF Says(now).scope = "lug" THEN "announce" ELSE "chapter"}

(* publish_event's order: the discussion thread first, where it has a forum. *)
Place(forum) == [thread |-> IF forum THEN 1 ELSE 2, announce |-> IF forum THEN 2 ELSE 1,
                 scheduled |-> 3, chapter |-> 4]
First(q) == CHOOSE p \in q.todo : \A x \in q.todo : Place(q.forum)[p] <= Place(q.forum)[x]

(* After the posts: an update leaves a note, then comes the calendar. *)
NextPc(q, todo) ==
    IF todo # {} THEN "post"
    ELSE IF Intent(q.job, q.now) = "update" THEN "note" ELSE "calendar"

(* The hub's own look at where the posts are. *)
LookUp(w) ==
    LET i == Intent(worker[w].job, worker[w].now)
        plan == IF i = "publish" THEN PublishPlan(row.refs, worker[w].now) ELSE {}
    IN
    /\ worker[w].pc = "refs"
    /\ worker' = [worker EXCEPT ![w].refs = row.refs, ![w].owned = row.owned, ![w].todo = plan,
         ![w].pc = CASE i = "publish" -> NextPc(worker[w], plan)
                     [] i = "remove" -> "takedown"
                     [] OTHER -> "edit"]
    /\ UNCHANGED <<row, versions, queue, request, remote, nextId, history>>

Moved(w) == Says(worker[w].job.before).scope # Says(worker[w].now).scope
OwnThread(w) == IF worker[w].owned THEN {worker[w].refs["thread"]} ELSE {}
Announcements(w, v) ==
    {worker[w].refs["announce"]}
      \cup (IF Says(v).scope = "chap" THEN {worker[w].refs["chapter"]} ELSE {})

\* Mutant of Edit: announcements are not edited when the event stays in place.
EditScheduledOnly(w) ==
    /\ worker[w].pc = "edit"
    /\ EditAll({worker[w].refs["scheduled"]} \cup OwnThread(w), worker[w].now)
    /\ Step(w, IF Moved(w) THEN "move" ELSE "note")
    /\ UNCHANGED <<row, versions, queue, request, nextId>>

(* update_event, the edits in place. *)
Edit(w) ==
    /\ worker[w].pc = "edit"
    /\ EditAll({worker[w].refs["scheduled"]} \cup OwnThread(w)
                  \cup (IF Moved(w) THEN {} ELSE Announcements(w, worker[w].now)),
               worker[w].now)
    /\ Step(w, IF Moved(w) THEN "move" ELSE "note")
    /\ UNCHANGED <<row, versions, queue, request, nextId>>

\* Mutant of Move: looks for the old announcements where the event is now.
MoveFromNewPlace(w) ==
    /\ worker[w].pc = "move"
    /\ RemoveAll(Announcements(w, worker[w].now))
    /\ Step(w, "unref")
    /\ UNCHANGED <<row, versions, queue, request, nextId>>

(* update_event, the event moved: the old announcements come down, or not ... *)
Move(w) ==
    /\ worker[w].pc = "move"
    /\ RemoveAll(Announcements(w, worker[w].job.before))
    /\ Step(w, "unref")
    /\ UNCHANGED <<row, versions, queue, request, nextId>>

(* ... and are forgotten either way, before the new one is posted. *)
Unref(w) ==
    LET plan == MovePlan(worker[w].now) IN
    /\ worker[w].pc = "unref"
    /\ ForgetRefs({"announce", "chapter"})
    /\ worker' = [worker EXCEPT ![w].todo = plan, ![w].pc = NextPc(worker[w], plan)]
    /\ UNCHANGED <<versions, queue, request, remote, nextId, history>>

\* Mutant of Takedown: the scheduled event stays.
TakedownPostsOnly(w) ==
    /\ worker[w].pc = "takedown"
    /\ RemoveAll(OwnThread(w) \cup Announcements(w, worker[w].job.before))
    /\ Step(w, "clear")
    /\ UNCHANGED <<row, versions, queue, request, nextId>>

(* remove_event: everything the hub knows of, but not a thread someone picked ... *)
Takedown(w) ==
    /\ worker[w].pc = "takedown"
    /\ RemoveAll({worker[w].refs["scheduled"]} \cup OwnThread(w)
                    \cup Announcements(w, worker[w].job.before))
    /\ Step(w, "clear")
    /\ UNCHANGED <<row, versions, queue, request, nextId>>

\* Mutant of Clear: the ids of what was removed stay in the row.
ClearForgotten(w) ==
    /\ worker[w].pc = "clear"
    /\ IF worker[w].job.kind = "remove" THEN Rest(w) ELSE Step(w, "calendar")
    /\ UNCHANGED <<row, versions, queue, request, remote, nextId, history>>

(* ... and its ids, whatever became of the removals. *)
Clear(w) ==
    /\ worker[w].pc = "clear"
    /\ ForgetRefs(Parts)
    /\ IF worker[w].job.kind = "remove" THEN Rest(w) ELSE Step(w, "calendar")
    /\ UNCHANGED <<versions, queue, request, remote, nextId, history>>

(* One remote call that creates something: it answers with an id ... *)
Post(w) ==
    /\ worker[w].pc = "post"
    /\ Created(First(worker[w]), worker[w].now)
    /\ worker' = [worker EXCEPT ![w].made = nextId + 1, ![w].pc = "save"]
    /\ UNCHANGED <<row, versions, queue, request>>

(* ... or fails, and the hub goes on: a thread the forum refused is started  *)
(* from the announcement, if there will be one; without an announcement      *)
(* there is nothing to start a thread from.                                  *)
PostFails(w) ==
    LET q == worker[w]
        p == First(q)
        fallsBack == p = "thread" /\ q.forum /\ "announce" \in q.todo
        rest == q.todo \ IF fallsBack THEN {}
                         ELSE IF p = "announce" /\ ~q.forum THEN {p, "thread"} ELSE {p}
    IN
    /\ q.pc = "post"
    /\ MakeFails(p, q.now)
    /\ worker' = [worker EXCEPT ![w].todo = rest, ![w].pc = NextPc(q, rest),
                                ![w].forum = @ /\ ~fallsBack]
    /\ UNCHANGED <<row, versions, queue, request>>

(* save_ref, then for a thread save_owned. *)
Save(w) ==
    LET q == worker[w]
        p == First(q)
        rest == q.todo \ {p}
    IN
    /\ q.pc = "save"
    /\ SaveRef(p, q.made)
    /\ worker' = [worker EXCEPT ![w].todo = rest, ![w].refs[p] = q.made, ![w].made = NoRef,
                                ![w].pc = IF p = "thread" THEN "own" ELSE NextPc(q, rest)]
    /\ UNCHANGED <<versions, queue, request, remote, nextId, history>>

Own(w) ==
    /\ worker[w].pc = "own"
    /\ SaveOwned(TRUE)
    /\ Step(w, IF worker[w].forum THEN NextPc(worker[w], worker[w].todo) ELSE "link")
    /\ UNCHANGED <<versions, queue, request, remote, nextId, history>>

(* The announcement a thread was started from gets its link. *)
Link(w) ==
    /\ worker[w].pc = "link"
    /\ EditAll({worker[w].refs["announce"]}, worker[w].now)
    /\ Step(w, NextPc(worker[w], worker[w].todo))
    /\ UNCHANGED <<row, versions, queue, request, nextId>>

(* update_event: a note in the thread, a picked one too, unless the switch    *)
(* is off, the caller asked for silence, or the call fails.  Its id is not    *)
(* kept.                                                                     *)
LeaveNote(w) ==
    /\ worker[w].pc = "note"
    /\ \E said \in SUBSET Live({worker[w].refs["thread"]}) :
         history' = [history EXCEPT !.notes = @ \cup
                        {[thread |-> o.id, ver |-> worker[w].now] : o \in said}]
    /\ Step(w, "calendar")
    /\ UNCHANGED <<row, versions, queue, request, remote, nextId>>

(* The job's calendar half: it goes by the row it captured. *)
CalendarCreate(w) ==
    LET job == worker[w].job IN
    /\ worker[w].pc = "calendar"
    /\ ~Says(job.upd).supC /\ job.refs["calendar"] = NoRef
    /\ Created("calendar", job.upd)
    /\ worker' = [worker EXCEPT ![w].made = nextId + 1, ![w].pc = "calsave"]
    /\ UNCHANGED <<row, versions, queue, request>>

CalendarCreateFails(w) ==
    LET job == worker[w].job IN
    /\ worker[w].pc = "calendar"
    /\ ~Says(job.upd).supC /\ job.refs["calendar"] = NoRef
    /\ MakeFails("calendar", job.upd)
    /\ Rest(w)
    /\ UNCHANGED <<row, versions, queue, request>>

CalendarUpdate(w) ==
    LET job == worker[w].job IN
    /\ worker[w].pc = "calendar"
    /\ ~Says(job.upd).supC /\ job.refs["calendar"] # NoRef
    /\ EditAll({job.refs["calendar"]}, job.upd)
    /\ Rest(w)
    /\ UNCHANGED <<row, versions, queue, request, nextId>>

(* delete_event swallows its errors: the id is cleared all the same. *)
CalendarDelete(w) ==
    LET job == worker[w].job IN
    /\ worker[w].pc = "calendar"
    /\ Says(job.upd).supC
    /\ RemoveAll({job.refs["calendar"]})
    /\ IF job.refs["calendar"] = NoRef THEN Rest(w) ELSE Step(w, "calsave")
    /\ UNCHANGED <<row, versions, queue, request, nextId>>

(* update_google_calendar_event_id *)
CalendarSave(w) ==
    /\ worker[w].pc = "calsave"
    /\ SaveRef("calendar", worker[w].made)
    /\ Rest(w)
    /\ UNCHANGED <<versions, queue, request, remote, nextId, history>>

-----------------------------------------------------------------------------
RequestStep(r) ==
    \/ Create(r) \/ UpdateRead(r) \/ CancelRead(r) \/ SyncRead(r)
    \/ Disown(r) \/ UpdateWrite(r) \/ UpdateEnqueue(r)
    \/ CancelEnqueue(r) \/ CancelCalendar(r) \/ CancelDelete(r)
    \/ SyncCreate(r) \/ SyncCreateFails(r) \/ SyncUpdate(r) \/ SyncKeep(r)

(* What a request does once it has started. *)
RequestGoesOn(r) ==
    \/ Disown(r) \/ UpdateWrite(r) \/ UpdateEnqueue(r)
    \/ CancelEnqueue(r) \/ CancelCalendar(r) \/ CancelDelete(r)
    \/ SyncCreate(r) \/ SyncCreateFails(r) \/ SyncUpdate(r) \/ SyncKeep(r)

WorkerStep(w) ==
    \/ Take(w) \/ Find(w) \/ LookUp(w)
    \/ Edit(w) \/ Move(w) \/ Unref(w) \/ Takedown(w) \/ Clear(w)
    \/ Post(w) \/ PostFails(w) \/ Save(w) \/ Own(w) \/ Link(w) \/ LeaveNote(w)
    \/ CalendarCreate(w) \/ CalendarCreateFails(w) \/ CalendarUpdate(w)
    \/ CalendarDelete(w) \/ CalendarSave(w)

Next ==
    \/ \E r \in Requests : RequestStep(r)
    \/ \E w \in Workers : WorkerStep(w)

(* Threads that have something to do are scheduled. *)
Fairness ==
    /\ \A r \in Requests : WF_vars(RequestGoesOn(r))
    /\ \A w \in Workers : WF_vars(WorkerStep(w))

Spec == Init /\ [][Next]_vars /\ Fairness

-----------------------------------------------------------------------------
(* Properties *)

Referenced == {row.refs[k] : k \in Kinds}
Ours == {o \in remote : o.id # Picked /\ o.id \notin history.left}
Noted == {n.thread : n \in history.notes}

(* Deleting an event removes its Discord posts, its Discord event and its    *)
(* calendar entry (EventService::cancel, and what the delete button says),   *)
(* whichever calls failed before.  What stays is what a removal of its own   *)
(* failed on, what a call made whose answer never came, and a thread         *)
(* replaced by a picked one; update notes stay in those and in the picked.   *)
NothingLeftBehind ==
    Quiet /\ versions # <<>> /\ ~row.live =>
        Ours = {} /\ Noted \subseteq {Picked} \cup history.left

(* Once everything handed over is done, the row knows of everything else we  *)
(* made: a failed creation or edit never makes it forget an object that can  *)
(* still be edited and removed, and an update note goes with its thread.     *)
NoOrphans ==
    Quiet => /\ \A o \in Ours : o.id \in Referenced
             /\ Noted \subseteq Referenced \cup {Picked} \cup history.left

(* ... and everything the row knows of exists and shows its current version, *)
(* unless the edit meant to make it show that failed: the next edit of the   *)
(* event catches up.                                                         *)
KeptInStep ==
    Quiet /\ row.live =>
        \A k \in Kinds : row.refs[k] \notin {NoRef, Picked} =>
            \E o \in remote : /\ o.id = row.refs[k] /\ o.kind = k
                              /\ o.ver = row.ver \/ o.id \in history.behind

(* ... and is where the row wants it: a Discord event if and only if Discord *)
(* isn't suppressed, a calendar entry unless the calendar is (an admin's     *)
(* "Send everything" goes past that switch), or the call that should have    *)
(* made it failed.                                                           *)
ShownAsAsked ==
    Quiet /\ row.live =>
        /\ row.refs["scheduled"] # NoRef => ~Says(row.ver).supD
        /\ "scheduled" \in Switched /\ row.refs["scheduled"] = NoRef =>
              Says(row.ver).supD \/ "scheduled" \in history.missed
        /\ row.refs["calendar"] = NoRef => Says(row.ver).supC \/ "calendar" \in history.missed

(* Nothing on Discord, an update note neither, shows a version its author    *)
(* kept off Discord, and nothing in the calendar one kept off the calendar,  *)
(* whatever overlaps and fails (but an admin's "Send everything" goes past   *)
(* the calendar's switch).                                                   *)
NeverShowsSuppressed ==
    /\ \A o \in remote \ {PickedThread} :
          IF o.kind = "calendar" THEN WithSync \/ ~Says(o.ver).supC ELSE ~Says(o.ver).supD
    /\ \A n \in history.notes : ~Says(n.ver).supD

(* A thread someone picked is never renamed, rewritten or deleted by us; all *)
(* it gets are update notes.                                                 *)
PickedThreadUntouched == PickedThread \in remote

(* Every job handed over is carried out, and the pool comes to rest. *)
EventuallyQuiet == <>[]Quiet
=============================================================================
