-------------------------- MODULE PublicationProofs --------------------------
(***************************************************************************)
(* What is proved of Publication for any pool, any request threads, any    *)
(* switches and any failures.                                              *)
(*                                                                         *)
(* Whatever overlaps: the types, and NeverShowsSuppressed, from the        *)
(* invariant Consistent.  When requests find the pool at rest (Patient):   *)
(* the five properties of the pipeline at rest, from the invariant Phase,  *)
(* which says what holds at each step of the one job or request under way. *)
(***************************************************************************)
EXTENDS Publication, SequenceTheorems, TLAPS

-----------------------------------------------------------------------------
(* The invariant of overlapping jobs: an id found anywhere is of the kind it *)
(* is used as, a version named anywhere was written, a worker on its way to  *)
(* show a version read that Discord isn't suppressed in it, and an update    *)
(* note stands in a thread that exists.                                      *)

Known(v) == v \in 1..Len(versions)
Open(v) == Known(v) /\ ~Says(v).supD

Fits(id, k) == \A o \in remote : o.id = id => o.kind = k
RefsFit(refs) == \A k \in Kinds : Fits(refs[k], k)
JobKnown(job) == Known(job.upd) /\ (job.kind # "publish" => Known(job.before))

WorkerFits(q) ==
    /\ RefsFit(q.refs) /\ RefsFit(q.job.refs)
    /\ q.pc = "save" => Fits(q.made, First(q))
    /\ q.pc = "calsave" => Fits(q.made, "calendar")
    /\ q.pc \notin {"save", "calsave"} => q.made = NoRef
    /\ q.pc # "idle" => JobKnown(q.job)
    /\ q.pc = "refs" => Known(q.now) /\ Intent(q.job, q.now) # "nothing"
    /\ q.pc \in {"edit", "move", "unref", "post", "save", "own", "link", "note"} => Open(q.now)
    /\ q.pc \in {"post", "save"} => q.todo # {}

RequestFits(q) ==
    /\ RefsFit(q.seen.refs) /\ Fits(q.thread, "thread")
    /\ q.pc = "keep" => Fits(q.made, "calendar")
    /\ q.pc # "idle" => Known(q.seen.ver)
    /\ q.pc \in {"disown", "write", "enqueue"} => Known(q.says)
    /\ q.pc \in {"push", "keep"} => WithSync

ObjectFits(o) ==
    /\ Known(o.ver)
    /\ IF o.kind = "calendar" THEN WithSync \/ ~Says(o.ver).supC ELSE ~Says(o.ver).supD

Contents == \A o \in remote \ {PickedThread} : ObjectFits(o)
NotesFit == \A n \in history.notes : Open(n.ver) /\ \E o \in remote : o.id = n.thread
Objects == Contents /\ history \in History /\ NotesFit
RowFits == RefsFit(row.refs) /\ (row.live => Known(row.ver))
QueueFits == \A i \in 1..Len(queue) : RefsFit(queue[i].refs) /\ JobKnown(queue[i])

Consistent ==
    /\ TypeOK
    /\ Fits(Picked, "thread") /\ nextId >= Picked
    /\ RowFits
    /\ QueueFits
    /\ \A w \in Workers : WorkerFits(worker[w])
    /\ \A r \in Requests : RequestFits(request[r])
    /\ Objects

-----------------------------------------------------------------------------
(* Lemmas about the model's operators. *)

LEMMA FirstIsOne ==
    ASSUME NEW q, q.todo \in SUBSET Parts, q.todo # {}
    PROVE  First(q) \in q.todo
<1> DEFINE early == IF q.forum THEN "thread" ELSE "announce"
           late  == IF q.forum THEN "announce" ELSE "thread"
           first == IF early \in q.todo THEN early ELSE IF late \in q.todo THEN late
                    ELSE IF "scheduled" \in q.todo THEN "scheduled" ELSE "chapter"
<1>1. /\ Place(q.forum)[early] = 1 /\ Place(q.forum)[late] = 2
      /\ Place(q.forum)["scheduled"] = 3 /\ Place(q.forum)["chapter"] = 4
    BY DEF Place
<1>2. Parts = {early, late, "scheduled", "chapter"}
    BY DEF Parts
<1>3. first \in q.todo
    BY <1>2
<1>4. \A p \in q.todo : Place(q.forum)[first] <= Place(q.forum)[p]
    BY <1>1, <1>2, <1>3
<1> QED  BY <1>3, <1>4 DEF First

\* After the last post comes the note or the calendar.
LEMMA WhatIsNext ==
    ASSUME NEW q, NEW todo
    PROVE  /\ NextPc(q, todo) \in {"post", "note", "calendar"}
           /\ NextPc(q, todo) = "post" <=> todo # {}
BY DEF NextPc

(* A service hands out new ids: nothing typed by the old ones is lost. *)
LEMMA TypesGrow ==
    ASSUME nextId \in Nat, nextId' \in Nat, nextId <= nextId'
    PROVE  /\ Refs \subseteq Refs' /\ Row \subseteq Row' /\ Job \subseteq Job'
           /\ WorkerState \subseteq WorkerState' /\ RequestState \subseteq RequestState'
           /\ Object \subseteq Object' /\ Seq(Job) \subseteq Seq(Job)'
           /\ History \subseteq History'
           /\ 1..nextId \subseteq 1..nextId'
<1>1. 0..nextId \subseteq 0..nextId' /\ 1..nextId \subseteq 1..nextId'
    OBVIOUS
<1>2. Refs \subseteq Refs'
    BY <1>1 DEF Refs
<1>3. Row \subseteq Row' /\ Job \subseteq Job'
    BY <1>2 DEF Row, Job
<1>4. WorkerState \subseteq WorkerState' /\ RequestState \subseteq RequestState'
    BY <1>1, <1>2, <1>3 DEF WorkerState, RequestState
<1>5. Object \subseteq Object'
    BY <1>1 DEF Object
<1>6. Seq(Job) \subseteq Seq(Job)'
    BY <1>3
<1>7. Note \subseteq Note'
    BY <1>1 DEF Note
<1>8. History \subseteq History'
    BY <1>1, <1>7 DEF History
<1> QED  BY <1>1, <1>2, <1>3, <1>4, <1>5, <1>6, <1>8

LEMMA KnownBounded ==
    ASSUME TypeOK
    PROVE  \A v : Known(v) => v \in 0..MaxVer
<1>1. Len(versions) \in Nat /\ MaxVer \in Nat /\ Len(versions) <= MaxVer
    BY PublicationAssumption DEF TypeOK
<1> QED  BY <1>1 DEF Known

(* What every step does to what is kept elsewhere: objects may go, change    *)
(* their version or be added with a new id, and versions are only added.     *)
Calm ==
    /\ nextId' \in Nat /\ nextId <= nextId'
    /\ remote' \subseteq Object'
    /\ \A o \in remote' : o.id > nextId \/ \E p \in remote : p.id = o.id /\ p.kind = o.kind
    /\ versions' \in Seq(Content) /\ Len(versions') <= MaxVer
    /\ Len(versions) <= Len(versions')
    /\ \A v \in 1..Len(versions) : versions'[v] = versions[v]

LEMMA Stays ==
    ASSUME TypeOK, Calm
    PROVE  /\ \A id \in 0..nextId, k \in Kinds : Fits(id, k) => Fits(id, k)'
           /\ \A refs \in Refs : RefsFit(refs) => RefsFit(refs)'
           /\ \A v : Known(v) => Known(v)' /\ Says(v)' = Says(v)
           /\ \A job \in Job : JobKnown(job) => JobKnown(job)'
           /\ \A q \in WorkerState : WorkerFits(q) => WorkerFits(q)'
           /\ \A q \in RequestState : RequestFits(q) => RequestFits(q)'
<1>1. \A id \in 0..nextId, k \in Kinds : Fits(id, k) => Fits(id, k)'
    BY DEF TypeOK, Calm, Fits, Object
<1>2. \A refs \in Refs : RefsFit(refs) => RefsFit(refs)'
    BY <1>1 DEF RefsFit, Refs
<1>3. \A v : Known(v) => Known(v)' /\ Says(v)' = Says(v)
    BY DEF TypeOK, Calm, Known, Says
<1>4. \A job \in Job : JobKnown(job) => JobKnown(job)'
    BY <1>3 DEF JobKnown
<1>5. ASSUME NEW q \in WorkerState, WorkerFits(q)
      PROVE  WorkerFits(q)'
    <2>1. q.refs \in Refs /\ q.job \in Job /\ q.job.refs \in Refs /\ q.made \in 0..nextId
          /\ q.todo \in SUBSET Parts
        BY DEF WorkerState, Job
    <2>2. q.pc = "save" => First(q) \in Kinds
        BY <2>1, <1>5, FirstIsOne DEF WorkerFits, Kinds
    <2>3. (q.pc = "save" => Fits(q.made, First(q))') /\ (q.pc = "calsave" => Fits(q.made, "calendar")')
        BY <2>1, <2>2, <1>5, <1>1 DEF WorkerFits, Kinds
    <2>4. q.pc = "refs" => Known(q.now)' /\ Intent(q.job, q.now)' # "nothing"
        BY <1>3, <1>5 DEF WorkerFits, Intent, JobKnown
    <2>5. Open(q.now) => Open(q.now)'
        BY <1>3 DEF Open
    <2> QED  BY <1>2, <1>4, <1>5, <2>1, <2>3, <2>4, <2>5 DEF WorkerFits
<1>6. ASSUME NEW q \in RequestState, RequestFits(q)
      PROVE  RequestFits(q)'
    <2>1. q.seen.refs \in Refs /\ q.thread \in 0..nextId /\ q.made \in 0..nextId
        BY DEF RequestState, Row
    <2> QED  BY <1>1, <1>2, <1>3, <1>6, <2>1 DEF RequestFits, Kinds, Parts
<1> QED  BY <1>1, <1>2, <1>3, <1>4, <1>5, <1>6

-----------------------------------------------------------------------------
(* What the steps do to the remote objects, and to the row. *)

LEMMA NothingRemote ==
    ASSUME TypeOK, Objects, UNCHANGED <<remote, nextId, versions, history>>
    PROVE  Calm /\ Objects'
<1>1. Object' = Object /\ History' = History
    BY DEF Object, History, Note
<1> QED  BY <1>1 DEF TypeOK, Calm, Objects, Contents, NotesFit, ObjectFits, Open, Known, Says

\* No update note is added, and the threads of those there are stay.
LEMMA NotesStay ==
    ASSUME TypeOK, NotesFit, Calm,
           \A n \in history'.notes : n \in history.notes /\ \E o \in remote' : o.id = n.thread
    PROVE  NotesFit'
BY Stays DEF NotesFit, Open

LEMMA Removed ==
    ASSUME TypeOK, Objects, NEW ids, RemoveAll(ids), UNCHANGED <<nextId, versions>>
    PROVE  Calm /\ Objects'
<1>1. PICK kept \in Refused(ids) :
         /\ remote' = Without(ids \ kept)
         /\ history' = [history EXCEPT !.left = @ \cup kept, !.behind = @ \ ids,
                                       !.notes = {n \in @ : n.thread \notin ids \ kept}]
    BY DEF RemoveAll
<1>2. Object' = Object /\ History' = History
    BY DEF Object, History, Note
<1>3. kept \subseteq 1..nextId
    BY DEF Refused, Live, TypeOK, Object
<1>4. history' \in History /\ history'.notes = {n \in history.notes : n.thread \notin ids \ kept}
    BY <1>1, <1>3 DEF History, Objects
<1>5. Calm /\ Contents'
    BY <1>1, <1>2 DEF TypeOK, Calm, Objects, Contents, ObjectFits, Known, Says, Without
<1>6. \A n \in history'.notes : n \in history.notes /\ \E o \in remote' : o.id = n.thread
    BY <1>1, <1>4 DEF Objects, NotesFit, Without
<1> QED  BY <1>2, <1>4, <1>5, <1>6, NotesStay DEF Objects

LEMMA Shown ==
    ASSUME TypeOK, Contents, NEW ids, NEW v, Known(v), remote' = Showing(ids, v),
           \A o \in Live(ids) : IF o.kind = "calendar" THEN WithSync \/ ~Says(v).supC ELSE ~Says(v).supD,
           UNCHANGED <<nextId, versions>>
    PROVE  /\ Calm /\ Contents'
           /\ \A o \in remote : \E p \in remote' : p.id = o.id
<1>1. Object' = Object
    BY DEF Object
<1>2. v \in 0..MaxVer
    BY KnownBounded
<1>3. \A o \in Live(ids) : o \in remote /\ o \in Object
    BY DEF Live, TypeOK
<1>4. \A o \in Live(ids) : /\ [o EXCEPT !.ver = v] \in Object
                            /\ [o EXCEPT !.ver = v].id = o.id
                            /\ [o EXCEPT !.ver = v].kind = o.kind
                            /\ [o EXCEPT !.ver = v].ver = v
    BY <1>2, <1>3 DEF Object
<1>5. \A o \in remote' : o \in remote \/ \E p \in Live(ids) : o = [p EXCEPT !.ver = v]
    BY DEF Showing, Without
<1>6. remote' \subseteq Object'
    BY <1>1, <1>4, <1>5 DEF TypeOK
<1>7. ASSUME NEW o \in remote'
      PROVE  \E p \in remote : p.id = o.id /\ p.kind = o.kind
    <2>1. CASE o \in remote
        BY <2>1
    <2>2. CASE o \notin remote
        <3>1. PICK p \in Live(ids) : o = [p EXCEPT !.ver = v]
            BY <1>5, <2>2
        <3> QED  BY <1>3, <1>4, <3>1
    <2> QED  BY <2>1, <2>2
<1>8. Calm
    <2>1. nextId \in Nat /\ nextId <= nextId /\ Len(versions) \in Nat
        BY DEF TypeOK
    <2>2. versions \in Seq(Content) /\ Len(versions) <= MaxVer
        BY DEF TypeOK
    <2> QED  BY <1>6, <1>7, <2>1, <2>2 DEF Calm
<1>9. ASSUME NEW o \in remote' \ {PickedThread}
      PROVE  ObjectFits(o)'
    <2>1. CASE o \in remote
        BY <2>1 DEF Contents, ObjectFits, Known, Says
    <2>2. CASE \E p \in Live(ids) : o = [p EXCEPT !.ver = v]
        BY <2>2, <1>4 DEF ObjectFits, Known, Says
    <2> QED  BY <1>5, <2>1, <2>2
<1>10. \A o \in remote : IF o.id \in ids THEN [o EXCEPT !.ver = v] \in remote' ELSE o \in remote'
    BY DEF Showing, Without, Live
<1>11. \A o \in remote : \E p \in remote' : p.id = o.id
    BY <1>4, <1>10 DEF Live
<1> QED  BY <1>8, <1>9, <1>11 DEF Contents

LEMMA Edited ==
    ASSUME TypeOK, Objects, NEW ids, NEW v, Known(v), EditAll(ids, v),
           \A o \in Live(ids) : IF o.kind = "calendar" THEN WithSync \/ ~Says(v).supC ELSE ~Says(v).supD,
           UNCHANGED <<nextId, versions>>
    PROVE  Calm /\ Objects'
<1>1. PICK kept \in Refused(ids) :
         /\ remote' = Showing(ids \ kept, v)
         /\ history' = [history EXCEPT !.behind = (@ \ ids) \cup kept]
    BY DEF EditAll
<1>2. History' = History /\ kept \subseteq 1..nextId
    BY DEF History, Note, Refused, Live, TypeOK, Object
<1>3. history' \in History /\ history'.notes = history.notes
    BY <1>1, <1>2 DEF History, Objects
<1>4. Live(ids \ kept) \subseteq Live(ids)
    BY DEF Live
<1> DEFINE some == ids \ kept
<1> HIDE DEF some
<1>5. /\ Calm /\ Contents' /\ \A o \in remote : \E p \in remote' : p.id = o.id
    <2>1. remote' = Showing(some, v) /\ Live(some) \subseteq Live(ids)
        BY <1>1, <1>4 DEF some
    <2> QED  BY <2>1, Shown DEF Objects
<1>6. \A n \in history'.notes : n \in history.notes /\ \E o \in remote' : o.id = n.thread
    BY <1>3, <1>5 DEF Objects, NotesFit
<1> QED  BY <1>2, <1>3, <1>5, <1>6, NotesStay DEF Objects

LEMMA Made ==
    ASSUME TypeOK, Contents, NEW k \in Kinds, NEW v, Known(v),
           remote' = remote \cup {Make(k, v)}, nextId' = nextId + 1,
           IF k = "calendar" THEN WithSync \/ ~Says(v).supC ELSE ~Says(v).supD,
           UNCHANGED versions
    PROVE  /\ Calm /\ Contents'
           /\ \A j \in Kinds : Fits(nextId, j)' <=> j = k
<1>1. nextId \in Nat /\ nextId' \in Nat /\ nextId <= nextId'
    BY DEF TypeOK
<1>2. Object \subseteq Object' /\ v \in 0..MaxVer
    BY <1>1, TypesGrow, KnownBounded
<1>3. Make(k, v) \in Object' /\ Make(k, v).id = nextId + 1 /\ Make(k, v).kind = k /\ Make(k, v).ver = v
    BY <1>1, <1>2 DEF Make, Object
<1>4. Calm
    BY <1>1, <1>2, <1>3 DEF TypeOK, Calm
<1>5. Contents'
    BY <1>3 DEF Contents, ObjectFits, Known, Says
<1>6. \A o \in remote : o.id # nextId + 1
    BY DEF TypeOK, Object
<1>7. \A j \in Kinds : Fits(nextId, j)' <=> j = k
    BY <1>3, <1>6 DEF Fits
<1> QED  BY <1>4, <1>5, <1>7

LEMMA WasCreated ==
    ASSUME TypeOK, Objects, NEW k \in Kinds, NEW v, Known(v), Created(k, v),
           IF k = "calendar" THEN WithSync \/ ~Says(v).supC ELSE ~Says(v).supD,
           UNCHANGED versions
    PROVE  /\ Calm /\ Objects'
           /\ \A j \in Kinds : Fits(nextId, j)' <=> j = k
<1>1. Calm /\ Contents' /\ \A j \in Kinds : Fits(nextId, j)' <=> j = k
    BY Made DEF Created, Objects
<1>2. history' \in History /\ history'.notes = history.notes
    BY DEF Created, History, Objects
<1>3. History \subseteq History'
    BY <1>1, TypesGrow DEF Calm, TypeOK
<1>4. NotesFit'
    BY <1>1, <1>2, NotesStay DEF Created, Objects, NotesFit
<1> QED  BY <1>1, <1>2, <1>3, <1>4 DEF Objects

LEMMA WasNotCreated ==
    ASSUME TypeOK, Objects, NEW k \in Kinds, NEW v, Known(v), MakeFails(k, v),
           IF k = "calendar" THEN WithSync \/ ~Says(v).supC ELSE ~Says(v).supD,
           UNCHANGED versions
    PROVE  Calm /\ Objects'
<1>1. CASE history' = [history EXCEPT !.missed = @ \cup {k}] /\ UNCHANGED <<remote, nextId>>
    <2>1. Object' = Object /\ History' = History
        BY <1>1 DEF Object, History, Note
    <2>2. history' \in History /\ history'.notes = history.notes
        BY <1>1 DEF History, Objects
    <2> QED  BY <1>1, <2>1, <2>2 DEF TypeOK, Calm, Objects, Contents, NotesFit, ObjectFits, Open, Known, Says
<1>2. CASE /\ remote' = remote \cup {Make(k, v)} /\ nextId' = nextId + 1
           /\ history' = [history EXCEPT !.missed = @ \cup {k}, !.left = @ \cup {nextId + 1}]
    <2>1. Calm /\ Contents'
        BY <1>2, Made DEF Objects
    <2>2. History \subseteq History' /\ nextId + 1 \in 1..nextId' /\ 1..nextId \subseteq 1..nextId'
        BY <1>2, <2>1, TypesGrow DEF Calm, TypeOK
    <2>3. history' \in History' /\ history'.notes = history.notes
        BY <1>2, <2>2 DEF History, Objects
    <2>4. NotesFit'
        BY <1>2, <2>1, <2>3, NotesStay DEF Objects, NotesFit
    <2> QED  BY <2>1, <2>3, <2>4 DEF Objects
<1> QED  BY <1>1, <1>2 DEF MakeFails

LEMMA RowStays ==
    ASSUME TypeOK, RowFits, Calm, UNCHANGED row
    PROVE  row' \in Row' /\ RowFits'
<1>1. row \in Row /\ row.refs \in Refs /\ Row \subseteq Row'
    BY TypesGrow DEF TypeOK, Row, Calm
<1> QED  BY <1>1, Stays DEF RowFits

LEMMA RefSaved ==
    ASSUME TypeOK, RowFits, Calm, NEW k \in Kinds, NEW id \in 0..nextId, Fits(id, k),
           SaveRef(k, id)
    PROVE  row' \in Row' /\ RowFits'
<1>1. row \in Row /\ row.refs \in Refs /\ Row \subseteq Row'
    BY TypesGrow DEF TypeOK, Row, Calm
<1>2. CASE ~row.live
    BY <1>2, RowStays DEF SaveRef
<1>3. CASE row.live
    <2>1. row' = [row EXCEPT !.refs[k] = id]
        BY <1>3 DEF SaveRef
    <2>2. row' \in Row /\ row'.live = row.live /\ row'.ver = row.ver
          /\ row'.refs = [row.refs EXCEPT ![k] = id]
        BY <1>1, <2>1 DEF Row, Refs
    <2>3. RefsFit(row'.refs)
        BY <1>1, <2>2 DEF RefsFit, RowFits, Refs
    <2>4. row'.refs \in Refs
        BY <2>2 DEF Row
    <2>5. RefsFit(row.refs)'
        BY <2>3, <2>4, Stays
    <2> QED  BY <1>1, <2>2, <2>5, Stays DEF RowFits
<1> QED  BY <1>2, <1>3

LEMMA OwnedSaved ==
    ASSUME TypeOK, RowFits, Calm, NEW b \in BOOLEAN, SaveOwned(b)
    PROVE  row' \in Row' /\ RowFits'
<1>1. row \in Row /\ row.refs \in Refs /\ Row \subseteq Row'
    BY TypesGrow DEF TypeOK, Row, Calm
<1>2. row' \in Row /\ row'.live = row.live /\ row'.ver = row.ver /\ row'.refs = row.refs
    BY <1>1 DEF Row, SaveOwned
<1> QED  BY <1>1, <1>2, Stays DEF RowFits

LEMMA RefsForgotten ==
    ASSUME TypeOK, RowFits, Calm, NEW ks \in SUBSET Kinds, ForgetRefs(ks)
    PROVE  row' \in Row' /\ RowFits'
<1>1. row \in Row /\ row.refs \in Refs /\ Row \subseteq Row'
    BY TypesGrow DEF TypeOK, Row, Calm
<1>2. CASE ~row.live
    BY <1>2, RowStays DEF ForgetRefs
<1>3. CASE row.live
    <2> DEFINE refs == [k \in Kinds |-> IF k \in ks THEN NoRef ELSE row.refs[k]]
    <2>1. refs \in Refs
        BY <1>1 DEF Refs, NoRef, TypeOK
    <2>2. row' = [row EXCEPT !.refs = refs]
        BY <1>3 DEF ForgetRefs
    <2>3. row' \in Row /\ row'.live = row.live /\ row'.ver = row.ver /\ row'.refs = refs
        BY <1>1, <2>1, <2>2 DEF Row
    <2>4. \A k \in Kinds : Fits(NoRef, k)
        BY DEF Fits, TypeOK, Object, NoRef
    <2>5. RefsFit(row'.refs)
        BY <2>3, <2>4 DEF RefsFit, RowFits
    <2>6. RefsFit(row.refs)'
        BY <2>1, <2>3, <2>5, Stays
    <2> QED  BY <1>1, <2>3, <2>6, Stays DEF RowFits
<1> QED  BY <1>2, <1>3

-----------------------------------------------------------------------------
(* Who isn't concerned by a step stays consistent. *)

LEMMA NoRefsFit ==
    ASSUME TypeOK
    PROVE  NoRefs \in Refs /\ RefsFit(NoRefs) /\ \A k : Fits(NoRef, k)
<1>1. \A k : Fits(NoRef, k)
    BY DEF TypeOK, Object, Fits, NoRef
<1> QED  BY <1>1 DEF TypeOK, NoRefs, RefsFit, Refs, NoRef

LEMMA IdleFits ==
    ASSUME TypeOK
    PROVE  /\ IdleWorker \in WorkerState /\ WorkerFits(IdleWorker)
           /\ NoJob \in Job /\ NoRow \in Row /\ IdleRequest \in RequestState /\ RequestFits(IdleRequest)
<1>1. NoRefs \in Refs /\ RefsFit(NoRefs) /\ \A k : Fits(NoRef, k)
    BY NoRefsFit
<1>2. 0 \in 0..MaxVer /\ 0 \in 0..nextId
    BY PublicationAssumption DEF TypeOK
<1>3. NoJob \in Job /\ NoRow \in Row
    BY <1>1, <1>2 DEF NoJob, Job, NoRow, Row
<1>4. IdleWorker \in WorkerState /\ IdleRequest \in RequestState
    BY <1>1, <1>2, <1>3, PublicationAssumption DEF IdleWorker, WorkerState, IdleRequest, RequestState, NoRef
<1> QED  BY <1>1, <1>3, <1>4 DEF IdleWorker, IdleRequest, WorkerFits, RequestFits, NoJob, NoRow

LEMMA JobStays ==
    ASSUME TypeOK, Calm
    PROVE  \A job \in Job : RefsFit(job.refs) /\ JobKnown(job) => RefsFit(job.refs)' /\ JobKnown(job)'
<1>1. \A job \in Job : job.refs \in Refs
    BY DEF Job
<1> QED  BY <1>1, Stays

LEMMA QueueStays ==
    ASSUME TypeOK, QueueFits, Calm, UNCHANGED queue
    PROVE  queue' \in Seq(Job') /\ QueueFits'
<1>1. queue \in Seq(Job) /\ queue' \in Seq(Job')
    BY TypesGrow DEF TypeOK, Calm
<1>2. \A i \in 1..Len(queue) : queue[i] \in Job /\ RefsFit(queue[i].refs) /\ JobKnown(queue[i])
    BY <1>1 DEF QueueFits
<1> QED  BY <1>1, <1>2, JobStays DEF QueueFits

LEMMA QueueShrinks ==
    ASSUME TypeOK, QueueFits, Calm, queue # <<>>, queue' = Tail(queue)
    PROVE  /\ queue' \in Seq(Job') /\ QueueFits'
           /\ Head(queue) \in Job /\ RefsFit(Head(queue).refs) /\ JobKnown(Head(queue))
<1>1. queue \in Seq(Job) /\ Tail(queue) \in Seq(Job) /\ Seq(Job) \subseteq Seq(Job')
    BY TypesGrow DEF TypeOK, Calm
<1>2. \A i \in 1..Len(queue) : queue[i] \in Job /\ RefsFit(queue[i].refs) /\ JobKnown(queue[i])
    BY <1>1 DEF QueueFits
<1>3. \A i \in 1..Len(queue') : i + 1 \in 1..Len(queue) /\ queue'[i] = queue[i + 1]
    BY <1>1
<1>4. QueueFits'
    BY <1>2, <1>3, JobStays DEF QueueFits
<1>5. Head(queue) = queue[1] /\ 1 \in 1..Len(queue)
    BY <1>1
<1> QED  BY <1>1, <1>2, <1>4, <1>5

LEMMA QueueGrows ==
    ASSUME TypeOK, QueueFits, Calm, NEW job \in Job, RefsFit(job.refs)', JobKnown(job)',
           queue' = Append(queue, job)
    PROVE  queue' \in Seq(Job') /\ QueueFits'
<1>1. queue \in Seq(Job) /\ Append(queue, job) \in Seq(Job) /\ Seq(Job) \subseteq Seq(Job')
    BY TypesGrow DEF TypeOK, Calm
<1>2. \A i \in 1..Len(queue) : queue[i] \in Job /\ RefsFit(queue[i].refs) /\ JobKnown(queue[i])
    BY <1>1 DEF QueueFits
<1>3. \A i \in 1..Len(queue') : IF i \in 1..Len(queue) THEN queue'[i] = queue[i] ELSE queue'[i] = job
    BY <1>1
<1>4. QueueFits'
    BY <1>2, <1>3, JobStays DEF QueueFits
<1> QED  BY <1>1, <1>4

LEMMA PickedStays ==
    ASSUME TypeOK, Calm, Fits(Picked, "thread"), nextId >= Picked
    PROVE  (Fits(Picked, "thread") /\ nextId >= Picked)'
<1>1. Picked \in 0..nextId /\ "thread" \in Kinds
    BY DEF TypeOK, Picked, Kinds, Parts
<1>2. Fits(Picked, "thread")'
    BY <1>1, Stays
<1> QED  BY <1>2 DEF TypeOK, Calm, Picked

LEMMA WorkerMoves ==
    ASSUME Consistent, NEW w \in Workers, Calm, Objects', row' \in Row', RowFits',
           queue' \in Seq(Job'), QueueFits',
           worker' = [worker EXCEPT ![w] = worker'[w]],
           worker'[w] \in WorkerState', WorkerFits(worker[w])',
           worker'[w].pc = "idle" => worker'[w] = IdleWorker,
           UNCHANGED <<request, versions>>
    PROVE  Consistent'
<1> USE DEF Consistent
<1>1. WorkerState \subseteq WorkerState' /\ RequestState \subseteq RequestState'
    BY TypesGrow DEF TypeOK, Calm
<1>2. worker \in [Workers -> WorkerState] /\ request \in [Requests -> RequestState]
    BY DEF TypeOK
<1>3. worker' \in [Workers -> WorkerState'] /\ request' \in [Requests -> RequestState']
    BY <1>1, <1>2
<1>4. \A x \in Workers : worker'[x].pc = "idle" => worker'[x] = IdleWorker
    BY <1>2 DEF TypeOK
<1>5. TypeOK'
    BY <1>1, <1>2, <1>3, <1>4 DEF TypeOK, Calm, Objects
<1>6. ASSUME NEW x \in Workers
      PROVE  WorkerFits(worker[x])'
    <2>1. CASE x = w
        BY <2>1
    <2>2. CASE x # w
        <3>1. worker'[x] = worker[x] /\ worker[x] \in WorkerState /\ WorkerFits(worker[x])
            BY <1>2, <2>2
        <3> QED  BY <3>1, Stays
    <2> QED  BY <2>1, <2>2
<1>7. ASSUME NEW r \in Requests
      PROVE  RequestFits(request[r])'
    <2>1. request'[r] = request[r] /\ request[r] \in RequestState /\ RequestFits(request[r])
        BY <1>2
    <2> QED  BY <2>1, Stays
<1> QED  BY <1>5, <1>6, <1>7, PickedStays

LEMMA RequestMoves ==
    ASSUME Consistent, NEW r \in Requests, Calm, Objects', row' \in Row', RowFits',
           queue' \in Seq(Job'), QueueFits',
           request' = [request EXCEPT ![r] = request'[r]],
           request'[r] \in RequestState', RequestFits(request[r])',
           UNCHANGED worker
    PROVE  Consistent'
<1> USE DEF Consistent
<1>1. WorkerState \subseteq WorkerState' /\ RequestState \subseteq RequestState'
    BY TypesGrow DEF TypeOK, Calm
<1>2. worker \in [Workers -> WorkerState] /\ request \in [Requests -> RequestState]
    BY DEF TypeOK
<1>3. worker' \in [Workers -> WorkerState'] /\ request' \in [Requests -> RequestState']
    BY <1>1, <1>2
<1>4. TypeOK'
    BY <1>1, <1>2, <1>3 DEF TypeOK, Calm, Objects
<1>5. ASSUME NEW x \in Requests
      PROVE  RequestFits(request[x])'
    <2>1. CASE x = r
        BY <2>1
    <2>2. CASE x # r
        <3>1. request'[x] = request[x] /\ request[x] \in RequestState /\ RequestFits(request[x])
            BY <1>2, <2>2
        <3> QED  BY <3>1, Stays
    <2> QED  BY <2>1, <2>2
<1>6. ASSUME NEW w \in Workers
      PROVE  WorkerFits(worker[w])'
    <2>1. worker'[w] = worker[w] /\ worker[w] \in WorkerState /\ WorkerFits(worker[w])
        BY <1>2
    <2> QED  BY <2>1, Stays
<1> QED  BY <1>4, <1>5, <1>6, PickedStays

LEMMA WorkerBecomes ==
    ASSUME Consistent, NEW w \in Workers, Calm, Objects', row' \in Row', RowFits',
           queue' \in Seq(Job'), QueueFits',
           NEW q \in WorkerState, WorkerFits(q), q.pc = "idle" => q = IdleWorker,
           Become(w, q),
           UNCHANGED <<request, versions>>
    PROVE  Consistent'
<1>1. worker' = [worker EXCEPT ![w] = worker'[w]] /\ worker'[w] = q
    BY DEF Become, Consistent, TypeOK
<1>2. WorkerState \subseteq WorkerState'
    BY TypesGrow DEF Consistent, TypeOK, Calm
<1>3. WorkerFits(worker[w])'
    BY <1>1, Stays DEF Consistent
<1> QED  BY <1>1, <1>2, <1>3, WorkerMoves

LEMMA RequestBecomes ==
    ASSUME Consistent, NEW r \in Requests, Calm, Objects', row' \in Row', RowFits',
           queue' \in Seq(Job'), QueueFits',
           NEW q \in RequestState, RequestFits(q),
           request' = [request EXCEPT ![r] = q],
           UNCHANGED worker
    PROVE  Consistent'
<1>1. request' = [request EXCEPT ![r] = request'[r]] /\ request'[r] = q
    BY DEF Consistent, TypeOK
<1>2. RequestState \subseteq RequestState'
    BY TypesGrow DEF Consistent, TypeOK, Calm
<1>3. RequestFits(request[r])'
    BY <1>1, Stays DEF Consistent
<1> QED  BY <1>1, <1>2, <1>3, RequestMoves

LEMMA Fields ==
    ASSUME Consistent
    PROVE  /\ row \in Row /\ row.refs \in Refs /\ row.ver \in 0..MaxVer /\ row.owned \in BOOLEAN
           /\ row.live \in BOOLEAN
           /\ \A w \in Workers :
                 /\ worker[w] \in WorkerState /\ worker[w].job \in Job
                 /\ worker[w].refs \in Refs /\ worker[w].job.refs \in Refs
                 /\ worker[w].todo \in SUBSET Parts /\ worker[w].made \in 0..nextId
                 /\ worker[w].forum \in BOOLEAN
                 /\ WorkerFits(worker[w])
           /\ \A r \in Requests :
                 /\ request[r] \in RequestState /\ request[r].seen \in Row
                 /\ request[r].seen.refs \in Refs /\ request[r].seen.ver \in 0..MaxVer
                 /\ request[r].says \in 0..MaxVer /\ request[r].thread \in 0..nextId
                 /\ request[r].made \in 0..nextId
                 /\ RequestFits(request[r])
           /\ NoRef \in 0..nextId /\ Picked \in 0..nextId
<1>1. row \in Row /\ nextId \in Nat /\ nextId >= Picked
    BY DEF Consistent, TypeOK
<1>2. \A w \in Workers : worker[w] \in WorkerState /\ WorkerFits(worker[w])
    BY DEF Consistent, TypeOK
<1>3. \A r \in Requests : request[r] \in RequestState /\ RequestFits(request[r])
    BY DEF Consistent, TypeOK
<1> QED  BY <1>1, <1>2, <1>3 DEF Row, WorkerState, RequestState, Job, NoRef, Picked

-----------------------------------------------------------------------------
(* Each step keeps Consistent: the workers. *)

LEMMA TakeStep ==
    ASSUME Consistent, NEW w \in Workers, Take(w)
    PROVE  Consistent'
<1> DEFINE job == Head(queue)
           q == [IdleWorker EXCEPT !.pc = IF job.kind = "remove" THEN "takedown" ELSE "find",
                                   !.job = job, !.refs = job.refs, !.owned = job.owned]
<1>1. Calm /\ Objects' /\ row' \in Row' /\ RowFits'
    BY NothingRemote, RowStays DEF Take, Consistent
<1>2. /\ queue' \in Seq(Job') /\ QueueFits'
      /\ job \in Job /\ RefsFit(job.refs) /\ JobKnown(job)
    BY <1>1, QueueShrinks DEF Take, Consistent
<1>3. IdleWorker \in WorkerState /\ job.refs \in Refs /\ job.owned \in BOOLEAN
    BY <1>2, IdleFits DEF Job, Consistent
<1>4. q \in WorkerState
    BY <1>2, <1>3 DEF WorkerState, Busy
<1>5. /\ q.pc \in {"takedown", "find"} /\ q.job = job /\ q.refs = job.refs /\ q.made = NoRef
    BY DEF IdleWorker
<1>6. WorkerFits(q)
    BY <1>2, <1>5 DEF WorkerFits
<1>7. Become(w, q)
    BY DEF Take
<1> HIDE DEF q
<1> QED  BY <1>1, <1>2, <1>4, <1>5, <1>6, <1>7, WorkerBecomes DEF Take

LEMMA FindStep ==
    ASSUME Consistent, NEW w \in Workers, Find(w)
    PROVE  Consistent'
<1> DEFINE old == worker[w]
<1>1. Calm /\ Objects' /\ row' \in Row' /\ RowFits' /\ queue' \in Seq(Job') /\ QueueFits'
    BY NothingRemote, RowStays, QueueStays DEF Find, Consistent
<1>2. old \in WorkerState /\ WorkerFits(old) /\ row.ver \in 0..MaxVer /\ old.pc = "find"
    BY Fields DEF Find
<1>3. CASE ~row.live /\ old.job.kind = "publish"
    BY <1>1, <1>3, IdleFits, WorkerBecomes DEF Find, Rest, Consistent, IdleWorker
<1>4. CASE ~row.live /\ old.job.kind # "publish"
    <2> DEFINE q == [old EXCEPT !.pc = "calendar"]
    <2>1. q \in WorkerState /\ WorkerFits(q) /\ q.pc = "calendar"
        BY <1>2 DEF WorkerState, Busy, WorkerFits
    <2>2. Become(w, q)
        BY <1>4 DEF Find, Step, Become
    <2> HIDE DEF q
    <2> QED  BY <1>1, <2>1, <2>2, WorkerBecomes DEF Find
<1>5. CASE row.live
    <2> DEFINE pc == IF Intent(old.job, row.ver) = "nothing" THEN "calendar" ELSE "refs"
               q == [old EXCEPT !.now = row.ver, !.pc = pc]
    <2>1. q \in WorkerState /\ q.pc = pc /\ q.now = row.ver /\ q.job = old.job /\ q.refs = old.refs
        BY <1>2 DEF WorkerState, Busy
    <2>2. Known(row.ver)
        BY <1>5 DEF Consistent, RowFits
    <2>3. WorkerFits(q)
        BY <1>2, <2>1, <2>2 DEF WorkerFits
    <2>4. Become(w, q)
        BY <1>5, <1>2 DEF Find, Become, WorkerState
    <2> HIDE DEF q
    <2> QED  BY <1>1, <2>1, <2>3, <2>4, WorkerBecomes DEF Find
<1> QED  BY <1>3, <1>4, <1>5

LEMMA LookUpStep ==
    ASSUME Consistent, NEW w \in Workers, LookUp(w)
    PROVE  Consistent'
<1> DEFINE old == worker[w]
           i == Intent(old.job, old.now)
           plan == IF i = "publish" THEN PublishPlan(row.refs, old.now) ELSE {}
           pc == CASE i = "publish" -> NextPc(old, plan) [] i = "remove" -> "takedown" [] OTHER -> "edit"
           q == [old EXCEPT !.refs = row.refs, !.owned = row.owned, !.todo = plan, !.pc = pc]
<1>1. Calm /\ Objects' /\ row' \in Row' /\ RowFits' /\ queue' \in Seq(Job') /\ QueueFits'
    BY NothingRemote, RowStays, QueueStays DEF LookUp, Consistent
<1>2. /\ old \in WorkerState /\ WorkerFits(old) /\ old.pc = "refs"
      /\ row.refs \in Refs /\ row.owned \in BOOLEAN /\ RefsFit(row.refs)
    BY Fields DEF LookUp, Consistent, RowFits
<1>3. plan \in SUBSET Parts /\ (plan # {} => i = "publish")
    BY PublicationAssumption DEF PublishPlan
<1>4. \/ i = "publish" /\ pc = "post" /\ plan # {}
      \/ i = "publish" /\ pc \in {"note", "calendar"}
      \/ i = "remove" /\ pc = "takedown"
      \/ i = "update" /\ pc = "edit"
    <2>1. i \in {"publish", "remove", "update"}
        BY <1>2 DEF WorkerFits, Intent
    <2> QED  BY <2>1, WhatIsNext
<1>5. Known(old.now) /\ (i \in {"publish", "update"} => Open(old.now))
    BY <1>2 DEF WorkerFits, Intent, Open
<1>6. /\ q \in WorkerState /\ q.pc = pc /\ q.now = old.now /\ q.job = old.job
      /\ q.refs = row.refs /\ q.todo = plan /\ q.made = old.made
    BY <1>2, <1>3, <1>4 DEF WorkerState, Busy
<1>7. Become(w, q)
    BY <1>2 DEF LookUp, Become, WorkerState
<1> HIDE DEF q, pc, plan, i
<1>8. WorkerFits(q)
    BY <1>2, <1>4, <1>5, <1>6 DEF WorkerFits
<1>9. q.pc # "idle"
    BY <1>4, <1>6
<1> QED  BY <1>1, <1>6, <1>7, <1>8, <1>9, WorkerBecomes DEF LookUp

LEMMA WorkerSteps ==
    ASSUME Consistent, NEW w \in Workers, worker[w].pc # "idle",
           Calm, Objects', row' \in Row', RowFits', UNCHANGED <<queue, request, versions>>,
           NEW pc \in Busy \ {"refs", "save", "calsave"}, NEW todo \in SUBSET Parts,
           NEW refs \in Refs, RefsFit(refs), NEW forum \in BOOLEAN,
           pc \in {"edit", "move", "unref", "post", "own", "link", "note"} => Open(worker[w].now),
           pc = "post" => todo # {},
           worker' = [worker EXCEPT ![w].pc = pc, ![w].todo = todo, ![w].made = NoRef,
                                    ![w].refs = refs, ![w].forum = forum]
    PROVE  Consistent'
<1> DEFINE q == [worker[w] EXCEPT !.pc = pc, !.todo = todo, !.made = NoRef, !.refs = refs, !.forum = forum]
<1>1. worker[w] \in WorkerState /\ WorkerFits(worker[w])
    BY Fields
<1>2. /\ q \in WorkerState /\ q.pc = pc /\ q.todo = todo /\ q.made = NoRef
      /\ q.now = worker[w].now /\ q.job = worker[w].job /\ q.refs = refs
    BY <1>1, Fields DEF WorkerState
<1>3. Become(w, q)
    BY DEF Become, Consistent, TypeOK, WorkerState
<1> HIDE DEF q
<1>4. WorkerFits(q) /\ q.pc # "idle"
    BY <1>1, <1>2 DEF WorkerFits, Busy
<1>5. queue' \in Seq(Job') /\ QueueFits'
    BY QueueStays DEF Consistent
<1> QED  BY <1>2, <1>3, <1>4, <1>5, WorkerBecomes

LEMMA WorkerStepsOn ==
    ASSUME Consistent, NEW w \in Workers, worker[w].pc \notin {"idle", "save", "calsave"},
           Calm, Objects', row' \in Row', RowFits', UNCHANGED <<queue, request, versions>>,
           NEW pc \in Busy \ {"refs", "save", "calsave"},
           pc \in {"edit", "move", "unref", "post", "own", "link", "note"} => Open(worker[w].now),
           pc = "post" => worker[w].todo # {},
           Step(w, pc)
    PROVE  Consistent'
<1>1. /\ worker[w] \in WorkerState /\ worker[w].todo \in SUBSET Parts /\ worker[w].made = NoRef
      /\ worker[w].refs \in Refs /\ RefsFit(worker[w].refs) /\ worker[w].forum \in BOOLEAN
    BY Fields DEF WorkerFits
<1>2. worker' = [worker EXCEPT ![w].pc = pc, ![w].todo = worker[w].todo, ![w].made = NoRef,
                               ![w].refs = worker[w].refs, ![w].forum = worker[w].forum]
    BY <1>1 DEF Step, Consistent, TypeOK, WorkerState
<1> QED  BY <1>1, <1>2, WorkerSteps

LEMMA WorkerRests ==
    ASSUME Consistent, NEW w \in Workers, Calm, Objects', row' \in Row', RowFits',
           UNCHANGED <<queue, request, versions>>, Rest(w)
    PROVE  Consistent'
<1>1. queue' \in Seq(Job') /\ QueueFits'
    BY QueueStays DEF Consistent
<1> QED  BY <1>1, IdleFits, WorkerBecomes DEF Rest, Consistent

\* What the hub finds by the ids of a worker is on Discord.
LEMMA OnDiscord ==
    ASSUME Consistent, NEW w \in Workers, NEW o \in remote, NEW k \in Parts, o.id = worker[w].refs[k]
    PROVE  o.kind # "calendar"
<1>1. Fits(worker[w].refs[k], k)
    BY Fields DEF WorkerFits, RefsFit, Kinds
<1> QED  BY <1>1 DEF Fits, Parts

LEMMA EditStep ==
    ASSUME Consistent, NEW w \in Workers, Edit(w)
    PROVE  Consistent'
<1> DEFINE ids == {worker[w].refs["scheduled"]} \cup OwnThread(w)
                           \cup (IF Moved(w) THEN {} ELSE Announcements(w, worker[w].now))
<1>1. Open(worker[w].now) /\ worker[w].pc \notin {"idle", "save", "calsave"}
    BY Fields DEF Edit, WorkerFits
<1>2. \A id \in ids : \E k \in Parts : id = worker[w].refs[k]
    BY DEF OwnThread, Announcements, Parts
<1>3. \A o \in Live(ids) : o.kind # "calendar"
    BY <1>2, OnDiscord DEF Live
<1>4. EditAll(ids, worker[w].now)
    BY DEF Edit
<1> HIDE DEF ids
<1>5. Calm /\ Objects'
    BY <1>1, <1>3, <1>4, Edited DEF Edit, Open, Consistent
<1>6. row' \in Row' /\ RowFits'
    BY <1>5, RowStays DEF Edit, Consistent
<1>7. CASE Moved(w)
    BY <1>1, <1>5, <1>6, <1>7, WorkerStepsOn DEF Edit, Busy
<1>8. CASE ~Moved(w)
    BY <1>1, <1>5, <1>6, <1>8, WorkerStepsOn DEF Edit, Busy
<1> QED  BY <1>7, <1>8

LEMMA MoveStep ==
    ASSUME Consistent, NEW w \in Workers, Move(w)
    PROVE  Consistent'
<1>1. Open(worker[w].now) /\ worker[w].pc \notin {"idle", "save", "calsave"}
    BY Fields DEF Move, WorkerFits
<1>2. Calm /\ Objects'
    BY Removed DEF Move, Consistent
<1>3. row' \in Row' /\ RowFits'
    BY <1>2, RowStays DEF Move, Consistent
<1> QED  BY <1>1, <1>2, <1>3, WorkerStepsOn DEF Move, Busy

LEMMA UnrefStep ==
    ASSUME Consistent, NEW w \in Workers, Unref(w)
    PROVE  Consistent'
<1> DEFINE plan == MovePlan(worker[w].now)
<1>1. /\ Open(worker[w].now) /\ worker[w].pc # "idle" /\ worker[w].made = NoRef /\ worker[w] \in WorkerState
      /\ worker[w].refs \in Refs /\ RefsFit(worker[w].refs) /\ worker[w].forum \in BOOLEAN
    BY Fields DEF Unref, WorkerFits
<1>2. Calm /\ Objects'
    BY NothingRemote DEF Unref, Consistent
<1>3. row' \in Row' /\ RowFits'
    BY <1>2, RefsForgotten DEF Unref, Consistent, Kinds, Parts
<1>4. plan \in SUBSET Parts
    BY PublicationAssumption DEF MovePlan
<1> DEFINE pc == NextPc(worker[w], plan)
<1>5. pc \in {"post", "note", "calendar"} /\ (pc = "post" => plan # {})
    BY WhatIsNext
<1> HIDE DEF plan
<1>6. worker' = [worker EXCEPT ![w].pc = pc, ![w].todo = plan, ![w].made = NoRef,
                               ![w].refs = worker[w].refs, ![w].forum = worker[w].forum]
    BY <1>1 DEF Unref, Consistent, TypeOK, WorkerState, plan
<1>7. UNCHANGED <<queue, request, versions>> /\ pc \in Busy \ {"refs", "save", "calsave"}
    BY <1>5 DEF Unref, Busy
<1> HIDE DEF pc
<1> QED  BY <1>1, <1>2, <1>3, <1>4, <1>5, <1>6, <1>7, WorkerSteps

LEMMA TakedownStep ==
    ASSUME Consistent, NEW w \in Workers, Takedown(w)
    PROVE  Consistent'
<1>1. Calm /\ Objects'
    BY Removed DEF Takedown, Consistent
<1>2. row' \in Row' /\ RowFits'
    BY <1>1, RowStays DEF Takedown, Consistent
<1> QED  BY <1>1, <1>2, WorkerStepsOn DEF Takedown, Busy

LEMMA ClearStep ==
    ASSUME Consistent, NEW w \in Workers, Clear(w)
    PROVE  Consistent'
<1>1. Calm /\ Objects'
    BY NothingRemote DEF Clear, Consistent
<1>2. row' \in Row' /\ RowFits'
    BY <1>1, RefsForgotten DEF Clear, Consistent, Kinds
<1>3. CASE worker[w].job.kind = "remove"
    BY <1>1, <1>2, <1>3, WorkerRests DEF Clear
<1>4. CASE worker[w].job.kind # "remove"
    BY <1>1, <1>2, <1>4, WorkerStepsOn DEF Clear, Busy
<1> QED  BY <1>3, <1>4

\* A worker makes an object and keeps its id until it is saved.
LEMMA WorkerMakes ==
    ASSUME Consistent, NEW w \in Workers, worker[w].pc \in {"post", "calendar"},
           NEW k \in Kinds, NEW v, Known(v),
           IF k = "calendar" THEN WithSync \/ ~Says(v).supC ELSE ~Says(v).supD,
           Created(k, v),
           NEW pc \in {"save", "calsave"},
           IF pc = "save" THEN worker[w].pc = "post" /\ k = First(worker[w]) ELSE k = "calendar",
           worker' = [worker EXCEPT ![w].made = nextId + 1, ![w].pc = pc],
           UNCHANGED <<row, versions, queue, request>>
    PROVE  Consistent'
<1> DEFINE q == [worker[w] EXCEPT !.made = nextId + 1, !.pc = pc]
<1>1. Calm /\ Objects' /\ (\A j \in Kinds : Fits(nextId, j)' <=> j = k) /\ nextId' = nextId + 1
    BY WasCreated DEF Consistent, Created
<1>2. row' \in Row' /\ RowFits' /\ queue' \in Seq(Job') /\ QueueFits'
    BY <1>1, RowStays, QueueStays DEF Consistent
<1>3. worker[w] \in WorkerState /\ WorkerFits(worker[w])
    BY Fields
<1>4. worker[w] \in WorkerState' /\ nextId + 1 \in 0..nextId'
    BY <1>1, <1>3, TypesGrow DEF Consistent, TypeOK, Calm
<1>5. worker'[w] = q /\ worker' = [worker EXCEPT ![w] = worker'[w]]
    BY <1>3 DEF Consistent, TypeOK, WorkerState
<1>6. /\ q \in WorkerState' /\ q.pc = pc /\ q.made = nextId + 1 /\ q.todo = worker[w].todo
      /\ q.now = worker[w].now /\ q.job = worker[w].job /\ q.refs = worker[w].refs
      /\ First(q) = First(worker[w])
    BY <1>3, <1>4 DEF WorkerState, Busy, First
<1> HIDE DEF q
<1>7. Fits(worker[w].made, k)'
    BY <1>1, <1>5, <1>6
<1>8. /\ RefsFit(worker[w].refs)' /\ RefsFit(worker[w].job.refs)' /\ JobKnown(worker[w].job)'
      /\ (pc = "save" => Open(worker[w].now)' /\ worker[w].todo # {})
    <2>1. WorkerFits(worker[w])
        BY <1>3
    <2>2. RefsFit(worker[w].refs) /\ RefsFit(worker[w].job.refs) /\ JobKnown(worker[w].job)
          /\ (pc = "save" => Open(worker[w].now) /\ worker[w].todo # {})
        BY <2>1 DEF WorkerFits
    <2>3. worker[w].refs \in Refs /\ worker[w].job \in Job /\ worker[w].job.refs \in Refs
        BY Fields
    <2>4. worker'[w].refs = worker[w].refs /\ worker'[w].job = worker[w].job /\ worker'[w].now = worker[w].now
        BY <1>5, <1>6
    <2>5. Open(worker[w].now) => Open(worker[w].now)'
        BY <1>1, <2>4, Stays DEF Open, Consistent
    <2> QED  BY <1>1, <2>2, <2>3, <2>4, <2>5, Stays DEF Consistent
<1>9. WorkerFits(worker[w])'
    BY <1>5, <1>6, <1>7, <1>8 DEF WorkerFits
<1>10. worker'[w].pc # "idle"
    BY <1>5, <1>6
<1> QED  BY <1>1, <1>2, <1>5, <1>6, <1>9, <1>10, WorkerMoves

LEMMA PostStep ==
    ASSUME Consistent, NEW w \in Workers, Post(w)
    PROVE  Consistent'
<1>1. Open(worker[w].now) /\ worker[w].todo # {} /\ worker[w].todo \in SUBSET Parts
    BY Fields DEF Post, WorkerFits
<1>2. First(worker[w]) \in Parts
    BY <1>1, FirstIsOne
<1> QED  BY <1>1, <1>2, WorkerMakes DEF Post, Open, Kinds, Parts

LEMMA PostFailsStep ==
    ASSUME Consistent, NEW w \in Workers, PostFails(w)
    PROVE  Consistent'
<1> DEFINE q == worker[w]
           p == First(q)
           fallsBack == p = "thread" /\ q.forum /\ "announce" \in q.todo
           rest == q.todo \ IF fallsBack THEN {}
                            ELSE IF p = "announce" /\ ~q.forum THEN {p, "thread"} ELSE {p}
           pc == NextPc(q, rest)
           forum == q.forum /\ ~fallsBack
<1>1. /\ Open(q.now) /\ q.pc # "idle" /\ q \in WorkerState
      /\ q.made = NoRef /\ q.todo \in SUBSET Parts /\ q.todo # {}
      /\ q.refs \in Refs /\ RefsFit(q.refs) /\ q.forum \in BOOLEAN
    BY Fields DEF PostFails, WorkerFits
<1>2. p \in Parts
    BY <1>1, FirstIsOne
<1>3. Calm /\ Objects'
    BY <1>1, <1>2, WasNotCreated DEF PostFails, Consistent, Open, Kinds, Parts
<1>4. row' \in Row' /\ RowFits'
    BY <1>3, RowStays DEF PostFails, Consistent
<1>5. rest \in SUBSET Parts /\ forum \in BOOLEAN
    BY <1>1
<1>6. pc \in {"post", "note", "calendar"} /\ (pc = "post" => rest # {})
    BY WhatIsNext
<1>7. worker' = [worker EXCEPT ![w].todo = rest, ![w].pc = pc, ![w].forum = forum]
    BY <1>1 DEF PostFails, Consistent, TypeOK, WorkerState
<1> HIDE DEF rest, pc, forum
<1>8. worker' = [worker EXCEPT ![w].pc = pc, ![w].todo = rest, ![w].made = NoRef,
                               ![w].refs = q.refs, ![w].forum = forum]
    BY <1>1, <1>7 DEF Consistent, TypeOK, WorkerState
<1>9. UNCHANGED <<queue, request, versions>> /\ pc \in Busy \ {"refs", "save", "calsave"}
    BY <1>6 DEF PostFails, Busy
<1> QED  BY <1>1, <1>3, <1>4, <1>5, <1>6, <1>8, <1>9, WorkerSteps

LEMMA SaveStep ==
    ASSUME Consistent, NEW w \in Workers, Save(w)
    PROVE  Consistent'
<1> DEFINE q == worker[w]
           p == First(q)
           rest == q.todo \ {p}
           pc == IF p = "thread" THEN "own" ELSE NextPc(q, rest)
           refs == [q.refs EXCEPT ![p] = q.made]
<1>1. /\ Open(q.now) /\ q.pc # "idle" /\ q \in WorkerState
      /\ q.todo \in SUBSET Parts /\ q.todo # {}
      /\ q.made \in 0..nextId /\ Fits(q.made, p)
      /\ q.refs \in Refs /\ RefsFit(q.refs) /\ q.forum \in BOOLEAN
    BY Fields DEF Save, WorkerFits
<1>2. Calm /\ Objects'
    BY NothingRemote DEF Save, Consistent
<1>3. p \in Kinds
    BY <1>1, FirstIsOne DEF Kinds
<1>4. row' \in Row' /\ RowFits'
    BY <1>1, <1>2, <1>3, RefSaved DEF Save, Consistent
<1>5. rest \in SUBSET Parts /\ refs \in Refs /\ RefsFit(refs)
    BY <1>1, <1>3 DEF Refs, RefsFit
<1>6. pc \in {"own", "post", "note", "calendar"} /\ (pc = "post" => rest # {})
    BY WhatIsNext
<1>7. worker' = [worker EXCEPT ![w].todo = rest, ![w].refs[p] = q.made, ![w].made = NoRef, ![w].pc = pc]
    BY DEF Save
<1> HIDE DEF rest, pc
<1>8. worker' = [worker EXCEPT ![w].pc = pc, ![w].todo = rest, ![w].made = NoRef,
                               ![w].refs = refs, ![w].forum = q.forum]
    BY <1>1, <1>7 DEF Consistent, TypeOK, WorkerState
<1> HIDE DEF refs
<1>9. UNCHANGED <<queue, request, versions>> /\ pc \in Busy \ {"refs", "save", "calsave"}
    BY <1>6 DEF Save, Busy
<1> QED  BY <1>1, <1>2, <1>4, <1>5, <1>6, <1>8, <1>9, WorkerSteps

LEMMA OwnStep ==
    ASSUME Consistent, NEW w \in Workers, Own(w)
    PROVE  Consistent'
<1> DEFINE next == NextPc(worker[w], worker[w].todo)
           pc == IF worker[w].forum THEN next ELSE "link"
<1>1. Open(worker[w].now) /\ worker[w].pc \notin {"idle", "save", "calsave"}
    BY Fields DEF Own, WorkerFits
<1>2. Calm /\ Objects'
    BY NothingRemote DEF Own, Consistent
<1>3. row' \in Row' /\ RowFits'
    BY <1>2, OwnedSaved DEF Own, Consistent
<1>4. pc \in {"post", "note", "calendar", "link"} /\ (pc = "post" => worker[w].todo # {}) /\ Step(w, pc)
    BY WhatIsNext DEF Own
<1> HIDE DEF pc
<1> QED  BY <1>1, <1>2, <1>3, <1>4, WorkerStepsOn DEF Own, Busy

LEMMA LinkStep ==
    ASSUME Consistent, NEW w \in Workers, Link(w)
    PROVE  Consistent'
<1> DEFINE ids == {worker[w].refs["announce"]}
           pc == NextPc(worker[w], worker[w].todo)
<1>1. Open(worker[w].now) /\ worker[w].pc \notin {"idle", "save", "calsave"}
    BY Fields DEF Link, WorkerFits
<1>2. \A o \in Live(ids) : o.kind # "calendar"
    BY OnDiscord DEF Live, Parts
<1>3. EditAll(ids, worker[w].now)
    BY DEF Link
<1> HIDE DEF ids
<1>4. Calm /\ Objects'
    BY <1>1, <1>2, <1>3, Edited DEF Link, Open, Consistent
<1>5. row' \in Row' /\ RowFits'
    BY <1>4, RowStays DEF Link, Consistent
<1>6. pc \in {"post", "note", "calendar"} /\ (pc = "post" => worker[w].todo # {}) /\ Step(w, pc)
    BY WhatIsNext DEF Link
<1> HIDE DEF pc
<1> QED  BY <1>1, <1>4, <1>5, <1>6, WorkerStepsOn DEF Link, Busy

LEMMA LeaveNoteStep ==
    ASSUME Consistent, NEW w \in Workers, LeaveNote(w)
    PROVE  Consistent'
<1>1. Open(worker[w].now) /\ worker[w].pc \notin {"idle", "save", "calsave"} /\ worker[w].now \in 0..MaxVer
    BY Fields, KnownBounded DEF LeaveNote, WorkerFits, Open, Consistent
<1>2. PICK said \in SUBSET Live({worker[w].refs["thread"]}) :
         history' = [history EXCEPT !.notes = @ \cup {[thread |-> o.id, ver |-> worker[w].now] : o \in said}]
    BY DEF LeaveNote
<1> DEFINE new == {[thread |-> o.id, ver |-> worker[w].now] : o \in said}
<1>3. \A o \in said : o \in remote /\ o \in Object /\ o.id \in 1..nextId
    BY DEF Live, Consistent, TypeOK, Object
<1>4. new \subseteq Note /\ \A n \in new : n.ver = worker[w].now /\ \E o \in remote : o.id = n.thread
    BY <1>1, <1>3 DEF Note
<1>5. history' = [history EXCEPT !.notes = @ \cup new] /\ history \in History
    BY <1>2 DEF Consistent, TypeOK
<1> HIDE DEF new
<1>6. history' \in History /\ history'.notes = history.notes \cup new
    BY <1>4, <1>5 DEF History
<1>7. /\ UNCHANGED <<row, versions, queue, request, remote, nextId>>
      /\ Object' = Object /\ History' = History
    BY DEF LeaveNote, Object, History, Note
<1>8. Calm /\ Contents'
    BY <1>7 DEF Consistent, TypeOK, Calm, Objects, Contents, ObjectFits, Known, Says
<1>9. NotesFit'
    BY <1>1, <1>4, <1>6, <1>7 DEF Consistent, Objects, NotesFit, Open, Known, Says
<1>10. Objects' /\ row' \in Row' /\ RowFits'
    BY <1>6, <1>7, <1>8, <1>9, RowStays DEF Objects, Consistent
<1> QED  BY <1>1, <1>8, <1>10, WorkerStepsOn DEF LeaveNote, Busy

LEMMA CalendarCreateStep ==
    ASSUME Consistent, NEW w \in Workers, CalendarCreate(w)
    PROVE  Consistent'
<1>1. Known(worker[w].job.upd)
    BY Fields DEF CalendarCreate, WorkerFits, JobKnown
<1> QED  BY <1>1, WorkerMakes DEF CalendarCreate, Kinds

LEMMA CalendarUpdateStep ==
    ASSUME Consistent, NEW w \in Workers, CalendarUpdate(w)
    PROVE  Consistent'
<1> DEFINE ids == {worker[w].job.refs["calendar"]}
<1>1. Known(worker[w].job.upd) /\ RefsFit(worker[w].job.refs)
    BY Fields DEF CalendarUpdate, WorkerFits, JobKnown
<1>2. \A o \in Live(ids) : o.kind = "calendar"
    BY <1>1 DEF Live, RefsFit, Fits, Kinds
<1>3. EditAll(ids, worker[w].job.upd) /\ ~Says(worker[w].job.upd).supC
    BY DEF CalendarUpdate
<1> HIDE DEF ids
<1>4. Calm /\ Objects'
    BY <1>1, <1>2, <1>3, Edited DEF CalendarUpdate, Consistent
<1>5. row' \in Row' /\ RowFits'
    BY <1>4, RowStays DEF CalendarUpdate, Consistent
<1> QED  BY <1>4, <1>5, WorkerRests DEF CalendarUpdate

LEMMA CalendarDeleteStep ==
    ASSUME Consistent, NEW w \in Workers, CalendarDelete(w)
    PROVE  Consistent'
<1>1. Calm /\ Objects'
    BY Removed DEF CalendarDelete, Consistent
<1>2. row' \in Row' /\ RowFits'
    BY <1>1, RowStays DEF CalendarDelete, Consistent
<1>3. CASE worker[w].job.refs["calendar"] = NoRef
    BY <1>1, <1>2, <1>3, WorkerRests DEF CalendarDelete
<1>4. CASE worker[w].job.refs["calendar"] # NoRef
    <2> DEFINE q == [worker[w] EXCEPT !.pc = "calsave"]
    <2>1. worker[w] \in WorkerState /\ WorkerFits(worker[w]) /\ worker[w].pc = "calendar"
        BY Fields DEF CalendarDelete
    <2>2. /\ q \in WorkerState /\ q.pc = "calsave" /\ q.made = worker[w].made
          /\ q.now = worker[w].now /\ q.job = worker[w].job /\ q.refs = worker[w].refs
        BY <2>1 DEF WorkerState, Busy
    <2>3. Become(w, q)
        BY <1>4 DEF CalendarDelete, Step, Become
    <2>4. worker[w].made = NoRef
        BY <2>1 DEF WorkerFits
    <2> HIDE DEF q
    <2>5. WorkerFits(q)
        BY <2>1, <2>2, <2>4, NoRefsFit DEF WorkerFits, Consistent
    <2>6. queue' \in Seq(Job') /\ QueueFits'
        BY <1>1, QueueStays DEF CalendarDelete, Consistent
    <2> QED  BY <1>1, <1>2, <2>2, <2>3, <2>5, <2>6, WorkerBecomes DEF CalendarDelete
<1> QED  BY <1>3, <1>4

LEMMA CalendarSaveStep ==
    ASSUME Consistent, NEW w \in Workers, CalendarSave(w)
    PROVE  Consistent'
<1>1. Calm /\ Objects'
    BY NothingRemote DEF CalendarSave, Consistent
<1>2. Fits(worker[w].made, "calendar") /\ worker[w].made \in 0..nextId
    BY Fields DEF CalendarSave, WorkerFits
<1>3. row' \in Row' /\ RowFits'
    BY <1>1, <1>2, RefSaved DEF CalendarSave, Consistent, Kinds
<1> QED  BY <1>1, <1>3, WorkerRests DEF CalendarSave

LEMMA CalendarCreateFailsStep ==
    ASSUME Consistent, NEW w \in Workers, CalendarCreateFails(w)
    PROVE  Consistent'
<1>1. Known(worker[w].job.upd)
    BY Fields DEF CalendarCreateFails, WorkerFits, JobKnown
<1>2. Calm /\ Objects'
    BY <1>1, WasNotCreated DEF CalendarCreateFails, Consistent, Kinds
<1>3. row' \in Row' /\ RowFits'
    BY <1>2, RowStays DEF CalendarCreateFails, Consistent
<1> QED  BY <1>2, <1>3, WorkerRests DEF CalendarCreateFails

-----------------------------------------------------------------------------
(* ... and the request threads. *)

LEMMA RequestGoesTo ==
    ASSUME Consistent, NEW r \in Requests, request[r].pc # "idle",
           Calm, Objects', row' \in Row', RowFits',
           queue' \in Seq(Job'), QueueFits', UNCHANGED <<worker, versions>>,
           NEW pc \in {"write", "enqueue", "delete", "calendar"},
           pc \in {"write", "enqueue"} => Known(request[r].says),
           Goto(r, pc)
    PROVE  Consistent'
<1> DEFINE q == [request[r] EXCEPT !.pc = pc]
<1>1. request[r] \in RequestState /\ RequestFits(request[r])
    BY Fields
<1>2. /\ q \in RequestState /\ q.pc = pc /\ q.seen = request[r].seen /\ q.thread = request[r].thread
      /\ q.says = request[r].says
    BY <1>1 DEF RequestState
<1>3. request' = [request EXCEPT ![r] = q]
    BY DEF Goto
<1> HIDE DEF q
<1>4. RequestFits(q)
    BY <1>1, <1>2 DEF RequestFits
<1> QED  BY <1>2, <1>3, <1>4, RequestBecomes

LEMMA RequestEnds ==
    ASSUME Consistent, NEW r \in Requests, Calm, Objects', row' \in Row', RowFits',
           queue' \in Seq(Job'), QueueFits', UNCHANGED worker, Done(r)
    PROVE  Consistent'
BY IdleFits, RequestBecomes DEF Done, Consistent

LEMMA CreateStep ==
    ASSUME Consistent, NEW r \in Requests, Create(r)
    PROVE  Consistent'
<1>1. PICK c \in Choices, thread \in {NoRef, Picked} :
         /\ versions' = <<c>>
         /\ row' = [live |-> TRUE, ver |-> 1, owned |-> thread = NoRef,
                    refs |-> [NoRefs EXCEPT !["thread"] = thread]]
         /\ queue' = Append(queue, [NoJob EXCEPT !.kind = "publish", !.upd = 1])
    BY DEF Create
<1> DEFINE job == [NoJob EXCEPT !.kind = "publish", !.upd = 1]
           refs == [NoRefs EXCEPT !["thread"] = thread]
<1>2. /\ 1 \in 0..MaxVer /\ c \in Content /\ versions = <<>> /\ UNCHANGED <<worker, request, remote, nextId, history>>
      /\ remote \subseteq Object /\ nextId \in Nat
    BY PublicationAssumption DEF Create, Consistent, TypeOK
<1>3. /\ Object' = Object /\ versions' \in Seq(Content) /\ Len(versions') = 1 /\ Len(versions) = 0
      /\ Len(versions') <= MaxVer
    BY <1>1, <1>2, PublicationAssumption DEF Object
<1>4. Calm
    BY <1>2, <1>3 DEF Calm
<1>5. /\ \A o \in remote : o = PickedThread
      /\ history.notes = {} /\ history \in History /\ History' = History
    BY <1>2, <1>3 DEF Consistent, Objects, Contents, NotesFit, ObjectFits, Open, Known, History, Note
<1>6. Objects'
    BY <1>2, <1>5 DEF Objects, Contents, NotesFit
<1>7. NoRefs \in Refs /\ RefsFit(NoRefs) /\ Picked \in 0..nextId /\ NoRef \in 0..nextId /\ Known(1)'
    BY <1>3, NoRefsFit, Fields DEF Consistent, Known
<1>8. refs \in Refs /\ RefsFit(refs)
    BY <1>7 DEF RefsFit, Refs, NoRefs, Consistent
<1>9. job \in Job /\ job.refs = NoRefs /\ job.kind = "publish" /\ job.upd = 1
    <2>1. NoJob \in Job
        BY IdleFits DEF Consistent
    <2>2. job.refs = NoRefs /\ job.kind = "publish" /\ job.upd = 1
        BY DEF NoJob
    <2> QED  BY <1>2, <2>1, <2>2 DEF Job
<1>10. RefsFit(job.refs)' /\ JobKnown(job)'
    BY <1>4, <1>7, <1>9, Stays DEF JobKnown, Consistent
<1>11. queue' \in Seq(Job') /\ QueueFits'
    BY <1>1, <1>4, <1>9, <1>10, QueueGrows DEF Consistent
<1>12. row' \in Row' /\ RowFits'
    <2>1. row' \in Row /\ row'.refs = refs /\ row'.ver = 1
        BY <1>1, <1>2, <1>8 DEF Row
    <2>2. Row \subseteq Row'
        BY <1>2, TypesGrow
    <2>3. RefsFit(row.refs)'
        BY <1>4, <1>8, <2>1, Stays DEF Consistent
    <2> QED  BY <1>7, <2>1, <2>2, <2>3 DEF RowFits
<1>13. request[r] \in RequestState /\ RequestFits(request[r]) /\ request' = [request EXCEPT ![r] = request[r]]
    BY <1>2, Fields DEF Consistent, TypeOK
<1> QED  BY <1>2, <1>4, <1>6, <1>11, <1>12, <1>13, RequestBecomes

LEMMA UpdateReadStep ==
    ASSUME Consistent, NEW r \in Requests, UpdateRead(r)
    PROVE  Consistent'
<1>1. PICK c \in Choices, thread \in {row.refs["thread"], Picked} :
         /\ versions' = Append(versions, c)
         /\ request' = [request EXCEPT ![r] =
              [pc |-> IF thread = row.refs["thread"] THEN "write" ELSE "disown",
               seen |-> row, says |-> Len(versions) + 1, thread |-> thread, made |-> NoRef]]
    BY DEF UpdateRead
<1> DEFINE q == [pc |-> IF thread = row.refs["thread"] THEN "write" ELSE "disown",
                 seen |-> row, says |-> Len(versions) + 1, thread |-> thread, made |-> NoRef]
<1>2. /\ UNCHANGED <<row, queue, worker, remote, nextId, history>> /\ row.live
      /\ c \in Content /\ versions \in Seq(Content) /\ Len(versions) < MaxVer /\ MaxVer \in Nat
      /\ remote \subseteq Object /\ nextId \in Nat
    BY PublicationAssumption DEF UpdateRead, Consistent, TypeOK
<1>3. /\ Len(versions) \in Nat /\ versions' \in Seq(Content) /\ Len(versions') = Len(versions) + 1
      /\ \A v \in 1..Len(versions) : versions'[v] = versions[v]
    BY <1>1, <1>2
<1>4. Object' = Object /\ Len(versions') <= MaxVer
    BY <1>2, <1>3 DEF Object
<1>5. Calm
    BY <1>2, <1>3, <1>4 DEF Calm
<1>6. Objects'
    <2>1. History' = History
        BY <1>2 DEF History, Note
    <2>2. Contents'
        BY <1>2, <1>3 DEF Consistent, Objects, Contents, ObjectFits, Known, Says
    <2>3. NotesFit'
        BY <1>2, <1>5, NotesStay DEF Consistent, Objects, NotesFit
    <2> QED  BY <1>2, <2>1, <2>2, <2>3 DEF Consistent, Objects
<1>7. row' \in Row' /\ RowFits' /\ queue' \in Seq(Job') /\ QueueFits'
    BY <1>2, <1>5, RowStays, QueueStays DEF Consistent
<1>8. /\ row \in Row /\ row.refs \in Refs /\ RefsFit(row.refs) /\ Known(row.ver)
      /\ Picked \in 0..nextId /\ NoRef \in 0..nextId
    BY <1>2, Fields DEF Consistent, RowFits
<1>9. thread \in 0..nextId /\ Fits(thread, "thread") /\ Len(versions) + 1 \in 0..MaxVer
    BY <1>2, <1>3, <1>8 DEF Refs, RefsFit, Kinds, Parts, Consistent
<1>10. q \in RequestState /\ q.pc \in {"write", "disown"}
    BY <1>8, <1>9 DEF RequestState
<1>11. request'[r] = q /\ request' = [request EXCEPT ![r] = request'[r]] /\ q \in RequestState'
    <2>1. RequestState \subseteq RequestState'
        BY <1>2, TypesGrow
    <2> QED  BY <1>1, <1>10, <2>1 DEF Consistent, TypeOK
<1>12. RequestFits(request[r])'
    <2>1. RefsFit(row.refs)' /\ Known(row.ver)'
        BY <1>2, <1>5, <1>8, Stays DEF Consistent
    <2>2. \A id \in 0..nextId : Fits(id, "thread") => Fits(id, "thread")'
        BY <1>5, Stays DEF Consistent, Kinds, Parts
    <2>3. request'[r].thread = thread /\ request'[r].seen = row' /\ request'[r].says = Len(versions')
          /\ request'[r].pc \in {"write", "disown"}
        BY <1>2, <1>3, <1>11
    <2>4. Fits(request[r].thread, "thread")'
        BY <1>9, <2>2, <2>3
    <2>5. Known(request[r].says)'
        BY <1>3, <2>3 DEF Known
    <2>6. RefsFit(request[r].seen.refs)' /\ Known(request[r].seen.ver)'
        BY <2>1, <2>3
    <2> QED  BY <2>3, <2>4, <2>5, <2>6 DEF RequestFits
<1> QED  BY <1>2, <1>5, <1>6, <1>7, <1>11, <1>12, RequestMoves

LEMMA DisownStep ==
    ASSUME Consistent, NEW r \in Requests, Disown(r)
    PROVE  Consistent'
<1> DEFINE more == {request[r].seen.refs["thread"]} \ {NoRef}
<1>1. Known(request[r].says) /\ request[r].seen.refs["thread"] \in 0..nextId /\ nextId \in Nat
    BY Fields DEF Disown, RequestFits, Refs, Kinds, Parts, Consistent, TypeOK
<1>2. /\ more \subseteq 1..nextId /\ history' = [history EXCEPT !.left = @ \cup more]
      /\ UNCHANGED <<versions, queue, worker, remote, nextId>>
      /\ Object' = Object /\ History' = History
    BY <1>1 DEF Disown, NoRef, Object, History, Note
<1> HIDE DEF more
<1>3. history' \in History /\ history'.notes = history.notes
    BY <1>2 DEF History, Consistent, TypeOK
<1>4. Calm /\ Contents'
    BY <1>2 DEF Consistent, TypeOK, Calm, Objects, Contents, ObjectFits, Known, Says
<1>5. Objects'
    BY <1>2, <1>3, <1>4, NotesStay DEF Consistent, Objects, NotesFit
<1>6. row' \in Row' /\ RowFits' /\ queue' \in Seq(Job') /\ QueueFits'
    BY <1>4, OwnedSaved, QueueStays DEF Disown, Consistent
<1> QED  BY <1>1, <1>4, <1>5, <1>6, RequestGoesTo DEF Disown

LEMMA UpdateWriteStep ==
    ASSUME Consistent, NEW r \in Requests, UpdateWrite(r)
    PROVE  Consistent'
<1> DEFINE q == request[r]
<1>1. Calm /\ Objects' /\ queue' \in Seq(Job') /\ QueueFits'
    BY NothingRemote, QueueStays DEF UpdateWrite, Consistent
<1>2. /\ Known(q.says) /\ q.says \in 0..MaxVer /\ q.seen.refs \in Refs /\ RefsFit(q.seen.refs)
      /\ q.thread \in 0..nextId /\ Fits(q.thread, "thread") /\ q.pc = "write"
    BY Fields DEF UpdateWrite, RequestFits
<1>3. CASE row.live
    <2> DEFINE refs == [row.refs EXCEPT !["thread"] = q.thread, !["scheduled"] = q.seen.refs["scheduled"]]
    <2>1. row \in Row /\ row.refs \in Refs /\ RefsFit(row.refs)
        BY Fields DEF Consistent, RowFits
    <2>2. refs \in Refs
        BY <1>2, <2>1 DEF Refs, Kinds, Parts
    <2>3. RefsFit(refs)
        BY <1>2, <2>1 DEF Refs, RefsFit
    <2>4. row' \in Row /\ row'.refs = refs /\ row'.ver = q.says
        BY <1>2, <1>3, <2>1, <2>2 DEF UpdateWrite, Row
    <2> HIDE DEF refs
    <2>5. RefsFit(row.refs)' /\ Known(row.ver)'
        BY <1>1, <1>2, <2>2, <2>3, <2>4, Stays DEF Consistent
    <2>6. row' \in Row' /\ RowFits'
        BY <1>1, <2>4, <2>5, TypesGrow DEF RowFits, Calm, Consistent, TypeOK
    <2>7. Goto(r, "enqueue") /\ UNCHANGED <<queue, worker, versions>>
        BY <1>3 DEF UpdateWrite
    <2> QED  BY <1>1, <1>2, <2>6, <2>7, RequestGoesTo
<1>4. CASE ~row.live
    <2>1. row' \in Row' /\ RowFits'
        BY <1>1, <1>4, RowStays DEF UpdateWrite, Consistent
    <2> QED  BY <1>1, <1>4, <2>1, RequestEnds DEF UpdateWrite
<1> QED  BY <1>3, <1>4

LEMMA UpdateEnqueueStep ==
    ASSUME Consistent, NEW r \in Requests, UpdateEnqueue(r)
    PROVE  Consistent'
<1> DEFINE q == request[r]
           job == [kind |-> "change", before |-> q.seen.ver, upd |-> q.says,
                   refs |-> q.seen.refs, owned |-> q.seen.owned]
<1>1. Calm /\ Objects' /\ row' \in Row' /\ RowFits'
    BY NothingRemote, RowStays DEF UpdateEnqueue, Consistent
<1>2. /\ Known(q.says) /\ q.says \in 0..MaxVer /\ q.seen.refs \in Refs /\ RefsFit(q.seen.refs)
      /\ Known(q.seen.ver) /\ q.seen.ver \in 0..MaxVer /\ q.seen \in Row
    BY Fields DEF UpdateEnqueue, RequestFits
<1>3. job \in Job /\ RefsFit(job.refs) /\ JobKnown(job)
    BY <1>2 DEF Job, Row, JobKnown
<1>4. queue' = Append(queue, job)
    BY DEF UpdateEnqueue
<1> HIDE DEF job
<1>5. queue' \in Seq(Job') /\ QueueFits'
    BY <1>1, <1>3, <1>4, JobStays, QueueGrows DEF Consistent
<1> QED  BY <1>1, <1>5, RequestEnds DEF UpdateEnqueue

LEMMA CancelReadStep ==
    ASSUME Consistent, NEW r \in Requests, CancelRead(r)
    PROVE  Consistent'
<1> DEFINE q == [IdleRequest EXCEPT !.pc = "removal", !.seen = row]
<1>1. Calm /\ Objects' /\ row' \in Row' /\ RowFits' /\ queue' \in Seq(Job') /\ QueueFits'
    BY NothingRemote, RowStays, QueueStays DEF CancelRead, Consistent
<1>2. row \in Row /\ RefsFit(row.refs) /\ Known(row.ver)
    BY Fields DEF CancelRead, Consistent, RowFits
<1>3. q \in RequestState /\ RequestFits(q)
    BY <1>2, IdleFits DEF RequestState, RequestFits, IdleRequest, Consistent
<1>4. request' = [request EXCEPT ![r] = q] /\ UNCHANGED worker
    BY DEF CancelRead
<1> HIDE DEF q
<1> QED  BY <1>1, <1>3, <1>4, RequestBecomes

LEMMA CancelEnqueueStep ==
    ASSUME Consistent, NEW r \in Requests, CancelEnqueue(r)
    PROVE  Consistent'
<1> DEFINE seen == request[r].seen
           job == [kind |-> "remove", before |-> seen.ver, upd |-> seen.ver,
                   refs |-> seen.refs, owned |-> row.live => row.owned]
<1>1. Calm /\ Objects' /\ row' \in Row' /\ RowFits'
    BY NothingRemote, RowStays DEF CancelEnqueue, Consistent
<1>2. seen.refs \in Refs /\ RefsFit(seen.refs) /\ Known(seen.ver) /\ seen.ver \in 0..MaxVer
    BY Fields DEF CancelEnqueue, RequestFits
<1>3. job \in Job /\ RefsFit(job.refs) /\ JobKnown(job)
    BY <1>2 DEF Job, JobKnown
<1>4. queue' = Append(queue, job)
    BY DEF CancelEnqueue
<1> HIDE DEF job
<1>5. queue' \in Seq(Job') /\ QueueFits'
    BY <1>1, <1>3, <1>4, JobStays, QueueGrows DEF Consistent
<1> QED  BY <1>1, <1>5, RequestGoesTo DEF CancelEnqueue

LEMMA CancelCalendarStep ==
    ASSUME Consistent, NEW r \in Requests, CancelCalendar(r)
    PROVE  Consistent'
<1>1. Calm /\ Objects'
    BY Removed DEF CancelCalendar, Consistent
<1>2. row' \in Row' /\ RowFits' /\ queue' \in Seq(Job') /\ QueueFits'
    BY <1>1, RowStays, QueueStays DEF CancelCalendar, Consistent
<1> QED  BY <1>1, <1>2, RequestGoesTo DEF CancelCalendar

LEMMA CancelDeleteStep ==
    ASSUME Consistent, NEW r \in Requests, CancelDelete(r)
    PROVE  Consistent'
<1>1. Calm /\ Objects' /\ queue' \in Seq(Job') /\ QueueFits'
    BY NothingRemote, QueueStays DEF CancelDelete, Consistent
<1>2. NoRow \in Row /\ NoRefs \in Refs /\ RefsFit(NoRefs)
    BY IdleFits, NoRefsFit DEF Consistent
<1>3. row' \in Row' /\ row'.refs = NoRefs /\ ~row'.live
    BY <1>1, <1>2, TypesGrow DEF CancelDelete, Calm, Consistent, TypeOK, NoRow
<1>4. RefsFit(row.refs)'
    BY <1>1, <1>2, <1>3, Stays DEF Consistent
<1>5. RowFits'
    BY <1>3, <1>4 DEF RowFits
<1> QED  BY <1>1, <1>3, <1>5, RequestEnds DEF CancelDelete

LEMMA SyncReadStep ==
    ASSUME Consistent, NEW r \in Requests, SyncRead(r)
    PROVE  Consistent'
<1> DEFINE q == [IdleRequest EXCEPT !.pc = "push", !.seen = row]
<1>1. Calm /\ Objects' /\ row' \in Row' /\ RowFits' /\ queue' \in Seq(Job') /\ QueueFits'
    BY NothingRemote, RowStays, QueueStays DEF SyncRead, Consistent
<1>2. row \in Row /\ RefsFit(row.refs) /\ Known(row.ver) /\ WithSync
    BY Fields DEF SyncRead, Consistent, RowFits
<1>3. q \in RequestState /\ RequestFits(q)
    BY <1>2, IdleFits DEF RequestState, RequestFits, IdleRequest, Consistent
<1>4. request' = [request EXCEPT ![r] = q] /\ UNCHANGED worker
    BY DEF SyncRead
<1> HIDE DEF q
<1> QED  BY <1>1, <1>3, <1>4, RequestBecomes

LEMMA SyncCreateStep ==
    ASSUME Consistent, NEW r \in Requests, SyncCreate(r)
    PROVE  Consistent'
<1> DEFINE old == request[r]
           q == [old EXCEPT !.pc = "keep", !.made = nextId + 1]
<1>1. old \in RequestState /\ RequestFits(old) /\ Known(old.seen.ver) /\ RefsFit(old.seen.refs) /\ WithSync
      /\ old.pc = "push"
    BY Fields DEF SyncCreate, RequestFits
<1>2. Calm /\ Objects' /\ (\A j \in Kinds : Fits(nextId, j)' <=> j = "calendar") /\ nextId' = nextId + 1
    BY <1>1, WasCreated DEF SyncCreate, Consistent, Kinds, Created
<1>3. row' \in Row' /\ RowFits' /\ queue' \in Seq(Job') /\ QueueFits'
    BY <1>2, RowStays, QueueStays DEF SyncCreate, Consistent
<1>4. old \in RequestState' /\ nextId + 1 \in 0..nextId'
    BY <1>1, <1>2, TypesGrow DEF Consistent, TypeOK, Calm
<1>5. q \in RequestState' /\ request' = [request EXCEPT ![r] = q]
    BY <1>1, <1>4 DEF SyncCreate, RequestState
<1>6. request'[r] = q /\ request' = [request EXCEPT ![r] = request'[r]]
    BY <1>5 DEF Consistent, TypeOK
<1>7. q.pc = "keep" /\ q.made = nextId' /\ q.seen = old.seen /\ q.thread = old.thread
    BY <1>1, <1>2 DEF RequestState
<1>8. RequestFits(request[r])'
    <2>1. \A x \in RequestState : RequestFits(x) /\ x.pc # "idle" =>
             RefsFit(x.seen.refs)' /\ Fits(x.thread, "thread")' /\ Known(x.seen.ver)'
        BY <1>2, Stays DEF RequestFits, Consistent
    <2>2. request'[r].seen = request[r].seen /\ request'[r].thread = request[r].thread
        BY <1>6, <1>7
    <2>3. RefsFit(request[r].seen.refs)' /\ Fits(request[r].thread, "thread")' /\ Known(request[r].seen.ver)'
        BY <1>1, <2>1, <2>2
    <2>4. Fits(request[r].made, "calendar")'
        BY <1>2, <1>6, <1>7 DEF Kinds
    <2> QED  BY <1>1, <1>6, <1>7, <2>3, <2>4 DEF RequestFits
<1> QED  BY <1>2, <1>3, <1>5, <1>6, <1>8, RequestMoves DEF SyncCreate

LEMMA SyncCreateFailsStep ==
    ASSUME Consistent, NEW r \in Requests, SyncCreateFails(r)
    PROVE  Consistent'
<1>1. Known(request[r].seen.ver) /\ WithSync
    BY Fields DEF SyncCreateFails, RequestFits
<1>2. Calm /\ Objects'
    BY <1>1, WasNotCreated DEF SyncCreateFails, Consistent, Kinds
<1>3. row' \in Row' /\ RowFits' /\ queue' \in Seq(Job') /\ QueueFits'
    BY <1>2, RowStays, QueueStays DEF SyncCreateFails, Consistent
<1> QED  BY <1>2, <1>3, RequestEnds DEF SyncCreateFails

LEMMA SyncUpdateStep ==
    ASSUME Consistent, NEW r \in Requests, SyncUpdate(r)
    PROVE  Consistent'
<1> DEFINE ids == {request[r].seen.refs["calendar"]}
<1>1. Known(request[r].seen.ver) /\ RefsFit(request[r].seen.refs) /\ WithSync
    BY Fields DEF SyncUpdate, RequestFits
<1>2. \A o \in Live(ids) : o.kind = "calendar"
    BY <1>1 DEF Live, RefsFit, Fits, Kinds
<1>3. EditAll(ids, request[r].seen.ver)
    BY DEF SyncUpdate
<1> HIDE DEF ids
<1>4. Calm /\ Objects'
    BY <1>1, <1>2, <1>3, Edited DEF SyncUpdate, Consistent
<1>5. row' \in Row' /\ RowFits' /\ queue' \in Seq(Job') /\ QueueFits'
    BY <1>4, RowStays, QueueStays DEF SyncUpdate, Consistent
<1> QED  BY <1>4, <1>5, RequestEnds DEF SyncUpdate

LEMMA SyncKeepStep ==
    ASSUME Consistent, NEW r \in Requests, SyncKeep(r)
    PROVE  Consistent'
<1>1. Calm /\ Objects' /\ queue' \in Seq(Job') /\ QueueFits'
    BY NothingRemote, QueueStays DEF SyncKeep, Consistent
<1>2. Fits(request[r].made, "calendar") /\ request[r].made \in 0..nextId
    BY Fields DEF SyncKeep, RequestFits
<1>3. row' \in Row' /\ RowFits'
    BY <1>1, <1>2, RefSaved DEF SyncKeep, Consistent, Kinds
<1> QED  BY <1>1, <1>3, RequestEnds DEF SyncKeep

-----------------------------------------------------------------------------
LEMMA InitConsistent == Init => Consistent
<1> SUFFICES ASSUME Init PROVE Consistent
    OBVIOUS
<1>1. /\ nextId = 1 /\ remote = {PickedThread} /\ queue = <<>> /\ versions = <<>> /\ row = NoRow
      /\ history = [left |-> {}, behind |-> {}, missed |-> {}, notes |-> {}]
    BY DEF Init, Picked
<1>2. 0 \in 0..MaxVer /\ 0 \in 0..nextId /\ 1 \in 1..nextId
    BY <1>1, PublicationAssumption
<1>3. NoRefs \in Refs
    BY <1>2 DEF NoRefs, Refs, NoRef
<1>4. NoRow \in Row /\ NoJob \in Job
    BY <1>2, <1>3 DEF NoRow, Row, NoJob, Job
<1>5. IdleWorker \in WorkerState /\ IdleRequest \in RequestState
    BY <1>2, <1>3, <1>4, PublicationAssumption DEF IdleWorker, WorkerState, IdleRequest, RequestState, NoRef
<1>6. PickedThread \in Object
    BY <1>2 DEF PickedThread, Object, Picked, Kinds, Parts
<1>7. TypeOK
    <2>1. versions \in Seq(Content) /\ queue \in Seq(Job) /\ Len(versions) = 0 /\ MaxVer \in Nat
        BY <1>1, PublicationAssumption
    <2>2. history \in History
        BY <1>1 DEF History
    <2> QED  BY <1>1, <1>4, <1>5, <1>6, <2>1, <2>2 DEF TypeOK, Init
<1>8. \A w \in Workers : WorkerFits(worker[w])
    BY <1>7, IdleFits DEF Init
<1>9. \A r \in Requests : RequestFits(request[r])
    BY <1>7, IdleFits DEF Init
<1>10. RowFits /\ QueueFits /\ Objects
    BY <1>1, <1>7, NoRefsFit DEF RowFits, QueueFits, Objects, Contents, NotesFit, NoRow, TypeOK
<1>11. Fits(Picked, "thread") /\ nextId >= Picked
    BY <1>1 DEF Fits, PickedThread, Picked
<1> QED  BY <1>7, <1>8, <1>9, <1>10, <1>11 DEF Consistent

LEMMA NextConsistent ==
    ASSUME Consistent, [Next]_vars
    PROVE  Consistent'
<1>1. CASE UNCHANGED vars
    <2>1. UNCHANGED <<row, versions, queue, worker, request, remote, nextId, history>>
        BY <1>1 DEF vars
    <2>2. Calm /\ Objects' /\ row' \in Row' /\ RowFits' /\ queue' \in Seq(Job') /\ QueueFits'
        BY <2>1, NothingRemote, RowStays, QueueStays DEF Consistent
    <2>3. Row' = Row /\ Job' = Job /\ WorkerState' = WorkerState /\ RequestState' = RequestState /\ Object' = Object
          /\ History' = History
        BY <2>1 DEF Row, Refs, Job, WorkerState, RequestState, Object, History, Note
    <2>4. TypeOK'
        BY <2>1, <2>2, <2>3 DEF Consistent, TypeOK
    <2>5. (\A w \in Workers : WorkerFits(worker[w])') /\ (\A r \in Requests : RequestFits(request[r])')
        BY <2>1, <2>2, Fields, Stays DEF Consistent
    <2> QED  BY <2>2, <2>4, <2>5, PickedStays DEF Consistent
<1>2. ASSUME NEW r \in Requests, RequestStep(r)
      PROVE  Consistent'
    BY <1>2, CreateStep, UpdateReadStep, CancelReadStep, SyncReadStep, DisownStep, UpdateWriteStep,
       UpdateEnqueueStep, CancelEnqueueStep, CancelCalendarStep, CancelDeleteStep, SyncCreateStep,
       SyncCreateFailsStep, SyncUpdateStep, SyncKeepStep
    DEF RequestStep
<1>3. ASSUME NEW w \in Workers, WorkerStep(w)
      PROVE  Consistent'
    BY <1>3, TakeStep, FindStep, LookUpStep, EditStep, MoveStep, UnrefStep, TakedownStep, ClearStep,
       PostStep, PostFailsStep, SaveStep, OwnStep, LinkStep, LeaveNoteStep, CalendarCreateStep, CalendarCreateFailsStep,
       CalendarUpdateStep, CalendarDeleteStep, CalendarSaveStep
    DEF WorkerStep
<1> QED  BY <1>1, <1>2, <1>3 DEF Next

(* Ids, versions and what each thread carries fit together, whatever         *)
(* overlaps: two workers, requests that do not wait, calls that fail.        *)
THEOREM AlwaysConsistent == Spec => []Consistent
BY InitConsistent, NextConsistent, PTL DEF Spec

(* Every value has its type: no more versions than were written, no id that  *)
(* no service handed out, and an idle worker holds nothing of its last job.  *)
THEOREM TypesHold == Spec => []TypeOK
<1>1. Consistent => TypeOK
    BY DEF Consistent
<1> QED  BY <1>1, AlwaysConsistent, PTL

(* Nothing on Discord, an update note neither, ever shows a version whose    *)
(* author kept it off, and nothing in the calendar one kept off the          *)
(* calendar, whatever overlaps and whichever calls fail.                     *)
THEOREM SuppressedStaysHidden == Spec => []NeverShowsSuppressed
<1>1. Consistent => NeverShowsSuppressed
    BY DEF Consistent, Objects, Contents, NotesFit, Open, ObjectFits, NeverShowsSuppressed
<1> QED  BY <1>1, AlwaysConsistent, PTL


-----------------------------------------------------------------------------
(* The invariant of requests that wait: one thing at a time, and at each of  *)
(* its steps the row, the remote objects, what is known to have failed and   *)
(* what it carries agree.                                                    *)

IdleBut(ws, rs) ==
    /\ \A w \in Workers \ ws : worker[w].pc = "idle"
    /\ \A r \in Requests \ rs : request[r].pc = "idle"

Has(k) == row.refs[k] \notin {NoRef, Picked}
Exists(k) == Has(k) => \E o \in remote : o.id = row.refs[k] /\ o.kind = k
\* ... and shows v, unless the last edit of it failed.
UpToDate(o, v) == o.ver = v \/ o.id \in history.behind
Shows(k, v) == Has(k) => \E o \in remote : o.id = row.refs[k] /\ o.kind = k /\ UpToDate(o, v)
Covered(more) == \A o \in Ours : o.id \in Referenced \cup more

\* Nothing on Discord, but for a thread that was picked.
Bare == \A k \in Parts : row.refs[k] = NoRef \/ (k = "thread" /\ row.refs[k] = Picked)

\* Where version v wants its parts.
PlacedFor(v) ==
    /\ Says(v).supD => Bare
    /\ Says(v).scope = "lug" => row.refs["chapter"] = NoRef
    /\ "scheduled" \in Switched =>
          Says(v).supD \/ row.refs["scheduled"] # NoRef \/ "scheduled" \in history.missed

Posted(v) == Open(v) /\ PlacedFor(v)

CalendarAsked == row.refs["calendar"] = NoRef => Says(row.ver).supC \/ "calendar" \in history.missed

\* A picked thread isn't ours, and only a picked one isn't.
NotOurs(refs, owned) == refs["thread"] = Picked => ~owned
Owned(refs, owned) == owned \/ refs["thread"] \in {NoRef, Picked}

\* What remove_event needs to find everything.
Removable(refs, owned, v) ==
    /\ Known(v)
    /\ NotOurs(refs, owned) /\ Owned(refs, owned)
    /\ Says(v).scope = "lug" => refs["chapter"] = NoRef

Kept(more) ==
    /\ row.live /\ NotOurs(row.refs, row.owned)
    /\ PlacedFor(row.ver)
    /\ \A k \in Kinds : Shows(k, row.ver)
    /\ Covered(more)
Settled == Kept({}) /\ Owned(row.refs, row.owned) /\ CalendarAsked

AtRest ==
    /\ queue = <<>> /\ IdleBut({}, {})
    /\ IF row.live THEN Settled ELSE Ours = {}

\* A change written and not yet carried out.
Waiting(kind, before, upd, calendar) ==
    /\ row.live /\ upd = row.ver /\ calendar = row.refs["calendar"]
    /\ IF kind = "publish" THEN Bare ELSE kind = "change" /\ PlacedFor(before)
    /\ NotOurs(row.refs, row.owned) /\ Owned(row.refs, row.owned)
    /\ \A k \in Kinds : Exists(k)
    /\ Covered({})
WaitingJob(job) == Waiting(job.kind, job.before, job.upd, job.refs["calendar"])

RequestAt(q) ==
    CASE q.pc = "disown" -> Settled /\ q.seen = row /\ q.thread = Picked
      [] q.pc = "write" ->
            /\ q.seen.ver = row.ver /\ q.seen.refs = row.refs /\ Kept({})
            /\ \/ q.thread = row.refs["thread"] /\ Owned(row.refs, row.owned)
               \/ q.thread = Picked /\ ~row.owned
                  /\ row.refs["thread"] \in history.left \cup {NoRef}
      [] q.pc = "enqueue" -> Waiting("change", q.seen.ver, q.says, q.seen.refs["calendar"])
      [] q.pc \in {"push", "removal"} -> Settled /\ q.seen = row
      [] q.pc = "keep" ->
            /\ Kept({q.made}) /\ Owned(row.refs, row.owned)
            /\ row.refs["calendar"] = NoRef /\ q.made > Picked
            /\ [id |-> q.made, kind |-> "calendar", ver |-> row.ver] \in remote
      [] OTHER -> FALSE

Requesting(r) ==
    /\ queue = <<>> /\ IdleBut({}, {r})
    /\ RequestAt(request[r])

Queued ==
    /\ Len(queue) = 1 /\ IdleBut({}, {})
    /\ WaitingJob(queue[1])

\* The parts posted so far and those to come are all that version v wants.
Posting(q) ==
    /\ \A k \in Parts : Shows(k, q.now)
    /\ \A k \in q.todo : row.refs[k] = NoRef
    /\ Says(q.now).scope = "lug" => row.refs["chapter"] = NoRef /\ "chapter" \notin q.todo
    /\ "scheduled" \in Switched =>
          \/ "scheduled" \in q.todo \/ row.refs["scheduled"] # NoRef
          \/ "scheduled" \in history.missed

\* No object of ours is left in the places ks of the row.
Gone(ks) == \A o \in Ours, k \in ks : o.id # row.refs[k]

WorkerAt(q) ==
    CASE q.pc = "find" -> WaitingJob(q.job)
      [] q.pc = "refs" -> WaitingJob(q.job) /\ q.now = row.ver
      [] q.pc = "edit" -> /\ Posted(q.job.before) /\ Covered({})
                          /\ \A k \in Parts : Exists(k)
                          /\ q.refs = row.refs /\ q.owned = row.owned
                          /\ Owned(row.refs, row.owned)
      [] q.pc = "move" -> /\ Posted(q.job.before) /\ Covered({})
                          /\ q.refs = row.refs
                          /\ Shows("scheduled", q.now) /\ Shows("thread", q.now)
                          /\ Owned(row.refs, row.owned)
      [] q.pc = "unref" -> /\ Posted(q.job.before) /\ Covered({}) /\ Gone({"announce", "chapter"})
                           /\ Shows("scheduled", q.now) /\ Shows("thread", q.now)
                           /\ Owned(row.refs, row.owned)
      [] q.pc = "takedown" -> /\ Covered({})
                              /\ q.refs = row.refs /\ Says(q.now).supD
                              /\ Removable(q.refs, q.owned, q.job.before)
      [] q.pc = "clear" -> Covered({}) /\ Gone(Parts) /\ Says(q.now).supD
      [] q.pc = "post" -> Posting(q) /\ Covered({}) /\ Owned(row.refs, row.owned)
      [] q.pc = "save" -> /\ Posting(q) /\ Covered({q.made}) /\ Owned(row.refs, row.owned)
                          /\ q.made > Picked
                          /\ [id |-> q.made, kind |-> First(q), ver |-> q.now] \in remote
      [] q.pc = "own" -> Posting(q) /\ Covered({}) /\ row.refs["thread"] # Picked
      [] q.pc = "link" -> Posting(q) /\ Covered({}) /\ Owned(row.refs, row.owned)
      [] q.pc \in {"note", "calendar"} -> /\ PlacedFor(row.ver) /\ Covered({}) /\ Owned(row.refs, row.owned)
                              /\ \A k \in Parts : Shows(k, row.ver)
      [] q.pc = "calsave" ->
            /\ PlacedFor(row.ver) /\ Covered({q.made}) /\ Owned(row.refs, row.owned)
            /\ \A k \in Parts : Shows(k, row.ver)
            /\ IF q.made = NoRef
               THEN Says(row.ver).supC /\ Gone({"calendar"})
               ELSE /\ row.refs["calendar"] = NoRef /\ q.made > Picked
                    /\ [id |-> q.made, kind |-> "calendar", ver |-> row.ver] \in remote
      [] OTHER -> FALSE

Working(w) ==
    /\ queue = <<>> /\ IdleBut({w}, {})
    /\ row.live /\ NotOurs(row.refs, row.owned)
    /\ worker[w].job.upd = row.ver
    /\ worker[w].job.refs["calendar"] = row.refs["calendar"]
    /\ worker[w].job.kind # "remove"
    /\ worker[w].pc \notin {"find", "refs", "calsave"} => Exists("calendar")
    /\ worker[w].pc \notin {"find", "calendar", "calsave"} => worker[w].now = row.ver
    /\ WorkerAt(worker[w])

\* cancel: the removal of the posts, and the request that deletes the entry and the row.
PartIds(refs) == {refs[k] : k \in Parts}
Cancelling(r) == request[r].pc \in {"calendar", "delete"}
TakingDown(w) == worker[w].pc = "takedown"
RemovalsWait ==
    /\ Len(queue) <= 1
    /\ \A i \in 1..Len(queue) :
          queue[i].kind = "remove" /\ Removable(queue[i].refs, queue[i].owned, queue[i].before)
RemovalsRun ==
    \A w \in Workers : worker[w].pc # "idle" =>
        /\ queue = <<>> /\ IdleBut({w}, Requests)
        /\ worker[w].pc \in {"takedown", "clear"} /\ worker[w].job.kind = "remove"
        /\ Removable(worker[w].refs, worker[w].owned, worker[w].job.before)
OneDeletes == \A r \in Requests : request[r].pc # "idle" => Cancelling(r) /\ IdleBut(Workers, {r})
LiveOnlyMeanwhile == row.live => \E r \in Requests : Cancelling(r)
EachIsComingDown ==
    \A o \in Ours :
        \/ \E r \in Requests : request[r].pc = "calendar" /\ o.id = request[r].seen.refs["calendar"]
        \/ \E i \in 1..Len(queue) : o.id \in PartIds(queue[i].refs)
        \/ \E w \in Workers : TakingDown(w) /\ o.id \in PartIds(worker[w].refs)
Removing == RemovalsWait /\ RemovalsRun /\ OneDeletes /\ LiveOnlyMeanwhile /\ EachIsComingDown

Phase ==
    \/ AtRest
    \/ \E r \in Requests : Requesting(r)
    \/ Queued
    \/ \E w \in Workers : Working(w)
    \/ Removing
Orderly == PickedThreadUntouched /\ Phase

-----------------------------------------------------------------------------
(* Lemmas about the remote calls: what stays, and what there is after them.  *)

LEMMA HistoryFields ==
    ASSUME Consistent
    PROVE  /\ history \in History /\ NotesFit
           /\ history = [left |-> history.left, behind |-> history.behind,
                         missed |-> history.missed, notes |-> history.notes]
BY DEF Consistent, TypeOK, Objects, History

\* An edit shows v by every id it is given, or leaves it on record as behind.
LEMMA AfterEdit ==
    ASSUME Consistent, NEW ids, NEW v \in 0..MaxVer, EditAll(ids, v)
    PROVE  /\ history'.left = history.left /\ history'.missed = history.missed
           /\ \A o \in remote : UpToDate(o, v) =>
                    \E p \in remote' : p.id = o.id /\ p.kind = o.kind /\ UpToDate(p, v)'
           /\ \A o \in remote : o.id \in ids =>
                    \E p \in remote' : p.id = o.id /\ p.kind = o.kind /\ UpToDate(p, v)'
           /\ \A o \in remote : \E p \in remote' : p.id = o.id /\ p.kind = o.kind
           /\ \A o \in remote' : \E p \in remote : p.id = o.id /\ p.kind = o.kind
           /\ \A o \in remote : o.id \notin ids => o \in remote'
<1>1. PICK kept \in Refused(ids) :
         /\ remote' = Showing(ids \ kept, v)
         /\ history' = [history EXCEPT !.behind = (@ \ ids) \cup kept]
    BY DEF EditAll
<1>2. kept \subseteq ids
    BY DEF Refused, Live
<1>3. /\ history'.left = history.left /\ history'.missed = history.missed
      /\ history'.behind = (history.behind \ ids) \cup kept
    BY <1>1, HistoryFields DEF History
<1>4. \A o \in remote : o \in Object
    BY DEF Consistent, TypeOK
<1>5. \A o \in remote : /\ [o EXCEPT !.ver = v].ver = v
                         /\ [o EXCEPT !.ver = v].id = o.id /\ [o EXCEPT !.ver = v].kind = o.kind
    BY <1>4 DEF Object
<1>6. \A o \in remote : IF o.id \in ids \ kept THEN [o EXCEPT !.ver = v] \in remote' ELSE o \in remote'
    BY <1>1 DEF Showing, Without, Live
<1>7. \A o \in remote' : o \in remote \/ \E p \in remote : o = [p EXCEPT !.ver = v]
    BY <1>1 DEF Showing, Without, Live
<1>8. \A o \in remote : \E p \in remote' : p.id = o.id /\ p.kind = o.kind
    BY <1>5, <1>6
<1>9. \A o \in remote' : \E p \in remote : p.id = o.id /\ p.kind = o.kind
    <2> SUFFICES ASSUME NEW o \in remote', o \notin remote
                 PROVE  \E p \in remote : p.id = o.id /\ p.kind = o.kind
        OBVIOUS
    <2>1. PICK p \in remote : o = [p EXCEPT !.ver = v]
        BY <1>7
    <2> QED  BY <1>5, <2>1
<1>10. ASSUME NEW o \in remote, o.id \in ids
       PROVE  \E p \in remote' : p.id = o.id /\ p.kind = o.kind /\ UpToDate(p, v)'
    <2>1. CASE o.id \in kept
        BY <1>3, <1>6, <2>1 DEF UpToDate
    <2>2. CASE o.id \notin kept
        BY <1>5, <1>6, <1>10, <2>2 DEF UpToDate
    <2> QED  BY <2>1, <2>2
<1>11. ASSUME NEW o \in remote, UpToDate(o, v)
       PROVE  \E p \in remote' : p.id = o.id /\ p.kind = o.kind /\ UpToDate(p, v)'
    <2>1. CASE o.id \in ids
        BY <1>10, <2>1
    <2>2. CASE o.id \notin ids
        BY <1>3, <1>6, <1>11, <2>2 DEF UpToDate
    <2> QED  BY <2>1, <2>2
<1>12. \A o \in remote : o.id \notin ids => o \in remote'
    BY <1>6
<1> QED  BY <1>3, <1>8, <1>9, <1>10, <1>11, <1>12

\* ... so what the row shows it goes on showing.
LEMMA StillShows ==
    ASSUME Consistent, NEW ids, NEW v \in 0..MaxVer, EditAll(ids, v), UNCHANGED row
    PROVE  /\ \A k \in Kinds : Shows(k, v) => Shows(k, v)'
           /\ \A k \in Kinds : Exists(k) => Exists(k)'
           /\ \A k \in Kinds : Exists(k) /\ row.refs[k] \in ids => Shows(k, v)'
BY AfterEdit DEF Shows, Exists, Has

\* A removal leaves nothing of ours by the ids it is given: what it fails on
\* is on record.
LEMMA AfterRemoval ==
    ASSUME Consistent, NEW ids, RemoveAll(ids)
    PROVE  /\ \A o \in remote' : o \in remote
           /\ \A o \in remote : o.id \notin ids => o \in remote'
           /\ \A o \in Ours' : o \in Ours /\ o.id \notin ids
           /\ history.left \subseteq history'.left /\ history'.missed = history.missed
           /\ history'.behind = history.behind \ ids
<1>1. PICK kept \in Refused(ids) :
         /\ remote' = Without(ids \ kept)
         /\ history' = [history EXCEPT !.left = @ \cup kept, !.behind = @ \ ids,
                                       !.notes = {n \in @ : n.thread \notin ids \ kept}]
    BY DEF RemoveAll
<1>2. /\ history'.left = history.left \cup kept /\ history'.missed = history.missed
      /\ history'.behind = history.behind \ ids
    BY <1>1, HistoryFields DEF History
<1>3. \A o : o \in remote' <=> o \in remote /\ o.id \notin ids \ kept
    BY <1>1 DEF Without
<1> QED  BY <1>2, <1>3 DEF Ours

\* A creation adds an object; a failed one perhaps one on record as not ours.
LEMMA AfterCreation ==
    ASSUME Consistent, NEW k, NEW v, Created(k, v)
    PROVE  /\ remote' = remote \cup {Make(k, v)} /\ nextId' = nextId + 1
           /\ Make(k, v) = [id |-> nextId + 1, kind |-> k, ver |-> v]
           /\ history'.left = history.left /\ history'.missed = history.missed \ {k}
           /\ history'.behind = history.behind
           /\ nextId + 1 > Picked /\ nextId + 1 # NoRef
BY HistoryFields DEF Created, History, Make, Consistent, TypeOK, Picked, NoRef

LEMMA AfterFailure ==
    ASSUME Consistent, NEW k, NEW v, MakeFails(k, v)
    PROVE  /\ \A o \in remote : o \in remote'
           /\ \A o \in Ours' : o \in Ours
           /\ history'.missed = history.missed \cup {k} /\ history'.behind = history.behind
           /\ history.left \subseteq history'.left
<1>1. CASE history' = [history EXCEPT !.missed = @ \cup {k}] /\ UNCHANGED <<remote, nextId>>
    BY <1>1, HistoryFields DEF History, Ours
<1>2. CASE /\ remote' = remote \cup {Make(k, v)} /\ nextId' = nextId + 1
           /\ history' = [history EXCEPT !.missed = @ \cup {k}, !.left = @ \cup {nextId + 1}]
    <2>1. /\ history'.missed = history.missed \cup {k} /\ history'.behind = history.behind
          /\ history'.left = history.left \cup {nextId + 1} /\ Make(k, v).id = nextId + 1
        BY <1>2, HistoryFields DEF History, Make
    <2> QED  BY <1>2, <2>1 DEF Ours
<1> QED  BY <1>1, <1>2 DEF MakeFails

\* What is there already goes on being shown beside what is added.
LEMMA ShowsMore ==
    ASSUME UNCHANGED row, \A o \in remote : o \in remote', history'.behind = history.behind
    PROVE  \A k, v : (Shows(k, v) => Shows(k, v)') /\ (Exists(k) => Exists(k)')
BY DEF Shows, Exists, Has, UpToDate

\* Only the row's thread can be the picked one.
LEMMA OnlyThreads ==
    ASSUME Consistent, PickedThreadUntouched, NEW refs, RefsFit(refs), NEW k \in Kinds, refs[k] = Picked
    PROVE  k = "thread"
BY DEF PickedThreadUntouched, PickedThread, RefsFit, Fits

\* Two places of the row that both exist hold different ids.
LEMMA PlacesDiffer ==
    ASSUME Consistent, NEW refs, RefsFit(refs), NEW j \in Kinds, NEW k \in Kinds, j # k,
           NEW o \in remote, o.id = refs[j]
    PROVE  o.id # refs[k]
BY DEF RefsFit, Fits

LEMMA ObjectIds ==
    ASSUME Consistent
    PROVE  /\ \A o \in remote : o.id \in 1..nextId /\ o.kind \in Kinds
           /\ NoRef = 0 /\ nextId \in Nat /\ nextId >= 1 /\ Picked = 1
BY DEF Consistent, TypeOK, Object, NoRef, Picked

-----------------------------------------------------------------------------
(* One thing at a time. *)

LEMMA WhoWorks ==
    ASSUME Phase, NEW w \in Workers, worker[w].pc # "idle"
    PROVE  Working(w) \/ Removing
<1>1. ASSUME NEW x \in Workers, Working(x)
      PROVE  Working(w)
    BY <1>1 DEF Working, IdleBut
<1> QED  BY <1>1 DEF Phase, AtRest, Requesting, Queued, IdleBut

LEMMA WhoAsks ==
    ASSUME Phase, NEW r \in Requests, request[r].pc # "idle"
    PROVE  Requesting(r) \/ Removing
<1>1. ASSUME NEW x \in Requests, Requesting(x)
      PROVE  Requesting(r)
    BY <1>1 DEF Requesting, IdleBut
<1> QED  BY <1>1 DEF Phase, AtRest, Working, Queued, IdleBut

\* A job that isn't the removal of a deleted event is the only thing under way.
LEMMA WorksAlone ==
    ASSUME Phase, NEW w \in Workers, worker[w].pc \notin {"idle", "takedown", "clear"}
    PROVE  Working(w)
<1>1. Working(w) \/ Removing
    BY WhoWorks
<1>2. ~Removing
    BY DEF Removing, RemovalsRun
<1> QED  BY <1>1, <1>2

LEMMA AsksAlone ==
    ASSUME Phase, NEW r \in Requests, request[r].pc \notin {"idle", "calendar", "delete"}
    PROVE  Requesting(r)
<1>1. Requesting(r) \/ Removing
    BY WhoAsks
<1>2. ~Removing
    BY DEF Removing, OneDeletes, Cancelling
<1> QED  BY <1>1, <1>2

LEMMA QuietIsRest ==
    ASSUME Consistent, Phase, Quiet
    PROVE  AtRest
<1>1. \A r \in Requests : ~Requesting(r)
    BY DEF Requesting, RequestAt, Quiet
<1>2. \A w \in Workers : ~Working(w)
    BY DEF Working, WorkerAt, Quiet
<1>3. ~Queued
    BY DEF Queued, Quiet
<1>4. CASE Removing
    <2>1. ~row.live
        BY <1>4 DEF Removing, LiveOnlyMeanwhile, Cancelling, Quiet
    <2>2. Ours = {}
        BY <1>4 DEF Removing, RemovalsWait, EachIsComingDown, TakingDown, Quiet
    <2> QED  BY <2>1, <2>2 DEF AtRest, IdleBut, Quiet
<1> QED  BY <1>1, <1>2, <1>3, <1>4 DEF Phase

LEMMA StillAlone ==
    ASSUME Consistent, NEW w \in Workers, Working(w),
           worker' = [worker EXCEPT ![w] = worker'[w]], UNCHANGED <<queue, request>>
    PROVE  /\ queue' = <<>> /\ IdleBut({w}, {})'
           /\ worker'[w].pc = "idle" => IdleBut({}, {})'
BY DEF Consistent, TypeOK, Working, IdleBut

-----------------------------------------------------------------------------
(* What a change asks for, by what the row holds. *)

LEMMA BareIsPlaced ==
    ASSUME Bare
    PROVE  /\ \A v : Says(v).supD => PlacedFor(v)
           /\ \A k \in Parts : \A v : Shows(k, v)
BY DEF Bare, PlacedFor, Shows, UpToDate, Has, Parts, NoRef, Picked

LEMMA NothingAsked ==
    ASSUME NEW job, WaitingJob(job), Intent(job, row.ver) = "nothing"
    PROVE  Says(row.ver).supD /\ Bare
BY DEF WaitingJob, Waiting, Intent, PlacedFor

LEMMA PublishAsked ==
    ASSUME NEW job, WaitingJob(job), Intent(job, row.ver) = "publish"
    PROVE  ~Says(row.ver).supD /\ Bare
BY DEF WaitingJob, Waiting, Intent, PlacedFor

LEMMA ChangeAsked ==
    ASSUME NEW job, WaitingJob(job), NEW i \in {"remove", "update"}, Intent(job, row.ver) = i
    PROVE  /\ PlacedFor(job.before) /\ job.kind = "change"
           /\ i = "remove" <=> Says(row.ver).supD
           /\ ~Says(job.before).supD
BY DEF WaitingJob, Waiting, Intent

-----------------------------------------------------------------------------
(* Each step of a job that is carried out alone. *)

LEMMA WorksOn ==
    ASSUME Consistent, NEW w \in Workers, Working(w),
           worker' = [worker EXCEPT ![w] = worker'[w]], UNCHANGED <<queue, request>>,
           worker'[w].job = worker[w].job,
           row'.live, row'.ver = row.ver, row'.refs["calendar"] = row.refs["calendar"],
           NotOurs(row.refs, row.owned)',
           worker'[w].pc \notin {"find", "refs", "calsave"} => Exists("calendar")',
           worker'[w].pc \notin {"find", "calendar", "calsave"} => worker'[w].now = row.ver,
           WorkerAt(worker[w])'
    PROVE  Working(w)'
<1>1. queue' = <<>> /\ IdleBut({w}, {})'
    BY StillAlone
<1> QED  BY <1>1 DEF Working

LEMMA RestsSettled ==
    ASSUME Consistent, NEW w \in Workers, Working(w),
           Rest(w), UNCHANGED <<queue, request>>, Settled'
    PROVE  AtRest'
<1>1. worker' = [worker EXCEPT ![w] = worker'[w]] /\ worker'[w].pc = "idle"
    BY DEF Rest, Become, IdleWorker, Consistent, TypeOK
<1>2. queue' = <<>> /\ IdleBut({}, {})'
    BY <1>1, StillAlone
<1>3. row'.live
    BY DEF Settled, Kept
<1> QED  BY <1>2, <1>3 DEF AtRest

LEMMA FindWorks ==
    ASSUME Consistent, NEW w \in Workers, Working(w), Find(w)
    PROVE  Working(w)'
<1> DEFINE q == worker[w]
           pc == IF Intent(q.job, row.ver) = "nothing" THEN "calendar" ELSE "refs"
<1>1. /\ row.live /\ WaitingJob(q.job) /\ q.pc = "find" /\ NotOurs(row.refs, row.owned)
    BY DEF Working, Find, WorkerAt
<1>2. /\ worker' = [worker EXCEPT ![w] = worker'[w]] /\ worker'[w].pc = pc
      /\ worker'[w].now = row.ver /\ worker'[w].job = q.job
      /\ UNCHANGED <<row, versions, queue, request, remote, nextId, history>>
    BY <1>1, Fields DEF Find, Consistent, TypeOK, WorkerState
<1>3. Exists("calendar")' /\ NotOurs(row.refs, row.owned)'
    BY <1>1, <1>2 DEF WaitingJob, Waiting, Exists, Has, Kinds, NotOurs
<1>4. CASE pc = "calendar"
    <2>1. Says(row.ver).supD /\ Bare
        BY <1>1, <1>4, NothingAsked
    <2>2. PlacedFor(row.ver) /\ \A k \in Parts : Shows(k, row.ver)
        BY <2>1, BareIsPlaced
    <2>3. Covered({}) /\ Owned(row.refs, row.owned)
        BY <1>1 DEF WaitingJob, Waiting
    <2>4. /\ PlacedFor(row.ver)' /\ Covered({})' /\ Owned(row.refs, row.owned)'
          /\ \A k \in Parts : Shows(k, row.ver)'
        BY <1>2, <2>2, <2>3 DEF PlacedFor, Bare, Says, Covered, Ours, Referenced, Owned, Shows, UpToDate, Has
    <2>5. WorkerAt(worker[w])'
        BY <1>2, <1>4, <2>4 DEF WorkerAt
    <2> QED  BY <1>1, <1>2, <1>3, <2>5, WorksOn
<1>5. CASE pc = "refs"
    <2>1. WaitingJob(worker[w].job)'
        BY <1>1, <1>2 DEF WaitingJob, Waiting, Bare, PlacedFor, Says, NotOurs, Owned, Exists, Has,
              Covered, Ours, Referenced
    <2>2. WorkerAt(worker[w])'
        BY <1>2, <1>5, <2>1 DEF WorkerAt
    <2> QED  BY <1>1, <1>2, <1>3, <1>5, <2>2, WorksOn
<1> QED  BY <1>4, <1>5

LEMMA LookUpWorks ==
    ASSUME Consistent, NEW w \in Workers, Working(w), LookUp(w)
    PROVE  Working(w)'
<1> DEFINE q == worker[w]
           i == Intent(q.job, q.now)
           plan == IF i = "publish" THEN PublishPlan(row.refs, q.now) ELSE {}
<1>1. /\ row.live /\ WaitingJob(q.job) /\ q.pc = "refs" /\ q.now = row.ver /\ NotOurs(row.refs, row.owned)
      /\ i \in {"publish", "remove", "update"} /\ JobKnown(q.job)
    <2>1. i # "nothing" /\ JobKnown(q.job)
        BY Fields DEF LookUp, WorkerFits
    <2> QED  BY <2>1 DEF Working, LookUp, WorkerAt, Intent
<1>2. /\ worker' = [worker EXCEPT ![w] = worker'[w]]
      /\ worker'[w].pc = CASE i = "publish" -> NextPc(q, plan) [] i = "remove" -> "takedown" [] OTHER -> "edit"
      /\ worker'[w].now = row.ver /\ worker'[w].job = q.job
      /\ worker'[w].refs = row.refs /\ worker'[w].owned = row.owned /\ worker'[w].todo = plan
      /\ UNCHANGED <<row, versions, queue, request, remote, nextId, history>>
    BY <1>1, Fields DEF LookUp, Consistent, TypeOK, WorkerState
<1>3. /\ Exists("calendar")' /\ NotOurs(row.refs, row.owned)' /\ Covered({})' /\ Owned(row.refs, row.owned)'
      /\ Covered({}) /\ Owned(row.refs, row.owned) /\ \A k \in Parts : Exists(k)'
    BY <1>1, <1>2 DEF WaitingJob, Waiting, Exists, Has, Kinds, NotOurs, Owned, Covered, Ours, Referenced
<1>4. CASE i = "publish"
    <2>1. ~Says(row.ver).supD /\ Bare
        BY <1>1, <1>4, PublishAsked
    <2>2. \A k \in Parts : Shows(k, row.ver)
        BY <2>1, BareIsPlaced
    <2>3. plan = PublishPlan(row.refs, row.ver) /\ plan \subseteq Parts
        BY <1>1, <1>4, PublicationAssumption DEF PublishPlan
    <2>4. /\ \A k \in plan : row.refs[k] = NoRef
          /\ Says(row.ver).scope = "lug" => row.refs["chapter"] = NoRef /\ "chapter" \notin plan
          /\ "scheduled" \in Switched => "scheduled" \in plan
        BY <2>1, <2>3 DEF PublishPlan, Bare, Parts
    <2>5. CASE plan = {}
        <3>1. worker'[w].pc \in {"note", "calendar"}
            BY <1>2, <1>4, <2>5, WhatIsNext
        <3>2. PlacedFor(row.ver)' /\ \A k \in Parts : Shows(k, row.ver)'
            BY <1>2, <2>1, <2>2, <2>4, <2>5 DEF PlacedFor, Bare, Says, Shows, UpToDate, Has
        <3>3. WorkerAt(worker[w])'
            BY <1>3, <3>1, <3>2 DEF WorkerAt
        <3> QED  BY <1>1, <1>2, <1>3, <3>1, <3>3, WorksOn
    <2>6. CASE plan # {}
        <3>1. worker'[w].pc = "post"
            BY <1>2, <1>4, <2>6, WhatIsNext
        <3>2. Posting(worker[w])'
            BY <1>2, <2>2, <2>4 DEF Posting, Says, Shows, UpToDate, Has
        <3>3. WorkerAt(worker[w])'
            BY <1>3, <3>1, <3>2 DEF WorkerAt
        <3> QED  BY <1>1, <1>2, <1>3, <3>1, <3>3, WorksOn
    <2> QED  BY <2>5, <2>6
<1>5. CASE i = "remove"
    <2>1. PlacedFor(q.job.before) /\ Says(row.ver).supD /\ Known(q.job.before)
        BY <1>1, <1>5, ChangeAsked DEF JobKnown
    <2>2. Removable(row.refs, row.owned, q.job.before)
        BY <1>1, <1>3, <2>1 DEF Removable, PlacedFor
    <2>3. worker'[w].pc = "takedown" /\ Removable(worker[w].refs, worker[w].owned, worker[w].job.before)'
        BY <1>2, <1>5, <2>2 DEF Removable, NotOurs, Owned, Says, Known
    <2>4. WorkerAt(worker[w])'
        BY <1>2, <1>3, <2>1, <2>3 DEF WorkerAt, Says
    <2> QED  BY <1>1, <1>2, <1>3, <2>3, <2>4, WorksOn
<1>6. CASE i = "update"
    <2>1. Posted(q.job.before)
        BY <1>1, <1>6, ChangeAsked DEF Posted, Open, JobKnown
    <2>2. Posted(worker[w].job.before)' /\ worker'[w].pc = "edit"
        BY <1>2, <1>6, <2>1 DEF Posted, Open, Known, PlacedFor, Bare, Says
    <2>3. WorkerAt(worker[w])'
        BY <1>2, <1>3, <2>2 DEF WorkerAt
    <2> QED  BY <1>1, <1>2, <1>3, <2>2, <2>3, WorksOn
<1> QED  BY <1>1, <1>4, <1>5, <1>6

LEMMA ScopeKnown ==
    ASSUME Consistent, NEW v, Known(v)
    PROVE  Says(v).scope \in {"lug", "chap"}
<1>1. Says(v) \in Content
    BY DEF Known, Says, Consistent, TypeOK
<1> QED  BY <1>1 DEF Content

\* Objects may change their version or go: what the row covers stays covered.
LEMMA StaysCovered ==
    ASSUME Covered({}), UNCHANGED row, history.left \subseteq history'.left,
           \A o \in remote' : \E p \in remote : p.id = o.id
    PROVE  Covered({})'
BY DEF Covered, Ours, Referenced

LEMMA StepTo ==
    ASSUME Consistent, NEW w \in Workers, NEW pc, Step(w, pc)
    PROVE  /\ worker' = [worker EXCEPT ![w] = worker'[w]] /\ worker'[w].pc = pc
           /\ worker'[w].now = worker[w].now /\ worker'[w].job = worker[w].job
           /\ worker'[w].refs = worker[w].refs /\ worker'[w].owned = worker[w].owned
           /\ worker'[w].todo = worker[w].todo /\ worker'[w].made = worker[w].made
BY Fields DEF Step, Consistent, TypeOK, WorkerState

LEMMA RowIds ==
    ASSUME Consistent
    PROVE  /\ RefsFit(row.refs) /\ row.refs \in Refs
           /\ \A k \in Kinds : row.refs[k] \in 0..nextId
           /\ "calendar" \in Kinds /\ Parts \subseteq Kinds /\ "calendar" \notin Parts
BY Fields DEF Consistent, RowFits, Refs, Kinds, Parts

LEMMA EditWorks ==
    ASSUME Consistent, PickedThreadUntouched, NEW w \in Workers, Working(w), Edit(w)
    PROVE  Working(w)' /\ PickedThreadUntouched'
<1> DEFINE q == worker[w]
           ids == {q.refs["scheduled"]} \cup OwnThread(w)
                     \cup (IF Moved(w) THEN {} ELSE Announcements(w, q.now))
<1>1. /\ row.live /\ q.pc = "edit" /\ q.now = row.ver /\ NotOurs(row.refs, row.owned)
      /\ Posted(q.job.before) /\ Covered({}) /\ \A k \in Kinds : Exists(k)
      /\ q.refs = row.refs /\ q.owned = row.owned /\ Owned(row.refs, row.owned)
    BY DEF Working, Edit, WorkerAt, Kinds
<1>2. Open(q.now) /\ q.now \in 0..MaxVer
    BY <1>1, Fields, KnownBounded DEF WorkerFits, Open, Consistent
<1>3. EditAll(ids, q.now) /\ UNCHANGED <<row, versions, queue, request, nextId>>
    BY DEF Edit
<1>4. Step(w, IF Moved(w) THEN "move" ELSE "note")
    BY DEF Edit
<1>5. Picked \notin ids
    <2>1. \A k \in Kinds : k # "thread" => row.refs[k] # Picked
        BY OnlyThreads, RowIds
    <2>2. \A id \in OwnThread(w) : id # Picked
        BY <1>1 DEF OwnThread, NotOurs
    <2> QED  BY <1>1, <2>1, <2>2 DEF Announcements, Kinds, Parts
<1>6. PickedThreadUntouched'
    <2>1. PickedThread.id \notin ids
        BY <1>5 DEF PickedThread
    <2> HIDE DEF ids
    <2> QED  BY <1>2, <1>3, <2>1, AfterEdit DEF PickedThreadUntouched
<1>7. /\ \A k \in Parts : row.refs[k] \in ids => Shows(k, row.ver)'
      /\ \A k \in Kinds : Exists(k)'
      /\ Covered({})'
    <2> HIDE DEF ids
    <2>1. \A k \in Kinds : Exists(k)'
        BY <1>1, <1>2, <1>3, StillShows
    <2>2. \A k \in Parts : row.refs[k] \in ids => Shows(k, row.ver)'
        BY <1>1, <1>2, <1>3, StillShows, RowIds
    <2>3. Covered({})'
        BY <1>1, <1>2, <1>3, AfterEdit, StaysCovered
    <2> QED  BY <2>1, <2>2, <2>3
<1>8. Shows("scheduled", row.ver)' /\ Shows("thread", row.ver)'
    <2>1. row.refs["scheduled"] \in ids /\ {"scheduled", "thread", "announce", "chapter"} = Parts
        BY <1>1 DEF Parts
    <2>2. row.refs["thread"] \in ids \cup {NoRef, Picked}
        BY <1>1 DEF OwnThread, Owned
    <2> HIDE DEF ids
    <2>3. Shows("thread", row.ver)'
        BY <1>3, <1>7, <2>1, <2>2 DEF Shows, Has
    <2> QED  BY <1>7, <2>1, <2>3
<1>9. NotOurs(row.refs, row.owned)' /\ Owned(row.refs, row.owned)' /\ Posted(q.job.before)
      /\ history'.missed = history.missed
    BY <1>1, <1>2, <1>3, AfterEdit DEF NotOurs, Owned
<1> HIDE DEF ids
<1>10. CASE Moved(w)
    <2>1. worker'[w].pc = "move" /\ worker'[w].refs = row'.refs /\ worker'[w].now = row.ver
        BY <1>1, <1>3, <1>4, <1>10, StepTo
    <2>2. Posted(worker[w].job.before)'
        BY <1>1, <1>3, <1>4, <1>9, StepTo DEF Posted, Open, Known, PlacedFor, Bare, Says
    <2>3. Shows("scheduled", worker[w].now)' /\ Shows("thread", worker[w].now)'
        BY <1>3, <1>8, <2>1 DEF Shows, UpToDate
    <2>4. WorkerAt(worker[w])'
        BY <1>7, <1>9, <2>1, <2>2, <2>3 DEF WorkerAt
    <2> QED  BY <1>1, <1>3, <1>4, <1>6, <1>7, <1>9, <2>1, <2>4, StepTo, WorksOn, RowIds
<1>11. CASE ~Moved(w)
    <2>1. worker'[w].pc = "note" /\ worker'[w].now = row.ver
        BY <1>1, <1>4, <1>11, StepTo
    <2>2. Says(q.job.before).scope = Says(row.ver).scope
        BY <1>1, <1>11 DEF Moved
    <2>3. PlacedFor(row.ver)'
        BY <1>1, <1>2, <1>3, <1>9, <2>2 DEF Posted, PlacedFor, Open, Says, Bare
    <2>4. row.refs["announce"] \in ids
        BY <1>1, <1>11 DEF ids, Announcements
    <2>5. Says(row.ver).scope = "chap" => row.refs["chapter"] \in ids
        BY <1>1, <1>11 DEF ids, Announcements
    <2>6. Says(row.ver).scope # "chap" => row.refs["chapter"] = NoRef
        <3>1. Says(row.ver).scope \in {"lug", "chap"}
            BY <1>1, <1>2, ScopeKnown DEF Open
        <3> QED  BY <1>1, <2>2, <3>1 DEF Posted, PlacedFor
    <2>7. Shows("chapter", row.ver)' /\ Shows("announce", row.ver)'
        BY <1>3, <1>7, <2>4, <2>5, <2>6 DEF Shows, Has, Parts
    <2>8. \A k \in Parts : Shows(k, row.ver)'
        BY <1>8, <2>7 DEF Parts
    <2>9. WorkerAt(worker[w])'
        BY <1>7, <1>9, <2>1, <2>3, <2>8 DEF WorkerAt
    <2> QED  BY <1>1, <1>3, <1>4, <1>6, <1>7, <1>9, <2>1, <2>9, StepTo, WorksOn, RowIds
<1> QED  BY <1>10, <1>11

\* What the row shows by other ids than those removed it goes on showing.
LEMMA StillThere ==
    ASSUME Consistent, NEW ids, RemoveAll(ids), UNCHANGED row, NEW k \in Kinds, row.refs[k] \notin ids
    PROVE  /\ \A v : Shows(k, v) => Shows(k, v)'
           /\ Exists(k) => Exists(k)'
BY AfterRemoval DEF Shows, Exists, Has, UpToDate

LEMMA MoveWorks ==
    ASSUME Consistent, PickedThreadUntouched, NEW w \in Workers, Working(w), Move(w)
    PROVE  Working(w)' /\ PickedThreadUntouched'
<1> DEFINE q == worker[w]
           ids == Announcements(w, q.job.before)
<1>1. /\ row.live /\ q.pc = "move" /\ q.now = row.ver /\ NotOurs(row.refs, row.owned)
      /\ Posted(q.job.before) /\ Covered({}) /\ Exists("calendar")
      /\ q.refs = row.refs /\ Owned(row.refs, row.owned)
      /\ Shows("scheduled", row.ver) /\ Shows("thread", row.ver) /\ q.job.kind # "remove"
    BY DEF Working, Move, WorkerAt
<1>2. Known(q.job.before)
    BY <1>1 DEF Posted, Open
<1>3. RemoveAll(ids) /\ UNCHANGED <<row, versions, queue, request, nextId>>
      /\ Step(w, "unref")
    BY DEF Move
<1>4. /\ ids \subseteq {row.refs["announce"], row.refs["chapter"]} /\ row.refs["announce"] \in ids
      /\ row.refs["chapter"] \in ids \cup {NoRef}
    BY <1>1, <1>2, ScopeKnown DEF Announcements, Posted, PlacedFor
<1> HIDE DEF ids
<1>5. ASSUME NEW k \in {"calendar", "scheduled", "thread"}
      PROVE  /\ \A v : Shows(k, v) => Shows(k, v)'
             /\ Exists(k) => Exists(k)'
    <2>1. CASE row.refs[k] \notin ids
        BY <1>3, <2>1, StillThere DEF Kinds, Parts
    <2>2. CASE row.refs[k] \in ids
        <3>1. \A o \in remote : ~(o.id = row.refs[k] /\ o.kind = k)
            BY <1>4, <2>2, PlacesDiffer, RowIds DEF Kinds, Parts
        <3>2. ~Has(k) \/ (~Exists(k) /\ \A v : ~Shows(k, v))
            BY <3>1 DEF Exists, Shows
        <3> QED  BY <1>3, <3>2 DEF Exists, Shows, Has
    <2> QED  BY <2>1, <2>2
<1>6. Exists("calendar")' /\ Shows("scheduled", row.ver)' /\ Shows("thread", row.ver)'
    BY <1>1, <1>3, <1>5 DEF Shows, Has, UpToDate
<1>7. PickedThreadUntouched'
    <2>1. Picked \notin ids
        BY <1>4, OnlyThreads, RowIds DEF Kinds, Parts
    <2> QED  BY <1>3, <2>1, AfterRemoval DEF PickedThreadUntouched, PickedThread
<1>8. Covered({})' /\ Gone({"announce", "chapter"})'
    <2>1. Covered({})'
        BY <1>1, <1>3, AfterRemoval, StaysCovered
    <2>2. \A o \in Ours' : o.id # row.refs["announce"] /\ o.id # row.refs["chapter"]
        BY <1>3, <1>4, AfterRemoval, ObjectIds DEF Ours
    <2> QED  BY <1>3, <2>1, <2>2 DEF Gone
<1>9. /\ NotOurs(row.refs, row.owned)' /\ Owned(row.refs, row.owned)'
      /\ worker'[w].pc = "unref" /\ worker'[w].now = row.ver /\ worker'[w].job = q.job
      /\ worker' = [worker EXCEPT ![w] = worker'[w]]
    BY <1>1, <1>3, StepTo DEF NotOurs, Owned
<1>10. Posted(worker[w].job.before)'
    BY <1>1, <1>3, <1>9, AfterRemoval DEF Posted, Open, Known, PlacedFor, Bare, Says
<1>11. Shows("scheduled", worker[w].now)' /\ Shows("thread", worker[w].now)'
    BY <1>3, <1>6, <1>9 DEF Shows, UpToDate
<1>12. WorkerAt(worker[w])'
    BY <1>8, <1>9, <1>10, <1>11 DEF WorkerAt
<1> QED  BY <1>1, <1>3, <1>6, <1>7, <1>9, <1>12, WorksOn

LEMMA UnrefWorks ==
    ASSUME Consistent, NEW w \in Workers, Working(w), Unref(w)
    PROVE  Working(w)'
<1> DEFINE q == worker[w]
           plan == MovePlan(q.now)
           refs == [k \in Kinds |-> IF k \in {"announce", "chapter"} THEN NoRef ELSE row.refs[k]]
<1>1. /\ row.live /\ q.pc = "unref" /\ q.now = row.ver /\ NotOurs(row.refs, row.owned)
      /\ Posted(q.job.before) /\ Covered({}) /\ Exists("calendar") /\ Gone({"announce", "chapter"})
      /\ Owned(row.refs, row.owned)
      /\ Shows("scheduled", row.ver) /\ Shows("thread", row.ver)
    BY DEF Working, Unref, WorkerAt
<1>2. Open(row.ver)
    BY <1>1, Fields DEF WorkerFits
<1>3. row' = [row EXCEPT !.refs = refs] /\ UNCHANGED <<versions, queue, request, remote, nextId, history>>
    BY <1>1 DEF Unref, ForgetRefs
<1>4. /\ row'.refs = refs /\ row'.live /\ row'.ver = row.ver /\ row'.owned = row.owned
    BY <1>1, <1>3, Fields DEF Row
<1>5. /\ worker' = [worker EXCEPT ![w] = worker'[w]] /\ worker'[w].pc = NextPc(q, plan)
      /\ worker'[w].now = row.ver /\ worker'[w].job = q.job /\ worker'[w].todo = plan
    BY <1>1, Fields DEF Unref, Consistent, TypeOK, WorkerState
<1>6. /\ refs["announce"] = NoRef /\ refs["chapter"] = NoRef /\ refs["thread"] = row.refs["thread"]
      /\ refs["scheduled"] = row.refs["scheduled"] /\ refs["calendar"] = row.refs["calendar"]
    BY DEF Kinds, Parts
<1> HIDE DEF refs
<1>7. \A k \in Parts : Shows(k, row.ver)'
    BY <1>1, <1>3, <1>4, <1>6 DEF Shows, UpToDate, Has, Parts
<1>8. NotOurs(row.refs, row.owned)' /\ Owned(row.refs, row.owned)' /\ Exists("calendar")'
    BY <1>1, <1>3, <1>4, <1>6 DEF NotOurs, Owned, Exists, Has
<1>9. Covered({})'
    <2>1. Ours' = Ours
        BY <1>3 DEF Ours
    <2>2. ASSUME NEW o \in Ours
          PROVE  \E k \in Kinds : o.id = row'.refs[k]
        <3>1. PICK k \in Kinds : o.id = row.refs[k]
            BY <1>1 DEF Covered, Referenced
        <3>2. k \notin {"announce", "chapter"}
            BY <1>1, <3>1 DEF Gone
        <3> QED  BY <1>4, <1>6, <3>1, <3>2 DEF Kinds, Parts
    <2> QED  BY <2>1, <2>2 DEF Covered, Referenced
<1>10. /\ plan \subseteq {"announce", "chapter"} /\ (Says(row.ver).scope = "lug" => "chapter" \notin plan)
    BY <1>1 DEF MovePlan
<1>11. Posting(worker[w])'
    <2>1. "scheduled" \in Switched => row.refs["scheduled"] # NoRef \/ "scheduled" \in history.missed
        BY <1>1 DEF Posted, Open, PlacedFor
    <2> QED  BY <1>3, <1>4, <1>5, <1>6, <1>7, <1>10, <2>1 DEF Posting, Says, Parts
<1>12. CASE plan = {}
    <2>1. worker'[w].pc \in {"note", "calendar"}
        BY <1>5, <1>12, WhatIsNext
    <2>2. PlacedFor(row.ver)'
        BY <1>2, <1>3, <1>4, <1>5, <1>11, <1>12 DEF Posting, PlacedFor, Open, Says
    <2>3. \A k \in Parts : Shows(k, row.ver)'
        BY <1>4, <1>7 DEF Shows, UpToDate, Has
    <2>4. WorkerAt(worker[w])'
        BY <1>8, <1>9, <2>1, <2>2, <2>3 DEF WorkerAt
    <2> QED  BY <1>1, <1>3, <1>4, <1>5, <1>6, <1>8, <2>1, <2>4, WorksOn
<1>13. CASE plan # {}
    <2>1. worker'[w].pc = "post"
        BY <1>5, <1>13, WhatIsNext
    <2>2. WorkerAt(worker[w])'
        BY <1>8, <1>9, <1>11, <2>1 DEF WorkerAt
    <2> QED  BY <1>1, <1>3, <1>4, <1>5, <1>6, <1>8, <2>1, <2>2, WorksOn
<1> QED  BY <1>12, <1>13

\* remove_event finds every post there is.
LEMMA TakenDown ==
    ASSUME Consistent, PickedThreadUntouched, NEW w \in Workers, Takedown(w),
           Removable(worker[w].refs, worker[w].owned, worker[w].job.before)
    PROVE  /\ PickedThreadUntouched'
           /\ \A o \in remote' : o \in remote
           /\ \A o \in Ours' : o \in Ours /\ \A k \in Parts : o.id # worker[w].refs[k]
           /\ \A o \in remote : o \in remote' \/ \E k \in Parts : o.id = worker[w].refs[k]
<1> DEFINE q == worker[w]
           ids == {q.refs["scheduled"]} \cup OwnThread(w) \cup Announcements(w, q.job.before)
<1>1. RemoveAll(ids) /\ UNCHANGED row
    BY DEF Takedown
<1>2. RefsFit(q.refs)
    BY Fields DEF WorkerFits
<1>3. Picked \notin ids
    <2>1. \A k \in Kinds : k # "thread" => q.refs[k] # Picked
        BY <1>2, OnlyThreads
    <2> QED  BY <2>1 DEF OwnThread, Announcements, Removable, NotOurs, Kinds, Parts
<1>4. \A k \in Parts : q.refs[k] \in ids \cup {NoRef, Picked}
    <2>1. Says(q.job.before).scope \in {"lug", "chap"}
        BY ScopeKnown DEF Removable
    <2> QED  BY <2>1 DEF OwnThread, Announcements, Removable, Owned, Parts
<1>5. \A id \in ids : \E k \in Parts : id = q.refs[k]
    BY DEF OwnThread, Announcements, Parts
<1> HIDE DEF ids
<1>6. PickedThreadUntouched'
    BY <1>1, <1>3, AfterRemoval DEF PickedThreadUntouched, PickedThread
<1>7. ASSUME NEW o \in Ours'
      PROVE  o \in Ours /\ \A k \in Parts : o.id # q.refs[k]
    <2>1. o \in Ours /\ o \in remote /\ o.id \notin ids /\ o.id # Picked
        BY <1>1, <1>7, AfterRemoval DEF Ours
    <2> QED  BY <1>4, <2>1, ObjectIds
<1> QED  BY <1>1, <1>5, <1>6, <1>7, AfterRemoval

LEMMA TakedownWorks ==
    ASSUME Consistent, PickedThreadUntouched, NEW w \in Workers, Working(w), Takedown(w)
    PROVE  Working(w)' /\ PickedThreadUntouched'
<1> DEFINE q == worker[w]
<1>1. /\ row.live /\ q.pc = "takedown" /\ q.now = row.ver /\ NotOurs(row.refs, row.owned)
      /\ Covered({}) /\ Exists("calendar") /\ q.refs = row.refs /\ Says(row.ver).supD
      /\ Removable(q.refs, q.owned, q.job.before)
    BY DEF Working, Takedown, WorkerAt
<1>2. /\ UNCHANGED <<row, versions, queue, request, nextId>>
      /\ worker' = [worker EXCEPT ![w] = worker'[w]] /\ worker'[w].pc = "clear"
      /\ worker'[w].now = row.ver /\ worker'[w].job = q.job
    BY <1>1, StepTo DEF Takedown
<1>3. /\ PickedThreadUntouched' /\ \A o \in remote' : o \in remote
      /\ \A o \in Ours' : o \in Ours /\ \A k \in Parts : o.id # row.refs[k]
      /\ \A o \in remote : o \in remote' \/ \E k \in Parts : o.id = row.refs[k]
    BY <1>1, TakenDown
<1>4. Covered({})' /\ Gone(Parts)' /\ NotOurs(row.refs, row.owned)'
    BY <1>1, <1>2, <1>3 DEF Covered, Referenced, Gone, NotOurs
<1>5. Exists("calendar")'
    <2>1. \A o \in remote : o.kind = "calendar" /\ o.id = row.refs["calendar"] => o \in remote'
        BY <1>3, PlacesDiffer, RowIds DEF Kinds, Parts
    <2> QED  BY <1>1, <1>2, <2>1 DEF Exists, Has
<1>6. WorkerAt(worker[w])'
    BY <1>1, <1>2, <1>4 DEF WorkerAt, Says
<1> QED  BY <1>1, <1>2, <1>3, <1>4, <1>5, <1>6, WorksOn

LEMMA ClearWorks ==
    ASSUME Consistent, NEW w \in Workers, Working(w), Clear(w)
    PROVE  Working(w)'
<1> DEFINE q == worker[w]
           refs == [k \in Kinds |-> IF k \in Parts THEN NoRef ELSE row.refs[k]]
<1>1. /\ row.live /\ q.pc = "clear" /\ q.now = row.ver /\ q.job.kind # "remove"
      /\ Covered({}) /\ Exists("calendar") /\ Gone(Parts) /\ Says(row.ver).supD
    BY DEF Working, Clear, WorkerAt
<1>2. /\ row' = [row EXCEPT !.refs = refs] /\ Step(w, "calendar")
      /\ UNCHANGED <<versions, queue, request, remote, nextId, history>>
    BY <1>1 DEF Clear, ForgetRefs
<1>3. /\ row'.refs = refs /\ row'.live /\ row'.ver = row.ver /\ row'.owned = row.owned
    BY <1>1, <1>2, Fields DEF Row
<1>4. /\ worker' = [worker EXCEPT ![w] = worker'[w]] /\ worker'[w].pc = "calendar"
      /\ worker'[w].now = row.ver /\ worker'[w].job = q.job
    BY <1>1, <1>2, StepTo
<1>5. refs["calendar"] = row.refs["calendar"] /\ \A k \in Parts : refs[k] = NoRef
    BY RowIds
<1> HIDE DEF refs
<1>6. Bare'
    BY <1>3, <1>5 DEF Bare
<1>7. PlacedFor(row.ver)' /\ \A k \in Parts : Shows(k, row.ver)'
    BY <1>1, <1>2, <1>3, <1>5, <1>6 DEF PlacedFor, Says, Shows, UpToDate, Has, Parts
<1>8. NotOurs(row.refs, row.owned)' /\ Owned(row.refs, row.owned)' /\ Exists("calendar")'
    BY <1>1, <1>2, <1>3, <1>5 DEF NotOurs, Owned, Exists, Has, Parts, NoRef, Picked
<1>9. Covered({})'
    <2>1. ASSUME NEW o \in Ours
          PROVE  o.id = row'.refs["calendar"]
        <3>1. PICK k \in Kinds : o.id = row.refs[k]
            BY <1>1 DEF Covered, Referenced
        <3>2. k \notin Parts
            BY <1>1, <3>1 DEF Gone
        <3> QED  BY <1>3, <1>5, <3>1, <3>2 DEF Kinds
    <2> QED  BY <1>2, <2>1, RowIds DEF Covered, Referenced, Ours
<1>10. WorkerAt(worker[w])'
    BY <1>4, <1>7, <1>8, <1>9 DEF WorkerAt
<1> QED  BY <1>1, <1>2, <1>3, <1>4, <1>5, <1>8, <1>10, WorksOn

LEMMA PostWorks ==
    ASSUME Consistent, PickedThreadUntouched, NEW w \in Workers, Working(w), Post(w)
    PROVE  Working(w)' /\ PickedThreadUntouched'
<1> DEFINE q == worker[w]
           p == First(q)
<1>1. /\ row.live /\ q.pc = "post" /\ q.now = row.ver /\ NotOurs(row.refs, row.owned)
      /\ Posting(q) /\ Covered({}) /\ Exists("calendar") /\ Owned(row.refs, row.owned)
    BY DEF Working, Post, WorkerAt
<1>2. /\ remote' = remote \cup {Make(p, q.now)} /\ nextId' = nextId + 1
      /\ Make(p, q.now) = [id |-> nextId + 1, kind |-> p, ver |-> q.now]
      /\ history'.left = history.left /\ history'.missed = history.missed \ {p}
      /\ history'.behind = history.behind
      /\ UNCHANGED <<row, versions, queue, request>>
    BY AfterCreation DEF Post
<1>3. /\ worker' = [worker EXCEPT ![w] = worker'[w]] /\ worker'[w].pc = "save"
      /\ worker'[w].now = row.ver /\ worker'[w].job = q.job /\ worker'[w].todo = q.todo
      /\ worker'[w].made = nextId + 1 /\ First(worker'[w]) = p
    BY <1>1, Fields DEF Post, Consistent, TypeOK, WorkerState, First
<1>4. PickedThreadUntouched' /\ Exists("calendar")' /\ NotOurs(row.refs, row.owned)' /\ Owned(row.refs, row.owned)'
    BY <1>1, <1>2, ShowsMore DEF PickedThreadUntouched, NotOurs, Owned
<1>5. Posting(worker[w])'
    <2>1. \A k \in Parts : Shows(k, worker[w].now)'
        <3>1. \A k \in Parts : Shows(k, row.ver)'
            BY <1>1, <1>2, ShowsMore DEF Posting
        <3> QED  BY <1>1, <1>2, <1>3, <3>1 DEF Shows, UpToDate
    <2>2. q.todo # {} /\ q.todo \in SUBSET Parts
        BY <1>1, Fields DEF WorkerFits
    <2>3. p \in q.todo
        BY <2>2, FirstIsOne
    <2> QED  BY <1>1, <1>2, <1>3, <2>1, <2>3 DEF Posting, Says
<1>6. Covered({worker[w].made})'
    <2>1. Make(p, q.now).id = worker'[w].made
        BY <1>2, <1>3
    <2> QED  BY <1>1, <1>2, <2>1 DEF Covered, Ours, Referenced
<1>7. worker'[w].made > Picked
    BY <1>3, ObjectIds
<1>8. [id |-> worker[w].made, kind |-> First(worker[w]), ver |-> worker[w].now]' \in remote'
    BY <1>1, <1>2, <1>3
<1>9. WorkerAt(worker[w])'
    BY <1>3, <1>4, <1>5, <1>6, <1>7, <1>8 DEF WorkerAt
<1> QED  BY <1>1, <1>2, <1>3, <1>4, <1>9, WorksOn

LEMMA PostFailsWorks ==
    ASSUME Consistent, PickedThreadUntouched, NEW w \in Workers, Working(w), PostFails(w)
    PROVE  Working(w)' /\ PickedThreadUntouched'
<1> DEFINE q == worker[w]
           p == First(q)
           fallsBack == p = "thread" /\ q.forum /\ "announce" \in q.todo
           rest == q.todo \ IF fallsBack THEN {}
                            ELSE IF p = "announce" /\ ~q.forum THEN {p, "thread"} ELSE {p}
<1>1. /\ row.live /\ q.pc = "post" /\ q.now = row.ver /\ NotOurs(row.refs, row.owned)
      /\ Posting(q) /\ Covered({}) /\ Exists("calendar") /\ Owned(row.refs, row.owned)
    BY DEF Working, PostFails, WorkerAt
<1>2. Open(q.now)
    BY <1>1, Fields DEF WorkerFits
<1>3. /\ UNCHANGED <<row, versions, queue, request>>
      /\ \A o \in remote : o \in remote'
      /\ \A o \in Ours' : o \in Ours
      /\ history'.missed = history.missed \cup {p} /\ history'.behind = history.behind
    BY AfterFailure DEF PostFails
<1>4. rest \subseteq q.todo /\ ("scheduled" \in q.todo /\ p # "scheduled" => "scheduled" \in rest)
    OBVIOUS
<1>5. /\ worker' = [worker EXCEPT ![w] = worker'[w]] /\ worker'[w].pc = NextPc(q, rest)
      /\ worker'[w].now = row.ver /\ worker'[w].job = q.job /\ worker'[w].todo = rest
    BY <1>1, Fields DEF PostFails, Consistent, TypeOK, WorkerState
<1> HIDE DEF rest
<1>6. /\ Exists("calendar")' /\ NotOurs(row.refs, row.owned)' /\ Owned(row.refs, row.owned)' /\ Covered({})'
      /\ PickedThreadUntouched'
    BY <1>1, <1>3, ShowsMore DEF NotOurs, Owned, Covered, Referenced, PickedThreadUntouched
<1>7. Posting(worker[w])'
    <2>1. \A k \in Parts : Shows(k, worker[w].now)'
        <3>1. \A k \in Parts : Shows(k, row.ver)'
            BY <1>1, <1>3, ShowsMore DEF Posting
        <3> QED  BY <1>1, <1>3, <1>5, <3>1 DEF Shows, UpToDate
    <2> QED  BY <1>1, <1>3, <1>4, <1>5, <2>1 DEF Posting, Says
<1>8. CASE rest = {}
    <2>1. worker'[w].pc \in {"note", "calendar"}
        BY <1>5, <1>8, WhatIsNext
    <2>2. PlacedFor(row.ver)' /\ \A k \in Parts : Shows(k, row.ver)'
        BY <1>1, <1>2, <1>3, <1>5, <1>7, <1>8 DEF Posting, PlacedFor, Open, Says, Shows, UpToDate
    <2>3. WorkerAt(worker[w])'
        BY <1>6, <2>1, <2>2 DEF WorkerAt
    <2> QED  BY <1>1, <1>3, <1>5, <1>6, <2>1, <2>3, WorksOn
<1>9. CASE rest # {}
    <2>1. worker'[w].pc = "post"
        BY <1>5, <1>9, WhatIsNext
    <2>2. WorkerAt(worker[w])'
        BY <1>6, <1>7, <2>1 DEF WorkerAt
    <2> QED  BY <1>1, <1>3, <1>5, <1>6, <2>1, <2>2, WorksOn
<1> QED  BY <1>8, <1>9

LEMMA SaveWorks ==
    ASSUME Consistent, NEW w \in Workers, Working(w), Save(w)
    PROVE  Working(w)'
<1> DEFINE q == worker[w]
           p == First(q)
           rest == q.todo \ {p}
           pc == IF p = "thread" THEN "own" ELSE NextPc(q, rest)
<1>1. /\ row.live /\ q.pc = "save" /\ q.now = row.ver /\ NotOurs(row.refs, row.owned)
      /\ Posting(q) /\ Covered({q.made}) /\ Exists("calendar") /\ Owned(row.refs, row.owned)
      /\ q.made > Picked /\ [id |-> q.made, kind |-> p, ver |-> q.now] \in remote
    BY DEF Working, Save, WorkerAt
<1>2. Open(q.now) /\ q.todo # {} /\ q.todo \in SUBSET Parts
    BY <1>1, Fields DEF WorkerFits
<1>3. p \in q.todo /\ p \in Parts
    BY <1>2, FirstIsOne
<1>4. row' = [row EXCEPT !.refs[p] = q.made] /\ UNCHANGED <<versions, queue, request, remote, nextId, history>>
    BY <1>1 DEF Save, SaveRef
<1>5. /\ row'.refs = [row.refs EXCEPT ![p] = q.made] /\ row'.live /\ row'.ver = row.ver /\ row'.owned = row.owned
    BY <1>1, <1>4, Fields DEF Row
<1>6. row'.refs[p] = q.made /\ \A k \in Kinds : k # p => row'.refs[k] = row.refs[k]
    BY <1>3, <1>5, RowIds DEF Refs
<1>7. /\ worker' = [worker EXCEPT ![w] = worker'[w]] /\ worker'[w].pc = pc
      /\ worker'[w].now = row.ver /\ worker'[w].job = q.job /\ worker'[w].todo = rest
    BY <1>1, Fields DEF Save, Consistent, TypeOK, WorkerState
<1> HIDE DEF rest, pc
<1>8. row'.refs["calendar"] = row.refs["calendar"] /\ Exists("calendar")'
    BY <1>1, <1>3, <1>4, <1>6, RowIds DEF Exists, Has
<1>9. NotOurs(row.refs, row.owned)' /\ (p # "thread" => Owned(row.refs, row.owned)')
    BY <1>1, <1>5, <1>6 DEF NotOurs, Owned, Kinds, Parts, Picked
<1>10. Posting(worker[w])'
    <2>1. ASSUME NEW k \in Parts
          PROVE  Shows(k, worker[w].now)'
        <3>1. CASE k = p
            BY <1>1, <1>4, <1>6, <1>7, <3>1 DEF Shows, UpToDate
        <3>2. CASE k # p
            BY <1>1, <1>4, <1>6, <1>7, <3>2, RowIds DEF Posting, Shows, UpToDate, Has
        <3> QED  BY <3>1, <3>2
    <2>2. \A k \in rest : row'.refs[k] = NoRef
        BY <1>1, <1>2, <1>6, RowIds DEF Posting, rest
    <2>3. Says(row.ver).scope = "lug" => row'.refs["chapter"] = NoRef /\ "chapter" \notin rest
        BY <1>1, <1>3, <1>6, RowIds DEF Posting, Parts, rest
    <2>4. "scheduled" \in Switched => \/ "scheduled" \in rest \/ row'.refs["scheduled"] # NoRef
                                        \/ "scheduled" \in history'.missed
        <3>1. CASE p = "scheduled"
            BY <1>1, <1>6, <3>1 DEF NoRef, Picked
        <3>2. CASE p # "scheduled"
            BY <1>1, <1>4, <1>6, <3>2, RowIds DEF Posting, Parts, rest
        <3> QED  BY <3>1, <3>2
    <2> QED  BY <1>4, <1>5, <1>7, <2>1, <2>2, <2>3, <2>4 DEF Posting, Says
<1>11. Covered({})'
    <2>1. ASSUME NEW o \in Ours
          PROVE  \E k \in Kinds : o.id = row'.refs[k]
        <3>1. CASE o.id = q.made
            BY <1>3, <1>6, <3>1, RowIds
        <3>2. CASE o.id # q.made
            <4>1. PICK k \in Kinds : o.id = row.refs[k]
                BY <1>1, <3>2 DEF Covered, Referenced
            <4>2. k # p
                BY <1>1, <1>3, <4>1, ObjectIds DEF Posting, Ours
            <4> QED  BY <1>6, <4>1, <4>2
        <3> QED  BY <3>1, <3>2
    <2> QED  BY <1>4, <2>1 DEF Covered, Referenced, Ours
<1>12. CASE p = "thread"
    <2>1. worker'[w].pc = "own" /\ row'.refs["thread"] # Picked
        BY <1>1, <1>6, <1>7, <1>12 DEF pc, Picked
    <2>2. WorkerAt(worker[w])'
        BY <1>10, <1>11, <2>1 DEF WorkerAt
    <2> QED  BY <1>1, <1>4, <1>5, <1>7, <1>8, <1>9, <2>1, <2>2, WorksOn
<1>13. CASE p # "thread" /\ rest = {}
    <2>1. worker'[w].pc \in {"note", "calendar"}
        BY <1>7, <1>13, WhatIsNext DEF pc
    <2>2. PlacedFor(row.ver)' /\ \A k \in Parts : Shows(k, row.ver)'
        BY <1>1, <1>2, <1>4, <1>5, <1>7, <1>10, <1>13 DEF Posting, PlacedFor, Open, Says
    <2>3. WorkerAt(worker[w])'
        BY <1>9, <1>11, <1>13, <2>1, <2>2 DEF WorkerAt
    <2> QED  BY <1>1, <1>4, <1>5, <1>7, <1>8, <1>9, <2>1, <2>3, WorksOn
<1>14. CASE p # "thread" /\ rest # {}
    <2>1. worker'[w].pc = "post"
        BY <1>7, <1>14, WhatIsNext DEF pc
    <2>2. WorkerAt(worker[w])'
        BY <1>9, <1>10, <1>11, <1>14, <2>1 DEF WorkerAt
    <2> QED  BY <1>1, <1>4, <1>5, <1>7, <1>8, <1>9, <2>1, <2>2, WorksOn
<1> QED  BY <1>12, <1>13, <1>14

LEMMA OwnWorks ==
    ASSUME Consistent, NEW w \in Workers, Working(w), Own(w)
    PROVE  Working(w)'
<1> DEFINE q == worker[w]
<1>1. /\ row.live /\ q.pc = "own" /\ q.now = row.ver
      /\ Posting(q) /\ Covered({}) /\ Exists("calendar") /\ row.refs["thread"] # Picked
    BY DEF Working, Own, WorkerAt
<1>2. Open(q.now)
    BY <1>1, Fields DEF WorkerFits
<1>3. row' = [row EXCEPT !.owned = TRUE] /\ UNCHANGED <<versions, queue, request, remote, nextId, history>>
      /\ Step(w, IF q.forum THEN NextPc(q, q.todo) ELSE "link")
    BY <1>1 DEF Own, SaveOwned
<1>4. row'.refs = row.refs /\ row'.live /\ row'.ver = row.ver /\ row'.owned
    BY <1>1, <1>3, Fields DEF Row
<1>5. /\ worker' = [worker EXCEPT ![w] = worker'[w]] /\ worker'[w].pc = IF q.forum THEN NextPc(q, q.todo) ELSE "link"
      /\ worker'[w].now = row.ver /\ worker'[w].job = q.job /\ worker'[w].todo = q.todo
    BY <1>1, <1>3, StepTo
<1>6. Exists("calendar")' /\ NotOurs(row.refs, row.owned)' /\ Owned(row.refs, row.owned)' /\ Covered({})'
    BY <1>1, <1>3, <1>4 DEF Exists, Has, NotOurs, Owned, Covered, Ours, Referenced
<1>7. Posting(worker[w])'
    BY <1>1, <1>3, <1>4, <1>5 DEF Posting, Shows, UpToDate, Has, Says
<1>8. CASE q.forum /\ q.todo = {}
    <2>1. worker'[w].pc \in {"note", "calendar"}
        BY <1>5, <1>8, WhatIsNext
    <2>2. PlacedFor(row.ver)' /\ \A k \in Parts : Shows(k, row.ver)'
        BY <1>1, <1>2, <1>3, <1>4, <1>5, <1>7, <1>8 DEF Posting, PlacedFor, Open, Says
    <2>3. WorkerAt(worker[w])'
        BY <1>6, <2>1, <2>2 DEF WorkerAt
    <2> QED  BY <1>1, <1>3, <1>4, <1>5, <1>6, <2>1, <2>3, WorksOn
<1>9. CASE q.forum /\ q.todo # {}
    <2>1. worker'[w].pc = "post"
        BY <1>5, <1>9, WhatIsNext
    <2>2. WorkerAt(worker[w])'
        BY <1>6, <1>7, <2>1 DEF WorkerAt
    <2> QED  BY <1>1, <1>3, <1>4, <1>5, <1>6, <2>1, <2>2, WorksOn
<1>10. CASE ~q.forum
    <2>1. worker'[w].pc = "link"
        BY <1>5, <1>10
    <2>2. WorkerAt(worker[w])'
        BY <1>6, <1>7, <2>1 DEF WorkerAt
    <2> QED  BY <1>1, <1>3, <1>4, <1>5, <1>6, <2>1, <2>2, WorksOn
<1> QED  BY <1>8, <1>9, <1>10

LEMMA LinkWorks ==
    ASSUME Consistent, PickedThreadUntouched, NEW w \in Workers, Working(w), Link(w)
    PROVE  Working(w)' /\ PickedThreadUntouched'
<1> DEFINE q == worker[w]
           ids == {q.refs["announce"]}
<1>1. /\ row.live /\ q.pc = "link" /\ q.now = row.ver /\ NotOurs(row.refs, row.owned)
      /\ Posting(q) /\ Covered({}) /\ Exists("calendar") /\ Owned(row.refs, row.owned)
    BY DEF Working, Link, WorkerAt
<1>2. Open(q.now) /\ q.now \in 0..MaxVer /\ RefsFit(q.refs)
    BY <1>1, Fields, KnownBounded DEF WorkerFits, Open, Consistent
<1>3. EditAll(ids, q.now) /\ UNCHANGED <<row, versions, queue, request, nextId>>
    BY DEF Link
<1>4. PickedThread.id \notin ids
    BY <1>2, OnlyThreads DEF PickedThread, Kinds, Parts
<1>5. /\ worker' = [worker EXCEPT ![w] = worker'[w]] /\ worker'[w].pc = NextPc(q, q.todo)
      /\ worker'[w].now = row.ver /\ worker'[w].job = q.job /\ worker'[w].todo = q.todo
    BY <1>1, StepTo DEF Link
<1> HIDE DEF ids
<1>6. PickedThreadUntouched'
    BY <1>2, <1>3, <1>4, AfterEdit DEF PickedThreadUntouched
<1>7. Exists("calendar")' /\ NotOurs(row.refs, row.owned)' /\ Owned(row.refs, row.owned)'
    BY <1>1, <1>2, <1>3, StillShows, RowIds DEF NotOurs, Owned
<1>8. history'.missed = history.missed /\ Covered({})'
    BY <1>1, <1>2, <1>3, AfterEdit, StaysCovered
<1>9. Posting(worker[w])'
    <2>1. \A k \in Parts : Shows(k, row.ver)'
        BY <1>1, <1>2, <1>3, StillShows, RowIds DEF Posting
    <2>2. \A k \in Parts : Shows(k, worker[w].now)'
        BY <1>3, <1>5, <2>1 DEF Shows, UpToDate
    <2> QED  BY <1>1, <1>3, <1>5, <1>8, <2>2 DEF Posting, Says
<1>10. CASE q.todo = {}
    <2>1. worker'[w].pc \in {"note", "calendar"}
        BY <1>5, <1>10, WhatIsNext
    <2>2. PlacedFor(row.ver)' /\ \A k \in Parts : Shows(k, row.ver)'
        BY <1>1, <1>2, <1>3, <1>5, <1>9, <1>10 DEF Posting, PlacedFor, Open, Says, Shows, UpToDate
    <2>3. WorkerAt(worker[w])'
        BY <1>7, <1>8, <2>1, <2>2 DEF WorkerAt
    <2> QED  BY <1>1, <1>3, <1>5, <1>6, <1>7, <2>1, <2>3, WorksOn
<1>11. CASE q.todo # {}
    <2>1. worker'[w].pc = "post"
        BY <1>5, <1>11, WhatIsNext
    <2>2. WorkerAt(worker[w])'
        BY <1>7, <1>8, <1>9, <2>1 DEF WorkerAt
    <2> QED  BY <1>1, <1>3, <1>5, <1>6, <1>7, <2>1, <2>2, WorksOn
<1> QED  BY <1>10, <1>11

LEMMA LeaveNoteWorks ==
    ASSUME Consistent, NEW w \in Workers, Working(w), LeaveNote(w)
    PROVE  Working(w)'
<1> DEFINE q == worker[w]
<1>1. /\ row.live /\ q.pc = "note" /\ q.now = row.ver /\ NotOurs(row.refs, row.owned)
      /\ Exists("calendar") /\ WorkerAt(q)
    BY DEF Working, LeaveNote
<1>2. UNCHANGED <<row, versions, queue, request, remote, nextId>> /\ Step(w, "calendar")
    BY DEF LeaveNote
<1>3. /\ history'.left = history.left /\ history'.missed = history.missed
      /\ history'.behind = history.behind
    BY HistoryFields DEF LeaveNote, History
<1>4. /\ worker' = [worker EXCEPT ![w] = worker'[w]] /\ worker'[w].pc = "calendar"
      /\ worker'[w].now = row.ver /\ worker'[w].job = q.job
    BY <1>1, <1>2, StepTo
<1>5. /\ PlacedFor(row.ver) /\ Covered({}) /\ Owned(row.refs, row.owned)
      /\ \A k \in Parts : Shows(k, row.ver)
    BY <1>1 DEF WorkerAt
<1>6. /\ PlacedFor(row.ver)' /\ Covered({})' /\ Owned(row.refs, row.owned)'
      /\ Exists("calendar")' /\ NotOurs(row.refs, row.owned)'
      /\ \A k \in Parts : Shows(k, row.ver)'
    BY <1>1, <1>2, <1>3, <1>5 DEF PlacedFor, Bare, Says, Covered, Ours, Referenced, Owned, Shows,
       UpToDate, Exists, Has, NotOurs
<1>7. WorkerAt(worker[w])'
    BY <1>4, <1>6 DEF WorkerAt
<1>8. row'.live /\ row'.ver = row.ver /\ row'.refs["calendar"] = row.refs["calendar"]
    BY <1>1, <1>2
<1> QED  BY <1>2, <1>4, <1>6, <1>7, <1>8, WorksOn

\* The job's calendar half begins with this.
LEMMA AtCalendar ==
    ASSUME Consistent, PickedThreadUntouched, NEW w \in Workers, Working(w), worker[w].pc = "calendar"
    PROVE  /\ row.live /\ worker[w].job.upd = row.ver /\ worker[w].job.kind # "remove"
           /\ worker[w].job.refs["calendar"] = row.refs["calendar"]
           /\ row.refs["calendar"] # Picked /\ Exists("calendar")
           /\ NotOurs(row.refs, row.owned) /\ Owned(row.refs, row.owned)
           /\ PlacedFor(row.ver) /\ Covered({}) /\ \A k \in Parts : Shows(k, row.ver)
           /\ Known(row.ver) /\ row.ver \in 0..MaxVer /\ worker[w].made = NoRef
<1>1. row.refs["calendar"] # Picked
    BY OnlyThreads, RowIds
<1>2. Known(row.ver) /\ row.ver \in 0..MaxVer /\ worker[w].made = NoRef
    BY Fields, KnownBounded DEF Working, WorkerFits, Consistent, RowFits
<1> QED  BY <1>1, <1>2 DEF Working, WorkerAt

LEMMA CalendarCreateWorks ==
    ASSUME Consistent, PickedThreadUntouched, NEW w \in Workers, Working(w), CalendarCreate(w)
    PROVE  Working(w)' /\ PickedThreadUntouched'
<1> DEFINE q == worker[w]
<1>1. /\ row.live /\ q.pc = "calendar" /\ q.job.upd = row.ver /\ row.refs["calendar"] = NoRef
      /\ NotOurs(row.refs, row.owned) /\ Owned(row.refs, row.owned)
      /\ PlacedFor(row.ver) /\ Covered({}) /\ \A k \in Parts : Shows(k, row.ver)
    BY AtCalendar DEF CalendarCreate
<1>2. /\ remote' = remote \cup {Make("calendar", row.ver)} /\ nextId' = nextId + 1
      /\ Make("calendar", row.ver) = [id |-> nextId + 1, kind |-> "calendar", ver |-> row.ver]
      /\ history'.left = history.left /\ history'.missed = history.missed \ {"calendar"}
      /\ history'.behind = history.behind
      /\ UNCHANGED <<row, versions, queue, request>>
    BY <1>1, AfterCreation DEF CalendarCreate
<1>3. /\ worker' = [worker EXCEPT ![w] = worker'[w]] /\ worker'[w].pc = "calsave"
      /\ worker'[w].job = q.job /\ worker'[w].made = nextId + 1
    BY <1>1, Fields DEF CalendarCreate, Consistent, TypeOK, WorkerState
<1>4. /\ PickedThreadUntouched' /\ NotOurs(row.refs, row.owned)' /\ Owned(row.refs, row.owned)'
      /\ PlacedFor(row.ver)' /\ \A k \in Parts : Shows(k, row.ver)'
    <2>1. \A k \in Parts : Shows(k, row.ver)'
        BY <1>1, <1>2, ShowsMore
    <2>2. "scheduled" \in history.missed => "scheduled" \in history'.missed
        BY <1>2
    <2> QED  BY <1>1, <1>2, <2>1, <2>2 DEF PickedThreadUntouched, NotOurs, Owned, PlacedFor, Bare, Says
<1>5. Covered({worker[w].made})'
    <2>1. Make("calendar", row.ver).id = worker'[w].made
        BY <1>2, <1>3
    <2> QED  BY <1>1, <1>2, <2>1 DEF Covered, Ours, Referenced
<1>6. worker'[w].made > Picked /\ worker'[w].made # NoRef
    BY <1>3, ObjectIds
<1>7. [id |-> worker[w].made, kind |-> "calendar", ver |-> row.ver]' \in remote'
    BY <1>1, <1>2, <1>3
<1>8. WorkerAt(worker[w])'
    BY <1>1, <1>2, <1>3, <1>4, <1>5, <1>6, <1>7 DEF WorkerAt
<1> QED  BY <1>1, <1>2, <1>3, <1>4, <1>8, WorksOn

LEMMA CalendarCreateFailsWorks ==
    ASSUME Consistent, PickedThreadUntouched, NEW w \in Workers, Working(w), CalendarCreateFails(w)
    PROVE  AtRest' /\ PickedThreadUntouched'
<1>1. /\ worker[w].job.upd = row.ver /\ row.refs["calendar"] = NoRef /\ row.live
      /\ NotOurs(row.refs, row.owned) /\ Owned(row.refs, row.owned)
      /\ PlacedFor(row.ver) /\ Covered({}) /\ \A k \in Parts : Shows(k, row.ver)
    BY AtCalendar DEF CalendarCreateFails
<1>2. /\ Rest(w) /\ UNCHANGED <<row, versions, queue, request>>
      /\ \A o \in remote : o \in remote'
      /\ \A o \in Ours' : o \in Ours
      /\ history'.missed = history.missed \cup {"calendar"} /\ history'.behind = history.behind
    BY AfterFailure DEF CalendarCreateFails
<1>3. \A k \in Kinds : Shows(k, row.ver)'
    <2>1. \A k \in Parts : Shows(k, row.ver)'
        BY <1>1, <1>2, ShowsMore
    <2>2. Shows("calendar", row.ver)'
        BY <1>1, <1>2 DEF Shows, Has
    <2> QED  BY <2>1, <2>2 DEF Kinds
<1>4. PlacedFor(row.ver)' /\ Covered({})' /\ CalendarAsked' /\ NotOurs(row.refs, row.owned)'
      /\ Owned(row.refs, row.owned)' /\ PickedThreadUntouched'
    BY <1>1, <1>2 DEF PlacedFor, Bare, Says, Covered, Referenced, CalendarAsked, NotOurs, Owned,
       PickedThreadUntouched
<1>5. Settled'
    BY <1>1, <1>2, <1>3, <1>4 DEF Settled, Kept
<1> QED  BY <1>2, <1>4, <1>5, RestsSettled

LEMMA CalendarUpdateWorks ==
    ASSUME Consistent, PickedThreadUntouched, NEW w \in Workers, Working(w), CalendarUpdate(w)
    PROVE  AtRest' /\ PickedThreadUntouched'
<1> DEFINE ids == {row.refs["calendar"]}
<1>1. /\ row.live /\ row.refs["calendar"] \notin {NoRef, Picked} /\ Exists("calendar")
      /\ NotOurs(row.refs, row.owned) /\ Owned(row.refs, row.owned)
      /\ PlacedFor(row.ver) /\ Covered({}) /\ \A k \in Parts : Shows(k, row.ver)
      /\ row.ver \in 0..MaxVer /\ worker[w].job.upd = row.ver
      /\ worker[w].job.refs["calendar"] = row.refs["calendar"]
    BY AtCalendar DEF CalendarUpdate
<1>2. /\ EditAll(ids, row.ver) /\ Rest(w)
      /\ UNCHANGED <<row, versions, queue, request, nextId>>
    BY <1>1 DEF CalendarUpdate
<1>3. PickedThread.id \notin ids /\ row.refs["calendar"] \in ids
    BY <1>1 DEF PickedThread
<1> HIDE DEF ids
<1>4. PickedThreadUntouched'
    BY <1>1, <1>2, <1>3, AfterEdit DEF PickedThreadUntouched
<1>5. Covered({})' /\ history'.missed = history.missed
    BY <1>1, <1>2, AfterEdit, StaysCovered
<1>6. \A k \in Kinds : Shows(k, row.ver)'
    <2>1. \A k \in Kinds : (Shows(k, row.ver) => Shows(k, row.ver)')
                            /\ (Exists(k) /\ row.refs[k] \in ids => Shows(k, row.ver)')
        BY <1>1, <1>2, StillShows DEF Shows, UpToDate
    <2> QED  BY <1>1, <1>3, <2>1, RowIds DEF Kinds
<1>7. Settled'
    BY <1>1, <1>2, <1>5, <1>6 DEF Settled, Kept, CalendarAsked, NotOurs, Owned, PlacedFor, Bare, Says
<1> QED  BY <1>2, <1>4, <1>7, RestsSettled

LEMMA CalendarDeleteWorks ==
    ASSUME Consistent, PickedThreadUntouched, NEW w \in Workers, Working(w), CalendarDelete(w)
    PROVE  (Working(w)' \/ AtRest') /\ PickedThreadUntouched'
<1> DEFINE q == worker[w]
           ids == {row.refs["calendar"]}
<1>1. /\ row.live /\ row.refs["calendar"] # Picked
      /\ NotOurs(row.refs, row.owned) /\ Owned(row.refs, row.owned) /\ q.pc = "calendar"
      /\ PlacedFor(row.ver) /\ Covered({}) /\ \A k \in Parts : Shows(k, row.ver)
      /\ q.job.upd = row.ver /\ q.job.refs["calendar"] = row.refs["calendar"]
      /\ Says(row.ver).supC /\ q.made = NoRef
    BY AtCalendar DEF CalendarDelete
<1>2. RemoveAll(ids) /\ UNCHANGED <<row, versions, queue, request, nextId>>
    BY <1>1 DEF CalendarDelete
<1>3. Picked \notin ids /\ row.refs["calendar"] \in ids
    BY <1>1
<1>4. \A k \in Parts : Shows(k, row.ver)'
    <2> SUFFICES ASSUME NEW k \in Parts
                 PROVE  Shows(k, row.ver)'
        OBVIOUS
    <2>1. CASE Has(k)
        <3>1. PICK o \in remote : o.id = row.refs[k] /\ o.kind = k
            BY <1>1, <2>1 DEF Shows
        <3>2. row.refs[k] \notin ids
            BY <3>1, PlacesDiffer, RowIds
        <3> HIDE DEF ids
        <3>3. \A v : Shows(k, v) => Shows(k, v)'
            BY <1>2, <3>2, StillThere, RowIds
        <3> QED  BY <1>1, <1>2, <3>3 DEF Shows, UpToDate
    <2>2. CASE ~Has(k)
        BY <1>2, <2>2 DEF Shows, Has
    <2> QED  BY <2>1, <2>2
<1> HIDE DEF ids
<1>5. PickedThreadUntouched'
    BY <1>2, <1>3, AfterRemoval DEF PickedThreadUntouched, PickedThread
<1>6. Covered({})' /\ history'.missed = history.missed
    BY <1>1, <1>2, AfterRemoval, StaysCovered
<1>7. NotOurs(row.refs, row.owned)' /\ Owned(row.refs, row.owned)' /\ PlacedFor(row.ver)'
    BY <1>1, <1>2, <1>6 DEF NotOurs, Owned, PlacedFor, Bare, Says
<1>8. CASE row.refs["calendar"] = NoRef
    <2>1. \A k \in Kinds : Shows(k, row.ver)'
        BY <1>2, <1>4, <1>8 DEF Shows, UpToDate, Has, Kinds
    <2>2. Settled'
        BY <1>1, <1>2, <1>6, <1>7, <2>1 DEF Settled, Kept, CalendarAsked, Says
    <2>3. Rest(w)
        BY <1>1, <1>8 DEF CalendarDelete
    <2> QED  BY <1>2, <1>5, <2>2, <2>3, RestsSettled
<1>9. CASE row.refs["calendar"] # NoRef
    <2>1. Step(w, "calsave")
        BY <1>1, <1>9 DEF CalendarDelete
    <2>2. /\ worker' = [worker EXCEPT ![w] = worker'[w]] /\ worker'[w].pc = "calsave"
          /\ worker'[w].job = q.job /\ worker'[w].made = NoRef
        BY <1>1, <2>1, StepTo
    <2>3. Gone({"calendar"})'
        BY <1>2, <1>3, AfterRemoval DEF Gone
    <2>4. Covered({worker[w].made})'
        BY <1>6 DEF Covered
    <2>5. WorkerAt(worker[w])'
        BY <1>1, <1>2, <1>4, <1>7, <2>2, <2>3, <2>4 DEF WorkerAt, Says
    <2>6. Working(w)'
        BY <1>1, <1>2, <1>7, <2>2, <2>5, WorksOn
    <2> QED  BY <1>5, <2>6
<1> QED  BY <1>8, <1>9

LEMMA CalendarSaveWorks ==
    ASSUME Consistent, NEW w \in Workers, Working(w), CalendarSave(w)
    PROVE  AtRest'
<1> DEFINE q == worker[w]
<1>1. /\ row.live /\ NotOurs(row.refs, row.owned) /\ Owned(row.refs, row.owned)
      /\ PlacedFor(row.ver) /\ Covered({q.made}) /\ \A k \in Parts : Shows(k, row.ver)
      /\ IF q.made = NoRef
         THEN Says(row.ver).supC /\ Gone({"calendar"})
         ELSE /\ row.refs["calendar"] = NoRef /\ q.made > Picked
              /\ [id |-> q.made, kind |-> "calendar", ver |-> row.ver] \in remote
    BY DEF Working, CalendarSave, WorkerAt
<1>2. /\ row' = [row EXCEPT !.refs["calendar"] = q.made] /\ Rest(w)
      /\ UNCHANGED <<versions, queue, request, remote, nextId, history>>
    BY <1>1 DEF CalendarSave, SaveRef
<1>3. /\ row'.refs = [row.refs EXCEPT !["calendar"] = q.made] /\ row'.live /\ row'.ver = row.ver
      /\ row'.owned = row.owned
    BY <1>1, <1>2, Fields DEF Row
<1>4. row'.refs["calendar"] = q.made /\ \A k \in Kinds : k # "calendar" => row'.refs[k] = row.refs[k]
    BY <1>3, RowIds DEF Refs
<1>5. \A k \in Parts : row'.refs[k] = row.refs[k]
    BY <1>4, RowIds
<1>6. NotOurs(row.refs, row.owned)' /\ Owned(row.refs, row.owned)' /\ PlacedFor(row.ver)'
    BY <1>1, <1>2, <1>3, <1>5 DEF NotOurs, Owned, PlacedFor, Bare, Says, Parts
<1>7. \A k \in Kinds : Shows(k, row.ver)'
    <2>1. \A k \in Parts : Shows(k, row.ver)'
        BY <1>1, <1>2, <1>3, <1>5 DEF Shows, UpToDate, Has
    <2>2. Shows("calendar", row.ver)'
        BY <1>1, <1>2, <1>3, <1>4 DEF Shows, UpToDate, Has
    <2> QED  BY <2>1, <2>2 DEF Kinds
<1>8. Covered({})'
    <2>1. ASSUME NEW o \in Ours
          PROVE  \E k \in Kinds : o.id = row'.refs[k]
        <3>1. CASE o.id = q.made
            BY <1>4, <3>1, RowIds
        <3>2. CASE o.id # q.made
            <4>1. PICK k \in Kinds : o.id = row.refs[k]
                BY <1>1, <3>2 DEF Covered, Referenced
            <4>2. k # "calendar"
                BY <1>1, <4>1, ObjectIds DEF Gone, Ours
            <4> QED  BY <1>4, <4>1, <4>2
        <3> QED  BY <3>1, <3>2
    <2> QED  BY <1>2, <2>1 DEF Covered, Referenced, Ours
<1>9. CalendarAsked'
    BY <1>1, <1>2, <1>3, <1>4 DEF CalendarAsked, Says, NoRef, Picked
<1>10. Settled'
    BY <1>3, <1>6, <1>7, <1>8, <1>9 DEF Settled, Kept
<1> QED  BY <1>2, <1>10, RestsSettled

-----------------------------------------------------------------------------
(* A job is taken; the requests that hand one over, and the admin's push.    *)

LEMMA OneJob ==
    ASSUME NEW S, NEW s \in Seq(S), Len(s) = 1
    PROVE  Head(s) = s[1] /\ Tail(s) = <<>>
<1>1. s # <<>>
    BY EmptySeq
<1>2. Tail(s) \in Seq(S) /\ Len(Tail(s)) = Len(s) - 1
    BY <1>1, HeadTailProperties, Zenon
<1>3. Len(s) - 1 = 0
    OBVIOUS
<1>4. Tail(s) = <<>>
    BY <1>2, <1>3, EmptySeq
<1> QED  BY <1>4

LEMMA TakeQueued ==
    ASSUME Consistent, NEW w \in Workers, Queued, Take(w)
    PROVE  Working(w)'
<1> DEFINE job == queue[1]
<1>1. queue \in Seq(Job) /\ Len(queue) = 1 /\ IdleBut({}, {}) /\ WaitingJob(job)
    BY DEF Queued, Consistent, TypeOK
<1>2. Head(queue) = job /\ Tail(queue) = <<>>
    BY <1>1, OneJob
<1>3. job.kind # "remove"
    BY <1>1 DEF WaitingJob, Waiting
<1>4. /\ worker'[w].pc = "find" /\ worker'[w].job = job
      /\ worker' = [worker EXCEPT ![w] = worker'[w]] /\ queue' = <<>>
      /\ UNCHANGED <<row, versions, request, remote, nextId, history>>
    BY <1>2, <1>3 DEF Take, Become, IdleWorker, Consistent, TypeOK
<1>5. IdleBut({w}, {})'
    BY <1>1, <1>4 DEF IdleBut, Consistent, TypeOK
<1>6. WaitingJob(worker[w].job)'
    BY <1>1, <1>4 DEF WaitingJob, Waiting, Bare, PlacedFor, Says, NotOurs, Owned, Exists, Has,
          Covered, Ours, Referenced
<1>7. /\ row'.live /\ NotOurs(row.refs, row.owned)' /\ worker'[w].job.upd = row'.ver
      /\ worker'[w].job.refs["calendar"] = row'.refs["calendar"]
    BY <1>6 DEF WaitingJob, Waiting
<1>8. WorkerAt(worker[w])'
    BY <1>4, <1>6 DEF WorkerAt
<1> QED  BY <1>3, <1>4, <1>5, <1>7, <1>8 DEF Working

LEMMA CreateQueues ==
    ASSUME Consistent, NEW r \in Requests, AtRest, Create(r)
    PROVE  Queued'
<1>1. PICK c \in Choices, thread \in {NoRef, Picked} :
         /\ versions' = <<c>>
         /\ row' = [live |-> TRUE, ver |-> 1, owned |-> thread = NoRef,
                    refs |-> [NoRefs EXCEPT !["thread"] = thread]]
         /\ queue' = Append(queue, [NoJob EXCEPT !.kind = "publish", !.upd = 1])
    BY DEF Create
<1> DEFINE job == [NoJob EXCEPT !.kind = "publish", !.upd = 1]
           refs == [NoRefs EXCEPT !["thread"] = thread]
<1>2. versions = <<>> /\ UNCHANGED <<worker, request, remote, nextId, history>> /\ queue = <<>> /\ IdleBut({}, {})
    BY DEF Create, AtRest
<1>3. ~row.live /\ Ours = {}
    <2>1. ~Known(row.ver)
        BY <1>2 DEF Known
    <2> QED  BY <2>1 DEF Consistent, RowFits, AtRest
<1>4. Len(queue') = 1 /\ queue'[1] = job /\ IdleBut({}, {})'
    BY <1>1, <1>2 DEF IdleBut
<1>5. job.kind = "publish" /\ job.upd = 1 /\ job.refs = NoRefs
    BY DEF NoJob
<1>6. /\ row'.refs = refs /\ row'.ver = 1 /\ row'.live /\ row'.owned = (thread = NoRef)
    BY <1>1
<1>7. refs["thread"] = thread /\ \A k \in Kinds \ {"thread"} : refs[k] = NoRef
    BY DEF NoRefs, Kinds, Parts
<1> HIDE DEF refs, job
<1>8. Bare' /\ NotOurs(row.refs, row.owned)' /\ Owned(row.refs, row.owned)'
    <2>1. Bare'
        BY <1>6, <1>7 DEF Bare, Kinds
    <2>2. row'.refs["thread"] = thread /\ thread \in {NoRef, Picked} /\ NoRef # Picked
        BY <1>6, <1>7 DEF NoRef, Picked
    <2>3. NotOurs(row.refs, row.owned)' /\ Owned(row.refs, row.owned)'
        BY <1>6, <2>2, Zenon DEF NotOurs, Owned
    <2> QED  BY <2>1, <2>3
<1>9. (\A k \in Kinds : Exists(k)') /\ Covered({})'
    BY <1>2, <1>3, <1>6, <1>7 DEF Exists, Has, Covered, Ours
<1>10. NoRefs["calendar"] = row'.refs["calendar"]
    BY <1>6, <1>7 DEF NoRefs, Kinds, Parts
<1>11. WaitingJob(queue[1])'
    BY <1>4, <1>5, <1>6, <1>8, <1>9, <1>10 DEF WaitingJob, Waiting
<1> QED  BY <1>4, <1>11 DEF Queued

LEMMA SettledStays ==
    ASSUME Settled, UNCHANGED <<row, remote, history>>, versions'[row.ver] = versions[row.ver]
    PROVE  Settled'
BY DEF Settled, Kept, CalendarAsked, NotOurs, Owned, PlacedFor, Bare, Says, Shows, UpToDate, Has, Covered, Ours, Referenced

LEMMA AloneIn ==
    ASSUME Consistent, NEW r \in Requests, request' = [request EXCEPT ![r] = request'[r]], UNCHANGED worker,
           IdleBut({}, {r})
    PROVE  IdleBut({}, {r})' /\ (request'[r].pc = "idle" => IdleBut({}, {})')
BY DEF IdleBut, Consistent, TypeOK

LEMMA UpdateReadAsks ==
    ASSUME Consistent, NEW r \in Requests, AtRest, UpdateRead(r)
    PROVE  Requesting(r)'
<1>1. PICK c \in Choices, thread \in {row.refs["thread"], Picked} :
         /\ versions' = Append(versions, c)
         /\ request' = [request EXCEPT ![r] =
              [pc |-> IF thread = row.refs["thread"] THEN "write" ELSE "disown",
               seen |-> row, says |-> Len(versions) + 1, thread |-> thread, made |-> NoRef]]
    BY DEF UpdateRead
<1>2. Settled /\ queue = <<>> /\ IdleBut({}, {r}) /\ UNCHANGED <<row, queue, worker, remote, nextId, history>>
    BY DEF UpdateRead, AtRest, IdleBut
<1>3. Settled'
    <2>1. Known(row.ver) /\ versions \in Seq(Content) /\ c \in Content
        BY <1>2, PublicationAssumption DEF Settled, Kept, Consistent, RowFits, TypeOK
    <2>2. versions'[row.ver] = versions[row.ver]
        BY <1>1, <2>1 DEF Known
    <2> QED  BY <1>2, <2>2, SettledStays
<1>4. /\ request' = [request EXCEPT ![r] = request'[r]]
      /\ request'[r].pc = IF thread = row.refs["thread"] THEN "write" ELSE "disown"
      /\ request'[r].seen = row /\ request'[r].thread = thread
    BY <1>1 DEF Consistent, TypeOK
<1>5. queue' = <<>> /\ IdleBut({}, {r})'
    BY <1>2, <1>4, AloneIn
<1>6. RequestAt(request[r])'
    <2>1. CASE thread = row.refs["thread"]
        BY <1>2, <1>3, <1>4, <2>1 DEF RequestAt, Settled
    <2>2. CASE thread # row.refs["thread"]
        BY <1>1, <1>2, <1>3, <1>4, <2>2 DEF RequestAt
    <2> QED  BY <2>1, <2>2
<1> QED  BY <1>5, <1>6 DEF Requesting

LEMMA SyncReadAsks ==
    ASSUME Consistent, NEW r \in Requests, AtRest, SyncRead(r)
    PROVE  Requesting(r)'
<1>1. Settled /\ queue = <<>> /\ IdleBut({}, {r}) /\ UNCHANGED <<row, versions, queue, worker, remote, nextId, history>>
    BY DEF SyncRead, AtRest, IdleBut
<1>2. Settled'
    BY <1>1, SettledStays
<1>3. request' = [request EXCEPT ![r] = request'[r]] /\ request'[r].pc = "push" /\ request'[r].seen = row
    BY DEF SyncRead, IdleRequest, Consistent, TypeOK
<1>4. RequestAt(request[r])'
    BY <1>1, <1>2, <1>3 DEF RequestAt
<1> QED  BY <1>1, <1>3, <1>4, AloneIn DEF Requesting

LEMMA GoneTo ==
    ASSUME Consistent, NEW r \in Requests, NEW pc, Goto(r, pc)
    PROVE  /\ request' = [request EXCEPT ![r] = request'[r]] /\ request'[r].pc = pc
           /\ request'[r].seen = request[r].seen /\ request'[r].says = request[r].says
           /\ request'[r].thread = request[r].thread /\ request'[r].made = request[r].made
BY Fields DEF Goto, Consistent, TypeOK, RequestState

LEMMA DisownAsks ==
    ASSUME Consistent, NEW r \in Requests, Requesting(r), Disown(r)
    PROVE  Requesting(r)'
<1> DEFINE q == request[r]
<1>1. Settled /\ q.seen = row /\ q.thread = Picked /\ queue = <<>> /\ IdleBut({}, {r})
    BY DEF Requesting, Disown, RequestAt
<1>2. /\ row' = [row EXCEPT !.owned = FALSE]
      /\ history'.left = history.left \cup ({row.refs["thread"]} \ {NoRef})
      /\ history'.behind = history.behind /\ history'.missed = history.missed
      /\ Goto(r, "write") /\ UNCHANGED <<versions, queue, worker, remote, nextId>>
    BY <1>1, HistoryFields DEF Disown, SaveOwned, Settled, Kept, History
<1>3. row'.refs = row.refs /\ row'.live = row.live /\ row'.ver = row.ver /\ ~row'.owned
    BY <1>2, Fields DEF Row
<1>4. Kept({})'
    BY <1>1, <1>2, <1>3 DEF Settled, Kept, NotOurs, PlacedFor, Bare, Says, Shows, UpToDate, Has, Covered, Ours, Referenced
<1>5. row'.refs["thread"] \in history'.left \cup {NoRef}
    BY <1>2, <1>3
<1>6. request'[r].pc = "write" /\ request'[r].seen = row /\ request'[r].thread = Picked
    BY <1>1, <1>2, GoneTo
<1>7. RequestAt(request[r])'
    BY <1>3, <1>4, <1>5, <1>6 DEF RequestAt
<1> QED  BY <1>1, <1>2, <1>7, GoneTo, AloneIn DEF Requesting

LEMMA UpdateWriteAsks ==
    ASSUME Consistent, NEW r \in Requests, Requesting(r), UpdateWrite(r)
    PROVE  Requesting(r)'
<1> DEFINE q == request[r]
           refs == [row.refs EXCEPT !["thread"] = q.thread, !["scheduled"] = q.seen.refs["scheduled"]]
<1>1. /\ q.seen.ver = row.ver /\ q.seen.refs = row.refs /\ Kept({}) /\ row.live
      /\ queue = <<>> /\ IdleBut({}, {r})
      /\ \/ q.thread = row.refs["thread"] /\ Owned(row.refs, row.owned)
         \/ q.thread = Picked /\ ~row.owned /\ row.refs["thread"] \in history.left \cup {NoRef}
    BY DEF Requesting, UpdateWrite, RequestAt, Kept
<1>2. /\ row' = [row EXCEPT !.ver = q.says, !.refs["thread"] = q.thread, !.refs["scheduled"] = q.seen.refs["scheduled"]]
      /\ Goto(r, "enqueue") /\ UNCHANGED <<versions, queue, worker, remote, nextId, history>>
    BY <1>1 DEF UpdateWrite
<1>3. row'.refs = refs /\ row'.live /\ row'.ver = q.says /\ row'.owned = row.owned
    BY <1>1, <1>2, Fields DEF Row
<1>4. refs["thread"] = q.thread /\ \A k \in Kinds : k # "thread" => refs[k] = row.refs[k]
    BY <1>1, RowIds DEF Refs, Kinds, Parts
<1> HIDE DEF refs
<1>5. NotOurs(row.refs, row.owned)' /\ Owned(row.refs, row.owned)'
    BY <1>1, <1>3, <1>4 DEF Kept, NotOurs, Owned
<1>6. PlacedFor(row.ver)
    BY <1>1 DEF Kept
<1>7. PlacedFor(request[r].seen.ver)'
    <2>1. request'[r].seen.ver = row.ver
        BY <1>1, <1>2, GoneTo
    <2>2. Bare => Bare'
        BY <1>1, <1>3, <1>4 DEF Bare, Kinds, Parts
    <2> QED  BY <1>2, <1>3, <1>4, <1>6, <2>1, <2>2 DEF PlacedFor, Says, Kinds, Parts
<1>8. ASSUME NEW k \in Kinds
      PROVE  Exists(k)'
    <2>1. Exists(k)
        BY <1>1 DEF Kept, Shows, Exists
    <2> QED  BY <1>1, <1>2, <1>3, <1>4, <2>1 DEF Exists, Has
<1>9. Covered({})'
    <2>1. ASSUME NEW o \in Ours
          PROVE  \E k \in Kinds : o.id = row'.refs[k]
        <3>1. PICK k \in Kinds : o.id = row.refs[k]
            BY <1>1 DEF Kept, Covered, Referenced
        <3>2. k # "thread" \/ q.thread = row.refs["thread"]
            BY <1>1, <3>1, ObjectIds DEF Ours
        <3> QED  BY <1>3, <1>4, <3>1, <3>2
    <2> QED  BY <1>2, <2>1 DEF Covered, Referenced, Ours
<1>10. row'.refs["calendar"] = row.refs["calendar"]
    BY <1>3, <1>4 DEF Kinds, Parts
<1>11. RequestAt(request[r])'
    BY <1>1, <1>2, <1>3, <1>5, <1>7, <1>8, <1>9, <1>10, GoneTo DEF RequestAt, Waiting
<1> QED  BY <1>1, <1>2, <1>11, GoneTo, AloneIn DEF Requesting

LEMMA UpdateEnqueueQueues ==
    ASSUME Consistent, NEW r \in Requests, Requesting(r), UpdateEnqueue(r)
    PROVE  Queued'
<1> DEFINE q == request[r]
           job == [kind |-> "change", before |-> q.seen.ver, upd |-> q.says,
                   refs |-> q.seen.refs, owned |-> q.seen.owned]
<1>1. Waiting("change", q.seen.ver, q.says, q.seen.refs["calendar"]) /\ queue = <<>> /\ IdleBut({}, {r})
    BY DEF Requesting, UpdateEnqueue, RequestAt
<1>2. /\ queue' = Append(queue, job) /\ Done(r) /\ UNCHANGED <<row, versions, worker, remote, nextId, history>>
    BY DEF UpdateEnqueue
<1>3. Len(queue') = 1 /\ queue'[1] = job
    BY <1>1, <1>2
<1>4. IdleBut({}, {})'
    BY <1>1, <1>2, AloneIn DEF Done, IdleRequest, Consistent, TypeOK
<1>5. WaitingJob(queue[1])'
    BY <1>1, <1>2, <1>3 DEF WaitingJob, Waiting, Bare, PlacedFor, Says, NotOurs, Owned, Exists, Has,
          Covered, Ours, Referenced
<1> QED  BY <1>3, <1>4, <1>5 DEF Queued
LEMMA AsksNoMore ==
    ASSUME Consistent, NEW r \in Requests, IdleBut({}, {r}), Done(r), UNCHANGED worker
    PROVE  IdleBut({}, {})'
<1>1. request' = [request EXCEPT ![r] = request'[r]] /\ request'[r].pc = "idle"
    BY DEF Done, IdleRequest, Consistent, TypeOK
<1> QED  BY <1>1, AloneIn

LEMMA AtPush ==
    ASSUME Consistent, PickedThreadUntouched, NEW r \in Requests, Requesting(r), request[r].pc = "push"
    PROVE  /\ Settled /\ request[r].seen = row /\ queue = <<>> /\ IdleBut({}, {r}) /\ row.live
           /\ row.ver \in 0..MaxVer /\ row.refs["calendar"] # Picked
           /\ Kept({}) /\ Covered({}) /\ NotOurs(row.refs, row.owned) /\ Owned(row.refs, row.owned)
           /\ PlacedFor(row.ver) /\ \A k \in Kinds : Shows(k, row.ver)
<1>1. Settled /\ request[r].seen = row /\ queue = <<>> /\ IdleBut({}, {r})
    BY DEF Requesting, RequestAt
<1>2. row.ver \in 0..MaxVer /\ row.refs["calendar"] # Picked
    BY Fields, OnlyThreads, RowIds
<1> QED  BY <1>1, <1>2 DEF Settled, Kept

LEMMA SyncCreateAsks ==
    ASSUME Consistent, PickedThreadUntouched, NEW r \in Requests, Requesting(r), SyncCreate(r)
    PROVE  Requesting(r)' /\ PickedThreadUntouched'
<1>1. /\ queue = <<>> /\ IdleBut({}, {r}) /\ row.live /\ row.refs["calendar"] = NoRef
      /\ Covered({}) /\ NotOurs(row.refs, row.owned) /\ Owned(row.refs, row.owned)
      /\ PlacedFor(row.ver) /\ \A k \in Kinds : Shows(k, row.ver)
    BY AtPush DEF SyncCreate
<1>2. /\ remote' = remote \cup {Make("calendar", row.ver)} /\ nextId' = nextId + 1
      /\ Make("calendar", row.ver) = [id |-> nextId + 1, kind |-> "calendar", ver |-> row.ver]
      /\ history'.left = history.left /\ history'.missed = history.missed \ {"calendar"}
      /\ history'.behind = history.behind
      /\ UNCHANGED <<row, versions, queue, worker>>
    BY AfterCreation, AtPush DEF SyncCreate
<1>3. /\ request' = [request EXCEPT ![r] = request'[r]] /\ request'[r].pc = "keep"
      /\ request'[r].made = nextId + 1
    BY Fields DEF SyncCreate, Consistent, TypeOK, RequestState
<1>4. PickedThreadUntouched' /\ request'[r].made > Picked
    BY <1>2, <1>3, ObjectIds DEF PickedThreadUntouched
<1>5. Covered({request[r].made})'
    <2>1. Make("calendar", row.ver).id = request'[r].made
        BY <1>2, <1>3
    <2> QED  BY <1>1, <1>2, <2>1 DEF Covered, Ours, Referenced
<1>6. \A k \in Kinds : Shows(k, row.ver)'
    BY <1>1, <1>2, ShowsMore
<1>7. NotOurs(row.refs, row.owned)' /\ Owned(row.refs, row.owned)' /\ PlacedFor(row.ver)'
    <2>1. "scheduled" \in history.missed => "scheduled" \in history'.missed
        BY <1>2
    <2> QED  BY <1>1, <1>2, <2>1 DEF NotOurs, Owned, PlacedFor, Bare, Says
<1>8. Kept({request[r].made})'
    BY <1>1, <1>2, <1>5, <1>6, <1>7 DEF Kept
<1>9. [id |-> request[r].made, kind |-> "calendar", ver |-> row.ver]' \in remote'
    BY <1>2, <1>3
<1>10. row'.refs["calendar"] = NoRef
    BY <1>1, <1>2
<1>11. RequestAt(request[r])'
    BY <1>3, <1>4, <1>7, <1>8, <1>9, <1>10 DEF RequestAt
<1> QED  BY <1>1, <1>2, <1>3, <1>4, <1>11, AloneIn DEF Requesting

LEMMA SyncCreateFailsAsks ==
    ASSUME Consistent, PickedThreadUntouched, NEW r \in Requests, Requesting(r), SyncCreateFails(r)
    PROVE  AtRest' /\ PickedThreadUntouched'
<1>1. /\ queue = <<>> /\ IdleBut({}, {r}) /\ row.live
      /\ Covered({}) /\ NotOurs(row.refs, row.owned) /\ Owned(row.refs, row.owned)
      /\ PlacedFor(row.ver) /\ \A k \in Kinds : Shows(k, row.ver)
    BY AtPush DEF SyncCreateFails
<1>2. /\ Done(r) /\ UNCHANGED <<row, versions, queue, worker>>
      /\ \A o \in remote : o \in remote'
      /\ \A o \in Ours' : o \in Ours
      /\ history'.missed = history.missed \cup {"calendar"} /\ history'.behind = history.behind
    BY AfterFailure DEF SyncCreateFails
<1>3. \A k \in Kinds : Shows(k, row.ver)'
    BY <1>1, <1>2, ShowsMore
<1>4. PlacedFor(row.ver)' /\ Covered({})' /\ CalendarAsked' /\ NotOurs(row.refs, row.owned)'
      /\ Owned(row.refs, row.owned)' /\ PickedThreadUntouched'
    BY <1>1, <1>2 DEF PlacedFor, Bare, Says, Covered, Referenced, CalendarAsked, NotOurs, Owned,
       PickedThreadUntouched
<1>5. Settled'
    BY <1>1, <1>2, <1>3, <1>4 DEF Settled, Kept
<1> QED  BY <1>1, <1>2, <1>4, <1>5, AsksNoMore DEF AtRest

LEMMA SyncUpdateAsks ==
    ASSUME Consistent, PickedThreadUntouched, NEW r \in Requests, Requesting(r), SyncUpdate(r)
    PROVE  AtRest' /\ PickedThreadUntouched'
<1> DEFINE ids == {row.refs["calendar"]}
<1>1. /\ Settled /\ queue = <<>> /\ IdleBut({}, {r}) /\ row.live /\ row.ver \in 0..MaxVer
      /\ Covered({}) /\ \A k \in Kinds : Shows(k, row.ver)
    BY AtPush DEF SyncUpdate
<1>2. EditAll(ids, row.ver) /\ Done(r) /\ UNCHANGED <<row, versions, queue, worker, nextId>>
    BY AtPush DEF SyncUpdate
<1>3. PickedThread.id \notin ids
    BY AtPush DEF SyncUpdate, PickedThread
<1> HIDE DEF ids
<1>4. PickedThreadUntouched'
    BY <1>1, <1>2, <1>3, AfterEdit DEF PickedThreadUntouched
<1>5. Covered({})' /\ history'.missed = history.missed
    BY <1>1, <1>2, AfterEdit, StaysCovered
<1>6. \A k \in Kinds : Shows(k, row.ver)'
    BY <1>1, <1>2, StillShows
<1>7. Settled'
    BY <1>1, <1>2, <1>5, <1>6 DEF Settled, Kept, CalendarAsked, NotOurs, Owned, PlacedFor, Bare, Says
<1> QED  BY <1>1, <1>2, <1>4, <1>7, AsksNoMore DEF AtRest

LEMMA SyncKeepAsks ==
    ASSUME Consistent, NEW r \in Requests, Requesting(r), SyncKeep(r)
    PROVE  AtRest'
<1> DEFINE made == request[r].made
<1>1. /\ Kept({made}) /\ row.live /\ Owned(row.refs, row.owned) /\ queue = <<>> /\ IdleBut({}, {r})
      /\ row.refs["calendar"] = NoRef /\ made > Picked
      /\ [id |-> made, kind |-> "calendar", ver |-> row.ver] \in remote
    BY DEF Requesting, SyncKeep, RequestAt, Kept
<1>2. /\ row' = [row EXCEPT !.refs["calendar"] = made] /\ Done(r)
      /\ UNCHANGED <<versions, queue, worker, remote, nextId, history>>
    BY <1>1 DEF SyncKeep, SaveRef
<1>3. /\ row'.refs = [row.refs EXCEPT !["calendar"] = made] /\ row'.live /\ row'.ver = row.ver
      /\ row'.owned = row.owned
    BY <1>1, <1>2, Fields DEF Row
<1>4. row'.refs["calendar"] = made /\ \A k \in Kinds : k # "calendar" => row'.refs[k] = row.refs[k]
    BY <1>3, RowIds DEF Refs
<1>5. \A k \in Parts : row'.refs[k] = row.refs[k]
    BY <1>4, RowIds
<1>6. NotOurs(row.refs, row.owned)' /\ Owned(row.refs, row.owned)' /\ PlacedFor(row.ver)'
    BY <1>1, <1>2, <1>3, <1>5 DEF Kept, NotOurs, Owned, PlacedFor, Bare, Says, Parts
<1>7. \A k \in Kinds : Shows(k, row.ver)'
    <2>1. \A k \in Parts : Shows(k, row.ver)'
        BY <1>1, <1>2, <1>3, <1>5, RowIds DEF Kept, Shows, UpToDate, Has
    <2>2. Shows("calendar", row.ver)'
        BY <1>1, <1>2, <1>3, <1>4 DEF Shows, UpToDate, Has
    <2> QED  BY <2>1, <2>2 DEF Kinds
<1>8. Covered({})'
    <2>1. ASSUME NEW o \in Ours
          PROVE  \E k \in Kinds : o.id = row'.refs[k]
        <3>1. CASE o.id = made
            BY <1>4, <3>1, RowIds
        <3>2. CASE o.id # made
            <4>1. PICK k \in Kinds : o.id = row.refs[k]
                BY <1>1, <3>2 DEF Kept, Covered, Referenced
            <4>2. k # "calendar"
                BY <1>1, <4>1, ObjectIds DEF Ours
            <4> QED  BY <1>4, <4>1, <4>2
        <3> QED  BY <3>1, <3>2
    <2> QED  BY <1>2, <2>1 DEF Covered, Referenced, Ours
<1>9. CalendarAsked'
    BY <1>1, <1>3, <1>4 DEF CalendarAsked, NoRef, Picked
<1>10. Settled'
    BY <1>3, <1>6, <1>7, <1>8, <1>9 DEF Settled, Kept
<1> QED  BY <1>1, <1>2, <1>3, <1>10, AsksNoMore DEF AtRest
-----------------------------------------------------------------------------
(* A removal: its job and its request go on side by side. *)

LEMMA CancelReadAsks ==
    ASSUME Consistent, NEW r \in Requests, AtRest, CancelRead(r)
    PROVE  Requesting(r)'
<1>1. Settled /\ queue = <<>> /\ IdleBut({}, {r}) /\ UNCHANGED <<row, versions, queue, worker, remote, nextId, history>>
    BY DEF CancelRead, AtRest, IdleBut
<1>2. Settled'
    BY <1>1, SettledStays
<1>3. request' = [request EXCEPT ![r] = request'[r]] /\ request'[r].pc = "removal" /\ request'[r].seen = row
    BY DEF CancelRead, IdleRequest, Consistent, TypeOK
<1>4. RequestAt(request[r])'
    BY <1>1, <1>2, <1>3 DEF RequestAt
<1> QED  BY <1>1, <1>3, <1>4, AloneIn DEF Requesting

LEMMA CancelEnqueueRemoves ==
    ASSUME Consistent, NEW r \in Requests, Requesting(r), CancelEnqueue(r)
    PROVE  Removing'
<1> DEFINE job == [kind |-> "remove", before |-> row.ver, upd |-> row.ver,
                   refs |-> row.refs, owned |-> row.owned]
<1>1. /\ Settled /\ request[r].seen = row /\ queue = <<>> /\ IdleBut({}, {r})
      /\ queue' = Append(queue, job) /\ Goto(r, "calendar")
      /\ UNCHANGED <<row, versions, worker, remote, nextId, history>>
    <2>1. Settled /\ request[r].seen = row /\ row.live /\ queue = <<>> /\ IdleBut({}, {r})
        BY DEF Requesting, RequestAt, CancelEnqueue, Settled, Kept
    <2>2. (row.live => row.owned) = row.owned
        BY <2>1, Fields DEF Row
    <2> QED  BY <2>1, <2>2 DEF CancelEnqueue
<1>2. /\ request' = [request EXCEPT ![r] = request'[r]] /\ request'[r].pc = "calendar"
      /\ request'[r].seen = row
    BY <1>1, GoneTo
<1>3. Len(queue') = 1 /\ queue'[1] = job
    BY <1>1
<1>4. Removable(row.refs, row.owned, row.ver)
    BY <1>1 DEF Settled, Kept, PlacedFor, Removable, Consistent, RowFits
<1>5. ASSUME NEW i \in 1..Len(queue')
      PROVE  queue'[i].kind = "remove" /\ Removable(queue[i].refs, queue[i].owned, queue[i].before)'
    <2>1. queue'[i] = job
        BY <1>3
    <2> QED  BY <1>1, <1>4, <2>1 DEF Removable, NotOurs, Owned, Says, Known
<1>6. IdleBut(Workers, {r})' /\ \A w \in Workers : worker'[w].pc = "idle"
    BY <1>1, <1>2 DEF IdleBut, Consistent, TypeOK
<1>7. ASSUME NEW o \in Ours
      PROVE  o.id = request'[r].seen.refs["calendar"] \/ o.id \in PartIds(queue'[1].refs)
    <2>1. PICK k \in Kinds : o.id = row.refs[k]
        BY <1>1 DEF Settled, Kept, Covered, Referenced
    <2> QED  BY <1>2, <1>3, <2>1 DEF Kinds, PartIds
<1>8. Ours' = Ours
    BY <1>1 DEF Ours
<1>9. \A x \in Requests : request'[x].pc # "idle" => x = r
    BY <1>6 DEF IdleBut
<1>10. RemovalsWait'
    BY <1>3, <1>5 DEF RemovalsWait
<1>11. OneDeletes' /\ LiveOnlyMeanwhile'
    BY <1>2, <1>6, <1>9 DEF OneDeletes, LiveOnlyMeanwhile, Cancelling
<1>12. EachIsComingDown'
    BY <1>2, <1>3, <1>7, <1>8 DEF EachIsComingDown
<1> QED  BY <1>6, <1>10, <1>11, <1>12 DEF Removing, RemovalsRun

LEMMA CancelCalendarRemoves ==
    ASSUME Consistent, PickedThreadUntouched, NEW r \in Requests, Removing, CancelCalendar(r)
    PROVE  Removing' /\ PickedThreadUntouched'
<1> DEFINE id == request[r].seen.refs["calendar"]
<1>1. /\ request[r].pc = "calendar" /\ Cancelling(r) /\ IdleBut(Workers, {r})
      /\ RemoveAll({id}) /\ Goto(r, "delete")
      /\ UNCHANGED <<row, versions, queue, worker, nextId>>
    BY DEF CancelCalendar, Removing, OneDeletes, Cancelling
<1>2. request' = [request EXCEPT ![r] = request'[r]] /\ request'[r].pc = "delete"
    BY <1>1, GoneTo
<1>3. id # Picked
    BY Fields, OnlyThreads DEF RequestFits, Kinds
<1>4. PickedThreadUntouched'
    BY <1>1, <1>3, AfterRemoval DEF PickedThreadUntouched, PickedThread
<1>5. ASSUME NEW o \in Ours'
      PROVE  \/ \E i \in 1..Len(queue) : o.id \in PartIds(queue[i].refs)
             \/ \E w \in Workers : TakingDown(w) /\ o.id \in PartIds(worker[w].refs)
    <2>1. o \in Ours /\ o.id # id
        BY <1>1, AfterRemoval
    <2> QED  BY <1>1, <2>1 DEF Removing, EachIsComingDown, IdleBut
<1>6. IdleBut(Workers, {r})' /\ \A x \in Requests : request'[x].pc # "idle" => x = r
    BY <1>1, <1>2 DEF IdleBut, Consistent, TypeOK
<1>7. \A w \in Workers : IdleBut({w}, Requests)' <=> IdleBut({w}, Requests)
    BY <1>1 DEF IdleBut
<1>8. \A refs, owned, v : Removable(refs, owned, v)' <=> Removable(refs, owned, v)
    BY <1>1 DEF Removable, NotOurs, Owned, Says, Known
<1> QED  BY <1>1, <1>2, <1>4, <1>5, <1>6, <1>7, <1>8 DEF Removing, RemovalsWait, RemovalsRun, OneDeletes,
         LiveOnlyMeanwhile, EachIsComingDown, Cancelling, TakingDown

LEMMA CancelDeleteRemoves ==
    ASSUME Consistent, NEW r \in Requests, Removing, CancelDelete(r)
    PROVE  Removing'
<1>1. /\ request[r].pc = "delete" /\ IdleBut(Workers, {r}) /\ ~row'.live /\ Done(r)
      /\ UNCHANGED <<versions, queue, worker, remote, nextId, history>>
    BY DEF CancelDelete, Removing, OneDeletes, NoRow
<1>2. \A x \in Requests : request'[x].pc = "idle"
    BY <1>1, AsksNoMore DEF Done, IdleBut, IdleRequest, Consistent, TypeOK
<1>3. ASSUME NEW o \in Ours
      PROVE  \/ \E i \in 1..Len(queue) : o.id \in PartIds(queue[i].refs)
             \/ \E w \in Workers : TakingDown(w) /\ o.id \in PartIds(worker[w].refs)
    BY <1>1 DEF Removing, EachIsComingDown, IdleBut
<1>4. Ours' = Ours
    BY <1>1 DEF Ours
<1>5. \A w \in Workers : IdleBut({w}, Requests)' <=> IdleBut({w}, Requests)
    BY <1>1 DEF IdleBut
<1>6. \A refs, owned, v : Removable(refs, owned, v)' <=> Removable(refs, owned, v)
    BY <1>1 DEF Removable, NotOurs, Owned, Says, Known
<1> QED  BY <1>1, <1>2, <1>3, <1>4, <1>5, <1>6 DEF Removing, RemovalsWait, RemovalsRun, OneDeletes,
         LiveOnlyMeanwhile, EachIsComingDown, TakingDown

LEMMA TakeRemoves ==
    ASSUME Consistent, NEW w \in Workers, Removing, Take(w)
    PROVE  Removing'
<1> DEFINE job == queue[1]
<1>1. /\ queue \in Seq(Job) /\ Len(queue) = 1 /\ \A x \in Workers : worker[x].pc = "idle"
      /\ job.kind = "remove" /\ Removable(job.refs, job.owned, job.before)
    <2>1. queue \in Seq(Job) /\ queue # <<>>
        BY DEF Take, Consistent, TypeOK
    <2> DEFINE n == Len(queue)
    <2>2. n \in Nat \ {0} /\ n <= 1
        BY <2>1, EmptySeq, Zenon DEF Removing, RemovalsWait
    <2> HIDE DEF n
    <2>3. n = 1
        BY <2>2
    <2>4. job.kind = "remove" /\ Removable(job.refs, job.owned, job.before)
        BY <2>3 DEF Removing, RemovalsWait, n
    <2> QED  BY <2>1, <2>3, <2>4 DEF Removing, RemovalsRun, n
<1>2. Head(queue) = job /\ Tail(queue) = <<>>
    BY <1>1, OneJob
<1>3. /\ worker'[w].pc = "takedown" /\ worker'[w].job = job
      /\ worker'[w].refs = job.refs /\ worker'[w].owned = job.owned
      /\ worker' = [worker EXCEPT ![w] = worker'[w]] /\ queue' = <<>>
      /\ UNCHANGED <<row, versions, request, remote, nextId, history>>
    BY <1>1, <1>2 DEF Take, Become, IdleWorker, Consistent, TypeOK
<1>4. /\ IdleBut({w}, Requests)' /\ \A x \in Workers : worker'[x].pc # "idle" => x = w
      /\ \A r \in Requests : IdleBut(Workers, {r})' <=> IdleBut(Workers, {r})
    BY <1>1, <1>3 DEF IdleBut, Consistent, TypeOK
<1>5. Removable(worker[w].refs, worker[w].owned, worker[w].job.before)'
    BY <1>1, <1>3 DEF Removable, NotOurs, Owned, Says, Known
<1>6. ASSUME NEW o \in Ours
      PROVE  \/ \E r \in Requests : request[r].pc = "calendar" /\ o.id = request[r].seen.refs["calendar"]
             \/ o.id \in PartIds(worker'[w].refs)
    BY <1>1, <1>3 DEF Removing, RemovalsRun, EachIsComingDown, TakingDown
<1>7. Ours' = Ours /\ Len(queue') = 0
    BY <1>3 DEF Ours
<1>8. RemovalsWait' /\ RemovalsRun'
    <2>1. RemovalsWait'
        BY <1>7 DEF RemovalsWait
    <2>2. worker'[w].job.kind = "remove"
        BY <1>1, <1>3
    <2>3. RemovalsRun'
        BY <1>3, <1>4, <1>5, <2>2 DEF RemovalsRun
    <2> QED  BY <2>1, <2>3
<1>9. OneDeletes' /\ LiveOnlyMeanwhile'
    BY <1>3, <1>4 DEF Removing, OneDeletes, LiveOnlyMeanwhile, Cancelling
<1>10. EachIsComingDown'
    BY <1>3, <1>6, <1>7 DEF EachIsComingDown, TakingDown
<1> QED  BY <1>8, <1>9, <1>10 DEF Removing

LEMMA TakedownRemoves ==
    ASSUME Consistent, PickedThreadUntouched, NEW w \in Workers, Removing, Takedown(w)
    PROVE  Removing' /\ PickedThreadUntouched'
<1> DEFINE q == worker[w]
<1>1. /\ q.pc = "takedown" /\ queue = <<>> /\ IdleBut({w}, Requests) /\ q.job.kind = "remove"
      /\ Removable(q.refs, q.owned, q.job.before)
      /\ UNCHANGED <<row, versions, queue, request, nextId>> /\ Step(w, "clear")
    BY DEF Removing, RemovalsRun, Takedown
<1>2. /\ worker' = [worker EXCEPT ![w] = worker'[w]] /\ worker'[w].pc = "clear"
      /\ worker'[w].job = q.job /\ worker'[w].refs = q.refs /\ worker'[w].owned = q.owned
    BY <1>1, StepTo
<1>3. /\ PickedThreadUntouched'
      /\ \A o \in Ours' : o \in Ours /\ o.id \notin PartIds(q.refs)
    BY <1>1, TakenDown DEF PartIds
<1>4. /\ IdleBut({w}, Requests)' /\ \A x \in Workers : worker'[x].pc # "idle" => x = w
      /\ \A r \in Requests : IdleBut(Workers, {r})' <=> IdleBut(Workers, {r})
    BY <1>1, <1>2 DEF IdleBut, Consistent, TypeOK
<1>5. Removable(worker[w].refs, worker[w].owned, worker[w].job.before)'
    BY <1>1, <1>2 DEF Removable, NotOurs, Owned, Says, Known
<1>6. ASSUME NEW o \in Ours'
      PROVE  \E r \in Requests : request[r].pc = "calendar" /\ o.id = request[r].seen.refs["calendar"]
    BY <1>1, <1>3 DEF Removing, EachIsComingDown, TakingDown, IdleBut
<1>7. RemovalsWait'
    BY <1>1 DEF RemovalsWait
<1>8. RemovalsRun'
    BY <1>1, <1>2, <1>4, <1>5 DEF RemovalsRun
<1>9. OneDeletes' /\ LiveOnlyMeanwhile'
    BY <1>1, <1>4 DEF Removing, OneDeletes, LiveOnlyMeanwhile, Cancelling
<1>10. EachIsComingDown'
    BY <1>1, <1>6 DEF EachIsComingDown
<1> QED  BY <1>3, <1>7, <1>8, <1>9, <1>10 DEF Removing

LEMMA ClearRemoves ==
    ASSUME Consistent, NEW w \in Workers, Removing, Clear(w)
    PROVE  Removing'
<1> DEFINE q == worker[w]
<1>1. /\ q.pc = "clear" /\ queue = <<>> /\ IdleBut({w}, Requests) /\ q.job.kind = "remove" /\ Rest(w)
      /\ UNCHANGED <<versions, queue, request, remote, nextId, history>>
    BY DEF Removing, RemovalsRun, Clear
<1>2. row'.live = row.live
    BY Fields DEF Clear, ForgetRefs, Row
<1>3. /\ \A x \in Workers : worker'[x].pc = "idle"
      /\ \A r \in Requests : IdleBut(Workers, {r})' <=> IdleBut(Workers, {r})
    BY <1>1 DEF IdleBut, Rest, Become, IdleWorker, Consistent, TypeOK
<1>4. ASSUME NEW o \in Ours
      PROVE  \E r \in Requests : request[r].pc = "calendar" /\ o.id = request[r].seen.refs["calendar"]
    BY <1>1 DEF Removing, EachIsComingDown, TakingDown, IdleBut
<1>5. Ours' = Ours
    BY <1>1 DEF Ours
<1> QED  BY <1>1, <1>2, <1>3, <1>4, <1>5 DEF Removing, RemovalsWait, RemovalsRun, OneDeletes, LiveOnlyMeanwhile, EachIsComingDown, Cancelling
-----------------------------------------------------------------------------
LEMMA InitOrderly == Init => Orderly
<1> SUFFICES ASSUME Init PROVE Orderly
    OBVIOUS
<1>1. PickedThreadUntouched
    BY DEF Init, PickedThreadUntouched
<1>2. queue = <<>> /\ IdleBut({}, {}) /\ ~row.live
    BY DEF Init, IdleBut, IdleWorker, IdleRequest, NoRow
<1>3. Ours = {}
    BY DEF Init, Ours, PickedThread
<1> QED  BY <1>1, <1>2, <1>3 DEF Orderly, Phase, AtRest

\* A request begins: nothing else is under way, and something is after it.
LEMMA BeginsOrderly ==
    ASSUME Patient, Consistent, Orderly, NEW r \in Requests,
           Create(r) \/ UpdateRead(r) \/ CancelRead(r) \/ SyncRead(r)
    PROVE  Orderly'
<1>1. Quiet
    BY DEF Create, UpdateRead, CancelRead, SyncRead, MayStart
<1>2. AtRest
    BY <1>1, QuietIsRest DEF Orderly
<1>3. PickedThreadUntouched'
    BY DEF Orderly, PickedThreadUntouched, Create, UpdateRead, CancelRead, SyncRead
<1> QED  BY <1>2, <1>3, CreateQueues, UpdateReadAsks, CancelReadAsks, SyncReadAsks DEF Orderly, Phase

LEMMA RequestOrderly ==
    ASSUME Consistent, Orderly, NEW r \in Requests, RequestGoesOn(r)
    PROVE  Orderly'
<1>1. CASE Disown(r) \/ UpdateWrite(r) \/ UpdateEnqueue(r) \/ CancelEnqueue(r)
    <2>1. Requesting(r)
        BY <1>1, AsksAlone DEF Orderly, Disown, UpdateWrite, UpdateEnqueue, CancelEnqueue
    <2>2. PickedThreadUntouched'
        BY <1>1 DEF Orderly, PickedThreadUntouched, Disown, UpdateWrite, UpdateEnqueue, CancelEnqueue
    <2> QED  BY <1>1, <2>1, <2>2, DisownAsks, UpdateWriteAsks, UpdateEnqueueQueues, CancelEnqueueRemoves
             DEF Orderly, Phase
<1>2. CASE SyncCreate(r) \/ SyncCreateFails(r) \/ SyncUpdate(r) \/ SyncKeep(r)
    <2>1. Requesting(r)
        BY <1>2, AsksAlone DEF Orderly, SyncCreate, SyncCreateFails, SyncUpdate, SyncKeep
    <2>2. SyncKeep(r) => PickedThreadUntouched'
        BY DEF Orderly, PickedThreadUntouched, SyncKeep
    <2> QED  BY <1>2, <2>1, <2>2, SyncCreateAsks, SyncCreateFailsAsks, SyncUpdateAsks, SyncKeepAsks
             DEF Orderly, Phase
<1>3. CASE CancelCalendar(r) \/ CancelDelete(r)
    <2>1. request[r].pc \in {"calendar", "delete"}
        BY <1>3 DEF CancelCalendar, CancelDelete
    <2>2. Removing
        BY <2>1, WhoAsks DEF Orderly, Requesting, RequestAt
    <2>3. CancelDelete(r) => PickedThreadUntouched'
        BY DEF Orderly, PickedThreadUntouched, CancelDelete
    <2> QED  BY <1>3, <2>2, <2>3, CancelCalendarRemoves, CancelDeleteRemoves DEF Orderly, Phase
<1> QED  BY <1>1, <1>2, <1>3 DEF RequestGoesOn

LEMMA TakeOrderly ==
    ASSUME Consistent, Orderly, NEW w \in Workers, Take(w)
    PROVE  Orderly'
<1>1. PickedThreadUntouched'
    BY DEF Orderly, PickedThreadUntouched, Take
<1>2. Queued \/ Removing
    BY DEF Orderly, Phase, AtRest, Requesting, Working, Take
<1> QED  BY <1>1, <1>2, TakeQueued, TakeRemoves DEF Orderly, Phase

\* remove_event, for a change that hides the event and for a deletion.
LEMMA RemoveOrderly ==
    ASSUME Consistent, Orderly, NEW w \in Workers, Takedown(w) \/ Clear(w)
    PROVE  Orderly'
<1>1. Working(w) \/ Removing
    BY WhoWorks DEF Orderly, Takedown, Clear
<1>2. Clear(w) => PickedThreadUntouched'
    BY DEF Orderly, PickedThreadUntouched, Clear
<1> QED  BY <1>1, <1>2, TakedownWorks, ClearWorks, TakedownRemoves, ClearRemoves DEF Orderly, Phase

LEMMA WorkerOrderly ==
    ASSUME Consistent, Orderly, NEW w \in Workers, WorkerStep(w)
    PROVE  Orderly'
<1>1. CASE Take(w) \/ Takedown(w) \/ Clear(w)
    BY <1>1, TakeOrderly, RemoveOrderly
<1>2. CASE Find(w) \/ LookUp(w) \/ Unref(w) \/ Save(w) \/ Own(w) \/ LeaveNote(w)
    <2>1. Working(w)
        BY <1>2, WorksAlone DEF Orderly, Find, LookUp, Unref, Save, Own, LeaveNote
    <2>2. PickedThreadUntouched'
        BY <1>2 DEF Orderly, PickedThreadUntouched, Find, LookUp, Unref, Save, Own, LeaveNote
    <2> QED  BY <1>2, <2>1, <2>2, FindWorks, LookUpWorks, UnrefWorks, SaveWorks, OwnWorks, LeaveNoteWorks
             DEF Orderly, Phase
<1>3. CASE Edit(w) \/ Move(w) \/ Post(w) \/ PostFails(w) \/ Link(w)
    <2>1. Working(w)
        BY <1>3, WorksAlone DEF Orderly, Edit, Move, Post, PostFails, Link
    <2> QED  BY <1>3, <2>1, EditWorks, MoveWorks, PostWorks, PostFailsWorks, LinkWorks DEF Orderly, Phase
<1>4. CASE CalendarCreate(w) \/ CalendarCreateFails(w) \/ CalendarUpdate(w) \/ CalendarDelete(w)
    <2>1. Working(w)
        BY <1>4, WorksAlone DEF Orderly, CalendarCreate, CalendarCreateFails, CalendarUpdate, CalendarDelete
    <2> QED  BY <1>4, <2>1, CalendarCreateWorks, CalendarCreateFailsWorks, CalendarUpdateWorks,
                CalendarDeleteWorks DEF Orderly, Phase
<1>5. CASE CalendarSave(w)
    <2>1. Working(w)
        BY <1>5, WorksAlone DEF Orderly, CalendarSave
    <2>2. PickedThreadUntouched'
        BY <1>5 DEF Orderly, PickedThreadUntouched, CalendarSave
    <2> QED  BY <1>5, <2>1, <2>2, CalendarSaveWorks DEF Orderly, Phase
<1> QED  BY <1>1, <1>2, <1>3, <1>4, <1>5 DEF WorkerStep

LEMMA StutterOrderly ==
    ASSUME Orderly, UNCHANGED vars
    PROVE  Orderly'
<1>1. /\ row' = row /\ versions' = versions /\ queue' = queue /\ worker' = worker
      /\ request' = request /\ remote' = remote /\ nextId' = nextId /\ history' = history
    BY DEF vars
<1>2. PickedThreadUntouched' = PickedThreadUntouched
    BY <1>1 DEF PickedThreadUntouched
<1>3. Phase' = Phase
    BY <1>1 DEF Phase, AtRest, Requesting, RequestAt, Queued, WaitingJob, Waiting, Working, WorkerAt,
       Posting, Posted, Open, Known, Settled, Kept, CalendarAsked, NotOurs, Owned, Removable, PlacedFor,
       Bare, Says, Shows, UpToDate, Exists, Has, Covered, Gone, Ours, Referenced, IdleBut, Removing, RemovalsWait,
       RemovalsRun, OneDeletes, LiveOnlyMeanwhile, EachIsComingDown, Cancelling, TakingDown
<1> QED  BY <1>2, <1>3 DEF Orderly

LEMMA NextOrderly ==
    ASSUME Patient, Consistent, Orderly, [Next]_vars
    PROVE  Orderly'
<1>1. CASE UNCHANGED vars
    BY <1>1, StutterOrderly
<1>2. ASSUME NEW r \in Requests, RequestStep(r)
      PROVE  Orderly'
    BY <1>2, BeginsOrderly, RequestOrderly DEF RequestStep, RequestGoesOn
<1>3. ASSUME NEW w \in Workers, WorkerStep(w)
      PROVE  Orderly'
    BY <1>3, WorkerOrderly
<1> QED  BY <1>1, <1>2, <1>3 DEF Next

-----------------------------------------------------------------------------
(* When requests find the pool at rest, one thing is under way at a time.    *)
(* At each of its steps the row, the remote objects, what is known to have   *)
(* failed and what it carries agree, whichever creations, edits and removals *)
(* fail; no thread someone picked is lost.                                   *)
THEOREM AlwaysOrderly ==
    ASSUME Patient
    PROVE  Spec => []Orderly
<1>1. Consistent /\ Orderly /\ [Next]_vars => Orderly'
    BY NextOrderly
<1> QED  BY <1>1, InitOrderly, AlwaysConsistent, PTL DEF Spec

(* A thread someone picked on the form is never deleted, renamed or given a  *)
(* new text by the hub: remove_event and update_event leave it alone.        *)
THEOREM PickedThreadStays ==
    ASSUME Patient
    PROVE  Spec => []PickedThreadUntouched
<1>1. Orderly => PickedThreadUntouched
    BY DEF Orderly
<1> QED  BY <1>1, AlwaysOrderly, PTL

\* A note stands in the picked thread, in one given up, or in one of ours.
LEMMA WhereNotesAre ==
    ASSUME Consistent, NEW id \in Noted, id \notin {Picked} \cup history.left
    PROVE  \E o \in Ours : o.id = id
<1>1. PICK n \in history.notes : n.thread = id
    BY DEF Noted
<1>2. PICK o \in remote : o.id = id
    BY <1>1 DEF Consistent, Objects, NotesFit
<1> QED  BY <1>2 DEF Ours

(* Deleting an event takes down its posts, its Discord event, its entry in   *)
(* the calendar and the update notes in its thread, whatever failed before,  *)
(* but for the objects a removal of which failed (remove_event, delete_event *)
(* and the move of an announcement forget the id all the same), those a call *)
(* made whose answer was lost, and the threads given up for a picked one.    *)
THEOREM DeletingLeavesNothing ==
    ASSUME Patient
    PROVE  Spec => []NothingLeftBehind
<1>1. Consistent /\ Orderly => NothingLeftBehind
    <2> SUFFICES ASSUME Consistent, Orderly, Quiet, ~row.live
                 PROVE  Ours = {} /\ Noted \subseteq {Picked} \cup history.left
        BY DEF NothingLeftBehind
    <2>1. Ours = {}
        BY QuietIsRest DEF Orderly, AtRest
    <2> QED  BY <2>1, WhereNotesAre
<1> QED  BY <1>1, AlwaysOrderly, AlwaysConsistent, PTL

(* Whatever was posted and not deleted is known to the row, which edits and  *)
(* deletes it by the ids its columns hold, and so is the thread of every     *)
(* update note: what the row does not know is exactly what history.left      *)
(* records, a removal that failed, an answer that was lost, a thread given   *)
(* up.  No other failure, of a post, an edit or a save, loses an object.     *)
THEOREM NothingOrphaned ==
    ASSUME Patient
    PROVE  Spec => []NoOrphans
<1>1. Consistent /\ Orderly => NoOrphans
    <2> SUFFICES ASSUME Consistent, Orderly, Quiet
                 PROVE  /\ \A o \in Ours : o.id \in Referenced
                        /\ Noted \subseteq Referenced \cup {Picked} \cup history.left
        BY DEF NoOrphans
    <2>1. \A o \in Ours : o.id \in Referenced
        BY QuietIsRest DEF Orderly, AtRest, Settled, Kept, Covered
    <2> QED  BY <2>1, WhereNotesAre
<1> QED  BY <1>1, AlwaysOrderly, AlwaysConsistent, PTL

(* Every id in the row is that of an object that exists and shows what the   *)
(* row says now, unless the last edit of that very object failed:            *)
(* update_event misses no post, and a later edit that goes through catches   *)
(* up.                                                                       *)
THEOREM StaysInStep ==
    ASSUME Patient
    PROVE  Spec => []KeptInStep
<1>1. Consistent /\ Orderly => KeptInStep
    <2> SUFFICES ASSUME Consistent, Orderly, Quiet, row.live
                 PROVE  \A k \in Kinds : Shows(k, row.ver)
        BY DEF KeptInStep, Shows, UpToDate, Has
    <2>1. AtRest
        BY QuietIsRest DEF Orderly
    <2> QED  BY <2>1 DEF AtRest, Settled, Kept
<1> QED  BY <1>1, AlwaysOrderly, AlwaysConsistent, PTL

(* The suppress switches are obeyed both ways: an event has its Discord      *)
(* event exactly when Discord isn't suppressed, and is in the calendar       *)
(* unless that is, whichever way its author flipped them before; but the     *)
(* call that was to create it may have failed.                               *)
THEOREM ShowsWhatIsAsked ==
    ASSUME Patient
    PROVE  Spec => []ShownAsAsked
<1>1. Consistent /\ Orderly => ShownAsAsked
    <2> SUFFICES ASSUME Consistent, Orderly, Quiet, row.live
                 PROVE  /\ row.refs["scheduled"] # NoRef => ~Says(row.ver).supD
                        /\ "scheduled" \in Switched /\ row.refs["scheduled"] = NoRef =>
                              Says(row.ver).supD \/ "scheduled" \in history.missed
                        /\ row.refs["calendar"] = NoRef =>
                              Says(row.ver).supC \/ "calendar" \in history.missed
        BY DEF ShownAsAsked
    <2>1. PlacedFor(row.ver) /\ CalendarAsked
        BY QuietIsRest DEF Orderly, AtRest, Settled, Kept
    <2>2. Says(row.ver).supD => row.refs["scheduled"] = NoRef
        BY <2>1 DEF PlacedFor, Bare, Parts
    <2> QED  BY <2>1, <2>2 DEF PlacedFor, CalendarAsked
<1> QED  BY <1>1, AlwaysOrderly, AlwaysConsistent, PTL
=============================================================================
