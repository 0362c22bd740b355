---------------------------- MODULE BrowserProofs ----------------------------
(***************************************************************************)
(* What is proved of the scripts of the pages: of live updates for any     *)
(* tabs, topics, pages and sessions; of the logo editor for any pictures,  *)
(* places and colours; and the types of the two beside the editor of the   *)
(* About page (RichEditorProofs).  The bounds are any bounds.              *)
(*                                                                         *)
(* Each of the two has an inductive invariant: LiveInv, that each page     *)
(* keeps its word about each topic, and LogoInv, that a form which isn't   *)
(* filled as shown is about to be.                                         *)
(***************************************************************************)
EXTENDS MCBrowser, RichEditorProofs, FiniteSetTheorems


(* Live updates.  What the hub is still to tell a page that is connected. *)
Coming(t, k) == \E by \in (OneTab \cup {None}) \ {t} : <<k, by>> \in pending \cup hub.batch

(* A page hears of a change: from the hub, from its wire or queue, or because *)
(* its connection is lost and it will reload everything.                      *)
Hears(t, k) ==
    \/ linked[t] /\ (conn[t] = None \/ Coming(t, k))
    \/ {k, All} \cap (wire[t] \cup queue[t]) # {}
    \/ lost[t]
Excused(t) == popUpSave[t] = "answered"

(* An answer on its way is of now, or the page hears of what it lacks. *)
Current(t, r, k) == r # None /\ r.seen # None /\ ~r.old /\ r.seen[k] # data[k] => Hears(t, k) \/ Excused(t)

(* The promise of NothingLost, of which links are no part: theirs may fail unnoticed. *)
(* A table promises nothing about the topics that its hook drops (Listens).           *)
Promised(t, k) ==
    Live!Owes(t, k) =>
        \/ pill[t] \/ missed[t]
        \/ Hears(t, k) \/ Excused(t)
        \/ Live!Brings(body[t], k) \/ Live!Brings(next[t], k)
        \/ tableRows[t] /\ shown[t].page \in Tables
KeepsWord(t, k) == Promised(t, k) /\ Current(t, body[t], k) /\ Current(t, link[t], k)

(* What waits has no answer; who has no connection has no wire; a batch is there *)
(* to be sent; the heartbeat has looked at sessions that have ended.             *)
Unasked == \A t \in OneTab : next[t] # None => next[t].seen = None
Offline == \A t \in OneTab : ~linked[t] => conn[t] = None /\ wire[t] = {}
BatchIsSent == hub.at # "send" => hub.batch = {}
EndedIsOver ==
    \A t \in OneTab : /\ hub.ended[t] # None => hub.ended[t] \in spent \ valid
                      /\ conn[t] # None => conn[t] \in spent

(* The bound: a change is made, or somebody is about to make it. *)
BeingSaved == {t \in OneTab : popUpSave[t] \in Topics}
WithinBound == Cardinality(Live!Made) + Cardinality(BeingSaved) <= MaxChanges

WordKept == \A t \in OneTab : \A k \in Live!InView : KeepsWord(t, k)
WiresInv == Unasked /\ Offline /\ BatchIsSent /\ EndedIsOver
LiveInv == Live!TypeOK /\ WithinBound /\ WiresInv /\ WordKept

HubOK ==
    /\ data \in Live!Changes /\ pending \subseteq Topics \X (OneTab \cup {None})
    /\ hub \in [at : {"wait", "send", "close"}, batch : SUBSET (Topics \X (OneTab \cup {None})),
                ended : [OneTab -> Tokens \cup {None}]]
    /\ conn \in [OneTab -> Tokens \cup {None}] /\ wire \in [OneTab -> SUBSET (Topics \cup {All})]
SessionsOK == valid \subseteq spent /\ spent \subseteq Tokens /\ token \in [OneTab -> spent]
ScriptOK ==
    /\ linked \in [OneTab -> BOOLEAN] /\ lost \in [OneTab -> BOOLEAN] /\ applyTimer \in [OneTab -> BOOLEAN]
    /\ queue \in [OneTab -> SUBSET (Topics \cup {All})]
PersonOK ==
    /\ hidden \in [OneTab -> BOOLEAN] /\ modal \in [OneTab -> BOOLEAN]
    /\ hands \in [OneTab -> [Live!Areas -> SUBSET {"typing", "opened"}]]
ViewOK ==
    /\ address \in [OneTab -> Pages] /\ pill \in [OneTab -> BOOLEAN]
    /\ shown \in [OneTab -> [page : Pages, seen : Live!Changes]]
AskedOK ==
    /\ body \in [OneTab -> Live!Request \cup {None}] /\ next \in [OneTab -> Live!Request \cup {None}]
    /\ link \in [OneTab -> Live!Request \cup {None}] /\ tableRows \in [OneTab -> BOOLEAN]
    /\ popUpSave \in [OneTab -> Topics \cup {"answered", None}]
PastOK == missed \in [OneTab -> BOOLEAN] /\ faults \in 0..MaxFaults /\ may \in Scenarios

LEMMA LiveParts ==
    Live!TypeOK <=> HubOK /\ SessionsOK /\ ScriptOK /\ PersonOK /\ ViewOK /\ AskedOK /\ PastOK
BY DEF Live!TypeOK, HubOK, SessionsOK, ScriptOK, PersonOK, ViewOK, AskedOK, PastOK

LEMMA LivePartsNext ==
    HubOK' /\ SessionsOK' /\ ScriptOK' /\ PersonOK' /\ ViewOK' /\ AskedOK' /\ PastOK' => Live!TypeOK'
BY DEF Live!TypeOK, HubOK, SessionsOK, ScriptOK, PersonOK, ViewOK, AskedOK, PastOK

LEMMA LivePartsStay ==
    /\ HubOK /\ UNCHANGED Live!server => HubOK'
    /\ SessionsOK /\ UNCHANGED Live!sessions => SessionsOK'
    /\ ScriptOK /\ UNCHANGED Live!script => ScriptOK'
    /\ PersonOK /\ UNCHANGED Live!person => PersonOK'
    /\ ViewOK /\ UNCHANGED Live!view => ViewOK'
    /\ AskedOK /\ UNCHANGED Live!requests => AskedOK'
    /\ PastOK /\ UNCHANGED <<missed, faults, may>> => PastOK'
BY DEF HubOK, SessionsOK, ScriptOK, PersonOK, ViewOK, AskedOK, PastOK,
       Live!server, Live!sessions, Live!script, Live!person, Live!view, Live!requests

-----------------------------------------------------------------------------
(* The changes made, and those about to be. *)
LEMMA MadeFinite == IsFiniteSet(Live!Made) /\ Cardinality(Live!Made) \in Nat
<1>1. IsFiniteSet(1..MaxChanges)
    BY FS_Interval, LiveAssumption
<1>2. IsFiniteSet(Topics \X (1..MaxChanges))
    BY <1>1, FS_Product, LiveAssumption
<1>3. Live!Made \in SUBSET (Topics \X (1..MaxChanges))
    BY DEF Live!Made
<1>4. QED
    BY <1>2, <1>3, FS_Subset, FS_CardinalityType

LEMMA BeingSavedFinite == IsFiniteSet(BeingSaved) /\ Cardinality(BeingSaved) \in Nat
<1>1. BeingSaved \in SUBSET OneTab
    BY DEF BeingSaved
<1>2. QED
    BY <1>1, FS_Subset, FS_CardinalityType, LiveAssumption

LEMMA RoomMeans ==
    Live!MayChange => /\ Cardinality(Live!Made) + Cardinality(BeingSaved) < MaxChanges
                      /\ Cardinality(Live!Made) < MaxChanges
<1>1. Live!MayChange => Cardinality(Live!Made) + Cardinality(BeingSaved) < MaxChanges
    BY Zenon DEF Live!MayChange, BeingSaved, Live!Cardinality, Cardinality
<1>2. QED
    BY <1>1, MadeFinite, BeingSavedFinite, LiveAssumption

(* While there is room for one more, no topic has had all of them. *)
LEMMA RoomForOne ==
    ASSUME data \in Live!Changes, NEW k \in Topics, Cardinality(Live!Made) < MaxChanges
    PROVE  data[k] < MaxChanges
<1> SUFFICES ASSUME data[k] >= MaxChanges PROVE FALSE
    BY LiveAssumption DEF Live!Changes
<1>1. {k} \X (1..MaxChanges) \in SUBSET Live!Made
    BY LiveAssumption DEF Live!Changes, Live!Made
<1>2. IsFiniteSet(1..MaxChanges) /\ Cardinality(1..MaxChanges) = MaxChanges
    BY FS_Interval, LiveAssumption
<1>3. IsFiniteSet({k}) /\ Cardinality({k}) = 1
    BY FS_Singleton
<1>4. Cardinality({k} \X (1..MaxChanges)) = 1 * MaxChanges
    BY <1>2, <1>3, FS_Product
<1>5. Cardinality({k} \X (1..MaxChanges)) <= Cardinality(Live!Made)
    BY <1>1, MadeFinite, FS_Subset
<1>6. QED
    BY <1>4, <1>5, MadeFinite, LiveAssumption

LEMMA OneMore ==
    ASSUME HubOK, NEW k \in Topics, NEW by \in OneTab \cup {None}, Live!Announce(k, by),
           Cardinality(Live!Made) < MaxChanges
    PROVE  /\ Cardinality(Live!Made') = Cardinality(Live!Made) + 1
           /\ data' \in Live!Changes /\ pending' \subseteq Topics \X (OneTab \cup {None})
<1>1. data[k] < MaxChanges /\ data \in Live!Changes
    BY RoomForOne DEF HubOK
<1>2. data' \in Live!Changes
    BY <1>1, LiveAssumption DEF Live!Announce, Live!Changes
<1>3. Live!Made' = Live!Made \cup {<<k, data[k] + 1>>} /\ <<k, data[k] + 1>> \notin Live!Made
    BY <1>1, LiveAssumption DEF Live!Announce, Live!Changes, Live!Made
<1>4. Cardinality(Live!Made') = Cardinality(Live!Made) + 1
    BY <1>3, MadeFinite, FS_AddElement
<1>5. pending' \subseteq Topics \X (OneTab \cup {None})
    BY DEF HubOK, Live!Announce
<1>6. QED
    BY <1>2, <1>4, <1>5

LEMMA LiveFirst == Live!Init => LiveInv
<1> SUFFICES ASSUME Live!Init PROVE LiveInv
    OBVIOUS
<1>1. HubOK
    BY LiveAssumption DEF Live!Init, HubOK, Live!Changes, Live!Waiting
<1>2. SessionsOK
    BY DEF Live!Init, SessionsOK
<1>3. ScriptOK /\ PersonOK
    BY DEF Live!Init, ScriptOK, PersonOK, Live!Free
<1>4. ViewOK
    BY <1>1 DEF Live!Init, ViewOK, HubOK
<1>5. AskedOK /\ PastOK
    BY LiveAssumption DEF Live!Init, AskedOK, PastOK
<1>6. WithinBound
    <2>1. Live!Made = {}
        BY DEF Live!Init, Live!Made
    <2>2. BeingSaved = {}
        BY LiveAssumption DEF Live!Init, BeingSaved
    <2>3. QED
        BY <2>1, <2>2, FS_EmptySet, LiveAssumption DEF WithinBound
<1>7. WiresInv
    BY DEF Live!Init, WiresInv, Unasked, Offline, BatchIsSent, EndedIsOver, Live!Waiting
<1>8. WordKept
    BY DEF Live!Init, WordKept, KeepsWord, Promised, Current, Live!Owes, Live!InView
<1>9. QED
    BY <1>1, <1>2, <1>3, <1>4, <1>5, <1>6, <1>7, <1>8, LiveParts DEF LiveInv

-----------------------------------------------------------------------------
(* Requests keep their form. *)
AskKinds == {"update", "click", "reload", "link"}
PathsOK ==
    /\ body \in [OneTab -> Live!Request \cup {None}] /\ next \in [OneTab -> Live!Request \cup {None}]
    /\ link \in [OneTab -> Live!Request \cup {None}]

LEMMA NewIsRequest ==
    ASSUME NEW area \in Live!Areas, NEW by \in AskKinds, NEW q \in Pages
    PROVE  Live!New(area, by, q) \in Live!Request
BY DEF Live!New, Live!Request, AskKinds

LEMMA AgedIsRequest ==
    ASSUME NEW r \in Live!Request \cup {None}
    PROVE  /\ Live!Aged(r) \in Live!Request \cup {None}
           /\ Live!Aged(r) = None <=> r = None
           /\ r # None => /\ Live!Aged(r).area = r.area /\ Live!Aged(r).seen = r.seen
                          /\ Live!Aged(r).seen # None => Live!Aged(r).old
<1>1. CASE r # None /\ r.seen # None
    <2>1. r \in Live!Request
        BY <1>1
    <2>2. [r EXCEPT !.old = TRUE] \in Live!Request
        BY <2>1 DEF Live!Request
    <2>3. QED
        BY <1>1, <2>1, <2>2, LiveAssumption DEF Live!Aged, Live!Request
<1>2. CASE ~(r # None /\ r.seen # None)
    BY <1>2 DEF Live!Aged
<1>3. QED
    BY <1>1, <1>2

LEMMA AskTypes ==
    ASSUME PathsOK, ViewOK, NEW t \in OneTab, NEW area \in Live!Areas, NEW by \in AskKinds,
           Live!Ask(t, area, by)
    PROVE  PathsOK'
<1>1. Live!New(area, by, address[t]) \in Live!Request
    BY NewIsRequest DEF ViewOK
<1>2. Live!Aged(body[t]) \in Live!Request \cup {None} /\ Live!Aged(link[t]) \in Live!Request \cup {None}
    BY AgedIsRequest DEF PathsOK
<1>3. QED
    BY <1>1, <1>2 DEF Live!Ask, PathsOK

LEMMA AskNothingTypes ==
    ASSUME PathsOK, NEW t \in OneTab, Live!AskNothing(t)
    PROVE  PathsOK'
<1>1. Live!Aged(body[t]) \in Live!Request \cup {None} /\ Live!Aged(link[t]) \in Live!Request \cup {None}
    BY AgedIsRequest DEF PathsOK
<1>2. QED
    BY <1>1 DEF Live!AskNothing, PathsOK

LEMMA MissesTypes ==
    ASSUME PathsOK, missed \in [OneTab -> BOOLEAN], NEW who, Live!Misses(who), UNCHANGED next
    PROVE  PathsOK' /\ missed' \in [OneTab -> BOOLEAN]
<1>1. \A t \in OneTab : /\ Live!Aged(body[t]) \in Live!Request \cup {None}
                        /\ Live!Aged(link[t]) \in Live!Request \cup {None}
    BY AgedIsRequest DEF PathsOK
<1>2. body' \in [OneTab -> Live!Request \cup {None}]
    BY <1>1 DEF Live!Misses, PathsOK
<1>3. link' \in [OneTab -> Live!Request \cup {None}]
    BY <1>1 DEF Live!Misses, PathsOK
<1>4. missed' \in [OneTab -> BOOLEAN]
    BY DEF Live!Misses
<1>5. QED
    BY <1>2, <1>3, <1>4 DEF PathsOK

LEMMA AnsweredIsRequest ==
    ASSUME NEW r \in Live!Request, data \in Live!Changes
    PROVE  /\ Live!Answered(r) \in Live!Request
           /\ Live!Answered(r).seen = data /\ Live!Answered(r).area = r.area
BY DEF Live!Answered, Live!Request

(* A change, and what is missed by it, keep the types. *)
LEMMA ChangeTypes ==
    ASSUME HubOK, AskedOK, PastOK, NEW k \in Topics, NEW by \in OneTab \cup {None}, NEW who,
           Live!Announce(k, by), Live!Misses(who), UNCHANGED <<next, hub, conn, wire, faults, may>>,
           Cardinality(Live!Made) < MaxChanges
    PROVE  HubOK' /\ PathsOK' /\ PastOK'
<1>1. data' \in Live!Changes /\ pending' \subseteq Topics \X (OneTab \cup {None})
    BY OneMore
<1>2. HubOK'
    BY <1>1 DEF HubOK
<1>3. PathsOK' /\ missed' \in [OneTab -> BOOLEAN]
    <2>1. PathsOK /\ missed \in [OneTab -> BOOLEAN]
        BY DEF AskedOK, PathsOK, PastOK
    <2>2. QED
        BY <2>1, MissesTypes
<1>4. QED
    BY <1>2, <1>3 DEF PastOK

LEMMA TroubleTypes == PastOK /\ Live!Trouble => faults' \in 0..MaxFaults
BY LiveAssumption DEF PastOK, Live!Trouble

LEMMA FailsTypes == ASSUME PastOK, NEW t \in OneTab, Live!Fails(t) PROVE faults' \in 0..MaxFaults
BY TroubleTypes DEF PastOK, Live!Fails

LEMMA PathsIn == AskedOK <=> /\ PathsOK /\ tableRows \in [OneTab -> BOOLEAN]
                             /\ popUpSave \in [OneTab -> Topics \cup {"answered", None}]
BY DEF AskedOK, PathsOK

LEMMA PathsInNext == PathsOK' /\ tableRows' \in [OneTab -> BOOLEAN]
                         /\ popUpSave' \in [OneTab -> Topics \cup {"answered", None}] => AskedOK'
BY DEF AskedOK, PathsOK

LivePartsOK == HubOK /\ SessionsOK /\ ScriptOK /\ PersonOK /\ ViewOK /\ AskedOK /\ PastOK

(* What the hub does next. *)
LEMMA HubTurns ==
    /\ Live!Waiting.at = "wait" /\ Live!Waiting.batch = {} /\ \A t \in OneTab : Live!Waiting.ended[t] = None
    /\ Live!Take => hub' = [at |-> "send", batch |-> pending, ended |-> Live!Waiting.ended]
    /\ Live!Beat => hub' = [at |-> "close", batch |-> {},
                           ended |-> [t \in OneTab |-> IF conn[t] \in valid THEN None ELSE conn[t]]]
    /\ Live!Send \/ Live!CloseEnded => hub' = Live!Waiting
BY DEF Live!Waiting, Live!Take, Live!Beat, Live!Send, Live!CloseEnded

LEMMA HubTypes ==
    ASSUME LivePartsOK, Live!Hub
    PROVE  Live!TypeOK'
<1>1. UNCHANGED <<Live!sessions, Live!script, Live!person, Live!view, Live!requests, missed, faults, may, data>>
    BY DEF Live!Hub, Live!Take, Live!Send, Live!Beat, Live!CloseEnded, Live!requests
<1>2. HubOK'
    <2>1. CASE Live!Take
        BY <2>1 DEF Live!Take, Live!Waiting, LivePartsOK, HubOK
    <2>2. CASE Live!Send
        <3>1. \A t \in OneTab : Live!Message(t) \subseteq Topics \cup {All}
            BY DEF Live!Message, Live!Told
        <3>2. wire' \in [OneTab -> SUBSET (Topics \cup {All})]
            BY <2>2, <3>1 DEF Live!Send, LivePartsOK, HubOK
        <3>3. QED
            BY <2>2, <3>2 DEF Live!Send, Live!Waiting, LivePartsOK, HubOK
    <2>3. CASE Live!Beat
        BY <2>3 DEF Live!Beat, Live!Waiting, LivePartsOK, HubOK
    <2>4. CASE Live!CloseEnded
        BY <2>4 DEF Live!CloseEnded, Live!Waiting, LivePartsOK, HubOK
    <2>5. QED
        BY <2>1, <2>2, <2>3, <2>4 DEF Live!Hub
<1>3. QED
    BY <1>1, <1>2, LivePartsStay, LivePartsNext DEF LivePartsOK

LEMMA ElsewhereTypes ==
    ASSUME LivePartsOK, NEW k \in Topics, Live!Elsewhere(k)
    PROVE  Live!TypeOK'
<1>1. Cardinality(Live!Made) < MaxChanges
    BY RoomMeans DEF Live!Elsewhere
<1>2. HubOK' /\ PathsOK' /\ PastOK'
    BY <1>1, ChangeTypes DEF Live!Elsewhere, LivePartsOK
<1>3. AskedOK'
    BY <1>2, PathsInNext DEF Live!Elsewhere, LivePartsOK, AskedOK
<1>4. QED
    BY <1>2, <1>3, LivePartsStay, LivePartsNext DEF Live!Elsewhere, LivePartsOK

(* Connections and sessions. *)
LEMMA QueueTypes ==
    ASSUME ScriptOK, NEW t \in OneTab, NEW c \in SUBSET (Topics \cup {All}), Live!Queue(t, c),
           linked' \in [OneTab -> BOOLEAN], lost' \in [OneTab -> BOOLEAN], hidden[t] \in BOOLEAN
    PROVE  ScriptOK'
BY DEF ScriptOK, Live!Queue

LEMMA WireTypes ==
    ASSUME LivePartsOK, NEW t \in OneTab,
           Live!Open(t) \/ Live!Closed(t) \/ Live!Hear(t) \/ Live!Break(t) \/ Live!SignOut(t) \/ Live!SignIn(t)
    PROVE  Live!TypeOK'
<1>1. HubOK' /\ ScriptOK'
    <2>1. CASE Live!Open(t)
        <3>1. token[t] \in Tokens
            BY DEF LivePartsOK, SessionsOK
        <3>2. HubOK'
            BY <2>1, <3>1 DEF Live!Open, LivePartsOK, HubOK
        <3>3. linked' \in [OneTab -> BOOLEAN] /\ lost' \in [OneTab -> BOOLEAN] /\ hidden[t] \in BOOLEAN
            BY <2>1 DEF Live!Open, LivePartsOK, ScriptOK, PersonOK
        <3>4. ScriptOK'
            BY <2>1, <3>3, QueueTypes DEF Live!Open, LivePartsOK, ScriptOK
        <3>5. QED
            BY <3>2, <3>4
    <2>2. CASE Live!Closed(t)
        BY <2>2, LivePartsStay DEF Live!Closed, LivePartsOK, ScriptOK
    <2>3. CASE Live!Hear(t)
        <3>1. HubOK'
            BY <2>3 DEF Live!Hear, LivePartsOK, HubOK
        <3>2. linked' \in [OneTab -> BOOLEAN] /\ lost' \in [OneTab -> BOOLEAN] /\ hidden[t] \in BOOLEAN
              /\ wire[t] \in SUBSET (Topics \cup {All})
            BY <2>3 DEF Live!Hear, LivePartsOK, ScriptOK, PersonOK, HubOK
        <3>3. QED
            BY <2>3, <3>1, <3>2, QueueTypes DEF Live!Hear, LivePartsOK
    <2>4. CASE Live!Break(t)
        BY <2>4, LivePartsStay DEF Live!Break, LivePartsOK, HubOK
    <2>5. CASE Live!SignOut(t) \/ Live!SignIn(t)
        BY <2>5, LivePartsStay DEF Live!SignOut, Live!SignIn, LivePartsOK
    <2>6. QED
        BY <2>1, <2>2, <2>3, <2>4, <2>5
<1>2. SessionsOK'
    <2>1. CASE Live!SignOut(t)
        BY <2>1 DEF Live!SignOut, LivePartsOK, SessionsOK
    <2>2. CASE Live!SignIn(t)
        BY <2>2 DEF Live!SignIn, LivePartsOK, SessionsOK
    <2>3. CASE UNCHANGED Live!sessions
        BY <2>3, LivePartsStay DEF LivePartsOK
    <2>4. QED
        BY <2>1, <2>2, <2>3 DEF Live!Open, Live!Closed, Live!Hear, Live!Break
<1>3. PastOK'
    <2>1. faults' \in 0..MaxFaults
        BY TroubleTypes DEF Live!Open, Live!Closed, Live!Hear, Live!Break, Live!SignOut, Live!SignIn,
                            LivePartsOK, PastOK
    <2>2. QED
        BY <2>1 DEF Live!Open, Live!Closed, Live!Hear, Live!Break, Live!SignOut, Live!SignIn, LivePartsOK, PastOK
<1>4. UNCHANGED <<Live!person, Live!view, Live!requests>>
    BY DEF Live!Open, Live!Closed, Live!Hear, Live!Break, Live!SignOut, Live!SignIn
<1>5. QED
    BY <1>1, <1>2, <1>3, <1>4, LivePartsStay, LivePartsNext DEF LivePartsOK

(* The script and the person. *)
LEMMA ApplyTypes ==
    ASSUME LivePartsOK, NEW t \in OneTab, Live!Apply(t)
    PROVE  Live!TypeOK'
<1>1. ScriptOK'
    BY DEF Live!Apply, LivePartsOK, ScriptOK
<1>2. PathsOK'
    <2>1. PathsOK /\ ViewOK
        BY DEF LivePartsOK, AskedOK, PathsOK
    <2>2. \/ UNCHANGED <<body, next, link>> \/ Live!AskNothing(t)
          \/ Live!Ask(t, "modal", "update") \/ Live!Ask(t, "main", "update")
        BY DEF Live!Apply, Live!Hook
    <2>3. QED
        BY <2>1, <2>2, AskTypes, AskNothingTypes DEF PathsOK, Live!Areas, AskKinds
<1>3. AskedOK' /\ ViewOK'
    <2>1. tableRows' \in [OneTab -> BOOLEAN] /\ pill' \in [OneTab -> BOOLEAN]
        BY DEF Live!Apply, Live!Hook, Live!AskNothing, LivePartsOK, AskedOK, ViewOK
    <2>2. QED
        BY <1>2, <2>1, PathsInNext DEF Live!Apply, Live!Hook, LivePartsOK, AskedOK, ViewOK
<1>4. QED
    BY <1>1, <1>3, LivePartsStay, LivePartsNext DEF Live!Apply, LivePartsOK

LEMMA RefreshTypes ==
    ASSUME LivePartsOK, NEW t \in OneTab, Live!Refresh(t)
    PROVE  Live!TypeOK'
<1>1. PathsOK'
    BY AskTypes DEF Live!Refresh, LivePartsOK, AskedOK, PathsOK, Live!Areas, AskKinds
<1>2. AskedOK' /\ ViewOK'
    BY <1>1, PathsInNext DEF Live!Refresh, LivePartsOK, AskedOK, ViewOK
<1>3. PersonOK'
    BY DEF Live!Refresh, LivePartsOK, PersonOK, Live!Areas
<1>4. QED
    BY <1>2, <1>3, LivePartsStay, LivePartsNext DEF Live!Refresh, LivePartsOK

LEMMA PersonTypes ==
    ASSUME LivePartsOK, NEW t \in OneTab, Live!Person(t)
    PROVE  Live!TypeOK'
<1> DEFINE Handles == \/ Live!Hide(t) \/ Live!Show(t) \/ Live!StopTyping(t) \/ Live!OpenPopUp(t)
                      \/ Live!ClosePopUp(t) \/ \E how \in {"typing", "opened"} : Live!Work(t, how)
<1>1. CASE Handles
    <2>1. PersonOK'
        <3>1. Live!Front(t) \in Live!Areas
            BY DEF Live!Front, Live!Areas
        <3>2. CASE Live!Hide(t) \/ Live!Show(t)
            BY <3>2 DEF Live!Hide, Live!Show, LivePartsOK, PersonOK
        <3>3. ASSUME Live!OpenPopUp(t) \/ Live!ClosePopUp(t) PROVE PersonOK'
            <4>1. hands' = [hands EXCEPT ![t]["modal"] = {}] /\ modal' \in [OneTab -> BOOLEAN] /\ UNCHANGED hidden
                BY <3>3 DEF Live!OpenPopUp, Live!ClosePopUp, LivePartsOK, PersonOK
            <4>2. QED
                BY <4>1 DEF LivePartsOK, PersonOK, Live!Areas
        <3>4. ASSUME Live!StopTyping(t) PROVE PersonOK'
            BY <3>1, <3>4 DEF Live!StopTyping, LivePartsOK, PersonOK
        <3>5. ASSUME NEW how \in {"typing", "opened"}, Live!Work(t, how) PROVE PersonOK'
            BY <3>1, <3>5 DEF Live!Work, LivePartsOK, PersonOK
        <3>6. QED
            BY <1>1, <3>2, <3>3, <3>4, <3>5
    <2>2. ScriptOK'
        BY <1>1 DEF Live!Hide, Live!Show, Live!StopTyping, Live!OpenPopUp, Live!ClosePopUp, Live!Work,
                    LivePartsOK, ScriptOK, Live!script
    <2>3. UNCHANGED <<Live!server, Live!sessions, Live!view, Live!requests, missed, faults, may>>
        BY <1>1 DEF Live!Hide, Live!Show, Live!StopTyping, Live!OpenPopUp, Live!ClosePopUp, Live!Work
    <2>4. QED
        BY <2>1, <2>2, <2>3, LivePartsStay, LivePartsNext DEF LivePartsOK
<1>2. CASE Live!Refresh(t)
    BY <1>2, RefreshTypes
<1>3. ASSUME NEW q \in Pages, Live!Follow(t, q) PROVE Live!TypeOK'
    <2>1. Live!New("main", "link", q) \in Live!Request
        BY NewIsRequest DEF Live!Areas, AskKinds
    <2>2. AskedOK'
        BY <1>3, <2>1 DEF Live!Follow, LivePartsOK, AskedOK
    <2>3. QED
        BY <1>3, <2>2, LivePartsStay, LivePartsNext DEF Live!Follow, LivePartsOK
<1>4. ASSUME NEW k \in Topics, Live!Submit(t, k) PROVE Live!TypeOK'
    <2>1. AskedOK'
        BY <1>4 DEF Live!Submit, LivePartsOK, AskedOK
    <2>2. QED
        BY <1>4, <2>1, LivePartsStay, LivePartsNext DEF Live!Submit, LivePartsOK
<1>5. QED
    BY <1>1, <1>2, <1>3, <1>4 DEF Live!Person

(* Requests and their answers. *)
LEMMA ServeTypes ==
    ASSUME LivePartsOK, WithinBound, NEW t \in OneTab, NEW k \in Topics, Live!Serve(t, k)
    PROVE  Live!TypeOK' /\ Cardinality(Live!Made) < MaxChanges
<1>1. Cardinality(Live!Made) < MaxChanges
    <2>1. t \in BeingSaved
        BY DEF BeingSaved, Live!Serve
    <2>2. Cardinality(BeingSaved) # 0
        BY <2>1, BeingSavedFinite, FS_EmptySet
    <2>3. QED
        BY <2>2, MadeFinite, BeingSavedFinite, LiveAssumption DEF WithinBound
<1>2. HubOK' /\ PathsOK' /\ PastOK'
    BY <1>1, ChangeTypes DEF Live!Serve, LivePartsOK
<1>3. AskedOK'
    BY <1>2, PathsInNext DEF Live!Serve, LivePartsOK, AskedOK
<1>4. QED
    BY <1>1, <1>2, <1>3, LivePartsStay, LivePartsNext DEF Live!Serve, LivePartsOK

LEMMA SavedTypes ==
    ASSUME LivePartsOK, NEW t \in OneTab, Live!Saved(t) \/ Live!NotSaved(t)
    PROVE  Live!TypeOK'
<1>1. popUpSave' \in [OneTab -> Topics \cup {"answered", None}] /\ UNCHANGED tableRows
    BY DEF Live!Saved, Live!NotSaved, LivePartsOK, AskedOK
<1>2. CASE Live!Saved(t)
    <2>1. PathsOK'
        BY <1>2, AskTypes DEF Live!Saved, LivePartsOK, AskedOK, PathsOK, Live!Areas, AskKinds
    <2>2. AskedOK'
        BY <1>1, <2>1, PathsInNext DEF LivePartsOK, AskedOK
    <2>3. hands' = [hands EXCEPT ![t]["modal"] = {}] /\ modal' \in [OneTab -> BOOLEAN] /\ UNCHANGED hidden
        BY <1>2 DEF Live!Saved, LivePartsOK, PersonOK
    <2>4. PersonOK'
        BY <2>3 DEF LivePartsOK, PersonOK, Live!Areas
    <2>5. QED
        BY <1>2, <2>2, <2>4, LivePartsStay, LivePartsNext DEF Live!Saved, LivePartsOK
<1>3. CASE Live!NotSaved(t)
    <2>1. PathsOK /\ missed \in [OneTab -> BOOLEAN]
        BY DEF LivePartsOK, AskedOK, PathsOK, PastOK
    <2>2. PICK who : Live!Misses(who)
        BY <1>3 DEF Live!NotSaved
    <2>3. PathsOK' /\ missed' \in [OneTab -> BOOLEAN]
        BY <1>3, <2>1, <2>2, MissesTypes DEF Live!NotSaved
    <2>4. AskedOK'
        BY <1>1, <2>3, PathsInNext DEF LivePartsOK, AskedOK
    <2>5. faults' \in 0..MaxFaults
        BY <1>3, TroubleTypes DEF Live!NotSaved, LivePartsOK, PastOK
    <2>6. PastOK'
        BY <1>3, <2>3, <2>5 DEF Live!NotSaved, LivePartsOK, PastOK
    <2>7. QED
        BY <1>3, <2>4, <2>6, LivePartsStay, LivePartsNext DEF Live!NotSaved, LivePartsOK
<1>4. QED
    BY <1>2, <1>3

LEMMA AnswerTypes ==
    ASSUME LivePartsOK, NEW t \in OneTab, Live!AnswerBody(t) \/ Live!AnswerLink(t)
    PROVE  Live!TypeOK'
<1>1. body[t] # None => Live!Answered(body[t]) \in Live!Request
    BY AnsweredIsRequest DEF LivePartsOK, AskedOK, HubOK
<1>2. link[t] # None => Live!Answered(link[t]) \in Live!Request
    BY AnsweredIsRequest DEF LivePartsOK, AskedOK, HubOK
<1>3. AskedOK'
    BY <1>1, <1>2 DEF Live!AnswerBody, Live!AnswerLink, LivePartsOK, AskedOK
<1>4. QED
    BY <1>3, LivePartsStay, LivePartsNext DEF Live!AnswerBody, Live!AnswerLink, LivePartsOK

LEMMA SettleTypes ==
    ASSUME LivePartsOK, NEW t \in OneTab, NEW r \in Live!Request, r.seen # None, Live!Settle(t, r)
    PROVE  /\ shown' \in [OneTab -> [page : Pages, seen : Live!Changes]] /\ pill' \in [OneTab -> BOOLEAN]
           /\ missed' \in [OneTab -> BOOLEAN]
           /\ hands' \in [OneTab -> [Live!Areas -> SUBSET {"typing", "opened"}]]
<1>1. [page |-> r.page, seen |-> r.seen] \in [page : Pages, seen : Live!Changes] /\ r.old \in BOOLEAN
    BY DEF Live!Request
<1>2. /\ shown' \in [OneTab -> [page : Pages, seen : Live!Changes]] /\ pill' \in [OneTab -> BOOLEAN]
      /\ missed' \in [OneTab -> BOOLEAN]
    BY <1>1 DEF Live!Settle, LivePartsOK, ViewOK, PastOK
<1>3. hands' \in [OneTab -> [Live!Areas -> SUBSET {"typing", "opened"}]]
    BY DEF Live!Settle, LivePartsOK, PersonOK, Live!Areas
<1>4. QED
    BY <1>2, <1>3

LEMMA SettlesTypes ==
    ASSUME LivePartsOK, NEW t \in OneTab, Live!SettleMain(t) \/ Live!SettleLink(t) \/ Live!SettlePopUp(t)
    PROVE  Live!TypeOK'
<1>1. AskedOK'
    BY DEF Live!SettleMain, Live!SettleLink, Live!SettlePopUp, LivePartsOK, AskedOK
<1>2. CASE Live!SettleMain(t)
    <2>1. body[t] \in Live!Request /\ body[t].seen # None /\ Live!Settle(t, body[t])
        BY <1>2 DEF Live!SettleMain, LivePartsOK, AskedOK
    <2>2. /\ shown' \in [OneTab -> [page : Pages, seen : Live!Changes]] /\ pill' \in [OneTab -> BOOLEAN]
          /\ missed' \in [OneTab -> BOOLEAN]
          /\ hands' \in [OneTab -> [Live!Areas -> SUBSET {"typing", "opened"}]]
        BY <2>1, SettleTypes
    <2>3. PersonOK' /\ ViewOK' /\ PastOK'
        BY <1>2, <2>2 DEF Live!SettleMain, LivePartsOK, PersonOK, ViewOK, PastOK
    <2>4. QED
        BY <1>1, <1>2, <2>3, LivePartsStay, LivePartsNext DEF Live!SettleMain, LivePartsOK
<1>3. CASE Live!SettleLink(t)
    <2>1. link[t] \in Live!Request /\ link[t].seen # None /\ Live!Settle(t, link[t]) /\ link[t].page \in Pages
        BY <1>3 DEF Live!SettleLink, LivePartsOK, AskedOK, Live!Request
    <2>2. /\ shown' \in [OneTab -> [page : Pages, seen : Live!Changes]] /\ pill' \in [OneTab -> BOOLEAN]
          /\ missed' \in [OneTab -> BOOLEAN]
          /\ hands' \in [OneTab -> [Live!Areas -> SUBSET {"typing", "opened"}]]
        BY <2>1, SettleTypes
    <2>3. PersonOK' /\ ViewOK' /\ PastOK'
        BY <1>3, <2>1, <2>2 DEF Live!SettleLink, LivePartsOK, PersonOK, ViewOK, PastOK
    <2>4. QED
        BY <1>1, <1>3, <2>3, LivePartsStay, LivePartsNext DEF Live!SettleLink, LivePartsOK
<1>4. CASE Live!SettlePopUp(t)
    <2>1. hands' \in [OneTab -> [Live!Areas -> SUBSET {"typing", "opened"}]]
        BY <1>4 DEF Live!SettlePopUp, LivePartsOK, PersonOK, Live!Areas
    <2>2. PersonOK'
        BY <1>4, <2>1 DEF Live!SettlePopUp, LivePartsOK, PersonOK
    <2>3. QED
        BY <1>1, <1>4, <2>2, LivePartsStay, LivePartsNext DEF Live!SettlePopUp, LivePartsOK
<1>5. QED
    BY <1>2, <1>3, <1>4

LEMMA FailTypes ==
    ASSUME LivePartsOK, NEW t \in OneTab, Live!FailBody(t) \/ Live!FailLink(t) \/ Live!Rows(t)
    PROVE  Live!TypeOK'
<1>1. AskedOK'
    BY DEF Live!FailBody, Live!FailLink, Live!Rows, LivePartsOK, AskedOK
<1>2. faults' \in 0..MaxFaults
    BY FailsTypes DEF Live!FailBody, Live!FailLink, Live!Rows, LivePartsOK, PastOK
<1>3. missed' \in [OneTab -> BOOLEAN] /\ may' \in Scenarios
    BY DEF Live!FailBody, Live!FailLink, Live!Rows, Live!Fails, Live!Trouble, LivePartsOK, PastOK
<1>4. PastOK'
    BY <1>2, <1>3 DEF PastOK
<1>5. ViewOK'
    <2>1. shown' \in [OneTab -> [page : Pages, seen : Live!Changes]]
        <3>1. shown \in [OneTab -> [page : Pages, seen : Live!Changes]] /\ data \in Live!Changes
            BY DEF LivePartsOK, ViewOK, HubOK
        <3>2. \A seen \in Live!Changes : Live!InRows(seen) \in Live!Changes
            BY <3>1 DEF Live!InRows, Live!Changes
        <3>3. UNCHANGED shown \/ shown' = [shown EXCEPT ![t].seen = IF shown[t].page \in Tables
                                                                 THEN Live!InRows(@) ELSE @]
            BY DEF Live!FailBody, Live!FailLink, Live!Rows, Live!view
        <3>4. QED
            BY <3>1, <3>2, <3>3
    <2>2. QED
        BY <2>1 DEF Live!FailBody, Live!FailLink, Live!Rows, LivePartsOK, ViewOK, Live!view
<1>6. QED
    BY <1>1, <1>4, <1>5, LivePartsStay, LivePartsNext DEF Live!FailBody, Live!FailLink, Live!Rows, LivePartsOK

LEMMA LiveTypes == Live!TypeOK /\ WithinBound /\ [Live!Next]_(Live!vars) => Live!TypeOK'
<1> SUFFICES ASSUME Live!TypeOK, WithinBound, [Live!Next]_(Live!vars) PROVE Live!TypeOK'
    OBVIOUS
<1>0. LivePartsOK
    BY LiveParts DEF LivePartsOK
<1>1. CASE Live!Hub
    BY <1>0, <1>1, HubTypes
<1>2. CASE \E k \in Topics : Live!Elsewhere(k)
    BY <1>0, <1>2, ElsewhereTypes
<1>3. ASSUME NEW t \in OneTab, Live!Script(t) \/ Live!Break(t) \/ Live!SignOut(t) \/ Live!SignIn(t) PROVE Live!TypeOK'
    BY <1>0, <1>3, WireTypes, ApplyTypes DEF Live!Script
<1>4. ASSUME NEW t \in OneTab, Live!Net(t) PROVE Live!TypeOK'
    BY <1>0, <1>4, ServeTypes, SavedTypes, AnswerTypes, SettlesTypes, FailTypes DEF Live!Net
<1>5. ASSUME NEW t \in OneTab, Live!Person(t) PROVE Live!TypeOK'
    BY <1>0, <1>5, PersonTypes
<1>6. CASE UNCHANGED Live!vars
    BY <1>0, <1>6, LivePartsStay, LivePartsNext DEF Live!vars, LivePartsOK
<1>7. QED
    BY <1>1, <1>2, <1>3, <1>4, <1>5, <1>6 DEF Live!Next

-----------------------------------------------------------------------------
(* The bound is kept, *)
LEMMA LiveBound == Live!TypeOK /\ WithinBound /\ [Live!Next]_(Live!vars) => WithinBound'
<1> SUFFICES ASSUME Live!TypeOK, WithinBound, [Live!Next]_(Live!vars) PROVE WithinBound'
    OBVIOUS
<1>0. LivePartsOK
    BY LiveParts DEF LivePartsOK
<1>1. ASSUME NEW k \in Topics, Live!Elsewhere(k) PROVE WithinBound'
    <2>1. Cardinality(Live!Made') = Cardinality(Live!Made) + 1
        BY <1>0, <1>1, RoomMeans, OneMore DEF Live!Elsewhere, LivePartsOK
    <2>2. BeingSaved' = BeingSaved
        BY <1>1 DEF Live!Elsewhere, BeingSaved
    <2>3. QED
        BY <1>1, <2>1, <2>2, RoomMeans, MadeFinite, BeingSavedFinite, LiveAssumption
        DEF Live!Elsewhere, WithinBound
<1>2. ASSUME NEW t \in OneTab, NEW k \in Topics, Live!Serve(t, k) PROVE WithinBound'
    <2>1. Cardinality(Live!Made') = Cardinality(Live!Made) + 1
        BY <1>0, <1>2, ServeTypes, OneMore DEF Live!Serve, LivePartsOK
    <2>2. t \in BeingSaved /\ BeingSaved' = BeingSaved \ {t}
        BY <1>0, <1>2, LiveAssumption DEF Live!Serve, BeingSaved, LivePartsOK, AskedOK
    <2>3. Cardinality(BeingSaved') = Cardinality(BeingSaved) - 1
        BY <2>2, BeingSavedFinite, FS_RemoveElement
    <2>4. QED
        BY <2>1, <2>3, MadeFinite, BeingSavedFinite, LiveAssumption DEF WithinBound
<1>3. ASSUME NEW t \in OneTab, NEW k \in Topics, Live!Submit(t, k) PROVE WithinBound'
    <2>1. BeingSaved' = BeingSaved \cup {t}
        BY <1>0, <1>3 DEF Live!Submit, BeingSaved, LivePartsOK, AskedOK
    <2>2. Cardinality(BeingSaved') \in {Cardinality(BeingSaved), Cardinality(BeingSaved) + 1}
        BY <2>1, BeingSavedFinite, FS_AddElement
    <2>3. Live!Made' = Live!Made
        BY <1>3 DEF Live!Submit, Live!Made, Live!server
    <2>4. QED
        BY <1>3, <2>2, <2>3, RoomMeans, MadeFinite, BeingSavedFinite, LiveAssumption
        DEF Live!Submit, WithinBound
<1>4. ASSUME UNCHANGED data, BeingSaved' \in SUBSET BeingSaved PROVE WithinBound'
    <2>1. Live!Made' = Live!Made
        BY <1>4 DEF Live!Made
    <2>2. Cardinality(BeingSaved') <= Cardinality(BeingSaved) /\ Cardinality(BeingSaved') \in Nat
        BY <1>4, BeingSavedFinite, FS_Subset, FS_CardinalityType
    <2>3. QED
        BY <2>1, <2>2, MadeFinite, BeingSavedFinite, LiveAssumption DEF WithinBound
<1>5. ASSUME NEW t \in OneTab, Live!Saved(t) \/ Live!NotSaved(t) PROVE WithinBound'
    <2>1. UNCHANGED data /\ BeingSaved' \in SUBSET BeingSaved
        BY <1>0, <1>5, LiveAssumption
        DEF Live!Saved, Live!NotSaved, Live!server, BeingSaved, LivePartsOK, AskedOK
    <2>2. QED
        BY <1>4, <2>1
<1>6. ASSUME UNCHANGED <<data, popUpSave>> PROVE WithinBound'
    BY <1>4, <1>6 DEF BeingSaved
<1>7. ASSUME NEW t \in OneTab, Live!Net(t) PROVE WithinBound'
    <2>1. \/ \E k \in Topics : Live!Serve(t, k)
          \/ Live!Saved(t) \/ Live!NotSaved(t)
          \/ UNCHANGED <<data, popUpSave>>
        BY <1>7 DEF Live!Net, Live!server, Live!AnswerBody, Live!SettleMain, Live!SettlePopUp, Live!FailBody,
                    Live!AnswerLink, Live!SettleLink, Live!FailLink, Live!Rows
    <2>2. QED
        BY <1>2, <1>5, <1>6, <2>1
<1>8. ASSUME NEW t \in OneTab, Live!Person(t) PROVE WithinBound'
    <2>1. (\E k \in Topics : Live!Submit(t, k)) \/ UNCHANGED <<data, popUpSave>>
        BY <1>8 DEF Live!Person, Live!Hide, Live!Show, Live!Refresh, Live!StopTyping, Live!OpenPopUp,
                    Live!ClosePopUp, Live!Work, Live!Follow, Live!server, Live!requests
    <2>2. QED
        BY <1>3, <1>6, <2>1
<1>9. ASSUME NEW t \in OneTab, Live!Script(t) \/ Live!Break(t) \/ Live!SignOut(t) \/ Live!SignIn(t)
      PROVE  UNCHANGED <<data, popUpSave>>
    BY <1>9 DEF Live!Script, Live!Open, Live!Closed, Live!Hear, Live!Apply, Live!Break, Live!SignOut, Live!SignIn,
                Live!server, Live!requests
<1>10. Live!Hub => UNCHANGED <<data, popUpSave>>
    BY DEF Live!Hub, Live!Take, Live!Send, Live!Beat, Live!CloseEnded, Live!requests
<1>11. QED
    BY <1>1, <1>6, <1>7, <1>8, <1>9, <1>10 DEF Live!Next, Live!vars, Live!server, Live!requests

(* and what is known of connections, batches and sessions. *)
LEMMA LiveWires == Live!TypeOK /\ WiresInv /\ [Live!Next]_(Live!vars) => WiresInv'
<1> SUFFICES ASSUME Live!TypeOK, WiresInv, [Live!Next]_(Live!vars) PROVE WiresInv'
    OBVIOUS
<1>0. LivePartsOK /\ Unasked /\ Offline /\ BatchIsSent /\ EndedIsOver
    BY LiveParts DEF LivePartsOK, WiresInv
<1>1. ASSUME Live!Hub PROVE WiresInv'
    <2>1. Unasked'
        BY <1>0, <1>1 DEF Live!Hub, Live!Take, Live!Send, Live!Beat, Live!CloseEnded, Live!requests, Unasked
    <2>2. Offline'
        BY <1>0, <1>1 DEF Live!Hub, Live!Take, Live!Send, Live!Beat, Live!CloseEnded, Live!script, Offline,
                          LivePartsOK, HubOK
    <2>3. BatchIsSent'
        <3>1. hub'.at = "send" \/ hub'.batch = {}
            BY <1>1, HubTurns DEF Live!Hub
        <3>2. QED
            BY <3>1 DEF BatchIsSent
    <2>4. EndedIsOver'
        <3>1. CASE Live!Beat
            BY <1>0, <3>1 DEF Live!Beat, Live!Waiting, Live!sessions, EndedIsOver, LivePartsOK, HubOK
        <3>2. CASE Live!Take \/ Live!Send
            <4>1. \A t \in OneTab : hub'.ended[t] = None
                BY <3>2, HubTurns
            <4>2. UNCHANGED <<conn, spent>>
                BY <3>2 DEF Live!Take, Live!Send, Live!sessions
            <4>3. QED
                BY <1>0, <4>1, <4>2 DEF EndedIsOver
        <3>3. CASE Live!CloseEnded
            BY <1>0, <3>3 DEF Live!CloseEnded, Live!Waiting, Live!sessions, EndedIsOver, LivePartsOK, HubOK
        <3>4. QED
            BY <1>1, <3>1, <3>2, <3>3 DEF Live!Hub
    <2>5. QED
        BY <2>1, <2>2, <2>3, <2>4 DEF WiresInv
<1>2. ASSUME NEW t \in OneTab,
             Live!Open(t) \/ Live!Closed(t) \/ Live!Hear(t) \/ Live!Break(t) \/ Live!SignOut(t) \/ Live!SignIn(t)
      PROVE  WiresInv'
    <2>1. Unasked' /\ BatchIsSent'
        BY <1>0, <1>2 DEF Live!Open, Live!Closed, Live!Hear, Live!Break, Live!SignOut, Live!SignIn,
                          Live!requests, Live!server, Unasked, BatchIsSent
    <2>2. Offline'
        BY <1>0, <1>2 DEF Live!Open, Live!Closed, Live!Hear, Live!Break, Live!SignOut, Live!SignIn,
                          Live!script, Live!server, Offline, LivePartsOK, HubOK, ScriptOK
    <2>3. EndedIsOver'
        <3>1. CASE Live!Open(t) \/ Live!Closed(t) \/ Live!Hear(t) \/ Live!Break(t)
            BY <1>0, <3>1 DEF Live!Open, Live!Closed, Live!Hear, Live!Break, Live!server, Live!sessions,
                              EndedIsOver, LivePartsOK, HubOK, SessionsOK
        <3>2. CASE Live!SignOut(t) \/ Live!SignIn(t)
            BY <1>0, <3>2 DEF Live!SignOut, Live!SignIn, Live!server, EndedIsOver
        <3>3. QED
            BY <1>2, <3>1, <3>2
    <2>4. QED
        BY <2>1, <2>2, <2>3 DEF WiresInv
<1>3. ASSUME UNCHANGED <<hub, conn, wire, linked, valid, spent>>, Unasked' PROVE WiresInv'
    BY <1>0, <1>3 DEF WiresInv, Offline, BatchIsSent, EndedIsOver
<1>4. ASSUME NEW k \in Topics, Live!Elsewhere(k) PROVE WiresInv'
    BY <1>0, <1>3, <1>4 DEF Live!Elsewhere, Live!script, Live!sessions, Unasked
<1>5. ASSUME NEW t \in OneTab, NEW area, NEW by, Live!Ask(t, area, by) PROVE Unasked'
    BY <1>0, <1>5 DEF Live!Ask, Live!New, Unasked, LivePartsOK, AskedOK
<1>6. ASSUME NEW t \in OneTab, Live!Apply(t) PROVE WiresInv'
    <2>1. Unasked'
        <3>1. \/ UNCHANGED next
              \/ Live!Ask(t, "modal", "update") \/ Live!Ask(t, "main", "update")
            BY <1>6 DEF Live!Apply, Live!Hook, Live!AskNothing
        <3>2. QED
            BY <1>0, <1>5, <3>1 DEF Unasked
    <2>2. QED
        BY <1>3, <1>6, <2>1 DEF Live!Apply, Live!server, Live!sessions
<1>7. ASSUME NEW t \in OneTab, Live!Person(t) PROVE WiresInv'
    <2>1. UNCHANGED <<hub, conn, wire, linked, valid, spent>>
        BY <1>7 DEF Live!Person, Live!Hide, Live!Show, Live!Refresh, Live!StopTyping, Live!OpenPopUp,
                    Live!ClosePopUp, Live!Work, Live!Follow, Live!Submit, Live!server, Live!script, Live!sessions
    <2>2. UNCHANGED next \/ Live!Ask(t, "main", "click")
        BY <1>7 DEF Live!Person, Live!Hide, Live!Show, Live!Refresh, Live!StopTyping, Live!OpenPopUp,
                    Live!ClosePopUp, Live!Work, Live!Follow, Live!Submit, Live!requests
    <2>3. Unasked'
        BY <1>0, <1>5, <2>2 DEF Unasked
    <2>4. QED
        BY <1>3, <2>1, <2>3
<1>8. ASSUME NEW t \in OneTab, Live!Net(t) PROVE WiresInv'
    <2>1. UNCHANGED <<hub, conn, wire, linked, valid, spent>>
        BY <1>8 DEF Live!Net, Live!Serve, Live!Saved, Live!NotSaved, Live!AnswerBody, Live!SettleMain,
                    Live!SettlePopUp, Live!FailBody, Live!AnswerLink, Live!SettleLink, Live!FailLink, Live!Rows,
                    Live!server, Live!script, Live!sessions
    <2>2. \/ UNCHANGED next \/ Live!Ask(t, "main", "reload") \/ next' = [next EXCEPT ![t] = None]
        BY <1>8 DEF Live!Net, Live!Serve, Live!Saved, Live!NotSaved, Live!AnswerBody, Live!SettleMain,
                    Live!SettlePopUp, Live!FailBody, Live!AnswerLink, Live!SettleLink, Live!FailLink, Live!Rows
    <2>3. Unasked'
        BY <1>0, <1>5, <2>2 DEF Unasked, LivePartsOK, AskedOK
    <2>4. QED
        BY <1>3, <2>1, <2>3
<1>9. CASE UNCHANGED Live!vars
    BY <1>0, <1>3, <1>9 DEF Live!vars, Live!server, Live!sessions, Live!script, Live!requests, Unasked
<1>10. QED
    BY <1>1, <1>2, <1>4, <1>6, <1>7, <1>8, <1>9 DEF Live!Next, Live!Script

-----------------------------------------------------------------------------
(* The word is kept: of each page, about each topic it may see.  What a page is *)
(* and what it hears with.                                                      *)
PageOf(t) == <<shown[t], pill[t], missed[t], body[t], next[t], link[t], tableRows[t], popUpSave[t]>>
EarsOf(t) == <<wire[t], queue[t], linked[t], conn[t], lost[t]>>
Ready(t, k) == LivePartsOK /\ WiresInv /\ t \in OneTab /\ k \in Live!InView /\ KeepsWord(t, k)

LEMMA HearsOn ==
    ASSUME NEW u \in OneTab, NEW k, EarsOf(u)' = EarsOf(u), pending \subseteq pending', UNCHANGED hub
    PROVE  Hears(u, k) => Hears(u, k)'
BY DEF EarsOf, Hears, Coming

LEMMA PageRests ==
    ASSUME NEW u, NEW k, Ready(u, k), UNCHANGED data, PageOf(u)' = PageOf(u), Hears(u, k) => Hears(u, k)'
    PROVE  KeepsWord(u, k)'
BY DEF Ready, PageOf, KeepsWord, Promised, Current, Excused, Live!Owes, Live!Listens, Live!Brings

LEMMA TabRests ==
    ASSUME NEW u, NEW k, Ready(u, k), UNCHANGED <<data, pending, hub>>, PageOf(u)' = PageOf(u), EarsOf(u)' = EarsOf(u)
    PROVE  KeepsWord(u, k)'
<1>1. Hears(u, k) => Hears(u, k)'
    BY HearsOn DEF Ready
<1>2. QED
    BY <1>1, PageRests

(* The hub gathers, sends, looks at sessions and closes. *)
LEMMA HubKeeps ==
    ASSUME NEW u, NEW k, Ready(u, k), Live!Hub
    PROVE  KeepsWord(u, k)'
<1>1. UNCHANGED data /\ PageOf(u)' = PageOf(u)
    BY DEF Live!Hub, Live!Take, Live!Send, Live!Beat, Live!CloseEnded, Live!requests, Live!view, PageOf
<1>2. ASSUME Hears(u, k) PROVE Hears(u, k)'
    <2>0. u \in OneTab /\ LivePartsOK /\ Offline /\ BatchIsSent
        BY DEF Ready, WiresInv
    <2>1. CASE Live!Take
        <3>1. EarsOf(u)' = EarsOf(u)
            BY <2>1 DEF Live!Take, EarsOf, Live!script
        <3>2. hub.batch = {} /\ hub'.batch = pending
            BY <2>0, <2>1, HubTurns DEF Live!Take, BatchIsSent
        <3>3. Coming(u, k) => Coming(u, k)'
            BY <3>2 DEF Coming
        <3>4. QED
            BY <1>2, <3>1, <3>3 DEF Hears, EarsOf
    <2>2. CASE Live!Beat
        <3>1. EarsOf(u)' = EarsOf(u) /\ UNCHANGED pending
            BY <2>2 DEF Live!Beat, EarsOf, Live!script
        <3>2. hub.batch = {}
            BY <2>0, <2>2 DEF Live!Beat, BatchIsSent
        <3>3. Coming(u, k) => Coming(u, k)'
            BY <3>1, <3>2 DEF Coming
        <3>4. QED
            BY <1>2, <3>1, <3>3 DEF Hears, EarsOf
    <2>3. CASE Live!Send
        <3>1. UNCHANGED <<queue, linked, conn, lost, pending>> /\ wire[u] \subseteq wire'[u]
            BY <2>0, <2>3 DEF Live!Send, Live!script
        <3>2. CASE linked[u] /\ conn[u] # None /\ \E by \in (OneTab \cup {None}) \ {u} : <<k, by>> \in hub.batch
            <4>1. k \in Live!Told(u)
                BY <3>2, <2>0 DEF Live!Told, Ready, Live!InView
            <4>2. {k, All} \cap Live!Message(u) # {}
                BY <4>1 DEF Live!Message
            <4>3. Live!Message(u) \subseteq wire'[u]
                BY <2>0, <2>3, <3>2 DEF Live!Send
            <4>4. QED
                BY <4>2, <4>3 DEF Hears
        <3>3. CASE ~(linked[u] /\ conn[u] # None /\ \E by \in (OneTab \cup {None}) \ {u} : <<k, by>> \in hub.batch)
            BY <1>2, <3>1, <3>3 DEF Hears, Coming
        <3>4. QED
            BY <3>2, <3>3
    <2>4. CASE Live!CloseEnded
        <3>1. UNCHANGED <<wire, queue, linked, lost, pending>> /\ conn'[u] \in {conn[u], None}
            BY <2>0, <2>4 DEF Live!CloseEnded, Live!script, LivePartsOK, HubOK
        <3>2. hub.batch = {}
            BY <2>0, <2>4 DEF Live!CloseEnded, BatchIsSent
        <3>3. Coming(u, k) => Coming(u, k)'
            BY <3>1, <3>2 DEF Coming
        <3>4. QED
            BY <1>2, <3>1, <3>3 DEF Hears
    <2>5. QED
        BY <2>1, <2>2, <2>3, <2>4 DEF Live!Hub
<1>3. QED
    BY <1>1, <1>2, PageRests

(* Connections come and go. *)
LEMMA WireKeeps ==
    ASSUME NEW u, NEW k, Ready(u, k), NEW t \in OneTab,
           Live!Open(t) \/ Live!Closed(t) \/ Live!Hear(t) \/ Live!Break(t) \/ Live!SignOut(t) \/ Live!SignIn(t)
    PROVE  KeepsWord(u, k)'
<1>0. u \in OneTab /\ LivePartsOK /\ Offline
    BY DEF Ready, WiresInv
<1>1. UNCHANGED <<data, pending, hub>> /\ PageOf(u)' = PageOf(u)
    BY DEF Live!Open, Live!Closed, Live!Hear, Live!Break, Live!SignOut, Live!SignIn, Live!requests, Live!view,
           Live!server, PageOf
<1>2. CASE EarsOf(u)' = EarsOf(u)
    BY <1>1, <1>2, TabRests
<1>3. ASSUME EarsOf(u)' # EarsOf(u), Hears(u, k) PROVE Hears(u, k)'
    <2>1. u = t /\ ~Live!SignOut(t) /\ ~Live!SignIn(t)
        BY <1>0, <1>3 DEF Live!Open, Live!Closed, Live!Hear, Live!Break, Live!SignOut, Live!SignIn, Live!Queue,
                          Live!server, Live!script, EarsOf, LivePartsOK, HubOK, ScriptOK
    <2>2. CASE Live!Open(t)
        <3>1. CASE lost[t]
            <4>1. All \in queue'[t]
                BY <1>0, <2>2, <3>1 DEF Live!Open, Live!Queue, LivePartsOK, ScriptOK
            <4>2. QED
                BY <2>1, <4>1 DEF Hears
        <3>2. CASE ~lost[t]
            BY <1>0, <1>3, <2>1, <2>2, <3>2 DEF Live!Open, Hears, Offline, LivePartsOK, HubOK, ScriptOK
        <3>3. QED
            BY <3>1, <3>2
    <2>3. CASE Live!Closed(t)
        BY <1>0, <2>1, <2>3 DEF Live!Closed, Hears, LivePartsOK, ScriptOK
    <2>4. CASE Live!Hear(t)
        <3>1. {k, All} \cap (wire[t] \cup queue[t]) # {} => {k, All} \cap queue'[t] # {}
            BY <1>0, <2>4 DEF Live!Hear, Live!Queue, LivePartsOK, ScriptOK
        <3>2. UNCHANGED <<linked, conn, lost>>
            BY <2>4 DEF Live!Hear
        <3>3. QED
            BY <1>1, <1>3, <2>1, <3>1, <3>2 DEF Hears, Coming
    <2>5. CASE Live!Break(t)
        BY <1>0, <2>1, <2>5 DEF Live!Break, Live!script, Hears, Offline, LivePartsOK, HubOK
    <2>6. QED
        BY <2>1, <2>2, <2>3, <2>4, <2>5
<1>4. QED
    BY <1>1, <1>2, <1>3, PageRests

(* A change: a page hears of it, or has missed it, and what is on its way is old. *)
LEMMA ChangeKeeps ==
    ASSUME NEW u, NEW k, Ready(u, k), NEW j \in Topics, NEW by \in OneTab \cup {None}, by # u, NEW who,
           Live!Announce(j, by), Live!Misses(who), linked[u] \/ lost[u] \/ u \in who,
           EarsOf(u)' = EarsOf(u),
           UNCHANGED <<hub, shown, pill, next, tableRows>>,
           popUpSave'[u] = popUpSave[u]
    PROVE  KeepsWord(u, k)'
<1>0. u \in OneTab /\ LivePartsOK /\ k \in Topics
    BY DEF Ready, Live!InView
<1>1. Hears(u, k) => Hears(u, k)'
    <2>1. pending \subseteq pending'
        BY DEF Live!Announce
    <2>2. QED
        BY <1>0, <2>1, HearsOn
<1>2. /\ body'[u] = (IF u \in who THEN Live!Aged(body[u]) ELSE body[u])
      /\ link'[u] = (IF u \in who THEN Live!Aged(link[u]) ELSE link[u])
      /\ missed'[u] = (missed[u] \/ u \in who)
    BY <1>0 DEF Live!Misses
<1>3. body[u] \in Live!Request \cup {None} /\ link[u] \in Live!Request \cup {None}
    BY <1>0 DEF LivePartsOK, AskedOK
<1>4. CASE u \in who
    <2>1. Promised(u, k)'
        BY <1>2, <1>4 DEF Promised
    <2>2. Current(u, body[u], k)' /\ Current(u, link[u], k)'
        BY <1>2, <1>3, <1>4, AgedIsRequest DEF Current
    <2>3. QED
        BY <2>1, <2>2 DEF KeepsWord
<1>5. CASE u \notin who /\ k # j
    <2>1. data'[k] = data[k]
        BY <1>0, <1>5 DEF Live!Announce, LivePartsOK, HubOK, Live!Changes
    <2>2. QED
        BY <1>1, <1>2, <1>5, <2>1
        DEF Ready, KeepsWord, Promised, Current, Excused, Live!Owes, Live!Listens, Live!Brings
<1>6. CASE u \notin who /\ k = j
    <2>1. Hears(u, k)'
        <3>1. CASE conn[u] = None \/ lost[u]
            BY <1>6, <3>1 DEF EarsOf, Hears
        <3>2. CASE conn[u] # None /\ linked[u]
            <4>1. <<k, by>> \in pending' /\ by \in (OneTab \cup {None}) \ {u}
                BY <1>0, <1>6, <3>2 DEF Live!Announce
            <4>2. QED
                BY <3>2, <4>1 DEF EarsOf, Hears, Coming
        <3>3. QED
            BY <1>6, <3>1, <3>2
    <2>2. QED
        BY <2>1 DEF KeepsWord, Promised, Current
<1>7. QED
    BY <1>4, <1>5, <1>6

LEMMA ElsewhereKeeps ==
    ASSUME NEW u, NEW k, Ready(u, k), NEW j \in Topics, Live!Elsewhere(j)
    PROVE  KeepsWord(u, k)'
<1>1. None # u
    BY LiveAssumption DEF Ready
<1>2. linked[u] \/ lost[u] \/ u \in Live!NotYet
    BY DEF Live!NotYet, Ready
<1>3. EarsOf(u)' = EarsOf(u)
    BY DEF Live!Elsewhere, Live!script, EarsOf
<1>4. QED
    BY <1>1, <1>2, <1>3, ChangeKeeps DEF Live!Elsewhere, Live!view

LEMMA ServeKeeps ==
    ASSUME NEW u, NEW k, Ready(u, k), NEW t \in OneTab, NEW j \in Topics, Live!Serve(t, j)
    PROVE  KeepsWord(u, k)'
<1>0. u \in OneTab /\ LivePartsOK
    BY DEF Ready
<1>1. CASE u = t
    BY <1>0, <1>1 DEF Live!Serve, KeepsWord, Promised, Current, Excused, LivePartsOK, AskedOK
<1>2. CASE u # t
    <2>1. linked[u] \/ lost[u] \/ u \in Live!NotYet \ {t}
        BY <1>0, <1>2 DEF Live!NotYet
    <2>2. EarsOf(u)' = EarsOf(u) /\ popUpSave'[u] = popUpSave[u]
        BY <1>0, <1>2 DEF Live!Serve, Live!script, EarsOf, LivePartsOK, AskedOK
    <2>3. QED
        BY <1>2, <2>1, <2>2, ChangeKeeps DEF Live!Serve, Live!view
<1>3. QED
    BY <1>1, <1>2

(* A request that is made: what was on its way is old, and a page that asks for *)
(* its contents will be brought what is so when the server answers.             *)
OldOrOpen(r) == r # None /\ r.seen # None => r.old
Asking(r) == r # None /\ r.area = "main" /\ r.seen = None

LEMMA AskMeans ==
    ASSUME LivePartsOK, NEW t \in OneTab, NEW area \in Live!Areas, NEW by \in AskKinds, Live!Ask(t, area, by)
    PROVE  /\ OldOrOpen(body'[t]) /\ OldOrOpen(link'[t])
           /\ area = "main" => Asking(body'[t]) \/ Asking(next'[t])
           /\ \A u \in OneTab \ {t} : body'[u] = body[u] /\ next'[u] = next[u] /\ link'[u] = link[u]
<1> DEFINE new == Live!New(area, by, address[t])
<1>1. new \in Live!Request /\ new.seen = None /\ new.area = area
    BY NewIsRequest DEF LivePartsOK, ViewOK, Live!New
<1>2. new # None
    BY <1>1, LiveAssumption
<1>3. /\ body[t] \in Live!Request \cup {None} /\ link[t] \in Live!Request \cup {None}
      /\ DOMAIN body = OneTab /\ DOMAIN next = OneTab /\ DOMAIN link = OneTab
    BY DEF LivePartsOK, AskedOK
<1>4. OldOrOpen(Live!Aged(body[t])) /\ OldOrOpen(Live!Aged(link[t]))
    BY <1>3, AgedIsRequest DEF OldOrOpen
<1>5. /\ body'[t] = (IF body[t] # None THEN Live!Aged(body[t]) ELSE new)
      /\ body[t] # None => next'[t] = new
      /\ link'[t] = Live!Aged(link[t])
      /\ \A u \in OneTab \ {t} : body'[u] = body[u] /\ next'[u] = next[u] /\ link'[u] = link[u]
    BY <1>3 DEF Live!Ask
<1> HIDE DEF new
<1>6. QED
    BY <1>1, <1>2, <1>4, <1>5 DEF OldOrOpen, Asking

LEMMA AskNothingMeans ==
    ASSUME LivePartsOK, NEW t \in OneTab, Live!AskNothing(t)
    PROVE  /\ OldOrOpen(body'[t]) /\ OldOrOpen(link'[t])
           /\ \A u \in OneTab \ {t} : body'[u] = body[u] /\ next'[u] = next[u] /\ link'[u] = link[u]
<1>1. /\ body[t] \in Live!Request \cup {None} /\ link[t] \in Live!Request \cup {None}
      /\ DOMAIN body = OneTab /\ DOMAIN next = OneTab /\ DOMAIN link = OneTab
    BY DEF LivePartsOK, AskedOK
<1>2. OldOrOpen(Live!Aged(body[t])) /\ OldOrOpen(Live!Aged(link[t]))
    BY <1>1, AgedIsRequest DEF OldOrOpen
<1>3. QED
    BY <1>1, <1>2 DEF Live!AskNothing

(* What is old or open is no promise; who asks has one. *)
LEMMA AskerKeeps ==
    ASSUME NEW u, NEW k, OldOrOpen(body'[u]), OldOrOpen(link'[u]),
           \/ pill'[u] \/ missed'[u] \/ Asking(body'[u]) \/ Asking(next'[u])
           \/ tableRows'[u] /\ shown'[u].page \in Tables
    PROVE  KeepsWord(u, k)'
BY DEF KeepsWord, Promised, Current, Live!Brings, OldOrOpen, Asking

LEMMA ApplyKeeps ==
    ASSUME NEW u, NEW k, Ready(u, k), NEW t \in OneTab, Live!Apply(t)
    PROVE  KeepsWord(u, k)'
<1>0. u \in OneTab /\ LivePartsOK
    BY DEF Ready
<1>1. UNCHANGED <<data, pending, hub, conn, wire, linked, lost, shown, missed, popUpSave>>
    BY DEF Live!Apply, Live!server
<1>2. UNCHANGED <<body, next, link>> \/ Live!AskNothing(t) \/ Live!Ask(t, "modal", "update") \/ Live!Ask(t, "main", "update")
    BY DEF Live!Apply, Live!Hook
<1>3. ASSUME u # t PROVE KeepsWord(u, k)'
    <2>1. body'[u] = body[u] /\ next'[u] = next[u] /\ link'[u] = link[u]
        <3>1. CASE Live!AskNothing(t)
            BY <1>0, <1>3, <3>1, AskNothingMeans DEF Live!AskNothing
        <3>2. QED
            BY <1>0, <1>2, <1>3, <3>1, AskMeans DEF Live!Areas, AskKinds
    <2>2. pill'[u] = pill[u] /\ tableRows'[u] = tableRows[u] /\ queue'[u] = queue[u]
        BY <1>0, <1>3 DEF Live!Apply, Live!Hook, LivePartsOK, ViewOK, AskedOK, ScriptOK
    <2>3. QED
        BY <1>1, <2>1, <2>2, TabRests DEF PageOf, EarsOf
<1>4. ASSUME u = t PROVE KeepsWord(u, k)'
    <2>1. CASE queue[t] = {}
        <3>1. UNCHANGED <<tableRows, body, next, link, pill>> /\ queue'[t] = queue[t]
            BY <1>0, <2>1 DEF Live!Apply, LivePartsOK, ScriptOK
        <3>2. QED
            BY <1>1, <1>4, <3>1, TabRests DEF PageOf, EarsOf
    <2>2. CASE queue[t] # {}
        <3>1. OldOrOpen(body'[t]) /\ OldOrOpen(link'[t])
            BY <1>0, <2>2, AskMeans, AskNothingMeans DEF Live!Apply, Live!Hook, Live!Areas, AskKinds
        <3>2. CASE Live!Hook(t) /\ shown[t].page \in Tables /\ queue[t] \cap (HookTopics \cup {All}) = {}
            <4>1. UNCHANGED <<tableRows, pill, next>>
                BY <3>2 DEF Live!Hook, Live!AskNothing
            <4>2. Live!Listens(t, k) => {k, All} \cap queue[t] = {}
                BY <3>2 DEF Live!Listens
            <4>3. Live!Listens(t, k) /\ Hears(t, k) => Hears(t, k)'
                BY <1>0, <1>1, <4>2 DEF Hears, Coming
            <4>4. Live!Brings(body[t], k) => Live!Brings(body'[t], k)
                <5>1. body'[t] = Live!Aged(body[t])
                    BY <1>0, <3>2 DEF Live!Hook, Live!AskNothing, LivePartsOK, AskedOK
                <5>2. body[t] \in Live!Request \cup {None}
                    BY <1>0 DEF LivePartsOK, AskedOK
                <5>3. QED
                    BY <5>1, <5>2, AgedIsRequest DEF Live!Brings
            <4>5. Promised(t, k)'
                BY <1>1, <1>4, <4>1, <4>3, <4>4
                DEF Ready, KeepsWord, Promised, Excused, Live!Owes, Live!Listens, Live!Brings
            <4>6. QED
                BY <1>4, <3>1, <4>5 DEF KeepsWord, Current, OldOrOpen
        <3>3. CASE ~(Live!Hook(t) /\ shown[t].page \in Tables /\ queue[t] \cap (HookTopics \cup {All}) = {})
            <4>1. \/ pill'[t] \/ Asking(body'[t]) \/ Asking(next'[t])
                  \/ tableRows'[t] /\ shown'[t].page \in Tables
                <5>1. CASE tableRows' = [tableRows EXCEPT ![t] = TRUE] /\ shown[t].page \in Tables
                    BY <1>0, <1>1, <5>1 DEF LivePartsOK, AskedOK
                <5>2. CASE pill' = [pill EXCEPT ![t] = TRUE]
                    BY <1>0, <5>2 DEF LivePartsOK, ViewOK
                <5>3. CASE Live!Ask(t, "main", "update")
                    BY <1>0, <5>3, AskMeans DEF Live!Areas, AskKinds
                <5>4. QED
                    BY <2>2, <3>3, <5>1, <5>2, <5>3 DEF Live!Apply, Live!Hook
            <4>2. QED
                BY <1>4, <3>1, <4>1, AskerKeeps
        <3>4. QED
            BY <3>2, <3>3
    <2>3. QED
        BY <2>1, <2>2
<1>5. QED
    BY <1>3, <1>4

LEMMA RefreshKeeps ==
    ASSUME NEW u, NEW k, Ready(u, k), NEW t \in OneTab,
           \/ Live!Refresh(t) /\ Live!Ask(t, "main", "click")
           \/ Live!Saved(t) /\ Live!Ask(t, "main", "reload")
    PROVE  KeepsWord(u, k)'
<1>0. u \in OneTab /\ LivePartsOK
    BY DEF Ready
<1>1. /\ OldOrOpen(body'[t]) /\ OldOrOpen(link'[t])
      /\ Asking(body'[t]) \/ Asking(next'[t])
      /\ \A v \in OneTab \ {t} : body'[v] = body[v] /\ next'[v] = next[v] /\ link'[v] = link[v]
    BY <1>0, AskMeans DEF Live!Areas, AskKinds
<1>2. CASE u = t
    BY <1>1, <1>2, AskerKeeps
<1>3. CASE u # t
    <2>1. UNCHANGED <<data, pending, hub>> /\ EarsOf(u)' = EarsOf(u)
        BY DEF Live!Refresh, Live!Saved, Live!server, Live!script, EarsOf
    <2>2. PageOf(u)' = PageOf(u)
        BY <1>0, <1>1, <1>3 DEF Live!Refresh, Live!Saved, Live!view, PageOf, LivePartsOK, ViewOK, AskedOK
    <2>3. QED
        BY <2>1, <2>2, TabRests
<1>4. QED
    BY <1>2, <1>3

(* The form of a pop-up is not saved, or nobody learns that it is. *)
LEMMA NotSavedKeeps ==
    ASSUME NEW u, NEW k, Ready(u, k), NEW t \in OneTab, Live!NotSaved(t)
    PROVE  KeepsWord(u, k)'
<1>0. u \in OneTab /\ LivePartsOK
    BY DEF Ready
<1>1. UNCHANGED <<data, pending, hub, shown, pill, next, tableRows>> /\ EarsOf(u)' = EarsOf(u)
    BY DEF Live!NotSaved, Live!server, Live!script, Live!view, EarsOf
<1>2. PICK who : Live!Misses(who) /\ (who = {} \/ (who = {t} /\ popUpSave[t] = "answered"))
                 /\ (popUpSave[t] = "answered" => who = {t})
    BY DEF Live!NotSaved
<1>3. /\ body'[u] = (IF u \in who THEN Live!Aged(body[u]) ELSE body[u])
      /\ link'[u] = (IF u \in who THEN Live!Aged(link[u]) ELSE link[u])
      /\ missed'[u] = (missed[u] \/ u \in who)
    BY <1>0, <1>2 DEF Live!Misses
<1>4. CASE u \in who
    <2>1. OldOrOpen(body'[u]) /\ OldOrOpen(link'[u])
        <3>1. body[u] \in Live!Request \cup {None} /\ link[u] \in Live!Request \cup {None}
            BY <1>0 DEF LivePartsOK, AskedOK
        <3>2. QED
            BY <1>3, <1>4, <3>1, AgedIsRequest DEF OldOrOpen
    <2>2. QED
        BY <1>3, <1>4, <2>1, AskerKeeps
<1>5. CASE u \notin who
    <2>1. Hears(u, k) => Hears(u, k)'
        BY <1>0, <1>1, HearsOn
    <2>2. ~Excused(u)  \/ popUpSave'[u] = popUpSave[u]
        BY <1>0, <1>2, <1>5 DEF Live!NotSaved, Excused, LivePartsOK, AskedOK
    <2>3. QED
        BY <1>1, <1>3, <1>5, <2>1, <2>2
        DEF Ready, KeepsWord, Promised, Current, Excused, Live!Owes, Live!Listens, Live!Brings
<1>6. QED
    BY <1>4, <1>5

(* The server answers: what the answer shows is so. *)
LEMMA AnswerKeeps ==
    ASSUME NEW u, NEW k, Ready(u, k), NEW t \in OneTab, Live!AnswerBody(t) \/ Live!AnswerLink(t)
    PROVE  KeepsWord(u, k)'
<1>0. u \in OneTab /\ LivePartsOK
    BY DEF Ready
<1>1. /\ UNCHANGED <<data, pending, hub, shown, pill, missed, next, tableRows, popUpSave>>
      /\ EarsOf(u)' = EarsOf(u)
    BY DEF Live!AnswerBody, Live!AnswerLink, Live!server, Live!script, Live!view, EarsOf
<1>2. Hears(u, k) => Hears(u, k)'
    BY <1>0, <1>1, HearsOn
<1>3. body'[u] = body[u] \/ (/\ body[u] # None /\ body[u].seen = None
                             /\ body'[u] # None /\ body'[u].seen = data /\ body'[u].area = body[u].area)
    BY <1>0, AnsweredIsRequest, LiveAssumption DEF Live!AnswerBody, Live!AnswerLink, LivePartsOK, HubOK, AskedOK
<1>4. link'[u] = link[u] \/ (link'[u] # None /\ link'[u].seen = data)
    BY <1>0, AnsweredIsRequest, LiveAssumption DEF Live!AnswerBody, Live!AnswerLink, LivePartsOK, HubOK, AskedOK
<1>5. Promised(u, k)'
    BY <1>1, <1>2, <1>3 DEF Ready, KeepsWord, Promised, Excused, Live!Owes, Live!Listens, Live!Brings
<1>6. Current(u, body[u], k)'
    BY <1>1, <1>2, <1>3 DEF Ready, KeepsWord, Current, Excused
<1>7. Current(u, link[u], k)'
    BY <1>1, <1>2, <1>4 DEF Ready, KeepsWord, Current, Excused
<1>8. QED
    BY <1>5, <1>6, <1>7 DEF KeepsWord

(* The contents are replaced: by what is so, by what the page hears more of, or *)
(* by an answer that the page knows to be old.                                  *)
LEMMA SettleKeeps ==
    ASSUME NEW u, NEW k, Ready(u, k), NEW t \in OneTab, Live!SettleMain(t) \/ Live!SettleLink(t)
    PROVE  KeepsWord(u, k)'
<1>0. u \in OneTab /\ LivePartsOK /\ Unasked
    BY DEF Ready, WiresInv
<1>1. UNCHANGED <<data, pending, hub, tableRows, popUpSave>> /\ EarsOf(u)' = EarsOf(u)
    BY DEF Live!SettleMain, Live!SettleLink, Live!server, Live!script, EarsOf
<1>2. CASE u # t
    <2>1. PageOf(u)' = PageOf(u)
        BY <1>0, <1>1, <1>2 DEF Live!SettleMain, Live!SettleLink, Live!Settle, PageOf, LivePartsOK, AskedOK, ViewOK, PastOK
    <2>2. QED
        BY <1>1, <2>1, TabRests
<1>3. CASE u = t
    <2>1. Hears(u, k) => Hears(u, k)'
        BY <1>0, <1>1, HearsOn
    <2>2. PICK r \in Live!Request : r.seen # None /\ Live!Settle(t, r) /\ Current(u, r, k)
        BY <1>0, <1>3 DEF Live!SettleMain, Live!SettleLink, LivePartsOK, AskedOK, Ready, KeepsWord
    <2>3. shown'[t].seen = r.seen /\ missed'[t] = (r.seen # data /\ (missed[t] \/ r.old))
        BY <1>0, <2>2 DEF Live!Settle, LivePartsOK, ViewOK, PastOK
    <2>4. Promised(u, k)'
        <3>1. CASE r.seen[k] = data[k]
            BY <1>1, <1>3, <2>3, <3>1 DEF Promised, Live!Owes
        <3>2. CASE r.seen[k] # data[k] /\ r.old
            BY <1>3, <2>3, <3>2 DEF Promised
        <3>3. CASE r.seen[k] # data[k] /\ ~r.old
            <4>1. r # None
                BY LiveAssumption
            <4>2. Hears(u, k)' \/ Excused(u)'
                BY <1>1, <2>1, <2>2, <3>3, <4>1 DEF Current, Excused
            <4>3. QED
                BY <4>2 DEF Promised
        <3>4. QED
            BY <3>1, <3>2, <3>3
    <2>5. /\ body'[u] \in {body[u], next[u]}
          /\ link'[u] \in {link[u], None}
        BY <1>0, <1>3 DEF Live!SettleMain, Live!SettleLink, LivePartsOK, AskedOK
    <2>6. Current(u, body[u], k)' /\ Current(u, link[u], k)'
        BY <1>0, <1>1, <2>1, <2>5 DEF Ready, KeepsWord, Current, Excused, Unasked
    <2>7. QED
        BY <2>4, <2>6 DEF KeepsWord
<1>4. QED
    BY <1>2, <1>3

(* The request before the one that waits is over, without the contents. *)
LEMMA NextKeeps ==
    ASSUME NEW u, NEW k, Ready(u, k), NEW t \in OneTab,
           Live!SettlePopUp(t) \/ Live!FailBody(t) \/ Live!FailLink(t)
    PROVE  KeepsWord(u, k)'
<1>0. u \in OneTab /\ LivePartsOK /\ Unasked
    BY DEF Ready, WiresInv
<1>1. UNCHANGED <<data, pending, hub, shown, pill, tableRows, popUpSave>> /\ EarsOf(u)' = EarsOf(u)
    BY DEF Live!SettlePopUp, Live!FailBody, Live!FailLink, Live!server, Live!script, Live!view, EarsOf
<1>2. Hears(u, k) => Hears(u, k)'
    BY <1>0, <1>1, HearsOn
<1>3. /\ body'[u] \in {body[u], next[u]} /\ link'[u] \in {link[u], None}
      /\ missed[u] => missed'[u]
      /\ body'[u] # body[u] => body'[u] = next[u] /\ body[u] # None /\ (body[u].area = "modal" \/ missed'[u])
      /\ next'[u] # next[u] => body'[u] = next[u]
    <2>1. body[t] # None => body[t].area \in {"main", "modal"}
        BY <1>0 DEF LivePartsOK, AskedOK, Live!Request, Live!Areas
    <2>2. QED
        BY <1>0, <2>1 DEF Live!SettlePopUp, Live!FailBody, Live!FailLink, LivePartsOK, AskedOK, PastOK
<1>4. Promised(u, k)'
    BY <1>1, <1>2, <1>3 DEF Ready, KeepsWord, Promised, Excused, Live!Owes, Live!Listens, Live!Brings
<1>5. Current(u, body[u], k)' /\ Current(u, link[u], k)'
    BY <1>0, <1>1, <1>2, <1>3 DEF Ready, KeepsWord, Current, Excused, Unasked
<1>6. QED
    BY <1>4, <1>5 DEF KeepsWord

LEMMA RowsKeep ==
    ASSUME NEW u, NEW k, Ready(u, k), NEW t \in OneTab, Live!Rows(t)
    PROVE  KeepsWord(u, k)'
<1>0. u \in OneTab /\ LivePartsOK
    BY DEF Ready
<1>1. UNCHANGED <<data, pending, hub, pill, body, next, link, popUpSave>> /\ EarsOf(u)' = EarsOf(u)
    BY DEF Live!Rows, Live!server, Live!script, EarsOf
<1>2. CASE u # t
    <2>1. PageOf(u)' = PageOf(u)
        BY <1>0, <1>1, <1>2 DEF Live!Rows, PageOf, LivePartsOK, AskedOK, ViewOK, PastOK
    <2>2. QED
        BY <1>1, <2>1, TabRests
<1>3. CASE u = t
    <2>1. Hears(u, k) => Hears(u, k)'
        BY <1>0, <1>1, HearsOn
    <2>2. \/ missed'[u]
          \/ /\ shown[u].page \in Tables /\ shown'[u].page = shown[u].page
             /\ k \in HookTopics => shown'[u].seen[k] = data[k]
          \/ shown[u].page \notin Tables /\ shown'[u] = shown[u] /\ missed'[u] = missed[u]
        BY <1>0, <1>3 DEF Live!Rows, Live!InRows, LivePartsOK, ViewOK, PastOK, Ready, Live!InView
    <2>3. Promised(u, k)'
        BY <1>1, <2>1, <2>2 DEF Ready, KeepsWord, Promised, Excused, Live!Owes, Live!Listens, Live!Brings
    <2>4. Current(u, body[u], k)' /\ Current(u, link[u], k)'
        BY <1>1, <2>1 DEF Ready, KeepsWord, Current, Excused
    <2>5. QED
        BY <2>3, <2>4 DEF KeepsWord
<1>4. QED
    BY <1>2, <1>3

LEMMA NetKeeps ==
    ASSUME NEW u, NEW k, Ready(u, k), NEW t \in OneTab, Live!Net(t)
    PROVE  KeepsWord(u, k)'
<1>1. Live!Saved(t) => Live!Ask(t, "main", "reload")
    BY DEF Live!Saved
<1>2. QED
    BY <1>1, ServeKeeps, RefreshKeeps, NotSavedKeeps, AnswerKeeps, SettleKeeps, NextKeeps, RowsKeep DEF Live!Net

LEMMA PersonKeeps ==
    ASSUME NEW u, NEW k, Ready(u, k), NEW t \in OneTab, Live!Person(t)
    PROVE  KeepsWord(u, k)'
<1>0. u \in OneTab /\ LivePartsOK
    BY DEF Ready
<1>1. CASE Live!Refresh(t)
    <2>1. Live!Ask(t, "main", "click")
        BY <1>1 DEF Live!Refresh
    <2>2. QED
        BY <1>1, <2>1, RefreshKeeps
<1>2. ASSUME NEW q \in Pages, Live!Follow(t, q) PROVE KeepsWord(u, k)'
    <2>1. UNCHANGED <<data, pending, hub, shown, pill, missed, body, next, tableRows, popUpSave>>
          /\ EarsOf(u)' = EarsOf(u)
        BY <1>2 DEF Live!Follow, Live!server, Live!script, Live!view, EarsOf
    <2>2. link'[u] = link[u] \/ link'[u].seen = None
        BY <1>0, <1>2 DEF Live!Follow, Live!New, LivePartsOK, AskedOK
    <2>3. Hears(u, k) => Hears(u, k)'
        BY <1>0, <2>1, HearsOn
    <2>4. QED
        BY <2>1, <2>2, <2>3 DEF Ready, KeepsWord, Promised, Current, Excused, Live!Owes, Live!Listens, Live!Brings
<1>3. ASSUME NEW j \in Topics, Live!Submit(t, j) PROVE KeepsWord(u, k)'
    <2>1. UNCHANGED <<data, pending, hub, shown, pill, missed, body, next, link, tableRows>>
          /\ EarsOf(u)' = EarsOf(u)
        BY <1>3 DEF Live!Submit, Live!server, Live!script, Live!view, EarsOf
    <2>2. popUpSave'[u] = popUpSave[u] \/ popUpSave[u] = None
        BY <1>0, <1>3 DEF Live!Submit, LivePartsOK, AskedOK
    <2>3. Hears(u, k) => Hears(u, k)'
        BY <1>0, <2>1, HearsOn
    <2>4. QED
        BY <2>1, <2>2, <2>3, LiveAssumption
        DEF Ready, KeepsWord, Promised, Current, Excused, Live!Owes, Live!Listens, Live!Brings
<1>4. ASSUME \/ Live!Hide(t) \/ Live!Show(t) \/ Live!StopTyping(t) \/ Live!OpenPopUp(t)
             \/ Live!ClosePopUp(t) \/ \E how \in {"typing", "opened"} : Live!Work(t, how)
      PROVE  KeepsWord(u, k)'
    <2>1. UNCHANGED <<data, pending, hub>> /\ EarsOf(u)' = EarsOf(u) /\ PageOf(u)' = PageOf(u)
        BY <1>4 DEF Live!Hide, Live!Show, Live!StopTyping, Live!OpenPopUp, Live!ClosePopUp, Live!Work,
                    Live!server, Live!script, Live!view, Live!requests, EarsOf, PageOf
    <2>2. QED
        BY <2>1, TabRests
<1>5. QED
    BY <1>1, <1>2, <1>3, <1>4 DEF Live!Person

LEMMA LiveWord == Live!TypeOK /\ WiresInv /\ WordKept /\ [Live!Next]_(Live!vars) => WordKept'
<1> SUFFICES ASSUME Live!TypeOK, WiresInv, WordKept, [Live!Next]_(Live!vars) PROVE WordKept'
    OBVIOUS
<1>1. UNCHANGED may
    BY DEF Live!Next, Live!Hub, Live!Take, Live!Send, Live!Beat, Live!CloseEnded, Live!Elsewhere,
           Live!Script, Live!Open, Live!Closed, Live!Hear, Live!Apply, Live!Break, Live!SignOut, Live!SignIn,
           Live!Net, Live!Serve, Live!Saved, Live!NotSaved, Live!AnswerBody, Live!SettleMain, Live!SettlePopUp,
           Live!FailBody, Live!AnswerLink, Live!SettleLink, Live!FailLink, Live!Rows,
           Live!Person, Live!Hide, Live!Show, Live!Refresh, Live!StopTyping, Live!OpenPopUp, Live!ClosePopUp,
           Live!Work, Live!Follow, Live!Submit, Live!vars
<1>2. Live!InView' = Live!InView
    BY <1>1 DEF Live!InView
<1>3. SUFFICES ASSUME NEW u \in OneTab, NEW k \in Live!InView PROVE KeepsWord(u, k)'
    BY <1>2 DEF WordKept
<1>4. Ready(u, k)
    BY LiveParts DEF WordKept, Ready, LivePartsOK
<1>5. CASE Live!Hub
    BY <1>4, <1>5, HubKeeps
<1>6. CASE \E j \in Topics : Live!Elsewhere(j)
    BY <1>4, <1>6, ElsewhereKeeps
<1>7. ASSUME NEW t \in OneTab, Live!Script(t) \/ Live!Break(t) \/ Live!SignOut(t) \/ Live!SignIn(t)
      PROVE  KeepsWord(u, k)'
    BY <1>4, <1>7, WireKeeps, ApplyKeeps DEF Live!Script
<1>8. ASSUME NEW t \in OneTab, Live!Net(t) \/ Live!Person(t) PROVE KeepsWord(u, k)'
    BY <1>4, <1>8, NetKeeps, PersonKeeps
<1>9. CASE UNCHANGED Live!vars
    <2>1. UNCHANGED <<data, pending, hub>> /\ EarsOf(u)' = EarsOf(u) /\ PageOf(u)' = PageOf(u)
        BY <1>9 DEF Live!vars, Live!server, Live!script, Live!view, Live!requests, EarsOf, PageOf
    <2>2. QED
        BY <1>4, <2>1, TabRests
<1>10. QED
    BY <1>5, <1>6, <1>7, <1>8, <1>9 DEF Live!Next

LEMMA LiveKeepsInv == LiveInv /\ [Live!Next]_(Live!vars) => LiveInv'
BY LiveTypes, LiveBound, LiveWires, LiveWord DEF LiveInv

(* Each page keeps its word about every topic it listens to: the invariant of *)
(* live updates, with the hook of a table free to drop all the others.       *)
THEOREM AlwaysInWord == Live!Spec => []LiveInv
BY LiveFirst, LiveKeepsInv, PTL DEF Live!Spec

(* A page that shows something old says so, or is told of it, or fetches it, if  *)
(* it listens to it: a table whose hook drops a change (members/_content.html)   *)
(* owes nothing for it until it is a page of another kind.                       *)
THEOREM NothingIsLost == Live!Spec => []NothingLost
<1>1. LiveInv => NothingLost
    BY DEF LiveInv, WordKept, KeepsWord, Promised, Hears, Coming, Excused, NothingLost, Live!NothingLost, Live!Notice
<1>2. QED
    BY <1>1, AlwaysInWord, PTL

(* The heartbeat closes connections whose session has ended, and no other. *)
THEOREM OthersStayOpen == Live!Spec => OnlyEndedClosed
<1>1. LiveInv /\ [Live!Next]_(Live!vars) =>
        [hub.at = "close" /\ hub'.at = "wait" =>
            \A t \in OneTab : conn'[t] # conn[t] => conn[t] \notin valid]_(Live!vars)
    <2> SUFFICES ASSUME LiveInv, Live!Next, hub.at = "close", hub'.at = "wait",
                        NEW t \in OneTab, conn'[t] # conn[t]
                 PROVE  conn[t] \notin valid
        OBVIOUS
    <2>1. Live!CloseEnded
        <3>1. Live!Hub \/ UNCHANGED hub
            BY DEF Live!Next, Live!Elsewhere, Live!Script, Live!Open, Live!Closed, Live!Hear, Live!Apply,
                   Live!Break, Live!SignOut, Live!SignIn, Live!Net, Live!Serve, Live!Saved, Live!NotSaved,
                   Live!AnswerBody, Live!SettleMain, Live!SettlePopUp, Live!FailBody, Live!AnswerLink,
                   Live!SettleLink, Live!FailLink, Live!Rows, Live!Person, Live!Hide, Live!Show, Live!Refresh,
                   Live!StopTyping, Live!OpenPopUp, Live!ClosePopUp, Live!Work, Live!Follow, Live!Submit, Live!server
        <3>2. QED
            BY <3>1 DEF Live!Hub, Live!Take, Live!Send, Live!Beat
    <2>2. conn'[t] = None /\ conn[t] = hub.ended[t]
        BY <2>1 DEF Live!CloseEnded, LiveInv, Live!TypeOK
    <2>3. QED
        BY <2>2 DEF LiveInv, WiresInv, EndedIsOver
<1>2. QED
    BY <1>1, AlwaysInWord, PTL DEF Live!Spec, OnlyEndedClosed, Live!OnlyEndedClosed

-----------------------------------------------------------------------------
(* The logo editor.  Until there is a picture nothing is drawn, so that a file *)
(* in the form is as it was chosen.                                            *)
Fresh ==
    img = None => /\ encoding = {} /\ orig = None /\ state = None /\ ~storeTimer /\ ~asis
                  /\ file # None => file.view = None

(* The encoder's last job is of what is shown, or store() will be called anew. *)
LastIsCurrent == \A e \in encoding : e.last => ~asis /\ (storeTimer \/ (e.pic = img /\ e.view = view))

(* A form that is not filled as shown is about to be: by the timer, by the     *)
(* encoder, or by a picture just chosen, which will be drawn or not be shown.  *)
AboutToFill ==
    img # None /\ ~strayed /\ file # None /\ ~Logo!Filled =>
        storeTimer \/ (\E e \in encoding : e.last) \/ (file.view = None /\ loading # {})

(* A logo that is its original, drawn as its settings say. *)
Drawn(k) ==
    /\ k.orig = None => k.logo.view = None
    /\ k.orig # None => k.logo = [pic |-> k.orig, view |-> k.state]
CalmIsDrawn == post # None /\ post.calm => Drawn(post.kept)
LogoIsSaved == post # None /\ post.at = "logo" /\ ~mixed => saved.kept.logo = post.kept.logo

EditorInv == Fresh /\ LastIsCurrent /\ AboutToFill
FileIsSent == post # None => post.kept.logo # None

FormInv == FileIsSent /\ CalmIsDrawn /\ LogoIsSaved /\ CanBeEditedAgain
LogoInv == Logo!TypeOK /\ EditorInv /\ FormInv

-----------------------------------------------------------------------------
(* What a person does is counted, and so is what others do. *)
LEMMA LogoCounts ==
    ASSUME Logo!TypeOK
    PROVE  /\ Logo!Turn => logoTurns' \in 0..LogoTurns /\ others' = others
           /\ Logo!Trouble => others' \in 0..MaxOthers /\ logoTurns' = logoTurns
BY LogoAssumption DEF Logo!TypeOK, Logo!Turn, Logo!Trouble

(* A form, a canvas and what the server keeps. *)
FormOK == file \in Logo!Files \cup {None} /\ orig \in Pictures \cup {None} /\ state \in Logo!Views \cup {None}
CanvasOK ==
    /\ img \in Pictures \cup {None} /\ view \in Logo!Views /\ asis \in BOOLEAN /\ storeTimer \in BOOLEAN
    /\ strayed \in BOOLEAN /\ offered \in [again : BOOLEAN, state : Logo!Views \cup {None}]
UnderWayOK ==
    /\ loading \subseteq [pic : Pictures, state : Logo!Views \cup {None}]
    /\ encoding \subseteq [pic : Pictures, view : Logo!Views, last : BOOLEAN]
KeptOK ==
    /\ post \in Logo!Posts \cup {None}
    /\ saved \in [kept : Logo!Kept, calm : BOOLEAN] /\ mixed \in BOOLEAN
CountsOK == logoTurns \in 0..LogoTurns /\ others \in 0..MaxOthers

LEMMA LogoParts == Logo!TypeOK <=> FormOK /\ CanvasOK /\ UnderWayOK /\ KeptOK /\ CountsOK
BY DEF Logo!TypeOK, FormOK, CanvasOK, UnderWayOK, KeptOK, CountsOK

LEMMA LogoPartsNext == FormOK' /\ CanvasOK' /\ UnderWayOK' /\ KeptOK' /\ CountsOK' => Logo!TypeOK'
BY DEF Logo!TypeOK, FormOK, CanvasOK, UnderWayOK, KeptOK, CountsOK

LEMMA LogoFirst == Logo!Init => LogoInv
<1> SUFFICES ASSUME Logo!Init PROVE LogoInv
    OBVIOUS
<1>1. PICK k \in {Logo!Nothing} \cup Logo!Logos : saved = [kept |-> k, calm |-> TRUE]
    BY DEF Logo!Init
<1>2. k \in Logo!Kept
    BY <1>1 DEF Logo!Nothing, Logo!Logos, Logo!Kept, Logo!Files
<1>3. FormOK /\ UnderWayOK
    BY DEF Logo!Init, FormOK, UnderWayOK
<1>4. CanvasOK
    BY <1>1, <1>2, LogoAssumption DEF Logo!Init, CanvasOK, Logo!Plain, Logo!Views, Logo!Kept
<1>5. KeptOK
    BY <1>1, <1>2 DEF Logo!Init, KeptOK
<1>6. CountsOK
    BY LogoAssumption DEF Logo!Init, CountsOK
<1>7. EditorInv
    BY DEF Logo!Init, EditorInv, Fresh, LastIsCurrent, AboutToFill
<1>8. CanBeEditedAgain
    BY <1>1 DEF CanBeEditedAgain, Logo!CanBeEditedAgain, Logo!Nothing, Logo!Logos
<1>9. FileIsSent /\ CalmIsDrawn /\ LogoIsSaved
    BY DEF Logo!Init, FileIsSent, CalmIsDrawn, LogoIsSaved
<1>10. QED
    BY <1>3, <1>4, <1>5, <1>6, <1>7, <1>8, <1>9, LogoParts DEF LogoInv, FormInv

(* store() fills the form at once, or gives the canvas to the encoder. *)
LEMMA StoreTypes ==
    ASSUME FormOK, CanvasOK, UnderWayOK, NEW whole \in BOOLEAN, Logo!Store(whole)
    PROVE  FormOK' /\ encoding' \subseteq [pic : Pictures, view : Logo!Views, last : BOOLEAN] /\ strayed' \in BOOLEAN
<1>1. {[e EXCEPT !.last = FALSE] : e \in encoding} \subseteq [pic : Pictures, view : Logo!Views, last : BOOLEAN]
    BY DEF UnderWayOK
<1>2. img # None => [pic |-> img, view |-> None] \in Logo!Files
                    /\ [pic |-> img, view |-> view, last |-> TRUE] \in [pic : Pictures, view : Logo!Views, last : BOOLEAN]
    BY DEF CanvasOK, Logo!Files
<1>3. CASE img = None
    BY <1>3 DEF Logo!Store, FormOK, CanvasOK, UnderWayOK
<1>4. CASE img # None /\ whole
    BY <1>1, <1>2, <1>4 DEF Logo!Store, FormOK
<1>5. CASE img # None /\ ~whole
    BY <1>1, <1>2, <1>5 DEF Logo!Store, FormOK
<1>6. QED
    BY <1>3, <1>4, <1>5

LEMMA LogoTypes == Logo!TypeOK /\ FileIsSent /\ [Logo!Next]_(Logo!vars) => Logo!TypeOK'
<1> SUFFICES ASSUME Logo!TypeOK, FileIsSent, [Logo!Next]_(Logo!vars) PROVE Logo!TypeOK'
    OBVIOUS
<1> USE DEF Logo!editor, Logo!server
<1>0. FormOK /\ CanvasOK /\ UnderWayOK /\ KeptOK /\ CountsOK
    BY LogoParts
<1>1. Logo!Plain \in Logo!Views
    BY LogoAssumption DEF Logo!Plain, Logo!Views
<1>2. ASSUME NEW q \in Pictures, Logo!Choose(q) PROVE Logo!TypeOK'
    <2>1. FormOK' /\ CanvasOK'
        BY <1>0, <1>2 DEF Logo!Choose, FormOK, CanvasOK, Logo!Files
    <2>2. UnderWayOK' /\ KeptOK' /\ CountsOK'
        BY <1>0, <1>2, LogoCounts DEF Logo!Choose, Logo!Load, UnderWayOK, KeptOK, CountsOK
    <2>3. QED
        BY <2>1, <2>2, LogoPartsNext
<1>3. CASE Logo!ChooseNone
    <2>1. FormOK' /\ CanvasOK'
        BY <1>0, <1>3 DEF Logo!ChooseNone, FormOK, CanvasOK
    <2>2. UnderWayOK' /\ KeptOK' /\ CountsOK'
        BY <1>0, <1>3, LogoCounts DEF Logo!ChooseNone, UnderWayOK, KeptOK, CountsOK
    <2>3. QED
        BY <2>1, <2>2, LogoPartsNext
<1>4. CASE Logo!Again
    <2>1. FormOK' /\ CanvasOK'
        BY <1>0, <1>4 DEF Logo!Again, FormOK, CanvasOK
    <2>2. [pic |-> saved.kept.orig, state |-> offered.state] \in [pic : Pictures, state : Logo!Views \cup {None}]
        BY <1>0, <1>4 DEF Logo!Again, CanvasOK, KeptOK, Logo!Kept
    <2>3. UnderWayOK' /\ KeptOK' /\ CountsOK'
        BY <1>0, <1>4, <2>2, LogoCounts DEF Logo!Again, Logo!Load, UnderWayOK, KeptOK, CountsOK
    <2>4. QED
        BY <2>1, <2>3, LogoPartsNext
<1>5. ASSUME NEW l \in loading, Logo!Loaded(l) PROVE Logo!TypeOK'
    <2>1. l \in [pic : Pictures, state : Logo!Views \cup {None}]
        BY <1>0 DEF UnderWayOK
    <2>2. view' \in Logo!Views /\ storeTimer' = TRUE
        <3>1. view \in Logo!Views
            BY <1>0 DEF CanvasOK
        <3>2. [view EXCEPT !.place = Fit] \in Logo!Views
            BY <3>1, LogoAssumption DEF Logo!Views
        <3>3. l.state # None => Logo!Restored(l.state) \in Logo!Views
            BY <2>1, <3>1 DEF Logo!Restored, Logo!Views
        <3>4. QED
            BY <1>5, <3>2, <3>3 DEF Logo!Loaded, Logo!Draw
    <2>3. FormOK' /\ CanvasOK'
        BY <1>0, <1>5, <2>1, <2>2 DEF Logo!Loaded, FormOK, CanvasOK
    <2>4. UnderWayOK' /\ KeptOK' /\ CountsOK'
        BY <1>0, <1>5 DEF Logo!Loaded, UnderWayOK, KeptOK, CountsOK
    <2>5. QED
        BY <2>3, <2>4, LogoPartsNext
<1>6. ASSUME NEW l \in loading, Logo!NotLoaded(l) PROVE Logo!TypeOK'
    <2>1. strayed' \in BOOLEAN
        BY <1>0, <1>6 DEF Logo!NotLoaded, CanvasOK
    <2>2. FormOK' /\ CanvasOK'
        BY <1>0, <1>6, <2>1 DEF Logo!NotLoaded, FormOK, CanvasOK
    <2>3. UnderWayOK' /\ KeptOK' /\ CountsOK'
        BY <1>0, <1>6 DEF Logo!NotLoaded, UnderWayOK, KeptOK, CountsOK
    <2>4. QED
        BY <2>2, <2>3, LogoPartsNext
<1>7. ASSUME NEW v \in Logo!Views, Logo!Adjust(v) PROVE Logo!TypeOK'
    <2>1. FormOK' /\ CanvasOK'
        BY <1>0, <1>7 DEF Logo!Adjust, Logo!Draw, FormOK, CanvasOK
    <2>2. UnderWayOK' /\ KeptOK' /\ CountsOK'
        BY <1>0, <1>7, LogoCounts DEF Logo!Adjust, UnderWayOK, KeptOK, CountsOK
    <2>3. QED
        BY <2>1, <2>2, LogoPartsNext
<1>8. CASE Logo!Fire \/ Logo!Tick
    <2>1. PICK whole \in BOOLEAN : Logo!Store(whole)
        BY <1>0, <1>8 DEF Logo!Fire, Logo!Tick, CanvasOK
    <2>2. FormOK' /\ encoding' \subseteq [pic : Pictures, view : Logo!Views, last : BOOLEAN] /\ strayed' \in BOOLEAN
        BY <1>0, <2>1, StoreTypes
    <2>3. CanvasOK'
        <3>1. asis' \in BOOLEAN /\ storeTimer' \in BOOLEAN
            BY <1>0, <1>8 DEF Logo!Fire, Logo!Tick, CanvasOK
        <3>2. QED
            BY <1>0, <1>8, <2>2, <3>1 DEF Logo!Fire, Logo!Tick, CanvasOK
    <2>4. UnderWayOK' /\ KeptOK'
        BY <1>0, <1>8, <2>2 DEF Logo!Fire, Logo!Tick, UnderWayOK, KeptOK
    <2>5. CountsOK'
        BY <1>0, <1>8, LogoCounts DEF Logo!Fire, Logo!Tick, CountsOK
    <2>6. QED
        BY <2>2, <2>3, <2>4, <2>5, LogoPartsNext
<1>9. ASSUME NEW e \in encoding, Logo!Encoded(e) PROVE Logo!TypeOK'
    <2>1. e \in [pic : Pictures, view : Logo!Views, last : BOOLEAN]
        BY <1>0 DEF UnderWayOK
    <2>2. FormOK'
        BY <1>0, <1>9, <2>1 DEF Logo!Encoded, FormOK, CanvasOK, Logo!Files
    <2>3. strayed' \in BOOLEAN
        BY <1>0, <1>9 DEF Logo!Encoded, Logo!Overtaken, CanvasOK
    <2>4. CanvasOK' /\ UnderWayOK' /\ KeptOK' /\ CountsOK'
        BY <1>0, <1>9, <2>3 DEF Logo!Encoded, CanvasOK, UnderWayOK, KeptOK, CountsOK
    <2>5. QED
        BY <2>2, <2>4, LogoPartsNext
<1>10. ASSUME NEW e \in encoding, Logo!NotEncoded(e) PROVE Logo!TypeOK'
    <2>1. strayed' \in BOOLEAN
        BY <1>0, <1>10 DEF Logo!NotEncoded, CanvasOK, UnderWayOK
    <2>2. FormOK' /\ CanvasOK' /\ UnderWayOK' /\ KeptOK' /\ CountsOK'
        BY <1>0, <1>10, <2>1, LogoCounts DEF Logo!NotEncoded, FormOK, CanvasOK, UnderWayOK, KeptOK, CountsOK
    <2>3. QED
        BY <2>2, LogoPartsNext
<1>11. CASE Logo!Submit
    <2>1. [logo |-> file, orig |-> orig, state |-> state] \in Logo!Kept
        BY <1>0 DEF FormOK, Logo!Kept
    <2>2. (Logo!Quiet /\ ~strayed) \in BOOLEAN
        OBVIOUS
    <2>3. KeptOK'
        BY <1>0, <1>11, <2>1, <2>2 DEF Logo!Submit, KeptOK, Logo!Posts
    <2>4. FormOK' /\ CanvasOK' /\ UnderWayOK' /\ CountsOK'
        BY <1>0, <1>11, LogoCounts DEF Logo!Submit, FormOK, CanvasOK, UnderWayOK, CountsOK
    <2>5. QED
        BY <2>3, <2>4, LogoPartsNext
<1>12. CASE Logo!StoreLogo \/ Logo!StoreOriginal
    <2>1. /\ post \in Logo!Posts
          /\ saved \in [kept : Logo!Kept, calm : BOOLEAN]
        BY <1>0, <1>12 DEF Logo!StoreLogo, Logo!StoreOriginal, KeptOK
    <2>2. ASSUME Logo!StoreLogo PROVE KeptOK'
        <3>1. [saved EXCEPT !.kept.logo = post.kept.logo] \in [kept : Logo!Kept, calm : BOOLEAN]
            BY <2>1 DEF Logo!Kept, Logo!Posts
        <3>2. [post EXCEPT !.at = "logo"] \in Logo!Posts
            BY <2>1 DEF Logo!Posts
        <3>3. mixed' \in BOOLEAN
            BY <1>0, <2>2 DEF Logo!StoreLogo, KeptOK
        <3>4. QED
            BY <1>0, <2>2, <3>1, <3>2, <3>3 DEF Logo!StoreLogo, KeptOK
    <2>3. ASSUME Logo!StoreOriginal PROVE KeptOK'
        <3>1. [post EXCEPT !.at = "answer"] \in Logo!Posts
            BY <2>1 DEF Logo!Posts
        <3>2. post.kept.logo # None /\ Logo!Original(post.kept) \in Pictures
            BY <2>1, <2>3, LogoAssumption DEF FileIsSent, Logo!StoreOriginal, Logo!Original, Logo!Kept, Logo!Files, Logo!Posts
        <3>3. saved' \in [kept : Logo!Kept, calm : BOOLEAN]
            BY <2>1, <2>3, <3>2 DEF Logo!StoreOriginal, Logo!Kept, Logo!Posts
        <3>4. QED
            BY <1>0, <2>3, <3>1, <3>3 DEF Logo!StoreOriginal, KeptOK
    <2>4. KeptOK'
        BY <1>12, <2>2, <2>3
    <2>5. FormOK' /\ CanvasOK' /\ UnderWayOK' /\ CountsOK'
        BY <1>0, <1>12 DEF Logo!StoreLogo, Logo!StoreOriginal, FormOK, CanvasOK, UnderWayOK, CountsOK
    <2>6. QED
        BY <2>4, <2>5, LogoPartsNext
<1>13. CASE Logo!Answer
    <2>1. saved.kept.state \in Logo!Views \cup {None} /\ (saved.kept.orig # None) \in BOOLEAN
        BY <1>0 DEF KeptOK, Logo!Kept
    <2>2. FormOK' /\ CanvasOK'
        BY <1>1, <1>13, <2>1 DEF Logo!Answer, Logo!Opened, FormOK, CanvasOK
    <2>3. UnderWayOK' /\ KeptOK' /\ CountsOK'
        BY <1>0, <1>13 DEF Logo!Answer, Logo!Opened, UnderWayOK, KeptOK, CountsOK
    <2>4. QED
        BY <2>2, <2>3, LogoPartsNext
<1>14. CASE Logo!Elsewhere \/ Logo!Crash
    <2>1. Logo!Nothing \in Logo!Kept /\ Logo!Logos \subseteq Logo!Kept
        BY DEF Logo!Nothing, Logo!Logos, Logo!Kept, Logo!Files
    <2>2. mixed' \in BOOLEAN
        BY <1>0, <1>14 DEF Logo!Elsewhere, Logo!Crash, KeptOK
    <2>3. saved' \in [kept : Logo!Kept, calm : BOOLEAN] /\ (post' = post \/ post' = None)
        <3>1. CASE Logo!Elsewhere
            BY <2>1, <3>1 DEF Logo!Elsewhere
        <3>2. CASE Logo!Crash
            BY <1>0, <3>2 DEF Logo!Crash, KeptOK
        <3>3. QED
            BY <1>14, <3>1, <3>2
    <2>4. FormOK' /\ CanvasOK' /\ UnderWayOK' /\ CountsOK'
        BY <1>0, <1>14, LogoCounts DEF Logo!Elsewhere, Logo!Crash, FormOK, CanvasOK, UnderWayOK, CountsOK
    <2>5. QED
        BY <1>0, <2>2, <2>3, <2>4, LogoPartsNext DEF KeptOK
<1>15. CASE UNCHANGED Logo!vars
    BY <1>15 DEF Logo!vars, Logo!TypeOK
<1>16. QED
    BY <1>2, <1>3, <1>4, <1>5, <1>6, <1>7, <1>8, <1>9, <1>10, <1>11, <1>12, <1>13, <1>14, <1>15 DEF Logo!Next

-----------------------------------------------------------------------------
(* What a step of the editor leaves to be done. *)
LEMMA EditorNext ==
    Logo!TypeOK /\ EditorInv /\ [Logo!Next]_(Logo!vars) => EditorInv'
<1> SUFFICES ASSUME Logo!TypeOK, EditorInv, [Logo!Next]_(Logo!vars) PROVE EditorInv'
    OBVIOUS
<1> USE DEF Logo!editor, Logo!server
<1>0. CanvasOK /\ UnderWayOK /\ Fresh /\ LastIsCurrent /\ AboutToFill
    BY LogoParts DEF EditorInv
<1>1. ASSUME NEW q \in Pictures, Logo!Choose(q) PROVE EditorInv'
    <2>1. Fresh' /\ LastIsCurrent'
        BY <1>0, <1>1 DEF Logo!Choose, Fresh, LastIsCurrent
    <2>2. AboutToFill'
        BY <1>1 DEF Logo!Choose, Logo!Load, AboutToFill
    <2>3. QED
        BY <2>1, <2>2 DEF EditorInv
<1>2. CASE Logo!ChooseNone
    BY <1>0, <1>2 DEF Logo!ChooseNone, EditorInv, Fresh, LastIsCurrent, AboutToFill
<1>3. CASE Logo!Again
    BY <1>0, <1>3 DEF Logo!Again, Logo!Load, EditorInv, Fresh, LastIsCurrent, AboutToFill, Logo!Filled
<1>4. ASSUME NEW l \in loading, Logo!Loaded(l) PROVE EditorInv'
    <2>1. img' # None
        BY <1>0, <1>4, LogoAssumption DEF Logo!Loaded, UnderWayOK
    <2>2. storeTimer' /\ UNCHANGED <<asis, encoding>>
        BY <1>4 DEF Logo!Loaded, Logo!Draw
    <2>3. QED
        BY <1>0, <2>1, <2>2 DEF EditorInv, Fresh, LastIsCurrent, AboutToFill
<1>5. ASSUME NEW l \in loading, Logo!NotLoaded(l) PROVE EditorInv'
    <2>1. Fresh' /\ LastIsCurrent'
        BY <1>0, <1>5 DEF Logo!NotLoaded, Fresh, LastIsCurrent
    <2>2. AboutToFill'
        BY <1>0, <1>5 DEF Logo!NotLoaded, AboutToFill, Logo!Filled
    <2>3. QED
        BY <2>1, <2>2 DEF EditorInv
<1>6. ASSUME NEW v \in Logo!Views, Logo!Adjust(v) PROVE EditorInv'
    BY <1>0, <1>6 DEF Logo!Adjust, Logo!Draw, EditorInv, Fresh, LastIsCurrent, AboutToFill
<1>7. CASE Logo!Fire \/ Logo!Tick
    <2>1. Logo!Store(asis') /\ UNCHANGED <<img, view, loading>>
        BY <1>7 DEF Logo!Fire, Logo!Tick
    <2>2. img # None
        BY <1>0, <1>7 DEF Logo!Fire, Logo!Tick, Fresh
    <2>3. CASE asis'
        <3>1. /\ file' = [pic |-> img, view |-> None] /\ orig' = None /\ state' = None
              /\ encoding' = {[e EXCEPT !.last = FALSE] : e \in encoding}
            BY <2>1, <2>2, <2>3 DEF Logo!Store
        <3>2. \A e \in encoding' : e.last = FALSE
            BY <1>0, <3>1 DEF UnderWayOK
        <3>3. Logo!Filled'
            BY <2>1, <2>3, <3>1 DEF Logo!Filled
        <3>4. QED
            BY <2>1, <2>2, <3>2, <3>3 DEF EditorInv, Fresh, LastIsCurrent, AboutToFill
    <2>4. CASE ~asis'
        <3>1. encoding' = {[e EXCEPT !.last = FALSE] : e \in encoding}
                             \cup {[pic |-> img, view |-> view, last |-> TRUE]}
            BY <2>1, <2>2, <2>4 DEF Logo!Store
        <3>2. \A e \in encoding' : e.last => e.pic = img /\ e.view = view
            BY <1>0, <3>1 DEF UnderWayOK
        <3>3. \E e \in encoding' : e.last
            <4> DEFINE e == [pic |-> img, view |-> view, last |-> TRUE]
            <4>1. e \in encoding' /\ e.last = TRUE
                BY <3>1
            <4> HIDE DEF e
            <4>2. QED
                BY <4>1
        <3>4. QED
            BY <2>1, <2>2, <2>4, <3>2, <3>3 DEF EditorInv, Fresh, LastIsCurrent, AboutToFill
    <2>5. QED
        BY <2>3, <2>4
<1>8. ASSUME NEW e \in encoding, Logo!Encoded(e) PROVE EditorInv'
    <2>1. img # None /\ UNCHANGED <<img, view, asis, storeTimer, loading>> /\ encoding' = encoding \ {e}
        BY <1>0, <1>8 DEF Fresh, Logo!Encoded
    <2>2. Fresh' /\ LastIsCurrent'
        BY <1>0, <2>1 DEF Fresh, LastIsCurrent
    <2>3. CASE e.last
        <3>1. ~asis /\ (storeTimer \/ (e.pic = img /\ e.view = view))
            BY <1>0, <2>3 DEF LastIsCurrent
        <3>2. storeTimer \/ Logo!Filled'
            BY <1>8, <3>1 DEF Logo!Encoded, Logo!Filled
        <3>3. QED
            BY <2>1, <2>2, <3>2 DEF EditorInv, AboutToFill
    <2>4. CASE ~e.last
        <3>1. strayed' \/ \E f \in encoding \ {e} : f.last
            BY <1>8, <2>4 DEF Logo!Encoded, Logo!Overtaken
        <3>2. QED
            BY <2>1, <2>2, <3>1 DEF EditorInv, AboutToFill
    <2>5. QED
        BY <2>3, <2>4
<1>9. ASSUME NEW e \in encoding, Logo!NotEncoded(e) PROVE EditorInv'
    <2>1. Fresh' /\ LastIsCurrent'
        BY <1>0, <1>9 DEF Logo!NotEncoded, Fresh, LastIsCurrent
    <2>2. AboutToFill'
        BY <1>0, <1>9 DEF Logo!NotEncoded, AboutToFill, Logo!Filled
    <2>3. QED
        BY <2>1, <2>2 DEF EditorInv
<1>10. CASE Logo!Answer
    BY <1>10 DEF Logo!Answer, Logo!Opened, EditorInv, Fresh, LastIsCurrent, AboutToFill
<1>11. CASE UNCHANGED Logo!editor
    BY <1>0, <1>11 DEF EditorInv, Fresh, LastIsCurrent, AboutToFill, Logo!Filled
<1>12. QED
    BY <1>1, <1>2, <1>3, <1>4, <1>5, <1>6, <1>7, <1>8, <1>9, <1>10, <1>11
    DEF Logo!Next, Logo!vars, Logo!Submit, Logo!StoreLogo, Logo!StoreOriginal, Logo!Elsewhere, Logo!Crash

(* What is sent by a form at rest is as it is drawn. *)
LEMMA CalmSendsDrawn ==
    ASSUME EditorInv, file # None, Logo!Quiet, ~strayed
    PROVE  Drawn([logo |-> file, orig |-> orig, state |-> state])
<1>1. CASE img = None
    BY <1>1 DEF EditorInv, Fresh, Drawn
<1>2. CASE img # None
    <2>1. Logo!Filled
        BY <1>2 DEF EditorInv, AboutToFill, Logo!Quiet
    <2>2. CASE asis
        BY <2>1, <2>2 DEF Logo!Filled, Drawn
    <2>3. CASE ~asis
        BY <1>2, <2>1, <2>3 DEF Logo!Filled, Drawn
    <2>4. QED
        BY <2>2, <2>3
<1>3. QED
    BY <1>1, <1>2

(* The server writes the logo and then the original and the settings. *)
LEMMA FormNext ==
    Logo!TypeOK /\ EditorInv /\ FormInv /\ [Logo!Next]_(Logo!vars) => FormInv'
<1> SUFFICES ASSUME Logo!TypeOK, EditorInv, FormInv, [Logo!Next]_(Logo!vars) PROVE FormInv'
    OBVIOUS
<1> USE DEF Logo!editor, Logo!server
<1>0. FormOK /\ KeptOK /\ FileIsSent /\ CalmIsDrawn /\ LogoIsSaved /\ CanBeEditedAgain
    BY LogoParts DEF FormInv
<1>1. CASE Logo!Submit
    <2>1. /\ post = None /\ file # None /\ UNCHANGED <<saved, mixed>>
          /\ post' = [kept |-> [logo |-> file, orig |-> orig, state |-> state],
                      calm |-> Logo!Quiet /\ ~strayed, at |-> "sent"]
        BY <1>1 DEF Logo!Submit
    <2>2. FileIsSent' /\ LogoIsSaved'
        BY <2>1 DEF FileIsSent, LogoIsSaved
    <2>3. CalmIsDrawn'
        BY <2>1, CalmSendsDrawn DEF CalmIsDrawn
    <2>4. CanBeEditedAgain'
        BY <1>0, <2>1 DEF CanBeEditedAgain, Logo!CanBeEditedAgain
    <2>5. QED
        BY <2>2, <2>3, <2>4 DEF FormInv
<1>2. CASE Logo!StoreLogo
    <2>1. post # None /\ post \in Logo!Posts /\ post.at = "sent" /\ saved \in [kept : Logo!Kept, calm : BOOLEAN]
        BY <1>0, <1>2 DEF Logo!StoreLogo, KeptOK
    <2>2. CASE post' = None /\ UNCHANGED <<saved, mixed>>
        BY <1>0, <2>1, <2>2 DEF FormInv, FileIsSent, CalmIsDrawn, LogoIsSaved, CanBeEditedAgain, Logo!CanBeEditedAgain
    <2>3. CASE /\ saved' = [saved EXCEPT !.kept.logo = post.kept.logo]
               /\ post' = [post EXCEPT !.at = "logo"] /\ mixed' = FALSE
        <3>1. post' \in Logo!Posts /\ post'.kept = post.kept /\ post'.calm = post.calm /\ post'.at = "logo"
            BY <2>1, <2>3 DEF Logo!Posts
        <3>2. saved'.kept.logo = post.kept.logo
            BY <2>1, <2>3 DEF Logo!Kept
        <3>3. QED
            BY <1>0, <2>1, <3>1, <3>2, LogoAssumption
            DEF FormInv, FileIsSent, CalmIsDrawn, LogoIsSaved, CanBeEditedAgain, Logo!CanBeEditedAgain
    <2>4. QED
        BY <1>2, <2>2, <2>3 DEF Logo!StoreLogo
<1>3. CASE Logo!StoreOriginal
    <2>1. post # None /\ post \in Logo!Posts /\ post.at = "logo" /\ saved \in [kept : Logo!Kept, calm : BOOLEAN]
        BY <1>0, <1>3 DEF Logo!StoreOriginal, KeptOK
    <2>2. post'.kept = post.kept /\ post'.calm = post.calm /\ post'.at = "answer" /\ mixed' = mixed
        BY <1>3, <2>1 DEF Logo!StoreOriginal, Logo!Posts
    <2>3. FileIsSent' /\ CalmIsDrawn' /\ LogoIsSaved'
        BY <1>0, <2>1, <2>2 DEF FileIsSent, CalmIsDrawn, LogoIsSaved
    <2>4. ASSUME post.calm, ~mixed, saved'.kept.orig # None
          PROVE  saved'.kept.logo = [pic |-> saved'.kept.orig, view |-> saved'.kept.state]
        <3>1. saved'.kept.logo = post.kept.logo /\ Drawn(post.kept)
            <4>1. saved'.kept.logo = saved.kept.logo
                BY <1>3, <2>1 DEF Logo!StoreOriginal, Logo!Kept
            <4>2. QED
                BY <1>0, <2>1, <2>4, <4>1 DEF CalmIsDrawn, LogoIsSaved
        <3>2. /\ saved'.kept.orig = Logo!Original(post.kept)
              /\ saved'.kept.state = IF post.kept.orig = None THEN None ELSE post.kept.state
            BY <1>3, <2>1, <2>4 DEF Logo!StoreOriginal, Logo!Kept
        <3>3. post.kept.logo \in Logo!Files
            BY <1>0, <2>1 DEF FileIsSent, Logo!Posts, Logo!Kept
        <3>4. CASE post.kept.orig = None
            BY <3>1, <3>2, <3>3, <3>4 DEF Logo!Original, Drawn, Logo!Files
        <3>5. CASE post.kept.orig # None
            BY <3>1, <3>2, <3>5 DEF Logo!Original, Drawn
        <3>6. QED
            BY <3>4, <3>5
    <2>5. saved'.calm = post.calm
        BY <1>3, <2>1 DEF Logo!StoreOriginal
    <2>6. CanBeEditedAgain'
        BY <2>2, <2>4, <2>5 DEF CanBeEditedAgain, Logo!CanBeEditedAgain
    <2>7. QED
        BY <2>3, <2>6 DEF FormInv
<1>4. CASE Logo!Answer
    BY <1>0, <1>4
    DEF Logo!Answer, FormInv, FileIsSent, CalmIsDrawn, LogoIsSaved, CanBeEditedAgain, Logo!CanBeEditedAgain
<1>5. CASE Logo!Elsewhere
    <2>1. UNCHANGED post /\ (post # None /\ post.at = "logo" => mixed')
        BY <1>5 DEF Logo!Elsewhere
    <2>2. PICK k \in {Logo!Nothing} \cup Logo!Logos : saved' = [kept |-> k, calm |-> TRUE]
        BY <1>5 DEF Logo!Elsewhere
    <2>3. k.orig # None => k.logo = [pic |-> k.orig, view |-> k.state]
        BY <2>2 DEF Logo!Nothing, Logo!Logos
    <2>4. CanBeEditedAgain'
        BY <2>2, <2>3 DEF CanBeEditedAgain, Logo!CanBeEditedAgain
    <2>5. QED
        BY <1>0, <2>1, <2>4 DEF FormInv, FileIsSent, CalmIsDrawn, LogoIsSaved
<1>6. CASE Logo!Crash
    BY <1>0, <1>6
    DEF Logo!Crash, FormInv, FileIsSent, CalmIsDrawn, LogoIsSaved, CanBeEditedAgain, Logo!CanBeEditedAgain
<1>7. CASE UNCHANGED Logo!server
    BY <1>0, <1>7
    DEF FormInv, FileIsSent, CalmIsDrawn, LogoIsSaved, CanBeEditedAgain, Logo!CanBeEditedAgain
<1>8. UNCHANGED Logo!server \/ Logo!Submit \/ Logo!StoreLogo \/ Logo!StoreOriginal
                             \/ Logo!Answer \/ Logo!Elsewhere \/ Logo!Crash
    BY DEF Logo!Next, Logo!vars, Logo!Choose, Logo!ChooseNone, Logo!Again, Logo!Loaded, Logo!NotLoaded,
           Logo!Adjust, Logo!Fire, Logo!Tick, Logo!Encoded, Logo!NotEncoded
<1>9. QED
    BY <1>1, <1>2, <1>3, <1>4, <1>5, <1>6, <1>7, <1>8

LEMMA LogoKeepsInv == LogoInv /\ [Logo!Next]_(Logo!vars) => LogoInv'
BY LogoTypes, EditorNext, FormNext DEF LogoInv, FormInv

(* The invariant of the logo editor and its form. *)
THEOREM AlwaysFilled == Logo!Spec => []LogoInv
BY LogoFirst, LogoKeepsInv, PTL DEF Logo!Spec

(* Once nothing is under way the form would send what is shown, in whatever order *)
(* pictures were chosen, loaded, moved and encoded (logo_editor.js).              *)
THEOREM FormShowsCanvas == Logo!Spec => []SendsWhatIsShown
<1>1. LogoInv => SendsWhatIsShown
    BY DEF LogoInv, EditorInv, AboutToFill, SendsWhatIsShown, Logo!SendsWhatIsShown, Logo!Quiet
<1>2. QED
    BY <1>1, AlwaysFilled, PTL

(* A logo saved from a form at rest is its original drawn with its settings, *)
(* however saves, refusals and crashes of the server follow each other.      *)
THEOREM LogoStaysEditable == Logo!Spec => []CanBeEditedAgain
<1>1. LogoInv => CanBeEditedAgain
    BY DEF LogoInv, FormInv
<1>2. QED
    BY <1>1, AlwaysFilled, PTL

-----------------------------------------------------------------------------
(* The three side by side: a step of one leaves the others alone. *)
LEMMA SideBySideFirst == PartInit => IInv /\ LiveInv /\ LogoInv
BY InvariantFirst, LiveFirst, LogoFirst DEF PartInit

LEMMA SideBySideNext ==
    IInv /\ LiveInv /\ LogoInv /\ [PartNext]_allVars => IInv' /\ LiveInv' /\ LogoInv'
<1> SUFFICES ASSUME IInv, LiveInv, LogoInv, [PartNext]_allVars PROVE IInv' /\ LiveInv' /\ LogoInv'
    OBVIOUS
<1>1. [Next]_vars
    BY DEF PartNext, LiveNext, LogoNext, RichNext, allVars
<1>2. [Live!Next]_(Live!vars)
    <2>1. UNCHANGED liveVars => UNCHANGED Live!vars
        BY DEF liveVars, Live!vars, Live!server, Live!sessions, Live!script, Live!person, Live!view, Live!requests
    <2>2. QED
        BY <2>1 DEF PartNext, LiveNext, LogoNext, RichNext, allVars
<1>3. [Logo!Next]_(Logo!vars)
    <2>1. UNCHANGED logoVars => UNCHANGED Logo!vars
        BY DEF logoVars, Logo!vars, Logo!editor, Logo!server
    <2>2. QED
        BY <2>1 DEF PartNext, LiveNext, LogoNext, RichNext, allVars
<1>4. QED
    BY <1>1, <1>2, <1>3, InvariantNext, LiveKeepsInv, LogoKeepsInv

(* The scripts of the pages, the forms they send and what the server keeps of *)
(* them are always of the kinds the models give them.                         *)
THEOREM PartsAreWhole == PartSpec => []TypesOK
<1>1. IInv /\ LiveInv /\ LogoInv => TypesOK
    BY DEF IInv, LiveInv, LogoInv, TypesOK
<1>2. QED
    BY <1>1, SideBySideFirst, SideBySideNext, PTL DEF PartSpec
=============================================================================
