----------------------------- MODULE LivePages ------------------------------
(***************************************************************************)
(* Live updates: the hub that tells open pages what has changed (LiveHub), *)
(* and the script in each of them that fetches the page again (live.js).   *)
(*                                                                         *)
(* Only the topics of changes go over a page's websocket.  The page waits  *)
(* for a burst to end, and then asks for its contents at its own address,  *)
(* unless somebody is working on it: then it offers a button, the pill.    *)
(* Its requests are made by htmx for the body of the document, one at a    *)
(* time and with the last one that has to wait kept (htmx 1.9.12); those   *)
(* of links are made beside them.                                          *)
(*                                                                         *)
(* What a page shows is, per topic, the number of changes it has seen.  No *)
(* template narrows what its page listens to with data-live; but the table *)
(* of members has a hook that answers for the whole page, reloads its rows *)
(* for a few topics, and drops the changes of all others: with no request  *)
(* and no pill, even when they add or remove columns of that very page.    *)
(* Delays are left out: a timer fires at some time.                        *)
(***************************************************************************)
EXTENDS Naturals, FiniteSets

CONSTANTS
    Tabs,
    Topics,
    StaffTopics,   \* those that plain members never see on any page
    Pages,
    Tables,        \* the pages with a hook: they reload rows instead,
    HookTopics,    \* and only when one of these has changed
    Tokens,        \* session tokens; none is ever drawn twice
    All,           \* the message "reload everything"
    None,
    MaxTopics,     \* kMaxTopics
    MaxChanges,    \* bound: changes
    MaxFaults,     \* bound: requests and connections that fail
    Scenarios      \* bound: which of these things happen in one behaviour

Happenings == {"staff", "sessions", "returns", "faults", "links", "popups", "work", "hiding"}

VARIABLES
    data,      \* per topic: the changes made so far
    pending,   \* pending_: what has changed, and the tab that did it
    hub,       \* run(): what the hub's thread is doing
    conn,      \* conns_: the session of each tab's connection, or None
    wire,      \* what has been sent to a tab and is on its way
    valid, token, spent,          \* sessions: alive, each tab's cookie, all drawn
    linked, lost, queue, timer,   \* live.js: the connection, and changes to be applied
    hidden, hands, modal,         \* what the person does: see Init
    address, shown, pill,         \* what they see
    body, next, link, rows, save, \* requests on their way
    missed,    \* history: what is shown may be old and the script cannot know
    faults, may

server == <<data, pending, hub, conn, wire>>
sessions == <<valid, token, spent>>
script == <<linked, lost, queue, timer>>
person == <<hidden, hands, modal>>
view == <<address, shown, pill>>
requests == <<body, next, link, rows, save>>
vars == <<server, sessions, script, person, view, requests, missed, faults, may>>

Areas == {"main", "modal"}
Changes == [Topics -> 0..MaxChanges]
Waiting == [at |-> "wait", batch |-> {}, ended |-> [t \in Tabs |-> None]]
Free == [area \in Areas |-> {}]

(* A request for the contents of an area: seen is what the server's answer shows,  *)
(* old is history: since that answer the script has acted on changes it was told of. *)
Request == [area : Areas, by : {"update", "click", "reload", "link"}, page : Pages,
            seen : Changes \cup {None}, old : BOOLEAN]

TypeOK ==
    /\ data \in Changes
    /\ pending \subseteq Topics \X (Tabs \cup {None})
    /\ hub \in [at : {"wait", "send", "close"}, batch : SUBSET (Topics \X (Tabs \cup {None})),
                ended : [Tabs -> Tokens \cup {None}]]
    /\ conn \in [Tabs -> Tokens \cup {None}]
    /\ wire \in [Tabs -> SUBSET (Topics \cup {All})]
    /\ valid \subseteq spent /\ spent \subseteq Tokens /\ token \in [Tabs -> spent]
    /\ linked \in [Tabs -> BOOLEAN] /\ lost \in [Tabs -> BOOLEAN] /\ timer \in [Tabs -> BOOLEAN]
    /\ queue \in [Tabs -> SUBSET (Topics \cup {All})]
    /\ hidden \in [Tabs -> BOOLEAN] /\ modal \in [Tabs -> BOOLEAN]
    /\ hands \in [Tabs -> [Areas -> SUBSET {"typing", "opened"}]]
    /\ address \in [Tabs -> Pages] /\ pill \in [Tabs -> BOOLEAN]
    /\ shown \in [Tabs -> [page : Pages, seen : Changes]]
    /\ body \in [Tabs -> Request \cup {None}] /\ next \in [Tabs -> Request \cup {None}]
    /\ link \in [Tabs -> Request \cup {None}] /\ rows \in [Tabs -> BOOLEAN]
    /\ save \in [Tabs -> Topics \cup {"answered", None}]
    /\ missed \in [Tabs -> BOOLEAN] /\ faults \in 0..MaxFaults /\ may \in Scenarios

Init ==
    /\ data = [k \in Topics |-> 0]
    /\ pending = {} /\ hub = Waiting
    /\ conn = [t \in Tabs |-> None] /\ wire = [t \in Tabs |-> {}]
    /\ token \in [Tabs -> Tokens] /\ spent = {token[t] : t \in Tabs} /\ valid = spent
    /\ linked = [t \in Tabs |-> FALSE] /\ lost = [t \in Tabs |-> FALSE]
    /\ queue = [t \in Tabs |-> {}] /\ timer = [t \in Tabs |-> FALSE]
    /\ hidden = [t \in Tabs |-> FALSE] /\ hands = [t \in Tabs |-> Free]
    /\ modal = [t \in Tabs |-> FALSE]
    /\ address \in [Tabs -> Pages]
    /\ shown = [t \in Tabs |-> [page |-> address[t], seen |-> data]]
    /\ pill = [t \in Tabs |-> FALSE]
    /\ body = [t \in Tabs |-> None] /\ next = [t \in Tabs |-> None]
    /\ link = [t \in Tabs |-> None] /\ rows = [t \in Tabs |-> FALSE]
    /\ save = [t \in Tabs |-> None]
    /\ missed = [t \in Tabs |-> FALSE] /\ faults = 0
    /\ may \in Scenarios

-----------------------------------------------------------------------------
(* The hub.  Whoever has changed something announces it (AuditService.log): *)
(* nobody is told while no page is connected.                               *)
Announce(k, by) ==
    /\ data' = [data EXCEPT ![k] = @ + 1]
    /\ pending' = IF \A t \in Tabs : conn[t] = None THEN pending ELSE pending \cup {<<k, by>>}

Made == {c \in Topics \X (1..MaxChanges) : c[2] <= data[c[1]]}
MayChange == Cardinality(Made) + Cardinality({t \in Tabs : save[t] \in Topics}) < MaxChanges

(* A page that has not been connected yet does not hear of it; and what a page *)
(* misses is not in the answers on their way to it either.                     *)
NotYet == {t \in Tabs : ~linked[t] /\ ~lost[t]}
Aged(r) == IF r # None /\ r.seen # None THEN [r EXCEPT !.old = TRUE] ELSE r
Misses(who) ==
    /\ missed' = [t \in Tabs |-> missed[t] \/ t \in who]
    /\ body' = [t \in Tabs |-> IF t \in who THEN Aged(body[t]) ELSE body[t]]
    /\ link' = [t \in Tabs |-> IF t \in who THEN Aged(link[t]) ELSE link[t]]

(* Something changes by no tab's doing: Discord, the sync, another device. *)
Elsewhere(k) ==
    /\ MayChange
    /\ Announce(k, None)
    /\ Misses(NotYet)
    /\ UNCHANGED <<hub, conn, wire, sessions, script, person, view, next, rows, save, faults, may>>

\* Mutant of Take: a change is sent with the one that follows it.
TakeTwo ==
    /\ hub.at = "wait" /\ Cardinality(pending) > 1
    /\ hub' = [Waiting EXCEPT !.at = "send", !.batch = pending]
    /\ pending' = {}
    /\ UNCHANGED <<data, conn, wire, sessions, script, person, view, requests, missed, faults, may>>

(* run(): a burst is gathered, *)
Take ==
    /\ hub.at = "wait" /\ pending # {}
    /\ hub' = [Waiting EXCEPT !.at = "send", !.batch = pending]
    /\ pending' = {}
    /\ UNCHANGED <<data, conn, wire, sessions, script, person, view, requests, missed, faults, may>>

(* and sent, to each connection what its viewer may see and did not do. *)
InView == IF "staff" \in may THEN Topics ELSE Topics \ StaffTopics
Told(t) == {k \in Topics : /\ \E by \in (Tabs \cup {None}) \ {t} : <<k, by>> \in hub.batch
                           /\ k \in InView}
Message(t) == IF Cardinality(Told(t)) > MaxTopics THEN {All} ELSE Told(t)

Send ==
    /\ hub.at = "send"
    /\ wire' = [t \in Tabs |-> IF conn[t] = None THEN wire[t] ELSE wire[t] \cup Message(t)]
    /\ hub' = Waiting
    /\ UNCHANGED <<data, pending, conn, sessions, script, person, view, requests, missed, faults, may>>

(* heartbeat(), when nothing has changed for a while: the sessions are checked *)
(* without the lock, *)
Beat ==
    /\ hub.at = "wait" /\ pending = {}
    /\ hub' = [Waiting EXCEPT !.at = "close",
                  !.ended = [t \in Tabs |-> IF conn[t] \in valid THEN None ELSE conn[t]]]
    /\ UNCHANGED <<data, pending, conn, wire, sessions, script, person, view, requests, missed, faults, may>>

\* Mutant of CloseEnded: whatever connection the tab has by now is closed.
CloseWhatIsThere ==
    /\ hub.at = "close"
    /\ conn' = [t \in Tabs |-> IF hub.ended[t] # None THEN None ELSE conn[t]]
    /\ hub' = Waiting
    /\ UNCHANGED <<data, pending, wire, sessions, script, person, view, requests, missed, faults, may>>

(* and a connection is closed if it is still that session's. *)
CloseEnded ==
    /\ hub.at = "close"
    /\ conn' = [t \in Tabs |-> IF conn[t] = hub.ended[t] THEN None ELSE conn[t]]
    /\ hub' = Waiting
    /\ UNCHANGED <<data, pending, wire, sessions, script, person, view, requests, missed, faults, may>>

(* Something fails, now and then. *)
Trouble == "faults" \in may /\ faults < MaxFaults /\ faults' = faults + 1

(* A connection breaks: the hub forgets it, and what was on its way is lost. *)
Break(t) ==
    /\ conn[t] # None /\ Trouble
    /\ conn' = [conn EXCEPT ![t] = None] /\ wire' = [wire EXCEPT ![t] = {}]
    /\ UNCHANGED <<data, pending, hub, sessions, script, person, view, requests, missed, may>>

-----------------------------------------------------------------------------
(* Sessions: ended anywhere, and begun in another tab of the same browser. *)
SignOut(t) ==
    /\ "sessions" \in may /\ token[t] \in valid
    /\ valid' = valid \ {token[t]}
    /\ UNCHANGED <<token, spent, server, script, person, view, requests, missed, faults, may>>

SignIn(t) ==
    /\ "returns" \in may /\ token[t] \notin valid
    /\ \E k \in Tokens \ spent : /\ token' = [token EXCEPT ![t] = k]
                                 /\ valid' = valid \cup {k} /\ spent' = spent \cup {k}
    /\ UNCHANGED <<server, script, person, view, requests, missed, faults, may>>

-----------------------------------------------------------------------------
(* live.js: queue().  A hidden page keeps the changes and starts no timer. *)
Queue(t, changes) ==
    /\ queue' = [queue EXCEPT ![t] = IF All \in @ \cup changes THEN {All} ELSE @ \cup changes]
    /\ timer' = [timer EXCEPT ![t] = @ \/ ~hidden[t]]

\* Mutant of Open: a connection that comes back is taken for the first.
OpenAsFirst(t) ==
    /\ ~linked[t] /\ token[t] \in valid
    /\ conn' = [conn EXCEPT ![t] = token[t]] /\ wire' = [wire EXCEPT ![t] = {}]
    /\ linked' = [linked EXCEPT ![t] = TRUE] /\ lost' = [lost EXCEPT ![t] = FALSE]
    /\ UNCHANGED <<queue, timer, data, pending, hub, sessions, person, view, requests, missed, faults, may>>

(* connect() and onopen: changes may have been missed if it was lost before. *)
Open(t) ==
    /\ ~linked[t] /\ token[t] \in valid
    /\ conn' = [conn EXCEPT ![t] = token[t]] /\ wire' = [wire EXCEPT ![t] = {}]
    /\ linked' = [linked EXCEPT ![t] = TRUE] /\ lost' = [lost EXCEPT ![t] = FALSE]
    /\ IF lost[t] THEN Queue(t, {All}) ELSE UNCHANGED <<queue, timer>>
    /\ UNCHANGED <<data, pending, hub, sessions, person, view, requests, missed, faults, may>>

(* onclose *)
Closed(t) ==
    /\ linked[t] /\ conn[t] = None /\ wire[t] = {}
    /\ linked' = [linked EXCEPT ![t] = FALSE] /\ lost' = [lost EXCEPT ![t] = TRUE]
    /\ UNCHANGED <<queue, timer, server, sessions, person, view, requests, missed, faults, may>>

(* onmessage *)
Hear(t) ==
    /\ linked[t] /\ wire[t] # {}
    /\ Queue(t, wire[t]) /\ wire' = [wire EXCEPT ![t] = {}]
    /\ UNCHANGED <<data, pending, hub, conn, linked, lost, sessions, person, view, requests, missed, faults, may>>

(* visibilitychange *)
Hide(t) ==
    /\ "hiding" \in may /\ ~hidden[t] /\ hidden' = [hidden EXCEPT ![t] = TRUE]
    /\ UNCHANGED <<hands, modal, server, sessions, script, view, requests, missed, faults, may>>

Show(t) ==
    /\ hidden[t] /\ hidden' = [hidden EXCEPT ![t] = FALSE]
    /\ timer' = [timer EXCEPT ![t] = @ \/ queue[t] # {}]
    /\ UNCHANGED <<hands, modal, server, sessions, linked, lost, queue, view, requests, missed, faults, may>>

(* htmx.ajax: a request for the body waits until the one before is over, and *)
(* another one that waits already is forgotten. *)
New(area, by, p) == [area |-> area, by |-> by, page |-> p, seen |-> None, old |-> FALSE]
AskNothing(t) == /\ body' = [body EXCEPT ![t] = Aged(@)] /\ link' = [link EXCEPT ![t] = Aged(@)]
                 /\ UNCHANGED next
Ask(t, area, by) ==
    IF body[t] # None
    THEN /\ body' = [body EXCEPT ![t] = Aged(@)] /\ link' = [link EXCEPT ![t] = Aged(@)]
         /\ next' = [next EXCEPT ![t] = New(area, by, address[t])]
    ELSE /\ body' = [body EXCEPT ![t] = New(area, by, address[t])]
         /\ link' = [link EXCEPT ![t] = Aged(@)] /\ UNCHANGED next

(* busy(): in the main area the mark of a running request is put elsewhere *)
(* (hx-indicator), and does not count. *)
Busy(t, area) == hands[t][area] # {} \/ (area = "modal" /\ save[t] # None)

(* What the hook of the table does with the changes: it says that it has handled *)
(* them all, whether or not there are rows to be reloaded for them. *)
Hook(t) ==
    /\ rows' = IF queue[t] \cap (HookTopics \cup {All}) # {} THEN [rows EXCEPT ![t] = TRUE] ELSE rows
    /\ AskNothing(t) /\ UNCHANGED pill

(* The timer: apply().  If there is a hook it is left to it; else the pop-up is *)
(* fetched again, and the page behind it gets the button, or the page is fetched. *)
Apply(t) ==
    /\ timer[t] /\ timer' = [timer EXCEPT ![t] = FALSE] /\ queue' = [queue EXCEPT ![t] = {}]
    /\ \/ /\ queue[t] = {}
          /\ UNCHANGED <<rows, body, next, link, pill>>
       \/ /\ queue[t] # {} /\ shown[t].page \in Tables
          /\ Hook(t)
       \/ /\ queue[t] # {} /\ shown[t].page \notin Tables /\ (modal[t] \/ Busy(t, "main"))
          /\ pill' = [pill EXCEPT ![t] = TRUE]
          /\ IF modal[t] /\ ~Busy(t, "modal") THEN Ask(t, "modal", "update") ELSE AskNothing(t)
          /\ UNCHANGED rows
       \/ /\ queue[t] # {} /\ shown[t].page \notin Tables /\ ~modal[t] /\ ~Busy(t, "main")
          /\ Ask(t, "main", "update")
          /\ UNCHANGED <<rows, pill>>
    /\ UNCHANGED <<server, sessions, linked, lost, person, address, shown, save, missed, faults, may>>

(* The button: what was opened in place is given up. *)
Refresh(t) ==
    /\ pill[t] /\ ~modal[t]
    /\ pill' = [pill EXCEPT ![t] = FALSE]
    /\ hands' = [hands EXCEPT ![t]["main"] = @ \ {"opened"}]
    /\ Ask(t, "main", "click")
    /\ UNCHANGED <<server, sessions, script, hidden, modal, address, shown, rows, save, missed, faults, may>>

-----------------------------------------------------------------------------
(* What the person does in the page, or in the pop-up over it. *)
Front(t) == IF modal[t] THEN "modal" ELSE "main"

(* They begin to type, or expand or filter something in place; or undo it. *)
Work(t, how) ==
    /\ "work" \in may /\ hands' = [hands EXCEPT ![t][Front(t)] = @ \cup {how}]
    /\ UNCHANGED <<hidden, modal, server, sessions, script, view, requests, missed, faults, may>>

StopTyping(t) ==
    /\ hands' = [hands EXCEPT ![t][Front(t)] = @ \ {"typing"}]
    /\ UNCHANGED <<hidden, modal, server, sessions, script, view, requests, missed, faults, may>>

OpenPopUp(t) ==
    /\ "popups" \in may /\ ~modal[t] /\ modal' = [modal EXCEPT ![t] = TRUE]
    /\ hands' = [hands EXCEPT ![t]["modal"] = {}]
    /\ UNCHANGED <<hidden, server, sessions, script, view, requests, missed, faults, may>>

ClosePopUp(t) ==
    /\ modal[t] /\ modal' = [modal EXCEPT ![t] = FALSE]
    /\ hands' = [hands EXCEPT ![t]["modal"] = {}]
    /\ UNCHANGED <<hidden, server, sessions, script, view, requests, missed, faults, may>>

(* They follow a link to a page, or save a form of the pop-up. *)
Follow(t, p) ==
    /\ "links" \in may /\ ~modal[t] /\ link[t] = None
    /\ link' = [link EXCEPT ![t] = New("main", "link", p)]
    /\ UNCHANGED <<body, next, rows, save, server, sessions, script, person, view, missed, faults, may>>

Submit(t, k) ==
    /\ modal[t] /\ save[t] = None /\ MayChange
    /\ save' = [save EXCEPT ![t] = k]
    /\ UNCHANGED <<body, next, link, rows, server, sessions, script, person, view, missed, faults, may>>

-----------------------------------------------------------------------------
(* Requests: the server answers one, and the answer arrives. *)
Serve(t, k) ==
    /\ save[t] = k /\ token[t] \in valid
    /\ Announce(k, t)
    /\ save' = [save EXCEPT ![t] = "answered"]
    /\ Misses(NotYet \ {t})
    /\ UNCHANGED <<hub, conn, wire, next, rows, sessions, script, person, view, faults, may>>

(* data-after-success: close-modal reload *)
Saved(t) ==
    /\ save[t] = "answered" /\ save' = [save EXCEPT ![t] = None]
    /\ modal' = [modal EXCEPT ![t] = FALSE] /\ hands' = [hands EXCEPT ![t]["modal"] = {}]
    /\ Ask(t, "main", "reload")
    /\ UNCHANGED <<rows, hidden, server, sessions, script, view, missed, faults, may>>

(* The answer is lost, or the server refuses. *)
NotSaved(t) ==
    /\ save[t] # None
    /\ \/ token[t] \notin valid /\ save[t] # "answered" /\ Misses({}) /\ UNCHANGED faults
       \/ Trouble /\ Misses(IF save[t] = "answered" THEN {t} ELSE {})
    /\ save' = [save EXCEPT ![t] = None]
    /\ UNCHANGED <<next, rows, server, sessions, script, person, view, may>>

Answered(r) == [r EXCEPT !.seen = data]
AnswerBody(t) ==
    /\ body[t] # None /\ body[t].seen = None /\ token[t] \in valid
    /\ body' = [body EXCEPT ![t] = Answered(@)]
    /\ UNCHANGED <<next, link, rows, save, server, sessions, script, person, view, missed, faults, may>>

AnswerLink(t) ==
    /\ link[t] # None /\ link[t].seen = None /\ token[t] \in valid
    /\ link' = [link EXCEPT ![t] = Answered(@)]
    /\ UNCHANGED <<body, next, rows, save, server, sessions, script, person, view, missed, faults, may>>

(* The contents of the main area are replaced, and the button goes (afterSettle): *)
(* whatever it was shown for, whether or not this answer tells of it. *)
Settle(t, r) ==
    /\ shown' = [shown EXCEPT ![t] = [page |-> r.page, seen |-> r.seen]]
    /\ pill' = [pill EXCEPT ![t] = FALSE]
    /\ missed' = [missed EXCEPT ![t] = r.seen # data /\ (@ \/ r.old)]
    /\ hands' = [hands EXCEPT ![t]["main"] =
                    IF r.by \in {"update", "click"} THEN @ \ {"typing"} ELSE {}]

SettleMain(t) ==
    /\ body[t] # None /\ body[t].area = "main" /\ body[t].seen # None
    /\ Settle(t, body[t])
    /\ body' = [body EXCEPT ![t] = next[t]] /\ next' = [next EXCEPT ![t] = None]
    /\ UNCHANGED <<link, rows, save, hidden, modal, address, server, sessions, script, faults, may>>

(* layout.html opens the pop-up whenever something is swapped into it. *)
SettlePopUp(t) ==
    /\ body[t] # None /\ body[t].area = "modal" /\ body[t].seen # None
    /\ modal' = [modal EXCEPT ![t] = TRUE]
    /\ hands' = [hands EXCEPT ![t]["modal"] = @ \ {"typing"}]
    /\ body' = [body EXCEPT ![t] = next[t]] /\ next' = [next EXCEPT ![t] = None]
    /\ UNCHANGED <<link, rows, save, hidden, view, server, sessions, script, missed, faults, may>>

SettleLink(t) ==
    /\ link[t] # None /\ link[t].seen # None
    /\ Settle(t, link[t]) /\ address' = [address EXCEPT ![t] = link[t].page]
    /\ link' = [link EXCEPT ![t] = None]
    /\ UNCHANGED <<body, next, rows, save, hidden, modal, server, sessions, script, faults, may>>

(* A request fails, which nothing repeats. *)
Fails(t) == \/ token[t] \notin valid /\ UNCHANGED faults
            \/ Trouble
FailBody(t) ==
    /\ body[t] # None /\ Fails(t)
    /\ missed' = [missed EXCEPT ![t] = @ \/ body[t].area = "main"]
    /\ body' = [body EXCEPT ![t] = next[t]] /\ next' = [next EXCEPT ![t] = None]
    /\ UNCHANGED <<link, rows, save, server, sessions, script, person, view, may>>

FailLink(t) ==
    /\ link[t] # None /\ Fails(t) /\ link' = [link EXCEPT ![t] = None]
    /\ UNCHANGED <<body, next, rows, save, server, sessions, script, person, view, missed, may>>

(* The rows of a table: DataTables takes the answer to its last request only. *)
(* The rest of the page stays as it is. *)
InRows(seen) == [k \in Topics |-> IF k \in HookTopics THEN data[k] ELSE seen[k]]
Rows(t) ==
    /\ rows[t] /\ rows' = [rows EXCEPT ![t] = FALSE]
    /\ \/ /\ token[t] \in valid
          /\ shown' = [shown EXCEPT ![t].seen = IF shown[t].page \in Tables THEN InRows(@) ELSE @]
          /\ UNCHANGED <<missed, faults, may>>
       \/ /\ Fails(t) /\ missed' = [missed EXCEPT ![t] = TRUE] /\ UNCHANGED shown
    /\ UNCHANGED <<body, next, link, save, address, pill, server, sessions, script, person, may>>

-----------------------------------------------------------------------------
Hub == Take \/ Send \/ Beat \/ CloseEnded
Script(t) == Open(t) \/ Closed(t) \/ Hear(t) \/ Apply(t)
Net(t) ==
    \/ \E k \in Topics : Serve(t, k)
    \/ Saved(t) \/ NotSaved(t)
    \/ AnswerBody(t) \/ SettleMain(t) \/ SettlePopUp(t) \/ FailBody(t)
    \/ AnswerLink(t) \/ SettleLink(t) \/ FailLink(t)
    \/ Rows(t)
Person(t) ==
    \/ Hide(t) \/ Show(t) \/ Refresh(t) \/ StopTyping(t) \/ OpenPopUp(t) \/ ClosePopUp(t)
    \/ \E how \in {"typing", "opened"} : Work(t, how)
    \/ \E p \in Pages : Follow(t, p)
    \/ \E k \in Topics : Submit(t, k)

Next ==
    \/ Hub
    \/ \E k \in Topics : Elsewhere(k)
    \/ \E t \in Tabs : \/ Script(t) \/ Net(t) \/ Person(t)
                       \/ Break(t) \/ SignOut(t) \/ SignIn(t)

(* The threads of the server and the events of the browser are carried out; *)
(* people need do nothing, and nothing has to fail. *)
Fairness ==
    /\ WF_vars(Take) /\ WF_vars(Send) /\ WF_vars(Beat) /\ WF_vars(CloseEnded)
    /\ \A t \in Tabs :
          /\ WF_vars(Open(t)) /\ WF_vars(Closed(t)) /\ WF_vars(Hear(t)) /\ WF_vars(Apply(t))
          /\ WF_vars(Net(t))

Spec == Init /\ [][Next]_vars /\ Fairness

-----------------------------------------------------------------------------
(* Properties *)

(* What a page undertakes to keep up with: a table not what its hook leaves out. *)
Listens(t, k) == shown[t].page \in Tables => k \in HookTopics
Owes(t, k) == Listens(t, k) /\ shown[t].seen[k] # data[k]

(* A change of k that the script will hear of, or knows it may not have heard of. *)
Notice(t, k) ==
    \/ \E by \in (Tabs \cup {None}) \ {t} : <<k, by>> \in pending \cup hub.batch
    \/ {k, All} \cap (wire[t] \cup queue[t]) # {}
    \/ linked[t] /\ conn[t] = None
    \/ lost[t]

(* A request whose answer shows the change. *)
Brings(r, k) == r # None /\ r.area = "main" /\ (r.seen = None \/ r.seen[k] = data[k])

(* An open page that shows something old says so, or is told of it, or fetches it: *)
(* whatever the order of changes, clicks, connections and answers.  A table owes   *)
(* this for the topics of its hook, any other page for all.  The exceptions        *)
(* are those that missed names: a change before the page was first connected, a    *)
(* request that failed, and an answer that arrives after the script has acted on   *)
(* a change made since.                                                            *)
NothingLost ==
    \A t \in Tabs : \A k \in InView : Owes(t, k) =>
        \/ pill[t] \/ missed[t]
        \/ Notice(t, k)
        \/ Brings(body[t], k) \/ Brings(next[t], k) \/ Brings(link[t], k)
        \/ rows[t] /\ shown[t].page \in Tables
        \/ save[t] = "answered"

(* Once nothing changes any more, every visible page of somebody signed in shows *)
(* what is so, or the button (README: pages update by themselves); a table of    *)
(* what its hook listens to.                                                     *)
KeepsUp ==
    \A t \in Tabs : []<>(\/ \A k \in InView : ~Owes(t, k)
                         \/ pill[t] \/ missed[t] \/ hidden[t] \/ token[t] \notin valid)

(* The heartbeat closes connections whose session has ended (LiveHub.cpp), and no *)
(* other: not even one that has taken the place of the one it looked at.          *)
OnlyEndedClosed ==
    [][hub.at = "close" /\ hub'.at = "wait" =>
        \A t \in Tabs : conn'[t] # conn[t] => conn[t] \notin valid]_vars
=============================================================================
