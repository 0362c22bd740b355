----------------------------- MODULE RichEditor -----------------------------
(***************************************************************************)
(* The editor of the public About page (rich_editor.js), the form it is    *)
(* in, and the photos the server keeps for the page.                       *)
(*                                                                         *)
(* A photo is uploaded as soon as it is chosen, and put into the text when *)
(* the answer comes; it is public once a text that shows it is saved.      *)
(* Saving a text deletes the photos that are not in it, row by row and     *)
(* file by file, while other requests are carried out beside it.           *)
(*                                                                         *)
(* A text is the set of its pieces, words and photos; what is selected is  *)
(* a part of them.  Formatting is left out, as are undone steps other than *)
(* those that bring a piece back, and the line below the text.             *)
(***************************************************************************)
EXTENDS Naturals, FiniteSets

CONSTANTS
    Tabs,          \* in which the editor is open
    Words,
    Photos,        \* the names of uploads; none is ever drawn twice
    None,
    MaxText,       \* kAboutMaxChars, in pieces
    MaxTurns,      \* bound: what people do
    MaxTroubles    \* bound: crashes and connections that fail

Pieces == Words \cup Photos

VARIABLES
    text,       \* per tab: the area
    selected,   \* saved: what is selected in it, None before it is first clicked
    past,       \* per tab: all that has been in the area, for undo
    clipboard,
    uploads,    \* on their way, with the editor that waits for the answer
    drawn,      \* names that have been given
    save,       \* per tab: the form, sent
    published,  \* about_markdown
    rows,       \* about_photos
    files,      \* data/uploads
    sweeping,   \* what the daily sweep is about to remove
    torn,       \* history: photos deleted while something still held them
    fresh, cut, \* history: rows since a save last listed them; a save was cut short
    turns, troubles

editor == <<text, selected, past, clipboard>>
requests == <<uploads, drawn, save>>
store == <<published, rows, files, sweeping>>
history == <<torn, fresh, cut>>
vars == <<editor, requests, store, history, turns, troubles>>

Uploads == [pic : Photos, tab : Tabs, live : BOOLEAN, at : {"sent", "file", "row"}]
Saves == [text : SUBSET Pieces, at : {"sent", "stored", "listed", "done"},
          gone : SUBSET Photos, file : Photos \cup {None}]

ASSUME RichEditorAssumption ==
    /\ Tabs # {} /\ Words \cap Photos = {}
    /\ None \notin Photos /\ None \notin Saves /\ \A s \in SUBSET Pieces : s # None
    /\ MaxTurns \in Nat /\ MaxTroubles \in Nat

TypeOK ==
    /\ text \in [Tabs -> SUBSET Pieces] /\ past \in [Tabs -> SUBSET Pieces]
    /\ selected \in [Tabs -> (SUBSET Pieces) \cup {None}]
    /\ \A t \in Tabs : text[t] \subseteq past[t] /\ (selected[t] # None => selected[t] \subseteq text[t])
    /\ clipboard \subseteq Pieces
    /\ uploads \subseteq Uploads /\ drawn \subseteq Photos
    /\ save \in [Tabs -> Saves \cup {None}]
    /\ published \subseteq Pieces /\ rows \subseteq drawn /\ files \subseteq drawn /\ sweeping \subseteq drawn
    /\ torn \subseteq Photos /\ fresh \subseteq Photos /\ cut \in BOOLEAN
    /\ turns \in 0..MaxTurns /\ troubles \in 0..MaxTroubles

(* The editor is opened on a text that has been published. *)
Init ==
    /\ published \in {p \in SUBSET Pieces : Cardinality(p) <= MaxText}
    /\ rows = published \cap Photos /\ files = rows /\ drawn = rows /\ sweeping = {}
    /\ text = [t \in Tabs |-> published] /\ past = text
    /\ selected = [t \in Tabs |-> None] /\ clipboard = {}
    /\ uploads = {} /\ save = [t \in Tabs |-> None]
    /\ torn = {} /\ fresh = {} /\ cut = FALSE
    /\ turns = 0 /\ troubles = 0

-----------------------------------------------------------------------------
Turn == turns < MaxTurns /\ turns' = turns + 1 /\ UNCHANGED troubles
Trouble == troubles < MaxTroubles /\ troubles' = troubles + 1 /\ UNCHANGED turns

(* The editor.  What is put in replaces what is selected. *)
Selected(t) == IF selected[t] = None THEN {} ELSE selected[t]
\* Mutant of Becomes: the range is a copy that does not follow the text.
BecomesUnfollowed(t, new, sel) ==
    /\ text' = [text EXCEPT ![t] = new]
    /\ past' = [past EXCEPT ![t] = @ \cup new]
    /\ UNCHANGED selected

Becomes(t, new, sel) ==
    /\ text' = [text EXCEPT ![t] = new]
    /\ past' = [past EXCEPT ![t] = @ \cup new]
    /\ selected' = [selected EXCEPT ![t] = sel]
Put(t, pieces) ==
    Becomes(t, (text[t] \ Selected(t)) \cup pieces, IF selected[t] = None THEN None ELSE {})

(* keyup and mouseup: saveSel() *)
Select(t) ==
    /\ Turn
    /\ \E s \in SUBSET text[t] : s # selected[t] /\ selected' = [selected EXCEPT ![t] = s]
    /\ UNCHANGED <<text, past, clipboard, requests, store, history>>

Type(t) ==
    /\ Turn
    /\ \E w \in Words \ text[t] : Becomes(t, (text[t] \ Selected(t)) \cup {w}, {})
    /\ UNCHANGED <<clipboard, requests, store, history>>

(* addLink(): an address is put in if nothing is selected to be the link. *)
Link(t) ==
    /\ Turn
    /\ Selected(t) = {} /\ \E w \in Words \ text[t] : Put(t, {w})
    /\ UNCHANGED <<clipboard, requests, store, history>>

Remove(t) ==
    /\ Turn
    /\ Selected(t) # {} /\ Becomes(t, text[t] \ Selected(t), {})
    /\ UNCHANGED <<clipboard, requests, store, history>>

(* A photo may have been deleted by then, by the save of this very form. *)
Takes(t) ==
    /\ Selected(t) # {} /\ clipboard' = Selected(t)
    /\ torn' = torn \cup ((clipboard' \cap Photos) \ rows)
    /\ UNCHANGED <<requests, store, fresh, cut>>

Cut(t) ==
    /\ Turn
    /\ Takes(t) /\ Becomes(t, text[t] \ Selected(t), {})

Copy(t) ==
    /\ Turn
    /\ Takes(t) /\ UNCHANGED <<text, selected, past>>

(* pasteHtml(): pictures of the site are kept (clean). *)
Paste(t) ==
    /\ Turn
    /\ clipboard # {} /\ Put(t, clipboard)
    /\ UNCHANGED <<clipboard, requests, store, history>>

Undo(t) ==
    /\ Turn
    /\ \E p \in past[t] \ text[t] : Becomes(t, text[t] \cup {p}, selected[t])
    /\ UNCHANGED <<clipboard, requests, store, history>>

(* upload(): by the button, by pasting or by dropping a photo. *)
Upload(t) ==
    /\ Turn
    /\ \E p \in Photos \ drawn :
          /\ uploads' = uploads \cup {[pic |-> p, tab |-> t, live |-> TRUE, at |-> "sent"]}
          /\ drawn' = drawn \cup {p}
    /\ UNCHANGED <<editor, save, store, history>>

(* The answer: the photo goes where the selection is by now; nowhere if the *)
(* form has been replaced, since its area is not in the page any more.      *)
Uploaded(u) ==
    /\ u.at = "row" /\ uploads' = uploads \ {u}
    /\ IF u.live THEN Put(u.tab, {u.pic}) ELSE UNCHANGED <<text, past, selected>>
    /\ UNCHANGED <<clipboard, drawn, save, store, history, turns, troubles>>

(* The connection fails. *)
NotUploaded(u) ==
    /\ Trouble
    /\ u.live /\ uploads' = (uploads \ {u}) \cup {[u EXCEPT !.live = FALSE]}
    /\ UNCHANGED <<editor, drawn, save, store, history>>

(* The page is opened anew, or replaced by the answer to its form. *)
Shows(t, page) ==
    /\ text' = [text EXCEPT ![t] = page] /\ past' = [past EXCEPT ![t] = page]
    /\ selected' = [selected EXCEPT ![t] = None]
    /\ uploads' = {[u EXCEPT !.live = @ /\ u.tab # t] : u \in uploads}

Reopen(t) ==
    /\ Turn
    /\ save[t] = None /\ Shows(t, published)
    /\ UNCHANGED <<clipboard, drawn, save, store, history>>

(* htmx:configRequest: the form is sent with the area as it is. *)
Send(t) ==
    /\ Turn
    /\ save[t] = None
    /\ save' = [save EXCEPT ![t] = [text |-> text[t], at |-> "sent", gone |-> {}, file |-> None]]
    /\ UNCHANGED <<editor, uploads, drawn, store, history>>

-----------------------------------------------------------------------------
(* The server.  POST /settings/about/photo: PhotoStore::save, then the row. *)
SaveFile(u) ==
    /\ u.at = "sent" /\ uploads' = (uploads \ {u}) \cup {[u EXCEPT !.at = "file"]}
    /\ files' = files \cup {u.pic}
    /\ UNCHANGED <<editor, drawn, save, published, rows, sweeping, history, turns, troubles>>

InsertRow(u) ==
    /\ u.at = "file" /\ uploads' = (uploads \ {u}) \cup {[u EXCEPT !.at = "row"]}
    /\ rows' = rows \cup {u.pic} /\ fresh' = fresh \cup {u.pic}
    /\ UNCHANGED <<editor, drawn, save, published, files, sweeping, torn, cut, turns, troubles>>

(* POST /settings/about: a text that is too long is refused, and the form stays. *)
At(t, step) == save[t] # None /\ save[t].at = step

Refuse(t) ==
    /\ At(t, "sent") /\ Cardinality(save[t].text) > MaxText
    /\ save' = [save EXCEPT ![t] = None]
    /\ UNCHANGED <<editor, uploads, drawn, store, history, turns, troubles>>

Publish(t) ==
    /\ At(t, "sent") /\ Cardinality(save[t].text) <= MaxText
    /\ published' = save[t].text
    /\ save' = [save EXCEPT ![t].at = "stored"]
    /\ UNCHANGED <<editor, uploads, drawn, rows, files, sweeping, history, turns, troubles>>

\* Mutant of Gone: only what has been in this form's text is looked at.
GoneFromText(t) == (rows \cap past[t]) \ save[t].text

(* "Photos taken out of the text are deleted." *)
Gone(t) == rows \ save[t].text
List(t) ==
    /\ At(t, "stored")
    /\ save' = [save EXCEPT ![t].at = "listed", ![t].gone = Gone(t)]
    /\ fresh' = {} /\ cut' = FALSE
    /\ UNCHANGED <<editor, uploads, drawn, store, torn, turns, troubles>>

(* Who else has a photo: another tab, the clipboard, an upload not answered yet. *)
Held(t, p) ==
    \/ \E u \in Tabs \ {t} : p \in past[u] \/ (save[u] # None /\ p \in save[u].text)
    \/ p \in clipboard
    \/ \E u \in uploads : u.pic = p

DeleteRow(t) ==
    /\ At(t, "listed") /\ save[t].file = None
    /\ \E p \in save[t].gone :
          /\ rows' = rows \ {p}
          /\ save' = [save EXCEPT ![t].gone = @ \ {p}, ![t].file = p]
          /\ torn' = IF Held(t, p) THEN torn \cup {p} ELSE torn
    /\ UNCHANGED <<editor, uploads, drawn, published, files, sweeping, fresh, cut, turns, troubles>>

DeleteFile(t) ==
    /\ At(t, "listed") /\ save[t].file # None
    /\ files' = files \ {save[t].file}
    /\ save' = [save EXCEPT ![t].file = None]
    /\ UNCHANGED <<editor, uploads, drawn, published, rows, sweeping, history, turns, troubles>>

(* The answer has the form with the text as it is by now. *)
Render(t) ==
    /\ At(t, "listed") /\ save[t].gone = {} /\ save[t].file = None
    /\ save' = [save EXCEPT ![t].at = "done", ![t].text = published]
    /\ UNCHANGED <<editor, uploads, drawn, store, history, turns, troubles>>

Answer(t) ==
    /\ At(t, "done") /\ save' = [save EXCEPT ![t] = None]
    /\ Shows(t, save[t].text)
    /\ UNCHANGED <<clipboard, drawn, store, history, turns, troubles>>

(* Its answer is lost, or the server is stopped: the form stays, and what was *)
(* deleted can still be brought back in it.                                   *)
StillThere(t) == (past[t] \cap Photos) \ rows
AnswerLost(t) ==
    /\ Trouble
    /\ At(t, "done") /\ save' = [save EXCEPT ![t] = None]
    /\ torn' = torn \cup StillThere(t)
    /\ UNCHANGED <<editor, uploads, drawn, store, fresh, cut>>

Crash ==
    /\ Trouble
    /\ uploads' = {} /\ sweeping' = {} /\ save' = [t \in Tabs |-> None]
    /\ torn' = torn \cup UNION {StillThere(t) : t \in {u \in Tabs : save[u] # None}}
    /\ cut' = (cut \/ \E t \in Tabs : At(t, "stored") \/ At(t, "listed"))
    /\ UNCHANGED <<editor, drawn, published, rows, files, fresh>>

(* The daily sweep: files that have no row and are an hour old, which those of *)
(* uploads under way are not.                                                  *)
\* Mutant of Old: the age of a file is not asked for.
OldOrNew == files

Old == {p \in files : \A u \in uploads : u.pic # p}
SweepList ==
    /\ sweeping = {} /\ sweeping' = Old \ rows
    /\ UNCHANGED <<editor, requests, published, rows, files, history, turns, troubles>>

SweepFile ==
    /\ \E p \in sweeping : files' = files \ {p} /\ sweeping' = sweeping \ {p}
    /\ UNCHANGED <<editor, requests, published, rows, history, turns, troubles>>

-----------------------------------------------------------------------------
Person(t) ==
    \/ Select(t) \/ Type(t) \/ Link(t) \/ Remove(t) \/ Cut(t) \/ Copy(t) \/ Paste(t) \/ Undo(t)
    \/ Upload(t) \/ Reopen(t) \/ Send(t)
Saving(t) ==
    \/ Refuse(t) \/ Publish(t) \/ List(t) \/ DeleteRow(t) \/ DeleteFile(t)
    \/ Render(t) \/ Answer(t) \/ AnswerLost(t)

Next ==
    \/ \E t \in Tabs : Person(t) \/ Saving(t)
    \/ \E u \in uploads : SaveFile(u) \/ InsertRow(u) \/ Uploaded(u) \/ NotUploaded(u)
    \/ Crash \/ SweepList \/ SweepFile

Spec == Init /\ [][Next]_vars

-----------------------------------------------------------------------------
(* Properties *)

(* A photo of the public page is there, its row and its file, whatever order  *)
(* uploads, saves and the sweep are carried out in.  The exceptions are those *)
(* that torn names: deleted by one save while another tab, the clipboard, an  *)
(* upload not answered yet or a form whose answer was lost still had it, or   *)
(* copied from the very form whose save had deleted it.                       *)
PublishedPhotosExist == published \cap Photos \subseteq (rows \cap files) \cup torn

(* "Photos taken out of the text are deleted" (FanCoLabRoutes.cpp:612): once no *)
(* save is under way, the photos that are kept are those of the page and those  *)
(* uploaded since the last one; and what is in the table is in the folder.      *)
NothingLeftOver ==
    /\ rows \subseteq files
    /\ ~cut /\ (\A t \in Tabs : ~At(t, "stored") /\ ~At(t, "listed"))
          => rows \subseteq published \cup fresh
=============================================================================
