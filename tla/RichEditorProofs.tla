-------------------------- MODULE RichEditorProofs --------------------------
(***************************************************************************)
(* The photos of the About page, for any tabs, words and photos, any       *)
(* number of saves and uploads at once, and any bounds.                    *)
(***************************************************************************)
EXTENDS RichEditor, TLAPS

(* A name the rest of the system speaks of; one that may be spoken of, since *)
(* the upload it was drawn for has its row, if it is still on its way.       *)
Mentioned(p) ==
    \/ p \in published \cup clipboard \cup rows \cup sweeping
    \/ \E t \in Tabs :
          \/ p \in past[t]
          \/ save[t] # None /\ (p \in save[t].text \cup save[t].gone \/ p = save[t].file)
Known(p) == p \in drawn /\ \A u \in uploads : u.pic = p => u.at = "row"

Names ==
    /\ \A u \in uploads : u.pic \in drawn
    /\ \A u, w \in uploads : u.pic = w.pic => u = w
    /\ \A p \in Photos : Mentioned(p) => Known(p)

(* Every row has its file, and nobody is about to remove that file. *)
Folder ==
    /\ rows \subseteq files
    /\ sweeping \cap rows = {}
    /\ \A t \in Tabs : save[t] # None => save[t].file \notin rows
    /\ \A u \in uploads : u.at = "file" => u.pic \in files

(* Whatever may come to be published has its row, or is torn.  A form whose save *)
(* has begun to delete does not matter: its answer will replace it.              *)
Kept == rows \cup torn
Unhurt(t) == save[t] = None \/ At(t, "sent") \/ At(t, "stored")
Claims ==
    /\ published \cap Photos \subseteq Kept /\ clipboard \cap Photos \subseteq Kept
    /\ \A u \in uploads : u.at = "row" => u.pic \in Kept
    /\ \A t \in Tabs : save[t] # None => save[t].text \cap Photos \subseteq Kept
    /\ \A t \in Tabs : Unhurt(t) => past[t] \cap Photos \subseteq Kept

(* What a save deletes is not in its text, which was in its form. *)
Forms ==
    \A t \in Tabs : save[t] # None =>
        /\ save[t].at = "listed" => save[t].gone \cap save[t].text = {}
        /\ save[t].at # "done" => save[t].text \subseteq past[t]

(* The page is that of some form, which still has all of it. *)
Owner(t) ==
    /\ published \subseteq past[t]
    /\ save[t] # None /\ save[t].at # "sent" => published = save[t].text
Owned == \E t \in Tabs : Owner(t)

(* The save of the page itself has still to list the rows; or what it has listed, *)
(* and what other saves have, is all that is too much.                            *)
Pending == \E t \in Tabs : At(t, "stored") /\ save[t].text = published
Going(p) == \E t \in Tabs : At(t, "listed") /\ p \in save[t].gone
Settled ==
    /\ \A p \in rows \ fresh : p \in published \/ Going(p)
    /\ \A t \in Tabs : At(t, "stored") => save[t].text \cap fresh = {}
Leftovers ==
    /\ ~cut => Pending \/ Settled
    /\ cut /\ (\E t \in Tabs : At(t, "stored")) => Pending

IInv == TypeOK /\ Names /\ Folder /\ Claims /\ Forms /\ Owned /\ Leftovers

-----------------------------------------------------------------------------
(* What the operators of the module do. *)

EditorOK ==
    /\ text \in [Tabs -> SUBSET Pieces] /\ past \in [Tabs -> SUBSET Pieces]
    /\ selected \in [Tabs -> (SUBSET Pieces) \cup {None}]
    /\ \A t \in Tabs : text[t] \subseteq past[t] /\ (selected[t] # None => selected[t] \subseteq text[t])

(* An edit leaves the other tabs alone, and adds to what has been in the area. *)
LEMMA BecomesWhat ==
    ASSUME EditorOK, NEW t \in Tabs, NEW new \in SUBSET Pieces, NEW sel \in (SUBSET new) \cup {None},
           Becomes(t, new, sel)
    PROVE  /\ EditorOK'
           /\ past'[t] = past[t] \cup new
           /\ \A v \in Tabs \ {t} : past'[v] = past[v]
<1>1. /\ text' \in [Tabs -> SUBSET Pieces] /\ past' \in [Tabs -> SUBSET Pieces]
      /\ selected' \in [Tabs -> (SUBSET Pieces) \cup {None}]
    BY DEF EditorOK, Becomes
<1>2. /\ text'[t] = new /\ past'[t] = past[t] \cup new /\ selected'[t] = sel
      /\ \A v \in Tabs \ {t} : text'[v] = text[v] /\ past'[v] = past[v] /\ selected'[v] = selected[v]
    BY DEF EditorOK, Becomes
<1>3. \A v \in Tabs : text'[v] \subseteq past'[v] /\ (selected'[v] # None => selected'[v] \subseteq text'[v])
    <2>1. sel # None => sel \subseteq new
        OBVIOUS
    <2> QED  BY <1>2, <2>1 DEF EditorOK
<1> QED  BY <1>1, <1>2, <1>3 DEF EditorOK

(* What is put in adds itself to it. *)
LEMMA PutWhat ==
    ASSUME EditorOK, NEW t \in Tabs, NEW pieces \in SUBSET Pieces, Put(t, pieces)
    PROVE  /\ EditorOK'
           /\ past'[t] = past[t] \cup pieces
           /\ \A v \in Tabs \ {t} : past'[v] = past[v]
<1> DEFINE new == (text[t] \ Selected(t)) \cup pieces
           sel == IF selected[t] = None THEN None ELSE {}
<1>1. text[t] \subseteq past[t] /\ text[t] \in SUBSET Pieces
    BY DEF EditorOK
<1>2. new \in SUBSET Pieces /\ past[t] \cup new = past[t] \cup pieces
    BY <1>1
<1>3. sel \in (SUBSET new) \cup {None}
    OBVIOUS
<1>4. Becomes(t, new, sel)
    BY DEF Put
<1> HIDE DEF new, sel
<1> QED  BY <1>2, <1>3, <1>4, BecomesWhat

(* A page that is shown: nothing else has been in its area, and uploads keep *)
(* their photo and how far they are.                                         *)
LEMMA ShowsWhat ==
    ASSUME EditorOK, uploads \subseteq Uploads, NEW t \in Tabs, NEW page \in SUBSET Pieces, Shows(t, page)
    PROVE  /\ EditorOK' /\ uploads' \subseteq Uploads
           /\ past'[t] = page
           /\ \A v \in Tabs \ {t} : past'[v] = past[v]
           /\ \A w \in uploads' : \E u \in uploads :
                 w.pic = u.pic /\ w.at = u.at /\ w = [u EXCEPT !.live = @ /\ u.tab # t]
<1>1. /\ text' \in [Tabs -> SUBSET Pieces] /\ past' \in [Tabs -> SUBSET Pieces]
      /\ selected' \in [Tabs -> (SUBSET Pieces) \cup {None}]
    BY DEF EditorOK, Shows
<1>2. /\ text'[t] = page /\ past'[t] = page /\ selected'[t] = None
      /\ \A v \in Tabs \ {t} : text'[v] = text[v] /\ past'[v] = past[v] /\ selected'[v] = selected[v]
    BY DEF EditorOK, Shows
<1>3. EditorOK'
    BY <1>1, <1>2 DEF EditorOK
<1>4. ASSUME NEW w \in uploads'
      PROVE  /\ w \in Uploads
             /\ \E u \in uploads : w.pic = u.pic /\ w.at = u.at /\ w = [u EXCEPT !.live = @ /\ u.tab # t]
    <2>1. PICK u \in uploads : w = [u EXCEPT !.live = @ /\ u.tab # t]
        BY DEF Shows
    <2>2. u \in Uploads
        OBVIOUS
    <2>3. (u.live /\ u.tab # t) \in BOOLEAN
        BY <2>2 DEF Uploads
    <2>4. w \in Uploads /\ w.pic = u.pic /\ w.at = u.at
        BY <2>1, <2>2, <2>3 DEF Uploads
    <2> QED  BY <2>1, <2>4
<1> QED  BY <1>2, <1>3, <1>4

(* A form's save takes a step. *)
LEMMA SavesWhat ==
    ASSUME TypeOK, NEW t \in Tabs, NEW s \in Saves \cup {None}, save' = [save EXCEPT ![t] = s]
    PROVE  /\ save' \in [Tabs -> Saves \cup {None}]
           /\ save'[t] = s /\ \A v \in Tabs \ {t} : save'[v] = save[v]
BY DEF TypeOK

(* An upload takes a step. *)
LEMMA UploadMoves ==
    ASSUME NEW u \in Uploads, NEW at \in {"sent", "file", "row"}
    PROVE  LET w == [u EXCEPT !.at = at] IN w \in Uploads /\ w.pic = u.pic /\ w.at = at
BY DEF Uploads


(* The steps of a save that has begun: each changes what it names and no more. *)
LEMMA PublishWhat ==
    ASSUME TypeOK, NEW t \in Tabs, Publish(t)
    PROVE  /\ save[t] \in Saves /\ save' \in [Tabs -> Saves \cup {None}] /\ save'[t] \in Saves
           /\ save'[t].text = save[t].text /\ save'[t].at = "stored"
           /\ save'[t].gone = save[t].gone /\ save'[t].file = save[t].file
           /\ \A v \in Tabs \ {t} : save'[v] = save[v]
<1> DEFINE s == [save[t] EXCEPT !.at = "stored"]
<1>1. save[t] \in Saves
    BY DEF TypeOK, At, Publish
<1>2. s \in Saves /\ s.text = save[t].text /\ s.at = "stored"
      /\ s.gone = save[t].gone /\ s.file = save[t].file
    BY <1>1 DEF Saves
<1>3. save' = [save EXCEPT ![t] = s]
    BY <1>1 DEF Publish, TypeOK
<1> HIDE DEF s
<1> QED  BY <1>1, <1>2, <1>3, SavesWhat

LEMMA ListWhat ==
    ASSUME TypeOK, NEW t \in Tabs, List(t)
    PROVE  /\ save[t] \in Saves /\ save' \in [Tabs -> Saves \cup {None}] /\ save'[t] \in Saves
           /\ save'[t].text = save[t].text /\ save'[t].at = "listed"
           /\ save'[t].gone = Gone(t) /\ save'[t].file = save[t].file
           /\ \A v \in Tabs \ {t} : save'[v] = save[v]
<1> DEFINE s == [save[t] EXCEPT !.at = "listed", !.gone = Gone(t)]
<1>1. save[t] \in Saves
    BY DEF TypeOK, At, List
<1>2. s \in Saves /\ s.text = save[t].text /\ s.at = "listed"
           /\ s.gone = Gone(t) /\ s.file = save[t].file
    <2>1. Gone(t) \in SUBSET Photos
        BY DEF Gone, TypeOK
    <2> QED  BY <1>1, <2>1 DEF Saves
<1>3. save' = [save EXCEPT ![t] = s]
    BY <1>1 DEF List, TypeOK
<1> HIDE DEF s
<1> QED  BY <1>1, <1>2, <1>3, SavesWhat

LEMMA DeleteFileWhat ==
    ASSUME TypeOK, NEW t \in Tabs, DeleteFile(t)
    PROVE  /\ save[t] \in Saves /\ save' \in [Tabs -> Saves \cup {None}] /\ save'[t] \in Saves
           /\ save'[t].text = save[t].text /\ save'[t].at = "listed"
           /\ save'[t].gone = save[t].gone /\ save'[t].file = None
           /\ \A v \in Tabs \ {t} : save'[v] = save[v]
<1> DEFINE s == [save[t] EXCEPT !.file = None]
<1>1. save[t] \in Saves
    BY DEF TypeOK, At, DeleteFile
<1>2. s \in Saves /\ s.text = save[t].text /\ s.at = "listed"
           /\ s.gone = save[t].gone /\ s.file = None
    <2>1. save[t].at = "listed"
        BY DEF DeleteFile, At
    <2> QED  BY <1>1, <2>1 DEF Saves
<1>3. save' = [save EXCEPT ![t] = s]
    BY <1>1 DEF DeleteFile, TypeOK
<1> HIDE DEF s
<1> QED  BY <1>1, <1>2, <1>3, SavesWhat

LEMMA RenderWhat ==
    ASSUME TypeOK, NEW t \in Tabs, Render(t)
    PROVE  /\ save[t] \in Saves /\ save' \in [Tabs -> Saves \cup {None}] /\ save'[t] \in Saves
           /\ save'[t].text = published /\ save'[t].at = "done"
           /\ save'[t].gone = save[t].gone /\ save'[t].file = save[t].file
           /\ \A v \in Tabs \ {t} : save'[v] = save[v]
<1> DEFINE s == [save[t] EXCEPT !.at = "done", !.text = published]
<1>1. save[t] \in Saves
    BY DEF TypeOK, At, Render
<1>2. s \in Saves /\ s.text = published /\ s.at = "done"
           /\ s.gone = save[t].gone /\ s.file = save[t].file
    <2>1. published \in SUBSET Pieces
        BY DEF TypeOK
    <2> QED  BY <1>1, <2>1 DEF Saves
<1>3. save' = [save EXCEPT ![t] = s]
    BY <1>1 DEF Render, TypeOK
<1> HIDE DEF s
<1> QED  BY <1>1, <1>2, <1>3, SavesWhat

LEMMA SendWhat ==
    ASSUME TypeOK, NEW t \in Tabs, Send(t)
    PROVE  /\ save[t] = None /\ save' \in [Tabs -> Saves \cup {None}] /\ save'[t] \in Saves
           /\ save'[t].text = text[t] /\ save'[t].at = "sent"
           /\ save'[t].gone = {} /\ save'[t].file = None
           /\ \A v \in Tabs \ {t} : save'[v] = save[v]
<1> DEFINE s == [text |-> text[t], at |-> "sent", gone |-> {}, file |-> None]
<1>1. s \in Saves /\ s.text = text[t] /\ s.at = "sent" /\ s.gone = {} /\ s.file = None
    <2>1. text[t] \in SUBSET Pieces
        BY DEF TypeOK
    <2> QED  BY <2>1 DEF Saves
<1>2. save[t] = None /\ save' = [save EXCEPT ![t] = s]
    BY DEF Send
<1> HIDE DEF s
<1> QED  BY <1>1, <1>2, SavesWhat

LEMMA DeleteRowWhat ==
    ASSUME TypeOK, NEW t \in Tabs, DeleteRow(t)
    PROVE  /\ save[t] \in Saves /\ save[t].at = "listed"
           /\ save' \in [Tabs -> Saves \cup {None}] /\ save'[t] \in Saves
           /\ save'[t].text = save[t].text /\ save'[t].at = "listed"
           /\ \E p \in save[t].gone :
                 /\ save'[t].gone = save[t].gone \ {p} /\ save'[t].file = p
                 /\ rows' = rows \ {p}
                 /\ torn' = IF Held(t, p) THEN torn \cup {p} ELSE torn
           /\ \A v \in Tabs \ {t} : save'[v] = save[v]
<1>1. save[t] \in Saves /\ save[t].at = "listed"
    BY DEF TypeOK, At, DeleteRow
<1>2. PICK p \in save[t].gone :
          /\ rows' = rows \ {p}
          /\ save' = [save EXCEPT ![t].gone = @ \ {p}, ![t].file = p]
          /\ torn' = IF Held(t, p) THEN torn \cup {p} ELSE torn
    BY DEF DeleteRow
<1> DEFINE s == [save[t] EXCEPT !.gone = @ \ {p}, !.file = p]
<1>3. s \in Saves /\ s.text = save[t].text /\ s.at = "listed" /\ s.gone = save[t].gone \ {p} /\ s.file = p
    <2>1. p \in Photos
        BY <1>1 DEF Saves
    <2> QED  BY <1>1, <2>1 DEF Saves
<1>4. save' = [save EXCEPT ![t] = s]
    BY <1>2 DEF TypeOK
<1> HIDE DEF s
<1> QED  BY <1>1, <1>2, <1>3, <1>4, SavesWhat

(* A form whose save is over has none. *)
LEMMA Ends ==
    ASSUME TypeOK, NEW t \in Tabs, save' = [save EXCEPT ![t] = None]
    PROVE  /\ save' \in [Tabs -> Saves \cup {None}]
           /\ save'[t] = None /\ \A v \in Tabs \ {t} : save'[v] = save[v]
BY DEF TypeOK

-----------------------------------------------------------------------------
(* Types. *)

RequestsOK ==
    /\ clipboard \subseteq Pieces
    /\ uploads \subseteq Uploads /\ drawn \subseteq Photos
    /\ save \in [Tabs -> Saves \cup {None}]
StoreOK ==
    /\ published \subseteq Pieces /\ rows \subseteq drawn /\ files \subseteq drawn /\ sweeping \subseteq drawn
    /\ torn \subseteq Photos /\ fresh \subseteq Photos /\ cut \in BOOLEAN
CountersOK == turns \in 0..MaxTurns /\ troubles \in 0..MaxTroubles

LEMMA Parts == TypeOK <=> EditorOK /\ RequestsOK /\ StoreOK /\ CountersOK
BY DEF TypeOK, EditorOK, RequestsOK, StoreOK, CountersOK

LEMMA PartsNext == EditorOK' /\ RequestsOK' /\ StoreOK' /\ CountersOK' => TypeOK'
BY DEF TypeOK, EditorOK, RequestsOK, StoreOK, CountersOK

LEMMA Counts ==
    ASSUME CountersOK, Turn \/ Trouble \/ UNCHANGED <<turns, troubles>>
    PROVE  CountersOK'
BY RichEditorAssumption DEF CountersOK, Turn, Trouble

LEMMA TypesFirst == Init => TypeOK
<1> SUFFICES ASSUME Init  PROVE TypeOK
    OBVIOUS
<1>1. EditorOK
    BY RichEditorAssumption DEF Init, EditorOK
<1>2. RequestsOK
    BY DEF Init, RequestsOK
<1>3. StoreOK
    BY DEF Init, StoreOK
<1>4. CountersOK
    BY RichEditorAssumption DEF Init, CountersOK
<1> QED  BY <1>1, <1>2, <1>3, <1>4, Parts

LEMMA TypesOfPerson ==
    ASSUME TypeOK, NEW t \in Tabs, Person(t)
    PROVE  TypeOK'
<1> USE DEF editor, requests, store, history
<1>0. EditorOK /\ RequestsOK /\ StoreOK /\ CountersOK /\ text[t] \in SUBSET Pieces /\ Selected(t) \in SUBSET Pieces
    BY Parts DEF TypeOK, Selected
<1>1. CASE Select(t)
    <2>1. EditorOK'
        BY <1>0, <1>1 DEF Select, EditorOK
    <2>2. RequestsOK' /\ StoreOK' /\ CountersOK'
        BY <1>0, <1>1, Counts DEF Select, RequestsOK, StoreOK
    <2> QED  BY <2>1, <2>2, PartsNext
<1>2. CASE Type(t)
    <2>1. EditorOK'
        BY <1>0, <1>2, BecomesWhat DEF Type, Pieces
    <2>2. RequestsOK' /\ StoreOK' /\ CountersOK'
        BY <1>0, <1>2, Counts DEF Type, RequestsOK, StoreOK
    <2> QED  BY <2>1, <2>2, PartsNext
<1>3. CASE Link(t)
    <2>1. EditorOK'
        BY <1>0, <1>3, PutWhat DEF Link, Pieces
    <2>2. RequestsOK' /\ StoreOK' /\ CountersOK'
        BY <1>0, <1>3, Counts DEF Link, RequestsOK, StoreOK
    <2> QED  BY <2>1, <2>2, PartsNext
<1>4. CASE Remove(t)
    <2>1. EditorOK'
        BY <1>0, <1>4, BecomesWhat DEF Remove
    <2>2. RequestsOK' /\ StoreOK' /\ CountersOK'
        BY <1>0, <1>4, Counts DEF Remove, RequestsOK, StoreOK
    <2> QED  BY <2>1, <2>2, PartsNext
<1>5. CASE Cut(t)
    <2>1. EditorOK'
        BY <1>0, <1>5, BecomesWhat DEF Cut
    <2>2. RequestsOK' /\ StoreOK' /\ CountersOK'
        BY <1>0, <1>5, Counts DEF Cut, Takes, RequestsOK, StoreOK
    <2> QED  BY <2>1, <2>2, PartsNext
<1>6. CASE Copy(t)
    <2>1. EditorOK'
        BY <1>0, <1>6 DEF Copy, EditorOK
    <2>2. RequestsOK' /\ StoreOK' /\ CountersOK'
        BY <1>0, <1>6, Counts DEF Copy, Takes, RequestsOK, StoreOK
    <2> QED  BY <2>1, <2>2, PartsNext
<1>7. CASE Paste(t)
    <2>1. EditorOK'
        BY <1>0, <1>7, PutWhat DEF Paste, RequestsOK
    <2>2. RequestsOK' /\ StoreOK' /\ CountersOK'
        BY <1>0, <1>7, Counts DEF Paste, RequestsOK, StoreOK
    <2> QED  BY <2>1, <2>2, PartsNext
<1>8. CASE Undo(t)
    <2>1. PICK p \in past[t] \ text[t] : Becomes(t, text[t] \cup {p}, selected[t])
        BY <1>8 DEF Undo
    <2>2. text[t] \cup {p} \in SUBSET Pieces /\ selected[t] \in (SUBSET (text[t] \cup {p})) \cup {None}
        BY <1>0 DEF EditorOK
    <2>3. EditorOK'
        BY <1>0, <2>1, <2>2, BecomesWhat
    <2>4. RequestsOK' /\ StoreOK' /\ CountersOK'
        BY <1>0, <1>8, Counts DEF Undo, RequestsOK, StoreOK
    <2> QED  BY <2>3, <2>4, PartsNext
<1>9. CASE Upload(t)
    <2>1. PICK p \in Photos \ drawn :
              /\ uploads' = uploads \cup {[pic |-> p, tab |-> t, live |-> TRUE, at |-> "sent"]}
              /\ drawn' = drawn \cup {p}
        BY <1>9 DEF Upload
    <2>2. [pic |-> p, tab |-> t, live |-> TRUE, at |-> "sent"] \in Uploads
        BY DEF Uploads
    <2>3. EditorOK' /\ StoreOK' /\ CountersOK'
        BY <1>0, <1>9, <2>1, Counts DEF Upload, EditorOK, StoreOK
    <2>4. RequestsOK'
        BY <1>0, <1>9, <2>1, <2>2 DEF Upload, RequestsOK
    <2> QED  BY <2>3, <2>4, PartsNext
<1>10. CASE Reopen(t)
    <2>1. EditorOK' /\ uploads' \subseteq Uploads
        BY <1>0, <1>10, ShowsWhat DEF Reopen, RequestsOK, StoreOK
    <2>2. RequestsOK' /\ StoreOK' /\ CountersOK'
        BY <1>0, <1>10, <2>1, Counts DEF Reopen, RequestsOK, StoreOK
    <2> QED  BY <2>1, <2>2, PartsNext
<1>11. CASE Send(t)
    <2>1. EditorOK' /\ StoreOK' /\ CountersOK'
        BY <1>0, <1>11, Counts DEF Send, EditorOK, StoreOK
    <2>2. RequestsOK'
        BY <1>0, <1>11, SendWhat DEF Send, RequestsOK
    <2> QED  BY <2>1, <2>2, PartsNext
<1> QED  BY <1>1, <1>2, <1>3, <1>4, <1>5, <1>6, <1>7, <1>8, <1>9, <1>10, <1>11 DEF Person

LEMMA TypesOfSaving ==
    ASSUME TypeOK, NEW t \in Tabs, Saving(t)
    PROVE  TypeOK'
<1> USE DEF editor, requests, store, history
<1>0. EditorOK /\ RequestsOK /\ StoreOK /\ CountersOK
    BY Parts
<1>1. CASE Refuse(t)
    BY <1>0, <1>1, Ends, Counts, PartsNext DEF Refuse, EditorOK, RequestsOK, StoreOK
<1>2. CASE Publish(t)
    <2>1. published' \subseteq Pieces
        BY <1>2, PublishWhat DEF Publish, Saves
    <2> QED
        BY <1>0, <1>2, <2>1, PublishWhat, Counts, PartsNext DEF Publish, EditorOK, RequestsOK, StoreOK
<1>3. CASE List(t)
    BY <1>0, <1>3, ListWhat, Counts, PartsNext DEF List, EditorOK, RequestsOK, StoreOK
<1>4. CASE DeleteRow(t)
    <2>1. rows' \subseteq rows /\ torn' \subseteq Photos
        BY <1>0, <1>4, DeleteRowWhat DEF StoreOK, Saves
    <2> QED
        BY <1>0, <1>4, <2>1, DeleteRowWhat, Counts, PartsNext DEF DeleteRow, EditorOK, RequestsOK, StoreOK
<1>5. CASE DeleteFile(t)
    BY <1>0, <1>5, DeleteFileWhat, Counts, PartsNext DEF DeleteFile, EditorOK, RequestsOK, StoreOK
<1>6. CASE Render(t)
    BY <1>0, <1>6, RenderWhat, Counts, PartsNext DEF Render, EditorOK, RequestsOK, StoreOK
<1>7. CASE Answer(t)
    <2>1. save[t] \in Saves /\ save[t].text \in SUBSET Pieces
        BY <1>0, <1>7 DEF Answer, At, RequestsOK, Saves
    <2>2. EditorOK' /\ uploads' \subseteq Uploads
        BY <1>0, <1>7, <2>1, ShowsWhat DEF Answer, RequestsOK
    <2>3. RequestsOK' /\ StoreOK' /\ CountersOK'
        BY <1>0, <1>7, <2>2, Ends, Counts DEF Answer, RequestsOK, StoreOK
    <2> QED  BY <2>2, <2>3, PartsNext
<1>8. CASE AnswerLost(t)
    <2>1. torn' \subseteq Photos
        BY <1>0, <1>8 DEF AnswerLost, StillThere, StoreOK
    <2> QED
        BY <1>0, <1>8, <2>1, Ends, Counts, PartsNext DEF AnswerLost, EditorOK, RequestsOK, StoreOK
<1> QED  BY <1>1, <1>2, <1>3, <1>4, <1>5, <1>6, <1>7, <1>8 DEF Saving

(* The rest: uploads, the sweep, and a crash. *)
LEMMA TypesOfUploads ==
    ASSUME TypeOK, Names, NEW u \in uploads, SaveFile(u) \/ InsertRow(u) \/ Uploaded(u) \/ NotUploaded(u)
    PROVE  TypeOK'
<1> USE DEF editor, requests, store, history
<1>0. EditorOK /\ RequestsOK /\ StoreOK /\ CountersOK /\ u \in Uploads /\ u.pic \in drawn
    BY Parts DEF TypeOK, Names
<1>1. u.pic \in Photos /\ u.tab \in Tabs
    BY <1>0 DEF Uploads
<1>2. CASE SaveFile(u)
    <2>1. uploads' \subseteq Uploads
        BY <1>0, <1>2, UploadMoves DEF SaveFile, RequestsOK
    <2> QED
        BY <1>0, <1>2, <2>1, Counts, PartsNext DEF SaveFile, EditorOK, RequestsOK, StoreOK
<1>3. CASE InsertRow(u)
    <2>1. uploads' \subseteq Uploads
        BY <1>0, <1>3, UploadMoves DEF InsertRow, RequestsOK
    <2> QED
        BY <1>0, <1>1, <1>3, <2>1, Counts, PartsNext DEF InsertRow, EditorOK, RequestsOK, StoreOK
<1>4. CASE Uploaded(u)
    <2>1. EditorOK'
        <3>1. CASE u.live
            BY <1>0, <1>1, <1>4, <3>1, PutWhat DEF Uploaded, Pieces
        <3>2. CASE ~u.live
            BY <1>0, <1>4, <3>2 DEF Uploaded, EditorOK
        <3> QED  BY <3>1, <3>2
    <2>2. RequestsOK' /\ StoreOK' /\ CountersOK'
        BY <1>0, <1>4, Counts DEF Uploaded, RequestsOK, StoreOK
    <2> QED  BY <2>1, <2>2, PartsNext
<1>5. CASE NotUploaded(u)
    <2>1. [u EXCEPT !.live = FALSE] \in Uploads
        BY <1>0 DEF Uploads
    <2>2. uploads' \subseteq Uploads
        BY <1>0, <1>5, <2>1 DEF NotUploaded, RequestsOK
    <2> QED
        BY <1>0, <1>5, <2>2, Counts, PartsNext DEF NotUploaded, EditorOK, RequestsOK, StoreOK
<1> QED  BY <1>2, <1>3, <1>4, <1>5

LEMMA TypesOfServer ==
    ASSUME TypeOK, Crash \/ SweepList \/ SweepFile
    PROVE  TypeOK'
<1> USE DEF editor, requests, store, history
<1>0. EditorOK /\ RequestsOK /\ StoreOK /\ CountersOK
    BY Parts
<1>1. CASE Crash
    <2>1. torn' \subseteq Photos
        BY <1>0, <1>1 DEF Crash, StillThere, StoreOK
    <2>2. cut' \in BOOLEAN
        BY <1>0, <1>1 DEF Crash, StoreOK
    <2>3. save' \in [Tabs -> Saves \cup {None}]
        BY <1>1 DEF Crash
    <2> QED
        BY <1>0, <1>1, <2>1, <2>2, <2>3, Counts, PartsNext DEF Crash, EditorOK, RequestsOK, StoreOK
<1>2. CASE SweepList
    BY <1>0, <1>2, Counts, PartsNext DEF SweepList, Old, EditorOK, RequestsOK, StoreOK
<1>3. CASE SweepFile
    BY <1>0, <1>3, Counts, PartsNext DEF SweepFile, EditorOK, RequestsOK, StoreOK
<1> QED  BY <1>1, <1>2, <1>3

-----------------------------------------------------------------------------
(* The invariant. *)

LEMMA InvariantFirst == Init => IInv
<1> SUFFICES ASSUME Init  PROVE IInv
    OBVIOUS
<1>1. TypeOK
    BY TypesFirst
<1>2. rows = published \cap Photos /\ files = rows /\ drawn = rows /\ sweeping = {} /\ clipboard = {}
      /\ uploads = {} /\ (\A t \in Tabs : past[t] = published /\ save[t] = None) /\ cut = FALSE
    BY DEF Init
<1>3. Names
    BY <1>2 DEF Names, Mentioned, Known
<1>4. Folder
    BY <1>2 DEF Folder
<1>5. Claims
    BY <1>2 DEF Claims, Kept
<1>6. Forms
    BY <1>2 DEF Forms
<1>7. Owned
    BY <1>2, RichEditorAssumption DEF Owned, Owner
<1>8. Leftovers
    BY <1>1, <1>2 DEF Leftovers, Settled, At, TypeOK
<1> QED  BY <1>1, <1>3, <1>4, <1>5, <1>6, <1>7, <1>8 DEF IInv

(* An edit: what it adds has been spoken of, and is kept unless the form had it; *)
(* so for the clipboard; requests and the server are left alone.                 *)
LEMMA EditKeeps ==
    ASSUME IInv, TypeOK', NEW t \in Tabs, NEW X \in SUBSET Pieces,
           past'[t] = past[t] \cup X, \A v \in Tabs \ {t} : past'[v] = past[v],
           X \cap Photos \subseteq Kept \cup past[t], \A p \in X \cap Photos : Known(p),
           clipboard' \cap Photos \subseteq Kept', \A p \in clipboard' : Mentioned(p),
           torn \subseteq torn', uploads' \subseteq uploads,
           UNCHANGED <<drawn, save, published, rows, files, sweeping, fresh, cut>>
    PROVE  IInv'
<1>0. TypeOK /\ Names /\ Folder /\ Claims /\ Forms /\ Owned /\ Leftovers
    BY DEF IInv
<1>1. Names'
    <2>1. ASSUME NEW p \in Photos, Mentioned(p)'
          PROVE  Mentioned(p) \/ Known(p)
        BY <2>1 DEF Mentioned
    <2>2. \A p \in Photos : Known(p) => Known(p)'
        BY DEF Known
    <2> QED  BY <1>0, <2>1, <2>2 DEF Names
<1>2. Folder'
    BY <1>0 DEF Folder
<1>3. Claims'
    <2>1. Kept \subseteq Kept'
        BY DEF Kept
    <2>2. ASSUME NEW v \in Tabs, Unhurt(v)'
          PROVE  past'[v] \cap Photos \subseteq Kept'
        <3>1. past[v] \cap Photos \subseteq Kept
            BY <1>0, <2>2 DEF Claims, Unhurt, At
        <3> QED  BY <2>1, <3>1
    <2> QED  BY <1>0, <2>1, <2>2 DEF Claims
<1>4. Forms'
    BY <1>0 DEF Forms
<1>5. Owned'
    BY <1>0 DEF Owned, Owner
<1>6. Leftovers'
    BY <1>0 DEF Leftovers, Pending, Settled, Going, At
<1> QED  BY <1>1, <1>2, <1>3, <1>4, <1>5, <1>6 DEF IInv

(* An edit that adds nothing. *)
LEMMA OldEditKeeps ==
    ASSUME IInv, TypeOK', NEW t \in Tabs, \A v \in Tabs : past'[v] = past[v],
           clipboard' \cap Photos \subseteq Kept', \A p \in clipboard' : Mentioned(p),
           torn \subseteq torn', uploads' \subseteq uploads,
           UNCHANGED <<drawn, save, published, rows, files, sweeping, fresh, cut>>
    PROVE  IInv'
<1> DEFINE X == {}
<1>1. /\ X \in SUBSET Pieces /\ past'[t] = past[t] \cup X
      /\ X \cap Photos \subseteq Kept \cup past[t] /\ \A p \in X \cap Photos : Known(p)
    OBVIOUS
<1> HIDE DEF X
<1> QED  BY <1>1, EditKeeps

LEMMA EditsKeep ==
    ASSUME IInv, TypeOK', NEW t \in Tabs,
           \/ Select(t) \/ Type(t) \/ Link(t) \/ Remove(t) \/ Cut(t) \/ Copy(t) \/ Paste(t) \/ Undo(t)
    PROVE  IInv'
<1> USE DEF editor, requests, store, history
<1>0. /\ TypeOK /\ EditorOK /\ Names /\ Claims
      /\ past[t] \in SUBSET Pieces /\ text[t] \subseteq past[t] /\ Selected(t) \subseteq text[t]
    BY Parts DEF IInv, EditorOK, Selected
<1>1. (\A p \in clipboard : Mentioned(p)) /\ (\A p \in past[t] : Mentioned(p))
    BY DEF Mentioned
<1>2. /\ \A p \in (past[t] \cup clipboard) \cap Photos : Known(p)
      /\ clipboard \subseteq Pieces /\ clipboard \cap Photos \subseteq Kept
    BY <1>0, <1>1 DEF Names, Claims, TypeOK
<1>3. CASE Select(t)
    BY <1>0, <1>1, <1>2, <1>3, OldEditKeeps DEF Select, Kept
<1>4. ASSUME NEW w \in Words, past'[t] = past[t] \cup {w} \/ past'[t] = past[t] \cup ((text[t] \ Selected(t)) \cup {w}),
             \A v \in Tabs \ {t} : past'[v] = past[v],
             UNCHANGED <<clipboard, uploads, drawn, save, published, rows, files, sweeping, torn, fresh, cut>>
      PROVE  IInv'
    <2>1. past'[t] = past[t] \cup {w} /\ {w} \in SUBSET Pieces /\ {w} \cap Photos = {}
        BY <1>0, <1>4, RichEditorAssumption DEF Pieces
    <2> QED  BY <1>1, <1>2, <1>4, <2>1, EditKeeps DEF Kept
<1>5. CASE Type(t)
    <2>1. PICK w \in Words \ text[t] : Becomes(t, (text[t] \ Selected(t)) \cup {w}, {})
        BY <1>5 DEF Type
    <2>2. (text[t] \ Selected(t)) \cup {w} \in SUBSET Pieces
        BY <1>0 DEF Pieces
    <2>3. past'[t] = past[t] \cup ((text[t] \ Selected(t)) \cup {w}) /\ \A v \in Tabs \ {t} : past'[v] = past[v]
        BY <1>0, <2>1, <2>2, BecomesWhat
    <2> QED  BY <1>4, <1>5, <2>3 DEF Type
<1>6. CASE Link(t)
    <2>1. PICK w \in Words \ text[t] : Put(t, {w})
        BY <1>6 DEF Link
    <2>2. past'[t] = past[t] \cup {w} /\ \A v \in Tabs \ {t} : past'[v] = past[v]
        BY <1>0, <2>1, PutWhat DEF Pieces
    <2> QED  BY <1>4, <1>6, <2>2 DEF Link
<1>7. CASE Remove(t) \/ Cut(t)
    <2>1. Becomes(t, text[t] \ Selected(t), {})
        BY <1>7 DEF Remove, Cut
    <2>2. \A v \in Tabs : past'[v] = past[v]
        <3>1. past'[t] = past[t] \cup (text[t] \ Selected(t)) /\ \A v \in Tabs \ {t} : past'[v] = past[v]
            BY <1>0, <2>1, BecomesWhat
        <3>2. past[t] \cup (text[t] \ Selected(t)) = past[t]
            BY <1>0
        <3> QED  BY <3>1, <3>2
    <2>3. CASE Remove(t)
        BY <1>1, <1>2, <2>2, <2>3, OldEditKeeps DEF Remove, Kept
    <2>4. CASE Cut(t)
        <3>1. clipboard' \cap Photos \subseteq Kept' /\ \A p \in clipboard' : Mentioned(p)
            BY <1>0, <1>1, <2>4 DEF Cut, Takes, Kept
        <3> QED  BY <2>2, <2>4, <3>1, OldEditKeeps DEF Cut, Takes
    <2> QED  BY <1>7, <2>3, <2>4
<1>8. CASE Copy(t)
    <2>1. clipboard' \cap Photos \subseteq Kept' /\ \A p \in clipboard' : Mentioned(p)
        BY <1>0, <1>1, <1>8 DEF Copy, Takes, Kept
    <2> QED  BY <1>8, <2>1, OldEditKeeps DEF Copy, Takes
<1>9. CASE Paste(t)
    <2>1. past'[t] = past[t] \cup clipboard /\ \A v \in Tabs \ {t} : past'[v] = past[v]
        BY <1>0, <1>2, <1>9, PutWhat DEF Paste
    <2> QED  BY <1>1, <1>2, <1>9, <2>1, EditKeeps DEF Paste, Kept
<1>10. CASE Undo(t)
    <2>1. PICK p \in past[t] \ text[t] : Becomes(t, text[t] \cup {p}, selected[t])
        BY <1>10 DEF Undo
    <2>2. text[t] \cup {p} \in SUBSET Pieces /\ selected[t] \in (SUBSET (text[t] \cup {p})) \cup {None}
        BY <1>0 DEF EditorOK
    <2>3. \A v \in Tabs : past'[v] = past[v]
        <3>1. past'[t] = past[t] \cup (text[t] \cup {p}) /\ \A v \in Tabs \ {t} : past'[v] = past[v]
            BY <1>0, <2>1, <2>2, BecomesWhat
        <3>2. past[t] \cup (text[t] \cup {p}) = past[t]
            BY <1>0
        <3> QED  BY <3>1, <3>2
    <2> QED  BY <1>1, <1>2, <1>10, <2>3, OldEditKeeps DEF Undo, Kept
<1> QED  BY <1>3, <1>5, <1>6, <1>7, <1>8, <1>9, <1>10

(* An upload takes a step: there is still one for its photo. *)
LEMMA OneUpload ==
    ASSUME IInv, NEW u \in uploads, NEW w \in Uploads, w.pic = u.pic,
           uploads' = (uploads \ {u}) \cup {w}
    PROVE  /\ \A x \in uploads' : x = w \/ (x \in uploads /\ x.pic # u.pic)
           /\ \A x, y \in uploads' : x.pic = y.pic => x = y
           /\ \A p \in Photos \ {u.pic} : Known(p) /\ drawn' = drawn => Known(p)'
<1>1. \A x, y \in uploads : x.pic = y.pic => x = y
    BY DEF IInv, Names
<1>2. \A x \in uploads' : x = w \/ (x \in uploads /\ x.pic # u.pic)
    BY <1>1
<1> QED  BY <1>1, <1>2 DEF Known

LEMMA UploadsKeep ==
    ASSUME IInv, TypeOK', NEW u \in uploads,
           SaveFile(u) \/ InsertRow(u) \/ Uploaded(u) \/ NotUploaded(u)
    PROVE  IInv'
<1> USE DEF editor, requests, store, history
<1>0. /\ TypeOK /\ EditorOK /\ Names /\ Folder /\ Claims /\ Forms /\ Owned /\ Leftovers
      /\ u \in Uploads /\ u.pic \in Photos /\ u.tab \in Tabs /\ u.pic \in drawn
    BY Parts DEF IInv, TypeOK, Uploads, Names
<1>1. CASE Uploaded(u)
    <2>1. (\A p \in clipboard : Mentioned(p)) /\ clipboard \cap Photos \subseteq Kept
        BY <1>0 DEF Mentioned, Claims
    <2>2. u.pic \in Kept /\ Known(u.pic)
        BY <1>0, <1>1 DEF Uploaded, Claims, Names, Known
    <2>3. CASE u.live
        <3>1. /\ past'[u.tab] = past[u.tab] \cup {u.pic} /\ \A v \in Tabs \ {u.tab} : past'[v] = past[v]
              /\ {u.pic} \in SUBSET Pieces
            BY <1>0, <1>1, <2>3, PutWhat DEF Uploaded, Pieces
        <3> QED  BY <1>0, <1>1, <2>1, <2>2, <3>1, EditKeeps DEF Uploaded, Kept
    <2>4. CASE ~u.live
        BY <1>0, <1>1, <2>1, <2>4, OldEditKeeps DEF Uploaded, Kept
    <2> QED  BY <2>3, <2>4
<1>2. CASE NotUploaded(u)
    <2> DEFINE w == [u EXCEPT !.live = FALSE]
    <2>1. w \in Uploads /\ w.pic = u.pic /\ w.at = u.at
        BY <1>0 DEF Uploads
    <2>2. uploads' = (uploads \ {u}) \cup {w}
        BY <1>2 DEF NotUploaded
    <2> HIDE DEF w
    <2>3. /\ \A x \in uploads' : x = w \/ (x \in uploads /\ x.pic # u.pic)
          /\ \A x, y \in uploads' : x.pic = y.pic => x = y
        BY <2>1, <2>2, OneUpload
    <2>4. Names'
        BY <1>0, <1>2, <2>1, <2>3 DEF NotUploaded, Names, Mentioned, Known
    <2>5. Folder' /\ Claims'
        BY <1>0, <1>2, <2>1, <2>3 DEF NotUploaded, Folder, Claims, Kept, Unhurt, At
    <2>6. Forms' /\ Owned' /\ Leftovers'
        BY <1>0, <1>2 DEF NotUploaded, Forms, Owned, Owner, Leftovers, Pending, Settled, Going, At
    <2> QED  BY <2>4, <2>5, <2>6 DEF IInv
<1>3. CASE SaveFile(u)
    <2> DEFINE w == [u EXCEPT !.at = "file"]
    <2>1. w \in Uploads /\ w.pic = u.pic /\ w.at = "file"
        BY <1>0, UploadMoves
    <2>2. uploads' = (uploads \ {u}) \cup {w} /\ u.at = "sent"
        BY <1>3 DEF SaveFile
    <2> HIDE DEF w
    <2>3. /\ \A x \in uploads' : x = w \/ (x \in uploads /\ x.pic # u.pic)
          /\ \A x, y \in uploads' : x.pic = y.pic => x = y
        BY <2>1, <2>2, OneUpload
    <2>4. ASSUME NEW p \in Photos, Mentioned(p)'
          PROVE  Known(p)'
        <3>1. Mentioned(p)
            BY <1>3, <2>4 DEF SaveFile, Mentioned
        <3>2. Known(p)
            BY <1>0, <3>1 DEF Names
        <3> QED  BY <1>3, <2>2, <2>3, <2>1, <3>2 DEF SaveFile, Known
    <2>5. Names'
        BY <1>0, <1>3, <2>1, <2>3, <2>4 DEF SaveFile, Names
    <2>6. Folder' /\ Claims'
        BY <1>0, <1>3, <2>1, <2>3 DEF SaveFile, Folder, Claims, Kept, Unhurt, At
    <2>7. Forms' /\ Owned' /\ Leftovers'
        BY <1>0, <1>3 DEF SaveFile, Forms, Owned, Owner, Leftovers, Pending, Settled, Going, At
    <2> QED  BY <2>5, <2>6, <2>7 DEF IInv
<1>4. CASE InsertRow(u)
    <2> DEFINE w == [u EXCEPT !.at = "row"]
    <2>1. w \in Uploads /\ w.pic = u.pic /\ w.at = "row"
        BY <1>0, UploadMoves
    <2>2. uploads' = (uploads \ {u}) \cup {w} /\ u.at = "file"
        BY <1>4 DEF InsertRow
    <2> HIDE DEF w
    <2>3. /\ \A x \in uploads' : x = w \/ (x \in uploads /\ x.pic # u.pic)
          /\ \A x, y \in uploads' : x.pic = y.pic => x = y
        BY <2>1, <2>2, OneUpload
    <2>4. ~Mentioned(u.pic)
        BY <1>0, <2>2 DEF Names, Known
    <2>5. ASSUME NEW p \in Photos, Mentioned(p)'
          PROVE  Known(p)'
        <3>1. Mentioned(p) \/ p = u.pic
            BY <1>4, <2>5 DEF InsertRow, Mentioned
        <3>2. CASE p = u.pic
            BY <1>0, <1>4, <2>1, <2>3, <3>2 DEF InsertRow, Known
        <3>3. CASE Mentioned(p) /\ p # u.pic
            <4>1. Known(p)
                BY <1>0, <3>3 DEF Names
            <4> QED  BY <1>4, <2>1, <2>3, <3>3, <4>1 DEF InsertRow, Known
        <3> QED  BY <3>1, <3>2, <3>3
    <2>6. Names'
        BY <1>0, <1>4, <2>1, <2>3, <2>5 DEF InsertRow, Names
    <2>7. Folder'
        BY <1>0, <1>4, <2>1, <2>2, <2>3, <2>4 DEF InsertRow, Folder, Mentioned
    <2>8. Claims'
        <3>1. Kept \subseteq Kept' /\ u.pic \in Kept'
            BY <1>4 DEF InsertRow, Kept
        <3> QED  BY <1>0, <1>4, <2>1, <2>3, <3>1 DEF InsertRow, Claims, Unhurt, At
    <2>9. Forms' /\ Owned'
        BY <1>0, <1>4 DEF InsertRow, Forms, Owned, Owner
    <2>10. Leftovers'
        <3>1. Pending => Pending'
            BY <1>4 DEF InsertRow, Pending, At
        <3>2. Settled => Settled'
            BY <1>0, <1>4, <2>4 DEF InsertRow, Settled, Going, At, Mentioned
        <3> QED  BY <1>0, <1>4, <3>1, <3>2 DEF InsertRow, Leftovers, At
    <2> QED  BY <2>6, <2>7, <2>8, <2>9, <2>10 DEF IInv
<1> QED  BY <1>1, <1>2, <1>3, <1>4

LEMMA UploadKeeps ==
    ASSUME IInv, TypeOK', NEW t \in Tabs, Upload(t)
    PROVE  IInv'
<1> USE DEF editor, requests, store, history
<1>0. TypeOK /\ Names /\ Folder /\ Claims /\ Forms /\ Owned /\ Leftovers
    BY DEF IInv
<1>1. PICK p \in Photos \ drawn :
          /\ uploads' = uploads \cup {[pic |-> p, tab |-> t, live |-> TRUE, at |-> "sent"]}
          /\ drawn' = drawn \cup {p}
    BY DEF Upload
<1> DEFINE w == [pic |-> p, tab |-> t, live |-> TRUE, at |-> "sent"]
<1>2. uploads' = uploads \cup {w} /\ w.pic = p /\ w.at = "sent"
    BY <1>1
<1> HIDE DEF w
<1>3. Names'
    <2>1. ASSUME NEW q \in Photos, Mentioned(q)'
          PROVE  Known(q)'
        <3>1. Mentioned(q)
            BY <2>1 DEF Upload, Mentioned
        <3>2. Known(q)
            BY <1>0, <3>1 DEF Names
        <3> QED  BY <1>1, <1>2, <3>2 DEF Known
    <2> QED  BY <1>0, <1>1, <1>2, <2>1 DEF Names
<1>4. Folder' /\ Claims'
    BY <1>0, <1>2 DEF Upload, Folder, Claims, Kept, Unhurt, At
<1>5. Forms' /\ Owned' /\ Leftovers'
    BY <1>0 DEF Upload, Forms, Owned, Owner, Leftovers, Pending, Settled, Going, At
<1> QED  BY <1>3, <1>4, <1>5 DEF IInv

(* The page is shown anew, with what is published or was when it was rendered; *)
(* the form that is replaced has no save, or one that is over.                 *)
LEMMA ShowsKeeps ==
    ASSUME IInv, TypeOK', NEW t \in Tabs, Reopen(t) \/ Answer(t)
    PROVE  IInv'
<1> USE DEF editor, requests, store, history
<1>0. TypeOK /\ EditorOK /\ Names /\ Folder /\ Claims /\ Forms /\ Owned /\ Leftovers
    BY Parts DEF IInv
<1> DEFINE page == IF save[t] = None THEN published ELSE save[t].text
<1>1. Shows(t, page) /\ (save[t] = None \/ (save[t] \in Saves /\ save[t].at = "done"))
    BY <1>0 DEF Reopen, Answer, At, TypeOK
<1>2. page \in SUBSET Pieces
    BY <1>0, <1>1 DEF TypeOK, Saves
<1>3. page \cap Photos \subseteq Kept /\ \A p \in page : Mentioned(p)
    BY <1>0, <1>1 DEF Claims, Mentioned
<1> HIDE DEF page
<1>4. /\ past'[t] = page
      /\ \A v \in Tabs \ {t} : past'[v] = past[v]
      /\ \A w \in uploads' : \E u \in uploads :
            w.pic = u.pic /\ w.at = u.at /\ w = [u EXCEPT !.live = @ /\ u.tab # t]
    BY <1>0, <1>1, <1>2, ShowsWhat DEF TypeOK
<1>5. save'[t] = None /\ \A v \in Tabs \ {t} : save'[v] = save[v]
    BY <1>0, Ends DEF Reopen, Answer
<1>6. UNCHANGED <<clipboard, drawn, published, rows, files, sweeping, torn, fresh, cut>>
    BY DEF Reopen, Answer
<1>7. Names'
    <2>1. ASSUME NEW w \in uploads', NEW x \in uploads', w.pic = x.pic
          PROVE  w = x
        <3>1. PICK u \in uploads : w.pic = u.pic /\ w = [u EXCEPT !.live = @ /\ u.tab # t]
            BY <1>4
        <3>2. PICK y \in uploads : x.pic = y.pic /\ x = [y EXCEPT !.live = @ /\ y.tab # t]
            BY <1>4
        <3>3. u = y
            BY <1>0, <2>1, <3>1, <3>2 DEF Names
        <3> QED  BY <3>1, <3>2, <3>3
    <2>2. ASSUME NEW p \in Photos, Mentioned(p)'
          PROVE  Known(p)'
        <3>1. Mentioned(p)
            BY <1>3, <1>4, <1>5, <1>6, <2>2 DEF Mentioned
        <3>2. Known(p)
            BY <1>0, <3>1 DEF Names
        <3> QED  BY <1>4, <1>6, <3>2 DEF Known
    <2>3. \A w \in uploads' : w.pic \in drawn'
        BY <1>0, <1>4, <1>6 DEF Names
    <2> QED  BY <2>1, <2>2, <2>3 DEF Names
<1>8. Folder'
    BY <1>0, <1>4, <1>5, <1>6 DEF Folder
<1>9. Claims'
    BY <1>0, <1>3, <1>4, <1>5, <1>6 DEF Claims, Kept, Unhurt, At
<1>10. Forms'
    BY <1>0, <1>4, <1>5 DEF Forms
<1>11. Owned'
    <2>1. PICK v \in Tabs : Owner(v)
        BY <1>0 DEF Owned
    <2>2. Owner(v)'
        <3>1. CASE v = t
            <4>1. published \subseteq page
                BY <1>1, <2>1, <3>1 DEF Owner, page
            <4> QED  BY <1>4, <1>5, <1>6, <3>1, <4>1 DEF Owner
        <3>2. CASE v # t
            BY <1>4, <1>5, <1>6, <2>1, <3>2 DEF Owner
        <3> QED  BY <3>1, <3>2
    <2> QED  BY <2>2 DEF Owned
<1>12. Leftovers'
    <2>1. \A v \in Tabs : /\ At(v, "stored")' <=> At(v, "stored")
                          /\ At(v, "listed")' <=> At(v, "listed")
                          /\ At(v, "stored") \/ At(v, "listed") => save'[v] = save[v]
        BY <1>1, <1>5 DEF At
    <2>2. Pending => Pending'
        BY <1>6, <2>1 DEF Pending
    <2>3. Settled => Settled'
        BY <1>6, <2>1 DEF Settled, Going
    <2> QED  BY <1>0, <1>6, <2>1, <2>2, <2>3 DEF Leftovers
<1> QED  BY <1>7, <1>8, <1>9, <1>10, <1>11, <1>12 DEF IInv

(* A form is sent, or refused, or its answer is lost, or the page is published. *)
LEMMA SendKeeps ==
    ASSUME IInv, TypeOK', NEW t \in Tabs, Send(t)
    PROVE  IInv'
<1> USE DEF editor, requests, store, history
<1>0. TypeOK /\ Names /\ Folder /\ Claims /\ Forms /\ Owned /\ Leftovers /\ text[t] \subseteq past[t]
    BY DEF IInv, TypeOK
<1>1. /\ save[t] = None /\ save'[t] \in Saves
      /\ save'[t].text = text[t] /\ save'[t].at = "sent" /\ save'[t].gone = {} /\ save'[t].file = None
      /\ \A v \in Tabs \ {t} : save'[v] = save[v]
    BY <1>0, SendWhat
<1>2. save'[t] # None /\ None \notin Photos
    BY <1>1, RichEditorAssumption
<1>3. UNCHANGED <<past, clipboard, uploads, drawn, published, rows, files, sweeping, torn, fresh, cut>>
    BY DEF Send
<1>4. Names'
    <2>1. ASSUME NEW p \in Photos, Mentioned(p)'
          PROVE  Mentioned(p)
        BY <1>0, <1>1, <1>2, <1>3, <2>1 DEF Mentioned
    <2> QED  BY <1>0, <1>3, <2>1 DEF Names, Known
<1>5. Folder'
    <2>1. None \notin rows
        BY <1>0, <1>2 DEF TypeOK
    <2> QED  BY <1>0, <1>1, <1>3, <2>1 DEF Folder
<1>6. Claims'
    BY <1>0, <1>1, <1>2, <1>3 DEF Claims, Kept, Unhurt, At
<1>7. Forms'
    BY <1>0, <1>1, <1>3 DEF Forms
<1>8. Owned'
    BY <1>0, <1>1, <1>3 DEF Owned, Owner
<1>9. Leftovers'
    <2>1. \A v \in Tabs : /\ At(v, "stored")' <=> At(v, "stored")
                          /\ At(v, "listed")' <=> At(v, "listed")
                          /\ At(v, "stored") \/ At(v, "listed") => save'[v] = save[v]
        BY <1>1 DEF At
    <2>2. (Pending => Pending') /\ (Settled => Settled')
        BY <1>3, <2>1 DEF Pending, Settled, Going
    <2> QED  BY <1>0, <1>3, <2>1, <2>2 DEF Leftovers
<1> QED  BY <1>4, <1>5, <1>6, <1>7, <1>8, <1>9 DEF IInv

LEMMA OverKeeps ==
    ASSUME IInv, TypeOK', NEW t \in Tabs, Refuse(t) \/ AnswerLost(t)
    PROVE  IInv'
<1> USE DEF editor, requests, store, history
<1>0. TypeOK /\ Names /\ Folder /\ Claims /\ Forms /\ Owned /\ Leftovers
    BY DEF IInv
<1>1. save'[t] = None /\ \A v \in Tabs \ {t} : save'[v] = save[v]
    BY <1>0, Ends DEF Refuse, AnswerLost
<1>2. /\ save[t] # None /\ save[t].at \in {"sent", "done"} /\ torn \subseteq torn'
      /\ save[t].at = "done" => torn' = torn \cup StillThere(t)
    BY DEF Refuse, AnswerLost, At
<1>3. UNCHANGED <<past, clipboard, uploads, drawn, published, rows, files, sweeping, fresh, cut>>
    BY DEF Refuse, AnswerLost
<1>4. Names'
    <2>1. ASSUME NEW p \in Photos, Mentioned(p)'
          PROVE  Mentioned(p)
        BY <1>1, <1>3, <2>1 DEF Mentioned
    <2> QED  BY <1>0, <1>3, <2>1 DEF Names, Known
<1>5. Folder'
    BY <1>0, <1>1, <1>3 DEF Folder
<1>6. Claims'
    <2>1. Kept \subseteq Kept'
        BY <1>2, <1>3 DEF Kept
    <2>2. past'[t] \cap Photos \subseteq Kept'
        <3>1. CASE save[t].at = "sent"
            BY <1>0, <1>2, <1>3, <2>1, <3>1 DEF Claims, Unhurt, At
        <3>2. CASE save[t].at = "done"
            BY <1>2, <1>3, <3>2 DEF Kept, StillThere
        <3> QED  BY <1>2, <3>1, <3>2
    <2>3. ASSUME NEW v \in Tabs \ {t}, Unhurt(v)'
          PROVE  past'[v] \cap Photos \subseteq Kept'
        BY <1>0, <1>1, <1>3, <2>1, <2>3 DEF Claims, Unhurt, At
    <2>4. \A v \in Tabs : save'[v] # None => save'[v].text \cap Photos \subseteq Kept'
        BY <1>0, <1>1, <2>1 DEF Claims
    <2> QED  BY <1>0, <1>3, <2>1, <2>2, <2>3, <2>4 DEF Claims
<1>7. Forms'
    BY <1>0, <1>1, <1>3 DEF Forms
<1>8. Owned'
    BY <1>0, <1>1, <1>3 DEF Owned, Owner
<1>9. Leftovers'
    <2>1. \A v \in Tabs : /\ At(v, "stored")' <=> At(v, "stored")
                          /\ At(v, "listed")' <=> At(v, "listed")
                          /\ At(v, "stored") \/ At(v, "listed") => save'[v] = save[v]
        BY <1>1, <1>2 DEF At
    <2>2. (Pending => Pending') /\ (Settled => Settled')
        BY <1>3, <2>1 DEF Pending, Settled, Going
    <2> QED  BY <1>0, <1>3, <2>1, <2>2 DEF Leftovers
<1> QED  BY <1>4, <1>5, <1>6, <1>7, <1>8, <1>9 DEF IInv

LEMMA PublishKeeps ==
    ASSUME IInv, TypeOK', NEW t \in Tabs, Publish(t)
    PROVE  IInv'
<1> USE DEF editor, requests, store, history
<1>0. TypeOK /\ Names /\ Folder /\ Claims /\ Forms /\ Owned /\ Leftovers
    BY DEF IInv
<1>1. /\ save[t] \in Saves /\ save'[t] \in Saves
      /\ save'[t].text = save[t].text /\ save'[t].at = "stored"
      /\ save'[t].gone = save[t].gone /\ save'[t].file = save[t].file
      /\ \A v \in Tabs \ {t} : save'[v] = save[v]
    BY <1>0, PublishWhat
<1>2. save[t] # None /\ save'[t] # None
    BY <1>1, RichEditorAssumption
<1>3. save[t].at = "sent" /\ published' = save[t].text
    BY DEF Publish, At
<1>4. UNCHANGED <<past, clipboard, uploads, drawn, rows, files, sweeping, torn, fresh, cut>>
    BY DEF Publish
<1>5. Names'
    <2>1. ASSUME NEW p \in Photos, Mentioned(p)'
          PROVE  Mentioned(p)
        BY <1>1, <1>2, <1>3, <1>4, <2>1 DEF Mentioned
    <2> QED  BY <1>0, <1>4, <2>1 DEF Names, Known
<1>6. Folder'
    BY <1>0, <1>1, <1>2, <1>4 DEF Folder
<1>7. Claims'
    BY <1>0, <1>1, <1>2, <1>3, <1>4 DEF Claims, Kept, Unhurt, At
<1>8. Forms'
    BY <1>0, <1>1, <1>2, <1>3, <1>4 DEF Forms
<1>9. Owned'
    BY <1>0, <1>1, <1>2, <1>3, <1>4 DEF Owned, Owner, Forms
<1>10. Leftovers'
    BY <1>1, <1>2, <1>3 DEF Leftovers, Pending, At
<1> QED  BY <1>5, <1>6, <1>7, <1>8, <1>9, <1>10 DEF IInv

(* The rows that are too much are listed: either those of all saves but the      *)
(* page's, or whatever had been added since the last listing.                    *)
LEMMA ListKeeps ==
    ASSUME IInv, TypeOK', NEW t \in Tabs, List(t)
    PROVE  IInv'
<1> USE DEF editor, requests, store, history
<1>0. TypeOK /\ Names /\ Folder /\ Claims /\ Forms /\ Owned /\ Leftovers
    BY DEF IInv
<1>1. /\ save[t] \in Saves /\ save'[t] \in Saves
      /\ save'[t].text = save[t].text /\ save'[t].at = "listed"
      /\ save'[t].gone = rows \ save[t].text /\ save'[t].file = save[t].file
      /\ \A v \in Tabs \ {t} : save'[v] = save[v]
    BY <1>0, ListWhat DEF Gone
<1>2. save[t] # None /\ save'[t] # None /\ save[t].at = "stored"
    BY <1>1, RichEditorAssumption DEF List, At
<1>3. /\ UNCHANGED <<past, clipboard, uploads, drawn, published, rows, files, sweeping, torn>>
      /\ fresh' = {} /\ cut' = FALSE
    BY DEF List
<1>4. Names'
    <2>1. ASSUME NEW p \in Photos, Mentioned(p)'
          PROVE  Mentioned(p)
        BY <1>1, <1>2, <1>3, <2>1 DEF Mentioned
    <2> QED  BY <1>0, <1>3, <2>1 DEF Names, Known
<1>5. Folder'
    BY <1>0, <1>1, <1>2, <1>3 DEF Folder
<1>6. Claims'
    BY <1>0, <1>1, <1>2, <1>3 DEF Claims, Kept, Unhurt, At
<1>7. Forms'
    BY <1>0, <1>1, <1>2, <1>3 DEF Forms
<1>8. Owned'
    BY <1>0, <1>1, <1>2, <1>3 DEF Owned, Owner
<1>9. Leftovers'
    <2>1. CASE Pending
        <3>1. PICK v \in Tabs : At(v, "stored") /\ save[v].text = published
            BY <2>1 DEF Pending
        <3>2. CASE v = t
            <4>1. \A p \in rows : p \in published \/ Going(p)'
                BY <1>1, <1>2, <3>1, <3>2 DEF Going, At
            <4>2. Settled'
                BY <1>3, <4>1 DEF Settled
            <4> QED  BY <1>3, <4>2 DEF Leftovers
        <3>3. CASE v # t
            BY <1>1, <1>3, <3>1, <3>3 DEF Leftovers, Pending, At
        <3> QED  BY <3>2, <3>3
    <2>2. CASE ~Pending
        <3>1. Settled
            BY <1>0, <1>2, <2>2 DEF Leftovers, At, TypeOK
        <3>2. save[t].text \cap fresh = {}
            BY <1>2, <3>1 DEF Settled, At
        <3>3. ASSUME NEW p \in rows
              PROVE  p \in published \/ Going(p)'
            <4>1. CASE p \in fresh
                BY <1>1, <1>2, <3>2, <4>1 DEF Going, At
            <4>2. CASE p \notin fresh /\ ~(p \in published)
                <5>1. PICK v \in Tabs : At(v, "listed") /\ p \in save[v].gone
                    BY <3>1, <3>3, <4>2 DEF Settled, Going
                <5>2. v # t
                    BY <1>2, <5>1 DEF At
                <5> QED  BY <1>1, <5>1, <5>2 DEF Going, At
            <4> QED  BY <4>1, <4>2
        <3>4. Settled'
            BY <1>3, <3>3 DEF Settled
        <3> QED  BY <1>3, <3>4 DEF Leftovers
    <2> QED  BY <2>1, <2>2
<1> QED  BY <1>4, <1>5, <1>6, <1>7, <1>8, <1>9 DEF IInv

(* A row is deleted: whoever held its photo tears it, and the owner of the page *)
(* is either one that holds it, or the save itself, whose text has no such one. *)
LEMMA DeleteRowKeeps ==
    ASSUME IInv, TypeOK', NEW t \in Tabs, DeleteRow(t)
    PROVE  IInv'
<1> USE DEF editor, requests, store, history
<1>0. TypeOK /\ Names /\ Folder /\ Claims /\ Forms /\ Owned /\ Leftovers
    BY DEF IInv
<1>1. /\ save[t] \in Saves /\ save[t].at = "listed" /\ save'[t] \in Saves
      /\ save'[t].text = save[t].text /\ save'[t].at = "listed"
      /\ \A v \in Tabs \ {t} : save'[v] = save[v]
    BY <1>0, DeleteRowWhat
<1>2. PICK p \in save[t].gone :
          /\ save'[t].gone = save[t].gone \ {p} /\ save'[t].file = p
          /\ rows' = rows \ {p}
          /\ torn' = IF Held(t, p) THEN torn \cup {p} ELSE torn
    BY <1>0, DeleteRowWhat
<1>3. save[t] # None /\ save'[t] # None /\ p \in Photos
    BY <1>1, RichEditorAssumption DEF Saves
<1>4. UNCHANGED <<past, clipboard, uploads, drawn, published, files, sweeping, fresh, cut>>
    BY DEF DeleteRow
<1>5. Names'
    <2>1. ASSUME NEW q \in Photos, Mentioned(q)'
          PROVE  Mentioned(q)
        BY <1>1, <1>2, <1>3, <1>4, <2>1 DEF Mentioned
    <2> QED  BY <1>0, <1>4, <2>1 DEF Names, Known
<1>6. Folder'
    BY <1>0, <1>1, <1>2, <1>3, <1>4 DEF Folder
<1>7. p \notin save[t].text
    BY <1>0, <1>1, <1>2, <1>3 DEF Forms
<1>8. /\ Kept \ {p} \subseteq Kept'
      /\ Held(t, p) => p \in Kept'
    BY <1>2 DEF Kept
<1>9. p \in published => Held(t, p)
    <2>1. PICK v \in Tabs : Owner(v)
        BY <1>0 DEF Owned
    <2>2. CASE v = t
        BY <1>1, <1>3, <1>7, <2>1, <2>2 DEF Owner
    <2>3. CASE v # t
        BY <2>1, <2>3 DEF Owner, Held
    <2> QED  BY <2>2, <2>3
<1>10. Claims'
    <2>1. published' \cap Photos \subseteq Kept' /\ clipboard' \cap Photos \subseteq Kept'
        BY <1>0, <1>4, <1>8, <1>9 DEF Claims, Held
    <2>2. \A u \in uploads' : u.at = "row" => u.pic \in Kept'
        BY <1>0, <1>4, <1>8 DEF Claims, Held
    <2>3. ASSUME NEW v \in Tabs, save'[v] # None
          PROVE  save'[v].text \cap Photos \subseteq Kept'
        <3>1. CASE v = t
            BY <1>0, <1>1, <1>3, <1>7, <1>8, <3>1 DEF Claims
        <3>2. CASE v # t
            BY <1>0, <1>1, <1>8, <2>3, <3>2 DEF Claims, Held
        <3> QED  BY <3>1, <3>2
    <2>4. ASSUME NEW v \in Tabs, Unhurt(v)'
          PROVE  past'[v] \cap Photos \subseteq Kept'
        <3>1. v # t /\ Unhurt(v)
            BY <1>1, <1>3, <2>4 DEF Unhurt, At
        <3> QED  BY <1>0, <1>4, <1>8, <3>1 DEF Claims, Held
    <2> QED  BY <2>1, <2>2, <2>3, <2>4 DEF Claims
<1>11. Forms'
    BY <1>0, <1>1, <1>2, <1>3, <1>4 DEF Forms
<1>12. Owned'
    BY <1>0, <1>1, <1>3, <1>4 DEF Owned, Owner
<1>13. Leftovers'
    <2>1. \A v \in Tabs : At(v, "stored")' <=> At(v, "stored")
        BY <1>1, <1>3 DEF At
    <2>2. Pending => Pending'
        BY <1>1, <1>4, <2>1 DEF Pending
    <2>3. Settled => Settled'
        <3> SUFFICES ASSUME Settled  PROVE Settled'
            OBVIOUS
        <3>1. ASSUME NEW q \in rows' \ fresh', ~(q \in published')
              PROVE  Going(q)'
            <4>1. q \in rows \ fresh /\ q # p /\ ~(q \in published)
                BY <1>2, <1>4, <3>1
            <4>2. PICK v \in Tabs : At(v, "listed") /\ q \in save[v].gone
                BY <4>1 DEF Settled, Going
            <4>3. CASE v = t
                BY <1>1, <1>2, <1>3, <4>1, <4>2, <4>3 DEF Going, At
            <4>4. CASE v # t
                BY <1>1, <4>2, <4>4 DEF Going, At
            <4> QED  BY <4>3, <4>4
        <3>2. \A v \in Tabs : At(v, "stored")' => save'[v].text \cap fresh' = {}
            BY <1>1, <1>4, <2>1 DEF Settled
        <3> QED  BY <3>1, <3>2 DEF Settled
    <2> QED  BY <1>0, <1>4, <2>1, <2>2, <2>3 DEF Leftovers
<1> QED  BY <1>5, <1>6, <1>10, <1>11, <1>12, <1>13 DEF IInv

(* A file goes that no row has; the form is rendered once nothing is left to delete. *)
LEMMA FinishKeeps ==
    ASSUME IInv, TypeOK', NEW t \in Tabs, DeleteFile(t) \/ Render(t)
    PROVE  IInv'
<1> USE DEF editor, requests, store, history
<1>0. TypeOK /\ Names /\ Folder /\ Claims /\ Forms /\ Owned /\ Leftovers
    BY DEF IInv
<1>1. UNCHANGED <<past, clipboard, uploads, drawn, published, rows, sweeping, torn, fresh, cut>>
    BY DEF DeleteFile, Render
<1>2. /\ save[t] \in Saves /\ save[t].at = "listed" /\ save'[t] \in Saves
      /\ \A v \in Tabs \ {t} : save'[v] = save[v]
      /\ save'[t].gone = save[t].gone
    BY <1>0, DeleteFileWhat, RenderWhat DEF DeleteFile, Render, At
<1>3. save[t] # None /\ save'[t] # None /\ None \notin rows
    BY <1>0, <1>2, RichEditorAssumption DEF TypeOK
<1>4. CASE DeleteFile(t)
    <2>1. /\ save'[t].text = save[t].text /\ save'[t].at = "listed" /\ save'[t].file = None
          /\ files' = files \ {save[t].file} /\ save[t].file \in Photos
        BY <1>0, <1>2, <1>4, DeleteFileWhat DEF DeleteFile, Saves
    <2>2. Names'
        <3>1. ASSUME NEW p \in Photos, Mentioned(p)'
              PROVE  Mentioned(p)
            BY <1>1, <1>2, <1>3, <2>1, <3>1, RichEditorAssumption DEF Mentioned
        <3> QED  BY <1>0, <1>1, <3>1 DEF Names, Known
    <2>3. Folder'
        <3>1. Mentioned(save[t].file)
            BY <1>3 DEF Mentioned
        <3>2. \A u \in uploads : u.at = "file" => u.pic # save[t].file
            BY <1>0, <2>1, <3>1 DEF Names, Known
        <3>3. save[t].file \notin rows
            BY <1>0, <1>3 DEF Folder
        <3> QED  BY <1>0, <1>1, <1>2, <1>3, <2>1, <3>2, <3>3 DEF Folder
    <2>4. Claims'
        BY <1>0, <1>1, <1>2, <1>3, <2>1 DEF Claims, Kept, Unhurt, At
    <2>5. Forms' /\ Owned'
        BY <1>0, <1>1, <1>2, <1>3, <2>1 DEF Forms, Owned, Owner
    <2>6. Leftovers'
        BY <1>0, <1>1, <1>2, <1>3, <2>1 DEF Leftovers, Pending, Settled, Going, At
    <2> QED  BY <2>2, <2>3, <2>4, <2>5, <2>6 DEF IInv
<1>5. CASE Render(t)
    <2>1. /\ save'[t].text = published /\ save'[t].at = "done" /\ save'[t].file = save[t].file
          /\ save[t].gone = {} /\ files' = files
        BY <1>0, <1>5, RenderWhat DEF Render
    <2>2. Names'
        <3>1. ASSUME NEW p \in Photos, Mentioned(p)'
              PROVE  Mentioned(p)
            BY <1>1, <1>2, <1>3, <2>1, <3>1 DEF Mentioned
        <3> QED  BY <1>0, <1>1, <3>1 DEF Names, Known
    <2>3. Folder'
        BY <1>0, <1>1, <1>2, <1>3, <2>1 DEF Folder
    <2>4. Claims'
        BY <1>0, <1>1, <1>2, <1>3, <2>1 DEF Claims, Kept, Unhurt, At
    <2>5. Forms' /\ Owned'
        BY <1>0, <1>1, <1>2, <1>3, <2>1 DEF Forms, Owned, Owner
    <2>6. Leftovers'
        <3>1. \A v \in Tabs : At(v, "stored")' <=> At(v, "stored")
            BY <1>2, <1>3, <2>1 DEF At
        <3>2. Pending => Pending'
            BY <1>1, <1>2, <3>1 DEF Pending, At
        <3>3. \A p : Going(p) => Going(p)'
            BY <1>2, <2>1 DEF Going, At
        <3>4. Settled => Settled'
            BY <1>1, <1>2, <3>1, <3>3 DEF Settled, At
        <3> QED  BY <1>0, <1>1, <3>1, <3>2, <3>4 DEF Leftovers
    <2> QED  BY <2>2, <2>3, <2>4, <2>5, <2>6 DEF IInv
<1> QED  BY <1>4, <1>5

(* A crash ends every request: the photos a save had deleted are torn where the *)
(* form is still open, and the save that was cut short has left what it left.   *)
LEMMA CrashKeeps ==
    ASSUME IInv, TypeOK', Crash
    PROVE  IInv'
<1> USE DEF editor, requests, store, history
<1>0. TypeOK /\ Names /\ Folder /\ Claims /\ Forms /\ Owned /\ Leftovers
    BY DEF IInv
<1>1. /\ uploads' = {} /\ sweeping' = {} /\ \A t \in Tabs : save'[t] = None
      /\ UNCHANGED <<past, clipboard, drawn, published, rows, files, fresh>>
    BY DEF Crash
<1>2. torn \subseteq torn' /\ \A t \in Tabs : save[t] # None => StillThere(t) \subseteq torn'
    BY DEF Crash
<1>3. Names' /\ Folder' /\ Forms' /\ Owned'
    <2>1. ASSUME NEW p \in Photos, Mentioned(p)'
          PROVE  Mentioned(p)
        BY <1>1, <2>1 DEF Mentioned
    <2>2. Names'
        BY <1>0, <1>1, <2>1 DEF Names, Known
    <2>3. Folder' /\ Forms' /\ Owned'
        BY <1>0, <1>1 DEF Folder, Forms, Owned, Owner
    <2> QED  BY <2>2, <2>3
<1>4. Claims'
    <2>1. Kept \subseteq Kept'
        BY <1>1, <1>2 DEF Kept
    <2>2. ASSUME NEW t \in Tabs
          PROVE  past'[t] \cap Photos \subseteq Kept'
        <3>1. CASE save[t] = None
            BY <1>0, <1>1, <2>1, <3>1 DEF Claims, Unhurt
        <3>2. CASE save[t] # None
            BY <1>1, <1>2, <3>2 DEF StillThere, Kept
        <3> QED  BY <3>1, <3>2
    <2> QED  BY <1>0, <1>1, <2>1, <2>2 DEF Claims
<1>5. Leftovers'
    <2>1. ~(\E t \in Tabs : At(t, "stored")')
        BY <1>1 DEF At
    <2>2. ASSUME ~cut'
          PROVE  Settled'
        <3>1. ~cut /\ \A t \in Tabs : ~At(t, "stored") /\ ~At(t, "listed")
            BY <2>2 DEF Crash
        <3>2. Settled
            BY <1>0, <3>1 DEF Leftovers, Pending
        <3>3. \A p \in rows \ fresh : p \in published
            BY <3>1, <3>2 DEF Settled, Going
        <3> QED  BY <1>1, <2>1, <3>3 DEF Settled
    <2> QED  BY <2>1, <2>2 DEF Leftovers
<1> QED  BY <1>3, <1>4, <1>5 DEF IInv

(* The sweep takes files that have neither a row nor an upload to make one. *)
LEMMA SweepKeeps ==
    ASSUME IInv, TypeOK', SweepList \/ SweepFile
    PROVE  IInv'
<1> USE DEF editor, requests, store, history
<1>0. TypeOK /\ Names /\ Folder /\ Claims /\ Forms /\ Owned /\ Leftovers
    BY DEF IInv
<1>1. UNCHANGED <<past, clipboard, uploads, drawn, save, published, rows, torn, fresh, cut>>
    BY DEF SweepList, SweepFile
<1>2. Claims' /\ Forms' /\ Owned' /\ Leftovers'
    <2>1. Claims' /\ Forms'
        BY <1>0, <1>1 DEF Claims, Kept, Unhurt, At, Forms
    <2>2. Owned' /\ Leftovers'
        BY <1>0, <1>1 DEF Owned, Owner, Leftovers, Pending, Settled, Going, At
    <2> QED  BY <2>1, <2>2
<1>3. CASE SweepList
    <2>1. sweeping' = Old \ rows /\ files' = files
        BY <1>3 DEF SweepList
    <2>2. ASSUME NEW p \in Photos, Mentioned(p)'
          PROVE  Known(p)'
        <3>1. CASE p \in sweeping'
            BY <1>0, <1>1, <2>1, <3>1 DEF Old, Known, TypeOK
        <3>2. CASE p \notin sweeping'
            <4>1. Mentioned(p)
                BY <1>1, <2>2, <3>2 DEF Mentioned
            <4> QED  BY <1>0, <1>1, <4>1 DEF Names, Known
        <3> QED  BY <3>1, <3>2
    <2>3. Names'
        BY <1>0, <1>1, <2>2 DEF Names
    <2>4. Folder'
        BY <1>0, <1>1, <2>1 DEF Folder
    <2> QED  BY <1>2, <2>3, <2>4 DEF IInv
<1>4. CASE SweepFile
    <2>1. PICK p \in sweeping : files' = files \ {p} /\ sweeping' = sweeping \ {p}
        BY <1>4 DEF SweepFile
    <2>2. ASSUME NEW q \in Photos, Mentioned(q)'
          PROVE  Mentioned(q)
        BY <1>1, <2>1, <2>2 DEF Mentioned
    <2>3. Names'
        BY <1>0, <1>1, <2>2 DEF Names, Known
    <2>4. Folder'
        <3>1. p \in Photos /\ p \notin rows /\ Mentioned(p)
            BY <1>0, <2>1 DEF Folder, TypeOK, Mentioned
        <3>2. \A u \in uploads : u.at = "file" => u.pic # p
            BY <1>0, <3>1 DEF Names, Known
        <3> QED  BY <1>0, <1>1, <2>1, <3>1, <3>2 DEF Folder
    <2> QED  BY <1>2, <2>3, <2>4 DEF IInv
<1> QED  BY <1>3, <1>4

-----------------------------------------------------------------------------
(* The theorems. *)

LEMMA InvariantNext == IInv /\ [Next]_vars => IInv'
<1> SUFFICES ASSUME IInv, [Next]_vars  PROVE IInv'
    OBVIOUS
<1>0. TypeOK /\ Names
    BY DEF IInv
<1>1. ASSUME NEW t \in Tabs, Person(t)
      PROVE  IInv'
    <2>1. TypeOK'
        BY <1>0, <1>1, TypesOfPerson
    <2> QED
        BY <1>1, <2>1, EditsKeep, UploadKeeps, ShowsKeeps, SendKeeps DEF Person
<1>2. ASSUME NEW t \in Tabs, Saving(t)
      PROVE  IInv'
    <2>1. TypeOK'
        BY <1>0, <1>2, TypesOfSaving
    <2> QED
        BY <1>2, <2>1, OverKeeps, PublishKeeps, ListKeeps, DeleteRowKeeps, FinishKeeps, ShowsKeeps DEF Saving
<1>3. ASSUME NEW u \in uploads, SaveFile(u) \/ InsertRow(u) \/ Uploaded(u) \/ NotUploaded(u)
      PROVE  IInv'
    BY <1>0, <1>3, TypesOfUploads, UploadsKeep
<1>4. CASE Crash \/ SweepList \/ SweepFile
    BY <1>0, <1>4, TypesOfServer, CrashKeeps, SweepKeeps
<1>5. CASE UNCHANGED vars
    <2>1. UNCHANGED <<text, selected, past, clipboard, uploads, drawn, save, published, rows, files, sweeping,
                      torn, fresh, cut, turns, troubles>>
        BY <1>5 DEF vars, editor, requests, store, history
    <2>2. TypeOK' /\ Names' /\ Folder'
        BY <1>0, <2>1 DEF IInv, TypeOK, Names, Mentioned, Known, Folder
    <2>3. Claims' /\ Forms' /\ Owned'
        BY <2>1 DEF IInv, Claims, Kept, Unhurt, At, Forms, Owned, Owner
    <2>4. Leftovers'
        BY <2>1 DEF IInv, Leftovers, Pending, Settled, Going, At
    <2> QED  BY <2>2, <2>3, <2>4 DEF IInv
<1> QED  BY <1>1, <1>2, <1>3, <1>4, <1>5 DEF Next

LEMMA InvariantHolds == Spec => []IInv
BY InvariantFirst, InvariantNext, PTL DEF Spec

(* The editor's areas, the requests under way and the server's photos keep their *)
(* types: in particular what is selected is always a part of the text.           *)
THEOREM TypesHold == Spec => []TypeOK
<1>1. IInv => TypeOK
    BY DEF IInv
<1> QED  BY <1>1, InvariantHolds, PTL

(* However saves, uploads and the sweep overlap, a photo of the public page has  *)
(* its row and its file, unless it was deleted while something still held it.    *)
THEOREM PhotosExist == Spec => []PublishedPhotosExist
<1>1. IInv => PublishedPhotosExist
    BY DEF IInv, Folder, Claims, Kept, PublishedPhotosExist
<1> QED  BY <1>1, InvariantHolds, PTL

(* No row is without its file; and when no save is under way, or was cut short, *)
(* the table has the photos of the page and those uploaded since.               *)
THEOREM NoPhotosLeft == Spec => []NothingLeftOver
<1>1. ASSUME IInv  PROVE NothingLeftOver
    <2>1. Folder /\ Leftovers
        BY <1>1 DEF IInv
    <2>2. ASSUME ~cut, \A t \in Tabs : ~At(t, "stored") /\ ~At(t, "listed")
          PROVE  rows \subseteq published \cup fresh
        <3>1. Settled
            BY <2>1, <2>2 DEF Leftovers, Pending
        <3> QED  BY <2>2, <3>1 DEF Settled, Going
    <2> QED  BY <2>1, <2>2 DEF NothingLeftOver, Folder
<1> QED  BY <1>1, InvariantHolds, PTL
=============================================================================
