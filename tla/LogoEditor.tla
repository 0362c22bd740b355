----------------------------- MODULE LogoEditor -----------------------------
(***************************************************************************)
(* The logo editor of Settings > Branding (logo_editor.js), the form it is *)
(* in, and what the server keeps of what the form sends.                   *)
(*                                                                         *)
(* A picture somebody chooses is drawn on a canvas and moved about; the    *)
(* form's inputs are filled with the result behind their back: some time   *)
(* after the last change, by an encoder that answers later.  Pictures are  *)
(* loaded in the background too.  The form is sent with its inputs as they *)
(* are, whatever is still under way.  Delays are left out: a timer fires,  *)
(* a picture is loaded and an encoding is done at some time, in any order. *)
(*                                                                         *)
(* Size and position are one value, the place.  A colour typed by halves   *)
(* is left out.                                                            *)
(***************************************************************************)
EXTENDS Naturals, FiniteSets

CONSTANTS
    Pictures,
    Broken,        \* those that pass for an image and cannot be shown
    Huge,          \* those larger than kMaxLogoBytes
    Places, Fit,   \* where the picture may be put; Fit is where it is at first
    Colours,       \* of the background, if there is one
    None,
    MaxTurns,      \* bound: what the person does
    MaxOthers      \* bound: what other admins do, and failures

VARIABLES
    file,       \* fileIn: a picture, as it is or drawn; or None
    orig,       \* origIn: the picture it was drawn from, or None
    state,      \* stateIn: how it was drawn, or None
    img,        \* img, and sourceFile with it; None until there is one
    view,       \* zoom, ox, oy, bg(): how it is drawn on the canvas
    asis,       \* "Upload the file as it is instead"
    timer,      \* store() is to be called
    loading,    \* pictures that are being loaded
    encoding,   \* canvas.toBlob() under way
    strayed,    \* history: the inputs may differ from the canvas and nothing puts it right
    offered,    \* data-state, and whether "Edit the current logo" is there
    post,       \* the form, sent
    saved,      \* the server: files and settings
    mixed,      \* history: two saves, or a save and a crash, came between each other
    turns, others

editor == <<file, orig, state, img, view, asis, timer, loading, encoding, strayed, offered>>
server == <<post, saved, mixed>>
vars == <<editor, server, turns, others>>

Views == [place : Places, bg : Colours \cup {None}]
Plain == [place |-> Fit, bg |-> None]
Files == [pic : Pictures, view : Views \cup {None}]   \* view None: the file as it is
Kept == [logo : Files \cup {None}, orig : Pictures \cup {None}, state : Views \cup {None}]
Posts == [kept : Kept, calm : BOOLEAN, at : {"sent", "logo", "answer"}]
Nothing == [logo |-> None, orig |-> None, state |-> None]

(* A logo somebody else has saved in peace. *)
Logos == {[logo |-> [pic |-> p, view |-> v], orig |-> p, state |-> v] :
              p \in Pictures \ (Broken \cup Huge), v \in Views \cup {None}}

TypeOK ==
    /\ file \in Files \cup {None} /\ orig \in Pictures \cup {None} /\ state \in Views \cup {None}
    /\ img \in Pictures \cup {None} /\ view \in Views /\ asis \in BOOLEAN /\ timer \in BOOLEAN
    /\ loading \subseteq [pic : Pictures, state : Views \cup {None}]
    /\ encoding \subseteq [pic : Pictures, view : Views, last : BOOLEAN]
    /\ strayed \in BOOLEAN
    /\ offered \in [again : BOOLEAN, state : Views \cup {None}]
    /\ post \in Posts \cup {None}
    /\ saved \in [kept : Kept, calm : BOOLEAN]
    /\ mixed \in BOOLEAN /\ turns \in 0..MaxTurns /\ others \in 0..MaxOthers

(* The page is opened with the settings of the moment. *)
Opened(now) ==
    /\ file' = None /\ orig' = None /\ state' = None /\ img' = None /\ view' = Plain
    /\ asis' = FALSE /\ timer' = FALSE /\ loading' = {} /\ encoding' = {} /\ strayed' = FALSE
    /\ offered' = [again |-> now.orig # None, state |-> now.state]

Init ==
    /\ file = None /\ orig = None /\ state = None /\ img = None /\ view = Plain
    /\ asis = FALSE /\ timer = FALSE /\ loading = {} /\ encoding = {} /\ strayed = FALSE
    /\ saved \in {[kept |-> k, calm |-> TRUE] : k \in {Nothing} \cup Logos}
    /\ offered = [again |-> saved.kept.orig # None, state |-> saved.kept.state]
    /\ post = None /\ mixed = FALSE /\ turns = 0 /\ others = 0

-----------------------------------------------------------------------------
Turn == turns < MaxTurns /\ turns' = turns + 1 /\ UNCHANGED others
Trouble == others < MaxOthers /\ others' = others + 1 /\ UNCHANGED turns

(* The editor.  load() *)
Load(p, s) == loading' = loading \cup {[pic |-> p, state |-> s]}

(* Somebody chooses a file; or none, which changes the input and nothing else. *)
Choose(p) ==
    /\ Turn
    /\ file' = [pic |-> p, view |-> None] /\ asis' = FALSE
    /\ Load(p, None)
    /\ UNCHANGED <<orig, state, img, view, timer, encoding, strayed, offered, server>>

ChooseNone ==
    /\ Turn
    /\ file # None /\ file' = None
    /\ UNCHANGED <<orig, state, img, view, asis, timer, loading, encoding, strayed, offered, server>>

(* "Edit the current logo": the original as it is now on the server, with the *)
(* settings as they were when the page was opened.                            *)
Again ==
    /\ Turn
    /\ offered.again /\ saved.kept.orig # None
    /\ Load(saved.kept.orig, offered.state)
    /\ UNCHANGED <<file, orig, state, img, view, asis, timer, encoding, strayed, offered, server>>

\* Mutant of Draw: only the canvas is drawn, and store() left to those who call.
DrawOnly(v) == view' = v /\ UNCHANGED timer

(* draw(): the timer starts anew. *)
Draw(v) == view' = v /\ timer' = TRUE

(* i.onload: a background of before stays if the settings have none. *)
Restored(s) == [place |-> s.place, bg |-> IF s.bg = None THEN view.bg ELSE s.bg]
Loaded(l) ==
    /\ l.pic \notin Broken
    /\ loading' = loading \ {l} /\ img' = l.pic
    /\ Draw(IF l.state = None THEN [view EXCEPT !.place = Fit] ELSE Restored(l.state))
    /\ UNCHANGED <<file, orig, state, asis, encoding, strayed, offered, server, turns, others>>

(* Nothing is done about a picture that cannot be shown: its file stays chosen. *)
NotLoaded(l) ==
    /\ l.pic \in Broken
    /\ loading' = loading \ {l}
    /\ strayed' = (strayed \/ (img # None /\ file # None /\ file.view = None))
    /\ UNCHANGED <<file, orig, state, img, view, asis, timer, encoding, offered, server, turns, others>>

(* The slider, the buttons, dragging, the arrow keys, the background. *)
Adjust(v) ==
    /\ Turn
    /\ img # None /\ v # view /\ Draw(v)
    /\ UNCHANGED <<file, orig, state, img, asis, loading, encoding, strayed, offered, server>>

(* store(): the file as it is goes into the form at once; the encoder takes *)
(* the canvas as it is, and answers later.                                  *)
Store(whole) ==
    \/ /\ img = None /\ UNCHANGED <<file, orig, state, encoding, strayed>>
    \/ /\ img # None /\ whole
       /\ file' = [pic |-> img, view |-> None] /\ orig' = None /\ state' = None
       /\ strayed' = FALSE /\ encoding' = {[e EXCEPT !.last = FALSE] : e \in encoding}
    \/ /\ img # None /\ ~whole
       /\ encoding' = {[e EXCEPT !.last = FALSE] : e \in encoding}
                         \cup {[pic |-> img, view |-> view, last |-> TRUE]}
       /\ strayed' = FALSE /\ UNCHANGED <<file, orig, state>>

Fire ==
    /\ timer /\ timer' = FALSE /\ Store(asis)
    /\ UNCHANGED <<img, view, asis, loading, offered, server, turns, others>>

Tick ==
    /\ Turn
    /\ img # None /\ asis' = ~asis /\ Store(asis')
    /\ UNCHANGED <<img, view, timer, loading, offered, server>>

(* toBlob's answer: the picture as it was drawn then, with the settings of now. It *)
(* is not asked whether store() has been called since, and is done with already.   *)
Overtaken(e) == ~e.last /\ \A f \in encoding : ~f.last
Encoded(e) ==
    /\ encoding' = encoding \ {e}
    /\ file' = [pic |-> e.pic, view |-> e.view] /\ orig' = img /\ state' = view
    /\ strayed' = (strayed \/ Overtaken(e))
    /\ UNCHANGED <<img, view, asis, timer, loading, offered, server, turns, others>>

NotEncoded(e) ==
    /\ Trouble
    /\ encoding' = encoding \ {e} /\ strayed' = (strayed \/ e.last)
    /\ UNCHANGED <<file, orig, state, img, view, asis, timer, loading, offered, post, saved, mixed>>

-----------------------------------------------------------------------------
(* The form is sent as it is; without a file the server refuses it. *)
Quiet == ~timer /\ loading = {} /\ encoding = {}

Submit ==
    /\ Turn
    /\ post = None /\ file # None
    /\ post' = [kept |-> [logo |-> file, orig |-> orig, state |-> state],
                calm |-> Quiet /\ ~strayed, at |-> "sent"]
    /\ UNCHANGED <<editor, saved, mixed>>

(* POST /settings/branding writes the logo, if it is not too large, *)
StoreLogo ==
    /\ post # None /\ post.at = "sent"
    /\ IF post.kept.logo.view = None /\ post.kept.logo.pic \in Huge
       THEN post' = None /\ UNCHANGED <<saved, mixed>>
       ELSE /\ saved' = [saved EXCEPT !.kept.logo = post.kept.logo]
            /\ post' = [post EXCEPT !.at = "logo"] /\ mixed' = FALSE
    /\ UNCHANGED <<editor, turns, others>>

\* Mutant of Original: the original that is kept stays when none is sent.
OriginalIfSent(k) == IF k.orig # None THEN k.orig ELSE saved.kept.orig

(* then the original (a logo sent alone is its own) and the settings. *)
Original(k) == IF k.orig # None THEN k.orig ELSE k.logo.pic
StoreOriginal ==
    /\ post # None /\ post.at = "logo"
    /\ saved' = [saved EXCEPT
           !.kept.orig = IF Original(post.kept) \in Huge THEN None ELSE Original(post.kept),
           !.kept.state = IF post.kept.orig = None THEN None ELSE post.kept.state,
           !.calm = post.calm]
    /\ post' = [post EXCEPT !.at = "answer"]
    /\ UNCHANGED <<editor, mixed, turns, others>>

(* HX-Redirect *)
Answer ==
    /\ post # None /\ post.at = "answer" /\ post' = None
    /\ Opened(saved.kept)
    /\ UNCHANGED <<saved, mixed, turns, others>>

(* Another admin saves a logo, or removes it. *)
Elsewhere ==
    /\ Trouble
    /\ \E k \in {Nothing} \cup Logos : saved' = [kept |-> k, calm |-> TRUE]
    /\ mixed' = (post # None /\ post.at = "logo")
    /\ UNCHANGED <<editor, post, turns>>

(* The server is stopped, or the answer lost. *)
Crash ==
    /\ Trouble
    /\ post # None /\ post' = None
    /\ mixed' = (mixed \/ post.at = "logo")
    /\ UNCHANGED <<editor, saved>>

Next ==
    \/ \E p \in Pictures : Choose(p)
    \/ ChooseNone \/ Again
    \/ \E l \in loading : Loaded(l) \/ NotLoaded(l)
    \/ \E v \in Views : Adjust(v)
    \/ Fire \/ Tick
    \/ \E e \in encoding : Encoded(e) \/ NotEncoded(e)
    \/ Submit \/ StoreLogo \/ StoreOriginal \/ Answer \/ Elsewhere \/ Crash

Spec == Init /\ [][Next]_vars

-----------------------------------------------------------------------------
(* Properties *)

(* How the form is filled when nothing is under way. *)
Filled ==
    IF asis
    THEN file = [pic |-> img, view |-> None] /\ orig = None /\ state = None
    ELSE file = [pic |-> img, view |-> view] /\ orig = img /\ state = view

(* What the form would send is what is shown, in whatever order pictures were    *)
(* chosen, loaded, moved and encoded, once all of that is over.  The exceptions  *)
(* are those that strayed names, and a choice taken back.                        *)
SendsWhatIsShown ==
    Quiet /\ ~strayed /\ img # None => file = None \/ Filled

(* "so it can be edited again later" (logo_editor.js): a logo saved from a form  *)
(* at rest is its original drawn with its settings, whoever else saved one       *)
(* before or after, unless two saves came between each other.                    *)
CanBeEditedAgain ==
    LET k == saved.kept IN
    saved.calm /\ ~mixed /\ (post = None \/ post.at # "logo") /\ k.orig # None
        => k.logo = [pic |-> k.orig, view |-> k.state]
=============================================================================
