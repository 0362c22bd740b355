----------------------------- MODULE MCBrowser ------------------------------
(***************************************************************************)
(* Small instances of the modules about the scripts of the pages: live     *)
(* updates, the logo editor and the editor of the About page.  They share  *)
(* no state: each behaviour is one of theirs.                              *)
(***************************************************************************)
EXTENDS RichEditor

CONSTANTS
    OneTab, Topics, StaffTopics, Pages, Tables, HookTopics, Tokens, All,
    MaxTopics, MaxChanges, MaxFaults,
    Pictures, Broken, Huge, Places, Fit, Colours, LogoTurns, MaxOthers

Scenarios ==
    {{"sessions", "returns", "staff", "faults"}, {"sessions", "links"}, {"sessions", "popups"},
     {"faults", "links"}, {"popups", "work"}, {"popups", "faults"}, {"hiding", "faults"}}

VARIABLES
    part,
    data, pending, hub, conn, wire, valid, token, spent, linked, lost, queue, applyTimer,
    hidden, hands, modal, address, shown, pill, body, next, link, tableRows, popUpSave,
    missed, faults, may,
    file, orig, state, img, view, asis, storeTimer, loading, encoding, strayed, offered,
    post, saved, mixed, logoTurns, others

Live == INSTANCE LivePages
            WITH Tabs <- OneTab, rows <- tableRows, save <- popUpSave, timer <- applyTimer
Logo == INSTANCE LogoEditor
            WITH MaxTurns <- LogoTurns, turns <- logoTurns, timer <- storeTimer

(* None is none of the values that something may have instead of it. *)
ASSUME LogoAssumption ==
    /\ Fit \in Places /\ None \notin Pictures \cup Logo!Posts
    /\ LogoTurns \in Nat /\ MaxOthers \in Nat

ASSUME LiveAssumption ==
    /\ IsFiniteSet(OneTab) /\ IsFiniteSet(Topics)
    /\ MaxChanges \in Nat /\ MaxFaults \in Nat
    /\ None \notin OneTab \cup Topics \cup Tokens \cup {"answered"} /\ "answered" \notin Topics
    /\ None \notin Live!Request

liveVars == <<data, pending, hub, conn, wire, valid, token, spent, linked, lost, queue, applyTimer,
              hidden, hands, modal, address, shown, pill, body, next, link, tableRows, popUpSave,
              missed, faults, may>>
logoVars == <<file, orig, state, img, view, asis, storeTimer, loading, encoding, strayed, offered,
              post, saved, mixed, logoTurns, others>>
allVars == <<part, vars, liveVars, logoVars>>

(* The parts that rest are in one of their initial states; tokens are all alike,  *)
(* and the logo there is, if any, is as it was sent or was moved on a background. *)
PartInit ==
    /\ part \in {"live", "logo", "rich"}
    /\ Live!Init /\ \A t \in OneTab : token[t] = CHOOSE k \in Tokens : TRUE
    /\ part # "live" => may = {"hiding", "faults"} /\ \A t \in OneTab : address[t] \in Tables
    /\ Logo!Init /\ (part # "logo" => saved.kept = Logo!Nothing)
    /\ saved.kept.state # None => saved.kept.state \in [place : Places \ {Fit}, bg : Colours]
    /\ Init /\ (part # "rich" => published = {})

LiveNext == part = "live" /\ Live!Next /\ UNCHANGED <<part, vars, logoVars>>
LogoNext == part = "logo" /\ Logo!Next /\ UNCHANGED <<part, vars, liveVars>>
RichNext == part = "rich" /\ Next /\ UNCHANGED <<part, liveVars, logoVars>>
PartNext == LiveNext \/ LogoNext \/ RichNext

PartSpec == PartInit /\ [][PartNext]_allVars /\ Live!Fairness

(* The properties of the parts, by their names. *)
TypesOK == TypeOK /\ Live!TypeOK /\ Logo!TypeOK
NothingLost == Live!NothingLost
KeepsUp == Live!KeepsUp
OnlyEndedClosed == Live!OnlyEndedClosed
SendsWhatIsShown == Logo!SendsWhatIsShown
CanBeEditedAgain == Logo!CanBeEditedAgain
=============================================================================
