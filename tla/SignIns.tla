------------------------------- MODULE SignIns ------------------------------
(***************************************************************************)
(* What being signed in promises.  A session belongs to a member and is    *)
(* over at some time; a look-up of its token is answered by who the member *)
(* is now, or refused if the session is over or was ended.  There is one   *)
(* truth: no cache, no steps in between.                                   *)
(***************************************************************************)
EXTENDS Integers

CONSTANTS
    Tokens,      \* random tokens; none is ever drawn twice
    Members,
    Roles,
    Life,        \* how long an unused session lasts
    Day,         \* a session is extended once per Day
    None

VARIABLES
    session,     \* per token: its member and until when, or None
    spent,       \* tokens that have been drawn
    role,        \* the role of every member, None once deleted
    now,
    answer       \* of the last look-up: whose session, with which role, and when

vars == <<session, spent, role, now, answer>>

Session == [member : Members, until : Nat]
Answer == [token : Tokens, member : Members, role : Roles, at : Nat]

Init ==
    /\ session = [t \in Tokens |-> None]
    /\ spent = {}
    /\ role \in [Members -> Roles]
    /\ now = 0
    /\ answer = None

Over(t) == session[t] = None \/ session[t].until <= now
Welcome(t) == [token |-> t, member |-> session[t].member, role |-> role[session[t].member], at |-> now]
Without(S) == [t \in Tokens |-> IF t \in S THEN None ELSE session[t]]

Begin(t, m) ==
    /\ t \notin spent /\ role[m] # None
    /\ spent' = spent \cup {t}
    /\ session' = [session EXCEPT ![t] = [member |-> m, until |-> now + Life]]
    /\ UNCHANGED <<role, now, answer>>

(* Looking up a session that is over may tidy it away. *)
Look(t) ==
    /\ answer' = IF Over(t) THEN None ELSE Welcome(t)
    /\ session' = session \/ (Over(t) /\ session' = Without({t}))
    /\ UNCHANGED <<spent, role, now>>

(* A session that was just used lasts for another Life. *)
Extend(t) ==
    /\ answer # None /\ answer.token = t /\ session[t] # None
    /\ session' = [session EXCEPT ![t].until = now + Life]
    /\ UNCHANGED <<spent, role, now, answer>>

SignOut(t) == session' = Without({t}) /\ UNCHANGED <<spent, role, now, answer>>

SignOutAll(m, keep) ==
    /\ session' = Without({t \in Tokens \ {keep} : session[t] # None /\ session[t].member = m})
    /\ UNCHANGED <<spent, role, now, answer>>

Tidy ==
    /\ \E S \in SUBSET {t \in Tokens : Over(t)} : session' = Without(S)
    /\ UNCHANGED <<spent, role, now, answer>>

DeleteMember(m) ==
    /\ role' = [role EXCEPT ![m] = None]
    /\ session' = Without({t \in Tokens : session[t] # None /\ session[t].member = m})
    /\ UNCHANGED <<spent, now, answer>>

SetRole(m, r) == role[m] # None /\ role' = [role EXCEPT ![m] = r] /\ UNCHANGED <<session, spent, now, answer>>

Tick == now' = now + 1 /\ UNCHANGED <<session, spent, role, answer>>

(* A crash loses the answer, never a session. *)
Restart == answer' = None /\ UNCHANGED <<session, spent, role, now>>

Next ==
    \/ \E t \in Tokens : Look(t) \/ Extend(t) \/ SignOut(t) \/ \E m \in Members : Begin(t, m)
    \/ \E m \in Members : DeleteMember(m) \/ \E r \in Roles : SetRole(m, r)
    \/ \E m \in Members, keep \in Tokens \cup {None} : SignOutAll(m, keep)
    \/ Tidy \/ Tick \/ Restart

Spec == Init /\ [][Next]_vars
=============================================================================
