----------------------------- MODULE MCMembers ------------------------------
(***************************************************************************)
(* Small instances of the two modules about who a member is on the site,   *)
(* Sessions and Roles.  They share no state (a session's role is read from *)
(* the row whatever wrote it): each behaviour is one of theirs.            *)
(***************************************************************************)
EXTENDS Sessions, Roles, TLC

VARIABLE part

Alike == Permutations(Requests)

(* The part that rests is in one of its initial states. *)
PartInit ==
    /\ Init /\ RolesInit
    /\ \/ part = "sessions" /\ mapped = Nothing /\ source = "discord"
       \/ part = "roles" /\ role = [m \in Members |-> CHOOSE r \in Roles : TRUE]

PartNext ==
    \/ part = "sessions" /\ Next /\ UNCHANGED <<roleVars, part>>
    \/ part = "roles" /\ RolesNext /\ UNCHANGED <<vars, part>>

PartSpec == PartInit /\ [][PartNext]_<<vars, roleVars, part>>
=============================================================================
