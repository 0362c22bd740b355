-------------------------------- MODULE Roles -------------------------------
(***************************************************************************)
(* What one member may do in the LUG: the role on their record, where it   *)
(* comes from (role_source), and who writes either.                        *)
(*                                                                         *)
(* An admin gives roles by hand; signing in and the sync give the role     *)
(* that the member's Discord roles are mapped to.  All read the record     *)
(* first - the sync and signing in the source too, by another query - and  *)
(* write the role with the rest of the row, and then the source.  Changes  *)
(* that are not about the role (the member's own page, the nickname        *)
(* refresh, undoing a change of name) write it as they have read it.       *)
(* The bootstrap admin, whom nothing demotes, is left out; a chapter lead  *)
(* and a moderator rank the same and are one role here.                    *)
(***************************************************************************)
EXTENDS Integers

CONSTANTS
    Requests,    \* request and sync threads
    Nothing      \* none of their Discord roles is mapped; no role on the form

VARIABLES
    memberRole,  \* members.role
    source,      \* members.role_source
    mapped,      \* the role their Discord roles are mapped to, or Nothing
    inGuild,     \* whether they are on the Discord server
    granted,     \* history: the last role given by hand, or Nothing
    request,     \* what each request has read and is about to do
    raced        \* history: a request wrote on what was no longer so, or half of it

roleVars == <<memberRole, source, mapped, inGuild, granted, request, raced>>

RoleNames == {"member", "moderator", "admin"}
Rank(r) == CASE r = "admin" -> 3 [] r = "moderator" -> 2 [] r = "member" -> 1 [] OTHER -> 0
Sources == {"manual", "discord"}

ASSUME RolesAssumption == Nothing \notin RoleNames

Idle == [op |-> "idle", by |-> "nobody", role |-> "member", mapped |-> Nothing,
         source |-> "discord", stale |-> FALSE]
Request == [op : {"idle", "find", "fetch", "source", "update", "save", "mark"},
            by : {"nobody", "hand", "copy", "sync", "departed", "login", "refresh"},
            role : RoleNames \cup {Nothing}, mapped : RoleNames \cup {Nothing}, source : Sources,
            stale : BOOLEAN]

(* A record imported from Discord, or created by a person with some role. *)
RolesInit ==
    /\ mapped \in RoleNames \cup {Nothing}
    /\ inGuild = TRUE
    /\ \/ source = "discord" /\ granted = Nothing /\ memberRole = (IF mapped = Nothing THEN "member" ELSE mapped)
       \/ source = "manual" /\ memberRole \in RoleNames \ {"member"} /\ granted = memberRole
    /\ request = [r \in Requests |-> Idle]
    /\ raced = FALSE

-----------------------------------------------------------------------------
(* role_sync::next_role and next_source *)
Raises(r, m) == m # Nothing /\ Rank(m) > Rank(r)

\* Mutant of NextRole: a role given by hand follows Discord as well.
NextRoleFollows(r, s, m) == IF m = Nothing THEN "member" ELSE m

NextRole(r, s, m) ==
    IF s = "manual" THEN IF Raises(r, m) THEN m ELSE r
    ELSE IF m = Nothing THEN "member" ELSE m

\* Mutant of NextSource: once given by hand, always by hand.
NextSourceStays(r, s, m) == s

NextSource(r, s, m) == IF s = "manual" /\ ~Raises(r, m) THEN "manual" ELSE "discord"

Reads(r, q) ==
    /\ request' = [request EXCEPT ![r] = q]
    /\ UNCHANGED <<memberRole, source, mapped, inGuild, granted, raced>>

(* The record changes under the requests that have read it; r goes on to q. *)
Writes(r, q) ==
    /\ request' = [p \in Requests |-> IF p = r THEN q
                      ELSE [request[p] EXCEPT !.stale = request[p].op \notin {"idle", "find"}]]
    /\ raced' = (raced \/ request[r].stale)
    /\ UNCHANGED <<mapped, inGuild>>

-----------------------------------------------------------------------------
(* Signing in: the record, then their Discord roles from Discord, which may
   not answer (no role sync then), then the source. *)
Login(r) ==
    /\ request[r].op = "idle"
    /\ Reads(r, [Idle EXCEPT !.op = "fetch", !.by = "login", !.role = memberRole])

Fetched(r) ==
    /\ request[r].op = "fetch"
    /\ Reads(r, [request[r] EXCEPT !.op = "source", !.mapped = mapped])

NoAnswer(r) ==   \* their Discord name may still be new
    /\ request[r].op = "fetch"
    /\ \E newName \in BOOLEAN :
          Reads(r, IF newName THEN [request[r] EXCEPT !.op = "save", !.by = "refresh"] ELSE Idle)

(* The sync: the server's list, then record and source of each who is on it;
   and of each who is not, whose role it takes away. *)
SyncFetch(r) ==
    /\ request[r].op = "idle"
    /\ Reads(r, [Idle EXCEPT !.op = "find", !.by = IF inGuild THEN "sync" ELSE "departed",
                             !.mapped = IF inGuild THEN mapped ELSE Nothing])

SyncFind(r) ==
    LET q == request[r] IN
    /\ q.op = "find"
    /\ Reads(r, IF q.by = "departed" /\ memberRole = "member" THEN Idle
                ELSE [q EXCEPT !.op = "source", !.role = memberRole])

(* The source, and what follows for role and source.  The sync leaves alone
   what is right already; signing in marks the source all the same. *)
Decide(r) ==
    LET q == request[r]
        next == [q EXCEPT !.role = NextRole(q.role, source, q.mapped),
                          !.source = NextSource(q.role, source, q.mapped)]
        same == next.role = q.role
    IN /\ q.op = "source"
       /\ \E newName \in BOOLEAN :
            Reads(r, CASE q.by = "departed" ->
                            IF source = "discord" THEN [next EXCEPT !.op = "save"] ELSE Idle
                       [] q.by = "sync" ->
                            IF same /\ ~newName THEN Idle ELSE [next EXCEPT !.op = "save"]
                       [] OTHER ->
                            [next EXCEPT !.op = IF same /\ ~newName THEN "mark" ELSE "save"])

-----------------------------------------------------------------------------
(* A role on the form or in the API, or none: the role they have. *)
Give(r) ==
    /\ request[r].op = "idle"
    /\ \E g \in RoleNames \cup {Nothing} :
          Reads(r, [Idle EXCEPT !.op = "update", !.by = "hand", !.role = g, !.mapped = g])

(* The member's own page, the API without a role and undoing a change of name
   start from a copy of the record. *)
CopyRecord(r) ==
    /\ request[r].op = "idle"
    /\ Reads(r, [Idle EXCEPT !.op = "update", !.by = "copy", !.role = memberRole])

(* MemberService::update reads the record again; a role that differs from the
   one there is taken for a human's decision. *)
Update(r) ==
    LET q == request[r] IN
    /\ q.op = "update"
    /\ Reads(r, [q EXCEPT !.op = "save", !.role = IF @ = Nothing THEN memberRole ELSE @,
                          !.source = IF q.role \notin {Nothing, memberRole} THEN "manual" ELSE "discord"])

(* The nickname refresh. *)
ReadRecord(r) ==
    /\ request[r].op = "idle"
    /\ Reads(r, [Idle EXCEPT !.op = "save", !.by = "refresh", !.role = memberRole])

\* Mutant of Save: no role on the form leaves the record without one.
SaveBlank(r) ==
    LET q == request[r] IN
    /\ q.op = "save"
    /\ memberRole' = IF q.by = "hand" THEN q.mapped ELSE q.role
    /\ granted' = IF q.by = "hand" /\ q.mapped # Nothing THEN q.mapped ELSE granted
    /\ Writes(r, IF q.by \in {"sync", "login"} \/ (q.by \in {"hand", "copy"} /\ q.source = "manual")
                 THEN [q EXCEPT !.op = "mark"] ELSE Idle)
    /\ UNCHANGED source

(* MemberRepository::update, and what comes after it: the sync and signing in
   always set the source, an update when it gave a role. *)
Save(r) ==
    LET q == request[r] IN
    /\ q.op = "save"
    /\ memberRole' = q.role
    /\ granted' = IF q.by = "hand" /\ q.mapped # Nothing THEN q.mapped ELSE granted
    /\ Writes(r, IF q.by \in {"sync", "login"} \/ (q.by \in {"hand", "copy"} /\ q.source = "manual")
                 THEN [q EXCEPT !.op = "mark"] ELSE Idle)
    /\ UNCHANGED source

Mark(r) ==
    LET q == request[r] IN
    /\ q.op = "mark"
    /\ source' = q.source
    /\ Writes(r, Idle)
    /\ UNCHANGED <<memberRole, granted>>

(* Merging a duplicate that ranks higher into this record: its role and its
   source, in the merge's transaction. *)
Merge ==
    \E r \in RoleNames, s \in Sources :
        /\ Rank(r) > Rank(memberRole)
        /\ memberRole' = r /\ source' = s
        /\ granted' = IF s = "manual" THEN r ELSE Nothing
        /\ request' = [p \in Requests |->
                          [request[p] EXCEPT !.stale = request[p].op \notin {"idle", "find"}]]
        /\ UNCHANGED <<mapped, inGuild, raced>>

(* On Discord: their roles, or the mapping, change; they leave or come back. *)
Discord ==
    /\ mapped' \in RoleNames \cup {Nothing}
    /\ inGuild' \in BOOLEAN
    /\ UNCHANGED <<memberRole, source, granted, request, raced>>

(* A request ends before it has written all: an error, a restart. *)
Abandon(r) ==
    /\ request[r].op # "idle"
    /\ request' = [request EXCEPT ![r] = Idle]
    /\ raced' = (raced \/ request[r].op = "mark")
    /\ UNCHANGED <<memberRole, source, mapped, inGuild, granted>>

Step(r) ==
    \/ Login(r) \/ Fetched(r) \/ NoAnswer(r)
    \/ SyncFetch(r) \/ SyncFind(r) \/ Decide(r)
    \/ Give(r) \/ CopyRecord(r) \/ Update(r) \/ ReadRecord(r)
    \/ Save(r) \/ Mark(r) \/ Abandon(r)

RolesNext == Merge \/ Discord \/ \E r \in Requests : Step(r)

RolesSpec == RolesInit /\ [][RolesNext]_roleVars

-----------------------------------------------------------------------------
(* Properties *)

(* Every variable has its type. *)
RolesTypeOK ==
    /\ memberRole \in RoleNames /\ source \in Sources
    /\ mapped \in RoleNames \cup {Nothing} /\ inGuild \in BOOLEAN
    /\ granted \in RoleNames \cup {Nothing}
    /\ request \in [Requests -> Request]
    /\ raced \in BOOLEAN

(* "Manual roles are never lowered by sync": whatever else is under way, a   *)
(* sync or a sign-in that writes on what is still so takes nothing away from *)
(* a role given by hand.                                                     *)
Synced(r) == request[r].op = "save" /\ request[r].by \in {"sync", "departed", "login"}
ManualIsKept ==
    [][\A r \in Requests : Synced(r) /\ request'[r].op # "save" /\ source = "manual" /\ ~raced'
          => Rank(memberRole') >= Rank(memberRole)]_roleVars

(* A role marked as given by hand is the one that was given by hand last,    *)
(* once the source is written, and as long as no request has written on what *)
(* was no longer so or only the first half.                                  *)
SourceIsHonest ==
    ~raced /\ source = "manual" /\ (\A r \in Requests : request[r].op # "mark")
        => memberRole = granted
=============================================================================
