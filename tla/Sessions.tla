------------------------------ MODULE Sessions ------------------------------
(***************************************************************************)
(* SessionStore: the table of sessions, the cache in front of it, and the  *)
(* look-up that every request of a signed-in member makes.                 *)
(*                                                                         *)
(* The store's mutex is held over each of its operations, but not by those *)
(* who delete or change a member: they meet an operation between two of    *)
(* its statements, and a deleted member's rows go by the foreign key while *)
(* the cache is not told.  A statement and the change of the cache after   *)
(* it are one step: nobody can see the cache in between.  Time passes at   *)
(* any moment.                                                             *)
(***************************************************************************)
EXTENDS Integers

CONSTANTS
    Tokens, Members, Roles,
    Life,        \* kSessionHours
    Day,         \* the 24 hours within which a session is extended once
    Horizon,     \* time passes until then
    None

ASSUME SessionsAssumption ==
    /\ Life \in Nat /\ Day \in Nat /\ 0 < Day /\ Day <= Life
    /\ None \notin Tokens /\ None \notin Members /\ None \notin Roles

VARIABLES
    table,       \* sessions: the row of a token, or None
    cache,       \* cache_: likewise
    spent,       \* tokens that have been drawn
    role,        \* members.role; None once the member is deleted (ids are not reused)
    now,
    lock,        \* mutex_: who holds it and how far they are
    answer       \* what the last look-up found out

vars == <<table, cache, spent, role, now, lock, answer>>

Session == [member : Members, until : Nat]
Answer == [token : Tokens, member : Members, role : Roles, at : Nat]
ASSUME NoneIsNoRecord == None \notin Session /\ None \notin Answer

Free == [at |-> "free", token |-> None, row |-> None]
Lock == [at : {"free", "read", "renew", "sweep"}, token : Tokens \cup {None}, row : Session \cup {None}]

Init ==
    /\ table = [t \in Tokens |-> None] /\ cache = [t \in Tokens |-> None]
    /\ spent = {}
    /\ role \in [Members -> Roles]
    /\ now = 0
    /\ lock = Free
    /\ answer = None

Without(f, S) == [t \in Tokens |-> IF t \in S THEN None ELSE f[t]]

(* refresh_from_member found the member: the answer carries who they are now. *)
Welcome(t, s) == answer' = [token |-> t, member |-> s.member, role |-> role[s.member], at |-> now]
Refuse == answer' = None

-----------------------------------------------------------------------------
(* create: the foreign key refuses a member who is gone. *)
Create(t, m) ==
    /\ lock = Free /\ t \notin spent /\ role[m] # None
    /\ LET s == [member |-> m, until |-> now + Life]
       IN  table' = [table EXCEPT ![t] = s] /\ cache' = [cache EXCEPT ![t] = s]
    /\ spent' = spent \cup {t}
    /\ UNCHANGED <<role, now, lock, answer>>

-----------------------------------------------------------------------------
(* find: in the cache, *)
FindExpired(t) ==
    /\ lock = Free /\ cache[t] # None /\ cache[t].until <= now
    /\ cache' = [cache EXCEPT ![t] = None] /\ table' = [table EXCEPT ![t] = None]
    /\ Refuse
    /\ UNCHANGED <<spent, role, now, lock>>

FindOrphan(t) ==
    /\ lock = Free /\ cache[t] # None /\ cache[t].until > now /\ role[cache[t].member] = None
    /\ cache' = [cache EXCEPT ![t] = None]
    /\ Refuse
    /\ UNCHANGED <<table, spent, role, now, lock>>

\* Mutant: whether the member is still there is not asked.
FindCachedUnasked(t) ==
    /\ lock = Free /\ cache[t] # None /\ cache[t].until > now
    /\ Welcome(t, cache[t])
    /\ lock' = [at |-> "renew", token |-> t, row |-> cache[t]]
    /\ UNCHANGED <<table, cache, spent, role, now>>

FindCached(t) ==
    /\ lock = Free /\ cache[t] # None /\ cache[t].until > now /\ role[cache[t].member] # None
    /\ Welcome(t, cache[t])
    /\ lock' = [at |-> "renew", token |-> t, row |-> cache[t]]
    /\ UNCHANGED <<table, cache, spent, role, now>>

(* ... or in the table. *)
FindRow(t) ==
    /\ lock = Free /\ cache[t] = None /\ table[t] # None
    /\ lock' = [at |-> "read", token |-> t, row |-> table[t]]
    /\ UNCHANGED <<table, cache, spent, role, now, answer>>

FindNothing(t) ==
    /\ lock = Free /\ cache[t] = None /\ table[t] = None
    /\ Refuse
    /\ UNCHANGED <<table, cache, spent, role, now, lock>>

RowExpired ==
    /\ lock.at = "read" /\ lock.row.until <= now
    /\ table' = [table EXCEPT ![lock.token] = None]
    /\ Refuse /\ lock' = Free
    /\ UNCHANGED <<cache, spent, role, now>>

RowOrphan ==
    /\ lock.at = "read" /\ lock.row.until > now /\ role[lock.row.member] = None
    /\ Refuse /\ lock' = Free
    /\ UNCHANGED <<table, cache, spent, role, now>>

RowFound ==
    /\ lock.at = "read" /\ lock.row.until > now /\ role[lock.row.member] # None
    /\ Welcome(lock.token, lock.row)
    /\ lock' = [lock EXCEPT !.at = "renew"]
    /\ UNCHANGED <<table, cache, spent, role, now>>

-----------------------------------------------------------------------------
(* renew, once per Day, and the caching of what was found. *)
Renewed == IF lock.row.until > now + Life - Day THEN lock.row ELSE [lock.row EXCEPT !.until = now + Life]

\* Mutant: extended in the cache only.
RenewCacheOnly ==
    /\ lock.at = "renew"
    /\ cache' = [cache EXCEPT ![lock.token] = Renewed]
    /\ lock' = Free
    /\ UNCHANGED <<table, spent, role, now, answer>>

\* Mutant: extended in the table only.
RenewTableOnly ==
    /\ lock.at = "renew"
    /\ table' = [table EXCEPT ![lock.token] = IF @ = None THEN None ELSE Renewed]
    /\ cache' = [cache EXCEPT ![lock.token] = lock.row]
    /\ lock' = Free
    /\ UNCHANGED <<spent, role, now, answer>>

Renew ==
    /\ lock.at = "renew"
    /\ table' = [table EXCEPT ![lock.token] = IF @ = None THEN None ELSE Renewed]
    /\ cache' = [cache EXCEPT ![lock.token] = Renewed]
    /\ lock' = Free
    /\ UNCHANGED <<spent, role, now, answer>>

-----------------------------------------------------------------------------
(* remove: signing out. *)
Remove(t) ==
    /\ lock = Free
    /\ table' = [table EXCEPT ![t] = None] /\ cache' = [cache EXCEPT ![t] = None]
    /\ UNCHANGED <<spent, role, now, lock, answer>>

Of(f, m) == {t \in Tokens : f[t] # None /\ f[t].member = m}

\* Mutant: the cache is forgotten.
RemoveAllRowsOnly(m, keep) ==
    /\ lock = Free
    /\ table' = Without(table, Of(table, m) \ {keep})
    /\ UNCHANGED <<cache, spent, role, now, lock, answer>>

(* remove_all_for_member: signing out everywhere, or everywhere else. *)
RemoveAll(m, keep) ==
    /\ lock = Free
    /\ table' = Without(table, Of(table, m) \ {keep})
    /\ cache' = Without(cache, Of(cache, m) \ {keep})
    /\ UNCHANGED <<spent, role, now, lock, answer>>

(* purge_expired: the table, then the cache at a later reading of the clock. *)
PurgeTable ==
    /\ lock = Free
    /\ table' = Without(table, {t \in Tokens : table[t] # None /\ table[t].until < now})
    /\ lock' = [Free EXCEPT !.at = "sweep"]
    /\ UNCHANGED <<cache, spent, role, now, answer>>

PurgeCache ==
    /\ lock.at = "sweep"
    /\ cache' = Without(cache, {t \in Tokens : cache[t] # None /\ cache[t].until <= now})
    /\ lock' = Free
    /\ UNCHANGED <<table, spent, role, now, answer>>

-----------------------------------------------------------------------------
(* The rest of the program: neither waits for the mutex. *)

(* A member is deleted, or merged into another: the rows go, the cache stays. *)
DeleteMember(m) ==
    /\ role[m] # None
    /\ role' = [role EXCEPT ![m] = None]
    /\ table' = Without(table, Of(table, m))
    /\ UNCHANGED <<cache, spent, now, lock, answer>>

SetRole(m, r) ==
    /\ role[m] # None /\ role[m] # r
    /\ role' = [role EXCEPT ![m] = r]
    /\ UNCHANGED <<table, cache, spent, now, lock, answer>>

Tick ==
    /\ now < Horizon
    /\ now' = now + 1
    /\ UNCHANGED <<table, cache, spent, role, lock, answer>>

(* The server stops and starts: the cache is gone, and an answer under way. *)
Restart ==
    /\ cache' = [t \in Tokens |-> None] /\ lock' = Free /\ answer' = None
    /\ UNCHANGED <<table, spent, role, now>>

Find(t) == FindExpired(t) \/ FindOrphan(t) \/ FindCached(t) \/ FindRow(t) \/ FindNothing(t)
Found == RowExpired \/ RowOrphan \/ RowFound

Next ==
    \/ \E t \in Tokens : Find(t) \/ Remove(t) \/ \E m \in Members : Create(t, m)
    \/ Found \/ Renew \/ PurgeTable \/ PurgeCache \/ Tick \/ Restart
    \/ \E m \in Members, keep \in Tokens \cup {None} : RemoveAll(m, keep)
    \/ \E m \in Members : DeleteMember(m) \/ \E r \in Roles : SetRole(m, r)

Spec == Init /\ [][Next]_vars

-----------------------------------------------------------------------------
(* The store's state and the answers have their types. *)
TypeOK ==
    /\ table \in [Tokens -> Session \cup {None}]
    /\ cache \in [Tokens -> Session \cup {None}]
    /\ spent \subseteq Tokens
    /\ role \in [Members -> Roles \cup {None}]
    /\ now \in Nat
    /\ lock \in Lock
    /\ answer \in Answer \cup {None}

Gone(s) == role[s.member] = None

(* The cache says what the table says, to the second, at every moment: only *)
(* of a deleted member, or of a session that has just been swept out of the *)
(* table for its age, does it know more (SessionStore::cache_).             *)
Coherent ==
    \A t \in Tokens : cache[t] # None =>
        \/ table[t] = cache[t]
        \/ table[t] = None /\ (Gone(cache[t]) \/ (lock.at = "sweep" /\ cache[t].until < now))

(* A session that is used is extended at least once per Day: once a look-up *)
(* was granted and the store is free again, the session lasts for more than *)
(* Life - Day from then, unless it was ended (the promise of                *)
(* SessionStore.hpp: those who use the site stay signed in).                *)
UsedIsExtended ==
    lock.at \in {"free", "read", "sweep"} /\ answer # None /\ table[answer.token] # None
        => table[answer.token].until > answer.at + Life - Day

(* The store keeps the promise of SignIns: for all its caching, a look-up is *)
(* granted exactly when the session is neither over nor ended, with the role *)
(* the member has at that moment.                                            *)
Promise == INSTANCE SignIns WITH session <- table
KeepsPromise == Promise!Spec
=============================================================================
