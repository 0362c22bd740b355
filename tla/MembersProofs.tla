----------------------------- MODULE MembersProofs ----------------------------
(***************************************************************************)
(* The properties of Sessions, for any tokens, members, roles and lifetime, *)
(* with the refinement of SignIns; and those of Roles, for any set of       *)
(* requests.  The two share the roles and no variable.                      *)
(***************************************************************************)
EXTENDS Sessions, Roles, TLAPS

-----------------------------------------------------------------------------
(* Sessions. *)

(* The rows are of members that exist, under tokens that were drawn. *)
RowsAreSound == \A t \in Tokens : table[t] # None => ~Gone(table[t]) /\ t \in spent

(* A look-up that has read a row, because the cache had none, holds what the *)
(* table still says, unless the member was deleted since.                    *)
HeldIsTrue ==
    lock.at \in {"read", "renew"} =>
        /\ lock.token \in Tokens /\ lock.row \in Session
        /\ lock.at = "read" => cache[lock.token] = None
        /\ table[lock.token] = lock.row \/ (table[lock.token] = None /\ Gone(lock.row))

(* It is granted before the session is extended, and then only its own. *)
GrantedFirst ==
    /\ answer # None => answer.token \in spent /\ answer.at <= now
    /\ lock.at = "renew" => answer # None /\ answer.token = lock.token

SessionsInv == TypeOK /\ Coherent /\ UsedIsExtended /\ RowsAreSound /\ HeldIsTrue /\ GrantedFirst

USE SessionsAssumption, NoneIsNoRecord

LEMMA InitHolds == Init => SessionsInv
BY DEF Init, SessionsInv, TypeOK, Coherent, UsedIsExtended, RowsAreSound, HeldIsTrue, GrantedFirst,
       Free, Lock, Session, Answer, Gone

LEMMA StepKeeps == SessionsInv /\ [Next]_vars => SessionsInv'
<1> SUFFICES ASSUME SessionsInv, [Next]_vars PROVE SessionsInv'
    OBVIOUS
<1> USE DEF SessionsInv, TypeOK, Coherent, UsedIsExtended, RowsAreSound, HeldIsTrue, GrantedFirst,
            Free, Lock, Session, Answer, Gone
<1>1. ASSUME NEW t \in Tokens, NEW m \in Members, Create(t, m) PROVE SessionsInv'
    <2>1. TypeOK'
        <3>1. [member |-> m, until |-> now + Life] \in Session
            OBVIOUS
        <3>2. QED
            BY <1>1, <3>1 DEF Create
    <2>2. \A x \in Tokens \ {t} : table'[x] = table[x] /\ cache'[x] = cache[x]
        BY <1>1 DEF Create
    <2>3. /\ table'[t] = cache'[t] /\ table'[t] # None /\ table'[t].member = m
          /\ role' = role /\ role[m] # None /\ spent' = spent \cup {t}
        BY <1>1 DEF Create
    <2>4. Coherent' /\ RowsAreSound'
        BY <1>1, <2>2, <2>3 DEF Create
    <2>5. UsedIsExtended' /\ HeldIsTrue' /\ GrantedFirst'
        BY <1>1, <2>2 DEF Create
    <2>6. QED
        BY <2>1, <2>4, <2>5
<1>2. ASSUME NEW t \in Tokens, FindExpired(t) PROVE SessionsInv'
    BY <1>2 DEF FindExpired, Refuse
<1>3. ASSUME NEW t \in Tokens, FindOrphan(t) PROVE SessionsInv'
    <2>1. TypeOK'
        BY <1>3 DEF FindOrphan, Refuse
    <2>2. Coherent' /\ RowsAreSound'
        BY <1>3 DEF FindOrphan, Refuse
    <2>3. UsedIsExtended' /\ HeldIsTrue' /\ GrantedFirst'
        BY <1>3 DEF FindOrphan, Refuse
    <2>4. QED
        BY <2>1, <2>2, <2>3
<1>4. ASSUME NEW t \in Tokens, FindCached(t) PROVE SessionsInv'
    <2>1. TypeOK'
        <3>1. cache[t] \in Session /\ role[cache[t].member] \in Roles
            BY <1>4 DEF FindCached
        <3>2. answer' \in Answer
            BY <1>4, <3>1 DEF FindCached, Welcome
        <3>3. lock' \in Lock
            BY <1>4, <3>1 DEF FindCached
        <3>4. QED
            BY <1>4, <3>2, <3>3 DEF FindCached
    <2>2. Coherent' /\ RowsAreSound'
        BY <1>4 DEF FindCached, Welcome
    <2>3. table[t] = cache[t] /\ t \in spent /\ cache[t] \in Session
        BY <1>4 DEF FindCached
    <2>4. lock'.at = "renew" /\ lock'.token = t /\ lock'.row = cache[t]
        BY <1>4 DEF FindCached
    <2>5. UsedIsExtended' /\ HeldIsTrue'
        BY <1>4, <2>3, <2>4 DEF FindCached
    <2>6. answer' # None /\ answer'.token = t /\ answer'.at = now
        <3>1. answer' = [token |-> t, member |-> cache[t].member, role |-> role[cache[t].member], at |-> now]
            BY <1>4 DEF FindCached, Welcome
        <3>2. answer' \in Answer
            BY <1>4, <2>3, <3>1 DEF FindCached, Answer
        <3>3. QED
            BY <3>1, <3>2
    <2>7. GrantedFirst'
        BY <1>4, <2>3, <2>4, <2>6 DEF FindCached
    <2>8. QED
        BY <2>1, <2>2, <2>5, <2>7
<1>5. ASSUME NEW t \in Tokens, FindRow(t) PROVE SessionsInv'
    BY <1>5 DEF FindRow
<1>6. ASSUME NEW t \in Tokens, FindNothing(t) PROVE SessionsInv'
    BY <1>6 DEF FindNothing, Refuse
<1>7. CASE RowExpired
    <2>1. TypeOK'
        BY <1>7 DEF RowExpired, Refuse
    <2>2. Coherent' /\ RowsAreSound'
        BY <1>7 DEF RowExpired, Refuse
    <2>3. UsedIsExtended' /\ HeldIsTrue' /\ GrantedFirst'
        BY <1>7 DEF RowExpired, Refuse
    <2>4. QED
        BY <2>1, <2>2, <2>3
<1>8. CASE RowOrphan
    BY <1>8 DEF RowOrphan, Refuse
<1>9. CASE RowFound
    <2>1. TypeOK'
        <3>1. lock.row \in Session /\ lock.token \in Tokens /\ role[lock.row.member] \in Roles
            BY <1>9 DEF RowFound
        <3>2. answer' \in Answer
            BY <1>9, <3>1 DEF RowFound, Welcome
        <3>3. lock' \in Lock
            BY <1>9, <3>1 DEF RowFound
        <3>4. QED
            BY <1>9, <3>2, <3>3 DEF RowFound
    <2>2. Coherent' /\ RowsAreSound'
        BY <1>9 DEF RowFound, Welcome
    <2>3. lock'.at = "renew" /\ lock'.token = lock.token /\ lock'.row = lock.row
        BY <1>9 DEF RowFound
    <2>4. UsedIsExtended' /\ HeldIsTrue'
        BY <1>9, <2>3 DEF RowFound
    <2>5. GrantedFirst'
        <3>1. lock.token \in spent /\ now' = now /\ spent' = spent
            BY <1>9 DEF RowFound
        <3>2. answer' # None /\ answer'.token = lock.token /\ answer'.at = now
            BY <1>9, <2>1 DEF RowFound, Welcome, Answer
        <3>3. QED
            BY <2>3, <3>1, <3>2
    <2>6. QED
        BY <2>1, <2>2, <2>4, <2>5
<1>10. CASE Renew
    BY <1>10 DEF Renew, Renewed
<1>11. ASSUME NEW t \in Tokens, Remove(t) PROVE SessionsInv'
    BY <1>11 DEF Remove
<1>12. ASSUME NEW m \in Members, NEW keep \in Tokens \cup {None}, RemoveAll(m, keep) PROVE SessionsInv'
    BY <1>12 DEF RemoveAll, Without, Of
<1>13. CASE PurgeTable
    BY <1>13 DEF PurgeTable, Without
<1>14. CASE PurgeCache
    BY <1>14 DEF PurgeCache, Without
<1>15. ASSUME NEW m \in Members, DeleteMember(m) PROVE SessionsInv'
    BY <1>15 DEF DeleteMember, Without, Of
<1>16. ASSUME NEW m \in Members, NEW r \in Roles, SetRole(m, r) PROVE SessionsInv'
    BY <1>16 DEF SetRole
<1>17. CASE Tick
    BY <1>17 DEF Tick
<1>18. CASE Restart
    BY <1>18 DEF Restart
<1>19. CASE UNCHANGED vars
    BY <1>19 DEF vars
<1>20. QED
    BY <1>1, <1>2, <1>3, <1>4, <1>5, <1>6, <1>7, <1>8, <1>9, <1>10, <1>11, <1>12, <1>13, <1>14,
       <1>15, <1>16, <1>17, <1>18, <1>19 DEF Next, Find, Found

LEMMA Inductive == Spec => []SessionsInv
BY InitHolds, StepKeeps, PTL DEF Spec

(* The store and its answers keep their types. *)
THEOREM SessionsTypesHold == Spec => []TypeOK
BY Inductive, PTL DEF SessionsInv

(* The cache never says of a session what the table does not. *)
THEOREM CacheAgrees == Spec => []Coherent
BY Inductive, PTL DEF SessionsInv

(* A session that is used is extended, for any lifetime. *)
THEOREM UsersStay == Spec => []UsedIsExtended
BY Inductive, PTL DEF SessionsInv

-----------------------------------------------------------------------------
(* The refinement: reading is a stutter, finding out is Look, the UPDATE of  *)
(* renew is Extend, and the table is the truth.                              *)
LEMMA InitRefines == Init => Promise!Init
BY DEF Init, Promise!Init

LEMMA StepRefines == SessionsInv /\ [Next]_vars => [Promise!Next]_(Promise!vars)
<1> SUFFICES ASSUME SessionsInv, [Next]_vars PROVE Promise!Next \/ UNCHANGED Promise!vars
    BY DEF Promise!vars
<1> USE DEF Promise!vars
<1>a. TypeOK /\ RowsAreSound
    BY DEF SessionsInv
<1>b. ASSUME NEW t \in Tokens, Promise!Look(t) \/ Promise!Extend(t) \/ Promise!SignOut(t)
      PROVE  Promise!Next
    BY <1>b DEF Promise!Next
<1>1. ASSUME NEW t \in Tokens, NEW m \in Members, Create(t, m) PROVE Promise!Next
    <2>1. Promise!Begin(t, m)
        BY <1>1 DEF Create, Promise!Begin
    <2>2. QED
        BY <2>1 DEF Promise!Next
<1>2. ASSUME NEW t \in Tokens, FindExpired(t) PROVE Promise!Next
    <2>1. table[t] = None \/ table[t].until <= now
        BY <1>2 DEF SessionsInv, Coherent, FindExpired
    <2>2. Promise!Look(t)
        BY <1>2, <1>a, <2>1 DEF FindExpired, Refuse, TypeOK, Promise!Look, Promise!Over, Promise!Without
    <2>3. QED
        BY <2>2, <1>b
<1>3. ASSUME NEW t \in Tokens, FindOrphan(t) PROVE Promise!Next
    <2>1. table[t] = None
        BY <1>3 DEF SessionsInv, Coherent, RowsAreSound, Gone, FindOrphan, Free
    <2>2. Promise!Look(t)
        BY <1>3, <2>1 DEF FindOrphan, Refuse, Promise!Look, Promise!Over
    <2>3. QED
        BY <2>2, <1>b
<1>4. ASSUME NEW t \in Tokens, FindCached(t) PROVE Promise!Next
    <2>1. table[t] = cache[t] /\ table[t] # None /\ table[t].until \in Nat /\ now \in Nat
        BY <1>4, <1>a DEF SessionsInv, Coherent, Gone, FindCached, Free, TypeOK, Session
    <2>2. ~Promise!Over(t)
        BY <1>4, <2>1 DEF FindCached, Promise!Over
    <2>3. answer' = Promise!Welcome(t)
        BY <1>4, <2>1 DEF FindCached, Welcome, Promise!Welcome
    <2>4. Promise!Look(t)
        BY <1>4, <2>2, <2>3 DEF FindCached, Promise!Look
    <2>5. QED
        BY <2>4, <1>b
<1>5. ASSUME NEW t \in Tokens, FindRow(t) PROVE UNCHANGED Promise!vars
    BY <1>5 DEF FindRow
<1>6. ASSUME NEW t \in Tokens, FindNothing(t) PROVE Promise!Next
    <2>1. Promise!Look(t)
        BY <1>6 DEF FindNothing, Refuse, Promise!Look, Promise!Over
    <2>2. QED
        BY <2>1, <1>b
<1>7. CASE RowExpired
    <2>1. lock.token \in Tokens /\ (table[lock.token] = None \/ table[lock.token].until <= now)
        BY <1>7 DEF SessionsInv, HeldIsTrue, RowExpired
    <2>2. Promise!Look(lock.token)
        BY <1>7, <1>a, <2>1 DEF RowExpired, Refuse, TypeOK, Promise!Look, Promise!Over, Promise!Without
    <2>3. QED
        BY <2>1, <2>2, <1>b
<1>8. CASE RowOrphan
    <2>1. lock.token \in Tokens /\ table[lock.token] = None
        BY <1>8 DEF SessionsInv, HeldIsTrue, RowsAreSound, Gone, RowOrphan
    <2>2. Promise!Look(lock.token)
        BY <1>8, <2>1 DEF RowOrphan, Refuse, Promise!Look, Promise!Over
    <2>3. QED
        BY <2>1, <2>2, <1>b
<1>9. CASE RowFound
    <2>1. lock.token \in Tokens /\ table[lock.token] = lock.row /\ lock.row \in Session /\ now \in Nat
        BY <1>9, <1>a DEF SessionsInv, HeldIsTrue, Gone, RowFound, TypeOK
    <2>2. ~Promise!Over(lock.token)
        BY <1>9, <2>1 DEF RowFound, Promise!Over, Session
    <2>3. answer' = Promise!Welcome(lock.token)
        BY <1>9, <2>1 DEF RowFound, Welcome, Promise!Welcome
    <2>4. Promise!Look(lock.token)
        BY <1>9, <2>2, <2>3 DEF RowFound, Promise!Look
    <2>5. QED
        BY <2>1, <2>4, <1>b
<1>10. CASE Renew
    <2>1. /\ lock.token \in Tokens /\ answer # None /\ answer.token = lock.token
          /\ table[lock.token] = None \/ table[lock.token] = lock.row
        BY <1>10 DEF SessionsInv, HeldIsTrue, GrantedFirst, Renew
    <2>2. CASE table[lock.token] = None \/ Renewed = lock.row
        BY <1>10, <1>a, <2>1, <2>2 DEF Renew, TypeOK
    <2>3. CASE table[lock.token] # None /\ Renewed # lock.row
        <3>1. table' = [table EXCEPT ![lock.token].until = now + Life]
            BY <1>10, <2>1, <2>3 DEF Renew, Renewed
        <3>2. Promise!Extend(lock.token)
            BY <1>10, <2>1, <2>3, <3>1 DEF Renew, Promise!Extend
        <3>3. QED
            BY <2>1, <3>2, <1>b
    <2>4. QED
        BY <2>2, <2>3
<1>11. ASSUME NEW t \in Tokens, Remove(t) PROVE Promise!Next
    <2>1. Promise!SignOut(t)
        BY <1>11, <1>a DEF Remove, TypeOK, Promise!SignOut, Promise!Without
    <2>2. QED
        BY <2>1, <1>b
<1>12. ASSUME NEW m \in Members, NEW keep \in Tokens \cup {None}, RemoveAll(m, keep) PROVE Promise!Next
    <2>1. Promise!SignOutAll(m, keep)
        BY <1>12 DEF RemoveAll, Without, Of, Promise!SignOutAll, Promise!Without
    <2>2. QED
        BY <2>1 DEF Promise!Next
<1>13. CASE PurgeTable
    <2>1. PICK S \in SUBSET Tokens :
            S = {t \in Tokens : table[t] # None /\ table[t].until < now}
        OBVIOUS
    <2>2. S \in SUBSET {t \in Tokens : Promise!Over(t)}
        BY <2>1, <1>a DEF Promise!Over, TypeOK, Session
    <2>3. Promise!Tidy
        BY <1>13, <2>1, <2>2 DEF PurgeTable, Without, Promise!Tidy, Promise!Without
    <2>4. QED
        BY <2>3 DEF Promise!Next
<1>14. CASE PurgeCache
    BY <1>14 DEF PurgeCache
<1>15. ASSUME NEW m \in Members, DeleteMember(m) PROVE Promise!Next
    <2>1. Promise!DeleteMember(m)
        BY <1>15 DEF DeleteMember, Without, Of, Promise!DeleteMember, Promise!Without
    <2>2. QED
        BY <2>1 DEF Promise!Next
<1>16. ASSUME NEW m \in Members, NEW r \in Roles, SetRole(m, r) PROVE Promise!Next
    <2>1. Promise!SetRole(m, r)
        BY <1>16 DEF SetRole, Promise!SetRole
    <2>2. QED
        BY <2>1 DEF Promise!Next
<1>17. CASE Tick
    BY <1>17 DEF Tick, Promise!Tick, Promise!Next
<1>18. CASE Restart
    BY <1>18 DEF Restart, Promise!Restart, Promise!Next
<1>19. CASE UNCHANGED vars
    BY <1>19 DEF vars
<1>20. QED
    BY <1>1, <1>2, <1>3, <1>4, <1>5, <1>6, <1>7, <1>8, <1>9, <1>10, <1>11, <1>12, <1>13, <1>14,
       <1>15, <1>16, <1>17, <1>18, <1>19 DEF Next, Find, Found

(* The store implements SignIns: look-ups, through the cache or past it, are *)
(* answered as if there were only the table and no steps in between.         *)
THEOREM StoreImplements == Spec => KeepsPromise
BY InitRefines, StepRefines, Inductive, PTL DEF Spec, KeepsPromise, Promise!Spec

-----------------------------------------------------------------------------
(* Roles. *)

(* What kind of request goes through which steps, and with which role. *)
Shaped(q) ==
    /\ q \in Request
    /\ q.op \in {"fetch", "source", "save", "mark"} => q.role \in RoleNames
    /\ q.op = "fetch" => q.by = "login"
    /\ q.op = "find" => q.by \in {"sync", "departed"}
    /\ q.op = "source" => q.by \in {"sync", "departed", "login"}
    /\ q.op = "update" => q.by \in {"hand", "copy"}
    /\ q.op = "update" /\ q.by = "hand" => q.mapped = q.role
    /\ q.op = "update" /\ q.by = "copy" => q.role \in RoleNames
    /\ q.op = "save" => q.by # "nobody"
    /\ q.op = "save" /\ q.by = "hand" => q.mapped \in {Nothing, q.role}

(* What a request knows of the role and its source as long as nobody has   *)
(* written since it read.  One that is about to save keeps the role,       *)
(* changes it as a human has said, or raises one that was given by hand.   *)
Knows(q, r, s) == ~q.stale =>
    /\ q.op \in {"fetch", "source"} => q.role = r
    /\ q.op = "update" /\ q.by = "copy" => q.role = r
    /\ q.op = "save" /\ q.by = "refresh" => q.role = r
    /\ q.op = "save" /\ q.by = "copy" => q.role = r /\ q.source = "discord"
    /\ q.op = "save" /\ q.by = "hand" /\ q.mapped = Nothing => q.role = r /\ q.source = "discord"
    /\ q.op = "save" /\ q.by = "departed" => s = "discord"
    /\ q.op = "save" /\ q.by \in {"sync", "login"} =>
          /\ s = "manual" => Rank(q.role) >= Rank(r)
          /\ q.source = "manual" => s = "manual" /\ q.role = r

Marks(r) == request[r].op = "mark"

(* A request about to mark a role as given by hand, the only one about to  *)
(* mark anything and on what is still so, marks one that was.              *)
MarksTruly ==
    \A r \in Requests :
        ~raced /\ Marks(r) /\ request[r].source = "manual" /\ ~request[r].stale
               /\ (\A p \in Requests \ {r} : ~Marks(p))
            => memberRole = granted

RolesInv ==
    /\ RolesTypeOK
    /\ \A r \in Requests : Shaped(request[r]) /\ Knows(request[r], memberRole, source)
    /\ SourceIsHonest
    /\ MarksTruly

-----------------------------------------------------------------------------
(* A request that reads and goes on keeps the invariant, if it knows what it *)
(* should know then, and marks by hand only what is marked so already.       *)
LEMMA ReadsKeep ==
    ASSUME RolesInv, NEW r \in Requests, NEW q, Reads(r, q),
           Shaped(q), Knows(q, memberRole, source), ~Marks(r),
           q.op = "mark" /\ q.source = "manual" /\ ~q.stale => source = "manual"
    PROVE  RolesInv'
<1>1. /\ request' = [request EXCEPT ![r] = q]
      /\ UNCHANGED <<memberRole, source, mapped, inGuild, granted, raced>>
    BY DEF Reads
<1>2. /\ request'[r] = q
      /\ \A p \in Requests \ {r} : request'[p] = request[p]
      /\ request' \in [Requests -> Request]
    BY <1>1 DEF RolesInv, RolesTypeOK, Shaped
<1>3. RolesTypeOK'
    BY <1>1, <1>2 DEF RolesInv, RolesTypeOK
<1>4. \A p \in Requests : Shaped(request'[p]) /\ Knows(request'[p], memberRole', source')
    BY <1>1, <1>2 DEF RolesInv
<1>5. SourceIsHonest'
    BY <1>1, <1>2 DEF RolesInv, SourceIsHonest, Marks
<1>6. MarksTruly'
    <2> SUFFICES ASSUME NEW p \in Requests, ~raced', Marks(p)', request'[p].source = "manual",
                        ~request'[p].stale, \A o \in Requests \ {p} : ~Marks(o)'
                 PROVE  (memberRole = granted)'
        BY DEF MarksTruly
    <2>1. CASE p = r
        <3>1. \A o \in Requests : ~Marks(o)
            BY <1>2, <2>1 DEF Marks
        <3> QED  BY <1>1, <1>2, <2>1, <3>1 DEF RolesInv, SourceIsHonest, Marks
    <2>2. CASE p # r
        <3>1. Marks(p) /\ \A o \in Requests \ {p} : ~Marks(o)
            BY <1>2, <2>2 DEF Marks
        <3> QED  BY <1>1, <1>2, <2>2, <3>1 DEF RolesInv, MarksTruly
    <2> QED  BY <2>1, <2>2
<1> QED  BY <1>3, <1>4, <1>5, <1>6 DEF RolesInv

(* What others have read is out of date once something is written. *)
LEMMA OthersOutdated ==
    ASSUME RolesInv, NEW p \in Requests,
           request'[p] = [request[p] EXCEPT !.stale = request[p].op \notin {"idle", "find"}]
    PROVE  /\ Shaped(request'[p]) /\ Knows(request'[p], memberRole', source')
           /\ request'[p].op = request[p].op
           /\ Marks(p) => request'[p].stale
<1>1. Shaped(request[p])
    BY DEF RolesInv
<1>2. /\ request'[p] \in Request /\ request'[p].op = request[p].op
      /\ request'[p].by = request[p].by /\ request'[p].role = request[p].role
      /\ request'[p].mapped = request[p].mapped
      /\ request'[p].stale = (request[p].op \notin {"idle", "find"})
    BY <1>1 DEF Shaped, Request
<1>3. Shaped(request'[p])
    BY <1>1, <1>2 DEF Shaped
<1>4. Knows(request'[p], memberRole', source')
    BY <1>2 DEF Knows
<1> QED  BY <1>2, <1>3, <1>4 DEF Marks

(* A request that writes and goes on to q keeps the invariant, if it leaves *)
(* a role by hand only where it was given so.                               *)
LEMMA WritesKeep ==
    ASSUME RolesInv, NEW r \in Requests, NEW q, Writes(r, q),
           Shaped(q), q.op \in {"idle", "mark"},
           memberRole' \in RoleNames, source' \in Sources, granted' \in RoleNames \cup {Nothing},
           ~raced' /\ (\A p \in Requests \ {r} : ~Marks(p))
               => IF q.op = "idle" THEN source' = "manual" => memberRole' = granted'
                  ELSE q.source = "manual" /\ ~q.stale => memberRole' = granted'
    PROVE  RolesInv'
<1>1. /\ request'[r] = q
      /\ \A p \in Requests \ {r} :
            request'[p] = [request[p] EXCEPT !.stale = request[p].op \notin {"idle", "find"}]
      /\ DOMAIN request' = Requests
    BY DEF Writes
<1>2. /\ \A p \in Requests : Shaped(request'[p]) /\ Knows(request'[p], memberRole', source')
      /\ \A p \in Requests \ {r} : Marks(p)' = Marks(p) /\ (Marks(p) => request'[p].stale)
    <2>1. Knows(q, memberRole', source')
        BY DEF Knows
    <2> QED  BY <1>1, <2>1, OthersOutdated DEF Marks
<1>3. request' \in [Requests -> Request] /\ raced' \in BOOLEAN
    <2>1. request' = [p \in Requests |-> request'[p]]
        BY DEF Writes
    <2>2. request[r].stale \in BOOLEAN /\ raced \in BOOLEAN
        BY DEF RolesInv, RolesTypeOK, Request
    <2> QED  BY <1>2, <2>1, <2>2, Zenon DEF Shaped, Writes
<1>4. RolesTypeOK'
    BY <1>3 DEF RolesInv, RolesTypeOK, Writes
<1>5. SourceIsHonest'
    <2> SUFFICES ASSUME ~raced', source' = "manual", \A p \in Requests : ~Marks(p)'
                 PROVE  (memberRole = granted)'
        BY DEF SourceIsHonest, Marks
    <2>1. q.op = "idle"
        BY <1>1 DEF Marks
    <2> QED  BY <1>2, <2>1
<1>6. MarksTruly'
    <2> SUFFICES ASSUME NEW p \in Requests, ~raced', Marks(p)', request'[p].source = "manual",
                        ~request'[p].stale, \A o \in Requests \ {p} : ~Marks(o)'
                 PROVE  (memberRole = granted)'
        BY DEF MarksTruly
    <2>1. p = r
        BY <1>2
    <2> QED  BY <1>1, <1>2, <2>1 DEF Marks
<1> QED  BY <1>2, <1>4, <1>5, <1>6 DEF RolesInv

-----------------------------------------------------------------------------
(* Ranks *)

LEMMA Ranks ==
    \A r \in RoleNames \cup {Nothing} : Rank(r) \in Nat /\ Rank(r) >= Rank(r)
BY DEF Rank

LEMMA NextRoleKnown ==
    ASSUME NEW r \in RoleNames, NEW s \in Sources, NEW m \in RoleNames \cup {Nothing}
    PROVE  /\ NextRole(r, s, m) \in RoleNames /\ NextSource(r, s, m) \in Sources
           /\ s = "manual" => Rank(NextRole(r, s, m)) >= Rank(r)
           /\ NextSource(r, s, m) = "manual" => s = "manual" /\ NextRole(r, s, m) = r
           /\ s = "discord" => NextSource(r, s, m) = "discord"
<1>1. NextRole(r, s, m) \in RoleNames /\ NextSource(r, s, m) \in Sources
    BY DEF NextRole, NextSource, Raises, RoleNames, Sources
<1>2. s = "manual" => Rank(NextRole(r, s, m)) >= Rank(r)
    <2>1. Rank(r) >= Rank(r) /\ Rank(r) \in Nat /\ Rank(m) \in Nat
        BY Ranks
    <2> QED  BY <2>1 DEF NextRole, Raises
<1> QED  BY <1>1, <1>2 DEF NextRole, NextSource, Raises, Sources

-----------------------------------------------------------------------------
(* Every step keeps the invariant. *)

LEMMA InitEstablishes == ASSUME RolesInit PROVE RolesInv
<1>1. RolesTypeOK
    BY DEF RolesInit, RolesTypeOK, Idle, Request, RoleNames, Sources
<1>2. \A r \in Requests : Shaped(request[r]) /\ Knows(request[r], memberRole, source) /\ ~Marks(r)
    BY DEF RolesInit, Shaped, Knows, Marks, Idle, Request, RoleNames, Sources
<1> QED  BY <1>1, <1>2 DEF RolesInv, SourceIsHonest, MarksTruly, RolesInit

LEMMA Reading ==
    ASSUME RolesInv, NEW r \in Requests,
           Login(r) \/ Fetched(r) \/ NoAnswer(r) \/ SyncFetch(r) \/ SyncFind(r)
             \/ Give(r) \/ CopyRecord(r) \/ Update(r) \/ ReadRecord(r)
    PROVE  RolesInv'
<1>1. /\ Shaped(request[r]) /\ Knows(request[r], memberRole, source)
      /\ memberRole \in RoleNames /\ source \in Sources /\ mapped \in RoleNames \cup {Nothing}
    BY DEF RolesInv, RolesTypeOK
<1>2. Shaped(Idle) /\ Knows(Idle, memberRole, source) /\ Idle.op = "idle"
    BY DEF Shaped, Knows, Idle, Request, RoleNames, Sources
<1>3. ASSUME NEW q, Reads(r, q), Shaped(q), Knows(q, memberRole, source), ~Marks(r), q.op # "mark"
      PROVE  RolesInv'
    BY <1>3, ReadsKeep
<1>4. CASE Login(r)
    <2> DEFINE q == [Idle EXCEPT !.op = "fetch", !.by = "login", !.role = memberRole]
    <2>1. Shaped(q) /\ Knows(q, memberRole, source)
        BY <1>1 DEF Shaped, Knows, Idle, Request, Sources
    <2> QED  BY <1>3, <1>4, <2>1 DEF Login, Marks, Idle
<1>5. CASE Fetched(r)
    <2> DEFINE q == [request[r] EXCEPT !.op = "source", !.mapped = mapped]
    <2>1. Shaped(q) /\ Knows(q, memberRole, source)
        BY <1>1, <1>5 DEF Fetched, Shaped, Knows, Request
    <2>2. q.op # "mark"
        BY <1>1 DEF Shaped, Request
    <2> QED  BY <1>3, <1>5, <2>1, <2>2 DEF Fetched, Marks
<1>6. CASE NoAnswer(r)
    <2> DEFINE q == [request[r] EXCEPT !.op = "save", !.by = "refresh"]
    <2>1. Shaped(q) /\ Knows(q, memberRole, source)
        BY <1>1, <1>6 DEF NoAnswer, Shaped, Knows, Request
    <2>2. q.op # "mark"
        BY <1>1 DEF Shaped, Request
    <2>3. Reads(r, q) \/ Reads(r, Idle)
        BY <1>6 DEF NoAnswer
    <2>4. ~Marks(r)
        BY <1>6 DEF NoAnswer, Marks
    <2> QED  BY <1>2, <1>3, <2>1, <2>2, <2>3, <2>4
<1>7. CASE SyncFetch(r)
    <2>1. PICK b \in {"sync", "departed"}, m \in RoleNames \cup {Nothing} :
             Reads(r, [Idle EXCEPT !.op = "find", !.by = b, !.mapped = m])
        BY <1>1, <1>7 DEF SyncFetch
    <2> DEFINE q == [Idle EXCEPT !.op = "find", !.by = b, !.mapped = m]
    <2>2. Shaped(q) /\ Knows(q, memberRole, source)
        BY DEF Shaped, Knows, Idle, Request, Sources, RoleNames
    <2> QED  BY <1>3, <1>7, <2>1, <2>2 DEF SyncFetch, Marks, Idle
<1>8. CASE SyncFind(r)
    <2> DEFINE q == [request[r] EXCEPT !.op = "source", !.role = memberRole]
    <2>1. Shaped(q) /\ Knows(q, memberRole, source)
        BY <1>1, <1>8 DEF SyncFind, Shaped, Knows, Request
    <2>2. q.op # "mark"
        BY <1>1 DEF Shaped, Request
    <2>3. Reads(r, q) \/ Reads(r, Idle)
        BY <1>8 DEF SyncFind
    <2>4. ~Marks(r)
        BY <1>8 DEF SyncFind, Marks
    <2> QED  BY <1>2, <1>3, <2>1, <2>2, <2>3, <2>4
<1>9. CASE Give(r)
    <2>1. PICK g \in RoleNames \cup {Nothing} :
             Reads(r, [Idle EXCEPT !.op = "update", !.by = "hand", !.role = g, !.mapped = g])
        BY <1>9 DEF Give
    <2> DEFINE q == [Idle EXCEPT !.op = "update", !.by = "hand", !.role = g, !.mapped = g]
    <2>2. Shaped(q) /\ Knows(q, memberRole, source)
        BY DEF Shaped, Knows, Idle, Request, Sources, RoleNames
    <2> QED  BY <1>3, <1>9, <2>1, <2>2 DEF Give, Marks, Idle
<1>10. CASE CopyRecord(r)
    <2> DEFINE q == [Idle EXCEPT !.op = "update", !.by = "copy", !.role = memberRole]
    <2>1. Shaped(q) /\ Knows(q, memberRole, source)
        BY <1>1 DEF Shaped, Knows, Idle, Request, Sources
    <2> QED  BY <1>3, <1>10, <2>1 DEF CopyRecord, Marks, Idle
<1>11. CASE Update(r)
    <2> DEFINE q == [request[r] EXCEPT !.op = "save",
                         !.role = IF @ = Nothing THEN memberRole ELSE @,
                         !.source = IF request[r].role \notin {Nothing, memberRole} THEN "manual" ELSE "discord"]
    <2>1. request[r].op = "update" /\ Reads(r, q)
        BY <1>11 DEF Update
    <2>2. /\ q.op = "save" /\ q.by = request[r].by /\ q.mapped = request[r].mapped
          /\ q.stale = request[r].stale
          /\ q.role = IF request[r].role = Nothing THEN memberRole ELSE request[r].role
          /\ q.source = IF request[r].role \notin {Nothing, memberRole} THEN "manual" ELSE "discord"
          /\ q \in Request /\ request[r].role \in RoleNames \cup {Nothing}
        BY <1>1 DEF Shaped, Request, Sources
    <2>3. Shaped(q)
        BY <1>1, <2>1, <2>2 DEF Shaped
    <2>4. Knows(q, memberRole, source)
        BY <1>1, <2>1, <2>2, RolesAssumption DEF Shaped, Knows
    <2> QED  BY <1>3, <2>1, <2>2, <2>3, <2>4 DEF Marks
<1>12. CASE ReadRecord(r)
    <2> DEFINE q == [Idle EXCEPT !.op = "save", !.by = "refresh", !.role = memberRole]
    <2>1. Shaped(q) /\ Knows(q, memberRole, source)
        BY <1>1 DEF Shaped, Knows, Idle, Request, Sources
    <2> QED  BY <1>3, <1>12, <2>1 DEF ReadRecord, Marks, Idle
<1> QED  BY <1>4, <1>5, <1>6, <1>7, <1>8, <1>9, <1>10, <1>11, <1>12

LEMMA Deciding == ASSUME RolesInv, NEW r \in Requests, Decide(r) PROVE RolesInv'
<1> DEFINE q == request[r]
           role1 == NextRole(q.role, source, q.mapped)
           source1 == NextSource(q.role, source, q.mapped)
<1>1. /\ Shaped(q) /\ Knows(q, memberRole, source) /\ q.op = "source"
      /\ q \in Request /\ q.role \in RoleNames /\ q.mapped \in RoleNames \cup {Nothing}
      /\ q.by \in {"sync", "departed", "login"} /\ source \in Sources
    BY DEF RolesInv, RolesTypeOK, Decide, Shaped, Request
<1>2. /\ role1 \in RoleNames /\ source1 \in Sources
      /\ source = "manual" => Rank(role1) >= Rank(q.role)
      /\ source1 = "manual" => source = "manual" /\ role1 = q.role
      /\ source = "discord" => source1 = "discord"
    BY <1>1, NextRoleKnown
<1>3. PICK op \in {"save", "mark"} :
         \/ Reads(r, Idle)
         \/ /\ Reads(r, [[q EXCEPT !.role = role1, !.source = source1] EXCEPT !.op = op])
            /\ q.by = "departed" => source = "discord" /\ op = "save"
    BY <1>1 DEF Decide
<1>4. ~Marks(r)
    BY <1>1 DEF Marks
<1>5. CASE Reads(r, Idle)
    <2>1. Shaped(Idle) /\ Knows(Idle, memberRole, source) /\ Idle.op # "mark"
        BY DEF Shaped, Knows, Idle, Request, RoleNames, Sources
    <2> QED  BY <1>4, <1>5, <2>1, ReadsKeep
<1>6. CASE ~Reads(r, Idle)
    <2> DEFINE n == [[q EXCEPT !.role = role1, !.source = source1] EXCEPT !.op = op]
    <2>1. /\ n \in Request /\ n.op = op /\ n.by = q.by /\ n.role = role1
          /\ n.source = source1 /\ n.stale = q.stale
        BY <1>1, <1>2 DEF Request
    <2>2. Shaped(n)
        BY <1>1, <1>2, <2>1 DEF Shaped
    <2>3. Knows(n, memberRole, source)
        BY <1>1, <1>2, <1>3, <1>6, <2>1 DEF Knows
    <2>4. n.op = "mark" /\ n.source = "manual" /\ ~n.stale => source = "manual"
        BY <1>2, <2>1
    <2> QED  BY <1>3, <1>4, <1>6, <2>2, <2>3, <2>4, ReadsKeep
<1> QED  BY <1>5, <1>6

LEMMA Saving == ASSUME RolesInv, NEW r \in Requests, Save(r) PROVE RolesInv'
<1> DEFINE q == request[r]
           after == IF q.by \in {"sync", "login"} \/ (q.by \in {"hand", "copy"} /\ q.source = "manual")
                    THEN [q EXCEPT !.op = "mark"] ELSE Idle
<1>1. /\ Shaped(q) /\ Knows(q, memberRole, source) /\ q.op = "save" /\ q \in Request
      /\ q.role \in RoleNames /\ q.mapped \in RoleNames \cup {Nothing}
      /\ memberRole \in RoleNames /\ source \in Sources /\ granted \in RoleNames \cup {Nothing}
    BY DEF RolesInv, RolesTypeOK, Save, Shaped, Request
<1>2. /\ Writes(r, after) /\ memberRole' = q.role /\ source' = source
      /\ granted' = IF q.by = "hand" /\ q.mapped # Nothing THEN q.mapped ELSE granted
    BY DEF Save
<1>3. Shaped(after) /\ after.op \in {"idle", "mark"}
      /\ (after.op = "mark" => after.source = q.source /\ q.by \notin {"refresh", "departed"})
      /\ (after.op = "idle" => q.by \notin {"sync", "login"} /\ (q.by \in {"hand", "copy"} => q.source # "manual"))
    BY <1>1 DEF Shaped, Request, Idle, RoleNames, Sources
<1>4. ASSUME ~raced', \A p \in Requests \ {r} : ~Marks(p)
      PROVE  IF after.op = "idle" THEN source' = "manual" => memberRole' = granted'
             ELSE after.source = "manual" /\ ~after.stale => memberRole' = granted'
    <2>1. ~q.stale /\ ~raced
        BY <1>2, <1>4, <1>1 DEF Writes, Request, RolesInv, RolesTypeOK
    <2>2. source = "manual" => memberRole = granted
        BY <1>1, <1>4, <2>1 DEF RolesInv, SourceIsHonest, Marks
    <2>3. CASE q.by = "hand"
        BY <1>1, <1>2, <2>1, <2>2, <2>3, <1>3 DEF Shaped, Knows
    <2>4. CASE q.by \in {"copy", "refresh", "departed"}
        BY <1>1, <1>2, <2>1, <2>2, <2>4, <1>3 DEF Knows
    <2>5. CASE q.by \in {"sync", "login"}
        BY <1>1, <1>2, <2>1, <2>2, <2>5, <1>3 DEF Knows
    <2>6. CASE q.by = "nobody"
        BY <1>1, <2>6 DEF Shaped
    <2> QED  BY <1>1, <2>3, <2>4, <2>5, <2>6 DEF Request
<1>5. memberRole' \in RoleNames /\ source' \in Sources /\ granted' \in RoleNames \cup {Nothing}
    BY <1>1, <1>2
<1> QED  BY <1>2, <1>3, <1>4, <1>5, WritesKeep

LEMMA Marking == ASSUME RolesInv, NEW r \in Requests, Mark(r) PROVE RolesInv'
<1> DEFINE q == request[r]
<1>1. /\ q \in Request /\ Marks(r) /\ q.source \in Sources /\ q.stale \in BOOLEAN
      /\ memberRole \in RoleNames /\ granted \in RoleNames \cup {Nothing} /\ raced \in BOOLEAN
    BY DEF RolesInv, RolesTypeOK, Mark, Marks, Request
<1>2. Writes(r, Idle) /\ memberRole' = memberRole /\ source' = q.source /\ granted' = granted
    BY DEF Mark
<1>3. Shaped(Idle) /\ Idle.op = "idle"
    BY DEF Shaped, Idle, Request, RoleNames, Sources
<1>4. ASSUME ~raced', \A p \in Requests \ {r} : ~Marks(p), source' = "manual"
      PROVE  memberRole' = granted'
    <2>1. ~q.stale /\ ~raced
        BY <1>1, <1>2, <1>4 DEF Writes
    <2> QED  BY <1>1, <1>2, <1>4, <2>1 DEF RolesInv, MarksTruly
<1> QED  BY <1>1, <1>2, <1>3, <1>4, WritesKeep

LEMMA Merging == ASSUME RolesInv, Merge PROVE RolesInv'
<1>1. PICK r \in RoleNames, s \in Sources :
         /\ memberRole' = r /\ source' = s
         /\ granted' = IF s = "manual" THEN r ELSE Nothing
         /\ request' = [p \in Requests |->
                           [request[p] EXCEPT !.stale = request[p].op \notin {"idle", "find"}]]
         /\ UNCHANGED <<mapped, inGuild, raced>>
    BY DEF Merge
<1>2. \A p \in Requests :
         /\ Shaped(request'[p]) /\ Knows(request'[p], memberRole', source')
         /\ Marks(p)' => request'[p].stale
    BY <1>1, OthersOutdated DEF Marks
<1>3. request' \in [Requests -> Request]
    BY <1>1, <1>2, Zenon DEF Shaped
<1>4. RolesTypeOK'
    BY <1>1, <1>3 DEF RolesInv, RolesTypeOK
<1>5. SourceIsHonest' /\ MarksTruly'
    BY <1>1, <1>2 DEF SourceIsHonest, MarksTruly
<1> QED  BY <1>2, <1>4, <1>5 DEF RolesInv

LEMMA Abandoning == ASSUME RolesInv, NEW r \in Requests, Abandon(r) PROVE RolesInv'
<1>1. Shaped(Idle) /\ Knows(Idle, memberRole, source) /\ Knows(Idle, memberRole', source') /\ Idle.op = "idle"
    BY DEF Shaped, Knows, Idle, Request, RoleNames, Sources
<1>2. CASE ~Marks(r)
    <2>1. Reads(r, Idle)
        BY <1>2 DEF Abandon, Reads, Marks, RolesInv, RolesTypeOK
    <2> QED  BY <1>1, <1>2, <2>1, ReadsKeep
<1>3. CASE Marks(r)
    <2>1. raced' /\ request' = [request EXCEPT ![r] = Idle]
          /\ UNCHANGED <<memberRole, source, mapped, inGuild, granted>>
        BY <1>3 DEF Abandon, Marks
    <2>2. RolesTypeOK'
        BY <1>1, <2>1 DEF RolesInv, RolesTypeOK, Shaped
    <2>3. \A p \in Requests : Shaped(request'[p]) /\ Knows(request'[p], memberRole', source')
        BY <1>1, <2>1 DEF RolesInv, RolesTypeOK
    <2> QED  BY <2>1, <2>2, <2>3 DEF RolesInv, SourceIsHonest, MarksTruly
<1> QED  BY <1>2, <1>3

LEMMA NextKeeps == ASSUME RolesInv, [RolesNext]_roleVars PROVE RolesInv'
<1>1. CASE Merge
    BY <1>1, Merging
<1>2. CASE Discord \/ UNCHANGED roleVars
    <2>1. UNCHANGED <<memberRole, source, granted, request, raced>>
          /\ mapped' \in RoleNames \cup {Nothing} /\ inGuild' \in BOOLEAN
        BY <1>2 DEF Discord, roleVars, RolesInv, RolesTypeOK
    <2> QED  BY <2>1 DEF RolesInv, RolesTypeOK, SourceIsHonest, MarksTruly, Marks
<1>3. ASSUME NEW r \in Requests, Step(r)  PROVE RolesInv'
    BY <1>3, Reading, Deciding, Saving, Marking, Abandoning DEF Step
<1> QED  BY <1>1, <1>2, <1>3 DEF RolesNext

-----------------------------------------------------------------------------
(* Every variable keeps its type, and what a request saves is a role.        *)
THEOREM RolesTypesHold == RolesSpec => []RolesTypeOK
<1>1. RolesInv => RolesTypeOK
    BY DEF RolesInv
<1> QED  BY InitEstablishes, NextKeeps, <1>1, PTL DEF RolesSpec

(* A role marked as given by hand is the one that was given by hand last,    *)
(* however many requests sign in, sync, merge and edit at once.              *)
THEOREM AlwaysHonest == RolesSpec => []SourceIsHonest
<1>1. RolesInv => SourceIsHonest
    BY DEF RolesInv
<1> QED  BY InitEstablishes, NextKeeps, <1>1, PTL DEF RolesSpec

(* A sync or a sign-in never lowers a role that was given by hand.           *)
THEOREM NeverLowered == RolesSpec => ManualIsKept
<1> DEFINE Kept == \A r \in Requests :
                      Synced(r) /\ request'[r].op # "save" /\ source = "manual" /\ ~raced'
                          => Rank(memberRole') >= Rank(memberRole)
<1>1. ASSUME RolesInv, [RolesNext]_roleVars  PROVE [Kept]_roleVars
    <2> SUFFICES ASSUME RolesNext, NEW r \in Requests, Synced(r), request'[r].op # "save",
                        source = "manual", ~raced'
                 PROVE  Rank(memberRole') >= Rank(memberRole)
        BY <1>1
    <2>1. memberRole \in RoleNames /\ Rank(memberRole) >= Rank(memberRole)
        BY <1>1, Ranks DEF RolesInv, RolesTypeOK
    <2>2. CASE Save(r)
        <3>1. ~request[r].stale
            BY <2>2 DEF Save, Writes
        <3> QED  BY <1>1, <2>2, <3>1 DEF Save, Synced, RolesInv, Knows, Sources
    <2>3. CASE memberRole' = memberRole
        BY <2>1, <2>3
    <2>4. ASSUME NEW p \in Requests \ {r}, Save(p)  PROVE FALSE
        <3>1. request'[r].op = request[r].op
            BY <2>4, OthersOutdated, <1>1 DEF Save, Writes
        <3> QED  BY <3>1 DEF Synced
    <2>5. CASE Merge
        <3>1. request'[r].op = request[r].op
            BY <2>5, OthersOutdated, <1>1 DEF Merge
        <3> QED  BY <3>1 DEF Synced
    <2>6. Save(r) \/ Merge \/ memberRole' = memberRole \/ \E p \in Requests \ {r} : Save(p)
        BY DEF RolesNext, Step, Discord, Login, Fetched, NoAnswer, SyncFetch, SyncFind, Decide,
               Give, CopyRecord, Update, ReadRecord, Mark, Abandon, Reads
    <2> QED  BY <2>2, <2>3, <2>4, <2>5, <2>6
<1> QED  BY InitEstablishes, NextKeeps, <1>1, PTL DEF RolesSpec, ManualIsKept
=============================================================================
