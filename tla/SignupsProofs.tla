--------------------------- MODULE SignupsProofs ---------------------------
(***************************************************************************)
(* The safety properties of Signups, for any finite set of members, any    *)
(* set of request threads and any capacities.                              *)
(***************************************************************************)
EXTENDS Signups, FiniteSetTheorems, TLAPS

(* A thread that acts on the capacity it has read. *)
Holds(t) == thread[t].pc \notin {"idle", "tell"}

(* What a thread has read is never roomier than the roomiest capacity, never *)
(* tighter than the capacity while no room was made, and is the capacity     *)
(* while it was not changed.                                                 *)
Readings ==
    /\ Roomier(peak, max)
    /\ \A t \in Threads : Holds(t) => Roomier(peak, thread[t].max)
    /\ ~freed => \A t \in Threads : Holds(t) => Roomier(thread[t].max, max)
    /\ ~edited => \A t \in Threads : Holds(t) => thread[t].max = max

IInv == TypeOK /\ Readings /\ NoOverbooking /\ NoIdleSeat /\ SeatsInOrder

-----------------------------------------------------------------------------
(* Rooms. *)

LEMMA RoomierTransitive ==
    ASSUME NEW a \in Nat, NEW b \in Nat, NEW c \in Nat, Roomier(a, b), Roomier(b, c)
    PROVE  Roomier(a, c)
BY SMT DEF Roomier

LEMMA RoomierTotal ==
    ASSUME NEW a \in Nat, NEW b \in Nat
    PROVE  Roomier(a, a) /\ (Roomier(a, b) \/ Roomier(b, a))
BY SMT DEF Roomier

(* Every set of members is finite, so its size is a number. *)
LEMMA MembersFinite ==
    ASSUME NEW S \in SUBSET Members
    PROVE  IsFiniteSet(S) /\ Cardinality(S) \in Nat
BY SignupsAssumption, FS_Subset, FS_CardinalityType

(* A smaller set leaves at least as much room, a roomier limit as well. *)
LEMMA RoomKept ==
    ASSUME NEW S \in SUBSET Members, NEW T \in SUBSET S,
           NEW a \in Nat, NEW b \in Nat, Roomier(a, b), HasRoom(b, S)
    PROVE  HasRoom(a, T)
<1>1. Cardinality(S) \in Nat /\ Cardinality(T) \in Nat /\ Cardinality(T) <= Cardinality(S)
    <2>1. IsFiniteSet(S) /\ T \in SUBSET Members
        BY MembersFinite
    <2> QED  BY <2>1, MembersFinite, FS_Subset
<1> QED  BY <1>1, SMT DEF Roomier, HasRoom

-----------------------------------------------------------------------------
(* Sets of members by their status. *)

LEMMA SetsSplit ==
    ASSUME Types
    PROVE  /\ Going \subseteq Members /\ Waiting \subseteq Members
           /\ Going \cap Waiting = {}
           /\ \A m \in Members : m \in SignedUp <=> status[m] # "none"
BY DEF Types, Going, Waiting, With, SignedUp

(* Whoever leaves the list is gone from it, and nobody else is touched. *)
LEMMA RowGoes ==
    ASSUME TypeOK, NEW m \in Members,
           status' = [status EXCEPT ![m] = "none"], ahead' = Gone(m)
    PROVE  /\ Going' = Going \ {m} /\ Waiting' = Waiting \ {m} /\ SignedUp' = SignedUp \ {m}
           /\ status' \in [Members -> {"none", "going", "waitlist"}]
           /\ ahead' \in [Members -> SUBSET Members]
           /\ \A x \in Members : ahead'[x] \subseteq (IF x \in SignedUp' THEN SignedUp' \ {x} ELSE {})
           /\ \A x, y \in SignedUp' : x # y => (x \in ahead'[y] <=> y \notin ahead'[x])
           /\ \A x, y \in SignedUp' : x \in ahead'[y] <=> x \in ahead[y]
<1>1. /\ Going' = Going \ {m} /\ Waiting' = Waiting \ {m}
      /\ status' \in [Members -> {"none", "going", "waitlist"}]
    BY DEF TypeOK, Types, Going, Waiting, With
<1>2. SignedUp' = SignedUp \ {m}
    BY <1>1 DEF SignedUp
<1>3. ahead' = [x \in Members |-> IF x = m THEN {} ELSE ahead[x] \ {m}]
    BY DEF Gone
<1>4. ahead' \in [Members -> SUBSET Members]
    BY <1>3 DEF TypeOK, Types
<1>5. SignedUp' \subseteq Members
    BY <1>2, SetsSplit DEF TypeOK, SignedUp
<1>6. \A x, y \in SignedUp' : x \in ahead'[y] <=> x \in ahead[y]
    BY <1>2, <1>3, <1>5
<1>7. \A x \in Members : ahead'[x] \subseteq (IF x \in SignedUp' THEN SignedUp' \ {x} ELSE {})
    BY <1>2, <1>3 DEF TypeOK, Types, OneLine
<1>8. \A x, y \in SignedUp' : x # y => (x \in ahead'[y] <=> y \notin ahead'[x])
    BY <1>2, <1>6 DEF TypeOK, OneLine
<1> QED  BY <1>1, <1>2, <1>4, <1>6, <1>7, <1>8

-----------------------------------------------------------------------------
(* What a step on one thread leaves as it was. *)

LEMMA LimitsAreNumbers == Limits \subseteq Nat
BY SignupsAssumption DEF Limits

LEMMA ReadingsKept ==
    ASSUME Types, Readings, NEW t \in Threads,
           UNCHANGED <<max, peak, edited>>, ~freed' => ~freed,
           \A u \in Threads : u # t => thread'[u] = thread[u],
           \/ thread'[t].pc \in {"idle", "tell"}
           \/ thread'[t].max = max
           \/ Holds(t) /\ thread'[t].max = thread[t].max
    PROVE  Readings'
<1>1. max \in Nat /\ peak \in Nat
    BY LimitsAreNumbers DEF Types
<1>2. Roomier(max, max)
    BY <1>1, RoomierTotal
<1>3. Roomier(peak, max)' = Roomier(peak, max)
    BY DEF Roomier
<1>4. ASSUME NEW u \in Threads, Holds(u)'
      PROVE  \/ thread'[u].max = max
             \/ Holds(u) /\ thread'[u].max = thread[u].max
    BY <1>4 DEF Holds
<1>5. \A u \in Threads : Holds(u)' => Roomier(peak', thread'[u].max)
    BY <1>4 DEF Readings
<1>6. ~freed' => \A u \in Threads : Holds(u)' => Roomier(thread'[u].max, max')
    BY <1>2, <1>4 DEF Readings
<1>7. ~edited' => \A u \in Threads : Holds(u)' => thread'[u].max = max'
    BY <1>4 DEF Readings
<1> QED  BY <1>3, <1>5, <1>6, <1>7 DEF Readings

(* Nobody signs up or leaves and nothing about the event changes. *)
LEMMA SeatsKept ==
    ASSUME NoOverbooking, NoIdleSeat, SeatsInOrder, UNCHANGED <<status, ahead, max, peak, freed, edited>>
    PROVE  NoOverbooking' /\ NoIdleSeat' /\ SeatsInOrder'
<1>1. Going' = Going /\ Waiting' = Waiting
    BY DEF Going, Waiting, With
<1> QED  BY <1>1 DEF NoOverbooking, NoIdleSeat, SeatsInOrder, HasRoom

LEMMA OneLineKept ==
    ASSUME OneLine, UNCHANGED <<there, present, status, ahead>>
    PROVE  OneLine'
BY DEF OneLine, SignedUp, Going, Waiting, With

LEMMA IdleIsThread == Idle \in Thread /\ \A m \in Members : [Idle EXCEPT !.pc = "tell", !.who = m] \in Thread
BY DEF Idle, Thread, Limits, Paths, Phases

-----------------------------------------------------------------------------
(* The steps that only concern a thread. *)

(* A thread goes on, and the list stays as it is. *)
LEMMA ThreadGoesOn ==
    ASSUME IInv, NEW t \in Threads, NEW q \in Thread,
           thread' = [thread EXCEPT ![t] = q],
           q.pc \notin {"idle", "write"} => q.who \in Members,
           q.pc \in {"idle", "tell"} \/ q.max = max \/ (Holds(t) /\ q.max = thread[t].max),
           UNCHANGED <<there, phase, max, present, status, ahead, peak, edited, freed>>,
           unaware' \subseteq Members
    PROVE  IInv'
<1>1. /\ thread' \in [Threads -> Thread] /\ thread'[t] = q
      /\ \A u \in Threads : u # t => thread'[u] = thread[u]
    BY DEF IInv, TypeOK, Types
<1>2. \A u \in Threads : thread'[u].pc \notin {"idle", "write"} => thread'[u].who \in Members
    BY <1>1 DEF IInv, TypeOK, Types
<1>3. Types'
    BY <1>1, <1>2 DEF IInv, TypeOK, Types
<1>4. Readings'
    BY <1>1, ReadingsKept DEF IInv, TypeOK
<1> QED  BY <1>3, <1>4, SeatsKept, OneLineKept DEF IInv, TypeOK

LEMMA ClickStep ==
    ASSUME IInv, NEW t \in Threads, NEW path \in Paths, NEW m \in Members, Click(t, path, m)
    PROVE  IInv'
<1> DEFINE q == [pc |-> IF path = "manager" THEN "cancel" ELSE "decide",
                 path |-> path, who |-> m, max |-> max,
                 phase |-> IF path = "manager" THEN Idle.phase ELSE phase]
<1>1. q \in Thread /\ q.max = max /\ q.who \in Members
    BY DEF IInv, TypeOK, Types, Thread, Idle, Phases
<1>2. thread' = [thread EXCEPT ![t] = q]
    BY DEF Click
<1>3. UNCHANGED <<there, phase, max, present, status, ahead, peak, edited, freed, unaware>>
    BY DEF Click, event, history
<1> HIDE DEF q
<1> QED  BY <1>1, <1>2, <1>3, ThreadGoesOn DEF IInv, TypeOK, Types

LEMMA DecideStep ==
    ASSUME IInv, NEW t \in Threads, DecideCancel(t) \/ DecideRsvp(t) \/ DecideNothing(t)
    PROVE  IInv'
<1> DEFINE p == thread[t]
<1>0. p \in Thread /\ p.pc = "decide" /\ p.who \in Members /\ Holds(t)
    BY DEF IInv, TypeOK, Types, Holds, DecideCancel, DecideRsvp, DecideNothing
<1>1. /\ UNCHANGED <<there, phase, max, present, status, ahead, peak, edited, freed, unaware>>
      /\ unaware' \subseteq Members
    BY DEF DecideCancel, DecideRsvp, DecideNothing, event, history, IInv, TypeOK, Types
<1>2. CASE DecideCancel(t)
    <2> DEFINE q == [p EXCEPT !.pc = "cancel", !.phase = Idle.phase]
    <2>1. q \in Thread /\ q.max = p.max /\ q.who = p.who
        BY <1>0 DEF Thread, Idle, Phases
    <2>2. thread' = [thread EXCEPT ![t] = q]
        BY <1>2 DEF DecideCancel, IInv, TypeOK, Types
    <2> HIDE DEF q
    <2> QED  BY <1>0, <1>1, <2>1, <2>2, ThreadGoesOn
<1>3. CASE DecideRsvp(t)
    <2> DEFINE q == [p EXCEPT !.pc = "rsvp"]
    <2>1. q \in Thread /\ q.max = p.max /\ q.who = p.who
        BY <1>0 DEF Thread
    <2>2. thread' = [thread EXCEPT ![t] = q]
        BY <1>3 DEF DecideRsvp, IInv, TypeOK, Types
    <2> HIDE DEF q
    <2> QED  BY <1>0, <1>1, <2>1, <2>2, ThreadGoesOn
<1>4. CASE DecideNothing(t)
    <2>1. thread' = [thread EXCEPT ![t] = Idle] /\ Idle \in Thread /\ Idle.pc = "idle"
        BY <1>4, IdleIsThread DEF DecideNothing, Rest, Idle
    <2> QED  BY <1>1, <2>1, ThreadGoesOn
<1> QED  BY <1>2, <1>3, <1>4

LEMMA TellStep ==
    ASSUME IInv, NEW t \in Threads, Tell(t)
    PROVE  IInv'
<1>1. thread' = [thread EXCEPT ![t] = Idle] /\ Idle \in Thread /\ Idle.pc = "idle"
    BY IdleIsThread DEF Tell, Rest, Idle
<1>2. /\ UNCHANGED <<there, phase, max, present, status, ahead, peak, edited, freed>>
      /\ unaware' \subseteq Members
    BY DEF Tell, event, history, IInv, TypeOK, Types
<1> QED  BY <1>1, <1>2, ThreadGoesOn

LEMMA EditReadStep ==
    ASSUME IInv, NEW t \in Threads, EditRead(t)
    PROVE  IInv'
<1> DEFINE q == [Idle EXCEPT !.pc = "write", !.path = "edit", !.max = max]
<1>1. q \in Thread /\ q.pc = "write" /\ q.max = max
    BY DEF IInv, TypeOK, Types, Thread, Idle, Phases, Paths
<1>2. thread' = [thread EXCEPT ![t] = q]
    BY DEF EditRead
<1>3. /\ UNCHANGED <<there, phase, max, present, status, ahead, peak, edited, freed, unaware>>
      /\ unaware' \subseteq Members
    BY DEF EditRead, event, history, IInv, TypeOK, Types
<1> HIDE DEF q
<1> QED  BY <1>1, <1>2, <1>3, ThreadGoesOn

LEMMA SetPhaseStep ==
    ASSUME IInv, NEW p \in Phases, SetPhase(p)
    PROVE  IInv'
<1>1. /\ UNCHANGED <<there, max, present, status, ahead, thread, peak, edited, freed, unaware>>
      /\ phase' \in Phases
    BY DEF SetPhase, history
<1>2. Readings'
    BY <1>1 DEF IInv, Readings, Holds, Roomier
<1> QED  BY <1>1, <1>2, SeatsKept, OneLineKept DEF IInv, TypeOK, Types

(* A new capacity: what the threads have read was roomier than the old one,  *)
(* and is roomier than the new one unless that makes room.                   *)
LEMMA EditWriteStep ==
    ASSUME IInv, NEW t \in Threads, NEW n \in Limits, EditWrite(t, n)
    PROVE  IInv'
<1>1. /\ thread' \in [Threads -> Thread] /\ thread'[t] = Idle
      /\ \A u \in Threads : u # t => thread'[u] = thread[u]
    BY IdleIsThread DEF EditWrite, Rest, IInv, TypeOK, Types
<1>2. /\ UNCHANGED <<there, phase, present, status, ahead, unaware>>
      /\ max' \in Limits /\ max' \in Nat
      /\ peak' = IF Roomier(peak, max') THEN peak ELSE max'
      /\ peak' \in Limits /\ peak' \in Nat
    BY LimitsAreNumbers DEF EditWrite, IInv, TypeOK, Types
<1>3. max \in Nat /\ peak \in Nat /\ \A u \in Threads : thread[u].max \in Nat
    BY LimitsAreNumbers DEF IInv, TypeOK, Types, Thread
<1>4. Roomier(peak', peak) /\ Roomier(peak', max')
    BY <1>2, <1>3, RoomierTotal
<1>5. ~freed' => ~freed /\ Roomier(max, max')
    BY DEF EditWrite
<1>6. ~edited' => ~edited /\ max' = max
    BY DEF EditWrite
<1>7. Types'
    <2>1. \A u \in Threads : thread'[u].pc \notin {"idle", "write"} => thread'[u].who \in Members
        BY <1>1 DEF IInv, TypeOK, Types, Idle
    <2> QED  BY <1>1, <1>2, <2>1 DEF EditWrite, IInv, TypeOK, Types
<1>8. Readings'
    <2>1. ASSUME NEW u \in Threads, Holds(u)'
          PROVE  Holds(u) /\ thread'[u].max = thread[u].max
        BY <1>1, <2>1 DEF Holds, Idle
    <2>2. \A u \in Threads : Holds(u)' => Roomier(peak', thread'[u].max)
        BY <1>2, <1>3, <1>4, <2>1, RoomierTransitive DEF IInv, Readings
    <2>3. ~freed' => \A u \in Threads : Holds(u)' => Roomier(thread'[u].max, max')
        BY <1>2, <1>3, <1>5, <2>1, RoomierTransitive DEF IInv, Readings
    <2>4. ~edited' => \A u \in Threads : Holds(u)' => thread'[u].max = max'
        BY <1>6, <2>1 DEF IInv, Readings
    <2> QED  BY <1>4, <2>2, <2>3, <2>4 DEF Readings, Roomier
<1>9. Going' = Going /\ Waiting' = Waiting /\ Going \in SUBSET Members
    BY <1>2, SetsSplit DEF Going, Waiting, With, IInv, TypeOK
<1>10. NoOverbooking'
    <2>1. Cardinality(Going) \in Nat
        BY <1>9, MembersFinite
    <2> QED  BY <1>2, <1>3, <1>4, <1>9, <2>1 DEF IInv, NoOverbooking, Roomier
<1>11. NoIdleSeat'
    <2> SUFFICES ASSUME ~freed', HasRoom(max', Going)
                 PROVE  Waiting = {}
        BY <1>9 DEF NoIdleSeat, HasRoom
    <2>1. HasRoom(max, Going)
        BY <1>2, <1>3, <1>5, <1>9, RoomKept
    <2> QED  BY <1>5, <2>1 DEF IInv, NoIdleSeat
<1>12. SeatsInOrder'
    BY <1>2, <1>5, <1>6, <1>9 DEF IInv, SeatsInOrder
<1> QED  BY <1>2, <1>7, <1>8, <1>10, <1>11, <1>12, OneLineKept DEF IInv, TypeOK

-----------------------------------------------------------------------------
(* The steps that change the list. *)

(* Somebody leaves: this is fine as long as no room is made behind the back  *)
(* of those who wait.                                                        *)
LEMMA LeavingKeeps ==
    ASSUME IInv, NEW m \in Members,
           status' = [status EXCEPT ![m] = "none"], ahead' = Gone(m),
           UNCHANGED <<max, peak, edited>>, ~freed' => ~freed,
           status[m] = "going" /\ ~freed' /\ HasRoom(max, Going \ {m}) => Waiting = {}
    PROVE  NoOverbooking' /\ NoIdleSeat' /\ SeatsInOrder'
<1>1. /\ Going' = Going \ {m} /\ Waiting' = Waiting \ {m} /\ SignedUp' = SignedUp \ {m}
      /\ \A x, y \in SignedUp' : x \in ahead'[y] <=> x \in ahead[y]
    BY RowGoes DEF IInv
<1>2. Going \in SUBSET Members /\ Going \ {m} \in SUBSET Members
    BY SetsSplit DEF IInv, TypeOK
<1>3. NoOverbooking'
    <2>1. /\ Cardinality(Going) \in Nat /\ Cardinality(Going \ {m}) \in Nat
          /\ Cardinality(Going \ {m}) <= Cardinality(Going)
        BY <1>2, MembersFinite, FS_Subset
    <2>2. peak \in Nat
        BY LimitsAreNumbers DEF IInv, TypeOK, Types
    <2> QED  BY <1>1, <2>1, <2>2 DEF IInv, NoOverbooking
<1>4. NoIdleSeat'
    <2> SUFFICES ASSUME ~freed', HasRoom(max, Going \ {m})
                 PROVE  Waiting = {}
        BY <1>1 DEF NoIdleSeat, HasRoom
    <2>1. CASE status[m] = "going"
        BY <2>1
    <2>2. CASE status[m] # "going"
        <3>1. Going \ {m} = Going
            BY <2>2 DEF Going, With
        <3> QED  BY <3>1 DEF IInv, NoIdleSeat
    <2> QED  BY <2>1, <2>2
<1>5. SeatsInOrder'
    BY <1>1 DEF IInv, SeatsInOrder, SignedUp
<1> QED  BY <1>3, <1>4, <1>5

LEMMA CancelOnlyStep ==
    ASSUME IInv, NEW t \in Threads, CancelOnly(t)
    PROVE  IInv'
<1> DEFINE m == thread[t].who
<1>1. m \in Members /\ Holds(t) /\ thread[t].max \in Nat /\ max \in Nat
    BY LimitsAreNumbers DEF CancelOnly, Holds, IInv, TypeOK, Types, Thread
<1>2. /\ status' = [status EXCEPT ![m] = "none"] /\ ahead' = Gone(m)
      /\ UNCHANGED <<there, phase, max, present, peak, edited, freed>>
      /\ unaware' \subseteq Members
    BY DEF CancelOnly, event, history, IInv, TypeOK, Types
<1>3. /\ thread' = [thread EXCEPT ![t] = Idle]
      /\ thread' \in [Threads -> Thread] /\ thread'[t] = Idle
      /\ \A u \in Threads : u # t => thread'[u] = thread[u]
    BY IdleIsThread DEF CancelOnly, Rest, IInv, TypeOK, Types
<1>4. Readings'
    BY <1>2, <1>3, ReadingsKept DEF IInv, TypeOK, Idle
<1>5. NoOverbooking' /\ NoIdleSeat' /\ SeatsInOrder'
    <2>1. ASSUME status[m] = "going", ~freed, HasRoom(max, Going \ {m})
          PROVE  Waiting = {}
        <3>1. Roomier(thread[t].max, max) /\ Going \ {m} \in SUBSET Members
            BY <1>1, <2>1, SetsSplit DEF IInv, TypeOK, Readings
        <3>2. HasRoom(thread[t].max, Going \ {m})
            BY <1>1, <2>1, <3>1, RoomKept
        <3> QED  BY <2>1, <3>2 DEF CancelOnly
    <2> HIDE DEF m
    <2> QED  BY <1>1, <1>2, <2>1, LeavingKeeps
<1>6. TypeOK'
    <2>1. Types'
        <3>1. \A u \in Threads : thread'[u].pc \notin {"idle", "write"} => thread'[u].who \in Members
            BY <1>3 DEF IInv, TypeOK, Types, Idle
        <3> HIDE DEF m
        <3> QED  BY <1>1, <1>2, <1>3, <3>1, RowGoes DEF IInv, TypeOK, Types
    <2>2. OneLine'
        <3> HIDE DEF m
        <3>1. /\ SignedUp' = SignedUp \ {m}
              /\ \A x \in Members : ahead'[x] \subseteq (IF x \in SignedUp' THEN SignedUp' \ {x} ELSE {})
              /\ \A x, y \in SignedUp' : x # y => (x \in ahead'[y] <=> y \notin ahead'[x])
            BY <1>1, <1>2, RowGoes DEF IInv
        <3>2. SignedUp' \subseteq (IF there' THEN present' ELSE {})
            BY <1>2, <3>1 DEF IInv, TypeOK, OneLine
        <3> QED  BY <3>1, <3>2 DEF OneLine
    <2> QED  BY <2>1, <2>2 DEF TypeOK
<1> QED  BY <1>4, <1>5, <1>6 DEF IInv

(* A record goes, with its RSVP, when its member is deleted or was merged.   *)
LEMMA RecordGoes ==
    ASSUME IInv, NEW m \in Members,
           status' = [status EXCEPT ![m] = "none"], ahead' = Gone(m),
           present' = present \ {m}, unaware' = unaware \ {m},
           freed' = (freed \/ (status[m] = "going" /\ Waiting # {})),
           UNCHANGED <<there, phase, max, thread, peak, edited>>
    PROVE  IInv'
<1>1. /\ ~freed' => ~freed
      /\ status[m] = "going" /\ ~freed' /\ HasRoom(max, Going \ {m}) => Waiting = {}
    OBVIOUS
<1>2. NoOverbooking' /\ NoIdleSeat' /\ SeatsInOrder'
    BY <1>1, LeavingKeeps
<1>3. Readings'
    BY <1>1 DEF IInv, Readings, Holds, Roomier
<1>4. /\ SignedUp' = SignedUp \ {m}
      /\ status' \in [Members -> {"none", "going", "waitlist"}]
      /\ ahead' \in [Members -> SUBSET Members]
      /\ \A x \in Members : ahead'[x] \subseteq (IF x \in SignedUp' THEN SignedUp' \ {x} ELSE {})
      /\ \A x, y \in SignedUp' : x # y => (x \in ahead'[y] <=> y \notin ahead'[x])
    BY RowGoes DEF IInv
<1>5. freed' \in BOOLEAN
    BY DEF IInv, TypeOK, Types
<1>6. Types'
    BY <1>4, <1>5 DEF IInv, TypeOK, Types
<1>7. SignedUp' \subseteq (IF there' THEN present' ELSE {})
    BY <1>4 DEF IInv, TypeOK, OneLine
<1>8. OneLine'
    BY <1>4, <1>7 DEF OneLine
<1> QED  BY <1>2, <1>3, <1>6, <1>8 DEF IInv, TypeOK

LEMMA DeleteMemberStep ==
    ASSUME IInv, NEW m \in Members, DeleteMember(m)
    PROVE  IInv'
BY RecordGoes DEF DeleteMember, event

LEMMA MergeKeepsStep ==
    ASSUME IInv, NEW keep \in Members, NEW drop \in Members, MergeKeeps(keep, drop)
    PROVE  IInv'
BY RecordGoes DEF MergeKeeps, event

LEMMA DeleteEventStep ==
    ASSUME IInv, DeleteEvent
    PROVE  IInv'
<1>1. /\ there' = FALSE /\ unaware' = {}
      /\ status' = [m \in Members |-> "none"] /\ ahead' = [m \in Members |-> {}]
      /\ UNCHANGED <<phase, max, present, thread, peak, edited, freed>>
    BY DEF DeleteEvent, history
<1>2. Going' = {} /\ Waiting' = {} /\ SignedUp' = {}
    BY <1>1 DEF Going, Waiting, With, SignedUp
<1>3. TypeOK'
    BY <1>1, <1>2 DEF IInv, TypeOK, Types, OneLine
<1>4. Readings'
    BY <1>1 DEF IInv, Readings, Holds, Roomier
<1>5. NoOverbooking'
    <2>1. Cardinality({}) = 0 /\ peak' \in Nat
        BY <1>1, FS_EmptySet, LimitsAreNumbers DEF IInv, TypeOK, Types
    <2> QED  BY <1>2, <2>1 DEF NoOverbooking
<1> QED  BY <1>2, <1>3, <1>4, <1>5 DEF IInv, NoIdleSeat, SeatsInOrder

(* A new RSVP: a seat is given out only where the capacity the thread has    *)
(* read leaves one, and then nobody waits.                                   *)
LEMMA RsvpStep ==
    ASSUME IInv, NEW t \in Threads, Rsvp(t)
    PROVE  IInv'
<1> DEFINE m == thread[t].who
           n == thread[t].max
<1>1. m \in Members /\ Holds(t) /\ n \in Nat /\ max \in Nat /\ peak \in Nat
    BY LimitsAreNumbers DEF Rsvp, Holds, IInv, TypeOK, Types, Thread
<1>2. /\ UNCHANGED <<there, phase, max, present, peak, edited, freed, unaware>>
      /\ Roomier(peak, n) /\ (~freed => Roomier(n, max)) /\ (~edited => n = max)
    BY <1>1 DEF Rsvp, event, history, IInv, Readings
<1>3. /\ thread' = [thread EXCEPT ![t] = Idle]
      /\ thread' \in [Threads -> Thread] /\ thread'[t] = Idle
      /\ \A u \in Threads : u # t => thread'[u] = thread[u]
    BY IdleIsThread DEF Rsvp, Rest, IInv, TypeOK, Types
<1>4. CASE UNCHANGED <<status, ahead>>
    BY <1>2, <1>3, <1>4, IdleIsThread, ThreadGoesOn DEF Idle, IInv, TypeOK, Types
<1>5. CASE /\ there /\ m \in present /\ status[m] = "none"
           /\ Seat(m, IF HasRoom(n, Going) THEN "going" ELSE "waitlist")
    <2>1. /\ Going \in SUBSET Members /\ Going \cap Waiting = {}
          /\ m \notin Going /\ m \notin Waiting /\ m \notin SignedUp /\ SignedUp \subseteq Members
        BY <1>5, SetsSplit DEF IInv, TypeOK, Going, Waiting, With, SignedUp
    <2>2. /\ Going' = IF HasRoom(n, Going) THEN Going \cup {m} ELSE Going
          /\ Waiting' = IF HasRoom(n, Going) THEN Waiting ELSE Waiting \cup {m}
        BY <1>1, <1>5 DEF Seat, Going, Waiting, With, IInv, TypeOK, Types
    <2>3. SignedUp' = SignedUp \cup {m}
        BY <2>2 DEF SignedUp
    <2>4. /\ status' \in [Members -> {"none", "going", "waitlist"}]
          /\ ahead' \in [Members -> SUBSET Members]
          /\ ahead'[m] = SignedUp
          /\ \A x \in Members : x # m => ahead'[x] = ahead[x]
        BY <1>1, <1>5, <2>1 DEF Seat, IInv, TypeOK, Types
    <2>5. Types'
        <3>1. \A u \in Threads : thread'[u].pc \notin {"idle", "write"} => thread'[u].who \in Members
            BY <1>3 DEF IInv, TypeOK, Types, Idle
        <3> QED  BY <1>2, <1>3, <2>4, <3>1 DEF IInv, TypeOK, Types
    <2>6. OneLine'
        <3>1. SignedUp' \subseteq (IF there' THEN present' ELSE {})
            BY <1>2, <1>5, <2>3 DEF IInv, TypeOK, OneLine
        <3>2. \A x \in Members : ahead'[x] \subseteq (IF x \in SignedUp' THEN SignedUp' \ {x} ELSE {})
            BY <2>1, <2>3, <2>4 DEF IInv, TypeOK, OneLine
        <3>3. \A x \in Members : m \notin ahead[x]
            BY <2>1 DEF IInv, TypeOK, OneLine
        <3>4. ASSUME NEW x \in SignedUp', NEW y \in SignedUp', x # y
              PROVE  x \in ahead'[y] <=> y \notin ahead'[x]
            <4>1. CASE x = m
                BY <2>1, <2>3, <2>4, <3>3, <3>4, <4>1
            <4>2. CASE y = m
                BY <2>1, <2>3, <2>4, <3>3, <3>4, <4>2
            <4>3. CASE x # m /\ y # m
                BY <2>1, <2>3, <2>4, <3>4, <4>3 DEF IInv, TypeOK, OneLine
            <4> QED  BY <4>1, <4>2, <4>3
        <3> QED  BY <3>1, <3>2, <3>4 DEF OneLine
    <2>7. Readings'
        BY <1>2, <1>3, ReadingsKept DEF IInv, TypeOK, Idle
    <2>8. NoOverbooking'
        <3>1. IsFiniteSet(Going) /\ Cardinality(Going) \in Nat
            BY <2>1, MembersFinite
        <3>2. Cardinality(Going \cup {m}) = Cardinality(Going) + 1
            BY <2>1, <3>1, FS_AddElement
        <3> QED  BY <1>1, <1>2, <2>2, <3>1, <3>2 DEF IInv, NoOverbooking, HasRoom, Roomier
    <2>9. NoIdleSeat'
        <3> SUFFICES ASSUME ~freed, HasRoom(max, Going')
                     PROVE  Waiting' = {}
            BY <1>2 DEF NoIdleSeat, HasRoom
        <3>1. Going' \in SUBSET Members /\ Going \in SUBSET Going'
            BY <1>1, <2>1, <2>2
        <3>2. HasRoom(n, Going) /\ HasRoom(max, Going)
            BY <1>1, <1>2, <3>1, RoomKept, RoomierTotal
        <3> QED  BY <2>2, <3>2 DEF IInv, NoIdleSeat
    <2>10. SeatsInOrder'
        <3> SUFFICES ASSUME ~freed, ~edited, NEW g \in Going', NEW w \in Waiting'
                     PROVE  g \in ahead'[w]
            BY <1>2 DEF SeatsInOrder
        <3>1. CASE HasRoom(n, Going)
            BY <1>2, <2>2, <3>1 DEF IInv, NoIdleSeat
        <3>2. CASE ~HasRoom(n, Going)
            BY <2>1, <2>2, <2>4, <3>2 DEF IInv, SeatsInOrder, SignedUp
        <3> QED  BY <3>1, <3>2
    <2> QED  BY <2>5, <2>6, <2>7, <2>8, <2>9, <2>10 DEF IInv, TypeOK
<1> QED  BY <1>4, <1>5 DEF Rsvp

(* Somebody leaves and the first who waits takes the seat: as many seats are *)
(* taken as before.                                                          *)
LEMMA MoveUpStep ==
    ASSUME IInv, NEW t \in Threads, NEW w \in Members, MoveUp(t, w)
    PROVE  IInv'
<1> DEFINE m == thread[t].who
<1>1. /\ m \in Members /\ m \in Going /\ w \in Waiting /\ m # w
      /\ m \in SignedUp /\ w \in SignedUp /\ SignedUp \subseteq Members
      /\ Going \in SUBSET Members /\ Waiting \in SUBSET Members /\ Going \cap Waiting = {}
    BY SetsSplit DEF MoveUp, First, Going, Waiting, With, SignedUp, IInv, TypeOK, Types
<1>2. /\ status' = [status EXCEPT ![m] = "none", ![w] = "going"]
      /\ ahead' = [x \in Members |-> IF x = m THEN {} ELSE ahead[x] \ {m}]
      /\ UNCHANGED <<there, phase, max, present, peak, edited, freed>>
      /\ unaware' \subseteq Members
    BY DEF MoveUp, Gone, event, history, IInv, TypeOK, Types
<1>3. /\ thread' = [thread EXCEPT ![t] = [Idle EXCEPT !.pc = "tell", !.who = w]]
      /\ [Idle EXCEPT !.pc = "tell", !.who = w] \in Thread
      /\ thread' \in [Threads -> Thread]
      /\ thread'[t].pc = "tell" /\ thread'[t].who = w
      /\ \A u \in Threads : u # t => thread'[u] = thread[u]
    BY IdleIsThread DEF MoveUp, IInv, TypeOK, Types, Idle
<1>4. /\ Going' = (Going \ {m}) \cup {w} /\ Waiting' = Waiting \ {w}
      /\ status' \in [Members -> {"none", "going", "waitlist"}]
    BY <1>1, <1>2 DEF Going, Waiting, With, IInv, TypeOK, Types
<1>5. SignedUp' = SignedUp \ {m}
    BY <1>1, <1>4 DEF SignedUp
<1>6. Cardinality(Going') = Cardinality(Going)
    <2>1. IsFiniteSet(Going) /\ Cardinality(Going) \in Nat
        BY <1>1, MembersFinite
    <2>2. IsFiniteSet(Going \ {m}) /\ Cardinality(Going \ {m}) = Cardinality(Going) - 1
        BY <1>1, <2>1, FS_RemoveElement
    <2>3. Cardinality((Going \ {m}) \cup {w}) = Cardinality(Going \ {m}) + 1
        BY <1>1, <2>2, FS_AddElement
    <2> QED  BY <1>4, <2>1, <2>2, <2>3
<1>7. Types'
    <2>1. \A u \in Threads : thread'[u].pc \notin {"idle", "write"} => thread'[u].who \in Members
        BY <1>3 DEF IInv, TypeOK, Types
    <2>2. ahead' \in [Members -> SUBSET Members]
        BY <1>2 DEF IInv, TypeOK, Types
    <2> QED  BY <1>2, <1>3, <1>4, <2>1, <2>2 DEF IInv, TypeOK, Types
<1>8. OneLine'
    <2>1. SignedUp' \subseteq (IF there' THEN present' ELSE {})
        BY <1>2, <1>5 DEF IInv, TypeOK, OneLine
    <2>2. \A x \in Members : ahead'[x] \subseteq (IF x \in SignedUp' THEN SignedUp' \ {x} ELSE {})
        BY <1>2, <1>5 DEF IInv, TypeOK, OneLine
    <2>3. \A x, y \in SignedUp' : x # y => (x \in ahead'[y] <=> y \notin ahead'[x])
        BY <1>1, <1>2, <1>5 DEF IInv, TypeOK, OneLine
    <2> QED  BY <2>1, <2>2, <2>3 DEF OneLine
<1>9. Readings'
    BY <1>2, <1>3, ReadingsKept DEF IInv, TypeOK
<1>10. NoOverbooking'
    BY <1>2, <1>6 DEF IInv, NoOverbooking
<1>11. NoIdleSeat'
    BY <1>1, <1>2, <1>6 DEF IInv, NoIdleSeat, HasRoom
<1>12. SeatsInOrder'
    <2> SUFFICES ASSUME ~freed, ~edited, NEW g \in Going', NEW v \in Waiting'
                 PROVE  g \in ahead'[v]
        BY <1>2 DEF SeatsInOrder
    <2>1. v \in Waiting /\ v # w /\ v # m /\ ahead'[v] = ahead[v] \ {m}
        BY <1>1, <1>2, <1>4
    <2>2. CASE g = w
        <3>1. v \notin ahead[w]
            BY <2>1 DEF MoveUp, First
        <3>2. w \in ahead[v]
            BY <1>1, <2>1, <3>1 DEF IInv, TypeOK, OneLine, SignedUp
        <3> QED  BY <1>1, <2>1, <2>2, <3>2
    <2>3. CASE g # w
        BY <1>4, <2>1, <2>3 DEF IInv, SeatsInOrder
    <2> QED  BY <2>2, <2>3
<1> QED  BY <1>7, <1>8, <1>9, <1>10, <1>11, <1>12 DEF IInv, TypeOK

(* One record put in the place of another that it does not stand beside.     *)
LEMMA RenameSize ==
    ASSUME NEW S \in SUBSET Members, NEW drop \in Members, NEW keep \in Members, keep \notin S
    PROVE  Cardinality(Rename(S, drop, keep)) = Cardinality(S)
<1>1. IsFiniteSet(S) /\ Cardinality(S) \in Nat
    BY MembersFinite
<1>2. CASE drop \in S
    <2>1. IsFiniteSet(S \ {drop}) /\ Cardinality(S \ {drop}) = Cardinality(S) - 1
        BY <1>1, <1>2, FS_RemoveElement
    <2>2. Cardinality((S \ {drop}) \cup {keep}) = Cardinality(S \ {drop}) + 1
        BY <2>1, FS_AddElement
    <2> QED  BY <1>1, <1>2, <2>1, <2>2 DEF Rename
<1>3. CASE drop \notin S
    BY <1>3 DEF Rename
<1> QED  BY <1>2, <1>3

LEMMA MergeMovesSets ==
    ASSUME TypeOK, NEW keep \in Members, NEW drop \in Members, MergeMoves(keep, drop)
    PROVE  /\ keep # drop /\ keep \notin SignedUp /\ keep \notin Going /\ keep \notin Waiting
           /\ Going' = Rename(Going, drop, keep)
           /\ Waiting' = Rename(Waiting, drop, keep)
           /\ SignedUp' = Rename(SignedUp, drop, keep)
           /\ status' \in [Members -> {"none", "going", "waitlist"}]
           /\ ahead' \in [Members -> SUBSET Members]
           /\ ahead'[drop] = {} /\ ahead'[keep] = ahead[drop]
           /\ \A x \in Members \ {keep, drop} : ahead'[x] = Rename(ahead[x], drop, keep)
<1>1. /\ keep # drop /\ status[keep] = "none" /\ keep \notin Going /\ keep \notin Waiting
      /\ status' = [status EXCEPT ![keep] = status[drop], ![drop] = "none"]
    BY DEF MergeMoves, Going, Waiting, With
<1>2. /\ Going' = Rename(Going, drop, keep) /\ Waiting' = Rename(Waiting, drop, keep)
      /\ status' \in [Members -> {"none", "going", "waitlist"}]
    BY <1>1 DEF Rename, Going, Waiting, With, TypeOK, Types
<1>3. SignedUp' = Rename(SignedUp, drop, keep)
    BY <1>2 DEF Rename, SignedUp
<1>4. /\ ahead' \in [Members -> SUBSET Members]
      /\ ahead'[drop] = {} /\ ahead'[keep] = ahead[drop]
      /\ \A x \in Members \ {keep, drop} : ahead'[x] = Rename(ahead[x], drop, keep)
    BY <1>1 DEF MergeMoves, Rename, TypeOK, Types
<1> QED  BY <1>1, <1>2, <1>3, <1>4 DEF SignedUp

LEMMA MergeMovesStep ==
    ASSUME IInv, NEW keep \in Members, NEW drop \in Members, MergeMoves(keep, drop)
    PROVE  IInv'
<1>1. /\ keep # drop /\ keep \notin SignedUp /\ keep \notin Going /\ keep \notin Waiting
      /\ Going' = Rename(Going, drop, keep)
      /\ Waiting' = Rename(Waiting, drop, keep)
      /\ SignedUp' = Rename(SignedUp, drop, keep)
      /\ status' \in [Members -> {"none", "going", "waitlist"}]
      /\ ahead' \in [Members -> SUBSET Members]
      /\ ahead'[drop] = {} /\ ahead'[keep] = ahead[drop]
      /\ \A x \in Members \ {keep, drop} : ahead'[x] = Rename(ahead[x], drop, keep)
    BY MergeMovesSets DEF IInv
<1>2. /\ present' = present \ {drop} /\ keep \in present /\ unaware' = unaware \ {drop}
      /\ UNCHANGED <<there, phase, max, thread, peak, edited, freed>>
    BY DEF MergeMoves, event, history
<1>3. SignedUp \subseteq Members /\ Going \in SUBSET Members /\ Waiting \in SUBSET Members
    BY SetsSplit DEF IInv, TypeOK, SignedUp
<1>4. \A x \in Members : keep \notin ahead[x] /\ (x \notin SignedUp => ahead[x] = {})
    BY <1>1 DEF IInv, TypeOK, OneLine
<1>5. Types'
    BY <1>1, <1>2 DEF IInv, TypeOK, Types
<1>6. OneLine'
    <2>1. SignedUp' \subseteq (IF there' THEN present' ELSE {})
        BY <1>1, <1>2 DEF IInv, TypeOK, OneLine, Rename
    <2>2. ASSUME NEW x \in Members
          PROVE  ahead'[x] \subseteq (IF x \in SignedUp' THEN SignedUp' \ {x} ELSE {})
        <3>1. CASE x = drop
            BY <1>1, <3>1
        <3>2. CASE x = keep
            BY <1>1, <1>4, <3>2 DEF IInv, TypeOK, OneLine, Rename
        <3>3. CASE x \notin {keep, drop}
            BY <1>1, <1>4, <3>3 DEF IInv, TypeOK, OneLine, Rename
        <3> QED  BY <3>1, <3>2, <3>3
    <2>3. ASSUME NEW x \in SignedUp', NEW y \in SignedUp', x # y
          PROVE  x \in ahead'[y] <=> y \notin ahead'[x]
        <3>1. x \in Members \ {drop} /\ y \in Members \ {drop}
            BY <1>1, <1>3, <2>3 DEF Rename
        <3>2. \A z \in SignedUp' : z # keep => z \in SignedUp
            BY <1>1 DEF Rename
        <3>3. keep \in SignedUp' => drop \in SignedUp
            BY <1>1 DEF Rename
        <3>4. CASE x = keep
            BY <1>1, <1>4, <2>3, <3>1, <3>2, <3>3, <3>4 DEF IInv, TypeOK, OneLine, Rename
        <3>5. CASE y = keep
            BY <1>1, <1>4, <2>3, <3>1, <3>2, <3>3, <3>5 DEF IInv, TypeOK, OneLine, Rename
        <3>6. CASE x # keep /\ y # keep
            BY <1>1, <2>3, <3>1, <3>2, <3>6 DEF IInv, TypeOK, OneLine, Rename
        <3> QED  BY <3>4, <3>5, <3>6
    <2> QED  BY <2>1, <2>2, <2>3 DEF OneLine
<1>7. Readings'
    BY <1>2 DEF IInv, Readings, Holds, Roomier
<1>8. Cardinality(Going') = Cardinality(Going)
    BY <1>1, <1>3, RenameSize
<1>9. NoOverbooking'
    BY <1>2, <1>8 DEF IInv, NoOverbooking
<1>10. NoIdleSeat'
    BY <1>1, <1>2, <1>8 DEF IInv, NoIdleSeat, HasRoom, Rename
<1>11. SeatsInOrder'
    <2> SUFFICES ASSUME ~freed, ~edited, NEW g \in Going', NEW v \in Waiting'
                 PROVE  g \in ahead'[v]
        BY <1>2 DEF SeatsInOrder
    <2>1. \A a \in Going, b \in Waiting : a \in ahead[b] /\ a # b
        BY SetsSplit DEF IInv, SeatsInOrder, TypeOK
    <2>2. CASE v = keep
        BY <1>1, <1>3, <2>1, <2>2 DEF Rename
    <2>3. CASE v # keep
        BY <1>1, <1>3, <2>1, <2>3 DEF Rename
    <2> QED  BY <2>2, <2>3
<1> QED  BY <1>5, <1>6, <1>7, <1>9, <1>10, <1>11 DEF IInv, TypeOK

-----------------------------------------------------------------------------
(* Theorems. *)

LEMMA InitEstablishes == Init => IInv
<1> SUFFICES ASSUME Init PROVE IInv
    OBVIOUS
<1>1. Going = {} /\ Waiting = {} /\ SignedUp = {}
    BY DEF Init, Going, Waiting, With, SignedUp
<1>2. TypeOK
    BY <1>1, IdleIsThread DEF Init, TypeOK, Types, OneLine, Phases, Idle
<1>3. Readings
    <2>1. max \in Nat /\ peak = max /\ \A t \in Threads : ~Holds(t)
        BY LimitsAreNumbers DEF Init, Holds, Idle
    <2> QED  BY <2>1, RoomierTotal DEF Readings
<1>4. NoOverbooking
    <2>1. Cardinality({}) = 0 /\ peak \in Nat
        BY FS_EmptySet, LimitsAreNumbers DEF Init
    <2> QED  BY <1>1, <2>1 DEF NoOverbooking
<1> QED  BY <1>1, <1>2, <1>3, <1>4 DEF IInv, NoIdleSeat, SeatsInOrder

LEMMA NextKeeps == IInv /\ [Next]_vars => IInv'
<1> SUFFICES ASSUME IInv, [Next]_vars PROVE IInv'
    OBVIOUS
<1>1. CASE UNCHANGED vars
    <2>1. UNCHANGED <<there, phase, max, present, status, ahead, thread, peak, edited, freed, unaware>>
        BY <1>1 DEF vars
    <2>2. Readings'
        BY <2>1 DEF IInv, Readings, Holds, Roomier
    <2> QED  BY <2>1, <2>2, SeatsKept, OneLineKept DEF IInv, TypeOK, Types
<1>2. ASSUME NEW t \in Threads, Step(t)
      PROVE  IInv'
    BY <1>2, ClickStep, DecideStep, RsvpStep, CancelOnlyStep, MoveUpStep, TellStep,
       EditReadStep, EditWriteStep DEF Step
<1>3. CASE Around
    BY <1>3, SetPhaseStep, DeleteEventStep, DeleteMemberStep, MergeMovesStep, MergeKeepsStep DEF Around
<1> QED  BY <1>1, <1>2, <1>3 DEF Next

(* The inductive invariant holds throughout. *)
LEMMA Invariance == Spec => []IInv
BY InitEstablishes, NextKeeps, PTL DEF Spec

(* Types, and one line: no RSVP of a record that is gone, no two RSVPs in    *)
(* the same place (RsvpRepository, migration 047, MemberMerge).              *)
THEOREM TypesHold == Spec => []TypeOK
<1>1. IInv => TypeOK
    BY DEF IInv
<1> QED  BY <1>1, Invariance, PTL

(* RsvpRepository::rsvp and ::cancel never seat more members than the event  *)
(* ever had room for, although each decides with a capacity read earlier.    *)
THEOREM NeverOverbooked == Spec => []NoOverbooking
<1>1. IInv => NoOverbooking
    BY DEF IInv
<1> QED  BY <1>1, Invariance, PTL

(* A cancellation always hands its seat on: nobody waits for a free seat     *)
(* unless an edit, a deletion or a merge made the room.                      *)
THEOREM NeverIdleSeat == Spec => []NoIdleSeat
<1>1. IInv => NoIdleSeat
    BY DEF IInv
<1> QED  BY <1>1, Invariance, PTL

(* First come, first served, while the capacity is left alone. *)
THEOREM AlwaysInOrder == Spec => []SeatsInOrder
<1>1. IInv => SeatsInOrder
    BY DEF IInv
<1> QED  BY <1>1, Invariance, PTL

(* Every path that frees a seat goes on to notify_promoted. *)
THEOREM NeverSilent == Spec => []NoSilentMove
<1>1. Init => NoSilentMove
    BY DEF Init, NoSilentMove
<1>2. IInv /\ NoSilentMove /\ [Next]_vars => NoSilentMove'
    <2> SUFFICES ASSUME IInv, NoSilentMove, [Next]_vars, NEW m \in unaware'
                 PROVE  \E u \in Threads : thread'[u].pc = "tell" /\ thread'[u].who = m
        BY DEF NoSilentMove
    <2>1. thread \in [Threads -> Thread]
        BY DEF IInv, TypeOK, Types
    <2>2. ASSUME m \in unaware, thread' = thread
          PROVE  \E u \in Threads : thread'[u].pc = "tell" /\ thread'[u].who = m
        BY <2>2 DEF NoSilentMove
    <2>3. ASSUME NEW t \in Threads, m \in unaware, thread[t].pc # "tell",
                 \A u \in Threads : u # t => thread'[u] = thread[u]
          PROVE  \E u \in Threads : thread'[u].pc = "tell" /\ thread'[u].who = m
        BY <2>3 DEF NoSilentMove
    <2>4. CASE UNCHANGED vars
        BY <2>2, <2>4 DEF vars
    <2>5. CASE Around
        BY <2>2, <2>5 DEF Around, SetPhase, DeleteEvent, DeleteMember, MergeMoves, MergeKeeps
    <2>6. ASSUME NEW t \in Threads, Step(t)
          PROVE  \E u \in Threads : thread'[u].pc = "tell" /\ thread'[u].who = m
        <3>1. \A u \in Threads : u # t => thread'[u] = thread[u]
            BY <2>1, <2>6 DEF Step, Click, DecideCancel, DecideRsvp, DecideNothing, Rsvp, CancelOnly,
               MoveUp, Tell, EditRead, EditWrite, Rest
        <3>2. CASE Tell(t)
            <4>1. m \in unaware /\ m # thread[t].who
                BY <3>2 DEF Tell
            <4> QED  BY <3>1, <4>1 DEF NoSilentMove
        <3>3. ASSUME NEW w \in Members, MoveUp(t, w)
              PROVE  \E u \in Threads : thread'[u].pc = "tell" /\ thread'[u].who = m
            <4>1. thread'[t].pc = "tell" /\ thread'[t].who = w
                BY <2>1, <3>3 DEF MoveUp, Idle
            <4>2. m = w \/ m \in unaware
                BY <3>3 DEF MoveUp
            <4>3. thread[t].pc # "tell"
                BY <3>3 DEF MoveUp
            <4> QED  BY <2>3, <3>1, <4>1, <4>2, <4>3
        <3>4. CASE \/ \E path \in Paths \ {"edit"}, x \in Members : Click(t, path, x)
                   \/ DecideCancel(t) \/ DecideRsvp(t) \/ DecideNothing(t)
                   \/ Rsvp(t) \/ CancelOnly(t) \/ EditRead(t) \/ \E n \in Limits : EditWrite(t, n)
            <4>1. m \in unaware /\ thread[t].pc # "tell"
                BY <3>4 DEF Click, DecideCancel, DecideRsvp, DecideNothing, Rsvp, CancelOnly,
                   EditRead, EditWrite
            <4> QED  BY <2>3, <3>1, <4>1
        <3> QED  BY <2>6, <3>2, <3>3, <3>4 DEF Step
    <2> QED  BY <2>4, <2>5, <2>6 DEF Next
<1> QED  BY <1>1, <1>2, Invariance, PTL DEF Spec

(* Whoever waits behind m before and after a step, waited behind m before.   *)
LEMMA PlaceShrinks ==
    ASSUME Types, NEW m \in Members, ahead'[m] \cap Waiting' \subseteq ahead[m] \cap Waiting
    PROVE  Place(m)' <= Place(m)
<1>1. ahead[m] \cap Waiting \in SUBSET Members
    BY SetsSplit
<1>2. IsFiniteSet(ahead[m] \cap Waiting)
    BY <1>1, MembersFinite
<1>3. Cardinality(ahead'[m] \cap Waiting') <= Cardinality(ahead[m] \cap Waiting)
    BY <1>2, FS_Subset
<1> QED  BY <1>3 DEF Place

(* RsvpRepository::waitlist_position never grows while a member waits: every *)
(* step keeps or shrinks what is ahead, a merge renames one record of it.    *)
THEOREM PlacesHold == Spec => PlaceNeverSlips
<1>1. ASSUME IInv, [Next]_vars, NEW m \in Members, m \in Waiting, m \in Waiting'
      PROVE  Place(m)' <= Place(m)
    <2>1. /\ Types /\ TypeOK /\ m \in SignedUp /\ Waiting \subseteq Members
          /\ ahead \in [Members -> SUBSET Members]
        BY <1>1, SetsSplit DEF IInv, TypeOK, Types, SignedUp
    <2>2. ASSUME UNCHANGED <<status, ahead>>
          PROVE  Place(m)' <= Place(m)
        <3>1. ahead'[m] = ahead[m] /\ Waiting' = Waiting
            BY <2>2 DEF Waiting, With
        <3> QED  BY <2>1, <3>1, PlaceShrinks
    <2>3. ASSUME NEW x \in Members, status' = [status EXCEPT ![x] = "none"], ahead' = Gone(x)
          PROVE  Place(m)' <= Place(m)
        <3>1. Waiting' = Waiting \ {x}
            BY <2>1, <2>3, RowGoes
        <3>2. ahead'[m] \subseteq ahead[m]
            BY <2>3 DEF Gone
        <3> QED  BY <2>1, <3>1, <3>2, PlaceShrinks
    <2>4. CASE UNCHANGED vars
        BY <2>2, <2>4 DEF vars
    <2>5. ASSUME NEW t \in Threads, Rsvp(t)
          PROVE  Place(m)' <= Place(m)
        <3> DEFINE x == thread[t].who
                   s == IF HasRoom(thread[t].max, Going) THEN "going" ELSE "waitlist"
        <3>1. CASE UNCHANGED <<status, ahead>>
            BY <2>2, <3>1
        <3>2. CASE x \in present /\ status[x] = "none" /\ Seat(x, s)
            <4>1. x \notin SignedUp /\ x # m
                BY <1>1, <3>2 DEF SignedUp, Going, Waiting, With
            <4>2. x \notin ahead[m]
                BY <1>1, <2>1, <4>1 DEF IInv, TypeOK, OneLine
            <4>3. ahead'[m] = ahead[m] /\ Waiting' \subseteq Waiting \cup {x}
                BY <2>1, <3>2, <4>1 DEF Seat, Waiting, With, Types
            <4> QED  BY <2>1, <4>2, <4>3, PlaceShrinks
        <3> QED  BY <2>5, <3>1, <3>2 DEF Rsvp
    <2>6. ASSUME NEW t \in Threads, CancelOnly(t)
          PROVE  Place(m)' <= Place(m)
        <3>1. thread[t].who \in Members
            BY <2>1, <2>6 DEF CancelOnly, Types
        <3> QED  BY <2>3, <2>6, <3>1 DEF CancelOnly
    <2>7. ASSUME NEW t \in Threads, NEW w \in Members, MoveUp(t, w)
          PROVE  Place(m)' <= Place(m)
        <3>1. ahead'[m] \subseteq ahead[m]
            BY <2>7 DEF MoveUp, Gone
        <3>2. Waiting' \subseteq Waiting
            BY <2>1, <2>7 DEF MoveUp, Waiting, With, Types
        <3> QED  BY <2>1, <3>1, <3>2, PlaceShrinks
    <2>8. CASE DeleteEvent
        BY <1>1, <2>8 DEF DeleteEvent, Waiting, With
    <2>9. ASSUME NEW keep \in Members, NEW drop \in Members, MergeMoves(keep, drop)
          PROVE  Place(m)' <= Place(m)
        <3> DEFINE S == ahead[m] \cap Waiting
        <3>1. /\ keep # drop /\ keep \notin SignedUp /\ keep \notin Waiting
              /\ Waiting' = Rename(Waiting, drop, keep)
              /\ \A x \in Members \ {keep, drop} : ahead'[x] = Rename(ahead[x], drop, keep)
            BY <2>1, <2>9, MergeMovesSets
        <3>2. m \in Members \ {keep, drop}
            BY <1>1, <3>1 DEF Rename
        <3>3. keep \notin ahead[m]
            BY <1>1, <2>1, <3>1 DEF IInv, TypeOK, OneLine
        <3>4. ahead'[m] \cap Waiting' = Rename(S, drop, keep)
            BY <3>1, <3>2, <3>3 DEF Rename
        <3>5. S \in SUBSET Members /\ keep \notin S
            BY <2>1, <3>3
        <3>6. Cardinality(Rename(S, drop, keep)) = Cardinality(S) /\ Cardinality(S) \in Nat
            BY <3>5, RenameSize, MembersFinite
        <3> QED  BY <3>4, <3>6 DEF Place
    <2>10. ASSUME NEW keep \in Members, NEW drop \in Members, MergeKeeps(keep, drop)
           PROVE  Place(m)' <= Place(m)
        BY <2>3, <2>10 DEF MergeKeeps
    <2>11. ASSUME NEW x \in Members, DeleteMember(x)
           PROVE  Place(m)' <= Place(m)
        BY <2>3, <2>11 DEF DeleteMember
    <2>12. ASSUME NEW t \in Threads,
                  \/ \E path \in Paths \ {"edit"}, x \in Members : Click(t, path, x)
                  \/ DecideCancel(t) \/ DecideRsvp(t) \/ DecideNothing(t)
                  \/ Tell(t) \/ EditRead(t) \/ \E n \in Limits : EditWrite(t, n)
           PROVE  Place(m)' <= Place(m)
        BY <2>2, <2>12 DEF Click, DecideCancel, DecideRsvp, DecideNothing, Tell, EditRead, EditWrite
    <2>13. CASE \E p \in Phases : SetPhase(p)
        BY <2>2, <2>13 DEF SetPhase
    <2> QED  BY <1>1, <2>4, <2>5, <2>6, <2>7, <2>8, <2>9, <2>10, <2>11, <2>12, <2>13
             DEF Next, Step, Around
<1>2. IInv /\ [Next]_vars
        => [\A m \in Members : m \in Waiting /\ m \in Waiting' => Place(m)' <= Place(m)]_vars
    BY <1>1
<1>3. []IInv /\ [][Next]_vars
        => [][\A m \in Members : m \in Waiting /\ m \in Waiting' => Place(m)' <= Place(m)]_vars
    BY <1>2, PTL
<1> QED  BY <1>3, Invariance, PTL DEF Spec, PlaceNeverSlips
=============================================================================
