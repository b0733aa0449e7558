-------------------------- MODULE ParallelRunsProofs --------------------------
(* Proofs about ParallelRuns, for any number of instances and lines, any limit *)
(* and any number of crashes, requests and operations of users.               *)
EXTENDS ParallelRuns, TLAPS, FiniteSetTheorems, WellFoundedInduction

-----------------------------------------------------------------------------
(* The invariant *)

\* The older instances that the limit is about, for instance i.
Counted(i) == {k \in Ids : k < i /\ state[k] \in Active /\ k \notin overlooked}

\* What the first transaction of a heartbeat has found stays true while it works.
CountHolds ==
    Limit # 0 =>
        \A i \in Ids : hb[i].pc = "working" => Cardinality(Counted(i)) <= Limit

Inv == TypeOK /\ CountHolds

LEMMA IdsFinite == IsFiniteSet(Ids) /\ Ids \subseteq Nat
BY LastType, FS_Interval DEF Ids

LEMMA CountedFinite == ASSUME NEW i \in Ids PROVE IsFiniteSet(Counted(i))
BY IdsFinite, FS_Subset DEF Counted

\* "<" is well-founded: a set of numbers has a least one.
LEMMA Smallest ==
    ASSUME NEW S \in SUBSET Nat, S # {}
    PROVE  \E a \in S : \A c \in S : a <= c
<1>1. PICK R : IsWellFoundedOn(R, Nat) /\ \A b, c \in Nat : b < c => <<b, c>> \in R
  <2>1. IsWellFoundedOn(OpToRel(<, Nat), Nat)  BY NatLessThanWellFounded
  <2>2. \A b, c \in Nat : b < c => <<b, c>> \in OpToRel(<, Nat)  BY DEF OpToRel
  <2> QED  BY <2>1, <2>2, Zenon
<1>2. PICK a \in S : \A c \in S : <<c, a>> \notin R
  <2>1. IsWellFoundedOn(R, Nat) /\ S \subseteq Nat /\ S # {}  BY <1>1
  <2>2. \E a \in S : \A c \in S : ~(<<c, a>> \in R)  BY <2>1, WFMin, Zenon
  <2> QED  BY <2>2
<1>3. \A c \in S : ~(c < a)  BY <1>1, <1>2
<1> QED  BY <1>3

\* The youngest one of some instances.
LEMMA Youngest ==
    ASSUME NEW S \in SUBSET Ids, S # {}
    PROVE  \E m \in S : \A k \in S : k <= m
<1> DEFINE Ages == {Last - k : k \in S}
<1>1. Ages \in SUBSET Nat /\ Ages # {}
  <2>1. ASSUME NEW k \in S PROVE Last - k \in Nat
    <3>1. k \in Nat /\ k <= Last  BY LastType DEF Ids
    <3> QED  BY <3>1, LastType
  <2>2. PICK k \in S : TRUE  OBVIOUS
  <2>3. Last - k \in Ages  BY <2>2
  <2>4. Ages \subseteq Nat  BY <2>1
  <2> QED  BY <2>3, <2>4
<1>2. PICK a \in Ages : \A c \in Ages : a <= c
  <2> HIDE DEF Ages
  <2> QED  BY <1>1, Smallest
<1>3. PICK m \in S : a = Last - m  BY <1>2
<1>4. ASSUME NEW k \in S PROVE k <= m
  <2>1. Last - m <= Last - k  BY <1>2, <1>3
  <2>2. k \in Nat /\ m \in Nat  BY DEF Ids
  <2> QED  BY <2>1, <2>2, LastType
<1> QED  BY <1>4

-----------------------------------------------------------------------------
(* Types *)

LEMMA InitInv == Init => Inv
<1> SUFFICES ASSUME Init PROVE Inv  OBVIOUS
<1>1. TypeOK
  <2>1. left \in [Ids -> Nat]  BY LinesType DEF Init, Ids
  <2> QED  BY <2>1 DEF Init, TypeOK, Off, HeartbeatType
<1>2. CountHolds  BY DEF Init, CountHolds, Off
<1> QED  BY <1>1, <1>2 DEF Inv

LEMMA OverlookType ==
    ASSUME TypeOK, NEW i \in Ids, Overlook(i)
    PROVE  overlooked' \subseteq Ids /\ overlooked \subseteq overlooked'
BY DEF TypeOK, Overlook

LEMMA PassType ==
    ASSUME TypeOK, NEW i \in Ids, NEW kind \in {"job", "request"}, Pass(kind, i)
    PROVE  /\ state' \in [Ids -> {"none", "creating"} \cup Active \cup Ended]
           /\ hb' \in [Ids -> HeartbeatType]
           /\ overlooked' \subseteq Ids
<1>1. overlooked' \subseteq Ids  BY OverlookType DEF Pass
<1>2. [Begun(kind) EXCEPT !.pc = "working"] \in HeartbeatType  BY DEF Begun, HeartbeatType
<1> QED  BY <1>1, <1>2 DEF TypeOK, Pass, Active

\* A user changes no more of a heartbeat than the mark of what was done.
LEMMA DisturbedType ==
    ASSUME TypeOK, NEW i \in Ids, NEW what \in {"wrote", "deleted"}
    PROVE  /\ Disturbed(i, what) \in [Ids -> HeartbeatType]
           /\ \A m \in Ids : Disturbed(i, what)[m].pc = hb[m].pc
BY DEF TypeOK, Disturbed, HeartbeatType

LEMMA RetriedType ==
    ASSUME TypeOK, NEW i \in Ids, Retried(i)
    PROVE  hb' \in [Ids -> HeartbeatType] /\ queued' \subseteq Ids
BY DEF TypeOK, Retried, Off, HeartbeatType

\* What the batches of a line write.
LEMMA BeatType ==
    ASSUME TypeOK, NEW i \in Ids, Beat(i)
    PROVE  /\ state' \in [Ids -> {"none", "creating"} \cup Active \cup Ended]
           /\ left' \in [Ids -> Nat]
           /\ broken' \subseteq Ids
           /\ queued' \subseteq Ids
           /\ hb' \in [Ids -> HeartbeatType]
<1>1. Off \in HeartbeatType  BY DEF Off, HeartbeatType
<1>2. CASE BeatFails(i)  BY <1>1, <1>2 DEF TypeOK, BeatFails, EndsAs, Ended
<1>3. CASE BeatPasses(i)
  <2>1. Begun(hb[i].kind) \in HeartbeatType  BY DEF TypeOK, Begun, HeartbeatType
  <2>2. hb' \in [Ids -> HeartbeatType]  BY <1>1, <1>3, <2>1 DEF TypeOK, BeatPasses
  <2>3. left' \in [Ids -> Nat]  BY <1>3 DEF TypeOK, BeatPasses
  <2> QED  BY <1>3, <2>2, <2>3 DEF TypeOK, BeatPasses
<1>4. CASE BeatStops(i)  BY <1>1, <1>4 DEF TypeOK, BeatStops, EndsAs, Ended
<1>5. CASE BeatIdle(i)  BY <1>1, <1>5 DEF TypeOK, BeatIdle
<1>6. CASE BeatConflicts(i)
  BY <1>1, <1>6, RetriedType DEF TypeOK, BeatConflicts
<1> QED  BY <1>2, <1>3, <1>4, <1>5, <1>6 DEF Beat

LEMMA TypeStep == TypeOK /\ [Next]_vars => TypeOK'
<1> SUFFICES ASSUME TypeOK, [Next]_vars PROVE TypeOK'  OBVIOUS
<1>1. CASE UNCHANGED vars  BY <1>1 DEF TypeOK, vars
<1>2. ASSUME NEW i \in Ids, Start(i) PROVE TypeOK'  BY <1>2 DEF TypeOK, Start
<1>3. ASSUME NEW i \in Ids, Created(i) PROVE TypeOK'
  <2>1. overlooked' \subseteq Ids  BY <1>3, OverlookType DEF Created
  <2>2. asked' \subseteq Ids /\ events' \in Nat  BY <1>3 DEF TypeOK, Created, Event
  <2> QED  BY <1>3, <2>1, <2>2 DEF TypeOK, Created, Active
<1>4. ASSUME NEW i \in Ids, CronHeartbeat(i) PROVE TypeOK'
  BY <1>4 DEF TypeOK, CronHeartbeat
<1>5. ASSUME NEW i \in Ids, RunJob(i) PROVE TypeOK'
  BY <1>5, PassType DEF TypeOK, RunJob
<1>6. ASSUME NEW i \in Ids, PgLock(i) PROVE TypeOK'
  <2>1. Begun("request") \in HeartbeatType  BY DEF Begun, HeartbeatType
  <2>2. hb' \in [Ids -> HeartbeatType]  BY <1>6, <2>1 DEF TypeOK, PgLock
  <2> QED  BY <1>6, <2>2 DEF TypeOK, PgLock
<1>7. ASSUME NEW i \in Ids, Prepare(i) PROVE TypeOK'
  <2>1. hb[i].kind \in {"job", "request"}  BY DEF TypeOK, HeartbeatType
  <2> QED  BY <1>7, <2>1, PassType DEF TypeOK, Prepare
<1>8. ASSUME NEW i \in Ids, Refused(i) PROVE TypeOK'
  BY <1>8, RetriedType DEF TypeOK, Refused
<1>9. ASSUME NEW i \in Ids, Beat(i) PROVE TypeOK'
  <2>1. UNCHANGED <<asked, overlooked, events>>  BY <1>9 DEF Beat
  <2> QED  BY <1>9, <2>1, BeatType DEF TypeOK
<1>10. ASSUME NEW i \in Ids, Crash(i) PROVE TypeOK'
  BY <1>10, MaxEventsType DEF TypeOK, Crash, Event, Off, HeartbeatType
<1>11. ASSUME NEW i \in Ids, Abort(i) PROVE TypeOK'
  <2>1. hb' \in [Ids -> HeartbeatType]  BY <1>11, DisturbedType DEF Abort
  <2> QED  BY <1>11, <2>1 DEF TypeOK, Abort, Event, Ended
<1>12. ASSUME NEW i \in Ids, Retry(i) PROVE TypeOK'
  <2>1. overlooked' \subseteq Ids  BY <1>12, OverlookType DEF Retry
  <2>2. hb' \in [Ids -> HeartbeatType]  BY <1>12, DisturbedType DEF Retry
  <2> QED  BY <1>12, <2>1, <2>2 DEF TypeOK, Retry, Event, Active
<1>13. ASSUME NEW i \in Ids, HeartbeatUi(i) PROVE TypeOK'
  <2>1. left' \in [Ids -> Nat] /\ broken' \subseteq Ids /\ asked' \subseteq Ids
    BY <1>13 DEF TypeOK, HeartbeatUi
  <2>2. overlooked' \subseteq Ids  BY <1>13, OverlookType DEF HeartbeatUi
  <2>3. hb' \in [Ids -> HeartbeatType]  BY <1>13, DisturbedType DEF HeartbeatUi
  <2> QED  BY <1>13, <2>1, <2>2, <2>3 DEF TypeOK, HeartbeatUi, Event, Active
<1> QED
  BY <1>1, <1>2, <1>3, <1>4, <1>5, <1>6, <1>7, <1>8, <1>9, <1>10, <1>11, <1>12, <1>13
     DEF Next, Work

-----------------------------------------------------------------------------
(* The count *)

\* A heartbeat that goes on keeps its count when nobody becomes active that it
\* could miss.
LEMMA CountKept ==
    ASSUME Inv, Limit # 0,
           NEW m \in Ids, hb[m].pc = "working",
           \A k \in Ids : k < m /\ state'[k] \in Active /\ k \notin overlooked'
                           => state[k] \in Active /\ k \notin overlooked
    PROVE  Cardinality(Counted(m)') <= Limit
<1>1. Cardinality(Counted(m)) <= Limit  BY DEF Inv, CountHolds
<1>2. Counted(m)' \subseteq Counted(m)  BY DEF Counted, Ids
<1>3. IsFiniteSet(Counted(m))  BY CountedFinite
<1>4. Cardinality(Counted(m)') <= Cardinality(Counted(m))  BY <1>2, <1>3, FS_Subset
<1>5. Cardinality(Counted(m)') \in Nat /\ Cardinality(Counted(m)) \in Nat
  BY <1>2, <1>3, FS_Subset, FS_CardinalityType
<1> QED  BY <1>1, <1>4, <1>5, LimitType

\* So it is in all steps that make no instance active and start no work.
LEMMA QuietStep ==
    ASSUME Inv,
           \A m \in Ids : hb'[m].pc = "working" => hb[m].pc = "working",
           \A k \in Ids : state'[k] \in Active => state[k] \in Active,
           UNCHANGED overlooked
    PROVE  CountHolds'
<1> SUFFICES ASSUME Limit # 0, NEW m \in Ids, hb'[m].pc = "working"
             PROVE  Cardinality(Counted(m)') <= Limit
  BY DEF CountHolds, Ids
<1> QED  BY CountKept

\* An instance that becomes active is older than no heartbeat at work, or noted.
LEMMA NobodyMissed ==
    ASSUME TypeOK, NEW i \in Ids, NEW s, Overlook(i), state' = [state EXCEPT ![i] = s],
           NEW m \in Ids, hb[m].pc = "working"
    PROVE  \A k \in Ids : k < m /\ state'[k] \in Active /\ k \notin overlooked'
                           => state[k] \in Active /\ k \notin overlooked
<1> SUFFICES ASSUME NEW k \in Ids, k < m, state'[k] \in Active, k \notin overlooked'
             PROVE  state[k] \in Active /\ k \notin overlooked
  OBVIOUS
<1>1. k \notin overlooked  BY OverlookType
<1>2. CASE k = i
  <2>1. m > i  BY <1>2 DEF Ids
  <2> QED  BY <1>1, <1>2, <2>1 DEF Overlook
<1>3. CASE k # i  BY <1>1, <1>3 DEF TypeOK
<1> QED  BY <1>2, <1>3

\* Older instances that become active, or a commit.
LEMMA ActivatingStep ==
    ASSUME Inv, NEW i \in Ids, NEW s, Overlook(i), state' = [state EXCEPT ![i] = s],
           \A m \in Ids : hb'[m].pc = "working" => hb[m].pc = "working"
    PROVE  CountHolds'
<1> SUFFICES ASSUME Limit # 0, NEW m \in Ids, hb'[m].pc = "working"
             PROVE  Cardinality(Counted(m)') <= Limit
  BY DEF CountHolds, Ids
<1>1. TypeOK /\ hb[m].pc = "working"  BY DEF Inv
<1>2. \A k \in Ids : k < m /\ state'[k] \in Active /\ k \notin overlooked'
                      => state[k] \in Active /\ k \notin overlooked
  BY <1>1, NobodyMissed
<1> QED  BY <1>1, <1>2, CountKept

\* A heartbeat that passes has just counted.
LEMMA PassStep ==
    ASSUME Inv, NEW i \in Ids, NEW kind \in {"job", "request"}, Pass(kind, i)
    PROVE  CountHolds'
<1> SUFFICES ASSUME Limit # 0, NEW m \in Ids, hb'[m].pc = "working"
             PROVE  Cardinality(Counted(m)') <= Limit
  BY DEF CountHolds, Ids
<1>1. TypeOK /\ Overlook(i) /\ state' = [state EXCEPT ![i] = "running"]
  BY DEF Inv, Pass
<1>2. CASE m = i
  <2>1. ~(Cardinality(Older(i)) > Limit)  BY DEF Pass, TooMany
  <2>2. Counted(m)' \subseteq Older(i)
    <3>1. ASSUME NEW k \in Ids, k < i, state'[k] \in Active PROVE state[k] \in Active
      BY <1>1, <3>1 DEF TypeOK, Ids
    <3> QED  BY <1>2, <3>1 DEF Counted, Older, Ids
  <2>3. IsFiniteSet(Older(i))  BY IdsFinite, FS_Subset DEF Older
  <2>4. Cardinality(Counted(m)') <= Cardinality(Older(i))  BY <2>2, <2>3, FS_Subset
  <2>5. Cardinality(Counted(m)') \in Nat /\ Cardinality(Older(i)) \in Nat
    BY <2>2, <2>3, FS_Subset, FS_CardinalityType
  <2> QED  BY <2>1, <2>4, <2>5, LimitType
<1>3. CASE m # i
  <2>1. hb[m].pc = "working"  BY <1>1, <1>3 DEF Pass, TypeOK
  <2>2. \A k \in Ids : k < m /\ state'[k] \in Active /\ k \notin overlooked'
                        => state[k] \in Active /\ k \notin overlooked
    BY <1>1, <2>1, NobodyMissed
  <2> QED  BY <2>1, <2>2, CountKept
<1> QED  BY <1>2, <1>3

\* The batches of a line make no instance active, and the heartbeat that works is
\* the one that did.
LEMMA BeatQuiet ==
    ASSUME TypeOK, NEW i \in Ids, Beat(i)
    PROVE  /\ \A m \in Ids : hb'[m].pc = "working" => hb[m].pc = "working"
           /\ \A k \in Ids : state'[k] \in Active => state[k] \in Active
<1>1. hb[i].pc = "working"  BY DEF Beat
<1>2. CASE BeatFails(i)  BY <1>1, <1>2 DEF TypeOK, BeatFails, EndsAs, Active
<1>3. CASE BeatPasses(i)  BY <1>1, <1>3 DEF TypeOK, BeatPasses
<1>4. CASE BeatStops(i)  BY <1>1, <1>4 DEF TypeOK, BeatStops, EndsAs, Active
<1>5. CASE BeatIdle(i)  BY <1>1, <1>5 DEF TypeOK, BeatIdle
<1>6. CASE BeatConflicts(i)  BY <1>1, <1>6 DEF TypeOK, BeatConflicts, Retried
<1> QED  BY <1>2, <1>3, <1>4, <1>5, <1>6 DEF Beat

LEMMA CountStep == Inv /\ [Next]_vars => CountHolds'
<1> SUFFICES ASSUME Inv, [Next]_vars PROVE CountHolds'  OBVIOUS
<1> USE DEF Inv
<1>1. CASE UNCHANGED vars
  BY <1>1, QuietStep DEF vars
<1>2. ASSUME NEW i \in Ids, Start(i) PROVE CountHolds'
  <2>1. \A k \in Ids : state'[k] \in Active => state[k] \in Active
    BY <1>2 DEF Start, TypeOK, Active
  <2> QED  BY <1>2, <2>1, QuietStep DEF Start
<1>3. ASSUME NEW i \in Ids, Created(i) PROVE CountHolds'
  BY <1>3, ActivatingStep DEF Created
<1>4. ASSUME NEW i \in Ids, CronHeartbeat(i) PROVE CountHolds'
  BY <1>4, QuietStep DEF CronHeartbeat
<1>5. ASSUME NEW i \in Ids, RunJob(i) PROVE CountHolds'
  BY <1>5, PassStep DEF RunJob
<1>6. ASSUME NEW i \in Ids, PgLock(i) PROVE CountHolds'
  <2>1. \A m \in Ids : hb'[m].pc = "working" => hb[m].pc = "working"
    BY <1>6 DEF PgLock, Begun, TypeOK
  <2> QED  BY <1>6, <2>1, QuietStep DEF PgLock
<1>7. ASSUME NEW i \in Ids, Prepare(i) PROVE CountHolds'
  <2>1. hb[i].kind \in {"job", "request"}  BY DEF TypeOK, HeartbeatType
  <2> QED  BY <1>7, <2>1, PassStep DEF Prepare
<1>8. ASSUME NEW i \in Ids, Refused(i) PROVE CountHolds'
  <2>1. \A m \in Ids : hb'[m].pc = "working" => hb[m].pc = "working"
    BY <1>8 DEF Refused, Retried, Off, TypeOK
  <2> QED  BY <1>8, <2>1, QuietStep DEF Refused
<1>9. ASSUME NEW i \in Ids, Beat(i) PROVE CountHolds'
  <2>1. UNCHANGED overlooked  BY <1>9 DEF Beat
  <2> QED  BY <1>9, <2>1, BeatQuiet, QuietStep
<1>10. ASSUME NEW i \in Ids, Crash(i) PROVE CountHolds'
  <2>1. \A m \in Ids : hb'[m].pc = "working" => hb[m].pc = "working"
    BY <1>10 DEF Crash, Off, TypeOK
  <2> QED  BY <1>10, <2>1, QuietStep DEF Crash
<1>11. ASSUME NEW i \in Ids, Abort(i) PROVE CountHolds'
  <2>1. \A k \in Ids : state'[k] \in Active => state[k] \in Active
    BY <1>11 DEF Abort, TypeOK, Active
  <2>2. \A m \in Ids : hb'[m].pc = "working" => hb[m].pc = "working"
    BY <1>11, DisturbedType DEF Abort
  <2> QED  BY <1>11, <2>1, <2>2, QuietStep DEF Abort
<1>12. ASSUME NEW i \in Ids, Retry(i) PROVE CountHolds'
  <2>1. \A m \in Ids : hb'[m].pc = "working" => hb[m].pc = "working"
    BY <1>12, DisturbedType DEF Retry
  <2> QED  BY <1>12, <2>1, ActivatingStep DEF Retry
<1>13. ASSUME NEW i \in Ids, HeartbeatUi(i) PROVE CountHolds'
  <2>1. \A m \in Ids : hb'[m].pc = "working" => hb[m].pc = "working"
    BY <1>13, DisturbedType DEF HeartbeatUi
  <2> QED  BY <1>13, <2>1, ActivatingStep DEF HeartbeatUi
<1> QED
  BY <1>1, <1>2, <1>3, <1>4, <1>5, <1>6, <1>7, <1>8, <1>9, <1>10, <1>11, <1>12, <1>13
     DEF Next, Work

LEMMA InvStep == Inv /\ [Next]_vars => Inv'
BY TypeStep, CountStep DEF Inv

\* The youngest instance at work has counted all the others.
LEMMA CountLimits == Inv => WithinLimit
<1> SUFFICES ASSUME Inv, Limit # 0
             PROVE  Cardinality(Working \ overlooked) <= Limit + 1
  BY DEF WithinLimit
<1> DEFINE Those == Working \ overlooked
<1>1. Those \in SUBSET Ids /\ IsFiniteSet(Those)
  <2>1. Those \in SUBSET Ids  BY DEF Working
  <2> QED  BY <2>1, IdsFinite, FS_Subset
<1>2. CASE Those = {}
  <2>1. Cardinality(Those) = 0  BY <1>2, FS_EmptySet
  <2> QED  BY <2>1, LimitType
<1>3. CASE Those # {}
  <2>1. PICK m \in Those : \A k \in Those : k <= m
    <3> HIDE DEF Those
    <3> QED  BY <1>1, <1>3, Youngest
  <2>2. m \in Ids /\ hb[m].pc = "working"  BY <2>1 DEF Working
  <2>3. Cardinality(Counted(m)) <= Limit  BY <2>2 DEF Inv, CountHolds
  <2>4. Those \ {m} \subseteq Counted(m)
    <3>1. ASSUME NEW k \in Those, k # m PROVE k < m
      BY <1>1, <2>1, <2>2, <3>1 DEF Ids
    <3> QED  BY <3>1 DEF Working, Counted, Active
  <2>5. IsFiniteSet(Counted(m))  BY <2>2, CountedFinite
  <2>6. Cardinality(Those \ {m}) <= Cardinality(Counted(m))
    BY <2>4, <2>5, FS_Subset
  <2>7. Cardinality(Those \ {m}) = Cardinality(Those) - 1
    <3> HIDE DEF Those
    <3> QED  BY <1>1, <2>1, FS_RemoveElement
  <2>8. Cardinality(Those) \in Nat /\ Cardinality(Counted(m)) \in Nat
    BY <1>1, <2>5, FS_CardinalityType
  <2> HIDE DEF Those
  <2>9. Cardinality(Those) <= Limit + 1  BY <2>3, <2>6, <2>7, <2>8, LimitType
  <2> QED  BY <2>9 DEF Those
<1> QED  BY <1>2, <1>3

-----------------------------------------------------------------------------
(* Theorems *)

\* The variables stay in their types: an instance that ended is never in a state
\* that the table does not know, and no counter falls below zero.
THEOREM TypeCorrect == Spec => []TypeOK
<1>1. TypeOK /\ [Next]_vars => TypeOK'  BY TypeStep
<1>2. Init => TypeOK  BY InitInv DEF Inv
<1> QED  BY <1>1, <1>2, PTL DEF Spec

\* At most Limit + 1 instances of a pipeline work at the same time, of those that
\* the others could count, for every limit: whoever asked for their heartbeats, the
\* cron, a request or a button (_check_running_count_and_prepare).
THEOREM LimitRespected == Spec => []WithinLimit
<1>1. Init => Inv  BY InitInv
<1>2. Inv /\ [Next]_vars => Inv'  BY InvStep
<1>3. Inv => WithinLimit  BY CountLimits
<1> QED  BY <1>1, <1>2, <1>3, PTL DEF Spec
=============================================================================
