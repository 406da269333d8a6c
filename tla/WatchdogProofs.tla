--------------------------- MODULE WatchdogProofs ---------------------------
(* The watchdog's flag and its task, for any items, places and poses.      *)
EXTENDS Watchdog, FiniteSetTheorems, TLAPS

USE WatchdogAssumption

\* TypeOK restricted to what the scheduling needs.
ScheduleOK ==
  /\ queued \in BOOLEAN /\ tasks \in Nat
  /\ wpc \in {"sleep", "add"}
  /\ gpc \in {"idle", "schedule", "add", "tick"}

FlagInv == ScheduleOK /\ FlagMatchesQueue

LEMMA FlagInit == Init => FlagInv
<1> SUFFICES ASSUME Init PROVE FlagInv
  OBVIOUS
<1>1. queued \in BOOLEAN /\ (IF queued THEN 1 ELSE 0) = 0
  BY Zenon DEF Init
<1>2. tasks = 0 /\ wpc = "sleep" /\ gpc = "idle"
  BY DEF Init
<1> QED
  BY <1>1, <1>2 DEF FlagInv, ScheduleOK, FlagMatchesQueue, Adding

LEMMA FlagStep == FlagInv /\ [Next]_vars => FlagInv'
<1> SUFFICES ASSUME FlagInv, [Next]_vars PROVE FlagInv'
  OBVIOUS
<1> USE DEF FlagInv, ScheduleOK, FlagMatchesQueue, Adding
<1>1. CASE WatchdogExchange
  BY <1>1 DEF WatchdogExchange
<1>2. CASE WatchdogAddTask
  BY <1>2 DEF WatchdogAddTask
<1>3. CASE ApplyExchange
  BY <1>3 DEF ApplyExchange
<1>4. CASE ApplyAddTask
  BY <1>4 DEF ApplyAddTask
<1>5. CASE TakeTask
  <2>1. queued' \in BOOLEAN /\ (IF queued' THEN 1 ELSE 0) = 0
    BY <1>5, Zenon DEF TakeTask
  <2>2. tasks > 0 /\ tasks' = tasks - 1 /\ wpc' = wpc /\ gpc = "idle" /\ gpc' = "tick"
    BY <1>5 DEF TakeTask
  <2> QED
    BY <2>1, <2>2
<1>6. CASE WatchdogTick
  BY <1>6 DEF WatchdogTick, schedule
<1>7. CASE ApplySkip \/ ClearProxy \/ Unload3D \/ Load3D
  <2>1. UNCHANGED schedule /\ gpc' \in {"idle", "schedule", "add", "tick"}
        /\ (gpc' = "add" <=> gpc = "add")
    BY <1>7 DEF ApplySkip, ClearProxy, Unload3D, Load3D
  <2> QED
    BY <2>1 DEF schedule
<1>8. ASSUME NEW S \in SUBSET Items, Apply(S) PROVE FlagInv'
  BY <1>8 DEF Apply, schedule
<1>9. CASE \/ \E i \in Items : Attach(i) \/ Overwrite(i)
           \/ \E k \in Places : AttachOther(k)
  BY <1>9 DEF Attach, Overwrite, AttachOther, schedule
<1>10. CASE WatchdogNoTask \/ ApplyNoTask
  <2>1. queued' \in BOOLEAN /\ (IF queued' THEN 1 ELSE 0) = 0
    BY <1>10, Zenon DEF WatchdogNoTask, ApplyNoTask
  <2>2. tasks' = tasks /\ Adding >= 1 /\ Adding' = Adding - 1
    BY <1>10 DEF WatchdogNoTask, ApplyNoTask
  <2>3. wpc' \in {"sleep", "add"} /\ gpc' \in {"idle", "schedule", "add", "tick"}
    BY <1>10 DEF WatchdogNoTask, ApplyNoTask
  <2>4. tasks + Adding \in {0, 1}
    OBVIOUS
  <2> QED
    BY <2>1, <2>2, <2>3, <2>4
<1>11. CASE UNCHANGED vars
  BY <1>11 DEF vars, schedule
<1> QED
  BY <1>1, <1>2, <1>3, <1>4, <1>5, <1>6, <1>7, <1>8, <1>9, <1>10, <1>11 DEF Next, GameStep

\* However the watchdog thread and Apply's scheduling interleave, the flag is
\* up exactly while one task is queued or about to be: there are never two
\* tasks, and the flag never blocks the watchdog.
THEOREM WatchdogNeverBlocked == Spec => []FlagMatchesQueue
<1>1. FlagInv => FlagMatchesQueue
  BY DEF FlagInv
<1> QED
  BY <1>1, FlagInit, FlagStep, PTL DEF Spec

-----------------------------------------------------------------------------
(* Type correctness.                                                       *)

\* The choice in LastAt exists: a finite set of numbers has a largest one.
LEMMA Largest ==
  ASSUME NEW S \in SUBSET Nat, IsFiniteSet(S), S # {}
  PROVE  \E i \in S : \A j \in S : j <= i
<1> DEFINE Above(i) == {j \in S : i < j}
           T == {Above(i) : i \in S}
<1>1. T \subseteq SUBSET S /\ T # {}
  <2>1. PICK i \in S : TRUE
    OBVIOUS
  <2>2. Above(i) \in T
    BY <2>1
  <2> QED
    BY <2>2
<1>2. IsWellFoundedOn(StrictSubsetOrdering(S), SUBSET S)
  <2>1. IsWellFoundedOn(StrictSubsetOrdering(S), FiniteSubsetsOf(S))
    BY FS_StrictSubsetOrderingWellFounded, Zenon
  <2>2. FiniteSubsetsOf(S) = SUBSET S
    BY FS_FiniteSubsetsOfFinite, Zenon
  <2> QED
    BY <2>1, <2>2, Zenon
<1> HIDE DEF T
<1>3. PICK U \in T : \A V \in T : <<V, U>> \notin StrictSubsetOrdering(S)
  BY <1>1, <1>2, WFMin, Zenon
<1>4. PICK i \in S : U = Above(i)
  BY DEF T
<1>5. ASSUME NEW j \in S, i < j PROVE FALSE
  <2>1. Above(j) \in T
    BY DEF T
  <2>a. i \in Nat /\ j \in Nat /\ \A l \in S : l \in Nat
    OBVIOUS
  <2>b. ~(j < j) /\ \A l \in S : j < l => i < l
    BY <1>5, <2>a
  <2>2. Above(j) \subseteq Above(i) /\ j \in Above(i) /\ j \notin Above(j)
    BY <1>5, <2>b
  <2>3. <<Above(j), U>> \in StrictSubsetOrdering(S)
    BY <1>1, <1>4, <2>1, <2>2 DEF StrictSubsetOrdering
  <2> QED
    BY <1>3, <2>1, <2>3
<1>6. \A j \in S : j <= i
  BY <1>5
<1> QED
  BY <1>6

\* What WatchdogTick leaves at a place is a transform, or still nothing.
LEMMA RepairedType ==
  ASSUME tracked \subseteq Items, NEW k \in Places, NEW t \in Poses \cup {Absent}
  PROVE  Repaired(k, t) \in Poses \cup {Absent}
<1>1. CASE At(k) = {}
  BY <1>1, Zenon DEF Repaired
<1>2. CASE At(k) # {}
  <2>1. At(k) \subseteq Items /\ At(k) \in SUBSET Nat
    BY DEF At
  <2>2. IsFiniteSet(At(k))
    BY <2>1, FS_Subset
  <2>3. LastAt(k) \in At(k)
    BY <1>2, <2>1, <2>2, Largest DEF LastAt
  <2>4. LastAt(k) \in Items
    BY <2>1, <2>3
  <2> QED
    BY <2>4 DEF Repaired
<1> QED
  BY <1>1, <1>2

\* TypeOK by the part of the state it is about; the scheduling is FlagInv's.
AvatarOK ==
  /\ tracked \subseteq Items
  /\ loaded \in BOOLEAN
  /\ own \in [Items -> Poses \cup {Absent}]
  /\ other \in [Places -> Poses \cup {Absent}]
  /\ found \in [Places -> Items \cup {Theirs, Absent}]
BoundsOK == applies \in 0..MaxApply /\ resets \in 0..MaxReset
TypeInv == FlagInv /\ AvatarOK /\ BoundsOK

LEMMA TypeInvOK == TypeInv => TypeOK
<1> SUFFICES ASSUME TypeInv PROVE TypeOK
  OBVIOUS
<1>1. queued \in BOOLEAN /\ wpc \in {"sleep", "add"}
      /\ gpc \in {"idle", "schedule", "add", "tick"}
  BY DEF TypeInv, FlagInv, ScheduleOK
<1>2. tasks \in 0..1
  <2>1. tasks \in Nat /\ tasks + Adding = IF queued THEN 1 ELSE 0
    BY DEF TypeInv, FlagInv, ScheduleOK, FlagMatchesQueue
  <2>2. Adding \in {0, 1, 2}
    BY DEF Adding
  <2> QED
    BY <2>1, <2>2
<1> QED
  BY <1>1, <1>2, Zenon DEF TypeInv, AvatarOK, BoundsOK, TypeOK

LEMMA TypeInit == Init => AvatarOK /\ BoundsOK
BY DEF Init, NoneOf, AvatarOK, BoundsOK

\* Objects deleted, and an object found, leave the scene well typed.
LEMMA DeleteType ==
  ASSUME AvatarOK, DeleteOurs
  PROVE  /\ own' \in [Items -> Poses \cup {Absent}] /\ other' = other /\ loaded' = loaded
         /\ found' \in [Places -> Items \cup {Theirs, Absent}]
BY DEF DeleteOurs, NoneOf, AvatarOK

LEMMA FoundType ==
  ASSUME AvatarOK, NEW k \in Places, NEW x \in Items \cup {Theirs}, Found(k, x)
  PROVE  found' \in [Places -> Items \cup {Theirs, Absent}]
<1>1. PICK y \in IF found[k] = Absent THEN {x} ELSE {x, found[k]} :
        found' = [found EXCEPT ![k] = y]
  BY DEF Found
<1>2. y \in Items \cup {Theirs, Absent}
  BY <1>1 DEF AvatarOK
<1> QED
  BY <1>1, <1>2 DEF AvatarOK

LEMMA TypeStep == AvatarOK /\ BoundsOK /\ [Next]_vars => (AvatarOK /\ BoundsOK)'
<1> SUFFICES ASSUME AvatarOK, BoundsOK, [Next]_vars PROVE AvatarOK' /\ BoundsOK'
  OBVIOUS
<1>1. CASE WatchdogExchange \/ WatchdogAddTask \/ ApplyExchange \/ ApplyAddTask \/ TakeTask
  BY <1>1 DEF WatchdogExchange, WatchdogAddTask, ApplyExchange, ApplyAddTask, TakeTask,
              AvatarOK, BoundsOK, scene, bounds
<1>2. CASE WatchdogNoTask \/ ApplyNoTask
  <2>1. AvatarOK'
    BY <1>2 DEF WatchdogNoTask, ApplyNoTask, AvatarOK, scene
  <2>2. BoundsOK'
    BY <1>2 DEF WatchdogNoTask, ApplyNoTask, BoundsOK
  <2> QED
    BY <2>1, <2>2
<1>3. CASE WatchdogTick
  <2>1. /\ \A i \in Items : Repaired(Place[i], own[i]) \in Poses \cup {Absent}
        /\ \A k \in Places : Repaired(k, other[k]) \in Poses \cup {Absent}
    BY RepairedType DEF AvatarOK
  <2>2. own' \in [Items -> Poses \cup {Absent}] /\ other' \in [Places -> Poses \cup {Absent}]
    BY <1>3, <2>1 DEF WatchdogTick, AvatarOK
  <2> QED
    BY <1>3, <2>2 DEF WatchdogTick, AvatarOK, BoundsOK, bounds
<1>4. CASE ApplySkip
  <2>1. AvatarOK'
    BY <1>4 DEF ApplySkip, AvatarOK, scene
  <2>2. BoundsOK'
    BY <1>4 DEF ApplySkip, BoundsOK
  <2> QED
    BY <2>1, <2>2
<1>5. CASE ClearProxy \/ \E S \in SUBSET Items : Apply(S)
  <2>1. DeleteOurs /\ tracked' \subseteq Items
    BY <1>5 DEF ClearProxy, Apply
  <2>2. AvatarOK'
    BY <2>1, DeleteType DEF AvatarOK
  <2>3. BoundsOK'
    BY <1>5 DEF ClearProxy, Apply, BoundsOK
  <2> QED
    BY <2>2, <2>3
<1>6. ASSUME NEW i \in Items, Attach(i) PROVE AvatarOK' /\ BoundsOK'
  <2>1. found' \in [Places -> Items \cup {Theirs, Absent}]
    BY <1>6, FoundType DEF Attach
  <2>2. own' \in [Items -> Poses \cup {Absent}]
    BY <1>6 DEF Attach, AvatarOK
  <2> QED
    BY <1>6, <2>1, <2>2 DEF Attach, AvatarOK, BoundsOK, bounds
<1>7. ASSUME NEW k \in Places, AttachOther(k) PROVE AvatarOK' /\ BoundsOK'
  <2>1. found' \in [Places -> Items \cup {Theirs, Absent}]
    BY <1>7, FoundType DEF AttachOther
  <2>2. other' \in [Places -> Poses \cup {Absent}]
    BY <1>7 DEF AttachOther, AvatarOK
  <2> QED
    BY <1>7, <2>1, <2>2 DEF AttachOther, AvatarOK, BoundsOK, bounds
<1>8. ASSUME NEW i \in Items, Overwrite(i) PROVE AvatarOK' /\ BoundsOK'
  <2>1. own' \in [Items -> Poses \cup {Absent}]
    BY <1>8 DEF Overwrite, AvatarOK
  <2>2. BoundsOK'
    BY <1>8 DEF Overwrite, BoundsOK
  <2> QED
    BY <1>8, <2>1, <2>2 DEF Overwrite, AvatarOK
<1>9. CASE Unload3D
  <2>1. AvatarOK'
    BY <1>9 DEF Unload3D, NoneOf, AvatarOK
  <2>2. BoundsOK'
    BY <1>9 DEF Unload3D, BoundsOK
  <2> QED
    BY <2>1, <2>2
<1>10. CASE Load3D
  BY <1>10 DEF Load3D, AvatarOK, BoundsOK, bounds
<1>11. CASE UNCHANGED vars
  BY <1>11 DEF vars, scene, bounds, AvatarOK, BoundsOK
<1> QED
  BY <1>1, <1>2, <1>3, <1>4, <1>5, <1>6, <1>7, <1>8, <1>9, <1>10, <1>11 DEF Next, GameStep

\* The watchdog is well typed for any items, places and poses: there is never
\* a second task, and what a tick leaves on an object is a transform.
THEOREM WatchdogTypeCorrect == Spec => []TypeOK
BY FlagInit, FlagStep, TypeInit, TypeStep, TypeInvOK, PTL DEF Spec, TypeInv
=============================================================================
