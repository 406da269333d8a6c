------------------------ MODULE LocalPipelineProofs ------------------------
(* The capture never blocks itself, alone and with the sender behind it, and *)
(* capture and sender agree on what was published: for any number of slots,  *)
(* forms, overlapping requests, peers, loads, refused calls and changes of   *)
(* the session.                                                              *)
EXTENDS LocalPipeline, FiniteSetTheorems, WellFoundedInduction, TLAPS

USE CaptureAssumption

\* The part of TypeOK that the bookkeeping of the requests needs.
RequestsOK ==
  /\ inFlight \in BOOLEAN
  /\ completed \in [Reqs -> SUBSET Slots]
  /\ calls \subseteq Reqs \X Slots
  /\ done \in Seq(Completion)

FlagInv == RequestsOK /\ FlagHasRequest

LEMMA FlagInit == Init => FlagInv
<1> SUFFICES ASSUME Init PROVE FlagInv
  OBVIOUS
<1>1. inFlight \in BOOLEAN /\ ~inFlight
  BY Zenon DEF Init
<1>2. completed \in [Reqs -> SUBSET Slots] /\ calls \subseteq Reqs \X Slots /\ done \in Seq(Completion)
  BY DEF Init
<1> QED
  BY <1>1, <1>2, Zenon DEF FlagInv, RequestsOK, FlagHasRequest

\* Requests that will finish still do when the bookkeeping is left alone.
LEMMA FlagFrame ==
  ASSUME FlagInv, UNCHANGED <<inFlight, completed, calls, done>>
  PROVE  FlagInv'
<1>1. inFlight' = inFlight /\ completed' = completed /\ calls' = calls /\ done' = done
  OBVIOUS
<1>2. RequestsOK'
  BY <1>1, Zenon DEF FlagInv, RequestsOK
<1>3. ASSUME NEW q \in Reqs, WillFinish(q) PROVE WillFinish(q)'
  BY <1>1, <1>3 DEF WillFinish, Queued
<1>4. inFlight' => inFlight
  BY <1>1
<1>5. FlagHasRequest'
  BY <1>3, <1>4, Zenon DEF FlagInv, FlagHasRequest
<1> QED
  BY <1>2, <1>5 DEF FlagInv

LEMMA FlagTick ==
  ASSUME FlagInv, NEW r \in Reqs, NEW R \in SUBSET Slots, Tick(r, R)
  PROVE  FlagInv'
<1> USE DEF FlagInv, RequestsOK
<1>1. completed' = [completed EXCEPT ![r] = R] /\ calls' = calls \cup ({r} \X (Slots \ R))
      /\ done' = done
  BY DEF Tick
<1>2. completed' \in [Reqs -> SUBSET Slots] /\ completed'[r] = R
  BY <1>1
<1>3. calls' \subseteq Reqs \X Slots /\ \A s \in Slots \ R : <<r, s>> \in calls'
  BY <1>1
<1>4. inFlight' \in BOOLEAN /\ (R = Slots => ~inFlight')
  BY Zenon DEF Tick, CompleteCapture
<1>5. R # Slots => WillFinish(r)'
  BY <1>2, <1>3 DEF WillFinish
<1> QED
  BY <1>1, <1>2, <1>3, <1>4, <1>5, Zenon DEF FlagHasRequest

LEMMA FlagAnswer ==
  ASSUME FlagInv, NEW r \in Reqs, NEW s \in Slots, Answer(r, s), worn \in SlotForms
  PROVE  FlagInv'
<1> USE DEF FlagInv, RequestsOK
<1> DEFINE e == [req |-> r, slot |-> s, form |-> worn[s]]
<1>1. calls' = calls \ {<<r, s>>} /\ done' = Append(done, e) /\ completed' = completed
      /\ inFlight' = inFlight
  BY DEF Answer
<1>2. e \in Completion
  BY DEF Completion, SlotForms
<1>3. done' \in Seq(Completion) /\ Len(done') = Len(done) + 1
      /\ (\A i \in 1..Len(done) : done'[i] = done[i]) /\ done'[Len(done) + 1] = e
  BY <1>1, <1>2
<1>4. ASSUME NEW q \in Reqs, NEW t \in Slots, Queued(q, t) PROVE Queued(q, t)'
  BY <1>3, <1>4 DEF Queued
<1>5. Queued(r, s)'
  BY <1>3 DEF Queued
<1>6. ASSUME NEW q \in Reqs, WillFinish(q) PROVE WillFinish(q)'
  <2>1. ASSUME NEW t \in Slots \ completed[q] PROVE <<q, t>> \in calls' \/ Queued(q, t)'
    <3>1. CASE Queued(q, t)
      BY <3>1, <1>4
    <3>2. CASE <<q, t>> \in calls /\ <<q, t>> # <<r, s>>
      BY <3>2, <1>1
    <3>3. CASE <<q, t>> = <<r, s>>
      BY <3>3, <1>5
    <3> QED
      BY <3>1, <3>2, <3>3, <1>6 DEF WillFinish
  <2> QED
    BY <2>1, <1>1, <1>6 DEF WillFinish
<1>7. calls' \subseteq Reqs \X Slots
  BY <1>1
<1> QED
  BY <1>1, <1>3, <1>6, <1>7, Zenon DEF FlagHasRequest

LEMMA FlagComplete ==
  ASSUME FlagInv, Complete
  PROVE  FlagInv'
<1> USE DEF FlagInv, RequestsOK
<1> DEFINE r == Head(done).req
           s == Head(done).slot
<1>1. done # <<>> /\ done' = Tail(done) /\ calls' = calls
  BY DEF Complete
<1>2. Head(done) \in Completion /\ Head(done) = done[1] /\ done' \in Seq(Completion)
      /\ \A i \in 1..Len(done) : i = 1 \/ (i - 1 \in 1..Len(done') /\ done'[i - 1] = done[i])
  BY <1>1
<1>3. r \in Reqs /\ s \in Slots
  BY <1>2 DEF Completion
<1>4. ASSUME NEW q \in Reqs, NEW t \in Slots, Queued(q, t), ~(q = r /\ t = s)
      PROVE  Queued(q, t)'
  BY <1>2, <1>4 DEF Queued
<1>5. CASE s \in completed[r]
  <2>1. completed' = completed
    BY <1>5, Zenon DEF Complete
  <2>2. inFlight' = inFlight
    BY <1>5, Zenon DEF Complete
  <2>3. ASSUME NEW q \in Reqs, WillFinish(q) PROVE WillFinish(q)'
    BY <1>1, <1>4, <1>5, <2>1, <2>3 DEF WillFinish
  <2> QED
    BY <1>1, <1>2, <2>1, <2>2, <2>3, Zenon DEF FlagHasRequest
<1>6. CASE s \notin completed[r]
  <2>1. completed' = [completed EXCEPT ![r] = @ \cup {s}]
    BY <1>6, Zenon DEF Complete
  <2>2. completed' \in [Reqs -> SUBSET Slots]
    BY <2>1, <1>3
  <2>3. CASE completed[r] \cup {s} = Slots
    <3>1. inFlight' = FALSE
      BY <1>6, <2>3, Zenon DEF Complete, CompleteCapture
    <3> QED
      BY <3>1, <1>1, <1>2, <2>2, Zenon DEF FlagHasRequest
  <2>4. CASE completed[r] \cup {s} # Slots
    <3>1. inFlight' = inFlight
      BY <1>6, <2>4, Zenon DEF Complete
    <3>2. ASSUME NEW q \in Reqs, WillFinish(q) PROVE WillFinish(q)'
      <4>1. CASE q = r
        BY <1>1, <1>3, <1>4, <2>1, <2>4, <3>2, <4>1 DEF WillFinish
      <4>2. CASE q # r
        BY <1>1, <1>3, <1>4, <2>1, <3>2, <4>2 DEF WillFinish
      <4> QED
        BY <4>1, <4>2
    <3> QED
      BY <1>1, <1>2, <2>2, <3>1, <3>2, Zenon DEF FlagHasRequest
  <2> QED
    BY <2>3, <2>4
<1> QED
  BY <1>5, <1>6

\* A capture is started with some request that is free.
LEMMA StartTicks ==
  ASSUME StartCapture
  PROVE  \E r \in Reqs, R \in SUBSET Slots : Tick(r, R)
<1> DEFINE free == {r \in Reqs : ~Busy(r)}
           new == CHOOSE r \in free : TRUE
<1>1. free # {} /\ \E R \in SUBSET Slots : Tick(new, R)
  BY DEF StartCapture
<1>2. new \in Reqs
  BY <1>1
<1> HIDE DEF new
<1> QED
  BY <1>1, <1>2

\* The slots of the player are typed at all times.
WornOK == worn \in SlotForms

LEMMA WornStep == WornOK /\ [Next]_vars => WornOK'
<1> SUFFICES ASSUME worn \in SlotForms, [Next]_vars PROVE worn' \in SlotForms
  BY DEF WornOK
<1>1. CASE Change
  BY <1>1 DEF Change, SlotForms
<1>2. CASE UNCHANGED worn
  BY <1>2
<1>3. CASE StartCapture
  BY <1>2, <1>3, StartTicks DEF Tick, player
<1> QED
  BY <1>1, <1>2, <1>3 DEF Next, Make3D, Answer, Complete, PreLoadGame, Start, vars, player

LEMMA FlagStep ==
  ASSUME worn \in SlotForms, FlagInv, [Next]_vars
  PROVE  FlagInv'
<1>1. CASE StartCapture
  BY <1>1, FlagTick, StartTicks
<1>2. ASSUME NEW r \in Reqs, NEW s \in Slots, Answer(r, s) PROVE FlagInv'
  BY <1>2, FlagAnswer
<1>3. CASE Complete
  BY <1>3, FlagComplete
<1>4. CASE PreLoadGame
  <2>1. inFlight' = FALSE /\ completed' = completed /\ done' = done
    BY <1>4 DEF PreLoadGame
  <2>2. calls' \subseteq Reqs \X Slots
    BY <1>4 DEF PreLoadGame, FlagInv, RequestsOK
  <2> QED
    BY <2>1, <2>2, Zenon DEF FlagInv, RequestsOK, FlagHasRequest
<1>5. CASE Start \/ Change \/ Make3D
  BY <1>5, FlagFrame DEF Start, Change, Make3D, requests
<1>6. CASE UNCHANGED vars
  BY <1>6, FlagFrame DEF vars, requests
<1> QED
  BY <1>1, <1>2, <1>3, <1>4, <1>5, <1>6 DEF Next

\* Whenever the capture flag is up some request is bound to finish and take it
\* down: no order of ticks, answers, refusals and loads stops the capture.
THEOREM CaptureNeverBlocked == Spec => []FlagHasRequest
<1>1. Init => WornOK
  BY DEF WornOK, Init, NoSlots, SlotForms, Found
<1>2. FlagInv => FlagHasRequest
  BY DEF FlagInv
<1>3. WornOK /\ FlagInv /\ [Next]_vars => FlagInv'
  BY FlagStep DEF WornOK
<1> QED
  BY <1>1, <1>2, <1>3, FlagInit, WornStep, PTL DEF Spec
-----------------------------------------------------------------------------
(* Type correctness.                                                       *)

\* FindSlot's choice exists: among the slots that hold a form one is first.
LEMMA SmallestSlot ==
  ASSUME NEW S \in SUBSET Slots, S # {}
  PROVE  \E s \in S : \A t \in S : s <= t
<1>0. S \subseteq Nat
  BY DEF Slots
<1>1. PICK s \in S : \A t \in S : <<t, s>> \notin OpToRel(<, Nat)
  BY <1>0, NatLessThanWellFounded, WFMin, Zenon
<1>2. \A t \in S : t < s => <<t, s>> \in OpToRel(<, Nat)
  BY <1>0 DEF OpToRel
<1>3. \A t \in S : ~(t < s)
  BY <1>1, <1>2, Zenon
<1>4. \A t \in S : s <= t
  BY <1>0, <1>3
<1> QED
  BY <1>4

LEMMA FindSlotType ==
  ASSUME NEW f, NEW slots \in SlotForms
  PROVE  FindSlot(f, slots) \in Slots \cup {None}
<1> DEFINE S == {s \in Slots : slots[s] = f}
<1>1. CASE S = {}
  BY <1>1 DEF FindSlot
<1>2. CASE S # {}
  <2>1. S \in SUBSET Slots
    OBVIOUS
  <2>2. \E s \in S : \A t \in S : s <= t
    BY <1>2, <2>1, SmallestSlot
  <2>3. \E s \in Slots : slots[s] = f /\ \A t \in Slots : slots[t] = f => s <= t
    BY <2>2
  <2> QED
    BY <2>3 DEF FindSlot
<1> QED
  BY <1>1, <1>2

LEMMA StateOfType ==
  ASSUME NEW slots \in SlotForms, worn \in SlotForms, extra \subseteq Forms
  PROVE  StateOf(slots) \in States
<1>1. Displayed \ (Dynamic \cup {None}) \subseteq Forms
  BY DEF Displayed, SlotForms, Found
<1>2. \A f \in Forms : [form |-> f, slot |-> FindSlot(f, slots)] \in [form : Forms, slot : Slots \cup {None}]
  BY FindSlotType
<1> QED
  BY <1>1, <1>2 DEF StateOf, States

\* A finished capture keeps the last state and the flag typed.
LEMMA CaptureType ==
  ASSUME NEW slots \in SlotForms, worn \in SlotForms, extra \subseteq Forms,
         CompleteCapture(slots)
  PROVE  lastState' \in States /\ inFlight' = FALSE
BY StateOfType, Zenon DEF CompleteCapture

\* TypeOK by the part of the state it is about.
PlayerOK == worn \in SlotForms /\ extra \subseteq Forms /\ has3D \in BOOLEAN
RecordsOK ==
  /\ seen \in [Reqs -> SlotForms]
  /\ completed \in [Reqs -> SUBSET Slots]
  /\ calls \subseteq Reqs \X Slots
  /\ done \in Seq(Completion)
FlagsOK == running \in BOOLEAN /\ inFlight \in BOOLEAN
LastOK == lastState \in States \cup {None}
BoundsOK == changes \in 0..MaxChange /\ loads \in 0..MaxLoads /\ refused \in 0..MaxRefused
TypeInv == PlayerOK /\ RecordsOK /\ FlagsOK /\ LastOK /\ BoundsOK

LEMMA TypeInvOK == TypeInv <=> TypeOK
BY DEF TypeInv, TypeOK, PlayerOK, RecordsOK, FlagsOK, LastOK, BoundsOK

LEMMA NoSlotsType == NoSlots \in SlotForms
BY DEF NoSlots, SlotForms, Found

LEMMA TypeInit == Init => TypeInv
<1> SUFFICES ASSUME Init PROVE TypeInv
  OBVIOUS
<1>1. PlayerOK
  BY NoSlotsType, Zenon DEF Init, PlayerOK
<1>4. RecordsOK
  <2>1. calls = {} /\ done = <<>>
    BY Zenon DEF Init
  <2>2. calls \subseteq Reqs \X Slots /\ done \in Seq(Completion)
    BY <2>1
  <2>3. completed \in [Reqs -> SUBSET Slots] /\ seen \in [Reqs -> SlotForms]
    BY NoSlotsType DEF Init
  <2> QED
    BY <2>2, <2>3 DEF RecordsOK
<1>2. FlagsOK
  BY Zenon DEF Init, FlagsOK
<1>3. LastOK /\ BoundsOK
  BY DEF Init, LastOK, BoundsOK
<1> QED
  BY <1>1, <1>2, <1>3, <1>4 DEF TypeInv

LEMMA TypeTick ==
  ASSUME TypeInv, NEW r \in Reqs, NEW R \in SUBSET Slots, Tick(r, R)
  PROVE  TypeInv'
<1>1. PlayerOK'
  BY DEF TypeInv, PlayerOK, Tick, player
<1>2. RecordsOK'
  BY NoSlotsType DEF TypeInv, RecordsOK, Tick
<1>3. FlagsOK' /\ LastOK'
  <2>1. running' = running
    BY DEF Tick
  <2>2. CASE R = Slots
    <3>1. CompleteCapture(NoSlots)
      BY <2>2, Zenon DEF Tick
    <3>2. lastState' \in States /\ inFlight' = FALSE
      BY <3>1, CaptureType, NoSlotsType, Zenon DEF TypeInv, PlayerOK
    <3> QED
      BY <2>1, <3>2, Zenon DEF TypeInv, FlagsOK, LastOK
  <2>3. CASE R # Slots
    <3>1. inFlight' = TRUE /\ lastState' = lastState
      BY <2>3, Zenon DEF Tick
    <3> QED
      BY <2>1, <3>1, Zenon DEF TypeInv, FlagsOK, LastOK
  <2> QED
    BY <2>2, <2>3
<1>4. BoundsOK'
  <2>1. IsFiniteSet(Slots)
    BY FS_Interval DEF Slots
  <2>2. Cardinality(R) \in Nat
    BY <2>1, FS_Subset, FS_CardinalityType
  <2> QED
    BY <2>2 DEF TypeInv, BoundsOK, Tick
<1> QED
  BY <1>1, <1>2, <1>3, <1>4 DEF TypeInv

LEMMA TypeComplete ==
  ASSUME TypeInv, Complete
  PROVE  TypeInv'
<1> DEFINE r == Head(done).req
           s == Head(done).slot
           slots == [seen[r] EXCEPT ![s] = Identity(Head(done).form)]
<1>1. done # <<>> /\ done' = Tail(done)
  BY DEF Complete
<1>2. Head(done) \in Completion /\ done' \in Seq(Completion)
  BY <1>1 DEF TypeInv, RecordsOK
<1>3. r \in Reqs /\ s \in Slots /\ Identity(Head(done).form) \in Found
  BY <1>2 DEF Completion, Identity, Found
<1>4. slots \in SlotForms
  BY <1>3 DEF TypeInv, RecordsOK, SlotForms
<1>5. PlayerOK' /\ BoundsOK' /\ running' = running /\ calls' = calls
  BY DEF TypeInv, PlayerOK, BoundsOK, Complete, player, bounds
<1>6. CASE s \in completed[r]
  <2>1. UNCHANGED <<seen, completed, lastState, inFlight>>
    BY <1>6, Zenon DEF Complete
  <2> QED
    BY <1>2, <1>5, <2>1, Zenon DEF TypeInv, RecordsOK, FlagsOK, LastOK
<1>7. CASE s \notin completed[r]
  <2> DEFINE kept == IF completed[r] \cup {s} = Slots THEN NoSlots ELSE slots
  <2>1. seen' = [seen EXCEPT ![r] = kept] /\ completed' = [completed EXCEPT ![r] = @ \cup {s}]
    BY <1>7, Zenon DEF Complete
  <2>6. kept \in SlotForms
    BY <1>4, NoSlotsType
  <2> HIDE DEF slots, kept
  <2>2. RecordsOK'
    BY <1>2, <1>3, <1>5, <2>1, <2>6 DEF TypeInv, RecordsOK
  <2>3. CompleteCapture(slots) \/ UNCHANGED <<lastState, inFlight>>
    BY <1>7, Zenon DEF Complete, slots
  <2>4. CASE CompleteCapture(slots)
    <3>1. lastState' \in States /\ inFlight' = FALSE
      BY <1>4, <2>4, CaptureType DEF TypeInv, PlayerOK
    <3> QED
      BY <1>5, <2>2, <3>1, Zenon DEF TypeInv, FlagsOK, LastOK
  <2>5. CASE UNCHANGED <<lastState, inFlight>>
    BY <1>5, <2>2, <2>5, Zenon DEF TypeInv, FlagsOK, LastOK
  <2> QED
    BY <2>3, <2>4, <2>5
<1> QED
  BY <1>6, <1>7

LEMMA TypeStep == TypeInv /\ [Next]_vars => TypeInv'
<1> SUFFICES ASSUME TypeInv, [Next]_vars PROVE TypeInv'
  OBVIOUS
<1>1. CASE StartCapture
  BY <1>1, TypeTick, StartTicks
<1>2. ASSUME NEW r \in Reqs, NEW s \in Slots, Answer(r, s) PROVE TypeInv'
  <2>1. [req |-> r, slot |-> s, form |-> worn[s]] \in Completion
    BY DEF TypeInv, PlayerOK, SlotForms, Completion
  <2>2. RecordsOK'
    BY <1>2, <2>1 DEF TypeInv, RecordsOK, Answer
  <2>3. PlayerOK' /\ BoundsOK' /\ LastOK'
    BY <1>2 DEF TypeInv, PlayerOK, BoundsOK, LastOK, Answer, player, bounds
  <2>4. FlagsOK'
    BY <1>2, Zenon DEF TypeInv, FlagsOK, Answer
  <2> QED
    BY <2>2, <2>3, <2>4 DEF TypeInv
<1>3. CASE Complete
  BY <1>3, TypeComplete
<1>4. CASE PreLoadGame
  <2>1. RecordsOK' /\ PlayerOK' /\ LastOK'
    BY <1>4 DEF TypeInv, RecordsOK, PlayerOK, LastOK, PreLoadGame
  <2>2. BoundsOK'
    BY <1>4 DEF TypeInv, BoundsOK, PreLoadGame
  <2>3. FlagsOK'
    BY <1>4, Zenon DEF TypeInv, FlagsOK, PreLoadGame
  <2> QED
    BY <2>1, <2>2, <2>3 DEF TypeInv
<1>5. CASE Start
  <2>1. RecordsOK' /\ PlayerOK' /\ LastOK' /\ BoundsOK'
    BY <1>5 DEF TypeInv, RecordsOK, PlayerOK, LastOK, BoundsOK, Start, player, requests, bounds
  <2>2. FlagsOK'
    BY <1>5, Zenon DEF TypeInv, FlagsOK, Start
  <2> QED
    BY <2>1, <2>2 DEF TypeInv
<1>6. CASE Change
  <2>1. PlayerOK'
    BY <1>6 DEF TypeInv, PlayerOK, Change, SlotForms
  <2>2. RecordsOK' /\ LastOK' /\ BoundsOK'
    BY <1>6 DEF TypeInv, RecordsOK, LastOK, BoundsOK, Change, requests
  <2>3. FlagsOK'
    BY <1>6, Zenon DEF TypeInv, FlagsOK, Change
  <2> QED
    BY <2>1, <2>2, <2>3 DEF TypeInv
<1>8. CASE Make3D
  <2>1. RecordsOK' /\ LastOK' /\ BoundsOK' /\ PlayerOK'
    BY <1>8 DEF TypeInv, RecordsOK, LastOK, BoundsOK, PlayerOK, Make3D, requests, bounds
  <2>2. FlagsOK'
    BY <1>8, Zenon DEF TypeInv, FlagsOK, Make3D
  <2> QED
    BY <2>1, <2>2 DEF TypeInv
<1>7. CASE UNCHANGED vars
  <2>1. RecordsOK' /\ PlayerOK' /\ LastOK' /\ BoundsOK'
    BY <1>7 DEF TypeInv, RecordsOK, PlayerOK, LastOK, BoundsOK, vars, player, requests, bounds
  <2>2. FlagsOK'
    BY <1>7, Zenon DEF TypeInv, FlagsOK, vars
  <2> QED
    BY <2>1, <2>2 DEF TypeInv
<1> QED
  BY <1>1, <1>2, <1>3, <1>4, <1>5, <1>6, <1>7, <1>8 DEF Next

\* The capture is well typed for any number of slots, forms and requests; in
\* particular what it publishes classifies every object by a slot it read.
THEOREM CaptureTypeCorrect == Spec => []TypeOK
<1> QED
  BY TypeInit, TypeStep, TypeInvOK, PTL DEF Spec
-----------------------------------------------------------------------------
(* How many captures overlap.                                              *)

Pending == {r \in Reqs : WillFinish(r)}

\* The flag stands for one of the pending requests; every other one is there
\* because a load took the flag down.
CountInv ==
  /\ IsFiniteSet(Pending)
  /\ Cardinality(Pending) <= loads + (IF inFlight THEN 1 ELSE 0)

\* The arithmetic of a step that keeps the flag and the count of loads.
LEMMA CountFrame ==
  ASSUME TypeInv, CountInv, Pending' \subseteq Pending, loads' = loads, inFlight' = inFlight
  PROVE  CountInv'
<1>1. loads \in Nat /\ Cardinality(Pending) \in Nat
  BY FS_CardinalityType DEF TypeInv, BoundsOK, CountInv
<1>2. IsFiniteSet(Pending') /\ Cardinality(Pending') \in Nat
      /\ Cardinality(Pending') <= Cardinality(Pending)
  BY FS_Subset, FS_CardinalityType DEF CountInv
<1>3. CASE inFlight
  <2>1. inFlight'
    BY <1>3
  <2> QED
    BY <1>1, <1>2, <1>3, <2>1 DEF CountInv
<1>4. CASE ~inFlight
  <2>1. ~inFlight'
    BY <1>4
  <2> QED
    BY <1>1, <1>2, <1>4, <2>1 DEF CountInv
<1> QED
  BY <1>3, <1>4

LEMMA CountInit == Init => CountInv
<1> SUFFICES ASSUME Init PROVE CountInv
  OBVIOUS
<1>1. Pending = {}
  <2>1. \A r \in Reqs : completed[r] = Slots
    BY DEF Init
  <2> QED
    BY <2>1 DEF Pending, WillFinish
<1>2. IsFiniteSet(Pending) /\ Cardinality(Pending) = 0 /\ loads = 0
  BY <1>1, FS_EmptySet DEF Init
<1>3. ~inFlight
  BY Zenon DEF Init
<1> QED
  BY <1>2, <1>3 DEF CountInv

LEMMA CountTick ==
  ASSUME TypeInv, CountInv, NEW r \in Reqs, NEW R \in SUBSET Slots, Tick(r, R)
  PROVE  CountInv'
<1>1. completed' = [completed EXCEPT ![r] = R] /\ calls' = calls \cup ({r} \X (Slots \ R))
      /\ done' = done /\ loads' = loads
  BY DEF Tick
<1>2. ~inFlight
  BY Zenon DEF Tick
<1>3. ASSUME NEW q \in Reqs, q # r, WillFinish(q)' PROVE WillFinish(q)
  BY <1>1, <1>3 DEF WillFinish, Queued, TypeInv, RecordsOK
<1>4. Pending' \subseteq Pending \cup {r}
  BY <1>3 DEF Pending
<1>5. loads \in Nat /\ Cardinality(Pending) \in Nat /\ Cardinality(Pending) <= loads
  BY <1>2, FS_CardinalityType DEF TypeInv, BoundsOK, CountInv
<1>6. CASE R = Slots
  <2>1. inFlight' = FALSE
    BY <1>6, Zenon DEF Tick, CompleteCapture
  <2>2. ~WillFinish(r)'
    BY <1>1, <1>6 DEF WillFinish, TypeInv, RecordsOK
  <2>3. Pending' \subseteq Pending
    BY <1>4, <2>2 DEF Pending
  <2>4. IsFiniteSet(Pending') /\ Cardinality(Pending') \in Nat
        /\ Cardinality(Pending') <= Cardinality(Pending)
    BY <2>3, FS_Subset, FS_CardinalityType DEF CountInv
  <2> QED
    BY <1>1, <1>5, <2>1, <2>4 DEF CountInv
<1>7. CASE R # Slots
  <2>1. inFlight'
    BY <1>7, Zenon DEF Tick
  <2>a. /\ IsFiniteSet(Pending \cup {r})
        /\ Cardinality(Pending \cup {r}) =
             IF r \in Pending THEN Cardinality(Pending) ELSE Cardinality(Pending) + 1
    BY FS_AddElement, Zenon DEF CountInv
  <2>2. IsFiniteSet(Pending \cup {r}) /\ Cardinality(Pending \cup {r}) <= Cardinality(Pending) + 1
    BY <1>5, <2>a
  <2>3. IsFiniteSet(Pending') /\ Cardinality(Pending') \in Nat
        /\ Cardinality(Pending') <= Cardinality(Pending \cup {r})
        /\ Cardinality(Pending \cup {r}) \in Nat
    BY <1>4, <2>2, FS_Subset, FS_CardinalityType
  <2> QED
    BY <1>1, <1>5, <2>1, <2>2, <2>3 DEF CountInv
<1> QED
  BY <1>6, <1>7

LEMMA CountAnswer ==
  ASSUME TypeInv, CountInv, NEW r \in Reqs, NEW s \in Slots, Answer(r, s)
  PROVE  CountInv'
<1> DEFINE e == [req |-> r, slot |-> s, form |-> worn[s]]
<1>1. calls' = calls \ {<<r, s>>} /\ done' = Append(done, e) /\ completed' = completed
      /\ inFlight' = inFlight /\ loads' = loads /\ <<r, s>> \in calls
  BY DEF Answer, bounds
<1>2. Len(done') = Len(done) + 1 /\ Len(done) \in Nat
      /\ (\A i \in 1..Len(done) : done'[i] = done[i]) /\ done'[Len(done) + 1] = e
  BY <1>1 DEF TypeInv, RecordsOK
<1>3. ASSUME NEW q \in Reqs, NEW t \in Slots, Queued(q, t)'
      PROVE  Queued(q, t) \/ (q = r /\ t = s)
  <2>1. PICK i \in 1..Len(done') : done'[i].req = q /\ done'[i].slot = t
    BY <1>3 DEF Queued
  <2>2. i \in 1..Len(done) \/ i = Len(done) + 1
    BY <1>2, <2>1
  <2> QED
    BY <1>2, <2>1, <2>2 DEF Queued
<1>4. ASSUME NEW q \in Reqs, WillFinish(q)' PROVE WillFinish(q)
  BY <1>1, <1>3, <1>4 DEF WillFinish
<1> QED
  BY <1>1, <1>4, CountFrame DEF Pending

LEMMA CountComplete ==
  ASSUME TypeInv, CountInv, Complete
  PROVE  CountInv'
<1>1. done # <<>> /\ done' = Tail(done) /\ calls' = calls /\ loads' = loads
  BY DEF Complete, bounds
<1>2. Head(done) \in Completion /\ Head(done) = done[1] /\ 1 \in 1..Len(done)
      /\ \A i \in 1..Len(done') : i + 1 \in 1..Len(done) /\ done'[i] = done[i + 1]
  BY <1>1 DEF TypeInv, RecordsOK
<1>0. Head(done).req \in Reqs /\ Head(done).slot \in Slots
  BY <1>2 DEF Completion
<1>a. PICK r \in Reqs, s \in Slots : r = Head(done).req /\ s = Head(done).slot
  BY <1>0
<1>3. r \in Reqs /\ s \in Slots /\ Queued(r, s)
  BY <1>2, <1>a DEF Queued
<1>4. ASSUME NEW q \in Reqs, NEW t \in Slots, Queued(q, t)' PROVE Queued(q, t)
  BY <1>2, <1>4 DEF Queued
<1>5. CASE s \in completed[r]
  <2>1. completed' = completed /\ inFlight' = inFlight
    BY <1>5, <1>a, Zenon DEF Complete
  <2>2. ASSUME NEW q \in Reqs, WillFinish(q)' PROVE WillFinish(q)
    BY <1>1, <1>4, <2>1, <2>2 DEF WillFinish
  <2> QED
    BY <1>1, <2>1, <2>2, CountFrame DEF Pending
<1>6. CASE s \notin completed[r]
  <2>1. completed' = [completed EXCEPT ![r] = @ \cup {s}]
    BY <1>6, <1>a, Zenon DEF Complete
  <2>2. /\ completed'[r] = completed[r] \cup {s}
        /\ \A q \in Reqs : q # r => completed'[q] = completed[q]
    BY <1>3, <2>1 DEF TypeInv, RecordsOK
  <2>3. ASSUME NEW q \in Reqs, WillFinish(q)' PROVE WillFinish(q)
    <3>1. CASE q = r
      BY <1>1, <1>3, <1>4, <1>6, <2>2, <2>3, <3>1 DEF WillFinish
    <3>2. CASE q # r
      BY <1>1, <1>4, <2>2, <2>3, <3>2 DEF WillFinish
    <3> QED
      BY <3>1, <3>2
  <2>4. CASE completed[r] \cup {s} = Slots
    <3>1. inFlight' = FALSE
      BY <1>6, <1>a, <2>4, Zenon DEF Complete, CompleteCapture
    <3>2. WillFinish(r) /\ ~WillFinish(r)'
      BY <1>3, <1>6, <2>2, <2>4 DEF WillFinish
    <3>3. Pending' \subseteq Pending \ {r} /\ r \in Pending
      BY <1>3, <2>3, <3>2 DEF Pending
    <3>4. IsFiniteSet(Pending \ {r}) /\ Cardinality(Pending \ {r}) = Cardinality(Pending) - 1
      BY <3>3, FS_RemoveElement DEF CountInv
    <3>5. IsFiniteSet(Pending') /\ Cardinality(Pending') \in Nat
          /\ Cardinality(Pending') <= Cardinality(Pending \ {r})
      BY <3>3, <3>4, FS_Subset, FS_CardinalityType
    <3>6. loads \in Nat /\ Cardinality(Pending) \in Nat /\ Cardinality(Pending) <= loads + 1
      BY FS_CardinalityType DEF TypeInv, BoundsOK, CountInv
    <3> QED
      BY <1>1, <3>1, <3>4, <3>5, <3>6 DEF CountInv
  <2>5. CASE completed[r] \cup {s} # Slots
    <3>1. inFlight' = inFlight
      BY <1>6, <1>a, <2>5, Zenon DEF Complete
    <3> QED
      BY <1>1, <2>3, <3>1, CountFrame DEF Pending
  <2> QED
    BY <2>4, <2>5
<1> QED
  BY <1>5, <1>6

LEMMA CountLoad ==
  ASSUME TypeInv, CountInv, PreLoadGame
  PROVE  CountInv'
<1>1. loads' = loads + 1 /\ inFlight' = FALSE /\ completed' = completed /\ done' = done
  BY DEF PreLoadGame
<1>2. calls' \subseteq calls
  BY DEF PreLoadGame
<1>3. ASSUME NEW q \in Reqs, WillFinish(q)' PROVE WillFinish(q)
  BY <1>1, <1>2, <1>3 DEF WillFinish, Queued
<1>4. Pending' \subseteq Pending
  BY <1>3 DEF Pending
<1>5. IsFiniteSet(Pending') /\ Cardinality(Pending') \in Nat
      /\ Cardinality(Pending') <= Cardinality(Pending)
  BY <1>4, FS_Subset, FS_CardinalityType DEF CountInv
<1>6. loads \in Nat /\ Cardinality(Pending) \in Nat /\ Cardinality(Pending) <= loads + 1
  BY FS_CardinalityType DEF TypeInv, BoundsOK, CountInv
<1> QED
  BY <1>1, <1>5, <1>6 DEF CountInv

LEMMA CountStep == TypeInv /\ CountInv /\ [Next]_vars => CountInv'
<1> SUFFICES ASSUME TypeInv, CountInv, [Next]_vars PROVE CountInv'
  OBVIOUS
<1>1. ASSUME UNCHANGED <<inFlight, requests, loads>> PROVE CountInv'
  <2>1. \A q \in Reqs : WillFinish(q)' <=> WillFinish(q)
    BY <1>1 DEF requests, WillFinish, Queued
  <2> QED
    BY <1>1, <2>1, CountFrame DEF Pending
<1>2. CASE StartCapture
  BY <1>2, CountTick, StartTicks
<1>3. CASE \E r \in Reqs, s \in Slots : Answer(r, s)
  BY <1>3, CountAnswer
<1>4. CASE Complete
  BY <1>4, CountComplete
<1>5. CASE PreLoadGame
  BY <1>5, CountLoad
<1>6. CASE Start \/ Change \/ Make3D \/ UNCHANGED vars
  BY <1>1, <1>6 DEF Start, Change, Make3D, vars, bounds
<1> QED
  BY <1>2, <1>3, <1>4, <1>5, <1>6 DEF Next

LEMMA CountBounds == TypeInv /\ CountInv => CapturesBounded
<1> SUFFICES ASSUME TypeInv, CountInv PROVE CapturesBounded
  OBVIOUS
<1>1. loads \in Nat /\ Cardinality(Pending) \in Nat /\ Cardinality(Pending) <= loads + 1
  BY FS_CardinalityType DEF TypeInv, BoundsOK, CountInv
<1> QED
  BY <1>1 DEF CapturesBounded, Pending

\* Captures overlap by at most one for each game load, however many requests
\* could be alive and whatever the VM refuses or drops.
THEOREM CapturesDoNotPileUp == Spec => []CapturesBounded
BY TypeInit, TypeStep, CountInit, CountStep, CountBounds, PTL DEF Spec

-----------------------------------------------------------------------------
(* The sender behind the capture takes nothing from it: a step of the      *)
(* pipeline is a step of the capture or leaves it alone.                   *)

LEMMA PipelineCapture == [PipelineNext]_pipeline => [Next]_vars
<1> SUFFICES ASSUME [PipelineNext]_pipeline PROVE [Next]_vars
  OBVIOUS
<1>1. CASE PipelineTick \/ PipelineComplete
  BY <1>1, Zenon DEF PipelineTick, PipelineComplete, CaptureStep, Next
<1>2. CASE OnPreLoadGame
  BY <1>2, Zenon DEF OnPreLoadGame, Next
<1>3. ASSUME NEW ok \in BOOLEAN, DataLoaded(ok) PROVE [Next]_vars
  BY <1>3, Zenon DEF DataLoaded, Next
<1>4. CASE (Change \/ Make3D) /\ UNCHANGED sender
  BY <1>4, Zenon DEF Next
<1>5. ASSUME NEW r \in Reqs, NEW s \in Slots, Answer(r, s), UNCHANGED sender PROVE [Next]_vars
  BY <1>5, Zenon DEF Next
<1>6. CASE UNCHANGED capture
  BY <1>6, Zenon DEF capture
<1>7. CASE UNCHANGED pipeline
  BY <1>7 DEF pipeline, capture
<1> QED
  BY <1>1, <1>2, <1>3, <1>4, <1>5, <1>6, <1>7, Zenon DEF PipelineNext

\* With the sender behind it, and whatever the transport and the session do,
\* LocalCaptureProbe goes through behaviours of its own.
THEOREM PipelineIsCapture == PipelineSpec => Init /\ [][Next]_vars
<1>1. PipelineInit => Init
  BY Zenon DEF PipelineInit
<1> QED
  BY <1>1, PipelineCapture, PTL DEF PipelineSpec

\* In the pipeline, too, the capture never blocks itself ...
THEOREM PipelineNeverBlocked == PipelineSpec => []FlagHasRequest
<1>1. Init => WornOK
  BY DEF WornOK, Init, NoSlots, SlotForms, Found
<1>2. FlagInv => FlagHasRequest
  BY DEF FlagInv
<1>3. WornOK /\ FlagInv /\ [Next]_vars => FlagInv'
  BY FlagStep DEF WornOK
<1> QED
  BY <1>1, <1>2, <1>3, FlagInit, WornStep, PipelineIsCapture, PTL

\* ... is well typed ...
THEOREM PipelineTypeCorrect == PipelineSpec => []TypeOK
BY TypeInit, TypeStep, TypeInvOK, PipelineIsCapture, PTL

\* ... and its requests do not pile up.
THEOREM PipelineDoesNotPileUp == PipelineSpec => []CapturesBounded
BY TypeInit, TypeStep, CountInit, CountStep, CountBounds, PipelineIsCapture, PTL

-----------------------------------------------------------------------------
(* What the capture takes for published is what the sender was given.      *)

LEMMA HandedInit == PipelineInit => HandedOver
BY DEF PipelineInit, Init, Sender!Init, HandedOver

\* A step of the capture hands a changed state on within the same step.
LEMMA HandedCapture ==
  ASSUME HandedOver, NEW ACTION step, CaptureStep(step)
  PROVE  HandedOver'
<1>1. CASE lastState' # lastState
  <2>1. Sender!Publish(lastState')
    BY <1>1, Zenon DEF CaptureStep
  <2> QED
    BY <2>1 DEF Sender!Publish, HandedOver
<1>2. CASE lastState' = lastState
  <2>1. UNCHANGED sender
    BY <1>2, Zenon DEF CaptureStep
  <2> QED
    BY <1>2, <2>1 DEF sender, HandedOver
<1> QED
  BY <1>1, <1>2

LEMMA HandedStep == HandedOver /\ [PipelineNext]_pipeline => HandedOver'
<1> SUFFICES ASSUME HandedOver, [PipelineNext]_pipeline PROVE HandedOver'
  OBVIOUS
<1>1. CASE PipelineTick \/ PipelineComplete
  BY <1>1, HandedCapture DEF PipelineTick, PipelineComplete
<1>2. CASE OnPreLoadGame
  BY <1>2 DEF OnPreLoadGame, PreLoadGame, Sender!Reset, Sender!ClearOutbox, HandedOver
<1>3. ASSUME NEW ok \in BOOLEAN, DataLoaded(ok) PROVE HandedOver'
  BY <1>3 DEF DataLoaded, Start, Sender!Start, Sender!outbox, HandedOver
<1>4. CASE (Change \/ Make3D) /\ UNCHANGED sender
  BY <1>4 DEF Change, Make3D, sender, HandedOver
<1>5. ASSUME NEW r \in Reqs, NEW s \in Slots, Answer(r, s), UNCHANGED sender PROVE HandedOver'
  BY <1>5 DEF Answer, sender, HandedOver
<1>6. CASE (Sender!RetryTick \/ Sender!Elapse \/ Sender!Session) /\ UNCHANGED capture
  <2>1. offered' = offered
    BY <1>6 DEF Sender!RetryTick, Sender!Elapse, Sender!Session, Sender!outbox
  <2>2. lastState' = lastState
    BY <1>6 DEF capture, vars
  <2> QED
    BY <2>1, <2>2 DEF HandedOver
<1>7. CASE UNCHANGED pipeline
  BY <1>7 DEF pipeline, capture, vars, sender, HandedOver
<1> QED
  BY <1>1, <1>2, <1>3, <1>4, <1>5, <1>6, <1>7 DEF PipelineNext

\* Across ticks, completions, refused calls, game loads, retries and changes of
\* the session the capture's last state is the one the sender was given last.
THEOREM NothingIsLost == PipelineSpec => []HandedOver
BY HandedInit, HandedStep, PTL DEF PipelineSpec
-----------------------------------------------------------------------------
(* What is sent to the peers: the pipeline implements SharedDisplays.      *)

Wearing == Displayed \ (Dynamic \cup {None})

LEMMA ListedForms == \A slots : Shared!Listed(StateOf(slots)) = Wearing
<1> TAKE slots
<1> DEFINE Shows(f) == [form |-> f, slot |-> FindSlot(f, slots)]
<1>1. StateOf(slots).objects = {Shows(f) : f \in Wearing}
  BY DEF StateOf, Wearing
<1>2. \A f : Shows(f).form = f
  OBVIOUS
<1> HIDE DEF Shows
<1> QED
  BY <1>1, <1>2 DEF Shared!Listed

\* A capture step leaves the last state alone, or makes it the state of some
\* slots together with what is displayed at that moment.
LEMMA CaptureRenews ==
  ASSUME TypeInv, StartCapture \/ Complete
  PROVE  /\ UNCHANGED player
         /\ \/ lastState' = lastState
            \/ lastState' \in States /\ Shared!Listed(lastState') = Wearing
<1>0. PlayerOK
  BY DEF TypeInv
<1>1. ASSUME NEW slots \in SlotForms, CompleteCapture(slots)
      PROVE  lastState' \in States /\ Shared!Listed(lastState') = Wearing
  <2>1. lastState' = StateOf(slots)
    BY <1>1, Zenon DEF CompleteCapture
  <2> QED
    BY <1>0, <2>1, StateOfType, ListedForms, Zenon DEF PlayerOK
<1>2. CASE StartCapture
  <2>1. PICK r \in Reqs, R \in SUBSET Slots : Tick(r, R)
    BY <1>2, StartTicks, Zenon
  <2>2. CompleteCapture(NoSlots) \/ lastState' = lastState
    BY <2>1, Zenon DEF Tick
  <2>3. UNCHANGED player
    BY <2>1, Zenon DEF Tick, player
  <2> QED
    BY <1>1, <2>2, <2>3, NoSlotsType, Zenon
<1>3. CASE Complete
  <2> DEFINE r == Head(done).req
             s == Head(done).slot
             slots == [seen[r] EXCEPT ![s] = Identity(Head(done).form)]
  <2>1. done # <<>>
    BY <1>3 DEF Complete
  <2>2. Head(done) \in Completion
    BY <2>1 DEF TypeInv, RecordsOK
  <2>3. r \in Reqs /\ s \in Slots /\ Identity(Head(done).form) \in Found
    BY <2>2 DEF Completion, Identity, Found
  <2>4. slots \in SlotForms
    BY <2>3 DEF TypeInv, RecordsOK, SlotForms
  <2>5. CompleteCapture(slots) \/ lastState' = lastState
    BY <1>3, Zenon DEF Complete
  <2>6. UNCHANGED player
    BY <1>3, Zenon DEF Complete, player
  <2> HIDE DEF slots
  <2> QED
    BY <1>1, <2>4, <2>5, <2>6, Zenon
<1> QED
  BY <1>2, <1>3

\* Each peer holds something.
GotOK == got = [p \in Peers |-> got[p]]

\* The peers that a TrySend reaches.
LEMMA TrySendReaches ==
  ASSUME GotOK, NEW m, Sender!TrySend(m)
  PROVE  GotOK' /\ \E P \in SUBSET Peers : Shared!Reach(P, m)
<1>1. CASE Sender!Refused
  <2>1. got' = got
    BY <1>1, Zenon DEF Sender!TrySend
  <2>2. Shared!Reach({}, m)
    BY <2>1 DEF GotOK, Shared!Reach
  <2> QED
    BY <2>1, <2>2 DEF GotOK
<1>2. CASE ~Sender!Refused
  <2>1. got' = [p \in Peers |-> IF p \in joined THEN m ELSE got[p]]
    BY <1>2, Zenon DEF Sender!TrySend
  <2>2. Shared!Reach(joined \cap Peers, m)
    BY <2>1 DEF Shared!Reach
  <2>3. GotOK'
    BY <2>1 DEF GotOK
  <2> QED
    BY <2>2, <2>3
<1> QED
  BY <1>1, <1>2

seenByPeers == <<Displayed \ (Dynamic \cup {None}), lastState, latest, got>>

\* A step of the capture publishes a new state, withholds it or changes nothing.
LEMMA CaptureShares ==
  ASSUME TypeInv, GotOK, NEW ACTION step, step => StartCapture \/ Complete, CaptureStep(step)
  PROVE  GotOK' /\ (Shared!Next \/ UNCHANGED seenByPeers)
<1>1. StartCapture \/ Complete
  BY Zenon DEF CaptureStep
<1>2. UNCHANGED Displayed
  BY <1>1, CaptureRenews DEF player, Displayed
<1>3. CASE lastState' = lastState
  <2>1. UNCHANGED sender
    BY <1>3, Zenon DEF CaptureStep
  <2> QED
    BY <1>2, <1>3, <2>1 DEF sender, seenByPeers, GotOK
<1>4. CASE lastState' # lastState
  <2>1. Sender!Publish(lastState')
    BY <1>4, Zenon DEF CaptureStep
  <2>2. Shared!Renew
    BY <1>1, <1>2, <1>4, CaptureRenews, Zenon DEF Shared!Renew, Wearing
  <2>3. CASE lastState' \in Oversize
    <3>1. latest' = latest /\ got' = got
      BY <2>1, <2>3, Zenon DEF Sender!Publish
    <3>2. Shared!Withhold
      BY <2>2, <2>3, <3>1, Zenon DEF Shared!Withhold
    <3> QED
      BY <3>1, <3>2, Zenon DEF Shared!Next, GotOK
  <2>4. CASE lastState' \notin Oversize
    <3>1. latest' = lastState' /\ Sender!TrySend(lastState')
      BY <2>1, <2>4, Zenon DEF Sender!Publish
    <3>2. GotOK' /\ \E P \in SUBSET Peers : Shared!Reach(P, lastState')
      BY <3>1, TrySendReaches
    <3>3. \E P \in SUBSET Peers : Shared!Publish(P)
      BY <2>2, <2>4, <3>1, <3>2, Zenon DEF Shared!Publish
    <3> QED
      BY <3>2, <3>3, Zenon DEF Shared!Next
  <2> QED
    BY <2>3, <2>4
<1> QED
  BY <1>3, <1>4

\* Changes of the session, the clock and retries.
LEMMA SessionShares ==
  ASSUME GotOK, UNCHANGED capture, Sender!RetryTick \/ Sender!Elapse \/ Sender!Session
  PROVE  GotOK' /\ (Shared!Next \/ UNCHANGED seenByPeers)
<1>1. UNCHANGED Displayed /\ lastState' = lastState
  BY Zenon DEF capture, vars, player, Displayed
<1>2. CASE Sender!RetryTick
  <2>1. latest # None /\ latest' = latest /\ Sender!TrySend(latest)
    BY <1>2, Zenon DEF Sender!RetryTick
  <2>2. GotOK' /\ \E P \in SUBSET Peers : Shared!Reach(P, latest)
    BY <2>1, TrySendReaches
  <2>3. \E P \in SUBSET Peers : Shared!Repeat(P)
    BY <1>1, <2>1, <2>2, Zenon DEF Shared!Repeat
  <2> QED
    BY <2>2, <2>3, Zenon DEF Shared!Next
<1>3. CASE Sender!Elapse
  BY <1>1, <1>3 DEF Sender!Elapse, seenByPeers, GotOK
<1>4. CASE Sender!Session
  <2>1. latest' = latest
    BY <1>4 DEF Sender!Session, Sender!outbox
  <2>2. got' = got \/ \E p \in joined : got' = [got EXCEPT ![p] = None]
    BY <1>4, Zenon DEF Sender!Session
  <2>3. CASE got' = got
    BY <1>1, <2>1, <2>3 DEF seenByPeers, GotOK
  <2>4. ASSUME NEW p \in joined, got' = [got EXCEPT ![p] = None]
        PROVE  GotOK' /\ (Shared!Next \/ UNCHANGED seenByPeers)
    <3>1. CASE p \in Peers
      <4>1. Shared!Leave(p)
        BY <1>1, <2>1, <2>4, Zenon DEF Shared!Leave
      <4> QED
        BY <2>4, <3>1, <4>1 DEF Shared!Next, GotOK
    <3>2. CASE p \notin Peers
      <4>1. got' = got
        BY <2>4, <3>2 DEF GotOK
      <4> QED
        BY <1>1, <2>1, <4>1 DEF seenByPeers, GotOK
    <3> QED
      BY <3>1, <3>2
  <2> QED
    BY <2>2, <2>3, <2>4
<1> QED
  BY <1>2, <1>3, <1>4

LEMMA SharesStep ==
  ASSUME TypeInv, GotOK, [PipelineNext]_pipeline
  PROVE  GotOK' /\ (Shared!Next \/ UNCHANGED seenByPeers)
<1> DEFINE Goal == GotOK' /\ (Shared!Next \/ UNCHANGED seenByPeers)
<1>1. CASE PipelineTick \/ PipelineComplete
  BY <1>1, CaptureShares DEF PipelineTick, PipelineComplete
<1>2. CASE OnPreLoadGame
  <2>1. lastState' = None /\ Wearing' = {}
    BY <1>2 DEF OnPreLoadGame, PreLoadGame, Displayed, Wearing
  <2>2. latest' = None /\ got' = got
    BY <1>2, Zenon DEF OnPreLoadGame, Sender!Reset, Sender!ClearOutbox
  <2>3. Shared!Load
    BY <2>1, <2>2 DEF Shared!Load, Wearing
  <2> QED
    BY <2>2, <2>3, Zenon DEF Shared!Next, GotOK
<1>3. ASSUME NEW ok \in BOOLEAN, DataLoaded(ok) PROVE Goal
  BY <1>3 DEF DataLoaded, Start, Sender!Start, Sender!outbox, player, Displayed, seenByPeers, GotOK
<1>4. CASE (Change \/ Make3D) /\ UNCHANGED sender
  <2>1. lastState' = lastState /\ latest' = latest /\ got' = got
    BY <1>4, Zenon DEF Change, Make3D, sender
  <2>2. Wearing' \subseteq Forms \ Dynamic
    <3>1. TypeInv'
      BY <1>4, TypeStep, Zenon DEF Next
    <3> QED
      BY <3>1 DEF TypeInv, PlayerOK, SlotForms, Found, Wearing, Displayed
  <2>3. Shared!Change
    BY <2>1, <2>2, Zenon DEF Shared!Change, Wearing
  <2> QED
    BY <2>1, <2>3, Zenon DEF Shared!Next, GotOK
<1>5. ASSUME NEW r \in Reqs, NEW s \in Slots, Answer(r, s), UNCHANGED sender PROVE Goal
  BY <1>5 DEF Answer, player, sender, Displayed, seenByPeers, GotOK
<1>6. CASE (Sender!RetryTick \/ Sender!Elapse \/ Sender!Session) /\ UNCHANGED capture
  BY <1>6, SessionShares
<1>7. CASE UNCHANGED pipeline
  BY <1>7 DEF pipeline, capture, vars, player, sender, Displayed, seenByPeers, GotOK
<1> QED
  BY <1>1, <1>2, <1>3, <1>4, <1>5, <1>6, <1>7, Zenon DEF PipelineNext

LEMMA SharesInit == PipelineInit => GotOK /\ Shared!Init
<1> SUFFICES ASSUME PipelineInit PROVE GotOK /\ Shared!Init
  OBVIOUS
<1>1. GotOK
  BY DEF PipelineInit, Sender!Init, GotOK
<1>2. Displayed \ (Dynamic \cup {None}) = {}
  BY DEF PipelineInit, Init, NoSlots, Displayed
<1>3. lastState = None /\ latest = None /\ got = [p \in Peers |-> None]
  BY Zenon DEF PipelineInit, Init, Sender!Init
<1> QED
  BY <1>1, <1>2, <1>3, Zenon DEF Shared!Init

\* However captures, refused calls, retries, transport failures and game loads
\* interleave, what the peers are given is what SharedDisplays allows: states
\* that list what was displayed when they were published, the last one that
\* fits when repeated, and none published before a game load sent after it.
THEOREM PipelineSharesDisplays == PipelineSpec => SharesDisplays
<1>1. PipelineInit => TypeInv
  BY TypeInit, Zenon DEF PipelineInit
<1>2. TypeInv /\ [PipelineNext]_pipeline => TypeInv'
  BY TypeStep, PipelineCapture
<1>3. TypeInv /\ GotOK /\ [PipelineNext]_pipeline
        => GotOK' /\ [Shared!Next]_<<Displayed \ (Dynamic \cup {None}), lastState, latest, got>>
  BY SharesStep, Zenon DEF seenByPeers
<1> QED
  BY <1>1, <1>2, <1>3, SharesInit, PTL DEF PipelineSpec, SharesDisplays, Shared!Spec
-----------------------------------------------------------------------------
(* What counts as delivered, with the capture as the one who publishes.    *)

LEMMA PublishDelivers ==
  ASSUME Sender!DeliveredIsTaken, NEW ACTION step, CaptureStep(step)
  PROVE  Sender!DeliveredIsTaken'
<1>1. CASE UNCHANGED sender
  BY <1>1 DEF sender, Sender!DeliveredIsTaken
<1>2. CASE Sender!Publish(lastState')
  BY <1>2 DEF Sender!Publish, Sender!TrySend, Sender!DeliveredIsTaken
<1> QED
  BY <1>1, <1>2, Zenon DEF CaptureStep

LEMMA DeliveredStep ==
  ASSUME Sender!DeliveredIsTaken, [PipelineNext]_pipeline
  PROVE  Sender!DeliveredIsTaken'
<1>1. CASE PipelineTick \/ PipelineComplete
  BY <1>1, PublishDelivers DEF PipelineTick, PipelineComplete
<1>2. CASE OnPreLoadGame
  BY <1>2 DEF OnPreLoadGame, Sender!Reset, Sender!ClearOutbox, Sender!DeliveredIsTaken
<1>3. ASSUME NEW ok \in BOOLEAN, DataLoaded(ok) PROVE Sender!DeliveredIsTaken'
  BY <1>3 DEF DataLoaded, Sender!Start, Sender!outbox, Sender!DeliveredIsTaken
<1>4. CASE UNCHANGED sender
  BY <1>4 DEF sender, Sender!DeliveredIsTaken
<1>5. CASE Sender!RetryTick
  BY <1>5 DEF Sender!RetryTick, Sender!TrySend, Sender!DeliveredIsTaken
<1>6. CASE Sender!Elapse \/ Sender!Session
  BY <1>6 DEF Sender!Elapse, Sender!Session, Sender!outbox, Sender!DeliveredIsTaken
<1>7. CASE UNCHANGED pipeline
  BY <1>4, <1>7, Zenon DEF pipeline
<1> QED
  BY <1>1, <1>2, <1>3, <1>4, <1>5, <1>6, <1>7, Zenon DEF PipelineNext

\* Behind the capture, too, a state that no longer waits was taken by the
\* transport itself, and the heartbeat will repeat it.
THEOREM PipelineDelivers == PipelineSpec => []Sender!DeliveredIsTaken
<1>1. PipelineInit => Sender!DeliveredIsTaken
  BY DEF PipelineInit, Sender!Init, Sender!DeliveredIsTaken
<1> QED
  BY <1>1, DeliveredStep, PTL DEF PipelineSpec
=============================================================================
