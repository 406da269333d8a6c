------------------------------ MODULE Watchdog ------------------------------
(***************************************************************************)
(* RemoteIEDRenderer's transform watchdog, for one remote avatar.  IED     *)
(* attaches the objects we asked for and may give one its own transform at *)
(* any time, or lose them all with the avatar's 3D; every 100 ms, and      *)
(* after every Apply, a task looks each tracked object up by form and      *)
(* parent, compares what it finds with the captured pose and writes the    *)
(* pose back.                                                              *)
(*                                                                         *)
(* Tasks run on the game thread.  ScheduleWatchdogTick runs both there (in *)
(* Apply) and on the watchdog's own thread; _watchdogTaskQueued keeps the  *)
(* two from queueing a task each.                                          *)
(***************************************************************************)
EXTENDS Naturals, FiniteSets

CONSTANTS
  Items,        \* what may be rendered, a set of numbers in rendering order
  Places,       \* <<form, attachment>> pairs an object is looked up by
  Theirs,       \* the object found at a place, when it is one of IED's own
  Place,        \* Place[i]: where item i is looked up
  Poses,        \* transforms
  Pose,         \* Pose[i]: the captured transform of item i
  Clamped,      \* Clamped[t]: t with its scale brought into [0.01, 100]
  Default,      \* the transform IED gives an object it evaluates
  Absent,       \* no such object
  NPCDisplays,  \* whether IED shows its own displays on the avatar too
  MaxApply,     \* bound: renderings and clearings
  MaxReset      \* bound: transforms IED overwrites, 3D lost, tasks refused

ASSUME WatchdogAssumption ==
  /\ Items \subseteq Nat /\ IsFiniteSet(Items)
  /\ Place \in [Items -> Places]
  /\ Pose \in [Items -> Poses] /\ Clamped \in [Poses -> Poses]
  /\ \A t \in Poses : Clamped[Clamped[t]] = Clamped[t]
  /\ Default \in Poses /\ Absent \notin Poses \cup Items /\ Theirs \notin Items \cup {Absent}
  /\ NPCDisplays \in BOOLEAN
  /\ MaxApply \in Nat /\ MaxReset \in Nat

VARIABLES
  queued,   \* _watchdogTaskQueued
  tasks,    \* watchdog tasks in the SKSE queue
  wpc,      \* the watchdog thread: "sleep", or "add" past the exchange
  gpc,      \* the game thread: "idle", "schedule" and "add" at the end of an
            \* Apply, "tick" in a watchdog task past its first store
  tracked,  \* the avatar's entry of _trackedProxies
  loaded,   \* the avatar has 3D
  own,      \* transform of the object IED attached for each item
  other,    \* transform of an object of IED's own at each place
  found,    \* the first object below the avatar that a lookup of each place
            \* comes to
  applies, resets

schedule == <<queued, tasks, wpc>>
scene == <<loaded, own, other, found>>
bounds == <<applies, resets>>
vars == <<schedule, gpc, tracked, scene, bounds>>

TypeOK ==
  /\ queued \in BOOLEAN /\ tasks \in 0..1
  /\ wpc \in {"sleep", "add"}
  /\ gpc \in {"idle", "schedule", "add", "tick"}
  /\ tracked \subseteq Items
  /\ loaded \in BOOLEAN
  /\ own \in [Items -> Poses \cup {Absent}]
  /\ other \in [Places -> Poses \cup {Absent}]
  /\ found \in [Places -> Items \cup {Theirs, Absent}]
  /\ applies \in 0..MaxApply /\ resets \in 0..MaxReset

NoneOf(S) == [x \in S |-> Absent]

Init ==
  /\ queued = FALSE /\ tasks = 0 /\ wpc = "sleep" /\ gpc = "idle"
  /\ tracked = {} /\ loaded = TRUE
  /\ own = NoneOf(Items) /\ other = NoneOf(Places) /\ found = NoneOf(Places)
  /\ applies = 0 /\ resets = 0

-----------------------------------------------------------------------------
(* ScheduleWatchdogTick on the watchdog's thread and at the end of Apply.  *)

\* Mutant: the watchdog thread does not test the flag.
WatchdogAlways ==
  /\ wpc = "sleep"
  /\ queued' = TRUE /\ wpc' = "add"
  /\ UNCHANGED <<tasks, gpc, tracked, scene, bounds>>

WatchdogExchange ==
  /\ wpc = "sleep" /\ ~queued
  /\ queued' = TRUE /\ wpc' = "add"
  /\ UNCHANGED <<tasks, gpc, tracked, scene, bounds>>

WatchdogAddTask ==
  /\ wpc = "add" /\ wpc' = "sleep"
  /\ tasks' = tasks + 1
  /\ UNCHANGED <<queued, gpc, tracked, scene, bounds>>

\* Without a task interface the flag comes down again.
WatchdogNoTask ==
  /\ wpc = "add" /\ wpc' = "sleep"
  /\ resets < MaxReset /\ resets' = resets + 1
  /\ queued' = FALSE
  /\ UNCHANGED <<tasks, gpc, tracked, scene, applies>>

\* Mutant: the end of Apply does not test it.
ApplyAlways ==
  /\ gpc = "schedule"
  /\ queued' = TRUE /\ gpc' = "add"
  /\ UNCHANGED <<tasks, wpc, tracked, scene, bounds>>

ApplyExchange ==
  /\ gpc = "schedule"
  /\ queued' = TRUE
  /\ gpc' = IF queued THEN "idle" ELSE "add"
  /\ UNCHANGED <<tasks, wpc, tracked, scene, bounds>>

ApplyAddTask ==
  /\ gpc = "add" /\ gpc' = "idle"
  /\ tasks' = tasks + 1
  /\ UNCHANGED <<queued, wpc, tracked, scene, bounds>>

ApplyNoTask ==
  /\ gpc = "add" /\ gpc' = "idle"
  /\ resets < MaxReset /\ resets' = resets + 1
  /\ queued' = FALSE
  /\ UNCHANGED <<tasks, wpc, tracked, scene, applies>>

-----------------------------------------------------------------------------
(* The game thread's tasks.                                                *)

\* IED deletes our objects; a lookup comes to its own where it has one.
DeleteOurs ==
  /\ own' = NoneOf(Items)
  /\ found' = [k \in Places |-> IF other[k] = Absent THEN Absent ELSE Theirs]
  /\ UNCHANGED <<loaded, other>>

\* Apply with items S visible: IED deletes what we had and will attach S.
Apply(S) ==
  /\ gpc = "idle" /\ applies < MaxApply /\ applies' = applies + 1
  /\ tracked' = S
  /\ DeleteOurs
  /\ gpc' = "schedule"
  /\ UNCHANGED <<schedule, resets>>

\* Apply with the signature already applied only schedules a tick.
ApplySkip ==
  /\ gpc = "idle" /\ applies < MaxApply /\ applies' = applies + 1
  /\ gpc' = "schedule"
  /\ UNCHANGED <<schedule, tracked, scene, resets>>

\* ClearProxy.
ClearProxy ==
  /\ gpc = "idle" /\ applies < MaxApply /\ applies' = applies + 1
  /\ tracked' = {}
  /\ DeleteOurs
  /\ UNCHANGED <<schedule, gpc, resets>>

\* Mutant: the task leaves the flag up.
TakeTaskStayingQueued ==
  /\ gpc = "idle" /\ tasks > 0
  /\ tasks' = tasks - 1
  /\ gpc' = "tick"
  /\ UNCHANGED <<queued, wpc, tracked, scene, bounds>>

\* The task first lets the next one be queued, then does its work.
TakeTask ==
  /\ gpc = "idle" /\ tasks > 0
  /\ tasks' = tasks - 1
  /\ queued' = FALSE /\ gpc' = "tick"
  /\ UNCHANGED <<wpc, tracked, scene, bounds>>

\* The items looked up at k, and the one WatchdogTick gets to last.
At(k) == {i \in tracked : Place[i] = k}
LastAt(k) == CHOOSE i \in At(k) : \A j \in At(k) : j <= i

\* The pose left on the object found at k, whose transform was t.  Each item
\* looked up there writes its own pose when it finds another, so the last one
\* decides; nothing is written when t suits them all.
Repaired(k, t) ==
  IF \A i \in At(k) : t = Pose[i] THEN t ELSE Clamped[Pose[LastAt(k)]]

\* FindRemoteIEDObject takes the first object of that form below that
\* attachment, whoever made it and for whichever item; without 3D the avatar
\* is passed over.
WatchdogTick ==
  /\ gpc = "tick" /\ gpc' = "idle"
  /\ own' = [i \in Items |->
       IF loaded /\ found[Place[i]] = i THEN Repaired(Place[i], own[i]) ELSE own[i]]
  /\ other' = [k \in Places |->
       IF loaded /\ found[k] = Theirs THEN Repaired(k, other[k]) ELSE other[k]]
  /\ UNCHANGED <<schedule, tracked, loaded, found, bounds>>

-----------------------------------------------------------------------------
(* IED and the game: IED attaches an object some time after Evaluate,      *)
(* before or after those already there, and overwrites transforms when it  *)
(* evaluates an entry again; an avatar out of sight has no 3D.             *)

\* A new object x at k is found first, or whichever was found before it.
Found(k, x) ==
  \E y \in IF found[k] = Absent THEN {x} ELSE {x, found[k]} : found' = [found EXCEPT ![k] = y]

Attach(i) ==
  /\ loaded /\ i \in tracked /\ own[i] = Absent
  /\ own' = [own EXCEPT ![i] = Default]
  /\ Found(Place[i], i)
  /\ UNCHANGED <<schedule, gpc, tracked, loaded, other, bounds>>

AttachOther(k) ==
  /\ loaded /\ NPCDisplays /\ other[k] = Absent
  /\ other' = [other EXCEPT ![k] = Default]
  /\ Found(k, Theirs)
  /\ UNCHANGED <<schedule, gpc, tracked, loaded, own, bounds>>

Overwrite(i) ==
  /\ resets < MaxReset /\ resets' = resets + 1
  /\ own[i] \notin {Absent, Default}
  /\ own' = [own EXCEPT ![i] = Default]
  /\ UNCHANGED <<schedule, gpc, tracked, loaded, other, found, applies>>

Unload3D ==
  /\ loaded /\ loaded' = FALSE
  /\ resets < MaxReset /\ resets' = resets + 1
  /\ own' = NoneOf(Items) /\ other' = NoneOf(Places) /\ found' = NoneOf(Places)
  /\ UNCHANGED <<schedule, gpc, tracked, applies>>

Load3D ==
  /\ ~loaded /\ loaded' = TRUE
  /\ UNCHANGED <<schedule, gpc, tracked, own, other, found, bounds>>

GameStep == ApplyExchange \/ ApplyAddTask \/ TakeTask \/ WatchdogTick

Next ==
  \/ GameStep \/ WatchdogExchange \/ WatchdogAddTask \/ WatchdogNoTask \/ ApplyNoTask
  \/ ApplySkip \/ ClearProxy \/ Unload3D \/ Load3D
  \/ \E S \in SUBSET Items : Apply(S)
  \/ \E i \in Items : Attach(i) \/ Overwrite(i)
  \/ \E k \in Places : AttachOther(k)

\* The watchdog thread wakes every 100 ms, the game runs its tasks, IED
\* attaches what it was asked for.
Fairness ==
  /\ WF_vars(WatchdogExchange) /\ WF_vars(WatchdogAddTask) /\ WF_vars(GameStep)
  /\ \A i \in Items : WF_vars(Attach(i))

Spec == Init /\ [][Next]_vars /\ Fairness

-----------------------------------------------------------------------------
\* The schedulers past their exchange.
Adding == (IF wpc = "add" THEN 1 ELSE 0) + (IF gpc = "add" THEN 1 ELSE 0)

\* Two schedulers never queue a task each, and the flag never stays up with
\* no task to take it down, which would stop the watchdog for good.
FlagMatchesQueue == tasks + Adding = IF queued THEN 1 ELSE 0

\* README: the watchdog "maintains exact NiAVObject::local transforms", IED
\* attaching late, overwriting them whenever it likes and losing them with the
\* avatar's 3D.  Three exceptions: a scale is clamped; where an object of
\* IED's own is found first ours is not repaired at all; and of several items
\* of one form at one attachment only the object found first is repaired, to
\* the pose of the last of them (it is exact when the place has one item).
PosesExact ==
  \A k \in Places :
    <>[](loaded /\ At(k) # {} /\ found[k] # Theirs =>
           found[k] \in At(k) /\ own[found[k]] = Clamped[Pose[LastAt(k)]])

\* README, "Safety": only "the specific scene objects it created" are updated.
OthersUntouched == \A k \in Places : other[k] \in {Absent, Default}

=============================================================================
