---------------------------- MODULE LocalCapture ----------------------------
(***************************************************************************)
(* The local player's displays: LocalCaptureProbe asks IED, through        *)
(* IEDBridge, for the form in every slot, and when the last answer is in   *)
(* reads the scene graph and hands a changed state on.                     *)
(*                                                                         *)
(* Tick, every completion and kPreLoadGame run on the game thread, one at  *)
(* a time; the Papyrus VM answers a call on its own time, reading the slot *)
(* then, and queues the completion on the SKSE queue.                      *)
(***************************************************************************)
EXTENDS Naturals, Sequences, FiniteSets

CONSTANTS
  LastSlot,    \* the slots are 1..LastSlot (19 in IED)
  Forms,       \* forms that can be displayed
  Dynamic,     \* forms MakeFormIdentity refuses: created in this session
  Reqs,        \* capture requests that can be alive at one time
  MaxChange,   \* bound: changes of the player's displays
  MaxLoads,    \* bound: game loads
  MaxRefused,  \* bound: calls the VM refuses
  None         \* an empty slot, no state, no request

ASSUME CaptureAssumption ==
  /\ LastSlot \in Nat \ {0}
  /\ MaxChange \in Nat /\ MaxLoads \in Nat /\ MaxRefused \in Nat
  /\ Dynamic \subseteq Forms
  /\ None \notin Forms \cup Reqs

Slots == 1..LastSlot
Found == Forms \cup {None}
SlotForms == [Slots -> Found]

VARIABLES
  worn,       \* the form IED holds in each slot of the player
  extra,      \* forms displayed as Custom Items
  has3D,      \* whether there is a player and its scene graph is there
  running,    \* _running
  inFlight,   \* _captureInFlight
  seen,       \* slots of each CaptureRequest, as collected so far
  completed,  \* its completed slots
  calls,      \* <<request, slot>> the VM has yet to answer
  done,       \* completions queued for the game thread
  lastState,  \* _lastState / _lastPayload, None when empty
  changes, loads, refused

player == <<worn, extra, has3D>>
requests == <<seen, completed, calls, done>>
bounds == <<changes, loads, refused>>
vars == <<player, running, inFlight, requests, lastState, bounds>>

\* MakeFormIdentity: what a form is called on the wire, if it can be.
Identity(f) == IF f \in Dynamic THEN None ELSE f

\* FindSlot: the first slot that holds the form.
FindSlot(f, slots) ==
  IF \E s \in Slots : slots[s] = f
    THEN CHOOSE s \in Slots : slots[s] = f /\ \A t \in Slots : slots[t] = f => s <= t
    ELSE None

\* The scene graph, while there is one, holds one object for every display;
\* those without an identity are left out, the others classified by the slots
\* collected.
Displayed == IF has3D THEN {worn[s] : s \in Slots} \cup extra ELSE {}

StateOf(slots) ==
  [slots |-> slots,
   objects |-> {[form |-> f, slot |-> FindSlot(f, slots)] : f \in Displayed \ (Dynamic \cup {None})}]

\* A request is alive while a call or a queued completion refers to it.
Busy(r) ==
  \/ \E s \in Slots : <<r, s>> \in calls
  \/ \E i \in 1..Len(done) : done[i].req = r

\* The answer for a slot is in the queue.
Queued(r, s) == \E i \in 1..Len(done) : done[i].req = r /\ done[i].slot = s

Completion == [req : Reqs, slot : Slots, form : Found]
States == [slots : SlotForms, objects : SUBSET [form : Forms, slot : Slots \cup {None}]]

TypeOK ==
  /\ worn \in SlotForms /\ extra \subseteq Forms /\ has3D \in BOOLEAN
  /\ running \in BOOLEAN /\ inFlight \in BOOLEAN
  /\ seen \in [Reqs -> SlotForms]
  /\ completed \in [Reqs -> SUBSET Slots]
  /\ calls \subseteq Reqs \X Slots
  /\ done \in Seq(Completion)
  /\ lastState \in States \cup {None}
  /\ changes \in 0..MaxChange /\ loads \in 0..MaxLoads /\ refused \in 0..MaxRefused

NoSlots == [s \in Slots |-> None]

Init ==
  /\ worn = NoSlots /\ extra = {} /\ has3D = FALSE
  /\ running = FALSE /\ inFlight = FALSE
  /\ seen = [r \in Reqs |-> NoSlots]
  /\ completed = [r \in Reqs |-> Slots]
  /\ calls = {} /\ done = <<>>
  /\ lastState = None
  /\ changes = 0 /\ loads = 0 /\ refused = 0

-----------------------------------------------------------------------------
\* Mutant: CompleteCapture leaves _captureInFlight set.
CompleteStayingBusy(slots) ==
  /\ lastState' = StateOf(slots)
  /\ UNCHANGED inFlight

\* CompleteCapture with the slots collected: keep and publish a state that
\* differs from the last one (the handler is whoever reads lastState change),
\* and allow the next capture.
CompleteCapture(slots) ==
  /\ lastState' = StateOf(slots)
  /\ inFlight' = FALSE

\* Mutant: Tick does not look at _captureInFlight.
TickAnyway(r, R) ==
  /\ running
  /\ ~Busy(r)
  /\ refused + Cardinality(R) <= MaxRefused
  /\ refused' = refused + Cardinality(R)
  /\ seen' = [seen EXCEPT ![r] = NoSlots]
  /\ completed' = [completed EXCEPT ![r] = R]
  /\ calls' = calls \cup ({r} \X (Slots \ R))
  /\ IF R = Slots THEN CompleteCapture(NoSlots)
                  ELSE inFlight' = TRUE /\ UNCHANGED lastState
  /\ UNCHANGED <<player, running, done, changes, loads>>

\* Tick: unless a capture is in flight, ask for every slot.  A call the VM
\* refuses completes its slot at once as empty, the last one the capture too.
\* (Without player, VM or IED, CapturePlayerSlots makes no request and Tick takes
\* the flag down again in the same task: nothing changes.)
Tick(r, R) ==
  /\ running /\ ~inFlight
  /\ ~Busy(r)
  /\ refused + Cardinality(R) <= MaxRefused
  /\ refused' = refused + Cardinality(R)
  /\ seen' = [seen EXCEPT ![r] = NoSlots]
  /\ completed' = [completed EXCEPT ![r] = R]
  /\ calls' = calls \cup ({r} \X (Slots \ R))
  /\ IF R = Slots THEN CompleteCapture(NoSlots)
                  ELSE inFlight' = TRUE /\ UNCHANGED lastState
  /\ UNCHANGED <<player, running, done, changes, loads>>

\* The VM runs GetSlottedForm and SlotResultCallback queues the completion.
Answer(r, s) ==
  /\ <<r, s>> \in calls
  /\ calls' = calls \ {<<r, s>>}
  /\ done' = Append(done, [req |-> r, slot |-> s, form |-> worn[s]])
  /\ UNCHANGED <<player, running, inFlight, seen, completed, lastState, bounds>>

\* Mutant: the completed slot is counted one too high.
CompleteNextSlot ==
  /\ done # <<>> /\ done' = Tail(done)
  /\ completed' = [completed EXCEPT ![Head(done).req] = @ \cup {Head(done).slot + 1}]
  /\ UNCHANGED <<player, running, inFlight, seen, calls, lastState, bounds>>

\* CaptureRequest::Complete on the game thread; what a finished request has
\* collected goes with it.
Complete ==
  /\ done # <<>> /\ done' = Tail(done)
  /\ LET r == Head(done).req
         s == Head(done).slot
         slots == [seen[r] EXCEPT ![s] = Identity(Head(done).form)]
     IN IF s \in completed[r]
          THEN UNCHANGED <<seen, completed, lastState, inFlight>>
          ELSE /\ seen' = [seen EXCEPT ![r] =
                             IF completed[r] \cup {s} = Slots THEN NoSlots ELSE slots]
               /\ completed' = [completed EXCEPT ![r] = @ \cup {s}]
               /\ IF completed[r] \cup {s} = Slots THEN CompleteCapture(slots)
                                                   ELSE UNCHANGED <<lastState, inFlight>>
  /\ UNCHANGED <<player, running, calls, bounds>>

\* Mutant: Reset keeps _captureInFlight.
PreLoadGameBusy ==
  /\ loads < MaxLoads /\ loads' = loads + 1
  /\ lastState' = None
  /\ calls' \in {calls, {}} /\ has3D' = FALSE
  /\ UNCHANGED <<worn, extra, running, inFlight, seen, completed, done, changes, refused>>

\* kPreLoadGame: Reset forgets the last state and allows a capture at once.
\* SKSE sends the message from the call that loads, on the game thread, so no
\* task runs before the load is over.  The load takes the player's 3D away, and
\* drops the VM's stacks, and the answers with them, or does not.
PreLoadGame ==
  /\ loads < MaxLoads /\ loads' = loads + 1
  /\ lastState' = None /\ inFlight' = FALSE
  /\ calls' \in {calls, {}} /\ has3D' = FALSE
  /\ UNCHANGED <<worn, extra, running, seen, completed, done, changes, refused>>

\* Start at kDataLoaded.
Start ==
  /\ ~running /\ running' = TRUE
  /\ UNCHANGED <<player, inFlight, requests, lastState, bounds>>

\* The player equips, unequips or toggles something, or loses its 3D.
Change ==
  /\ changes < MaxChange /\ changes' = changes + 1
  /\ \/ /\ \E s \in Slots : \E f \in Found \ {worn[s]} : worn' = [worn EXCEPT ![s] = f]
        /\ UNCHANGED <<extra, has3D>>
     \/ /\ \E f \in Forms : extra' = IF f \in extra THEN extra \ {f} ELSE extra \cup {f}
        /\ UNCHANGED <<worn, has3D>>
     \/ has3D /\ has3D' = FALSE /\ UNCHANGED <<worn, extra>>
  /\ UNCHANGED <<running, inFlight, requests, lastState, loads, refused>>

\* The game makes the player's 3D.
Make3D ==
  /\ ~has3D /\ has3D' = TRUE
  /\ UNCHANGED <<worn, extra, running, inFlight, requests, lastState, bounds>>

\* Tick makes a request of its own; R is what the VM refuses of it.
StartCapture ==
  LET free == {r \in Reqs : ~Busy(r)}
  IN free # {} /\ \E R \in SUBSET Slots : Tick(CHOOSE r \in free : TRUE, R)

Next ==
  \/ StartCapture \/ Complete \/ PreLoadGame \/ Start \/ Change \/ Make3D
  \/ \E r \in Reqs, s \in Slots : Answer(r, s)

\* The timer ticks every 400 ms, the game runs its tasks, the VM its calls.
Fairness ==
  /\ WF_vars(StartCapture) /\ WF_vars(Complete)
  /\ \A r \in Reqs, s \in Slots : WF_vars(Answer(r, s))

Spec == Init /\ [][Next]_vars /\ Fairness

-----------------------------------------------------------------------------
\* The capture never stops for good: while the flag is up, some request still
\* lacks slots and the answer for each of them is outstanding or queued.  Tick
\* raises the flag; Complete, Reset and a Tick with every call refused clear it.
WillFinish(r) ==
  /\ completed[r] # Slots
  /\ \A s \in Slots \ completed[r] : <<r, s>> \in calls \/ Queued(r, s)

FlagHasRequest == inFlight => \E r \in Reqs : WillFinish(r)

\* Captures overlap only because a load reset the flag under one of them, and
\* no load adds more than one to those that run at a time.
CapturesBounded == Cardinality({r \in Reqs : WillFinish(r)}) <= 1 + loads

\* Whatever is published in between (slots and scene are read at different
\* times, refused calls read as empty slots, an old capture ends after a load),
\* the state last published ends up being what the player displays.
PublishedIsFresh ==
  <>[](running => lastState = StateOf([s \in Slots |-> Identity(worn[s])]))

=============================================================================
