---------------------------- MODULE DisplayState ----------------------------
(***************************************************************************)
(* What becomes of one player's displays: LocalCaptureProbe turns slots    *)
(* and scene graph into a LocalIEDState, LocalIEDState writes it on the    *)
(* wire and reads it back, RemoteIEDRenderer makes items of it.            *)
(*                                                                         *)
(* The displays are fixed; IED may attach them in any order again, and the *)
(* capture repeats.  A form stands for its identity (plugin, local FormID) *)
(* and, in the order of the scene objects, for the object's name.          *)
(***************************************************************************)
EXTENDS Integers, Sequences, FiniteSets, Functions

CONSTANTS
  Forms,        \* forms with an identity, numbers in identity order
  Unresolved,   \* those whose plugin the receiver does not have
  LastSlot,     \* the slots are 0..LastSlot (18 in IED)
  Attachments,  \* attachment nodes that hold objects, numbers in name order
  Holder,       \* Holder[a]: the "OBJECT R/P <node>" it is, and its anchor
  Movable,      \* nodes named MOV ... or CME ...
  Poses,        \* local transforms, as rounded by Q
  MaxDisplays,  \* bound: displays of the player
  None          \* no slot, form, node, payload

Slots == 0..LastSlot
Nodes == (UNION {{Holder[a].node, Holder[a].anchor} : a \in Attachments} \cup Movable) \ {None}
Holders == [prefix : {"R", "P", "other"}, node : Nodes, anchor : Nodes \cup {None}]

ASSUME DisplayStateAssumption ==
  /\ Forms \subseteq Nat /\ Attachments \subseteq Nat /\ Unresolved \subseteq Forms
  /\ LastSlot \in Nat /\ MaxDisplays \in Nat
  /\ Holder \in [Attachments -> Holders]
  /\ None \notin Forms \cup Slots \cup Movable

VARIABLES
  displays,  \* the displays, in scene-graph order
  slots,     \* the form IED reports for each slot
  state,     \* _lastState
  payload,   \* _lastPayload, which every peer receives
  received,  \* the peer's decoded state
  items      \* what the peer's IED is asked to show

vars == <<displays, slots, state, payload, received, items>>

\* slot: the one it is shown for, None for a Custom Item.
Display == [form : Forms, slot : Slots \cup {None}, attach : Attachments,
            pose : Poses, visible : BOOLEAN]
SlotState == [Slots -> Forms \cup {None}]
Object == [kind : {"slot", "custom"}, form : Forms, slot : Slots \cup {None},
           visible : BOOLEAN, attach : Attachments, pose : Poses]
Item == [name : {"remote-slot", "remote-custom"} \X Nat, form : Forms,
         node : Nodes \cup ({"gear"} \X Slots), parent : BOOLEAN, pose : Poses]
State == [slots : SlotState, objects : Seq(Object)]

\* The lines of the wire format: the slots, and an object.
SlotLine == [tag : {"S"}, slots : [Slots -> {<<>>} \cup {<<f>> : f \in Forms}]]
ObjectLine == [tag : {"O"}, kind : {0, 1}, slot : Slots \cup {-1}, form : Forms,
               visible : {0, 1}, attach : Attachments, pose : Poses]

ASSUME NoneAssumption == None \notin State \cup Seq(SlotLine \cup ObjectLine)

-----------------------------------------------------------------------------
\* The elements of q at the indices in K, in the order of q.
Rank(K, i) == Cardinality({j \in K : j <= i})
Nth(K, n) == CHOOSE i \in K : Rank(K, i) = n
Pick(q, K) == [n \in 1..Cardinality(K) |-> q[Nth(K, n)]]

-----------------------------------------------------------------------------
(* Capture.                                                                *)

\* FindSlot: the first slot that holds the form.
FindSlot(f, slotted) ==
  IF \E s \in Slots : slotted[s] = f
    THEN CHOOSE s \in Slots : slotted[s] = f /\ \A t \in Slots : slotted[t] = f => s <= t
    ELSE None

\* MakeCapturedObject: an object is a slot's when its form is in a slot.
MakeCapturedObject(d, slotted) ==
  LET s == FindSlot(d.form, slotted)
  IN [kind |-> IF s # None THEN "slot" ELSE "custom", form |-> d.form, slot |-> s,
      visible |-> d.visible, attach |-> d.attach, pose |-> d.pose]

\* The order of the captured objects; visibility and transform do not count.
SlotRank(s) == IF s = None THEN -1 ELSE s
Before(x, y) ==
  \/ x.form < y.form
  \/ x.form = y.form /\ SlotRank(x.slot) < SlotRank(y.slot)
  \/ x.form = y.form /\ x.slot = y.slot /\ x.attach < y.attach

\* Mutant: the objects stay in scene-graph order.
Unsorted(q) == {q}

\* std::sort leaves equivalent objects in any order.
Reorderings(q) == {[i \in DOMAIN q |-> q[p[i]]] : p \in Bijection(DOMAIN q, DOMAIN q)}
Sorted(q) == {r \in Reorderings(q) : \A i, j \in DOMAIN r : i < j => ~Before(r[j], r[i])}

\* std::unique: an object that equals the one before it goes.
Unique(q) == Pick(q, {i \in DOMAIN q : i = 1 \/ q[i] # q[i - 1]})

\* What CompleteCapture may collect.
Captures ==
  LET visited == [i \in DOMAIN displays |-> MakeCapturedObject(displays[i], slots)]
  IN {[slots |-> slots, objects |-> Unique(q)] : q \in Sorted(visited)}

-----------------------------------------------------------------------------
(* The wire format: a line of slots, then a line for each object.          *)

EncodeObject(o) ==
  [tag |-> "O", kind |-> IF o.kind = "slot" THEN 0 ELSE 1, slot |-> SlotRank(o.slot),
   form |-> o.form, visible |-> IF o.visible THEN 1 ELSE 0, attach |-> o.attach, pose |-> o.pose]

\* EncodeSlots: one token a slot, here <<>> for "-".
EncodeSlots(slotted) == [s \in Slots |-> IF slotted[s] = None THEN <<>> ELSE <<slotted[s]>>]

Encode(st) ==
  <<[tag |-> "S", slots |-> EncodeSlots(st.slots)]>>
    \o [i \in DOMAIN st.objects |-> EncodeObject(st.objects[i])]

\* Mutant: slot 0 is taken for no slot.
DecodePositiveSlot(n) == IF n > 0 THEN n ELSE None

\* A slot field names the slot when it is not negative.
DecodeSlot(n) == IF n >= 0 THEN n ELSE None

DecodeObject(line) ==
  [kind |-> IF line.kind = 0 THEN "slot" ELSE "custom", form |-> line.form,
   slot |-> DecodeSlot(line.slot), visible |-> line.visible # 0,
   attach |-> line.attach, pose |-> line.pose]

DecodeSlots(tokens) == [s \in Slots |-> IF tokens[s] = <<>> THEN None ELSE tokens[s][1]]

\* None without a line of slots or with a line of another kind.
Decode(msg) ==
  LET Lines(tag) == Pick(msg, {i \in DOMAIN msg : msg[i].tag = tag})
      heads == Lines("S")
      objects == Lines("O")
  IN IF heads = <<>> \/ Len(heads) + Len(objects) # Len(msg) THEN None
     ELSE [slots |-> DecodeSlots(heads[Len(heads)].slots),
           objects |-> [i \in DOMAIN objects |-> DecodeObject(objects[i])]]

-----------------------------------------------------------------------------
(* Rendering.                                                              *)

\* SlotNode: a MOV or CME anchor, else the attachment's node, else the slot's.
SlotNode(o) ==
  LET h == Holder[o.attach]
  IN IF h.anchor \in Movable THEN [node |-> h.anchor, parent |-> TRUE]
     ELSE IF h.prefix # "other" THEN [node |-> h.node, parent |-> h.prefix = "P"]
     ELSE [node |-> <<"gear", o.slot>>, parent |-> FALSE]

\* CustomNode: the attachment's node, else the anchor, else none.
CustomNode(o) ==
  LET h == Holder[o.attach]
  IN IF h.prefix # "other" THEN [node |-> h.node, parent |-> h.prefix = "P"]
     ELSE IF h.anchor # None THEN [node |-> h.anchor, parent |-> TRUE]
     ELSE [node |-> None, parent |-> FALSE]

MakeItem(kind, n, o, sel) ==
  [name |-> <<kind, n>>, form |-> o.form, node |-> sel.node, parent |-> sel.parent, pose |-> o.pose]

\* The first visible object of each slot is shown for it ...
SlotObjects(objects) ==
  {i \in DOMAIN objects :
     LET Shows(j) == objects[j].slot = objects[i].slot /\ objects[j].visible
     IN objects[i].kind = "slot" /\ Shows(i) /\ \A j \in 1..(i - 1) : ~Shows(j)}

\* Mutants: hidden Custom Items are rendered; those without a node are.
RendersHidden(o) == o.kind = "custom" /\ o.form \notin Unresolved /\ CustomNode(o).node # None
RendersAnywhere(o) == o.kind = "custom" /\ o.visible /\ o.form \notin Unresolved

\* ... and every visible Custom Item that has a node.
Renders(o) ==
  o.kind = "custom" /\ o.visible /\ o.form \notin Unresolved /\ CustomNode(o).node # None

CustomObjects(objects) == Pick(objects, {i \in DOMAIN objects : Renders(objects[i])})

\* Apply, for an actor that is there and a VM that takes every call.
Apply(st) ==
  LET q == st.objects
      customs == CustomObjects(q)
  IN {MakeItem("remote-slot", q[i].slot, q[i], SlotNode(q[i])) :
        i \in {j \in SlotObjects(q) : q[j].form \notin Unresolved}}
     \cup {MakeItem("remote-custom", n - 1, customs[n], CustomNode(customs[n])) :
             n \in DOMAIN customs}

-----------------------------------------------------------------------------
TypeOK ==
  /\ displays \in Seq(Display) /\ slots \in SlotState
  /\ {state, received} \subseteq State \cup {None}
  /\ (payload = None) <=> (state = None)
  /\ items \subseteq Item

\* IED shows a form for a slot only while the slot holds it.
Init ==
  /\ displays \in UNION {[1..n -> Display] : n \in 0..MaxDisplays}
  /\ slots \in SlotState
  /\ \A i \in DOMAIN displays :
       displays[i].slot # None => slots[displays[i].slot] = displays[i].form
  /\ \A i, j \in DOMAIN displays : displays[i].slot = displays[j].slot /\ i # j
                                     => displays[i].slot = None
  /\ state = None /\ payload = None /\ received = None /\ items = {}

\* IED attaches the displays in another order.
Reattach ==
  /\ displays' \in Reorderings(displays)
  /\ UNCHANGED <<slots, state, payload, received, items>>

\* CompleteCapture: a changed payload is kept and sent.
CompleteCapture ==
  /\ \E st \in Captures :
       IF Encode(st) = payload THEN UNCHANGED <<state, payload>>
                               ELSE state' = st /\ payload' = Encode(st)
  /\ UNCHANGED <<displays, slots, received, items>>

\* OnMessage and the Apply it leads to; what does not decode is ignored.
Receive ==
  /\ payload # None /\ Decode(payload) # None
  /\ received' = Decode(payload)
  /\ items' = Apply(Decode(payload))
  /\ UNCHANGED <<displays, slots, state, payload>>

Next == Reattach \/ CompleteCapture \/ Receive

Spec == Init /\ [][Next]_vars

-----------------------------------------------------------------------------
\* The peer reads exactly the state that was captured: nothing a capture can
\* contain is refused or altered on the way (slot 0 and no slot, empty slots).
RoundTrip == payload # None => Decode(payload) = state

\* Objects that the sort can tell apart.
Distinct ==
  \A i, j \in DOMAIN displays :
    i # j => \/ displays[i].form # displays[j].form
             \/ displays[i].attach # displays[j].attach

\* Displays that did not change are not published again, in whatever order IED
\* attaches them, as long as the sort can tell the objects apart.
NoSpuriousChange ==
  [][Distinct /\ payload # None => payload' = payload]_vars

\* Displays that the peer is able to show.
Showable(d) == d.visible /\ d.form \notin Unresolved

Shown(d) == {it \in items : it.form = d.form /\ it.pose = d.pose}

\* While no form is displayed twice, each visible display becomes exactly one
\* item, in the pose it was captured in, unless a Custom Item has neither an
\* attachment node nor an anchor; nothing else is shown.
EachShownOnce ==
  (received # None /\ \A i, j \in DOMAIN displays : i # j => displays[i].form # displays[j].form)
    => /\ \A i \in DOMAIN displays :
            LET d == displays[i]
            IN Showable(d) /\ (d.slot # None \/ CustomNode(d).node # None)
                 => Cardinality(Shown(d)) = 1
       /\ \A it \in items : \E i \in DOMAIN displays :
            Showable(displays[i]) /\ it \in Shown(displays[i])

\* README: "reproduces both standard IED slot displays and captured IED Custom
\* Items"; visible items "using resolvable forms and OBJECT P/R attachment
\* nodes follow the same path".
EveryDisplayShown ==
  received # None =>
    \A i \in DOMAIN displays :
      Showable(displays[i]) /\ Holder[displays[i].attach].prefix \in {"R", "P"}
        => Shown(displays[i]) # {}

=============================================================================
