------------------------- MODULE RemoteOrderProofs -------------------------
(* An avatar never goes back to an older state of the same sender, for any  *)
(* number of players, avatars, states and mapping changes.                  *)
EXTENDS RemoteDisplayProofs

USE DisplayAssumption

\* Nothing is delivered that was not sent.
DeliveredWasSent == \A c \in Conns : recv[c] <= sent[c]

\* What is stored of a sender is the last thing it delivered, if anything; of
\* the one who has our former id nothing is stored.
InboxNewest ==
  /\ \A c \in Conns : remoteStates[c] \in {0, recv[c]}
  /\ localID # None => remoteStates[localID] = 0
  /\ life # "running" => \A c \in Conns : remoteStates[c] = 0

\* No avatar shows a state before it was delivered.
TrackedReceived ==
  \A p \in Proxies : tracked[p] # None => tracked[p].version <= recv[tracked[p].from]

\* The state the game thread is about to render is as new as any that an
\* avatar has of that sender.
SnapNewest ==
  pc \in {"resolve", "render"} =>
    /\ snap <= recv[task.conn]
    /\ \A p \in Proxies :
         tracked[p] # None /\ tracked[p].from = task.conn => tracked[p].version <= snap

OrderInv == DeliveredWasSent /\ InboxNewest /\ TrackedReceived /\ SnapNewest

\* The step an avatar may take.
NoStepBack ==
  \A p \in Proxies :
    tracked[p] # None /\ tracked'[p] # None /\ tracked'[p].from = tracked[p].from
      => tracked'[p].version >= tracked[p].version

LEMMA OrderInit == Init => OrderInv
<1>1. ASSUME Init, NEW c \in Conns PROVE recv[c] <= sent[c]
  <2>1. recv[c] = 0 /\ sent[c] = 0
    BY <1>1 DEF Init
  <2> QED
    BY <2>1
<1>2. Init => DeliveredWasSent
  BY <1>1 DEF DeliveredWasSent
<1> QED
  BY <1>2 DEF Init, OrderInv, InboxNewest, TrackedReceived, SnapNewest

-----------------------------------------------------------------------------
LEMMA SentMoves ==
  ASSUME [Next]_vars
  PROVE  \/ \E c \in Conns : RemoteChange(c)
         \/ sent' = sent /\ recv' = recv
         \/ \E c \in Conns : DeliverChange(c) \/ DeliverHeartbeat(c)
<1>1. CASE GameStep
  BY <1>1 DEF GameStep, RunTask, RunApply, RunUpdated, RunRemoved, RunCleared, RunReset,
              RunStopped, Take, TakeSnapshot, Resolve, Render, Forget, QueueReset, remote
<1>2. CASE PreLoadGame \/ Start \/ Stop \/ OnProxyMapping \/ OwnSend
  BY <1>2 DEF PreLoadGame, Start, Stop, OnProxyMapping, OwnSend, remote
<1>3. ASSUME NEW m, NEW e, Remap(m, e) PROVE sent' = sent /\ recv' = recv
  BY <1>3 DEF Remap, remote
<1>4. ASSUME NEW c \in Conns, QueueRemoteApply(c) \/ Reconnect(c)
      PROVE  sent' = sent /\ recv' = recv
  BY <1>4 DEF QueueRemoteApply, Reconnect, remote
<1>5. ASSUME NEW p \in Proxies, ActorLoad(p) PROVE sent' = sent /\ recv' = recv
  BY <1>5 DEF ActorLoad, remote
<1>6. CASE UNCHANGED vars
  BY <1>6 DEF vars, remote
<1> QED
  BY <1>1, <1>2, <1>3, <1>4, <1>5, <1>6
  DEF Next, MappingCleared, MappingRemoved, MappingAdded, MappingUpdated

LEMMA DeliveryStep ==
  ASSUME TypeInv, DeliveredWasSent, [Next]_vars
  PROVE  DeliveredWasSent'
<1> USE DEF TypeInv, WorldOK, DeliveredWasSent
<1>1. CASE \E c \in Conns : RemoteChange(c)
  <2>1. PICK c \in Conns : RemoteChange(c)
    BY <1>1
  <2>2. sent' = [sent EXCEPT ![c] = sent[c] + 1] /\ recv' = recv
    BY <2>1 DEF RemoteChange
  <2> QED
    BY <2>2
<1>2. CASE sent' = sent /\ recv' = recv
  BY <1>2
<1>3. CASE \E c \in Conns : DeliverChange(c) \/ DeliverHeartbeat(c)
  <2>1. PICK c \in Conns : DeliverChange(c) \/ DeliverHeartbeat(c)
    BY <1>3
  <2>2. sent' = sent
    BY <2>1 DEF DeliverChange, DeliverHeartbeat, OnMessage
  <2>3. \/ recv' = [recv EXCEPT ![c] = recv[c] + 1] /\ recv[c] < sent[c]
        \/ recv' = [recv EXCEPT ![c] = recv[c]]
    BY <2>1 DEF DeliverChange, DeliverHeartbeat, OnMessage
  <2>4. ASSUME NEW d \in Conns PROVE recv'[d] <= sent'[d]
    <3>1. recv[d] \in Nat /\ sent[d] \in Nat /\ recv[d] <= sent[d]
      OBVIOUS
    <3>2. recv'[d] = recv[d] \/ (d = c /\ recv'[d] = recv[d] + 1 /\ recv[d] < sent[d])
      BY <2>3
    <3> QED
      BY <2>2, <3>1, <3>2
  <2> QED
    BY <2>4
<1> QED
  BY <1>1, <1>2, <1>3, SentMoves

-----------------------------------------------------------------------------
(* What a step can do, by the part of the state it is about.               *)

\* Something newer is delivered.
Delivery == \E c \in Conns : \E v \in 0..MaxVersion : v >= recv[c] /\ OnMessage(c, v)

LEMMA InboxMoves ==
  ASSUME TypeInv, [Next]_vars
  PROVE  \/ Delivery
         \/ \E c \in Conns : Reconnect(c)
         \/ /\ recv' = recv /\ localID' \in {localID, None}
            /\ \/ remoteStates' = remoteStates /\ (life' = life \/ life' = "running")
               \/ (\A c \in Conns : remoteStates'[c] \in {0, remoteStates[c]}) /\ life' = life
               \/ \A c \in Conns : remoteStates'[c] = 0
<1>1. CASE RunTask
  BY <1>1 DEF RunTask, RunApply, RunUpdated, RunRemoved, RunCleared, RunReset, RunStopped,
              Take, remote, inbox
<1>2. CASE TakeSnapshot \/ Resolve \/ Render \/ QueueReset
  BY <1>2 DEF TakeSnapshot, Resolve, Render, QueueReset, remote, inbox
<1>3. CASE Forget
  <2>1. \A c \in Conns : remoteStates'[c] \in {0, remoteStates[c]}
    BY <1>3 DEF Forget, TypeInv, InboxOK
  <2> QED
    BY <1>3, <2>1 DEF Forget, remote
<1>4. CASE PreLoadGame \/ Stop
  BY <1>4 DEF PreLoadGame, Stop, remote
<1>5. CASE Start \/ OnProxyMapping
  BY <1>5 DEF Start, OnProxyMapping, remote, inbox
<1>11. CASE OwnSend
  BY <1>11 DEF OwnSend, inbox
<1>6. ASSUME NEW m, NEW e, Remap(m, e)
      PROVE  UNCHANGED <<recv, localID, remoteStates, life>>
  BY <1>6 DEF Remap, remote, inbox
<1>7. ASSUME NEW c \in Conns, DeliverChange(c) \/ DeliverHeartbeat(c) PROVE Delivery
  <2>1. recv[c] \in 0..MaxVersion /\ sent[c] \in 0..MaxVersion
    BY DEF TypeInv, WorldOK
  <2>2. recv[c] < sent[c] => recv[c] + 1 \in 0..MaxVersion /\ recv[c] + 1 >= recv[c]
    BY <2>1
  <2> QED
    BY <1>7, <2>1, <2>2 DEF DeliverChange, DeliverHeartbeat, Delivery
<1>8. ASSUME NEW c \in Conns, RemoteChange(c) \/ QueueRemoteApply(c)
      PROVE  UNCHANGED <<recv, localID, remoteStates, life>>
  BY <1>8 DEF RemoteChange, QueueRemoteApply, remote, inbox
<1>9. ASSUME NEW p \in Proxies, ActorLoad(p)
      PROVE  UNCHANGED <<recv, localID, remoteStates, life>>
  BY <1>9 DEF ActorLoad, remote, inbox
<1>10. CASE UNCHANGED vars
  BY <1>10 DEF vars, remote, inbox
<1> QED
  BY <1>1, <1>2, <1>3, <1>4, <1>5, <1>6, <1>7, <1>8, <1>9, <1>10, <1>11
  DEF Next, GameStep, MappingCleared, MappingRemoved, MappingAdded, MappingUpdated

LEMMA ThreadMoves ==
  ASSUME [Next]_vars
  PROVE  \/ UNCHANGED <<pc, task, snap, tracked>>
         \/ pc' \notin {"resolve", "render"}
         \/ /\ pc = "snapshot" /\ remoteStates[task.conn] # 0
            /\ snap' = remoteStates[task.conn]
            /\ UNCHANGED <<task, tracked, recv>>
         \/ pc = "resolve" /\ UNCHANGED <<task, snap, tracked>>
<1>1. CASE RunTask
  BY <1>1 DEF RunTask, RunApply, RunUpdated, RunRemoved, RunCleared, RunReset, RunStopped, Take
<1>2. CASE Render \/ Forget \/ QueueReset \/ PreLoadGame
  BY <1>2 DEF Render, Forget, QueueReset, PreLoadGame, EndTask, Goto
<1>3. CASE TakeSnapshot
  BY <1>3 DEF TakeSnapshot, EndTask, Goto, renderer, remote
<1>4. CASE Resolve
  BY <1>4 DEF Resolve, EndTask, Goto, renderer
<1>5. CASE Start \/ Stop \/ OnProxyMapping \/ OwnSend
  BY <1>5 DEF Start, Stop, OnProxyMapping, OwnSend, thread, renderer
<1>6. ASSUME NEW m, NEW e, Remap(m, e) PROVE UNCHANGED <<pc, task, snap, tracked>>
  BY <1>6 DEF Remap, thread, renderer
<1>7. ASSUME NEW c \in Conns,
             \/ RemoteChange(c) \/ DeliverChange(c) \/ DeliverHeartbeat(c)
             \/ QueueRemoteApply(c) \/ Reconnect(c)
      PROVE  UNCHANGED <<pc, task, snap, tracked>>
  BY <1>7 DEF RemoteChange, DeliverChange, DeliverHeartbeat, OnMessage, QueueRemoteApply,
              Reconnect, thread, renderer
<1>8. ASSUME NEW p \in Proxies, ActorLoad(p) PROVE UNCHANGED <<pc, task, snap, tracked>>
  BY <1>8 DEF ActorLoad, thread, renderer
<1>9. CASE UNCHANGED vars
  BY <1>9 DEF vars, thread, renderer
<1> QED
  BY <1>1, <1>2, <1>3, <1>4, <1>5, <1>6, <1>7, <1>8, <1>9
  DEF Next, GameStep, MappingCleared, MappingRemoved, MappingAdded, MappingUpdated

\* An entry of tracked goes, keeps its state, or takes the state in hand.
LEMMA TrackedMoves ==
  ASSUME TypeInv, [Next]_vars, NEW p \in Proxies, tracked'[p] # None
  PROVE  \/ /\ tracked[p] # None
            /\ tracked'[p].from = tracked[p].from /\ tracked'[p].version = tracked[p].version
         \/ /\ pc = "render"
            /\ tracked'[p].from = task.conn /\ tracked'[p].version = snap
<1> USE DEF TypeInv, RendererOK
<1>1. CASE UNCHANGED renderer
  BY <1>1 DEF renderer
<1>2. CASE \E P : ClearProxies(P)
  BY <1>2 DEF ClearProxies
<1>3. ASSUME pc = "render", ApplySkip(task.conn, target)
      PROVE  /\ tracked[p] # None
             /\ tracked'[p].from = tracked[p].from /\ tracked'[p].version = tracked[p].version
  <2>1. target \in Proxies
    BY <1>3 DEF ThreadOK
  <2>2. CASE p = target /\ tracked[target] # None
    <3>1. tracked[p] \in Tracking
      BY <2>2
    <3>2. tracked'[p] = [tracked[p] EXCEPT !.conn = task.conn]
      BY <1>3, <2>1, <2>2 DEF ApplySkip
    <3> QED
      BY <2>2, <3>1, <3>2 DEF Tracking
  <2>3. CASE p # target \/ tracked[target] = None
    BY <1>3, <2>1, <2>3 DEF ApplySkip
  <2> QED
    BY <2>2, <2>3
<1>4. ASSUME pc = "render", ApplyRebuild(task.conn, target, snap)
      PROVE  \/ tracked[p] # None /\ tracked'[p] = tracked[p]
             \/ tracked'[p].from = task.conn /\ tracked'[p].version = snap
  <2>1. tracked' = [tracked EXCEPT ![target] =
                      [conn |-> task.conn, from |-> task.conn, version |-> snap]]
    BY <1>4 DEF ApplyRebuild
  <2> QED
    BY <2>1
<1>5. CASE pc = "render" /\ Apply(task.conn, target, snap, task.op # "apply")
  BY <1>1, <1>3, <1>4, <1>5 DEF Apply
<1> QED
  BY <1>1, <1>2, <1>5, RendererMoves

-----------------------------------------------------------------------------
LEMMA InboxStep ==
  ASSUME TypeInv, DeliveredWasSent, InboxNewest, [Next]_vars
  PROVE  InboxNewest' /\ \A c \in Conns : recv'[c] >= recv[c]
<1> USE DEF TypeInv, WorldOK, InboxOK
<1>1. CASE Delivery
  <2>1. PICK c \in Conns : \E v \in 0..MaxVersion : v >= recv[c] /\ OnMessage(c, v)
    BY <1>1 DEF Delivery
  <2>2. PICK v \in 0..MaxVersion : v >= recv[c] /\ OnMessage(c, v)
    BY <2>1
  <2>3. recv' = [recv EXCEPT ![c] = v] /\ life' = life /\ localID' = localID
    BY <2>2 DEF OnMessage
  <2>4. CASE life = "running" /\ c # localID
    BY <2>2, <2>3, <2>4 DEF OnMessage, InboxNewest
  <2>5. CASE ~(life = "running" /\ c # localID)
    <3>1. remoteStates' = remoteStates /\ remoteStates[c] = 0
      BY <2>2, <2>5 DEF OnMessage, InboxNewest, inbox
    <3> QED
      BY <2>2, <2>3, <3>1 DEF InboxNewest
  <2> QED
    BY <2>4, <2>5
<1>3. CASE \E c \in Conns : Reconnect(c)
  <2>1. PICK c \in Conns : Reconnect(c)
    BY <1>3
  <2>2. sent[c] = 0 /\ localID' = c /\ UNCHANGED <<recv, remoteStates, life>>
    BY <2>1 DEF Reconnect, inbox
  <2>3. recv[c] = 0
    BY <2>2 DEF DeliveredWasSent
  <2> QED
    BY <2>2, <2>3 DEF InboxNewest
<1>2. CASE /\ recv' = recv /\ localID' \in {localID, None}
           /\ \/ remoteStates' = remoteStates /\ (life' = life \/ life' = "running")
              \/ (\A c \in Conns : remoteStates'[c] \in {0, remoteStates[c]}) /\ life' = life
              \/ \A c \in Conns : remoteStates'[c] = 0
  BY <1>2 DEF InboxNewest
<1> QED
  BY <1>1, <1>2, <1>3, InboxMoves

LEMMA TrackedStep ==
  ASSUME TypeInv, OrderInv, [Next]_vars
  PROVE  TrackedReceived'
<1> SUFFICES ASSUME NEW p \in Proxies, tracked'[p] # None
             PROVE  tracked'[p].version <= recv'[tracked'[p].from]
  BY DEF TrackedReceived
<1>1. RendererOK' /\ WorldOK'
  BY TypeStep DEF TypeInv
<1>0. \A c \in Conns : recv'[c] >= recv[c]
  BY InboxStep DEF OrderInv
<1> USE DEF TypeInv, WorldOK, RendererOK, ThreadOK, Tracking, Versions
<1>2. \A c \in Conns : recv'[c] >= recv[c] /\ recv[c] \in Nat /\ recv'[c] \in Nat
  BY <1>0, <1>1, DisplayAssumption
<1>6. tracked'[p] \in Tracking
  BY <1>1
<1>3. tracked'[p].version \in Nat /\ tracked'[p].from \in Conns
  BY <1>6
<1>4. CASE /\ tracked[p] # None
           /\ tracked'[p].from = tracked[p].from /\ tracked'[p].version = tracked[p].version
  BY <1>2, <1>3, <1>4 DEF OrderInv, TrackedReceived
<1>5. CASE pc = "render" /\ tracked'[p].from = task.conn /\ tracked'[p].version = snap
  BY <1>2, <1>3, <1>5 DEF OrderInv, SnapNewest
<1> QED
  BY <1>4, <1>5, TrackedMoves

LEMMA SnapStep ==
  ASSUME TypeInv, OrderInv, [Next]_vars
  PROVE  SnapNewest'
<1> SUFFICES ASSUME pc' \in {"resolve", "render"}
             PROVE  /\ snap' <= recv'[task'.conn]
                    /\ \A p \in Proxies :
                         tracked'[p] # None /\ tracked'[p].from = task'.conn
                           => tracked'[p].version <= snap'
  BY DEF SnapNewest
<1> USE DEF TypeInv, WorldOK, RendererOK, ThreadOK, InboxOK, Versions
<1>1. \A c \in Conns : recv'[c] >= recv[c] /\ recv[c] \in Nat /\ recv'[c] \in Nat
  BY TypeStep, InboxStep DEF OrderInv
<1>2. CASE pc \in {"resolve", "render"} /\ UNCHANGED <<task, snap, tracked>>
  <2>1. task.conn \in Conns /\ snap \in Nat
    BY <1>2
  <2>2. snap <= recv[task.conn]
    BY <1>2 DEF OrderInv, SnapNewest
  <2>3. snap' <= recv'[task'.conn]
    BY <1>1, <1>2, <2>1, <2>2
  <2> QED
    BY <1>2, <2>3 DEF OrderInv, SnapNewest
<1>3. CASE /\ pc = "snapshot" /\ remoteStates[task.conn] # 0
           /\ snap' = remoteStates[task.conn]
           /\ UNCHANGED <<task, tracked, recv>>
  <2>1. task.conn \in Conns
    BY <1>3
  <2>2. snap' = recv[task.conn] /\ recv' = recv
    BY <1>3, <2>1 DEF OrderInv, InboxNewest
  <2> QED
    BY <1>1, <1>3, <2>1, <2>2 DEF OrderInv, TrackedReceived
<1> QED
  BY <1>2, <1>3, ThreadMoves

LEMMA OrderStep == TypeInv /\ OrderInv /\ [Next]_vars => OrderInv'
BY DeliveryStep, InboxStep, TrackedStep, SnapStep DEF OrderInv

LEMMA StepForward ==
  ASSUME TypeInv, OrderInv, [Next]_vars
  PROVE  NoStepBack
<1> SUFFICES ASSUME NEW p \in Proxies, tracked[p] # None, tracked'[p] # None,
                    tracked'[p].from = tracked[p].from
             PROVE  tracked'[p].version >= tracked[p].version
  BY DEF NoStepBack
<1>1. tracked[p].version \in Nat
  BY DEF TypeInv, RendererOK, Tracking, Versions
<1>2. CASE tracked'[p].version = tracked[p].version
  BY <1>1, <1>2
<1>3. CASE pc = "render" /\ tracked'[p].from = task.conn /\ tracked'[p].version = snap
  <2>1. snap \in Nat
    BY DEF TypeInv, ThreadOK
  <2> QED
    BY <1>1, <1>3, <2>1 DEF OrderInv, SnapNewest
<1> QED
  BY <1>2, <1>3, TrackedMoves

\* An avatar never goes back to an older state of the same sender.
THEOREM StatesAdvance == Spec => NeverBackwards
<1>1. NoStepBack <=> (\A p \in Proxies :
         tracked[p] # None /\ tracked'[p] # None /\ tracked'[p].from = tracked[p].from
           => tracked'[p].version >= tracked[p].version)
  BY DEF NoStepBack
<1>2. TypeInv /\ OrderInv /\ [Next]_vars => [NoStepBack]_vars
  BY StepForward
<1> QED
  BY <1>2, OrderInit, OrderStep, TypeInit, TypeStep, PTL DEF Spec, NeverBackwards, NoStepBack
-----------------------------------------------------------------------------
(* The whole receiving side implements RemoteAvatars.                      *)

\* The entry of a rebuilt avatar is the state in hand; the others keep theirs.
LEMMA CarriedPut ==
  ASSUME TypeInv, pc = "render", ApplyRebuild(task.conn, target, snap)
  PROVE  Carried' = [Carried EXCEPT ![target] = [from |-> task.conn, version |-> snap]]
<1> DEFINE e == [conn |-> task.conn, from |-> task.conn, version |-> snap]
<1>1. target \in Proxies /\ task.conn \in Conns /\ snap \in Versions
  BY DEF TypeInv, ThreadOK
<1>2. tracked' = [tracked EXCEPT ![target] = e] /\ tracked \in [Proxies -> Tracking \cup {None}]
  BY DEF ApplyRebuild, TypeInv, RendererOK
<1>3. e # None
  BY <1>1, DisplayAssumption DEF Versions
<1>4. tracked'[target] = e /\ \A p \in Proxies \ {target} : tracked'[p] = tracked[p]
  BY <1>1, <1>2
<1>5. e.from = task.conn /\ e.version = snap
  OBVIOUS
<1> HIDE DEF e
<1> QED
  BY <1>1, <1>3, <1>4, <1>5 DEF Carried

LEMMA CarriedSkip ==
  ASSUME TypeInv, pc = "render", ApplySkip(task.conn, target)
  PROVE  Carried' = Carried
<1>1. target \in Proxies /\ task.conn \in Conns
  BY DEF TypeInv, ThreadOK
<1>2. CASE tracked[target] = None
  BY <1>2 DEF ApplySkip, Carried
<1>3. CASE tracked[target] # None
  <2> DEFINE e == [tracked[target] EXCEPT !.conn = task.conn]
  <2>1. tracked[target] \in Tracking
    BY <1>1, <1>3 DEF TypeInv, RendererOK
  <2>2. e \in Tracking /\ e.from = tracked[target].from /\ e.version = tracked[target].version
    BY <1>1, <2>1 DEF Tracking
  <2>3. e # None
    BY <2>2, DisplayAssumption DEF Tracking, Versions
  <2>4. tracked' = [tracked EXCEPT ![target] = e] /\ tracked \in [Proxies -> Tracking \cup {None}]
    BY <1>3 DEF ApplySkip, TypeInv, RendererOK
  <2>5. tracked'[target] = e /\ \A p \in Proxies \ {target} : tracked'[p] = tracked[p]
    BY <1>1, <2>4
  <2> HIDE DEF e
  <2> QED
    BY <1>1, <1>3, <2>2, <2>3, <2>5 DEF Carried
<1> QED
  BY <1>2, <1>3

LEMMA CarriedClear ==
  ASSUME NEW P, ClearProxies(P)
  PROVE  Carried' = [p \in Proxies |-> IF p \in P \cap Proxies THEN None ELSE Carried[p]]
<1>1. tracked' = [p \in Proxies |-> IF p \in P THEN None ELSE tracked[p]]
  BY DEF ClearProxies
<1> QED
  BY <1>1 DEF Carried

\* The state in hand may be put on an avatar.
LEMMA MayPut ==
  ASSUME TypeInv, OrderInv, pc = "render"
  PROVE  /\ target \in Proxies /\ task.conn \in Conns /\ snap \in 1..MaxVersion
         /\ snap <= sent[task.conn]
         /\ \A q \in Proxies :
              Carried[q] # None /\ Carried[q].from = task.conn => Carried[q].version <= snap
<1>1. target \in Proxies /\ task.conn \in Conns /\ snap \in 1..MaxVersion
  BY DEF TypeInv, ThreadOK, Versions
<1>2. snap <= recv[task.conn]
  BY DEF OrderInv, SnapNewest
<1>3. recv[task.conn] \in Nat /\ sent[task.conn] \in Nat /\ recv[task.conn] <= sent[task.conn]
  BY <1>1 DEF TypeInv, WorldOK, OrderInv, DeliveredWasSent
<1>4. snap <= sent[task.conn]
  BY <1>1, <1>2, <1>3
<1>5. ASSUME NEW q \in Proxies, Carried[q] # None, Carried[q].from = task.conn
      PROVE  Carried[q].version <= snap
  <2>1. tracked[q] # None /\ Carried[q] = [from |-> tracked[q].from, version |-> tracked[q].version]
    BY <1>5 DEF Carried
  <2>2. tracked[q].from = task.conn /\ Carried[q].version = tracked[q].version
    BY <1>5, <2>1
  <2> QED
    BY <2>1, <2>2 DEF OrderInv, SnapNewest
<1> QED
  BY <1>1, <1>4, <1>5

LEMMA AvatarsInit == Init => Avatars!Init
BY DEF Init, Avatars!Init, Carried

LEMMA AvatarsStep ==
  ASSUME TypeInv, OrderInv, [Next]_vars
  PROVE  [Avatars!Next]_<<sent, Carried>>
<1>1. CASE \E c \in Conns : RemoteChange(c)
  <2>1. PICK c \in Conns : RemoteChange(c)
    BY <1>1
  <2>2. Carried' = Carried
    BY <2>1 DEF RemoteChange, renderer, Carried
  <2> QED
    BY <2>1, <2>2 DEF RemoteChange, Avatars!Next, Avatars!Send
<1>2. CASE sent' = sent
  <2>1. CASE UNCHANGED renderer
    BY <1>2, <2>1 DEF renderer, Carried
  <2>2. ASSUME NEW P, ClearProxies(P) PROVE Avatars!Next
    <3>1. Avatars!Drop(P \cap Proxies)
      BY <1>2, <2>2, CarriedClear DEF Avatars!Drop
    <3>2. P \cap Proxies \in SUBSET Proxies
      OBVIOUS
    <3> QED
      BY <3>1, <3>2, Zenon DEF Avatars!Next
  <2>3. CASE pc = "render" /\ Apply(task.conn, target, snap, task.op # "apply")
    <3>1. CASE UNCHANGED renderer
      BY <3>1, <2>1
    <3>2. CASE ApplySkip(task.conn, target)
      BY <1>2, <2>3, <3>2, CarriedSkip
    <3>3. CASE ApplyRebuild(task.conn, target, snap)
      <4>1. Avatars!Put(target, task.conn, snap)
        BY <1>2, <2>3, <3>3, CarriedPut, MayPut DEF Avatars!Put, Avatars!State
      <4> QED
        BY <2>3, <4>1, MayPut, Zenon DEF Avatars!Next
    <3> QED
      BY <2>3, <3>1, <3>2, <3>3 DEF Apply
  <2> QED
    BY <2>1, <2>2, <2>3, RendererMoves
<1>3. CASE \E c \in Conns : DeliverChange(c) \/ DeliverHeartbeat(c)
  BY <1>2, <1>3 DEF DeliverChange, DeliverHeartbeat, OnMessage
<1> QED
  BY <1>1, <1>2, <1>3, SentMoves

\* Messages, mapping events and tasks, however they interleave, implement the
\* abstract picture: an avatar takes only states its sender has been in, and
\* none older than what any avatar carries of that sender.
THEOREM ReceiverImplementsAvatars == Spec => Implements
<1>1. Init => TypeInv /\ OrderInv /\ Avatars!Init
  BY TypeInit, OrderInit, AvatarsInit
<1>2. TypeInv /\ OrderInv /\ [Next]_vars
        => (TypeInv /\ OrderInv)' /\ [Avatars!Next]_<<sent, Carried>>
  BY TypeStep, OrderStep, AvatarsStep
<1> QED
  BY <1>1, <1>2, PTL DEF Spec, Implements, Avatars!Spec
=============================================================================
