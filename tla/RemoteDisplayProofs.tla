------------------------- MODULE RemoteDisplayProofs -------------------------
(***************************************************************************)
(* What RemoteDisplay guarantees for any number of players and proxies,    *)
(* any number of changes, and any way the threads interleave.              *)
(***************************************************************************)
EXTENDS RemoteDisplay, TLAPS

USE DisplayAssumption

-----------------------------------------------------------------------------
(* The two queues.                                                         *)

\* Appending to a queue keeps its entries and its type.
LEMMA AppendFact ==
  ASSUME NEW S, NEW s \in Seq(S), NEW e \in S
  PROVE  /\ Append(s, e) \in Seq(S)
         /\ Len(Append(s, e)) = Len(s) + 1
         /\ \A i \in 1..Len(s) : Append(s, e)[i] = s[i]
         /\ Append(s, e)[Len(s) + 1] = e
OBVIOUS

\* Every entry of a queue but its head is in its tail.
LEMMA TailFact ==
  ASSUME NEW S, NEW s \in Seq(S), s # <<>>
  PROVE  /\ Head(s) \in S
         /\ Head(s) = s[1]
         /\ Tail(s) \in Seq(S)
         /\ \A i \in 1..Len(s) : i = 1 \/ (i - 1 \in 1..Len(Tail(s)) /\ Tail(s)[i - 1] = s[i])
OBVIOUS

\* The entries of TaskSet that the actions build.
LEMMA TaskTyped ==
  ASSUME NEW op \in Ops, NEW c \in Conns \cup {None},
         NEW old \in Proxies \cup {None}, NEW new \in Proxies \cup {None}
  PROVE  /\ Task(op, c, old, new) \in TaskSet
         /\ Task(op, c, old, new).op = op
         /\ Task(op, c, old, new).conn = c
         /\ Task(op, c, old, new).old = old
         /\ Task(op, c, old, new).new = new
BY DEF Task, TaskSet
-----------------------------------------------------------------------------
(* Type correctness.                                                       *)

\* TypeOK by the part of the state it is about; it is inductive once the
\* events that carry a connection are known to.
WorldOK ==
  /\ sent \in [Conns -> 0..MaxVersion]
  /\ recv \in [Conns -> 0..MaxVersion]
  /\ localID \in Conns \cup {None}
  /\ mapping \in [Conns -> Proxies \cup {None}]
  /\ loaded \in [Proxies -> BOOLEAN]
  /\ churn \in 0..MaxChurn
  /\ life \in {"new", "running", "stopped"}

InboxOK == remoteStates \in [Conns -> 0..MaxVersion] /\ stored \in SUBSET Conns

Connected(t) == t \in TaskSet /\ (t.op \in {"cleared", "reset"} \/ t.conn \in Conns)
QueueOK(s) == s \in Seq(TaskSet) /\ \A i \in 1..Len(s) : Connected(s[i])

ThreadOK ==
  /\ pc \in {"idle", "snapshot", "resolve", "render", "erase", "forget", "preload"}
  /\ task \in TaskSet
  /\ pc \in {"snapshot", "resolve", "render", "erase"} => task.conn \in Conns
  /\ snap \in 0..MaxVersion
  /\ pc \in {"resolve", "render"} => snap \in Versions
  /\ target \in Proxies \cup {None}
  /\ pc = "render" => target \in Proxies

RendererOK ==
  /\ sig \in [Proxies -> Contents \cup {None}]
  /\ tracked \in [Proxies -> Tracking \cup {None}]
  /\ shown \in [Proxies -> Contents \cup {Bare, Mixed}]

TypeInv == WorldOK /\ InboxOK /\ QueueOK(events) /\ QueueOK(tasks) /\ ThreadOK /\ RendererOK

LEMMA TypeInvOK == TypeInv => TypeOK
BY DEF TypeInv, TypeOK, WorldOK, InboxOK, QueueOK, ThreadOK, RendererOK

\* A queue stays well formed when an entry is added or the head is taken.
LEMMA QueueAppend ==
  ASSUME NEW s, QueueOK(s), NEW e, Connected(e)
  PROVE  QueueOK(Append(s, e))
<1>1. s \in Seq(TaskSet) /\ e \in TaskSet
  BY DEF QueueOK, Connected
<1> QED
  BY <1>1, AppendFact DEF QueueOK

LEMMA QueueTail ==
  ASSUME NEW s, QueueOK(s), s # <<>>
  PROVE  QueueOK(Tail(s)) /\ Connected(Head(s))
<1>1. s \in Seq(TaskSet)
  BY DEF QueueOK
<1>2. \A i \in 1..Len(Tail(s)) : i + 1 \in 1..Len(s) /\ Tail(s)[i] = s[i + 1]
  BY <1>1
<1>3. Tail(s) \in Seq(TaskSet) /\ Head(s) = s[1] /\ 1 \in 1..Len(s)
  BY <1>1
<1> QED
  BY <1>2, <1>3 DEF QueueOK

\* Clearing proxies and applying a state keep the renderer's maps typed.
LEMMA ClearType ==
  ASSUME RendererOK, NEW P, ClearProxies(P)
  PROVE  RendererOK'
BY DEF RendererOK, ClearProxies

LEMMA ApplyType ==
  ASSUME RendererOK, NEW c \in Conns, NEW p \in Proxies, NEW v \in Versions,
         NEW force, Apply(c, p, v, force)
  PROVE  RendererOK'
<1> USE DEF RendererOK
<1>1. CASE UNCHANGED renderer
  BY <1>1 DEF renderer
<1>2. CASE ApplySkip(c, p)
  <2>1. tracked[p] # None => [tracked[p] EXCEPT !.conn = c] \in Tracking
    BY DEF Tracking
  <2> QED
    BY <1>2, <2>1 DEF ApplySkip
<1>3. CASE ApplyRebuild(c, p, v)
  <2>1. Content[v] \in Contents
    BY DEF Versions
  <2>2. [conn |-> c, from |-> c, version |-> v] \in Tracking
    BY DEF Tracking
  <2>3. \A s \in Dispatched(p, Content[v]) : s \in Contents \cup {Bare, Mixed}
    BY <2>1 DEF Dispatched
  <2> QED
    BY <1>3, <2>1, <2>2, <2>3 DEF ApplyRebuild
<1> QED
  BY <1>1, <1>2, <1>3 DEF Apply

\* Taking a task leaves the thread well formed wherever it goes to but the
\* two steps that need more than the task.
LEMMA TakeType ==
  ASSUME TypeInv, NEW ops, NEW l \in {"idle", "snapshot", "erase", "forget"},
         Take(ops, l), l \in {"snapshot", "erase"} => ops \cap {"cleared", "reset"} = {}
  PROVE  WorldOK' /\ InboxOK' /\ QueueOK(events)' /\ QueueOK(tasks)' /\ ThreadOK'
<1>1. QueueOK(Tail(tasks)) /\ Connected(Head(tasks))
  BY QueueTail DEF TypeInv, Take
<1>2. WorldOK' /\ InboxOK' /\ QueueOK(events)'
  BY DEF TypeInv, Take, WorldOK, InboxOK, QueueOK, remote, world, inbox
<1>3. QueueOK(tasks)'
  BY <1>1 DEF Take, QueueOK
<1>4. ThreadOK'
  BY <1>1 DEF TypeInv, Take, ThreadOK, Connected
<1> QED
  BY <1>2, <1>3, <1>4

LEMMA RemapType ==
  ASSUME TypeInv, NEW m \in [Conns -> Proxies \cup {None}], NEW e, Connected(e), Remap(m, e)
  PROVE  TypeInv'
<1>1. QueueOK(Append(events, e))
  BY QueueAppend DEF TypeInv
<1>2. WorldOK'
  BY DEF TypeInv, Remap, WorldOK, remote
<1> QED
  BY <1>1, <1>2 DEF TypeInv, Remap, InboxOK, QueueOK, ThreadOK, RendererOK, inbox, thread, renderer

LEMMA OnMessageType ==
  ASSUME TypeInv, NEW c \in Conns, NEW v \in 0..MaxVersion, OnMessage(c, v)
  PROVE  TypeInv'
<1>1. WorldOK'
  BY DEF TypeInv, OnMessage, WorldOK, world
<1>2. InboxOK'
  <2>1. CASE life = "running" /\ c # localID
    BY <2>1 DEF TypeInv, OnMessage, InboxOK
  <2>2. CASE ~(life = "running" /\ c # localID)
    BY <2>2 DEF TypeInv, OnMessage, InboxOK, inbox
  <2> QED
    BY <2>1, <2>2
<1>3. QueueOK(events)' /\ QueueOK(tasks)' /\ ThreadOK' /\ RendererOK'
  BY DEF TypeInv, OnMessage, QueueOK, ThreadOK, RendererOK, thread, renderer
<1> QED
  BY <1>1, <1>2, <1>3 DEF TypeInv

LEMMA TypeInit == Init => TypeInv
BY TaskTyped DEF Init, TypeInv, WorldOK, InboxOK, QueueOK, ThreadOK, RendererOK, Ops

LEMMA TypeStep == TypeInv /\ [Next]_vars => TypeInv'
<1> SUFFICES ASSUME TypeInv, [Next]_vars PROVE TypeInv'
  OBVIOUS
<1> USE DEF TypeInv
<1>1. CASE RunApply
  BY <1>1, TakeType DEF RunApply, RendererOK, renderer
<1>2. CASE RunUpdated
  BY <1>2, TakeType, ClearType DEF RunUpdated
<1>3. CASE RunRemoved
  BY <1>3, TakeType, ClearType DEF RunRemoved
<1>4. CASE RunCleared
  BY <1>4, TakeType, ClearType DEF RunCleared
<1>5. CASE RunReset
  BY <1>5, TakeType, ClearType DEF RunReset
<1>6. CASE RunStopped
  BY <1>6, TakeType DEF RunStopped, RendererOK, renderer
<1>7. CASE TakeSnapshot
  BY <1>7 DEF TakeSnapshot, EndTask, Goto, Versions, WorldOK, InboxOK, QueueOK, ThreadOK, RendererOK,
     remote, world, inbox, thread, renderer
<1>8. CASE Resolve
  BY <1>8 DEF Resolve, EndTask, Goto, WorldOK, InboxOK, QueueOK, ThreadOK, RendererOK,
     remote, world, inbox, thread, renderer
<1>9. CASE Render
  <2>1. RendererOK'
    BY <1>9, ApplyType DEF Render, ThreadOK
  <2> QED
    BY <1>9, <2>1 DEF Render, EndTask, Goto, WorldOK, InboxOK, QueueOK, ThreadOK,
                      remote, world, inbox
<1>10. CASE Forget
  <2>1. InboxOK'
    BY <1>10 DEF Forget, InboxOK
  <2> QED
    BY <1>10, <2>1 DEF Forget, EndTask, Goto, WorldOK, QueueOK, ThreadOK, RendererOK,
                       remote, world, renderer
<1>11. CASE QueueReset
  <2>1. QueueOK(Append(tasks, Task("reset", None, None, None)))
    BY QueueAppend, TaskTyped DEF Connected, Ops
  <2> QED
    BY <1>11, <2>1 DEF QueueReset, EndTask, Goto, WorldOK, InboxOK, QueueOK, ThreadOK, RendererOK,
       remote, world, inbox, thread, renderer
<1>12. CASE PreLoadGame
  BY <1>12 DEF PreLoadGame, Goto, WorldOK, InboxOK, QueueOK, ThreadOK, RendererOK,
     remote, world, inbox, thread, renderer
<1>13. CASE Start
  BY <1>13 DEF Start, WorldOK, InboxOK, QueueOK, ThreadOK, RendererOK,
     remote, world, inbox, thread, renderer
<1>14. CASE Stop
  BY <1>14 DEF Stop, WorldOK, InboxOK, QueueOK, ThreadOK, RendererOK,
     remote, world, inbox, thread, renderer
<1>15. CASE MappingCleared
  BY <1>15, RemapType, TaskTyped DEF MappingCleared, Connected, Ops
<1>16. CASE OnProxyMapping
  <2>1. QueueOK(Tail(events)) /\ Connected(Head(events))
    BY <1>16, QueueTail DEF OnProxyMapping
  <2>2. QueueOK(Append(tasks, Head(events)))
    BY <2>1, QueueAppend
  <2> QED
    BY <1>16, <2>1, <2>2 DEF OnProxyMapping, WorldOK, InboxOK, QueueOK, ThreadOK, RendererOK,
       remote, world, inbox, thread, renderer
<1>17. ASSUME NEW c \in Conns, RemoteChange(c) PROVE TypeInv'
  BY <1>17 DEF RemoteChange, WorldOK, InboxOK, QueueOK, ThreadOK, RendererOK,
     remote, world, inbox, thread, renderer
<1>18. ASSUME NEW c \in Conns, DeliverChange(c) PROVE TypeInv'
  <2>1. recv[c] + 1 \in 0..MaxVersion
    BY <1>18 DEF DeliverChange, WorldOK
  <2> QED
    BY <1>18, <2>1, OnMessageType DEF DeliverChange
<1>19. ASSUME NEW c \in Conns, DeliverHeartbeat(c) PROVE TypeInv'
  BY <1>19, OnMessageType DEF DeliverHeartbeat, WorldOK
<1>20. ASSUME NEW c \in Conns, QueueRemoteApply(c) PROVE TypeInv'
  <2>1. QueueOK(Append(tasks, Task("apply", c, None, None)))
    BY QueueAppend, TaskTyped DEF Connected, Ops
  <2> QED
    BY <1>20, <2>1 DEF QueueRemoteApply, WorldOK, InboxOK, QueueOK, ThreadOK, RendererOK,
       remote, world, inbox, thread, renderer
<1>21. ASSUME NEW c \in Conns, MappingRemoved(c) PROVE TypeInv'
  <2>1. [mapping EXCEPT ![c] = None] \in [Conns -> Proxies \cup {None}]
    BY DEF WorldOK
  <2>a. mapping[c] \in Proxies \cup {None} /\ c \in Conns \cup {None}
    BY DEF WorldOK
  <2>2. Connected(Task("removed", c, mapping[c], None))
    BY <2>a, TaskTyped DEF Connected, Ops
  <2> QED
    BY <1>21, <2>1, <2>2, RemapType DEF MappingRemoved
<1>22. ASSUME NEW c \in Conns, NEW p \in Proxies, MappingAdded(c, p) PROVE TypeInv'
  <2>1. [mapping EXCEPT ![c] = p] \in [Conns -> Proxies \cup {None}]
    BY DEF WorldOK
  <2>2. Connected(Task("added", c, None, p))
    BY TaskTyped DEF Connected, Ops, WorldOK
  <2> QED
    BY <1>22, <2>1, <2>2, RemapType DEF MappingAdded
<1>23. ASSUME NEW c \in Conns, NEW p \in Proxies, MappingUpdated(c, p) PROVE TypeInv'
  <2>1. [mapping EXCEPT ![c] = p] \in [Conns -> Proxies \cup {None}]
    BY DEF WorldOK
  <2>a. mapping[c] \in Proxies \cup {None} /\ c \in Conns \cup {None}
    BY DEF WorldOK
  <2>2. Connected(Task("updated", c, mapping[c], p))
    BY <2>a, TaskTyped DEF Connected, Ops
  <2> QED
    BY <1>23, <2>1, <2>2, RemapType DEF MappingUpdated
<1>24. ASSUME NEW p \in Proxies, ActorLoad(p) PROVE TypeInv'
  BY <1>24 DEF ActorLoad, WorldOK, InboxOK, QueueOK, ThreadOK, RendererOK,
     remote, world, inbox, thread, renderer
<1>26. ASSUME NEW c \in Conns, Reconnect(c) PROVE TypeInv'
  BY <1>26 DEF Reconnect, WorldOK, InboxOK, QueueOK, ThreadOK, RendererOK,
     inbox, thread, renderer
<1>27. CASE OwnSend
  BY <1>27 DEF OwnSend, WorldOK, InboxOK, QueueOK, ThreadOK, RendererOK,
     world, inbox, thread, renderer
<1>25. CASE UNCHANGED vars
  BY <1>25 DEF vars, WorldOK, InboxOK, QueueOK, ThreadOK, RendererOK,
     remote, world, inbox, thread, renderer
<1> QED
  BY <1>1, <1>2, <1>3, <1>4, <1>5, <1>6, <1>7, <1>8, <1>9, <1>10, <1>11, <1>12,
     <1>13, <1>14, <1>15, <1>16, <1>17, <1>18, <1>19, <1>20, <1>21, <1>22, <1>23, <1>24, <1>25, <1>26,
     <1>27 DEF Next, GameStep, RunTask

\* Every state the receiving side can be in is well typed, for any number of
\* players, proxies, versions and changes of the mapping.
THEOREM TypeCorrect == Spec => []TypeOK
<1>1. Spec => []TypeInv
  BY TypeInit, TypeStep, PTL DEF Spec
<1> QED
  BY <1>1, TypeInvOK, PTL

-----------------------------------------------------------------------------
(* The cached signatures.  Only ClearProxies and Apply touch the renderer. *)

\* What a step can do to the renderer.
LEMMA RendererMoves ==
  ASSUME [Next]_vars
  PROVE  \/ UNCHANGED renderer
         \/ \E P : ClearProxies(P)
         \/ pc = "render" /\ Apply(task.conn, target, snap, task.op # "apply")
<1>1. CASE RunTask
  BY <1>1 DEF RunTask, RunApply, RunUpdated, RunRemoved, RunCleared, RunReset, RunStopped
<1>2. CASE TakeSnapshot \/ Resolve \/ Render \/ Forget \/ QueueReset
  BY <1>2 DEF TakeSnapshot, Resolve, Render, Forget, QueueReset
<1>3. CASE PreLoadGame \/ Start \/ Stop \/ OnProxyMapping \/ OwnSend
  BY <1>3 DEF PreLoadGame, Start, Stop, OnProxyMapping, OwnSend
<1>4. ASSUME NEW m, NEW e, Remap(m, e) PROVE UNCHANGED renderer
  BY <1>4 DEF Remap
<1>5. ASSUME NEW c \in Conns,
             \/ RemoteChange(c) \/ DeliverChange(c) \/ DeliverHeartbeat(c)
             \/ QueueRemoteApply(c) \/ Reconnect(c)
      PROVE  UNCHANGED renderer
  BY <1>5 DEF RemoteChange, DeliverChange, DeliverHeartbeat, OnMessage, QueueRemoteApply, Reconnect
<1>6. ASSUME NEW p \in Proxies, ActorLoad(p) PROVE UNCHANGED renderer
  BY <1>6 DEF ActorLoad
<1>7. CASE UNCHANGED vars
  BY <1>7 DEF vars
<1> QED
  BY <1>1, <1>2, <1>3, <1>4, <1>5, <1>6, <1>7
  DEF Next, GameStep, MappingCleared, MappingRemoved, MappingAdded, MappingUpdated

LEMMA ClearFaithful ==
  ASSUME TypeInv, SignatureFaithful, NEW P, ClearProxies(P)
  PROVE  SignatureFaithful'
BY DEF TypeInv, RendererOK, SignatureFaithful, ClearProxies

LEMMA ApplyFaithful ==
  ASSUME TypeInv, SignatureFaithful, ~DispatchMayFail,
         NEW c \in Conns, NEW p \in Proxies, NEW v \in Versions, NEW force,
         Apply(c, p, v, force)
  PROVE  SignatureFaithful'
<1>1. CASE UNCHANGED renderer
  BY <1>1 DEF SignatureFaithful, renderer
<1>2. CASE ApplySkip(c, p)
  <2>1. \A q \in Proxies : tracked[q] # None =>
          tracked'[q] # None /\ tracked'[q].version = tracked[q].version
    <3> SUFFICES ASSUME NEW q \in Proxies, tracked[q] # None
                 PROVE  tracked'[q] # None /\ tracked'[q].version = tracked[q].version
      OBVIOUS
    <3>1. tracked[q] \in Tracking
      BY DEF TypeInv, RendererOK
    <3>2. [tracked[q] EXCEPT !.conn = c] \in Tracking
          /\ [tracked[q] EXCEPT !.conn = c].version = tracked[q].version
      BY <3>1 DEF Tracking
    <3>3. tracked'[q] \in {tracked[q], [tracked[q] EXCEPT !.conn = c]}
      <4>1. CASE tracked[p] = None
        BY <4>1, <1>2 DEF ApplySkip
      <4>2. CASE tracked[p] # None
        BY <4>2, <1>2 DEF ApplySkip, TypeInv, RendererOK
      <4> QED
        BY <4>1, <4>2
    <3>4. None \notin Tracking
      BY DEF Tracking, Versions
    <3> QED
      BY <3>1, <3>2, <3>3, <3>4
  <2> QED
    BY <1>2, <2>1 DEF ApplySkip, SignatureFaithful
<1>3. CASE ApplyRebuild(c, p, v)
  <2>1. tracked' = [tracked EXCEPT ![p] = [conn |-> c, from |-> c, version |-> v]]
        /\ shown' = [shown EXCEPT ![p] = Content[v]]
        /\ sig' = [sig EXCEPT ![p] = Content[v]]
    BY <1>3 DEF ApplyRebuild
  <2>2. tracked'[p] # None
    <3>1. tracked'[p] = [conn |-> c, from |-> c, version |-> v] /\ sig'[p] = Content[v]
      BY <2>1 DEF TypeInv, RendererOK
    <3>2. [conn |-> c, from |-> c, version |-> v] \in Tracking
      BY DEF Tracking
    <3> QED
      BY <3>1, <3>2 DEF Tracking, Versions
  <2> QED
    BY <2>1, <2>2 DEF SignatureFaithful, TypeInv, RendererOK
<1> QED
  BY <1>1, <1>2, <1>3 DEF Apply

LEMMA FaithfulStep ==
  ASSUME ~DispatchMayFail, TypeInv, SignatureFaithful, [Next]_vars
  PROVE  SignatureFaithful'
<1>1. CASE UNCHANGED renderer
  BY <1>1 DEF SignatureFaithful, renderer
<1>2. CASE \E P : ClearProxies(P)
  BY <1>2, ClearFaithful
<1>3. CASE pc = "render" /\ Apply(task.conn, target, snap, task.op # "apply")
  BY <1>3, ApplyFaithful DEF TypeInv, ThreadOK
<1> QED
  BY <1>1, <1>2, <1>3, RendererMoves

\* While the VM takes every call, the signature that lets Apply skip a rebuild
\* is always what the avatar shows and what the watchdog maintains on it.
THEOREM SkippingIsSound ==
  ASSUME ~DispatchMayFail
  PROVE  Spec => []SignatureFaithful
<1>1. Init => SignatureFaithful
  BY DEF Init, SignatureFaithful
<1>2. TypeInv /\ SignatureFaithful /\ [Next]_vars => SignatureFaithful'
  BY FaithfulStep
<1> QED
  BY <1>1, <1>2, TypeInit, TypeStep, PTL DEF Spec

-----------------------------------------------------------------------------
(* The right avatar.  The step that renders works on a proxy resolved two  *)
(* critical sections earlier, so the invariant covers it as well: either   *)
(* the mapping still holds or the event that clears the proxy is coming.   *)

Owned(p, c) == mapping[c] = p \/ Clearing(p)

AvatarInv ==
  /\ life = "new" => pc \in {"idle", "preload"} /\ \A p \in Proxies : tracked[p] = None
  /\ pc \notin {"idle", "preload"} => life = "running"
  /\ pc = "render" => Owned(target, task.conn)
  /\ RightAvatar

\* A proxy stays owned while its clearing is only passed on.
LEMMA ClearingAppend ==
  ASSUME TypeInv, NEW p, Clearing(p), NEW e,
         \/ events' = Append(events, e) /\ tasks' = tasks
         \/ tasks' = Append(tasks, e) /\ events' = events
  PROVE  Clearing(p)'
BY AppendFact DEF TypeInv, QueueOK, Clearing

LEMMA ClearingForward ==
  ASSUME TypeInv, NEW p, Clearing(p), events # <<>>,
         events' = Tail(events), tasks' = Append(tasks, Head(events))
  PROVE  Clearing(p)'
<1> USE DEF TypeInv, QueueOK
<1>1. CASE \E i \in 1..Len(events) : Clears(events[i], p)
  <2>1. PICK i \in 1..Len(events) : Clears(events[i], p)
    BY <1>1
  <2>2. CASE i = 1
    <3>1. tasks'[Len(tasks) + 1] = events[1] /\ Len(tasks) + 1 \in 1..Len(tasks')
      BY TailFact, AppendFact
    <3> QED
      BY <2>1, <2>2, <3>1 DEF Clearing
  <2>3. CASE i # 1
    BY <2>1, <2>3, TailFact DEF Clearing
  <2> QED
    BY <2>2, <2>3
<1>2. CASE \E i \in 1..Len(tasks) : Clears(tasks[i], p)
  <2>1. PICK i \in 1..Len(tasks) : Clears(tasks[i], p)
    BY <1>2
  <2>2. tasks'[i] = tasks[i] /\ i \in 1..Len(tasks')
    BY AppendFact, TailFact
  <2> QED
    BY <2>1, <2>2 DEF Clearing
<1> QED
  BY <1>1, <1>2 DEF Clearing

\* Taking a task that does not clear p leaves the clearing of p in place.
LEMMA ClearingTake ==
  ASSUME TypeInv, NEW p, Clearing(p), tasks # <<>>, ~Clears(Head(tasks), p),
         events' = events, tasks' = Tail(tasks)
  PROVE  Clearing(p)'
BY TailFact DEF TypeInv, QueueOK, Clearing

\* A change of the mapping reports the clearing of every proxy it takes away.
LEMMA RemapOwned ==
  ASSUME TypeInv, AvatarInv, NEW m \in [Conns -> Proxies \cup {None}], NEW e \in TaskSet,
         Remap(m, e),
         \A c \in Conns, p \in Proxies : mapping[c] = p /\ m[c] # p => Clears(e, p)
  PROVE  AvatarInv'
<1>1. ASSUME NEW p \in Proxies, NEW c \in Conns, Owned(p, c) PROVE Owned(p, c)'
  <2>1. CASE Clearing(p)
    BY <2>1, ClearingAppend DEF Remap, Owned
  <2>2. CASE mapping[c] = p /\ Clears(e, p)
    <3>1. events' = Append(events, e) /\ events \in Seq(TaskSet)
      BY DEF Remap, TypeInv, QueueOK
    <3>2. events'[Len(events) + 1] = e /\ Len(events) + 1 \in 1..Len(events')
      BY <3>1
    <3> QED
      BY <2>2, <3>2 DEF Owned, Clearing
  <2>3. CASE mapping[c] = p /\ m[c] = p
    BY <2>3 DEF Remap, Owned
  <2> QED
    BY <1>1, <2>1, <2>2, <2>3 DEF Owned
<1>2. \A p \in Proxies : tracked[p] # None => tracked[p].conn \in Conns
  BY DEF TypeInv, RendererOK, Tracking
<1>3. UNCHANGED <<life, pc, task, target, tracked>>
  BY DEF Remap, thread, renderer
<1>4. RightAvatar'
  BY <1>1, <1>2, <1>3 DEF AvatarInv, RightAvatar, Owned
<1>5. pc = "render" => Owned(target, task.conn)'
  BY <1>1, <1>3 DEF AvatarInv, TypeInv, ThreadOK
<1> QED
  BY <1>3, <1>4, <1>5 DEF AvatarInv, Owned

\* A step that keeps the mapping, who is rendered where, and every clearing.
LEMMA FrameOwned ==
  ASSUME TypeInv, AvatarInv, UNCHANGED <<life, mapping, tracked>>,
         \A p \in Proxies : Clearing(p) => Clearing(p)',
         \/ UNCHANGED <<pc, task, target>>
         \/ pc' = "resolve" /\ life = "running"
         \/ pc' \in {"idle", "preload"}
  PROVE  AvatarInv'
<1>1. RightAvatar'
  BY DEF AvatarInv, RightAvatar
<1>2. pc' = "render" => Owned(target, task.conn)'
  BY DEF AvatarInv, Owned, TypeInv, ThreadOK
<1> QED
  BY <1>1, <1>2 DEF AvatarInv

\* After a task that clears all it finds, nothing is maintained anywhere.
LEMMA TakeOwned ==
  ASSUME TypeInv, AvatarInv, NEW ops, NEW l \in {"idle", "snapshot", "erase", "forget"},
         Take(ops, l), life = "running" \/ l = "idle",
         \A p \in Proxies : tracked'[p] # None => tracked'[p] = tracked[p],
         life = "running" =>
           \A p \in Proxies : Clears(Head(tasks), p) => tracked'[p] = None
  PROVE  AvatarInv'
<1>1. \A p \in Proxies : Clearing(p) /\ ~Clears(Head(tasks), p) => Clearing(p)'
  BY ClearingTake DEF Take
<1>2. UNCHANGED <<mapping, life>> /\ tasks # <<>> /\ pc' = l
  BY DEF Take, world
<1>3. RightAvatar'
  <2> SUFFICES ASSUME life = "running", NEW p \in Proxies, tracked'[p] # None
               PROVE  mapping[tracked[p].conn] = p \/ Clearing(p)'
    BY <1>2 DEF RightAvatar
  <2> QED
    BY <1>1 DEF AvatarInv, RightAvatar
<1>4. life = "new" => l = "idle" /\ \A p \in Proxies : tracked'[p] = None
  BY DEF AvatarInv
<1> QED
  BY <1>2, <1>3, <1>4 DEF AvatarInv

LEMMA ClearOwned ==
  ASSUME TypeInv, NEW P, ClearProxies(P)
  PROVE  \A p \in Proxies : IF p \in P THEN tracked'[p] = None ELSE tracked'[p] = tracked[p]
BY DEF ClearProxies

\* Rendering makes the proxy the task's own, which is where it belongs.
LEMMA RenderOwned ==
  ASSUME TypeInv, AvatarInv, Render
  PROVE  AvatarInv'
<1>1. UNCHANGED <<life, mapping, events, tasks>> /\ pc = "render" /\ pc' = "idle"
      /\ task.conn \in Conns /\ target \in Proxies /\ snap \in Versions /\ life = "running"
  BY DEF Render, EndTask, Goto, world, TypeInv, ThreadOK, AvatarInv
<1>2. \A p \in Proxies : Owned(p, task.conn) => (Owned(p, task.conn))'
  BY <1>1 DEF Render, EndTask, Goto, Owned, Clearing
<1>3. \A p \in Proxies : tracked'[p] = tracked[p] \/ (p = target /\ tracked'[p].conn = task.conn)
  <2>1. CASE UNCHANGED renderer
    BY <2>1 DEF renderer
  <2>2. CASE ApplySkip(task.conn, target)
    <3>1. CASE tracked[target] = None
      BY <2>2, <3>1 DEF ApplySkip
    <3>2. CASE tracked[target] # None
      <4>1. tracked[target] \in Tracking
        BY <3>2, <1>1 DEF TypeInv, RendererOK
      <4>2. [tracked[target] EXCEPT !.conn = task.conn].conn = task.conn
        BY <4>1 DEF Tracking
      <4>3. tracked' = [tracked EXCEPT ![target] = [tracked[target] EXCEPT !.conn = task.conn]]
        BY <2>2, <3>2, <1>1 DEF ApplySkip, TypeInv, RendererOK
      <4> QED
        BY <4>2, <4>3, <1>1 DEF TypeInv, RendererOK
    <3> QED
      BY <3>1, <3>2
  <2>3. CASE ApplyRebuild(task.conn, target, snap)
    BY <2>3, <1>1 DEF ApplyRebuild, TypeInv, RendererOK
  <2> QED
    BY <2>1, <2>2, <2>3 DEF Render, Apply
<1>4. RightAvatar'
  <2> SUFFICES ASSUME NEW p \in Proxies, tracked'[p] # None
               PROVE  mapping[tracked'[p].conn] = p \/ Clearing(p)
    BY <1>1 DEF RightAvatar, Clearing
  <2>1. CASE tracked'[p] = tracked[p]
    BY <2>1, <1>1 DEF AvatarInv, RightAvatar
  <2>2. CASE p = target /\ tracked'[p].conn = task.conn
    BY <2>2, <1>1 DEF AvatarInv, Owned
  <2> QED
    BY <2>1, <2>2, <1>3
<1> QED
  BY <1>1, <1>4 DEF AvatarInv

LEMMA AvatarStep ==
  ASSUME TypeInv, AvatarInv, [Next]_vars
  PROVE  AvatarInv'
<1>1. CASE RunApply
  <2>1. tasks # <<>> /\ Head(tasks).op \in {"apply", "added"}
    BY <1>1 DEF RunApply, Take
  <2>2. \A p \in Proxies : ~Clears(Head(tasks), p)
    BY <2>1 DEF Clears
  <2> QED
    BY <1>1, <2>2, TakeOwned DEF RunApply, renderer
<1>2. CASE RunUpdated
  <2>1. tasks # <<>> /\ Head(tasks).op = "updated"
    BY <1>2 DEF RunUpdated, Take
  <2>2. \A p \in Proxies : Clears(Head(tasks), p) =>
          p \in IF Head(tasks).old # Head(tasks).new THEN {Head(tasks).old} ELSE {}
    BY <2>1 DEF Clears
  <2> QED
    BY <1>2, <2>2, TakeOwned, ClearOwned DEF RunUpdated
<1>3. CASE RunRemoved
  <2>1. tasks # <<>> /\ Head(tasks).op = "removed"
    BY <1>3 DEF RunRemoved, Take
  <2>2. \A p \in Proxies : Clears(Head(tasks), p) => p \in {Head(tasks).old}
    BY <2>1 DEF Clears
  <2> QED
    BY <1>3, <2>2, TakeOwned, ClearOwned DEF RunRemoved
<1>4. CASE RunCleared
  <2>1. \A p \in Proxies : tracked'[p] = None
    BY <1>4, ClearOwned DEF RunCleared, KnownProxies
  <2> QED
    BY <1>4, <2>1, TakeOwned DEF RunCleared
<1>5. CASE RunReset
  <2>1. \A p \in Proxies : tracked'[p] = None
    BY <1>5, ClearOwned DEF RunReset, KnownProxies
  <2> QED
    BY <1>5, <2>1, TakeOwned DEF RunReset
<1>6. CASE RunStopped
  BY <1>6, TakeOwned DEF RunStopped, renderer
<1>7. CASE TakeSnapshot
  BY <1>7, FrameOwned DEF TakeSnapshot, EndTask, Goto, world, renderer, Clearing, AvatarInv
<1>8. CASE Resolve
  <2>1. UNCHANGED <<life, mapping, tracked, events, tasks, task>> /\ life = "running"
    BY <1>8 DEF Resolve, EndTask, Goto, world, renderer, AvatarInv
  <2>2. RightAvatar' /\ (pc' = "render" => mapping[task.conn] = target')
    BY <1>8, <2>1 DEF Resolve, EndTask, Goto, AvatarInv, RightAvatar, Clearing
  <2> QED
    BY <2>1, <2>2 DEF AvatarInv, Owned
<1>9. CASE Render
  BY <1>9, RenderOwned
<1>10. CASE Forget
  BY <1>10, FrameOwned DEF Forget, EndTask, Goto, world, renderer, Clearing
<1>11. CASE QueueReset
  BY <1>11, FrameOwned, ClearingAppend DEF QueueReset, EndTask, Goto, world, renderer
<1>12. CASE PreLoadGame
  BY <1>12, FrameOwned DEF PreLoadGame, Goto, renderer, Clearing
<1>13. CASE Start
  BY <1>13 DEF Start, AvatarInv, RightAvatar, thread, renderer
<1>14. CASE Stop
  BY <1>14 DEF Stop, AvatarInv, RightAvatar, thread, renderer
<1>15. CASE MappingCleared
  <2>1. Task("cleared", None, None, None).op = "cleared"
        /\ Task("cleared", None, None, None) \in TaskSet
    BY TaskTyped DEF Ops
  <2>2. \A p \in Proxies : Clears(Task("cleared", None, None, None), p)
    BY <2>1 DEF Clears
  <2> QED
    BY <1>15, <2>1, <2>2, RemapOwned DEF MappingCleared
<1>16. CASE OnProxyMapping
  <2>1. CASE life = "running"
    BY <1>16, <2>1, FrameOwned, ClearingForward DEF OnProxyMapping, world, thread, renderer
  <2>2. CASE life # "running"
    BY <1>16, <2>2 DEF OnProxyMapping, AvatarInv, RightAvatar, thread, renderer
  <2> QED
    BY <2>1, <2>2
<1>17. ASSUME NEW c \in Conns, RemoteChange(c) \/ DeliverChange(c) \/ DeliverHeartbeat(c)
      PROVE  AvatarInv'
  BY <1>17, FrameOwned DEF RemoteChange, DeliverChange, DeliverHeartbeat, OnMessage, world, thread,
                           renderer, Clearing
<1>18. ASSUME NEW c \in Conns, QueueRemoteApply(c) PROVE AvatarInv'
  BY <1>18, FrameOwned, ClearingAppend DEF QueueRemoteApply, world, thread, renderer
<1>19. ASSUME NEW c \in Conns, MappingRemoved(c) PROVE AvatarInv'
  <2> DEFINE e == Task("removed", c, mapping[c], None)
         m == [mapping EXCEPT ![c] = None]
  <2>1. m \in [Conns -> Proxies \cup {None}] /\ mapping[c] \in Proxies \cup {None}
    BY DEF TypeInv, WorldOK
  <2>2. e \in TaskSet /\ e.op = "removed" /\ e.old = mapping[c] /\ e.new = None
    BY <2>1, TaskTyped DEF Ops
  <2>3. \A d \in Conns, q \in Proxies : mapping[d] = q /\ m[d] # q => Clears(e, q)
    BY <1>19, <2>1, <2>2 DEF MappingRemoved, Unmapped, Clears, TypeInv, WorldOK
  <2> QED
    BY <1>19, <2>1, <2>2, <2>3, RemapOwned DEF MappingRemoved
<1>20. ASSUME NEW c \in Conns, NEW p \in Proxies, MappingAdded(c, p) PROVE AvatarInv'
  <2> DEFINE e == Task("added", c, None, p)
         m == [mapping EXCEPT ![c] = p]
  <2>1. m \in [Conns -> Proxies \cup {None}] /\ mapping[c] \in Proxies \cup {None}
    BY DEF TypeInv, WorldOK
  <2>2. e \in TaskSet /\ e.op = "added" /\ e.old = None /\ e.new = p
    BY <2>1, TaskTyped DEF Ops
  <2>3. \A d \in Conns, q \in Proxies : mapping[d] = q /\ m[d] # q => Clears(e, q)
    BY <1>20, <2>1, <2>2 DEF MappingAdded, Unmapped, Clears, TypeInv, WorldOK
  <2> QED
    BY <1>20, <2>1, <2>2, <2>3, RemapOwned DEF MappingAdded
<1>21. ASSUME NEW c \in Conns, NEW p \in Proxies, MappingUpdated(c, p) PROVE AvatarInv'
  <2> DEFINE e == Task("updated", c, mapping[c], p)
         m == [mapping EXCEPT ![c] = p]
  <2>1. m \in [Conns -> Proxies \cup {None}] /\ mapping[c] \in Proxies \cup {None}
    BY DEF TypeInv, WorldOK
  <2>2. e \in TaskSet /\ e.op = "updated" /\ e.old = mapping[c] /\ e.new = p
    BY <2>1, TaskTyped DEF Ops
  <2>3. \A d \in Conns, q \in Proxies : mapping[d] = q /\ m[d] # q => Clears(e, q)
    BY <1>21, <2>1, <2>2 DEF MappingUpdated, Unmapped, Clears, TypeInv, WorldOK
  <2> QED
    BY <1>21, <2>1, <2>2, <2>3, RemapOwned DEF MappingUpdated
<1>22. ASSUME NEW p \in Proxies, ActorLoad(p) PROVE AvatarInv'
  BY <1>22, FrameOwned DEF ActorLoad, thread, renderer, Clearing
<1>24. ASSUME NEW c \in Conns, Reconnect(c) PROVE AvatarInv'
  BY <1>24, FrameOwned DEF Reconnect, thread, renderer, Clearing
<1>25. CASE OwnSend
  BY <1>25, FrameOwned DEF OwnSend, world, thread, renderer, Clearing
<1>23. CASE UNCHANGED vars
  BY <1>23, FrameOwned DEF vars, world, thread, renderer, Clearing
<1> QED
  BY <1>1, <1>2, <1>3, <1>4, <1>5, <1>6, <1>7, <1>8, <1>9, <1>10, <1>11, <1>12,
     <1>13, <1>14, <1>15, <1>16, <1>17, <1>18, <1>19, <1>20, <1>21, <1>22, <1>23, <1>24, <1>25
  DEF Next, GameStep, RunTask

\* However mapping events, messages and tasks interleave, what we maintain on
\* an avatar belongs to the player it stands for, or its clearing is coming.
THEOREM AvatarsAreRight == Spec => []RightAvatar
<1>1. Init => AvatarInv
  BY DEF Init, AvatarInv, RightAvatar
<1>2. TypeInv /\ AvatarInv /\ [Next]_vars => AvatarInv'
  BY AvatarStep
<1>3. AvatarInv => RightAvatar
  BY DEF AvatarInv
<1> QED
  BY <1>1, <1>2, <1>3, TypeInit, TypeStep, PTL DEF Spec
=============================================================================
