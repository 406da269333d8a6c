---------------------------- MODULE RemoteDisplay ----------------------------
(***************************************************************************)
(* The receiving side of the plugin: STRPMAdapter stores the last state of *)
(* every connection, asks the STRPM ProxyResolver which actor stands for   *)
(* that connection, and has RemoteIEDRenderer put the state on the actor.  *)
(*                                                                         *)
(* STRPM's threads run OnMessage and OnProxyMapping, which store and       *)
(* enqueue; everything else is a task of the SKSE queue, which the game    *)
(* thread runs one at a time, in order.  A handler is split here wherever  *)
(* another thread can get between two of its critical sections.            *)
(***************************************************************************)
EXTENDS Naturals, Sequences

CONSTANTS
  Conns,            \* ConnectionIDs of the remote players
  Proxies,          \* FormIDs of the actors that may stand for them
  Contents,         \* what a full state shows, as its signature tells it apart
  Content,          \* Content[v]: what version v of a sender's state shows
  MaxVersion,       \* bound: changes one sender publishes
  MaxChurn,         \* bound: mapping changes, actor (un)loads and game loads
  DispatchMayFail,  \* whether the Papyrus VM may refuse a call
  None,             \* no proxy, no signature, nothing tracked
  Bare, Mixed       \* a proxy without our items; one with part of them

ASSUME DisplayAssumption ==
  /\ MaxVersion \in Nat /\ MaxChurn \in Nat
  /\ Content \in [1..MaxVersion -> Contents]
  /\ DispatchMayFail \in BOOLEAN
  /\ None \notin Conns \cup Proxies \cup Contents
  /\ None \notin [conn : Conns, from : Conns, version : 1..MaxVersion]
  /\ {Bare, Mixed} \cap Contents = {}

VARIABLES
  sent,          \* version each remote player last sent
  recv,          \* version of the last message delivered from each of them
  localID,       \* _localConnectionID while it is an old one of ours that a
                 \* remote player has now, else None
  mapping,       \* the resolver's current proxy of each connection
  events,        \* mapping changes the resolver has yet to report, in order
  loaded,        \* whether LookupByID finds the proxy (and there is a VM)
  churn,         \* environment changes so far
  life,          \* "new", then "running" (_running), then "stopped"
  remoteStates,  \* _remoteStates: version stored per connection, 0 if absent
  stored,        \* connections whose OnMessage is before its QueueRemoteApply
  tasks,         \* the SKSE game-task queue
  pc, task,      \* where the game thread is, and the task it is running
  snap, target,  \* the task's copy of the snapshot, and the resolved proxy
  sig,           \* _appliedSignatures
  tracked,       \* _trackedProxies
  shown          \* what IED holds under our plugin key on each proxy

remote == <<sent, recv, localID>>
world == <<mapping, loaded, churn>>
inbox == <<remoteStates, stored>>
thread == <<pc, task, snap, target>>
renderer == <<sig, tracked, shown>>
vars == <<remote, world, events, life, inbox, tasks, thread, renderer>>

Versions == 1..MaxVersion
Ops == {"apply", "added", "updated", "removed", "cleared", "reset"}
Task(op, c, old, new) == [op |-> op, conn |-> c, old |-> old, new |-> new]
TaskSet == [op : Ops, conn : Conns \cup {None},
            old : Proxies \cup {None}, new : Proxies \cup {None}]
\* The connection an entry is kept for, and the state its objects come from.
Tracking == [conn : Conns, from : Conns, version : Versions]

TypeOK ==
  /\ sent \in [Conns -> 0..MaxVersion]
  /\ recv \in [Conns -> 0..MaxVersion]
  /\ localID \in Conns \cup {None}
  /\ mapping \in [Conns -> Proxies \cup {None}]
  /\ events \in Seq(TaskSet)
  /\ loaded \in [Proxies -> BOOLEAN]
  /\ churn \in 0..MaxChurn
  /\ life \in {"new", "running", "stopped"}
  /\ remoteStates \in [Conns -> 0..MaxVersion]
  /\ stored \in SUBSET Conns
  /\ tasks \in Seq(TaskSet)
  /\ pc \in {"idle", "snapshot", "resolve", "render", "erase", "forget", "preload"}
  /\ task \in TaskSet
  /\ pc \in {"snapshot", "resolve", "render", "erase"} => task.conn \in Conns
  /\ snap \in 0..MaxVersion
  /\ pc \in {"resolve", "render"} => snap \in Versions
  /\ target \in Proxies \cup {None}
  /\ pc = "render" => target \in Proxies
  /\ sig \in [Proxies -> Contents \cup {None}]
  /\ tracked \in [Proxies -> Tracking \cup {None}]
  /\ shown \in [Proxies -> Contents \cup {Bare, Mixed}]

Init ==
  /\ sent = [c \in Conns |-> 0]
  /\ recv = [c \in Conns |-> 0]
  /\ localID = None
  /\ mapping = [c \in Conns |-> None]
  /\ events = <<>>
  /\ loaded = [p \in Proxies |-> TRUE]
  /\ churn = 0
  /\ life = "new"
  /\ remoteStates = [c \in Conns |-> 0]
  /\ stored = {}
  /\ tasks = <<>>
  /\ pc = "idle" /\ task = Task("reset", None, None, None)
  /\ snap = 0 /\ target = None
  /\ sig = [p \in Proxies |-> None]
  /\ tracked = [p \in Proxies |-> None]
  /\ shown = [p \in Proxies |-> Bare]

-----------------------------------------------------------------------------
(* The remote players and STRPM's threads.                                 *)

\* A remote player's equipment changes and its client sends the new state.
RemoteChange(c) ==
  /\ sent[c] < MaxVersion
  /\ sent' = [sent EXCEPT ![c] = @ + 1]
  /\ UNCHANGED <<recv, localID, world, events, life, inbox, tasks, thread, renderer>>

\* After a reconnect we bear another id, and a player new to the session has
\* our former one, which STRPMAdapter still takes for its own.
Reconnect(c) ==
  /\ churn < MaxChurn /\ churn' = churn + 1
  /\ sent[c] = 0 /\ mapping[c] = None
  /\ localID' = c
  /\ UNCHANGED <<sent, recv, mapping, loaded, events, life, inbox, tasks, thread, renderer>>

\* TrySend of our own state, every heartbeat at the latest, asks for our id.
OwnSend ==
  /\ localID # None /\ localID' = None
  /\ UNCHANGED <<sent, recv, world, events, life, inbox, tasks, thread, renderer>>

\* OnMessage, up to the end of its critical section; what seems to come from
\* ourselves is dropped.  (No sender's state is malformed: see DisplayState.)
OnMessage(c, v) ==
  /\ c \notin stored
  /\ recv' = [recv EXCEPT ![c] = v]
  /\ IF life = "running" /\ c # localID
       THEN remoteStates' = [remoteStates EXCEPT ![c] = v] /\ stored' = stored \cup {c}
       ELSE UNCHANGED inbox
  /\ UNCHANGED <<sent, localID, world, events, life, tasks, thread, renderer>>

\* The rest of OnMessage: an unforced apply.
QueueRemoteApply(c) ==
  /\ c \in stored
  /\ stored' = stored \ {c}
  /\ tasks' = Append(tasks, Task("apply", c, None, None))
  /\ UNCHANGED <<remote, world, events, life, remoteStates, thread, renderer>>

\* Mutant: the message was sent without kMessageOrdered.
DeliverUnordered(c) ==
  /\ \A i \in 1..Len(tasks) : ~(tasks[i].op = "apply" /\ tasks[i].conn = c)
  /\ \E v \in 1..sent[c] : OnMessage(c, v)

\* The channel is reliable and ordered: the next version arrives next.
DeliverChange(c) == recv[c] < sent[c] /\ OnMessage(c, recv[c] + 1)

\* The sender's heartbeat.  It comes once in 10 s, the queue is emptied every
\* frame: the previous message of the same sender is never still in the queue.
DeliverHeartbeat(c) ==
  /\ recv[c] = sent[c] /\ sent[c] > 0
  /\ \A i \in 1..Len(tasks) : ~(tasks[i].op = "apply" /\ tasks[i].conn = c)
  /\ OnMessage(c, recv[c])

\* The resolver changes its mapping and is about to report it.
Remap(m, event) ==
  /\ churn < MaxChurn /\ churn' = churn + 1
  /\ mapping' = m
  /\ events' = Append(events, event)
  /\ UNCHANGED <<remote, loaded, life, inbox, tasks, thread, renderer>>

Unmapped(p) == \A c \in Conns : mapping[c] # p

MappingAdded(c, p) ==
  /\ mapping[c] = None /\ Unmapped(p)
  /\ Remap([mapping EXCEPT ![c] = p], Task("added", c, None, p))

MappingUpdated(c, p) ==
  /\ mapping[c] # None /\ Unmapped(p)
  /\ Remap([mapping EXCEPT ![c] = p], Task("updated", c, mapping[c], p))

MappingRemoved(c) ==
  /\ mapping[c] # None
  /\ Remap([mapping EXCEPT ![c] = None], Task("removed", c, mapping[c], None))

MappingCleared ==
  /\ \E c \in Conns : mapping[c] # None
  /\ Remap([c \in Conns |-> None], Task("cleared", None, None, None))

\* OnProxyMapping forwards the event to the game thread.
OnProxyMapping ==
  /\ events # <<>>
  /\ events' = Tail(events)
  /\ tasks' = IF life = "running" THEN Append(tasks, Head(events)) ELSE tasks
  /\ UNCHANGED <<remote, world, life, inbox, thread, renderer>>

\* The game streams the actor out or in.
ActorLoad(p) ==
  /\ churn < MaxChurn /\ churn' = churn + 1
  /\ loaded' = [loaded EXCEPT ![p] = ~@]
  /\ UNCHANGED <<remote, mapping, events, life, inbox, tasks, thread, renderer>>

-----------------------------------------------------------------------------
(* RemoteIEDRenderer, called on the game thread only.                      *)

\* What a proxy may hold after a batch of calls that asks for content s: the
\* VM runs them all, or refuses some of them.
Dispatched(p, s) == {s} \cup IF DispatchMayFail THEN {shown[p], Bare, Mixed} ELSE {}

\* Mutant: ClearProxy leaves the signature in the cache.
ClearKeepingSignature(P) ==
  /\ tracked' = [p \in Proxies |-> IF p \in P THEN None ELSE tracked[p]]
  /\ shown' = [p \in Proxies |-> IF p \in P /\ loaded[p] THEN Bare ELSE shown[p]]
  /\ UNCHANGED sig

\* ClearProxy of every proxy in P: forget it, and delete our items if the
\* actor can be found; the results of those calls are ignored.
ClearProxies(P) ==
  /\ tracked' = [p \in Proxies |-> IF p \in P THEN None ELSE tracked[p]]
  /\ sig' = [p \in Proxies |-> IF p \in P THEN None ELSE sig[p]]
  /\ shown' \in [Proxies -> Contents \cup {Bare, Mixed}]
  /\ \A p \in Proxies :
       IF p \in P /\ loaded[p] THEN shown'[p] \in Dispatched(p, Bare)
                               ELSE shown'[p] = shown[p]

\* The proxies RemoteIEDRenderer::Reset clears.
KnownProxies == {p \in Proxies : sig[p] # None \/ tracked[p] # None}

\* Apply finds the signature it applied last: only the owner is refreshed.
ApplySkip(c, p) ==
  /\ tracked' = IF tracked[p] = None THEN tracked
                ELSE [tracked EXCEPT ![p].conn = c]
  /\ UNCHANGED <<sig, shown>>

\* Apply rebuilds the items.  The transforms to maintain are replaced in any
\* case, the signature only when the VM took every call.
ApplyRebuild(c, p, v) ==
  /\ tracked' = [tracked EXCEPT ![p] = [conn |-> c, from |-> c, version |-> v]]
  /\ \/ /\ shown' = [shown EXCEPT ![p] = Content[v]]
        /\ sig' = [sig EXCEPT ![p] = Content[v]]
     \/ /\ DispatchMayFail
        /\ \E s \in Dispatched(p, Content[v]) : shown' = [shown EXCEPT ![p] = s]
        /\ UNCHANGED sig

\* Mutant: a rendering that was deferred is remembered as applied.
ApplyRemembering(c, p, v, force) ==
  \/ ~loaded[p] /\ sig' = [sig EXCEPT ![p] = Content[v]] /\ UNCHANGED <<tracked, shown>>
  \/ loaded[p] /\ ~force /\ sig[p] = Content[v] /\ ApplySkip(c, p)
  \/ loaded[p] /\ (force \/ sig[p] # Content[v]) /\ ApplyRebuild(c, p, v)

Apply(c, p, v, force) ==
  \/ ~loaded[p] /\ UNCHANGED renderer
  \/ loaded[p] /\ ~force /\ sig[p] = Content[v] /\ ApplySkip(c, p)
  \/ loaded[p] /\ (force \/ sig[p] # Content[v]) /\ ApplyRebuild(c, p, v)

-----------------------------------------------------------------------------
(* STRPMAdapter's tasks on the game thread.                                *)

Goto(l) == pc' = l /\ UNCHANGED <<task, snap, target>>
EndTask == Goto("idle")

\* The game thread takes the next task, one of ops, and gets to l.
Take(ops, l) ==
  /\ pc = "idle" /\ tasks # <<>>
  /\ Head(tasks).op \in ops
  /\ tasks' = Tail(tasks)
  /\ task' = Head(tasks) /\ pc' = l
  /\ UNCHANGED <<remote, world, events, life, inbox, snap, target>>

\* ApplyRemoteOnGameThread, at once or for kAdded.
RunApply ==
  life = "running" /\ Take({"apply", "added"}, "snapshot") /\ UNCHANGED renderer

\* Mutant: kUpdated applies to the new proxy and leaves the old one alone.
RunUpdatedOnly ==
  life = "running" /\ Take({"updated"}, "snapshot") /\ UNCHANGED renderer

\* kUpdated: the old proxy is cleared before the state is applied.
RunUpdated ==
  /\ life = "running" /\ Take({"updated"}, "snapshot")
  /\ LET t == Head(tasks) IN ClearProxies(IF t.old # t.new THEN {t.old} ELSE {})

\* kRemoved and kCleared: clear, then forget the states under _remoteMutex.
RunRemoved ==
  life = "running" /\ Take({"removed"}, "erase") /\ ClearProxies({Head(tasks).old})

RunCleared ==
  life = "running" /\ Take({"cleared"}, "forget") /\ ClearProxies(KnownProxies)

\* The renderer's Reset, queued at kPreLoadGame.
RunReset == Take({"reset"}, "idle") /\ ClearProxies(KnownProxies)

\* After Stop every task of the adapter returns at once.
RunStopped == life # "running" /\ Take(Ops \ {"reset"}, "idle") /\ UNCHANGED renderer

\* ApplyRemoteOnGameThread: copy the snapshot under _remoteMutex ...
TakeSnapshot ==
  /\ pc = "snapshot"
  /\ IF remoteStates[task.conn] = 0 THEN EndTask
     ELSE /\ pc' = "resolve" /\ snap' = remoteStates[task.conn]
          /\ UNCHANGED <<task, target>>
  /\ UNCHANGED <<remote, world, events, life, inbox, tasks, renderer>>

\* Mutant: the snapshot of ResolveProxy is used without testing that it is valid.
ResolveUnchecked ==
  /\ pc = "resolve"
  /\ pc' = "render" /\ target' = mapping[task.conn]
  /\ UNCHANGED <<task, snap>>
  /\ UNCHANGED <<remote, world, events, life, inbox, tasks, renderer>>

\* ... ask the resolver for the proxy ...
Resolve ==
  /\ pc = "resolve"
  /\ IF mapping[task.conn] = None THEN EndTask
     ELSE /\ pc' = "render" /\ target' = mapping[task.conn]
          /\ UNCHANGED <<task, snap>>
  /\ UNCHANGED <<remote, world, events, life, inbox, tasks, renderer>>

\* ... and render.  Only a mapping event forces a rebuild.
Render ==
  /\ pc = "render"
  /\ Apply(task.conn, target, snap, task.op # "apply")
  /\ EndTask
  /\ UNCHANGED <<remote, world, events, life, inbox, tasks>>

\* kRemoved and kCleared, second part.
Forget ==
  /\ \/ pc = "erase" /\ remoteStates' = [remoteStates EXCEPT ![task.conn] = 0]
     \/ pc = "forget" /\ remoteStates' = [c \in Conns |-> 0]
  /\ EndTask
  /\ UNCHANGED <<remote, world, events, life, stored, tasks, renderer>>

\* kPreLoadGame, delivered on the game thread between two tasks: Reset drops
\* the states, then queues the renderer's Reset.
PreLoadGame ==
  /\ churn < MaxChurn /\ churn' = churn + 1
  /\ pc = "idle" /\ Goto("preload")
  /\ remoteStates' = [c \in Conns |-> 0]
  /\ UNCHANGED <<remote, mapping, loaded, events, life, stored, tasks, renderer>>

QueueReset ==
  /\ pc = "preload" /\ EndTask
  /\ tasks' = Append(tasks, Task("reset", None, None, None))
  /\ UNCHANGED <<remote, world, events, life, inbox, renderer>>

\* Start at kDataLoaded; Stop from the singleton's destructor.
Start ==
  /\ life = "new" /\ pc = "idle" /\ life' = "running"
  /\ UNCHANGED <<remote, world, events, inbox, tasks, thread, renderer>>

Stop ==
  /\ life = "running" /\ pc = "idle" /\ life' = "stopped"
  /\ remoteStates' = [c \in Conns |-> 0]
  /\ UNCHANGED <<remote, world, events, stored, tasks, thread, renderer>>

RunTask == RunApply \/ RunUpdated \/ RunRemoved \/ RunCleared \/ RunReset \/ RunStopped
GameStep == RunTask \/ TakeSnapshot \/ Resolve \/ Render \/ Forget \/ QueueReset

Next ==
  \/ GameStep \/ PreLoadGame \/ Start \/ Stop \/ MappingCleared \/ OnProxyMapping \/ OwnSend
  \/ \E c \in Conns : RemoteChange(c) \/ DeliverChange(c) \/ DeliverHeartbeat(c)
                      \/ QueueRemoteApply(c) \/ MappingRemoved(c) \/ Reconnect(c)
  \/ \E c \in Conns, p \in Proxies : MappingAdded(c, p) \/ MappingUpdated(c, p)
  \/ \E p \in Proxies : ActorLoad(p)

\* The game runs its tasks every frame; STRPM's threads go on and its channel
\* delivers; senders repeat their state every 10 s, and so do we.
Fairness ==
  /\ WF_vars(GameStep) /\ WF_vars(OnProxyMapping) /\ WF_vars(OwnSend)
  /\ \A c \in Conns : /\ WF_vars(DeliverChange(c)) /\ WF_vars(DeliverHeartbeat(c))
                      /\ WF_vars(QueueRemoteApply(c))

Spec == Init /\ [][Next]_vars /\ Fairness

-----------------------------------------------------------------------------
\* Event or task e will take our items off proxy p.
Clears(e, p) ==
  \/ e.op = "removed" /\ e.old = p
  \/ e.op = "updated" /\ e.old = p /\ e.new # p
  \/ e.op = "cleared"

\* Such a task is queued, or the event for it is yet to be reported.
Clearing(p) ==
  \/ \E i \in 1..Len(events) : Clears(events[i], p)
  \/ \E i \in 1..Len(tasks) : Clears(tasks[i], p)

\* A state is never left on the wrong avatar: items we maintain on a proxy
\* belong to the connection the resolver maps to it, or the event that clears
\* the proxy is already on its way (HandleProxyMappingOnGameThread).
RightAvatar ==
  life = "running" =>
    \A p \in Proxies :
      tracked[p] # None => mapping[tracked[p].conn] = p \/ Clearing(p)

\* What the skip in Apply relies on: while the VM takes every call, a cached
\* signature is what the proxy shows, and what the watchdog maintains too.
SignatureFaithful ==
  \A p \in Proxies :
    sig[p] # None => /\ shown[p] = sig[p]
                     /\ tracked[p] # None
                     /\ Content[tracked[p].version] = sig[p]

\* An avatar never goes back to an older state of the same sender, whatever
\* STRPM's threads do between the snapshot and the rendering.
NeverBackwards ==
  [][\A p \in Proxies :
       tracked[p] # None /\ tracked'[p] # None /\ tracked'[p].from = tracked[p].from
         => tracked'[p].version >= tracked[p].version]_vars

\* README, "Helmet absent": when the next full state no longer contains an item,
\* the remote entries are rebuilt without it.  So where Apply is about to leave
\* the entries as they are, although the state rendered last was another one,
\* they are not those of that other state.
RemovedItemsGo ==
  LET drawn == tracked[target] IN
  (/\ pc = "render" /\ task.op = "apply" /\ loaded[target] /\ sig[target] = Content[snap]
   /\ drawn # None /\ drawn.from = task.conn /\ Content[drawn.version] # Content[snap])
    => shown[target] # Content[drawn.version]

\* Once nothing changes any more, an avatar that can be found shows the last
\* state of its player, although states are dropped on the way (kRemoved and
\* kCleared, a game load, an actor not loaded yet): the heartbeat brings them.
Converges ==
  \A c \in Conns :
    <>[](life = "running" /\ mapping[c] # None /\ sent[c] > 0 /\ loaded[mapping[c]]
           => shown[mapping[c]] = Content[sent[c]])

\* An avatar nobody stands behind any more is rid of our items, whatever was in
\* flight when its player left: ClearProxy forgets an avatar for good, so a
\* rendering that came after the clearing would stay.  (An avatar that is not
\* loaded while it is cleared does keep them: ClearProxy finds no actor.)
LeftoversGo ==
  \A p \in Proxies :
    []loaded[p] => <>[](life = "running" /\ Unmapped(p) => shown[p] = Bare)

\* The versions the avatars carry, seen through the maintained entries.
Carried == [p \in Proxies |->
              IF tracked[p] = None THEN None
              ELSE [from |-> tracked[p].from, version |-> tracked[p].version]]

Avatars == INSTANCE RemoteAvatars WITH last <- sent, on <- Carried

\* All the machinery of messages, events and tasks comes to this: an avatar only
\* takes states its sender has been in, none older than one shown elsewhere.
Implements == Avatars!Spec

=============================================================================
