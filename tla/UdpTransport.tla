---------------------------- MODULE UdpTransport ----------------------------
(***************************************************************************)
(* The UDP transport that docs/IED-INTEGRATION.md keeps as Transport=UDP   *)
(* and the relay host's profile switches on: nodes find each other with    *)
(* hello packets, remember whom they heard, send their states to all of    *)
(* them, and a relay passes states on.                                     *)
(*                                                                         *)
(* The network loses, repeats and reorders packets, a node may stop and    *)
(* start as a new instance, and a router may give it another endpoint.     *)
(* The receiver thread handles one packet at a time; a round of the        *)
(* maintenance thread and a Send are one action each, because they meet    *)
(* the receiver in one critical section over _peers only.                  *)
(***************************************************************************)
EXTENDS Naturals, FiniteSets

CONSTANTS
  Nodes,        \* the clients and relay hosts
  Endpoints,    \* addresses and ports as the other side sees them
  Home,         \* Home[n]: the endpoint of n at first
  Relays,       \* nodes with RelayMode
  Discovering,  \* nodes with AutoDiscovery
  AutoRemote,   \* nodes with AutoRemoteFromSTR
  AutoSecret,   \* nodes with AutoSharedSecretFromSTR
  Lan,          \* nodes that hear each other's broadcasts
  Remote,       \* Remote[n]: the endpoints n's RemotePeers resolve to
  Secret,       \* Secret[n]: its configured SharedSecret, None when empty
  Password,     \* Password[r]: the STR server's, in STServer.ini on a relay host, or None
  MaxStarts,    \* bound: starts of one node
  MaxChurn,     \* bound: stops, new endpoints, saved addresses, repeated packets, unlucky expiries
  MaxNet,       \* bound: nodes say nothing of their own while so many packets are on their way
  Gameplay,     \* stands for the instance in the entries TouchGameplayPeer makes
  None          \* no secret, nothing saved

ASSUME NetworkAssumption ==
  /\ Home \in [Nodes -> Endpoints]
  /\ Relays \cup Discovering \cup AutoRemote \cup AutoSecret \cup Lan \subseteq Nodes
  /\ Remote \in [Nodes -> SUBSET Endpoints]
  /\ MaxStarts \in Nat /\ MaxChurn \in Nat /\ MaxNet \in Nat
  /\ Gameplay \notin Nodes \X Nat
  /\ None \notin Endpoints

VARIABLES
  starts,      \* how often each node was started
  up,          \* _running
  at,          \* the endpoint a node sends from and is reached at
  saved,       \* the server and the password STR has saved on a node's machine
  secret,      \* _sharedSecret
  configured,  \* _configuredPeers
  peers,       \* _peers: whom it heard (instance) and from where (endpoint)
  net,         \* packets on their way
  heard,       \* running instances whose states the node's handler was given
               \* since the last disturbance
  churn        \* what the environment did so far

settings == <<secret, configured>>
table == <<settings, peers>>
place == <<starts, up, at, saved>>
vars == <<place, table, net, heard, churn>>

\* _instanceID: made anew by every Start.
Id(n) == <<n, starts[n]>>
Ids == Nodes \X (1..MaxStarts)
Peer == [id : Ids \cup {Gameplay}, ep : Endpoints]

Secrets == {Secret[n] : n \in Nodes} \cup {Password[r] : r \in Relays} \cup {None}

\* tag: the secret the packet was signed with; hops: how often it was sent, a
\* history no node reads (relay stays 1 however often a packet is forwarded).
HelloPacket == [kind : {"hello"}, id : Ids, from : Endpoints, to : Endpoints,
                tag : Secrets]
GamePacket == [kind : {"game"}, id : Ids, from : Endpoints, to : Endpoints,
               tag : Secrets, relay : {0, 1}, hops : Nat]

TypeOK ==
  /\ starts \in [Nodes -> 0..MaxStarts]
  /\ up \in [Nodes -> BOOLEAN]
  /\ \A n \in Nodes : up[n] => starts[n] > 0
  /\ at \in [Nodes -> Endpoints]
  /\ saved \in [Nodes -> [ep : Endpoints, secret : Secrets] \cup {None}]
  /\ secret \in [Nodes -> Secrets]
  /\ configured \in [Nodes -> SUBSET Endpoints]
  /\ peers \in [Nodes -> SUBSET Peer]
  /\ \A n \in Nodes : ~up[n] => peers[n] = {} /\ configured[n] = {}
  /\ net \subseteq HelloPacket \cup GamePacket
  /\ heard \in [Nodes -> SUBSET Ids]
  /\ churn \in 0..MaxChurn

\* Nodes that look at what STR has saved.
Clients == (AutoRemote \cup AutoSecret) \ Relays

Servers == {[ep |-> Home[r], secret |-> Password[r]] : r \in Relays}

Init ==
  /\ starts = [n \in Nodes |-> 0] /\ up = [n \in Nodes |-> FALSE]
  /\ at = Home
  /\ saved \in {f \in [Nodes -> Servers \cup {None}] :         \* from an earlier session
                 \A n \in Nodes : n \in Clients \/ f[n] = None}
  /\ secret = [n \in Nodes |-> None]
  /\ configured = [n \in Nodes |-> {}]
  /\ peers = [n \in Nodes |-> {}]
  /\ net = {}
  /\ heard = [n \in Nodes |-> {}]
  /\ churn = 0

Room == Cardinality(net) < MaxNet
Churn == churn < MaxChurn /\ churn' = churn + 1

\* A disturbance after which everybody has to be heard anew.
Disturbed == Churn /\ heard' = [k \in Nodes |-> {}]

-----------------------------------------------------------------------------
\* SendHelloTo, signed with tag.  The receiver takes the sender's endpoint from
\* the packet's source, or on a LAN from its source address and the port it names.
HelloTo(n, id, tag, targets) ==
  [kind : {"hello"}, id : {id}, from : {at[n]}, to : targets, tag : {tag}]

\* The endpoints a broadcast of n gets to, its own among them.
Broadcast(n) == {at[k] : k \in {n} \cup IF n \in Lan THEN Lan ELSE {}}

\* SendHello, by instance id of n, to the peers conf it has configured.
Hello(n, id, tag, conf) ==
  HelloTo(n, id, tag, (IF n \in Discovering THEN Broadcast(n) ELSE {}) \cup conf)

\* RefreshSkyrimTogetherAutoConfig: a saved address is added, none removed; a
\* password it finds replaces the secret unless one is configured.
RefreshedPeers(n, conf) ==
  conf \cup IF n \in AutoRemote \ Relays /\ saved[n] # None THEN {saved[n].ep} ELSE {}

\* The password a node finds, a relay host in STServer.ini.
FoundPassword(n) ==
  IF n \in Relays THEN Password[n] ELSE IF saved[n] = None THEN None ELSE saved[n].secret

RefreshedSecret(n, now) ==
  IF n \in AutoSecret /\ Secret[n] = None /\ FoundPassword(n) # None
    THEN FoundPassword(n) ELSE now

\* SnapshotDestinations, each endpoint once, but for the one excluded.
Destinations(n, known, excluded) ==
  (configured[n] \cup {e.ep : e \in known}) \ excluded

\* AuthenticatePacket: without a secret every packet is taken.
Authentic(n, m) == secret[n] \in {None, m.tag}

\* MarkRelayed: forwarded packets are marked and signed again.
MarkRelayed(n, m, targets) ==
  [kind : {"game"}, id : {m.id}, from : {at[n]}, to : targets, tag : {secret[n]},
   relay : {1}, hops : {m.hops + 1}]

-----------------------------------------------------------------------------
\* Start: a new instance resolves its peers and says hello.
Start(n) ==
  /\ ~up[n] /\ starts[n] < MaxStarts /\ Room
  /\ starts' = [starts EXCEPT ![n] = @ + 1]
  /\ up' = [up EXCEPT ![n] = TRUE]
  /\ LET conf == RefreshedPeers(n, Remote[n])
         tag == RefreshedSecret(n, Secret[n])
     IN /\ configured' = [configured EXCEPT ![n] = conf]
        /\ secret' = [secret EXCEPT ![n] = tag]
        /\ net' = net \cup Hello(n, <<n, starts[n] + 1>>, tag, conf)
  /\ UNCHANGED <<at, saved, peers, heard, churn>>

\* Mutant: Stop leaves the peers.
StopKeepingPeers(n) ==
  /\ up[n] /\ Disturbed
  /\ up' = [up EXCEPT ![n] = FALSE]
  /\ secret' = [secret EXCEPT ![n] = None]
  /\ configured' = [configured EXCEPT ![n] = {}]
  /\ UNCHANGED <<starts, at, saved, peers, net>>

\* Stop, or the process ends.
Stop(n) ==
  /\ up[n] /\ Disturbed
  /\ up' = [up EXCEPT ![n] = FALSE]
  /\ secret' = [secret EXCEPT ![n] = None]
  /\ configured' = [configured EXCEPT ![n] = {}]
  /\ peers' = [peers EXCEPT ![n] = {}]
  /\ UNCHANGED <<starts, at, saved, net>>

\* Whether Start gave n a maintenance thread.
Maintained(n) ==
  n \in Discovering \cup Relays \cup AutoRemote \cup AutoSecret \/ Remote[n] # {}

\* What a round refreshes before it says hello, every five seconds.
Refresh(n, due) ==
  IF due THEN /\ configured' = [configured EXCEPT ![n] = RefreshedPeers(n, @)]
              /\ secret' = [secret EXCEPT ![n] = RefreshedSecret(n, @)]
         ELSE UNCHANGED settings

\* The instance e stands for is up and at that endpoint.
Alive(e) == \E k \in Nodes : up[k] /\ at[k] = e.ep /\ e.id \in {Id(k), Gameplay}

\* ExpirePeers: gone are those not seen for PeerTimeoutMs.  Of one that is alive
\* every packet was lost meanwhile, PeerTimeoutMs (10 s) being longer than
\* DiscoveryIntervalMs (2 s) and ResendIntervalMs (5 s) as the defaults have it;
\* Config also lets it be set to 2 s, where peers that are well expire and return.
ExpirePeers(n, gone) ==
  /\ peers' = [peers EXCEPT ![n] = @ \ gone]
  /\ IF \E e \in gone : Alive(e) THEN Disturbed ELSE UNCHANGED <<heard, churn>>

\* Mutant: hellos go out when the node starts and never again.
MaintainQuietly(n, gone, due) ==
  /\ up[n] /\ Maintained(n) /\ Room
  /\ Refresh(n, due)
  /\ ExpirePeers(n, gone)
  /\ UNCHANGED <<place, net>>

\* Mutant: the maintenance thread does not expire peers.
MaintainForever(n, gone, due) ==
  /\ up[n] /\ Maintained(n) /\ Room
  /\ Refresh(n, due)
  /\ net' = net \cup Hello(n, Id(n), secret'[n], configured'[n])
  /\ UNCHANGED <<place, peers, heard, churn>>

\* A round of MaintenanceLoop: look for a new server, say hello, expire peers.
Maintain(n, gone, due) ==
  /\ up[n] /\ Maintained(n) /\ Room
  /\ Refresh(n, due)
  /\ net' = net \cup Hello(n, Id(n), secret'[n], configured'[n])
  /\ ExpirePeers(n, gone)
  /\ UNCHANGED place

\* Send: a state to every destination, or to the LAN when there is none.
Send(n) ==
  /\ up[n] /\ Room
  /\ LET known == Destinations(n, peers[n], {})
         targets == IF known = {} /\ n \in Discovering THEN Broadcast(n) ELSE known
     IN net' = net \cup [kind : {"game"}, id : {Id(n)}, from : {at[n]}, to : targets,
                         tag : {secret[n]}, relay : {0}, hops : {1}]
  /\ UNCHANGED <<place, table, heard, churn>>

\* A peer is seen: entered, or its time of last sight renewed.
See(n, e) == peers' = [peers EXCEPT ![n] = @ \cup {e}]

\* HandleDiscovery and RegisterPeer; a new peer is greeted at once.
HandleDiscovery(n, m, rest) ==
  LET e == [id |-> m.id, ep |-> m.from] IN
  /\ IF m.id = Id(n)
       THEN net' = rest /\ UNCHANGED peers
       ELSE /\ See(n, e)
            /\ net' = rest \cup IF e \in peers[n] THEN {} ELSE HelloTo(n, Id(n), secret[n], {m.from})
  /\ UNCHANGED heard

\* The handler is given a state of instance id; one of an instance that is gone
\* (an echo of this node's own of before a restart, too) is given to it as well
\* and counts for nobody in heard.
Handle(n, id) ==
  heard' = [heard EXCEPT ![n] = @ \cup ({id} \cap {Id(k) : k \in {j \in Nodes : up[j]}})]

\* Mutant: forwarded packets are forwarded again.
RelayAgain(n, m, known) ==
  IF n \in Relays /\ m.hops < 3
    THEN MarkRelayed(n, m, Destinations(n, known, {m.from})) ELSE {}

\* RelayGameplayPacket: to all but the endpoint it came from, unless marked.
RelayGameplayPacket(n, m, known) ==
  IF n \in Relays /\ m.relay = 0
    THEN MarkRelayed(n, m, Destinations(n, known, {m.from})) ELSE {}

\* Mutant: a node does not look for its own packets.
HandleGameplayOwn(n, m, rest) ==
  LET e == [id |-> Gameplay, ep |-> m.from] IN
  /\ See(n, e)
  /\ net' = rest \cup RelayGameplayPacket(n, m, peers[n] \cup {e})
  /\ Handle(n, m.id)

\* ReceiverLoop on a state: not one's own; TouchGameplayPeer, then
\* RelayGameplayPacket, then the handler.
HandleGameplay(n, m, rest) ==
  LET e == [id |-> Gameplay, ep |-> m.from] IN
  IF m.id = Id(n)
    THEN net' = rest /\ UNCHANGED <<peers, heard>>
    ELSE /\ See(n, e)
         /\ net' = rest \cup RelayGameplayPacket(n, m, peers[n] \cup {e})
         /\ Handle(n, m.id)

\* ReceiverLoop, one packet; rest is what stays on its way.
Receive(n, m, rest) ==
  /\ up[n] /\ at[n] = m.to
  /\ \/ ~Authentic(n, m) /\ net' = rest /\ UNCHANGED <<peers, heard>>
     \/ Authentic(n, m) /\ m.kind = "hello" /\ HandleDiscovery(n, m, rest)
     \/ Authentic(n, m) /\ m.kind = "game" /\ HandleGameplay(n, m, rest)
  /\ UNCHANGED <<place, settings>>

-----------------------------------------------------------------------------
(* The network and the world.                                              *)

Deliver(n, m) == m \in net /\ Receive(n, m, net \ {m}) /\ UNCHANGED churn
DeliverTwice(n, m) == m \in net /\ Churn /\ Receive(n, m, net)
Deliverable(m) == \E n \in Nodes : up[n] /\ at[n] = m.to

\* A packet is lost on its way, or finds nobody.
Lose(m) ==
  /\ IF Deliverable(m) THEN Churn ELSE UNCHANGED churn
  /\ net' = net \ {m}
  /\ UNCHANGED <<place, table, heard>>

\* A router gives a client another endpoint.
Rebind(n, p) ==
  /\ n \notin Relays \cup Lan /\ Disturbed
  /\ \A k \in Nodes : at[k] # p
  /\ at' = [at EXCEPT ![n] = p]
  /\ UNCHANGED <<starts, up, saved, table, net>>

\* STR saves the server its player connects to, here a relay host's, and the
\* password, which may be forgotten.
Connect(n, r) ==
  /\ n \in Clients /\ Churn
  /\ \E s \in {None, Password[r]} : saved' = [saved EXCEPT ![n] = [ep |-> at[r], secret |-> s]]
  /\ saved' # saved
  /\ UNCHANGED <<starts, up, at, table, net, heard>>

Next ==
  \/ \E n \in Nodes : Start(n) \/ Stop(n) \/ Send(n)
  \/ \E n \in Nodes : \E gone \in SUBSET peers[n], due \in BOOLEAN : Maintain(n, gone, due)
  \/ \E n \in Nodes, m \in net : Deliver(n, m) \/ DeliverTwice(n, m)
  \/ \E m \in net : Lose(m)
  \/ \E n \in Nodes, p \in Endpoints : Rebind(n, p)
  \/ \E n \in Nodes, r \in Relays : Connect(n, r)

\* A round at a time when nothing was heard of the dead for PeerTimeoutMs.
MaintainLate(n) == LET dead == {e \in peers[n] : ~Alive(e)} IN Maintain(n, dead, TRUE)

\* The loops go on, SyncService sends its state again every ResendIntervalMs,
\* and packets arrive or are lost.
Fairness ==
  /\ \A n \in Nodes : SF_vars(MaintainLate(n)) /\ SF_vars(Send(n))
  /\ WF_vars(\E m \in net : Lose(m) \/ \E n \in Nodes : Deliver(n, m))

Spec == Init /\ [][Next]_vars /\ Fairness

-----------------------------------------------------------------------------
\* No storms: a state is forwarded once at most, however relays, LAN peers and
\* configured peers know each other (the relay=0/1 marker).
ForwardedOnce ==
  \A m \in net : m.kind = "game" => m.hops = 1 + m.relay

\* A running node takes neither the hellos nor the states of its own running
\* instance, which come back to it by broadcast and over relays, for another
\* player's.  Those of its instance of before a restart carry the old id and are
\* taken for another's: peers may hold that id until it expires (DeadExpire).
OwnIgnored ==
  \A n \in Nodes : up[n] => /\ Id(n) \notin heard[n]
                            /\ \A e \in peers[n] : e.id # Id(n)

\* One of the two says hello to the other, and they have the same secret.
Direct(k, n) ==
  /\ secret[k] = secret[n]
  /\ \/ at[n] \in configured[k]
     \/ at[k] \in configured[n]
     \/ {k, n} \subseteq Lan /\ {k, n} \cap Discovering # {}

Linked(k, n) ==
  \/ Direct(k, n)
  \/ \E r \in Relays \ {k, n} : up[r] /\ Direct(k, r) /\ Direct(n, r)

\* Every player hears every other that it is linked to, directly or over a
\* relay: losses, restarts, new endpoints and expired peers are made up for.
AllHear ==
  \A k \in Nodes : \A n \in Nodes \ {k} :
    <>[](up[k] /\ up[n] /\ Linked(k, n) => Id(k) \in heard[n])

\* Instances that are gone, and endpoints nobody uses any more, are forgotten.
DeadExpire ==
  \A n \in Nodes : <>[](up[n] /\ Maintained(n) => \A e \in peers[n] : Alive(e))

=============================================================================
