------------------------- MODULE UdpTransportProofs -------------------------
(***************************************************************************)
(* What the UDP transport promises for any number of nodes, relays,        *)
(* endpoints, restarts and packets lost, repeated or out of order: a state *)
(* is forwarded once at most, and nobody takes itself for another player.  *)
(***************************************************************************)
EXTENDS UdpTransport, TLAPS

USE NetworkAssumption

\* TypeOK by the part of the state it is about.
PlaceOK ==
  /\ starts \in [Nodes -> 0..MaxStarts]
  /\ up \in [Nodes -> BOOLEAN]
  /\ \A n \in Nodes : up[n] => starts[n] > 0
  /\ at \in [Nodes -> Endpoints]
  /\ saved \in [Nodes -> [ep : Endpoints, secret : Secrets] \cup {None}]

TableOK ==
  /\ secret \in [Nodes -> Secrets]
  /\ configured \in [Nodes -> SUBSET Endpoints]
  /\ peers \in [Nodes -> SUBSET Peer]

\* States on their way are marked exactly when they were forwarded.
Marked == {m \in GamePacket : m.hops = 1 + m.relay}
NetOK == net \subseteq HelloPacket \cup Marked

HeardOK == heard \in [Nodes -> SUBSET Ids] /\ churn \in 0..MaxChurn

TypeInv == PlaceOK /\ TableOK /\ NetOK /\ HeardOK

LEMMA MarkedOnce == NetOK => ForwardedOnce
BY DEF NetOK, ForwardedOnce, HelloPacket, Marked

\* A node that is down knows nobody.
StoppedOK == \A n \in Nodes : ~up[n] => peers[n] = {} /\ configured[n] = {}

LEMMA TypeInvOK == TypeInv /\ StoppedOK => TypeOK
<1> SUFFICES ASSUME TypeInv, StoppedOK PROVE TypeOK
  OBVIOUS
<1>1. net \subseteq HelloPacket \cup GamePacket
  BY DEF TypeInv, NetOK, Marked
<1> QED
  BY <1>1 DEF TypeInv, StoppedOK, PlaceOK, TableOK, HeardOK, TypeOK

-----------------------------------------------------------------------------
(* What the helpers send.                                                  *)

\* A running node's instance is one of the instances.
LEMMA IdType == ASSUME PlaceOK, NEW n \in Nodes, up[n] PROVE Id(n) \in Ids
<1>1. starts[n] \in 1..MaxStarts
  BY DEF PlaceOK
<1> QED
  BY <1>1 DEF Id, Ids

LEMMA HelloToType ==
  ASSUME PlaceOK, NEW n \in Nodes, NEW id \in Ids, NEW tag \in Secrets,
         NEW targets, targets \subseteq Endpoints
  PROVE  \A m \in HelloTo(n, id, tag, targets) : m \in HelloPacket /\ m.id = id
<1>1. at[n] \in Endpoints
  BY DEF PlaceOK
<1> QED
  BY <1>1 DEF HelloTo, HelloPacket

LEMMA BroadcastType ==
  ASSUME PlaceOK, NEW n \in Nodes PROVE Broadcast(n) \subseteq Endpoints
<1>1. {n} \cup (IF n \in Lan THEN Lan ELSE {}) \subseteq Nodes
  OBVIOUS
<1> QED
  BY <1>1 DEF Broadcast, PlaceOK

LEMMA HelloType ==
  ASSUME PlaceOK, NEW n \in Nodes, NEW id \in Ids, NEW tag \in Secrets,
         NEW conf, conf \subseteq Endpoints
  PROVE  \A m \in Hello(n, id, tag, conf) : m \in HelloPacket /\ m.id = id
<1>1. (IF n \in Discovering THEN Broadcast(n) ELSE {}) \cup conf \subseteq Endpoints
  BY BroadcastType
<1> QED
  BY <1>1, HelloToType DEF Hello

LEMMA RefreshedType ==
  ASSUME PlaceOK, NEW n \in Nodes, NEW conf, conf \subseteq Endpoints, NEW now \in Secrets
  PROVE  RefreshedPeers(n, conf) \subseteq Endpoints /\ RefreshedSecret(n, now) \in Secrets
<1>1. saved[n] # None => saved[n].ep \in Endpoints /\ saved[n].secret \in Secrets
  BY DEF PlaceOK
<1>3. n \in Relays => Password[n] \in Secrets
  BY DEF Secrets
<1>4. FoundPassword(n) \in Secrets
  <2>1. None \in Secrets
    BY DEF Secrets
  <2> QED
    BY <1>1, <1>3, <2>1 DEF FoundPassword
<1>2. RefreshedPeers(n, conf) \subseteq Endpoints
  BY <1>1 DEF RefreshedPeers
<1>5. RefreshedSecret(n, now) \in Secrets
  BY <1>4, Zenon DEF RefreshedSecret
<1> QED
  BY <1>2, <1>5

LEMMA DestinationsType ==
  ASSUME TableOK, NEW n \in Nodes, NEW known, known \subseteq Peer, NEW excluded
  PROVE  Destinations(n, known, excluded) \subseteq Endpoints
<1>1. \A e \in known : e.ep \in Endpoints
  BY DEF Peer
<1>2. configured[n] \subseteq Endpoints
  BY DEF TableOK
<1> QED
  BY <1>1, <1>2 DEF Destinations

\* A forwarded state keeps its instance and is marked.
LEMMA RelayType ==
  ASSUME PlaceOK, TableOK, NEW n \in Nodes, NEW m \in Marked,
         NEW known, known \subseteq Peer
  PROVE  \A f \in RelayGameplayPacket(n, m, known) : f \in Marked /\ f.id = m.id
<1>1. CASE n \in Relays /\ m.relay = 0
  <2> DEFINE targets == Destinations(n, known, {m.from})
  <2>1. targets \subseteq Endpoints
    BY DestinationsType
  <2>2. m.hops + 1 = 2 /\ m.id \in Ids
    BY <1>1 DEF Marked, GamePacket
  <2>3. at[n] \in Endpoints /\ secret[n] \in Secrets
    BY DEF PlaceOK, TableOK
  <2> HIDE DEF targets
  <2>4. \A f \in MarkRelayed(n, m, targets) : f \in Marked /\ f.id = m.id
    BY <2>1, <2>2, <2>3 DEF MarkRelayed, Marked, GamePacket
  <2> QED
    BY <1>1, <2>4 DEF RelayGameplayPacket, targets
<1>2. CASE ~(n \in Relays /\ m.relay = 0)
  BY <1>2 DEF RelayGameplayPacket
<1> QED
  BY <1>1, <1>2
-----------------------------------------------------------------------------
(* Every step keeps the types and the marks.                               *)

LEMMA TypeInit == Init => TypeInv
<1> SUFFICES ASSUME Init PROVE TypeInv
  OBVIOUS
<1>1. saved \in [Nodes -> [ep : Endpoints, secret : Secrets] \cup {None}]
  <2>1. \A r \in Relays : Home[r] \in Endpoints /\ Password[r] \in Secrets
    BY DEF Secrets
  <2>2. Servers \subseteq [ep : Endpoints, secret : Secrets]
    BY <2>1 DEF Servers
  <2>3. saved \in [Nodes -> Servers \cup {None}]
    BY DEF Init
  <2> QED
    BY <2>2, <2>3
<1>2. secret \in [Nodes -> Secrets]
  BY DEF Init, Secrets
<1> QED
  BY <1>1, <1>2 DEF Init, TypeInv, PlaceOK, TableOK, NetOK, HeardOK

LEMMA ChurnType ==
  ASSUME HeardOK, Churn \/ UNCHANGED churn PROVE churn' \in 0..MaxChurn
BY DEF HeardOK, Churn

LEMMA StartType ==
  ASSUME TypeInv, NEW n \in Nodes, Start(n) PROVE TypeInv'
<1> DEFINE id == <<n, starts[n] + 1>>
           conf == RefreshedPeers(n, Remote[n])
           tag == RefreshedSecret(n, Secret[n])
<1>1. id \in Ids
  BY DEF TypeInv, PlaceOK, Start, Ids
<1>2. conf \subseteq Endpoints /\ tag \in Secrets
  <2>1. Remote[n] \subseteq Endpoints /\ Secret[n] \in Secrets
    BY DEF Secrets
  <2> QED
    BY <2>1, RefreshedType DEF TypeInv
<1>3. /\ starts' = [starts EXCEPT ![n] = @ + 1] /\ starts[n] < MaxStarts
      /\ up' = [up EXCEPT ![n] = TRUE]
      /\ configured' = [configured EXCEPT ![n] = conf]
      /\ secret' = [secret EXCEPT ![n] = tag]
      /\ net' = net \cup Hello(n, id, tag, conf)
      /\ UNCHANGED <<at, saved, peers, heard, churn>>
  BY DEF Start
<1> HIDE DEF id, conf, tag
<1>4. NetOK'
  BY <1>1, <1>2, <1>3, HelloType DEF TypeInv, NetOK
<1>5. TableOK'
  BY <1>2, <1>3 DEF TypeInv, TableOK
<1>6. PlaceOK'
  BY <1>3 DEF TypeInv, PlaceOK
<1> QED
  BY <1>3, <1>4, <1>5, <1>6 DEF TypeInv, HeardOK

LEMMA StopType ==
  ASSUME TypeInv, NEW n \in Nodes, Stop(n) PROVE TypeInv'
<1>1. PlaceOK'
  BY DEF TypeInv, PlaceOK, Stop
<1>2. TableOK'
  BY DEF TypeInv, TableOK, Stop, Secrets
<1>3. HeardOK'
  BY ChurnType DEF TypeInv, HeardOK, Stop, Disturbed
<1> QED
  BY <1>1, <1>2, <1>3 DEF TypeInv, NetOK, Stop

LEMMA MaintainType ==
  ASSUME TypeInv, NEW n \in Nodes, NEW gone, NEW due, Maintain(n, gone, due) PROVE TypeInv'
<1>1. /\ up[n]
      /\ Refresh(n, due)
      /\ net' = net \cup Hello(n, Id(n), secret'[n], configured'[n])
      /\ peers' = [peers EXCEPT ![n] = @ \ gone]
      /\ Disturbed \/ UNCHANGED <<heard, churn>>
      /\ UNCHANGED place
  BY DEF Maintain, ExpirePeers
<1>2. configured' \in [Nodes -> SUBSET Endpoints] /\ secret' \in [Nodes -> Secrets]
  <2>1. configured[n] \subseteq Endpoints /\ secret[n] \in Secrets
    BY DEF TypeInv, TableOK
  <2>2. RefreshedPeers(n, configured[n]) \subseteq Endpoints /\ RefreshedSecret(n, secret[n]) \in Secrets
    BY <2>1, RefreshedType DEF TypeInv
  <2>3. CASE due
    <3>1. /\ configured' = [configured EXCEPT ![n] = RefreshedPeers(n, @)]
          /\ secret' = [secret EXCEPT ![n] = RefreshedSecret(n, @)]
      BY <1>1, <2>3, Zenon DEF Refresh
    <3> QED
      BY <2>2, <3>1 DEF TypeInv, TableOK
  <2>4. CASE ~due
    BY <1>1, <2>4 DEF Refresh, settings, TypeInv, TableOK
  <2> QED
    BY <2>3, <2>4
<1>3. TableOK'
  <2>1. peers' \in [Nodes -> SUBSET Peer]
    BY <1>1 DEF TypeInv, TableOK
  <2> QED
    BY <1>2, <2>1 DEF TableOK
<1>4. NetOK'
  BY <1>1, <1>2, IdType, HelloType DEF TypeInv, NetOK
<1>5. PlaceOK'
  BY <1>1 DEF TypeInv, PlaceOK, place
<1>6. HeardOK'
  BY <1>1, ChurnType DEF TypeInv, HeardOK, Disturbed
<1> QED
  BY <1>3, <1>4, <1>5, <1>6 DEF TypeInv

\* What Send adds is one's own, unmarked.
LEMMA SendNet ==
  ASSUME TypeInv, NEW n \in Nodes, Send(n)
  PROVE  \A m \in net' \ net : m \in Marked /\ m.id = Id(n)
<1> DEFINE known == Destinations(n, peers[n], {})
           targets == IF known = {} /\ n \in Discovering THEN Broadcast(n) ELSE known
<1>1. targets \subseteq Endpoints
  <2>1. peers[n] \subseteq Peer
    BY DEF TypeInv, TableOK
  <2> QED
    BY <2>1, DestinationsType, BroadcastType DEF TypeInv
<1>2. Id(n) \in Ids /\ at[n] \in Endpoints /\ secret[n] \in Secrets
  BY IdType DEF TypeInv, PlaceOK, TableOK, Send
<1>3. net' = net \cup [kind : {"game"}, id : {Id(n)}, from : {at[n]}, to : targets,
                       tag : {secret[n]}, relay : {0}, hops : {1}]
  BY DEF Send
<1> HIDE DEF targets
<1> QED
  BY <1>1, <1>2, <1>3 DEF Marked, GamePacket

LEMMA SendType ==
  ASSUME TypeInv, NEW n \in Nodes, Send(n) PROVE TypeInv'
<1>1. NetOK'
  BY SendNet DEF TypeInv, NetOK
<1> QED
  BY <1>1 DEF Send, place, table, settings, TypeInv, PlaceOK, TableOK, HeardOK

\* What receiving a packet adds to the table, to what was heard, and to the net.
LEMMA ReceiveAdds ==
  ASSUME TypeInv, NEW n \in Nodes, NEW m \in net, NEW rest, rest \subseteq net,
         Receive(n, m, rest)
  PROVE  /\ \E e \in Peer :
              /\ peers' \in {peers, [peers EXCEPT ![n] = @ \cup {e}]}
              /\ e.id \in {m.id, Gameplay} /\ e.id # Id(n)
         /\ heard' = heard \/ \E new \in SUBSET {m.id} :
              m.id # Id(n) /\ heard' = [heard EXCEPT ![n] = @ \cup new]
         /\ \A f \in net' \ rest : \/ f \in HelloPacket /\ f.id = Id(n)
                                   \/ f \in Marked /\ f.id = m.id
<1>1. m.id \in Ids /\ m.from \in Endpoints
  BY DEF TypeInv, NetOK, HelloPacket, Marked, GamePacket
<1>2. Id(n) \in Ids /\ Id(n) # Gameplay
  <2>1. Id(n) \in Ids
    BY IdType DEF TypeInv, Receive
  <2> QED
    BY <2>1 DEF Ids
<1> DEFINE g == [id |-> Gameplay, ep |-> m.from]
           h == [id |-> m.id, ep |-> m.from]
<1>3. g \in Peer /\ g.id = Gameplay /\ h \in Peer /\ h.id = m.id
  BY <1>1 DEF Peer
<1>4. CASE net' = rest /\ UNCHANGED <<peers, heard>>
  BY <1>2, <1>3, <1>4
<1>5. CASE HandleDiscovery(n, m, rest) /\ m.id # Id(n)
  <2>1. /\ peers' = [peers EXCEPT ![n] = @ \cup {h}]
        /\ net' = rest \cup IF h \in peers[n] THEN {} ELSE HelloTo(n, Id(n), secret[n], {m.from})
        /\ heard' = heard
    BY <1>5 DEF HandleDiscovery, See
  <2>2. secret[n] \in Secrets
    BY DEF TypeInv, TableOK
  <2>3. \A f \in HelloTo(n, Id(n), secret[n], {m.from}) : f \in HelloPacket /\ f.id = Id(n)
    BY <1>1, <1>2, <2>2, HelloToType DEF TypeInv
  <2>4. \A f \in net' \ rest : f \in HelloPacket /\ f.id = Id(n)
    BY <2>1, <2>3
  <2> QED
    BY <1>3, <1>5, <2>1, <2>4
<1>6. CASE HandleGameplay(n, m, rest) /\ m.kind = "game" /\ m.id # Id(n)
  <2> DEFINE known == peers[n] \cup {g}
  <2>1. /\ peers' = [peers EXCEPT ![n] = @ \cup {g}]
        /\ net' = rest \cup RelayGameplayPacket(n, m, known)
        /\ Handle(n, m.id)
    BY <1>6 DEF HandleGameplay, See
  <2>2. m \in Marked
    BY <1>6 DEF TypeInv, NetOK, HelloPacket
  <2>3. known \subseteq Peer
    BY <1>3 DEF TypeInv, TableOK
  <2>4. \A f \in RelayGameplayPacket(n, m, known) : f \in Marked /\ f.id = m.id
    BY <2>2, <2>3, RelayType DEF TypeInv
  <2>5. \E new \in SUBSET {m.id} : heard' = [heard EXCEPT ![n] = @ \cup new]
    BY <2>1 DEF Handle
  <2> QED
    BY <1>2, <1>3, <1>6, <2>1, <2>4, <2>5
<1>7. CASE m.id = Id(n) /\ (HandleDiscovery(n, m, rest) \/ HandleGameplay(n, m, rest))
  <2>1. net' = rest /\ UNCHANGED <<peers, heard>>
    BY <1>7 DEF HandleDiscovery, HandleGameplay
  <2> QED
    BY <1>4, <2>1
<1> QED
  BY <1>4, <1>5, <1>6, <1>7 DEF Receive

LEMMA ReceiveType ==
  ASSUME TypeInv, NEW n \in Nodes, NEW m \in net, NEW rest, rest \subseteq net,
         Receive(n, m, rest), Churn \/ UNCHANGED churn
  PROVE  TypeInv'
<1>1. /\ UNCHANGED <<place, settings>>
  BY DEF Receive
<1>2. peers' \in [Nodes -> SUBSET Peer]
  <2>1. PICK e \in Peer : peers' \in {peers, [peers EXCEPT ![n] = @ \cup {e}]}
    BY ReceiveAdds
  <2> QED
    BY <2>1 DEF TypeInv, TableOK
<1>3. NetOK'
  BY ReceiveAdds DEF TypeInv, NetOK
<1>4. heard' \in [Nodes -> SUBSET Ids]
  <2>1. m.id \in Ids
    BY DEF TypeInv, NetOK, HelloPacket, Marked, GamePacket
  <2>2. CASE heard' = heard
    BY <2>2 DEF TypeInv, HeardOK
  <2>3. CASE \E new \in SUBSET {m.id} : heard' = [heard EXCEPT ![n] = @ \cup new]
    BY <2>1, <2>3 DEF TypeInv, HeardOK
  <2> QED
    BY <2>2, <2>3, ReceiveAdds
<1>5. churn' \in 0..MaxChurn
  BY ChurnType DEF TypeInv
<1> QED
  BY <1>1, <1>2, <1>3, <1>4, <1>5 DEF place, settings, TypeInv, PlaceOK, TableOK, HeardOK

LEMMA LoseType ==
  ASSUME TypeInv, NEW m \in net, Lose(m) PROVE TypeInv'
<1>1. Churn \/ UNCHANGED churn
  BY DEF Lose
<1>2. HeardOK'
  BY <1>1, ChurnType DEF Lose, TypeInv, HeardOK
<1> QED
  BY <1>2 DEF Lose, place, table, settings, TypeInv, PlaceOK, TableOK, NetOK

LEMMA RebindType ==
  ASSUME TypeInv, NEW n \in Nodes, NEW p \in Endpoints, Rebind(n, p) PROVE TypeInv'
<1>1. HeardOK'
  BY ChurnType DEF Rebind, TypeInv, HeardOK, Disturbed
<1>2. PlaceOK'
  BY DEF Rebind, TypeInv, PlaceOK
<1> QED
  BY <1>1, <1>2 DEF Rebind, table, settings, TypeInv, TableOK, NetOK

LEMMA ConnectType ==
  ASSUME TypeInv, NEW n \in Nodes, NEW r \in Relays, Connect(n, r) PROVE TypeInv'
<1>1. HeardOK'
  BY ChurnType DEF Connect, TypeInv, HeardOK
<1>2. PICK s \in {None, Password[r]} : saved' = [saved EXCEPT ![n] = [ep |-> at[r], secret |-> s]]
  BY DEF Connect
<1>3. s \in Secrets /\ at[r] \in Endpoints
  BY DEF Secrets, TypeInv, PlaceOK
<1>4. PlaceOK'
  BY <1>2, <1>3 DEF Connect, TypeInv, PlaceOK
<1> QED
  BY <1>1, <1>4 DEF Connect, table, settings, TypeInv, TableOK, NetOK

LEMMA TypeStep == TypeInv /\ [Next]_vars => TypeInv'
<1> SUFFICES ASSUME TypeInv, [Next]_vars PROVE TypeInv'
  OBVIOUS
<1>1. ASSUME NEW n \in Nodes, Start(n) \/ Stop(n) \/ Send(n) PROVE TypeInv'
  BY <1>1, StartType, StopType, SendType
<1>2. ASSUME NEW n \in Nodes, NEW gone, NEW due, Maintain(n, gone, due) PROVE TypeInv'
  BY <1>2, MaintainType
<1>3. ASSUME NEW n \in Nodes, NEW m \in net, Deliver(n, m) \/ DeliverTwice(n, m) PROVE TypeInv'
  <2>1. CASE Deliver(n, m)
    <3>1. net \ {m} \subseteq net /\ Receive(n, m, net \ {m}) /\ UNCHANGED churn
      BY <2>1 DEF Deliver
    <3> QED
      BY <3>1, ReceiveType
  <2>2. CASE DeliverTwice(n, m)
    <3>1. net \subseteq net /\ Receive(n, m, net) /\ Churn
      BY <2>2 DEF DeliverTwice
    <3> QED
      BY <3>1, ReceiveType
  <2> QED
    BY <1>3, <2>1, <2>2
<1>4. ASSUME NEW m \in net, Lose(m) PROVE TypeInv'
  BY <1>4, LoseType
<1>5. ASSUME NEW n \in Nodes, NEW p \in Endpoints, Rebind(n, p) PROVE TypeInv'
  BY <1>5, RebindType
<1>6. ASSUME NEW n \in Nodes, NEW r \in Relays, Connect(n, r) PROVE TypeInv'
  BY <1>6, ConnectType
<1>7. CASE UNCHANGED vars
  BY <1>7 DEF vars, place, table, settings, TypeInv, PlaceOK, TableOK, NetOK, HeardOK
<1> QED
  BY <1>1, <1>2, <1>3, <1>4, <1>5, <1>6, <1>7 DEF Next

LEMMA StoppedInit == Init => StoppedOK
BY DEF Init, StoppedOK

\* Only a running node meets anybody, and stopping forgets them all.
LEMMA StoppedStep == TypeInv /\ StoppedOK /\ [Next]_vars => StoppedOK'
<1> SUFFICES ASSUME TypeInv, StoppedOK, [Next]_vars PROVE StoppedOK'
  OBVIOUS
<1> DEFINE Only(n) == \A k \in Nodes \ {n} :
             up'[k] = up[k] /\ peers'[k] = peers[k] /\ configured'[k] = configured[k]
<1>1. ASSUME NEW n \in Nodes, Only(n), up'[n] PROVE StoppedOK'
  BY <1>1 DEF StoppedOK
<1> HIDE DEF Only
<1>2. ASSUME NEW n \in Nodes, Start(n) PROVE StoppedOK'
  <2>1. Only(n) /\ up'[n]
    BY <1>2 DEF Start, Only, TypeInv, PlaceOK, TableOK
  <2> QED
    BY <1>1, <2>1
<1>3. ASSUME NEW n \in Nodes, Stop(n) PROVE StoppedOK'
  BY <1>3 DEF Stop, StoppedOK, TypeInv, PlaceOK, TableOK
<1>4. ASSUME NEW n \in Nodes, NEW gone, NEW due, Maintain(n, gone, due) PROVE StoppedOK'
  <2>1. up'[n] /\ up' = up /\ peers' = [peers EXCEPT ![n] = @ \ gone]
    BY <1>4 DEF Maintain, ExpirePeers, place
  <2>2. \A k \in Nodes \ {n} : configured'[k] = configured[k]
    BY <1>4 DEF Maintain, Refresh, settings, TypeInv, TableOK
  <2>3. Only(n)
    BY <2>1, <2>2 DEF Only, TypeInv, TableOK
  <2> QED
    BY <1>1, <2>1, <2>3
<1>5. ASSUME NEW n \in Nodes, NEW m \in net, Deliver(n, m) \/ DeliverTwice(n, m)
      PROVE  StoppedOK'
  <2>1. PICK rest \in SUBSET net : Receive(n, m, rest)
    BY <1>5 DEF Deliver, DeliverTwice
  <2>2. up[n] /\ UNCHANGED <<up, configured>>
    BY <2>1 DEF Receive, place, settings
  <2>3. PICK e \in Peer : peers' \in {peers, [peers EXCEPT ![n] = @ \cup {e}]}
    BY <2>1, ReceiveAdds
  <2>4. Only(n)
    BY <2>2, <2>3 DEF Only, TypeInv, TableOK
  <2> QED
    BY <1>1, <2>2, <2>4
<1>6. CASE \/ \E n \in Nodes : Send(n)
           \/ \E m \in net : Lose(m)
           \/ \E n \in Nodes, p \in Endpoints : Rebind(n, p)
           \/ \E n \in Nodes, r \in Relays : Connect(n, r)
           \/ UNCHANGED vars
  <2>1. UNCHANGED <<up, peers, configured>>
    BY <1>6 DEF Send, Lose, Rebind, Connect, vars, place, table, settings
  <2> QED
    BY <2>1 DEF StoppedOK
<1> QED
  BY <1>2, <1>3, <1>4, <1>5, <1>6 DEF Next

\* Every reachable state of the nodes and of the network is well typed.
THEOREM TransportTypeCorrect == Spec => []TypeOK
BY TypeInit, TypeStep, StoppedInit, StoppedStep, TypeInvOK, PTL DEF Spec

\* A state is forwarded once at most, whatever relays and peers there are.
THEOREM NoStorms == Spec => []ForwardedOnce
<1>1. TypeInv => ForwardedOnce
  BY MarkedOnce DEF TypeInv
<1> QED
  BY <1>1, TypeInit, TypeStep, PTL DEF Spec
-----------------------------------------------------------------------------
(* A node and its echoes.                                                  *)

\* Instances named anywhere have been started.
Begun(id) == id[2] <= starts[id[1]]
NamesBegun ==
  /\ \A m \in net : Begun(m.id)
  /\ \A n \in Nodes : \A e \in peers[n] : e.id # Gameplay => Begun(e.id)
  /\ \A n \in Nodes : \A id \in heard[n] : Begun(id)

EchoInv == TypeInv /\ NamesBegun /\ OwnIgnored

LEMMA EchoInit == Init => NamesBegun /\ OwnIgnored
BY DEF Init, NamesBegun, OwnIgnored

\* Nobody has the name of an instance that starts now.
LEMMA EchoStart ==
  ASSUME EchoInv, NEW n \in Nodes, Start(n) PROVE NamesBegun' /\ OwnIgnored'
<1>1. starts \in [Nodes -> Nat]
  BY DEF EchoInv, TypeInv, PlaceOK
<1>2. PICK id \in Ids, conf \in SUBSET Endpoints, tag \in Secrets :
        /\ id[1] = n /\ id[2] = starts[n] + 1 /\ id = <<n, starts[n] + 1>>
        /\ starts' = [starts EXCEPT ![n] = @ + 1]
        /\ up' = [up EXCEPT ![n] = TRUE]
        /\ net' = net \cup Hello(n, id, tag, conf)
        /\ UNCHANGED <<peers, heard>>
  <2> DEFINE new == <<n, starts[n] + 1>>
             conf == RefreshedPeers(n, Remote[n])
             tag == RefreshedSecret(n, Secret[n])
  <2>1. Remote[n] \subseteq Endpoints /\ Secret[n] \in Secrets
    BY DEF Secrets
  <2>2. conf \subseteq Endpoints /\ tag \in Secrets
    BY <2>1, RefreshedType DEF EchoInv, TypeInv
  <2>3. new \in Ids
    BY DEF EchoInv, TypeInv, PlaceOK, Start, Ids
  <2>4. /\ starts' = [starts EXCEPT ![n] = @ + 1]
        /\ up' = [up EXCEPT ![n] = TRUE]
        /\ net' = net \cup Hello(n, new, tag, conf)
        /\ UNCHANGED <<peers, heard>>
    BY DEF Start
  <2>5. new[1] = n /\ new[2] = starts[n] + 1
    OBVIOUS
  <2> HIDE DEF conf, tag
  <2> QED
    BY <2>2, <2>3, <2>4, <2>5
<1>3. \A f \in Hello(n, id, tag, conf) : f.id = id
  BY HelloType DEF EchoInv, TypeInv
<1>4. starts' \in [Nodes -> Nat] /\ starts'[n] = starts[n] + 1
  BY <1>1, <1>2
<1>5. ASSUME NEW i \in Ids, Begun(i) PROVE Begun(i)' /\ i # id
  <2>1. i[1] \in Nodes /\ i[2] \in Nat
    BY DEF Ids
  <2>2. i # id
    BY <1>1, <1>2, <1>5, <2>1 DEF Begun
  <2>3. Begun(i)'
    BY <1>1, <1>2, <1>5, <2>1 DEF Begun
  <2> QED
    BY <2>2, <2>3
<1>6. Begun(id)'
  BY <1>1, <1>2, <1>4 DEF Begun
<1>7. \A m \in net : m.id \in Ids
  BY DEF EchoInv, TypeInv, NetOK, HelloPacket, Marked, GamePacket
<1>8. \A k \in Nodes : \A e \in peers[k] : e.id \in Ids \cup {Gameplay}
  BY DEF EchoInv, TypeInv, TableOK, Peer
<1>9. \A k \in Nodes : heard[k] \subseteq Ids
  BY DEF EchoInv, TypeInv, HeardOK
<1>10. \A m \in net' : Begun(m.id)'
  <2> SUFFICES ASSUME NEW m \in net' PROVE Begun(m.id)'
    OBVIOUS
  <2>1. CASE m \in net
    BY <1>5, <1>7, <2>1 DEF EchoInv, NamesBegun
  <2>2. CASE m \notin net
    <3>1. m.id = id
      BY <1>2, <1>3, <2>2
    <3> QED
      BY <1>6, <3>1
  <2> QED
    BY <2>1, <2>2
<1>11. \A k \in Nodes : \A e \in peers[k] : e.id # Gameplay => Begun(e.id)' /\ e.id # id
  BY <1>5, <1>8 DEF EchoInv, NamesBegun
<1>12. \A k \in Nodes : \A i \in heard[k] : Begun(i)' /\ i # id
  BY <1>5, <1>9 DEF EchoInv, NamesBegun
<1>13. NamesBegun'
  BY <1>2, <1>10, <1>11, <1>12 DEF NamesBegun
<1>14. OwnIgnored'
  <2> SUFFICES ASSUME NEW k \in Nodes, up'[k]
               PROVE  Id(k)' \notin heard[k] /\ \A e \in peers[k] : e.id # Id(k)'
    BY <1>2 DEF OwnIgnored
  <2>1. CASE k = n
    <3>1. Id(k)' = id /\ id # Gameplay
      BY <1>1, <1>2, <1>4, <2>1 DEF Id, Ids
    <3> QED
      BY <1>11, <1>12, <3>1
  <2>2. CASE k # n
    <3>1. up[k] /\ starts'[k] = starts[k]
      BY <1>1, <1>2, <2>2 DEF EchoInv, TypeInv, PlaceOK
    <3>2. Id(k)' = Id(k)
      BY <3>1 DEF Id
    <3> QED
      BY <3>1, <3>2 DEF EchoInv, OwnIgnored
  <2> QED
    BY <2>1, <2>2
<1> QED
  BY <1>13, <1>14

LEMMA EchoStop ==
  ASSUME EchoInv, NEW n \in Nodes, Stop(n) PROVE NamesBegun' /\ OwnIgnored'
<1>1. /\ UNCHANGED <<starts, net>>
      /\ \A k \in Nodes : peers'[k] \subseteq peers[k] /\ heard'[k] \subseteq heard[k]
      /\ \A k \in Nodes : up'[k] => up[k]
  BY DEF Stop, Disturbed, EchoInv, TypeInv, PlaceOK, TableOK
<1>2. NamesBegun'
  BY <1>1 DEF EchoInv, NamesBegun, Begun
<1> QED
  BY <1>1, <1>2 DEF EchoInv, OwnIgnored, Id

LEMMA EchoMaintain ==
  ASSUME EchoInv, NEW n \in Nodes, NEW gone, NEW due, Maintain(n, gone, due)
  PROVE  NamesBegun' /\ OwnIgnored'
<1>1. /\ up[n]
      /\ net' = net \cup Hello(n, Id(n), secret'[n], configured'[n])
      /\ peers' = [peers EXCEPT ![n] = @ \ gone]
      /\ \A k \in Nodes : heard'[k] \subseteq heard[k]
      /\ UNCHANGED <<starts, up>>
  BY DEF Maintain, ExpirePeers, Disturbed, place
<1>2. configured'[n] \subseteq Endpoints /\ secret'[n] \in Secrets
  BY MaintainType DEF EchoInv, TypeInv, TableOK
<1>3. \A f \in Hello(n, Id(n), secret'[n], configured'[n]) : f.id = Id(n)
  BY <1>1, <1>2, IdType, HelloType DEF EchoInv, TypeInv
<1>4. Begun(Id(n))
  BY DEF Begun, Id, EchoInv, TypeInv, PlaceOK
<1>5. \A k \in Nodes : peers'[k] \subseteq peers[k]
  BY <1>1 DEF EchoInv, TypeInv, TableOK
<1>6. NamesBegun'
  BY <1>1, <1>3, <1>4, <1>5 DEF EchoInv, NamesBegun, Begun
<1> QED
  BY <1>1, <1>5, <1>6 DEF EchoInv, OwnIgnored, Id

LEMMA EchoSend ==
  ASSUME EchoInv, NEW n \in Nodes, Send(n) PROVE NamesBegun' /\ OwnIgnored'
<1>1. UNCHANGED <<starts, up, peers, heard>>
  BY DEF Send, place, table
<1>2. \A m \in net' \ net : m.id = Id(n)
  BY SendNet DEF EchoInv
<1>3. Begun(Id(n))
  BY DEF Begun, Id, EchoInv, TypeInv, PlaceOK
<1>4. NamesBegun'
  BY <1>1, <1>2, <1>3 DEF EchoInv, NamesBegun, Begun
<1> QED
  BY <1>1, <1>4 DEF EchoInv, OwnIgnored, Id

LEMMA EchoReceive ==
  ASSUME EchoInv, NEW n \in Nodes, NEW m \in net, NEW rest, rest \subseteq net,
         Receive(n, m, rest)
  PROVE  NamesBegun' /\ OwnIgnored'
<1>1. UNCHANGED <<starts, up>>
  BY DEF Receive, place
<1>2. PICK e \in Peer : /\ peers' \in {peers, [peers EXCEPT ![n] = @ \cup {e}]}
                        /\ e.id \in {m.id, Gameplay} /\ e.id # Id(n)
  BY ReceiveAdds DEF EchoInv
<1>3. \A k \in Nodes : peers'[k] \subseteq peers[k] \cup (IF k = n THEN {e} ELSE {})
  BY <1>2 DEF EchoInv, TypeInv, TableOK
<1>4. \A k \in Nodes : \A i \in heard'[k] : i \in heard[k] \/ (k = n /\ i = m.id /\ i # Id(n))
  <2>1. CASE heard' = heard
    BY <2>1
  <2>2. CASE \E new \in SUBSET {m.id} : m.id # Id(n) /\ heard' = [heard EXCEPT ![n] = @ \cup new]
    BY <2>2 DEF EchoInv, TypeInv, HeardOK
  <2> QED
    BY <2>1, <2>2, ReceiveAdds DEF EchoInv
<1>5. \A f \in net' \ rest : f.id \in {Id(n), m.id}
  BY ReceiveAdds DEF EchoInv
<1>6. Begun(Id(n)) /\ Begun(m.id)
  BY DEF Begun, Id, EchoInv, NamesBegun, TypeInv, PlaceOK
<1>7. NamesBegun'
  <2>1. \A f \in net' : Begun(f.id)
    BY <1>5, <1>6 DEF EchoInv, NamesBegun
  <2>2. \A k \in Nodes : \A d \in peers'[k] : d.id # Gameplay => Begun(d.id)
    <3>1. e.id # Gameplay => Begun(e.id)
      BY <1>2, <1>6
    <3>2. \A k \in Nodes : \A d \in peers'[k] : d \in peers[k] \/ d = e
      BY <1>3
    <3> QED
      BY <3>1, <3>2, Zenon DEF EchoInv, NamesBegun
  <2>3. \A k \in Nodes : \A i \in heard'[k] : Begun(i)
    BY <1>4, <1>6, Zenon DEF EchoInv, NamesBegun
  <2> QED
    BY <1>1, <2>1, <2>2, <2>3 DEF NamesBegun, Begun
<1>8. OwnIgnored'
  <2> SUFFICES ASSUME NEW k \in Nodes, up[k]
               PROVE  Id(k) \notin heard'[k] /\ \A d \in peers'[k] : d.id # Id(k)
    BY <1>1 DEF OwnIgnored, Id
  <2>1. Id(k) \notin heard[k] /\ \A d \in peers[k] : d.id # Id(k)
    BY DEF EchoInv, OwnIgnored
  <2>2. Id(k) \notin heard'[k]
    BY <1>4, <2>1
  <2>3. \A d \in peers'[k] : d.id # Id(k)
    BY <1>2, <1>3, <2>1
  <2> QED
    BY <2>2, <2>3
<1> QED
  BY <1>7, <1>8

LEMMA EchoStep == EchoInv /\ [Next]_vars => NamesBegun' /\ OwnIgnored'
<1> SUFFICES ASSUME EchoInv, [Next]_vars PROVE NamesBegun' /\ OwnIgnored'
  OBVIOUS
<1>1. ASSUME NEW n \in Nodes, Start(n) \/ Stop(n) \/ Send(n) PROVE NamesBegun' /\ OwnIgnored'
  BY <1>1, EchoStart, EchoStop, EchoSend
<1>2. ASSUME NEW n \in Nodes, NEW gone, NEW due, Maintain(n, gone, due) PROVE NamesBegun' /\ OwnIgnored'
  BY <1>2, EchoMaintain
<1>3. ASSUME NEW n \in Nodes, NEW m \in net, Deliver(n, m) \/ DeliverTwice(n, m)
      PROVE  NamesBegun' /\ OwnIgnored'
  <2>1. PICK rest \in {net, net \ {m}} : Receive(n, m, rest)
    BY <1>3 DEF Deliver, DeliverTwice
  <2>2. rest \subseteq net
    OBVIOUS
  <2> QED
    BY <2>1, <2>2, EchoReceive
<1>4. ASSUME NEW m \in net, Lose(m) PROVE NamesBegun' /\ OwnIgnored'
  BY <1>4 DEF Lose, place, table, EchoInv, NamesBegun, OwnIgnored, Begun, Id
<1>5. ASSUME NEW n \in Nodes, NEW p \in Endpoints, Rebind(n, p) PROVE NamesBegun' /\ OwnIgnored'
  BY <1>5 DEF Rebind, Disturbed, table, EchoInv, NamesBegun, OwnIgnored, Begun, Id
<1>6. ASSUME NEW n \in Nodes, NEW r \in Relays, Connect(n, r) PROVE NamesBegun' /\ OwnIgnored'
  BY <1>6 DEF Connect, table, EchoInv, NamesBegun, OwnIgnored, Begun, Id
<1>7. CASE UNCHANGED vars
  BY <1>7 DEF vars, place, table, EchoInv, NamesBegun, OwnIgnored, Begun, Id
<1> QED
  BY <1>1, <1>2, <1>3, <1>4, <1>5, <1>6, <1>7 DEF Next

\* A running node never takes the hellos and states of its running instance,
\* which broadcasts and relays bring back to it, for another player's.
THEOREM EchoesAreIgnored == Spec => []OwnIgnored
<1>1. Init => EchoInv
  BY TypeInit, EchoInit DEF EchoInv
<1>2. EchoInv /\ [Next]_vars => EchoInv'
  BY TypeStep, EchoStep DEF EchoInv
<1>3. EchoInv => OwnIgnored
  BY DEF EchoInv
<1> QED
  BY <1>1, <1>2, <1>3, PTL DEF Spec
=============================================================================
