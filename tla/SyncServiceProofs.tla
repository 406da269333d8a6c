------------------------- MODULE SyncServiceProofs -------------------------
(***************************************************************************)
(* What the revisions of the legacy service stand for, for any number of   *)
(* players, characters, starts, loads, captures and packets on their way.  *)
(***************************************************************************)
EXTENDS SyncService, TLAPS

USE ServiceAssumption

-----------------------------------------------------------------------------
(* Type correctness.                                                       *)

\* TypeOK by the part of the state it is about.
MachinesOK ==
  /\ config \in [Machines -> Profiles]
  /\ link \in [Machines -> {"off", "none", "str", "udp"}]
  /\ runs \in [Players -> 0..MaxRuns]

PlayersOK ==
  /\ char \in [Players -> Names] /\ \A p \in Players : char[p] \in Characters[p]
  /\ worn \in [Players -> Looks]

CapturesOK ==
  /\ local \in [Players -> Looks \cup {None}]
  /\ rev \in [Players -> Nat]
  /\ pending \in [Players -> BOOLEAN]
  /\ asked \in [Players -> Seq(Looks)]

\* A pending capture stands for one that was asked for, every other one was
\* left over by a load.
CountOK ==
  /\ churn \in 0..MaxChurn
  /\ \A p \in Players : Len(asked[p]) <= churn + (IF pending[p] THEN 1 ELSE 0)

NetOK == net \subseteq Packet

ViewOK ==
  /\ snaps \in [Ids -> Snapshot \cup {None}]
  /\ blocked \subseteq Actors /\ held \subseteq Actors
  /\ named \in [Actors -> Names \cup {None}]

TypeInv == MachinesOK /\ PlayersOK /\ CapturesOK /\ CountOK /\ NetOK /\ ViewOK

LEMMA NameType == ASSUME NEW p \in Players, NEW n \in Characters[p] PROVE n \in Names
BY DEF Names

LEMMA TypeInvOK == TypeInv => TypeOK
<1> SUFFICES ASSUME TypeInv PROVE TypeOK
  OBVIOUS
<1>1. ASSUME NEW p \in Players PROVE Len(asked[p]) <= 1 + churn
  <2>1. Len(asked[p]) \in Nat /\ churn \in Nat
    BY DEF TypeInv, CapturesOK, CountOK
  <2> QED
    BY <2>1 DEF TypeInv, CountOK
<1> QED
  BY <1>1, Zenon DEF TypeInv, TypeOK, MachinesOK, PlayersOK, CapturesOK, CountOK, NetOK, ViewOK

LEMMA LinksType == ASSUME NEW c PROVE Links(c) \subseteq {"off", "none", "str", "udp"} \ {"off"}
BY DEF Links

LEMMA RemoveType ==
  ASSUME NEW s \in Seq(Looks), NEW i \in 1..Len(s)
  PROVE  RemoveAt(s, i) \in Seq(Looks) /\ Len(RemoveAt(s, i)) = Len(s) - 1
<1> DEFINE a == SubSeq(s, 1, i - 1)
           b == SubSeq(s, i + 1, Len(s))
<1>1. a \in Seq(Looks) /\ Len(a) = i - 1
  OBVIOUS
<1>2. b \in Seq(Looks) /\ Len(b) = Len(s) - i
  OBVIOUS
<1>3. a \o b \in Seq(Looks) /\ Len(a \o b) = Len(a) + Len(b)
  BY <1>1, <1>2
<1> HIDE DEF a, b
<1>4. Len(a \o b) = Len(s) - 1
  BY <1>1, <1>2, <1>3
<1> USE DEF a, b
<1> QED
  BY <1>3, <1>4 DEF RemoveAt

\* What a player sends is a packet.
LEMMA SendType ==
  ASSUME MachinesOK, PlayersOK, NetOK, NEW p \in Players, NEW slots \in Looks,
         NEW r \in Nat, SendState(p, slots, r), link[p] # "off" => runs[p] >= 1
  PROVE  NetOK'
<1> DEFINE m == [id |-> Id(p), name |-> char[p], rev |-> r, slots |-> slots]
<1>1. CASE link[p] = link[Me] /\ link[Me] \in {"str", "udp"}
  <2>1. Id(p) \in Ids
    BY <1>1 DEF Id, Ids, MachinesOK
  <2>2. m \in Packet
    BY <2>1 DEF Packet, PlayersOK
  <2>3. net' = net \cup {m}
    BY <1>1, Zenon DEF SendState
  <2> QED
    BY <2>2, <2>3 DEF NetOK
<1>2. CASE ~(link[p] = link[Me] /\ link[Me] \in {"str", "udp"})
  <2>1. net' = net \cup {}
    BY <1>2, Zenon DEF SendState
  <2> QED
    BY <2>1 DEF NetOK
<1> QED
  BY <1>1, <1>2

\* A player whose game runs has started it; one whose game does not has
\* nothing captured.
Started ==
  \A p \in Players :
    /\ link[p] # "off" => runs[p] >= 1
    /\ link[p] = "off" => local[p] = None /\ asked[p] = <<>>

LEMMA TypeInit == Init => TypeInv /\ Started
<1> SUFFICES ASSUME Init PROVE TypeInv /\ Started
  OBVIOUS
<1>1. MachinesOK
  BY DEF Init, MachinesOK
<1>2. PlayersOK
  <2>1. \A p \in Players : char[p] \in Characters[p] /\ char[p] \in Names
    BY NameType DEF Init
  <2>2. char \in [Players -> Names]
    BY <2>1 DEF Init
  <2>3. worn \in [Players -> Looks]
    BY DEF Init
  <2> QED
    BY <2>1, <2>2, <2>3 DEF PlayersOK
<1>3. CapturesOK /\ NetOK
  <2>1. asked \in [Players -> Seq(Looks)] /\ pending \in [Players -> BOOLEAN]
    BY DEF Init
  <2> QED
    BY <2>1 DEF Init, CapturesOK, NetOK
<1>4. CountOK
  BY DEF Init, CountOK
<1>5. ViewOK
  <2>1. PICK n \in {char[p] : p \in Players} \cup {None} : named = [a \in Actors |-> n]
    BY DEF Init
  <2>2. n \in Names \cup {None}
    BY <1>2, <2>1 DEF PlayersOK
  <2> QED
    BY <2>1, <2>2 DEF Init, ViewOK
<1>6. Started
  BY DEF Init, Started, Machines
<1> QED
  BY <1>1, <1>2, <1>3, <1>4, <1>5, <1>6 DEF TypeInv

LEMMA CapturedType ==
  ASSUME TypeInv, Started, NEW p \in Players, NEW due, Captured(p, due)
  PROVE  TypeInv' /\ Started'
<1>1. PICK i \in DOMAIN asked[p], slots \in Looks :
        /\ asked' = [asked EXCEPT ![p] = RemoveAt(@, i)]
        /\ pending' = [pending EXCEPT ![p] = FALSE]
        /\ Churn \/ UNCHANGED churn
        /\ OnLocalCapture(p, slots, due)
        /\ UNCHANGED <<config, link, runs, char, worn, receiver, named>>
  BY DEF Captured
<1>2. OnLocalCapture(p, slots, due)
  BY <1>1
<1>3. asked[p] \in Seq(Looks) /\ i \in 1..Len(asked[p])
  BY <1>1 DEF TypeInv, CapturesOK
<1>4. slots \in Looks
  BY <1>1
<1>5. RemoveAt(asked[p], i) \in Seq(Looks) /\ Len(RemoveAt(asked[p], i)) = Len(asked[p]) - 1
  BY <1>3, RemoveType
<1>6. link[p] # "off" /\ runs[p] >= 1
  <2>1. asked[p] # <<>>
    BY <1>3
  <2> QED
    BY <2>1 DEF Started
<1>7. local' \in [Players -> Looks \cup {None}] /\ rev' \in [Players -> Nat]
      /\ \A q \in Players \ {p} : local'[q] = local[q]
  <2>1. /\ local' = [local EXCEPT ![p] = slots] \/ local' = local
        /\ rev' = [rev EXCEPT ![p] = rev[p] + 1] \/ rev' = rev
    BY <1>2 DEF OnLocalCapture
  <2>2. local \in [Players -> Looks \cup {None}] /\ rev \in [Players -> Nat]
    BY DEF TypeInv, CapturesOK
  <2>3. rev' \in [Players -> Nat]
    BY <2>1, <2>2
  <2> QED
    BY <1>4, <2>1, <2>2, <2>3
<1>8. CapturesOK'
  BY <1>1, <1>5, <1>7 DEF TypeInv, CapturesOK
<1>9. NetOK'
  <2>1. CASE net' = net
    BY <2>1 DEF TypeInv, NetOK
  <2>2. CASE \E r \in Nat : SendState(p, slots, r)
    BY <1>4, <1>6, <2>2, SendType DEF TypeInv
  <2>3. rev[p] \in Nat /\ rev[p] + 1 \in Nat
    BY DEF TypeInv, CapturesOK
  <2> QED
    BY <1>2, <2>1, <2>2, <2>3 DEF OnLocalCapture
<1>10. CountOK'
  <2>1. ASSUME NEW q \in Players PROVE Len(asked'[q]) <= churn' + (IF pending'[q] THEN 1 ELSE 0)
    <3>1. Len(asked[q]) <= churn + (IF pending[q] THEN 1 ELSE 0) /\ churn' >= churn
          /\ churn \in Nat /\ churn' \in Nat /\ Len(asked[q]) \in Nat
      BY <1>1 DEF Churn, TypeInv, CountOK, CapturesOK
    <3>2. CASE q = p
      <4>1. asked'[p] = RemoveAt(asked[p], i) /\ pending'[p] = FALSE
        BY <1>1 DEF TypeInv, CapturesOK
      <4>2. Len(asked[p]) <= churn + 1
        BY <3>1, <3>2
      <4> QED
        BY <1>5, <3>1, <3>2, <4>1, <4>2
    <3>3. CASE q # p
      <4>1. asked'[q] = asked[q] /\ pending'[q] = pending[q]
        BY <1>1, <3>3 DEF TypeInv, CapturesOK
      <4> QED
        BY <3>1, <4>1
    <3> QED
      BY <3>2, <3>3
  <2> QED
    BY <1>1, <2>1 DEF Churn, TypeInv, CountOK
<1>11. MachinesOK' /\ PlayersOK' /\ ViewOK'
  BY <1>1 DEF TypeInv, MachinesOK, PlayersOK, ViewOK, receiver
<1>12. Started'
  <2>1. link' = link /\ runs' = runs /\ \A q \in Players \ {p} : asked'[q] = asked[q]
    BY <1>1 DEF TypeInv, CapturesOK
  <2> QED
    BY <1>6, <1>7, <2>1 DEF Started
<1> QED
  BY <1>8, <1>9, <1>10, <1>11, <1>12 DEF TypeInv

\* A packet taken in leaves the snapshots typed.
LEMMA HandleType ==
  ASSUME ViewOK, NEW m \in Packet, HandlePacket(m)
  PROVE  snaps' \in [Ids -> Snapshot \cup {None}]
<1>1. PICK best \in Nearest :
        LET known == snaps[m.id] # None /\ snaps[m.id].name = m.name IN
        snaps' = IF known /\ m.rev < snaps[m.id].rev THEN snaps
                 ELSE [snaps EXCEPT ![m.id] = [name |-> m.name, rev |-> m.rev,
                                               slots |-> m.slots, proxy |-> best[m.name]]]
  BY DEF HandlePacket
<1>2. [name |-> m.name, rev |-> m.rev, slots |-> m.slots, proxy |-> best[m.name]] \in Snapshot
  BY DEF Packet, Snapshot, Nearest
<1> QED
  BY <1>1, <1>2, Zenon DEF ViewOK
\* Steps that leave the captures alone keep their count.
LEMMA CountFrame ==
  ASSUME CountOK, CapturesOK, churn' \in 0..MaxChurn, churn' >= churn,
         UNCHANGED <<pending, asked>>
  PROVE  CountOK'
<1>1. ASSUME NEW q \in Players PROVE Len(asked'[q]) <= churn' + (IF pending'[q] THEN 1 ELSE 0)
  <2>1. asked'[q] = asked[q] /\ pending'[q] = pending[q]
    OBVIOUS
  <2>2. Len(asked[q]) <= churn + (IF pending[q] THEN 1 ELSE 0)
    BY DEF CountOK
  <2>3. Len(asked[q]) \in Nat /\ churn \in Nat /\ churn' \in Nat
    BY DEF CapturesOK, CountOK
  <2>4. CASE pending[q]
    BY <2>1, <2>2, <2>3, <2>4
  <2>5. CASE ~pending[q]
    BY <2>1, <2>2, <2>3, <2>5
  <2> QED
    BY <2>4, <2>5
<1> QED
  BY <1>1 DEF CountOK

LEMMA ChurnType ==
  ASSUME churn \in 0..MaxChurn, Churn
  PROVE  churn' \in 0..MaxChurn /\ churn' = churn + 1 /\ churn' >= churn
BY DEF Churn

LEMMA StartType ==
  ASSUME TypeInv, Started, NEW n \in Machines, Start(n)
  PROVE  TypeInv' /\ Started'
<1>1. PICK l \in Links(config[n]) : link' = [link EXCEPT ![n] = l]
  BY DEF Start
<1>2. l \in {"none", "str", "udp"}
  BY <1>1, LinksType
<1>3. /\ UNCHANGED <<config, char, worn, local, rev, pending, asked, receiver, net, named, churn>>
      /\ runs' = runs \/ (n # Me /\ runs[n] < MaxRuns /\ runs' = [runs EXCEPT ![n] = runs[n] + 1])
      /\ n = Me => runs' = runs
      /\ n # Me => runs' = [runs EXCEPT ![n] = runs[n] + 1]
  BY DEF Start
<1>4. n # Me => n \in Players
  BY DEF Machines
<1>5. runs' \in [Players -> 0..MaxRuns]
  BY <1>3, <1>4 DEF TypeInv, MachinesOK
<1>6. MachinesOK'
  BY <1>1, <1>2, <1>3, <1>5 DEF TypeInv, MachinesOK
<1>7. PlayersOK' /\ CapturesOK' /\ NetOK' /\ ViewOK'
  BY <1>3 DEF TypeInv, PlayersOK, CapturesOK, NetOK, ViewOK, receiver
<1>8. CountOK'
  <2>1. churn \in Nat /\ churn \in 0..MaxChurn
    BY DEF TypeInv, CountOK
  <2> QED
    BY <1>3, <2>1, CountFrame DEF TypeInv
<1>9. ASSUME NEW q \in Players
      PROVE  /\ link'[q] # "off" => runs'[q] >= 1
             /\ link'[q] = "off" => local'[q] = None /\ asked'[q] = <<>>
  <2>1. CASE q = n
    <3>1. n # Me /\ link'[q] = l /\ runs'[q] = runs[q] + 1 /\ runs[q] \in Nat
      BY <1>1, <1>3, <2>1 DEF TypeInv, MachinesOK
    <3> QED
      BY <1>2, <3>1
  <2>2. CASE q # n
    <3>1. link'[q] = link[q] /\ runs'[q] = runs[q]
      BY <1>1, <1>3, <2>2 DEF TypeInv, MachinesOK, Machines
    <3> QED
      BY <1>3, <3>1 DEF Started
  <2> QED
    BY <2>1, <2>2
<1> QED
  BY <1>6, <1>7, <1>8, <1>9 DEF TypeInv, Started

LEMMA QuitType ==
  ASSUME TypeInv, Started, NEW p \in Players, Quit(p)
  PROVE  TypeInv' /\ Started'
<1>1. /\ link' = [link EXCEPT ![p] = "off"] /\ local' = [local EXCEPT ![p] = None]
      /\ rev' = [rev EXCEPT ![p] = 0] /\ pending' = [pending EXCEPT ![p] = FALSE]
      /\ asked' = [asked EXCEPT ![p] = <<>>]
      /\ UNCHANGED <<config, runs, char, worn, receiver, net, named>>
  BY DEF Quit
<1>2. MachinesOK' /\ PlayersOK' /\ NetOK' /\ ViewOK'
  BY <1>1 DEF TypeInv, MachinesOK, PlayersOK, NetOK, ViewOK, receiver
<1>3. CapturesOK'
  <2>1. <<>> \in Seq(Looks)
    OBVIOUS
  <2> QED
    BY <1>1, <2>1 DEF TypeInv, CapturesOK
<1>4. churn' \in 0..MaxChurn /\ churn' = churn + 1 /\ churn \in Nat
  BY ChurnType DEF Quit, TypeInv, CountOK
<1>5. ASSUME NEW q \in Players PROVE Len(asked'[q]) <= churn' + (IF pending'[q] THEN 1 ELSE 0)
  <2>1. CASE q = p
    <3>1. Len(asked'[q]) = 0 /\ pending'[q] = FALSE
      BY <1>1, <2>1 DEF TypeInv, CapturesOK
    <3> QED
      BY <1>4, <3>1
  <2>2. CASE q # p
    <3>1. asked'[q] = asked[q] /\ pending'[q] = pending[q] /\ Len(asked[q]) \in Nat
      BY <1>1, <2>2 DEF TypeInv, CapturesOK
    <3>2. Len(asked[q]) <= churn + (IF pending[q] THEN 1 ELSE 0)
      BY DEF TypeInv, CountOK
    <3> QED
      BY <1>4, <3>1, <3>2
  <2> QED
    BY <2>1, <2>2
<1>6. CountOK'
  BY <1>4, <1>5 DEF CountOK
<1>7. ASSUME NEW q \in Players
      PROVE  /\ link'[q] # "off" => runs'[q] >= 1
             /\ link'[q] = "off" => local'[q] = None /\ asked'[q] = <<>>
  BY <1>1 DEF Started, TypeInv, MachinesOK, CapturesOK, Machines
<1> QED
  BY <1>2, <1>3, <1>6, <1>7 DEF TypeInv, Started

LEMMA AskType ==
  ASSUME TypeInv, Started, NEW p \in Players, Ask(p)
  PROVE  TypeInv' /\ Started'
<1>1. /\ link[p] # "off" /\ ~pending[p]
      /\ pending' = [pending EXCEPT ![p] = TRUE]
      /\ asked' = [asked EXCEPT ![p] = Append(asked[p], worn[p])]
      /\ UNCHANGED <<config, link, runs, char, worn, local, rev, receiver, net, named, churn>>
  BY DEF Ask
<1>2. asked[p] \in Seq(Looks) /\ worn[p] \in Looks
  BY DEF TypeInv, CapturesOK, PlayersOK
<1>3. Append(asked[p], worn[p]) \in Seq(Looks) /\ Len(Append(asked[p], worn[p])) = Len(asked[p]) + 1
  BY <1>2
<1>4. MachinesOK' /\ PlayersOK' /\ NetOK' /\ ViewOK'
  BY <1>1 DEF TypeInv, MachinesOK, PlayersOK, NetOK, ViewOK, receiver
<1>5. CapturesOK'
  BY <1>1, <1>3 DEF TypeInv, CapturesOK
<1>6. churn' = churn /\ churn \in 0..MaxChurn /\ churn \in Nat
  BY <1>1 DEF TypeInv, CountOK
<1>7. ASSUME NEW q \in Players PROVE Len(asked'[q]) <= churn' + (IF pending'[q] THEN 1 ELSE 0)
  <2>0. Len(asked[q]) <= churn + (IF pending[q] THEN 1 ELSE 0) /\ Len(asked[q]) \in Nat
    BY DEF TypeInv, CountOK, CapturesOK
  <2>1. CASE q = p
    <3>1. Len(asked'[q]) = Len(asked[q]) + 1 /\ pending'[q]
      BY <1>1, <1>3, <2>1 DEF TypeInv, CapturesOK
    <3>2. Len(asked[q]) <= churn
      BY <1>1, <1>6, <2>0, <2>1
    <3> QED
      BY <1>6, <2>0, <3>1, <3>2
  <2>2. CASE q # p
    <3>1. asked'[q] = asked[q] /\ pending'[q] = pending[q]
      BY <1>1, <2>2 DEF TypeInv, CapturesOK
    <3> QED
      BY <1>6, <2>0, <3>1
  <2> QED
    BY <2>1, <2>2
<1>8. CountOK'
  BY <1>6, <1>7 DEF CountOK
<1>9. Started'
  BY <1>1 DEF Started, TypeInv, CapturesOK
<1> QED
  BY <1>4, <1>5, <1>8, <1>9 DEF TypeInv
LEMMA LoadType ==
  ASSUME TypeInv, Started, NEW p \in Players, NEW name \in Characters[p], NEW look \in Looks,
         LoadGame(p, name, look)
  PROVE  TypeInv' /\ Started'
<1>1. /\ link[p] # "off"
      /\ char' = [char EXCEPT ![p] = name] /\ worn' = [worn EXCEPT ![p] = look]
      /\ asked' \in {asked, [asked EXCEPT ![p] = <<>>]}
      /\ local' = [local EXCEPT ![p] = None] /\ pending' = [pending EXCEPT ![p] = FALSE]
      /\ UNCHANGED <<config, link, runs, rev, receiver, net, named>>
  BY DEF LoadGame, Loaded
<1>2. MachinesOK' /\ NetOK' /\ ViewOK'
  BY <1>1 DEF TypeInv, MachinesOK, NetOK, ViewOK, receiver
<1>3. PlayersOK'
  BY <1>1, NameType DEF TypeInv, PlayersOK
<1>4. asked' \in [Players -> Seq(Looks)]
      /\ \A q \in Players : Len(asked'[q]) \in Nat /\ Len(asked'[q]) <= Len(asked[q])
                            /\ (q # p => asked'[q] = asked[q])
  <2>1. asked \in [Players -> Seq(Looks)] /\ <<>> \in Seq(Looks) /\ Len(<<>>) = 0
    BY DEF TypeInv, CapturesOK
  <2>2. \A q \in Players : asked'[q] = asked[q] \/ (q = p /\ asked'[q] = <<>>)
    BY <1>1, <2>1
  <2>3. asked' \in [Players -> Seq(Looks)]
    BY <1>1, <2>1
  <2>4. \A q \in Players : Len(asked[q]) \in Nat
    BY <2>1
  <2> QED
    BY <2>1, <2>2, <2>3, <2>4
<1>5. CapturesOK'
  BY <1>1, <1>4 DEF TypeInv, CapturesOK
<1>6. churn' \in 0..MaxChurn /\ churn' = churn + 1 /\ churn \in Nat
  BY ChurnType DEF LoadGame, TypeInv, CountOK
<1>7. ASSUME NEW q \in Players PROVE Len(asked'[q]) <= churn' + (IF pending'[q] THEN 1 ELSE 0)
  <2>1. Len(asked[q]) <= churn + (IF pending[q] THEN 1 ELSE 0) /\ Len(asked[q]) \in Nat
    BY DEF TypeInv, CountOK, CapturesOK
  <2>2. Len(asked[q]) <= churn + 1
    BY <1>6, <2>1
  <2>3. CASE q = p
    <3>1. pending'[q] = FALSE
      BY <1>1, <2>3 DEF TypeInv, CapturesOK
    <3> QED
      BY <1>4, <1>6, <2>1, <2>2, <3>1
  <2>4. CASE q # p
    <3>1. pending'[q] = pending[q] /\ asked'[q] = asked[q]
      BY <1>1, <1>4, <2>4 DEF TypeInv, CapturesOK
    <3> QED
      BY <1>6, <2>1, <3>1
  <2> QED
    BY <2>3, <2>4
<1>8. CountOK'
  BY <1>6, <1>7 DEF CountOK
<1>9. Started'
  BY <1>1, <1>4 DEF Started, TypeInv, CapturesOK
<1> QED
  BY <1>2, <1>3, <1>5, <1>8, <1>9 DEF TypeInv

\* The receiving machine's steps leave the senders alone.
LEMMA ReceiveType ==
  ASSUME TypeInv, Started, NEW m \in net, Deliver(m) \/ DeliverTwice(m) \/ Lose(m)
  PROVE  TypeInv' /\ Started'
<1>1. UNCHANGED <<config, sender, blocked, held, named>> /\ net' \subseteq net
  BY DEF Deliver, DeliverTwice, Lose, Receive, receiver
<1>2. m \in Packet
  BY DEF TypeInv, NetOK
<1>3. snaps' \in [Ids -> Snapshot \cup {None}]
  <2>1. HandlePacket(m) \/ snaps' = snaps
    BY DEF Deliver, DeliverTwice, Lose, Receive, receiver
  <2> QED
    BY <1>2, <2>1, HandleType DEF TypeInv, ViewOK
<1>4. churn' \in 0..MaxChurn /\ churn' >= churn
  <2>1. churn' = churn \/ Churn
    BY DEF Deliver, DeliverTwice, Lose
  <2> QED
    BY <2>1, ChurnType DEF TypeInv, CountOK
<1>5. CountOK'
  BY <1>1, <1>4, CountFrame DEF TypeInv, sender
<1>6. MachinesOK' /\ PlayersOK' /\ CapturesOK'
  BY <1>1 DEF TypeInv, MachinesOK, PlayersOK, CapturesOK, sender
<1>7. NetOK' /\ ViewOK'
  BY <1>1, <1>3 DEF TypeInv, NetOK, ViewOK
<1>8. Started'
  BY <1>1 DEF Started, sender
<1> QED
  BY <1>5, <1>6, <1>7, <1>8 DEF TypeInv

\* RefreshProxyMitigation gives each snapshot a proxy of its name.
LEMMA RefreshType ==
  ASSUME ViewOK, Refresh
  PROVE  ViewOK'
<1>1. PICK best \in Nearest :
        snaps' = [i \in Ids |-> IF snaps[i] = None THEN None
                                ELSE [snaps[i] EXCEPT !.proxy = best[snaps[i].name]]]
  BY DEF Refresh
<1>2. best \in [Names -> Actors \cup {None}]
  BY DEF Nearest
<1>3. ASSUME NEW i \in Ids, snaps[i] # None
      PROVE  [snaps[i] EXCEPT !.proxy = best[snaps[i].name]] \in Snapshot
  <2>1. snaps[i] \in Snapshot
    BY <1>3 DEF ViewOK
  <2> QED
    BY <1>2, <2>1 DEF Snapshot
<1>4. snaps' \in [Ids -> Snapshot \cup {None}]
  BY <1>1, <1>3
<1> DEFINE current == {snaps'[i].proxy : i \in {j \in Ids : snaps'[j] # None}} \ {None}
<1>5. current \subseteq Actors
  BY <1>4 DEF Snapshot
<1>6. /\ blocked' = IF config[Me].suppress THEN current ELSE {}
      /\ held' = (held \ (blocked \ blocked')) \cup (blocked' \ blocked)
      /\ named' = named
  BY DEF Refresh
<1> HIDE DEF current
<1>7. blocked' \subseteq Actors
  BY <1>5, <1>6, Zenon
<1> QED
  BY <1>4, <1>6, <1>7 DEF ViewOK

LEMMA ViewType ==
  ASSUME TypeInv, Started,
         \/ Refresh \/ Reset
         \/ \E a \in Actors : Despawn(a) \/ \E n \in Names : Spawn(a, n)
         \/ \E p \in Players, look \in Looks : Wear(p, look)
         \/ UNCHANGED vars
  PROVE  TypeInv' /\ Started'
<1>1. UNCHANGED <<config, link, runs, char, local, rev, pending, asked, net>>
  BY DEF Refresh, Reset, Despawn, Spawn, Wear, vars, sender
<1>2. churn' \in 0..MaxChurn /\ churn' >= churn
  <2>1. churn' = churn \/ Churn
    BY DEF Refresh, Reset, Despawn, Spawn, Wear, vars
  <2> QED
    BY <2>1, ChurnType DEF TypeInv, CountOK
<1>3. CountOK'
  BY <1>1, <1>2, CountFrame DEF TypeInv
<1>4. ViewOK'
  <2>1. CASE Refresh
    BY <2>1, RefreshType DEF TypeInv
  <2>2. CASE Reset
    BY <2>2 DEF Reset, TypeInv, ViewOK
  <2>3. ASSUME NEW a \in Actors, Despawn(a) \/ \E n \in Names : Spawn(a, n) PROVE ViewOK'
    BY <2>3 DEF Despawn, Spawn, TypeInv, ViewOK, receiver
  <2>4. CASE UNCHANGED vars \/ \E p \in Players, look \in Looks : Wear(p, look)
    BY <2>4 DEF Wear, TypeInv, ViewOK, vars, receiver
  <2> QED
    BY <2>1, <2>2, <2>3, <2>4
<1>5. worn' \in [Players -> Looks]
  <2>1. ASSUME NEW p \in Players, NEW look \in Looks, Wear(p, look) PROVE worn' \in [Players -> Looks]
    BY <2>1 DEF Wear, TypeInv, PlayersOK
  <2>2. CASE worn' = worn
    BY <2>2 DEF TypeInv, PlayersOK
  <2> QED
    BY <2>1, <2>2 DEF Refresh, Reset, Despawn, Spawn, vars, sender
<1>6. MachinesOK' /\ PlayersOK' /\ CapturesOK' /\ NetOK'
  BY <1>1, <1>5 DEF TypeInv, MachinesOK, PlayersOK, CapturesOK, NetOK
<1>7. Started'
  BY <1>1 DEF Started
<1> QED
  BY <1>3, <1>4, <1>6, <1>7 DEF TypeInv

LEMMA TypeStep == TypeInv /\ Started /\ [Next]_vars => (TypeInv /\ Started)'
<1> SUFFICES ASSUME TypeInv, Started, [Next]_vars PROVE TypeInv' /\ Started'
  OBVIOUS
<1> QED
  BY StartType, QuitType, AskType, CapturedType, LoadType, ReceiveType, ViewType DEF Next

\* The service is well typed for any players, profiles and orders of events; in
\* particular captures overlap at most once for each game load.
THEOREM ServiceTypeCorrect == Spec => []TypeOK
BY TypeInit, TypeStep, TypeInvOK, PTL DEF Spec

-----------------------------------------------------------------------------
(* What a revision stands for.                                             *)

\* Nobody has heard of a start of the game that is still to come.
Past == \A m \in States : m.id \in Ids /\ m.id[2] <= runs[m.id[1]]

\* Of the run that goes on no revision is beyond the present one, and the
\* present one stands for what was captured last, if anything was since the
\* last load.
Current ==
  \A m \in States, p \in Players :
    m.id = Id(p) /\ link[p] # "off" =>
      /\ m.rev <= rev[p]
      /\ m.rev = rev[p] /\ local[p] # None => m.name = char[p] /\ m.slots = local[p]

RevisionInv == States \subseteq Packet /\ Past /\ Current /\ RevisionNamesState

Sent(p, slots, r) == [id |-> Id(p), name |-> char[p], rev |-> r, slots |-> slots]

\* States grow by what is sent only.
LEMMA StatesGrow ==
  ASSUME UNCHANGED snaps, NEW p \in Players, NEW slots, NEW r, SendState(p, slots, r)
  PROVE  \/ States' \subseteq States
         \/ link[p] # "off" /\ States' \subseteq States \cup {Sent(p, slots, r)}
<1>1. CASE link[p] = link[Me] /\ link[Me] \in {"str", "udp"}
  <2>1. net' = net \cup {Sent(p, slots, r)}
    BY <1>1, Zenon DEF SendState, Sent
  <2> QED
    BY <1>1, <2>1 DEF States
<1>2. CASE ~(link[p] = link[Me] /\ link[Me] \in {"str", "udp"})
  <2>1. net' = net \cup {}
    BY <1>2, Zenon DEF SendState
  <2> QED
    BY <2>1 DEF States
<1> QED
  BY <1>1, <1>2

\* A packet taken in shows up in a snapshot as it was.
LEMMA StatesHandled ==
  ASSUME TypeInv, NEW m \in net, net' \subseteq net, HandlePacket(m)
  PROVE  States' \subseteq States
<1>1. PICK best \in Nearest :
        LET known == snaps[m.id] # None /\ snaps[m.id].name = m.name IN
        snaps' = IF known /\ m.rev < snaps[m.id].rev THEN snaps
                 ELSE [snaps EXCEPT ![m.id] = [name |-> m.name, rev |-> m.rev,
                                               slots |-> m.slots, proxy |-> best[m.name]]]
  BY DEF HandlePacket
<1> DEFINE e == [name |-> m.name, rev |-> m.rev, slots |-> m.slots, proxy |-> best[m.name]]
<1>2. snaps' = snaps \/ snaps' = [snaps EXCEPT ![m.id] = e]
  BY <1>1, Zenon
<1>3. m \in Packet /\ m.id \in Ids
  BY DEF TypeInv, NetOK, Packet
<1>4. m = [id |-> m.id, name |-> e.name, rev |-> e.rev, slots |-> e.slots]
  BY <1>3 DEF Packet
<1> HIDE DEF e
<1>5. ASSUME NEW i \in Ids, snaps'[i] # None
      PROVE  [id |-> i, name |-> snaps'[i].name, rev |-> snaps'[i].rev, slots |-> snaps'[i].slots]
               \in States
  <2>1. CASE snaps'[i] = snaps[i]
    BY <1>5, <2>1 DEF States
  <2>2. CASE i = m.id /\ snaps'[i] = e
    BY <1>4, <2>2 DEF States
  <2> QED
    BY <1>2, <1>3, <2>1, <2>2 DEF TypeInv, ViewOK
<1> QED
  BY <1>5 DEF States

LEMMA StatesRefreshed ==
  ASSUME TypeInv, Refresh
  PROVE  States' \subseteq States
<1>1. PICK best \in Nearest :
        snaps' = [i \in Ids |-> IF snaps[i] = None THEN None
                                ELSE [snaps[i] EXCEPT !.proxy = best[snaps[i].name]]]
  BY DEF Refresh
<1>2. ASSUME NEW i \in Ids, snaps'[i] # None
      PROVE  [id |-> i, name |-> snaps'[i].name, rev |-> snaps'[i].rev, slots |-> snaps'[i].slots]
               \in States
  <2>1. snaps[i] # None /\ snaps[i] \in Snapshot
    BY <1>1, <1>2 DEF TypeInv, ViewOK
  <2>2. snaps'[i] = [snaps[i] EXCEPT !.proxy = best[snaps[i].name]]
    BY <1>1, <2>1
  <2>3. snaps'[i].name = snaps[i].name /\ snaps'[i].rev = snaps[i].rev
        /\ snaps'[i].slots = snaps[i].slots
    BY <2>1, <2>2 DEF Snapshot
  <2> QED
    BY <2>1, <2>3 DEF States
<1>3. net' = net
  BY DEF Refresh
<1> QED
  BY <1>2, <1>3 DEF States

\* Steps in which the senders do nothing that counts.
LEMMA QuietStep ==
  ASSUME RevisionInv, States' \subseteq States, UNCHANGED <<link, runs, rev, local, char>>
  PROVE  RevisionInv'
<1>1. (States \subseteq Packet)' /\ RevisionNamesState'
  BY DEF RevisionInv, RevisionNamesState
<1>2. Past'
  BY DEF RevisionInv, Past
<1>3. Current'
  BY DEF RevisionInv, Current, Id
<1> QED
  BY <1>1, <1>2, <1>3 DEF RevisionInv

\* A game that starts has an instance id nobody has heard of.
LEMMA StartRevision ==
  ASSUME TypeInv, RevisionInv, NEW n \in Machines, Start(n)
  PROVE  RevisionInv'
<1>1. UNCHANGED <<snaps, net, rev, local, char>>
  BY DEF Start, receiver
<1>2. States' = States
  BY <1>1 DEF States
<1>3. /\ n = Me => runs' = runs
      /\ n # Me => runs' = [runs EXCEPT ![n] = runs[n] + 1]
      /\ \E l \in Links(config[n]) : link' = [link EXCEPT ![n] = l]
  BY DEF Start
<1>4. ASSUME NEW q \in Players
      PROVE  /\ runs[q] \in Nat /\ runs'[q] \in Nat
             /\ q = n => runs'[q] = runs[q] + 1
             /\ q # n => runs'[q] = runs[q] /\ link'[q] = link[q]
  BY <1>3 DEF TypeInv, MachinesOK, Machines
<1>5. Past'
  <2>1. ASSUME NEW m \in States PROVE m.id \in Ids /\ m.id[2] <= runs'[m.id[1]]
    <3>1. m.id \in Ids /\ m.id[2] <= runs[m.id[1]]
      BY DEF RevisionInv, Past
    <3>2. m.id[1] \in Players /\ m.id[2] \in Nat
      BY <3>1 DEF Ids
    <3>3. runs[m.id[1]] \in Nat /\ (runs'[m.id[1]] = runs[m.id[1]] \/ runs'[m.id[1]] = runs[m.id[1]] + 1)
      BY <1>4, <3>2
    <3> QED
      BY <3>1, <3>2, <3>3
  <2> QED
    BY <1>2, <2>1 DEF Past
<1>6. Current'
  <2> SUFFICES ASSUME NEW m \in States, NEW q \in Players, m.id = Id(q)', link'[q] # "off"
               PROVE  /\ m.rev <= rev[q]
                      /\ m.rev = rev[q] /\ local[q] # None => m.name = char[q] /\ m.slots = local[q]
    BY <1>1, <1>2 DEF Current
  <2>1. m.id = <<q, runs'[q]>> /\ m.id[2] <= runs[m.id[1]]
    BY DEF Id, RevisionInv, Past
  <2>2. q # n
    <3>1. runs'[q] <= runs[q]
      BY <2>1
    <3> QED
      BY <1>4, <3>1
  <2>3. m.id = Id(q) /\ link[q] # "off"
    BY <1>4, <2>1, <2>2 DEF Id
  <2> QED
    BY <2>3 DEF RevisionInv, Current
<1> QED
  BY <1>2, <1>5, <1>6 DEF RevisionInv, RevisionNamesState

LEMMA QuitRevision ==
  ASSUME TypeInv, RevisionInv, NEW p \in Players,
         Quit(p) \/ \E name \in Characters[p], look \in Looks : LoadGame(p, name, look)
  PROVE  RevisionInv'
<1>1. UNCHANGED <<snaps, net, runs>>
  BY DEF Quit, LoadGame, receiver
<1>2. States' = States
  BY <1>1 DEF States
<1>3. /\ link'[p] = "off" \/ (link' = link /\ rev' = rev /\ local'[p] = None)
      /\ \A q \in Players \ {p} : /\ link'[q] = link[q] /\ rev'[q] = rev[q]
                                  /\ local'[q] = local[q] /\ char'[q] = char[q]
  BY DEF Quit, LoadGame, Loaded, TypeInv, MachinesOK, CapturesOK, PlayersOK, Machines
<1>4. Current'
  BY <1>1, <1>2, <1>3 DEF RevisionInv, Current, Id
<1> QED
  BY <1>1, <1>2, <1>4 DEF RevisionInv, RevisionNamesState, Past

\* A capture that changed something is a new revision, and one that did not is
\* sent again as what the revision stands for.
LEMMA CapturedRevision ==
  ASSUME TypeInv, Started, RevisionInv, NetOK', NEW p \in Players, NEW due, Captured(p, due)
  PROVE  RevisionInv'
<1>1. PICK slots \in Looks : /\ OnLocalCapture(p, slots, due)
                            /\ UNCHANGED <<link, runs, char, snaps>>
  BY DEF Captured, receiver
<1>2. OnLocalCapture(p, slots, due)
  BY <1>1
<1>3. slots \in Looks /\ slots # None
  BY <1>1
<1>4. rev[p] \in Nat
  BY DEF TypeInv, CapturesOK
<1>5. (States \subseteq Packet)'
  <2>1. net' \subseteq Packet
    BY DEF NetOK
  <2>2. snaps' = snaps
    BY <1>1
  <2> QED
    BY <2>1, <2>2 DEF RevisionInv, States
<1>6. CASE /\ slots # local[p] /\ local' = [local EXCEPT ![p] = slots]
           /\ rev' = [rev EXCEPT ![p] = rev[p] + 1] /\ SendState(p, slots, rev[p] + 1)
  <2> DEFINE s == Sent(p, slots, rev[p] + 1)
  <2>1. States' \subseteq States \cup {s}
    BY <1>1, <1>6, StatesGrow
  <2>2. States' \subseteq States \/ link[p] # "off"
    BY <1>1, <1>6, StatesGrow
  <2>3. /\ s.id = Id(p) /\ s.rev = rev[p] + 1 /\ s.name = char[p] /\ s.slots = slots
        /\ local'[p] = slots /\ rev'[p] = rev[p] + 1
        /\ \A q \in Players \ {p} : local'[q] = local[q] /\ rev'[q] = rev[q]
    BY <1>6 DEF Sent, TypeInv, CapturesOK
  <2> HIDE DEF s
  <2>4. \A m \in States : m.id = Id(p) /\ link[p] # "off" => m.rev <= rev[p] /\ m.rev \in Nat
    BY DEF RevisionInv, Current, Packet
  <2>5. \A m \in States : m.id = Id(p) /\ link[p] # "off" => m.rev # rev[p] + 1 /\ m.rev <= rev[p] + 1
    BY <1>4, <2>4
  <2>6. RevisionNamesState'
    BY <2>1, <2>2, <2>3, <2>5 DEF RevisionInv, RevisionNamesState
  <2>7. Current'
    <3> SUFFICES ASSUME NEW m \in States', NEW q \in Players, m.id = Id(q), link[q] # "off"
                 PROVE  /\ m.rev <= rev'[q]
                        /\ m.rev = rev'[q] /\ local'[q] # None
                             => m.name = char[q] /\ m.slots = local'[q]
      BY <1>1 DEF Current, Id
    <3>1. CASE q # p
      <4>1. Id(q) # Id(p)
        BY <3>1 DEF Id
      <4>2. m \in States
        BY <2>1, <2>3, <4>1
      <4> QED
        BY <2>3, <3>1, <4>2 DEF RevisionInv, Current
    <3>2. CASE q = p /\ m \in States
      BY <2>3, <2>5, <3>2
    <3>3. CASE q = p /\ m = s
      BY <1>4, <2>3, <3>3
    <3> QED
      BY <2>1, <3>1, <3>2, <3>3
  <2>8. Past'
    <3>1. Started /\ Id(p) = <<p, runs[p]>> /\ runs[p] \in 0..MaxRuns
      BY DEF Id, TypeInv, MachinesOK
    <3>2. link[p] # "off" => Id(p) \in Ids /\ Id(p)[2] <= runs[Id(p)[1]]
      BY <3>1 DEF Started, Ids
    <3> QED
      BY <1>1, <2>1, <2>2, <2>3, <3>2 DEF RevisionInv, Past
  <2> QED
    BY <1>5, <2>6, <2>7, <2>8 DEF RevisionInv
<1>7. CASE slots = local[p] /\ SendState(p, slots, rev[p]) /\ UNCHANGED <<local, rev>>
  <2> DEFINE s == Sent(p, slots, rev[p])
  <2>1. States' \subseteq States \/ (link[p] # "off" /\ States' \subseteq States \cup {s})
    BY <1>1, <1>7, StatesGrow
  <2>2. s.id = Id(p) /\ s.rev = rev[p] /\ s.name = char[p] /\ s.slots = local[p]
    BY <1>7 DEF Sent
  <2>3. ASSUME NEW m \in States, m.id = Id(p), link[p] # "off", m.rev = rev[p] PROVE m = s
    <3>1. m.name = char[p] /\ m.slots = local[p]
      BY <1>3, <1>7, <2>3 DEF RevisionInv, Current
    <3>2. m = [id |-> m.id, name |-> m.name, rev |-> m.rev, slots |-> m.slots]
      BY DEF RevisionInv, Packet
    <3> QED
      BY <1>7, <2>3, <3>1, <3>2 DEF Sent
  <2> HIDE DEF s
  <2>4. RevisionNamesState'
    BY <2>1, <2>2, <2>3 DEF RevisionInv, RevisionNamesState
  <2>5. Current'
    <3> SUFFICES ASSUME NEW m \in States', NEW q \in Players, m.id = Id(q), link[q] # "off"
                 PROVE  /\ m.rev <= rev[q]
                        /\ m.rev = rev[q] /\ local[q] # None
                             => m.name = char[q] /\ m.slots = local[q]
      BY <1>1, <1>7 DEF Current, Id
    <3>1. CASE m \in States
      BY <3>1 DEF RevisionInv, Current
    <3>2. CASE m = s
      <4>1. q = p
        BY <2>2, <3>2 DEF Id
      <4> QED
        BY <1>4, <2>2, <3>2, <4>1
    <3> QED
      BY <2>1, <3>1, <3>2
  <2>6. Past'
    <3>1. Started /\ Id(p) = <<p, runs[p]>> /\ runs[p] \in 0..MaxRuns
      BY DEF Id, TypeInv, MachinesOK
    <3>2. link[p] # "off" => Id(p) \in Ids /\ Id(p)[2] <= runs[Id(p)[1]]
      BY <3>1 DEF Started, Ids
    <3> QED
      BY <1>1, <2>1, <2>2, <3>2 DEF RevisionInv, Past
  <2> QED
    BY <1>5, <2>4, <2>5, <2>6 DEF RevisionInv
<1>8. CASE UNCHANGED <<local, rev, net>>
  <2>1. States' \subseteq States
    BY <1>1, <1>8 DEF States
  <2> QED
    BY <1>1, <1>8, <2>1, QuietStep
<1> QED
  BY <1>2, <1>6, <1>7, <1>8 DEF OnLocalCapture

LEMMA RevisionStep ==
  ASSUME TypeInv, Started, RevisionInv, [Next]_vars
  PROVE  RevisionInv'
<1>1. NetOK'
  BY TypeStep DEF TypeInv
<1>2. ASSUME NEW m \in net, Deliver(m) \/ DeliverTwice(m) \/ Lose(m) PROVE RevisionInv'
  <2>1. UNCHANGED sender /\ net' \subseteq net
    BY <1>2 DEF Deliver, DeliverTwice, Lose, Receive
  <2>2. HandlePacket(m) \/ snaps' = snaps
    BY <1>2 DEF Deliver, DeliverTwice, Lose, Receive, receiver
  <2>3. States' \subseteq States
    BY <2>1, <2>2, StatesHandled DEF States
  <2> QED
    BY <2>1, <2>3, QuietStep DEF sender
<1>3. CASE Refresh
  BY <1>3, StatesRefreshed, QuietStep DEF Refresh, sender
<1>4. CASE Reset
  <2>1. States' \subseteq States
    BY <1>4 DEF Reset, States
  <2> QED
    BY <1>4, <2>1, QuietStep DEF Reset, sender
<1>5. ASSUME UNCHANGED <<net, snaps, link, runs, rev, local, char>> PROVE RevisionInv'
  BY <1>5, QuietStep DEF States
<1>6. ASSUME NEW p \in Players, Ask(p) \/ \E look \in Looks : Wear(p, look) PROVE RevisionInv'
  BY <1>5, <1>6 DEF Ask, Wear, receiver
<1>7. ASSUME NEW a \in Actors, Despawn(a) \/ \E n \in Names : Spawn(a, n) PROVE RevisionInv'
  BY <1>5, <1>7 DEF Despawn, Spawn, receiver, sender
<1>8. CASE UNCHANGED vars
  BY <1>5, <1>8 DEF vars, receiver, sender
<1> QED
  BY <1>1, <1>2, <1>3, <1>4, <1>6, <1>7, <1>8, StartRevision, QuitRevision, CapturedRevision DEF Next

LEMMA RevisionInit == Init => RevisionInv
<1> SUFFICES ASSUME Init PROVE RevisionInv
  OBVIOUS
<1>1. States = {}
  BY DEF Init, States
<1> QED
  BY <1>1 DEF RevisionInv, Past, Current, RevisionNamesState

\* A revision of an instance stands for one state of one character, for any
\* number of players, restarts, loads and overlapping captures, and any order
\* in which packets arrive: dropping by revision never confuses two states.
THEOREM RevisionsAreUnambiguous == Spec => []RevisionNamesState
<1>1. RevisionInv => RevisionNamesState
  BY DEF RevisionInv
<1>2. TypeInv /\ Started /\ RevisionInv /\ [Next]_vars => RevisionInv'
  BY RevisionStep
<1> QED
  BY <1>1, <1>2, TypeInit, TypeStep, RevisionInit, PTL DEF Spec
\* What a machine has of the run a player is in is never ahead of the player,
\* and with the player's revision it is what the player sent last: for any
\* number of players, loads and captures that overlap, and any late packets.
THEOREM NewestIsWhatWasSent == Spec => []NewestIsPresent
<1>1. TypeInv /\ Started /\ RevisionInv => NewestIsPresent
  <2> SUFFICES ASSUME TypeInv, Started, RevisionInv,
                      NEW p \in Players, link[p] # "off", snaps[Id(p)] # None
               PROVE  /\ snaps[Id(p)].rev <= rev[p]
                      /\ snaps[Id(p)].rev = rev[p] /\ local[p] # None
                           => snaps[Id(p)].slots = local[p] /\ snaps[Id(p)].name = char[p]
    BY DEF NewestIsPresent
  <2> DEFINE i == Id(p)
             m == [id |-> i, name |-> snaps[i].name, rev |-> snaps[i].rev, slots |-> snaps[i].slots]
  <2>1. runs[p] \in 0..MaxRuns /\ runs[p] # 0
    BY DEF TypeInv, MachinesOK, Started
  <2>2. i \in Ids
    BY <2>1 DEF Id, Ids
  <2>3. m \in States
    BY <2>2 DEF States
  <2>4. m.id = Id(p) /\ m.rev = snaps[i].rev /\ m.name = snaps[i].name /\ m.slots = snaps[i].slots
    OBVIOUS
  <2> HIDE DEF m
  <2> QED
    BY <2>3, <2>4 DEF RevisionInv, Current
<1>2. TypeInv /\ Started /\ RevisionInv /\ [Next]_vars => RevisionInv'
  BY RevisionStep
<1> QED
  BY <1>1, <1>2, TypeInit, TypeStep, RevisionInit, PTL DEF Spec

-----------------------------------------------------------------------------
(* In which order packets arrive.                                          *)

\* Nothing is on its way to a machine without a transport, and over STR
\* nothing that is older than what arrived before it.
OrderInv ==
  /\ link[Me] \notin {"str", "udp"} => net = {}
  /\ link[Me] = "str" => \A m \in net : snaps[m.id] # None => snaps[m.id].rev <= m.rev

LEMMA OrderInit == Init => OrderInv
BY DEF Init, OrderInv

\* What a player sends is at least as new as what is known of that player.
LEMMA OrderCaptured ==
  ASSUME TypeInv, Started, RevisionInv, OrderInv, NEW p \in Players, NEW due, Captured(p, due)
  PROVE  OrderInv'
<1>1. UNCHANGED <<link, runs, char, snaps>>
  BY DEF Captured, receiver
<1>2. PICK slots : OnLocalCapture(p, slots, due)
  BY DEF Captured
<1>3. ASSUME NEW r, r = rev[p] \/ r = rev[p] + 1, SendState(p, slots, r) PROVE OrderInv'
  <2>1. CASE link[p] = link[Me] /\ link[Me] \in {"str", "udp"}
    <3>1. net' = net \cup {[id |-> Id(p), name |-> char[p], rev |-> r, slots |-> slots]}
      BY <1>3, <2>1, Zenon DEF SendState
    <3>2. runs[p] \in 0..MaxRuns /\ runs[p] # 0 /\ rev[p] \in Nat
      BY <2>1 DEF TypeInv, MachinesOK, CapturesOK, Started
    <3>3. Id(p) \in Ids
      BY <3>2 DEF Id, Ids
    <3>4. snaps[Id(p)] # None => snaps[Id(p)].rev <= r
      <4> DEFINE i == Id(p)
                 m == [id |-> i, name |-> snaps[i].name, rev |-> snaps[i].rev,
                       slots |-> snaps[i].slots]
      <4>1. snaps[i] # None => m \in States
        BY <3>3 DEF States
      <4>2. m.id = Id(p) /\ m.rev = snaps[i].rev
        OBVIOUS
      <4>3. snaps[i] # None => snaps[i].rev \in Nat
        BY <3>3 DEF TypeInv, ViewOK, Snapshot
      <4> HIDE DEF m
      <4>4. snaps[i] # None => snaps[i].rev <= rev[p]
        BY <2>1, <4>1, <4>2 DEF RevisionInv, Current
      <4> QED
        BY <1>3, <3>2, <4>3, <4>4
    <3> QED
      BY <1>1, <2>1, <3>1, <3>4 DEF OrderInv
  <2>2. CASE ~(link[p] = link[Me] /\ link[Me] \in {"str", "udp"})
    <3>1. net' = net
      BY <1>3, <2>2 DEF SendState
    <3> QED
      BY <1>1, <3>1 DEF OrderInv
  <2> QED
    BY <2>1, <2>2
<1>4. CASE UNCHANGED net
  BY <1>1, <1>4 DEF OrderInv
<1> QED
  BY <1>2, <1>3, <1>4 DEF OnLocalCapture

\* What a snapshot becomes when a packet is taken or ignored.
LEMMA Handled ==
  ASSUME TypeInv, NEW m \in net, HandlePacket(m), NEW i \in Ids
  PROVE  \/ snaps'[i] = snaps[i]
         \/ /\ i = m.id
            /\ snaps'[i] # None => snaps'[i].rev = m.rev /\ snaps'[i].name = m.name
            /\ snaps[i] # None /\ snaps[i].name = m.name => ~(m.rev < snaps[i].rev)
<1>1. PICK best \in Nearest :
        LET known == snaps[m.id] # None /\ snaps[m.id].name = m.name IN
        snaps' = IF known /\ m.rev < snaps[m.id].rev THEN snaps
                 ELSE [snaps EXCEPT ![m.id] = [name |-> m.name, rev |-> m.rev,
                                               slots |-> m.slots, proxy |-> best[m.name]]]
  BY DEF HandlePacket
<1> DEFINE e == [name |-> m.name, rev |-> m.rev, slots |-> m.slots, proxy |-> best[m.name]]
           older == snaps[m.id] # None /\ snaps[m.id].name = m.name /\ m.rev < snaps[m.id].rev
<1>2. e.rev = m.rev /\ e.name = m.name
  OBVIOUS
<1>3. CASE older
  BY <1>1, <1>3, Zenon
<1>4. CASE ~older
  <2>1. snaps' = [snaps EXCEPT ![m.id] = e]
    BY <1>1, <1>4, Zenon
  <2> HIDE DEF e
  <2>2. i # m.id => snaps'[i] = snaps[i]
    BY <2>1 DEF TypeInv, ViewOK
  <2>3. i = m.id => snaps'[i] = e
    BY <2>1 DEF TypeInv, ViewOK
  <2> QED
    BY <1>2, <1>4, <2>2, <2>3
<1> QED
  BY <1>3, <1>4

\* The proxies change, and nothing else of a snapshot.
LEMMA Refreshed ==
  ASSUME TypeInv, Refresh, NEW i \in Ids
  PROVE  snaps'[i] # None => /\ snaps[i] # None
                             /\ snaps'[i].rev = snaps[i].rev /\ snaps'[i].name = snaps[i].name
<1>1. PICK best \in Nearest :
        snaps' = [j \in Ids |-> IF snaps[j] = None THEN None
                                ELSE [snaps[j] EXCEPT !.proxy = best[snaps[j].name]]]
  BY DEF Refresh
<1> SUFFICES ASSUME snaps'[i] # None
             PROVE  /\ snaps[i] # None
                    /\ snaps'[i].rev = snaps[i].rev /\ snaps'[i].name = snaps[i].name
  OBVIOUS
<1>2. snaps[i] # None /\ snaps[i] \in Snapshot
  BY <1>1 DEF TypeInv, ViewOK
<1>3. snaps'[i] = [snaps[i] EXCEPT !.proxy = best[snaps[i].name]]
  BY <1>1, <1>2
<1> QED
  BY <1>2, <1>3 DEF Snapshot

\* Over STR a packet arrives before all newer ones of its instance.
LEMMA OrderDelivered ==
  ASSUME TypeInv, OrderInv, NEW m \in net, Deliver(m) \/ DeliverTwice(m)
  PROVE  OrderInv'
<1>1. link' = link /\ HandlePacket(m) /\ net' \subseteq net
  BY DEF Deliver, DeliverTwice, Receive, sender
<1>2. link[Me] \notin {"str", "udp"} => net' = {}
  BY <1>1 DEF OrderInv
<1>3. ASSUME link[Me] = "str", NEW k \in net', snaps'[k.id] # None
      PROVE  snaps'[k.id].rev <= k.rev
  <2>1. Deliver(m) /\ InOrder(m)
    BY <1>3 DEF Deliver, DeliverTwice, Receive
  <2>2. k \in net /\ k \in Packet /\ m \in Packet
    BY <1>1 DEF TypeInv, NetOK
  <2>3. k.id \in Ids /\ k.rev \in Nat /\ m.rev \in Nat
    BY <2>2 DEF Packet
  <2>4. CASE snaps'[k.id] = snaps[k.id]
    BY <1>3, <2>2, <2>4 DEF OrderInv
  <2>5. CASE k.id = m.id /\ snaps'[k.id].rev = m.rev
    <3>1. k \in Outgoing(m.id[1])
      BY <2>2, <2>5 DEF Outgoing
    <3>2. k.id[2] > m.id[2] \/ k.rev >= m.rev
      BY <2>1, <3>1 DEF InOrder
    <3>3. m.id[2] \in Nat
      BY <2>2 DEF Packet, Ids
    <3>4. ~(k.id[2] > m.id[2])
      BY <2>5, <3>3
    <3> QED
      BY <2>3, <2>5, <3>2, <3>4
  <2> QED
    BY <1>1, <1>3, <2>3, <2>4, <2>5, Handled
<1> QED
  BY <1>1, <1>2, <1>3 DEF OrderInv

LEMMA OrderStep ==
  ASSUME TypeInv, Started, RevisionInv, OrderInv, [Next]_vars
  PROVE  OrderInv'
<1>1. ASSUME NEW n \in Machines, Start(n) PROVE OrderInv'
  <2>1. UNCHANGED <<net, snaps>> /\ link[n] = "off"
    BY <1>1 DEF Start, receiver
  <2>2. \E l : link' = [link EXCEPT ![n] = l]
    BY <1>1 DEF Start
  <2>3. CASE n = Me
    <3>1. net = {}
      BY <2>1, <2>3 DEF OrderInv
    <3> QED
      BY <2>1, <3>1 DEF OrderInv
  <2>4. CASE n # Me
    <3>1. link'[Me] = link[Me]
      BY <2>2, <2>4 DEF TypeInv, MachinesOK, Machines
    <3> QED
      BY <2>1, <3>1 DEF OrderInv
  <2> QED
    BY <2>3, <2>4
<1>2. ASSUME NEW p \in Players, Quit(p) PROVE OrderInv'
  <2>1. UNCHANGED <<net, snaps>> /\ link' = [link EXCEPT ![p] = "off"] /\ p # Me
    BY <1>2 DEF Quit, receiver
  <2>2. link'[Me] = link[Me]
    BY <2>1 DEF TypeInv, MachinesOK, Machines
  <2> QED
    BY <2>1, <2>2 DEF OrderInv
<1>3. ASSUME NEW p \in Players, NEW due \in BOOLEAN, Captured(p, due) PROVE OrderInv'
  BY <1>3, OrderCaptured
<1>4. ASSUME NEW m \in net, Deliver(m) \/ DeliverTwice(m) PROVE OrderInv'
  BY <1>4, OrderDelivered
<1>5. ASSUME NEW m \in net, Lose(m) PROVE OrderInv'
  BY <1>5 DEF Lose, sender, receiver, OrderInv
<1>6. CASE Refresh
  <2>1. link' = link /\ net' = net
    BY <1>6 DEF Refresh, sender
  <2>2. ASSUME NEW m \in net, snaps'[m.id] # None
        PROVE  snaps[m.id] # None /\ snaps'[m.id].rev = snaps[m.id].rev
    <3>1. m.id \in Ids
      BY DEF TypeInv, NetOK, Packet
    <3> QED
      BY <1>6, <2>2, <3>1, Refreshed
  <2> QED
    BY <2>1, <2>2 DEF OrderInv
<1>7. CASE Reset
  <2>1. link' = link /\ net' = net /\ snaps' = [i \in Ids |-> None]
    BY <1>7 DEF Reset, sender
  <2>2. \A m \in net : m.id \in Ids
    BY DEF TypeInv, NetOK, Packet
  <2> QED
    BY <2>1, <2>2 DEF OrderInv
<1>8. ASSUME UNCHANGED <<link, net, snaps>> PROVE OrderInv'
  BY <1>8 DEF OrderInv
<1>9. ASSUME NEW p \in Players,
             \/ Ask(p)
             \/ \E look \in Looks : Wear(p, look)
             \/ \E name \in Characters[p], look \in Looks : LoadGame(p, name, look)
      PROVE  OrderInv'
  BY <1>8, <1>9 DEF Ask, Wear, LoadGame, receiver
<1>10. ASSUME NEW a \in Actors, Despawn(a) \/ \E n \in Names : Spawn(a, n) PROVE OrderInv'
  BY <1>8, <1>10 DEF Despawn, Spawn, receiver, sender
<1>11. CASE UNCHANGED vars
  BY <1>8, <1>11 DEF vars, receiver, sender
<1> QED
  BY <1>1, <1>2, <1>3, <1>4, <1>5, <1>6, <1>7, <1>9, <1>10, <1>11 DEF Next

\* A step takes a snapshot back for one reason only.
LEMMA AdvanceStep ==
  ASSUME TypeInv, OrderInv, Next, NEW i \in Ids,
         snaps[i] # None, snaps'[i] # None, snaps'[i].rev < snaps[i].rev
  PROVE  link[Me] = "udp" /\ snaps'[i].name # snaps[i].name
<1>0. snaps[i].rev \in Nat
  BY DEF TypeInv, ViewOK, Snapshot
<1>1. snaps'[i] # snaps[i]
  BY <1>0
<1>2. ASSUME NEW m \in net, Deliver(m) \/ DeliverTwice(m)
      PROVE  link[Me] = "udp" /\ snaps'[i].name # snaps[i].name
  <2>1. HandlePacket(m)
    BY <1>2 DEF Deliver, DeliverTwice, Receive
  <2>2. /\ i = m.id /\ snaps'[i].rev = m.rev /\ snaps'[i].name = m.name
        /\ snaps[i].name = m.name => ~(m.rev < snaps[i].rev)
    BY <1>1, <2>1, Handled
  <2>3. snaps'[i].name # snaps[i].name
    BY <2>2
  <2>4. link[Me] \in {"str", "udp"}
    BY DEF OrderInv
  <2>5. link[Me] # "str"
    <3>1. m.rev \in Nat /\ m.rev < snaps[m.id].rev /\ snaps[m.id] # None
      BY <2>2 DEF TypeInv, NetOK, Packet
    <3>2. ~(snaps[m.id].rev <= m.rev)
      BY <1>0, <2>2, <3>1
    <3> QED
      BY <3>1, <3>2 DEF OrderInv
  <2> QED
    BY <2>3, <2>4, <2>5
<1>3. ~Refresh
  <2>1. Refresh => snaps'[i].rev = snaps[i].rev
    BY Refreshed
  <2> QED
    BY <1>0, <2>1
<1>4. ~Reset
  BY DEF Reset
<1>5. ASSUME UNCHANGED snaps PROVE FALSE
  BY <1>1, <1>5
<1> QED
  BY <1>2, <1>3, <1>4, <1>5
     DEF Next, Start, Quit, Ask, Captured, Wear, LoadGame, Lose, Spawn, Despawn, receiver

\* A machine goes back to an older state of an instance only by a late packet of
\* another character, over UDP: whatever is lost, repeated and reordered, loaded
\* and sent again, for any number of players.
THEOREM SnapshotsOnlyAdvance == Spec => SnapshotsAdvance
<1>1. TypeInv /\ Started /\ RevisionInv /\ OrderInv /\ [Next]_vars => RevisionInv' /\ OrderInv'
  BY RevisionStep, OrderStep
<1>2. TypeInv /\ OrderInv /\ [Next]_vars
        => [\A i \in Ids :
              snaps[i] # None /\ snaps'[i] # None /\ snaps'[i].rev < snaps[i].rev
                => link[Me] = "udp" /\ snaps'[i].name # snaps[i].name]_vars
  BY AdvanceStep
<1> QED
  BY <1>1, <1>2, TypeInit, TypeStep, RevisionInit, OrderInit, PTL DEF Spec, SnapshotsAdvance
=============================================================================
