---------------------------- MODULE SyncService -----------------------------
(***************************************************************************)
(* The legacy service that docs/IED-INTEGRATION.md describes: it captures  *)
(* the player's slots, sends them with a revision over STR or UDP, keeps a *)
(* snapshot for each instance it hears of, and answers IED's question what *)
(* a slot of a remote player's proxy displays.                             *)
(*                                                                         *)
(* Every machine runs the same code.  The model follows what the remote    *)
(* players send and what one machine, Me, makes of it.  All the service's  *)
(* work happens in tasks of the game's thread, one action each; a capture  *)
(* is asked for in one task and ends in a later one.                       *)
(*                                                                         *)
(* A state of the 19 slots is one value.  Instance ids are new with every  *)
(* start of the game.  SetActorBlocked takes effect at once, and no two    *)
(* players use the same character's name.  Me sends nothing, so that       *)
(* StrTransport's test for packets of one's own (367-375) never applies.   *)
(***************************************************************************)
EXTENDS Naturals, Sequences, FiniteSets, SequencesExt

CONSTANTS
  Players,    \* the remote players
  Me,         \* the machine whose view is modelled
  Characters, \* Characters[p]: the names of p's characters
  Looks,      \* what a character's slots can display
  Holes,      \* Holes[look]: what is read of it when calls are refused
  Actors,     \* form ids of the proxies STR makes
  Profiles,   \* configurations, see Link
  MaxRuns,    \* bound: starts of a player's game
  MaxNet,     \* bound: a player's packets on their way
  MaxChurn,   \* bound: what players, actors and the network do
  None        \* no proxy, no name, no snapshot, nothing captured

Machines == Players \cup {Me}
Names == UNION {Characters[p] : p \in Players}

ASSUME ServiceAssumption ==
  /\ Me \notin Players
  /\ None \notin Actors \cup Names \cup Looks
  /\ MaxRuns \in Nat /\ MaxNet \in Nat /\ MaxChurn \in Nat
  /\ Looks # {} /\ Holes \in [Looks -> SUBSET Looks]
  /\ \A p \in Players : Characters[p] # {}
  /\ \A p, q \in Players : p # q => Characters[p] \cap Characters[q] = {}

VARIABLES
  config,   \* _config of each machine, and the STRPM it finds
  link,     \* the transport it started, "none", or "off" while the game is not running
  runs,     \* starts of each player's game
  char,     \* the character that is played
  worn,     \* what that character's slots display
  local,    \* _localSlots, None unless _hasLocalSlots
  rev,      \* _revision
  pending,  \* _capturePending
  asked,    \* captures that have not ended, with what was displayed when they began
  net,      \* packets on their way to Me
  snaps,    \* _remoteSnapshots
  blocked,  \* _blockedProxies
  held,     \* actors whose displays IED hides for us
  named,    \* the name of each proxy in the process lists
  churn     \* what the environment did so far

sender == <<link, runs, char, worn, local, rev, pending, asked>>
receiver == <<snaps, blocked, held>>
vars == <<config, sender, receiver, net, named, churn>>

Id(p) == <<p, runs[p]>>
Ids == Players \X (1..MaxRuns)
Packet == [id : Ids, name : Names, rev : Nat, slots : Looks]
Snapshot == [name : Names, rev : Nat, slots : Looks, proxy : Actors \cup {None}]

TypeOK ==
  /\ config \in [Machines -> Profiles]
  /\ link \in [Machines -> {"off", "none", "str", "udp"}]
  /\ runs \in [Players -> 0..MaxRuns]
  /\ \A p \in Players : char[p] \in Characters[p]
  /\ worn \in [Players -> Looks]
  /\ local \in [Players -> Looks \cup {None}]
  /\ rev \in [Players -> Nat]
  /\ pending \in [Players -> BOOLEAN]
  /\ asked \in [Players -> Seq(Looks)]
  /\ \A p \in Players : Len(asked[p]) <= 1 + churn   \* one more with every load
  /\ net \subseteq Packet
  /\ snaps \in [Ids -> Snapshot \cup {None}]
  /\ blocked \subseteq Actors /\ held \subseteq Actors
  /\ named \in [Actors -> Names \cup {None}]
  /\ churn \in 0..MaxChurn

Init ==
  /\ config \in [Machines -> Profiles]
  /\ link = [n \in Machines |-> "off"]
  /\ runs = [p \in Players |-> 0]
  /\ char = [p \in Players |-> CHOOSE name \in Characters[p] : TRUE]   \* all are alike
  /\ worn = [p \in Players |-> CHOOSE look \in Looks : TRUE]
  /\ local = [p \in Players |-> None]
  /\ rev = [p \in Players |-> 0]
  /\ pending = [p \in Players |-> FALSE]
  /\ asked = [p \in Players |-> <<>>]
  /\ net = {}
  /\ snaps = [i \in Ids |-> None]
  /\ blocked = {} /\ held = {}
  /\ \E n \in {char[p] : p \in Players} \cup {None} : named = [a \in Actors |-> n]
  /\ churn = 0

Churn == churn < MaxChurn /\ churn' = churn + 1

-----------------------------------------------------------------------------
\* LoadApi, ValidateRuntimeBackend and registerChannel.
StrStarts(c) == c.strpm = "bridge" \/ (c.strpm = "other" /\ ~c.requireStrBridge)

\* Start: the transports that may come to run, STR before UDP; a UDP port may be taken.
Links(c) ==
  IF ~c.networkEnabled THEN {"none"}
  ELSE IF c.mode # "UDP" /\ StrStarts(c) THEN {"str"}
  ELSE IF c.mode \in {"UDP", "Auto"} \/ c.udpFallback THEN {"udp", "none"} ELSE {"none"}

Start(n) ==
  /\ link[n] = "off"
  /\ \E l \in Links(config[n]) : link' = [link EXCEPT ![n] = l]
  /\ IF n = Me THEN UNCHANGED runs
               ELSE runs[n] < MaxRuns /\ runs' = [runs EXCEPT ![n] = @ + 1]
  /\ UNCHANGED <<config, char, worn, local, rev, pending, asked, receiver, net, named, churn>>

\* A player's game ends, by Stop or otherwise.
Quit(p) ==
  /\ link[p] # "off" /\ Churn
  /\ link' = [link EXCEPT ![p] = "off"]
  /\ local' = [local EXCEPT ![p] = None]
  /\ rev' = [rev EXCEPT ![p] = 0]
  /\ pending' = [pending EXCEPT ![p] = FALSE]
  /\ asked' = [asked EXCEPT ![p] = <<>>]
  /\ UNCHANGED <<config, runs, char, worn, receiver, net, named>>

\* Mutant: captures are asked for while one is in flight.
AskAgain(p) ==
  /\ link[p] # "off"
  /\ pending' = [pending EXCEPT ![p] = TRUE]
  /\ asked' = [asked EXCEPT ![p] = Append(@, worn[p])]
  /\ UNCHANGED <<config, link, runs, char, worn, local, rev, receiver, net, named, churn>>

\* Tick: CapturePlayerSlots.  When it returns false the flag comes down again
\* in the same task and nothing has changed; the next tick asks again.
Ask(p) ==
  /\ link[p] # "off" /\ ~pending[p]
  /\ pending' = [pending EXCEPT ![p] = TRUE]
  /\ asked' = [asked EXCEPT ![p] = Append(@, worn[p])]
  /\ UNCHANGED <<config, link, runs, char, worn, local, rev, receiver, net, named, churn>>

Outgoing(p) == {m \in net : m.id[1] = p}

\* SendNetworkPayload; packets for machines on another transport are left out.
SendState(p, slots, revision) ==
  /\ Cardinality(Outgoing(p)) < MaxNet
  /\ net' = net \cup IF link[p] = link[Me] /\ link[Me] \in {"str", "udp"}
                       THEN {[id |-> Id(p), name |-> char[p], rev |-> revision, slots |-> slots]}
                       ELSE {}

\* Mutant: a state is sent when it changes and never again.
OnLocalCaptureOnce(p, slots, resendDue) ==
  IF slots # local[p]
    THEN /\ local' = [local EXCEPT ![p] = slots]
         /\ rev' = [rev EXCEPT ![p] = @ + 1]
         /\ SendState(p, slots, rev[p] + 1)
    ELSE UNCHANGED <<local, rev, net>>

\* OnLocalCapture, when ResendIntervalMs has passed or not.
OnLocalCapture(p, slots, resendDue) ==
  \/ /\ slots # local[p]
     /\ local' = [local EXCEPT ![p] = slots]
     /\ rev' = [rev EXCEPT ![p] = @ + 1]
     /\ SendState(p, slots, rev[p] + 1)
  \/ /\ slots = local[p] /\ resendDue
     /\ SendState(p, slots, rev[p])
     /\ UNCHANGED <<local, rev>>
  \/ /\ slots = local[p] /\ ~resendDue
     /\ UNCHANGED <<local, rev, net>>

\* The last slot of a capture was read: it holds what was displayed when it
\* began, or what is displayed now; a call the VM refused counts as an empty slot.
Captured(p, resendDue) ==
  \E i \in DOMAIN asked[p], slots \in Looks :
    /\ asked' = [asked EXCEPT ![p] = RemoveAt(@, i)]
    /\ pending' = [pending EXCEPT ![p] = FALSE]
    /\ \/ slots \in {asked[p][i], worn[p]} /\ UNCHANGED churn
       \/ slots \in Holes[asked[p][i]] \cup Holes[worn[p]] /\ Churn
    /\ OnLocalCapture(p, slots, resendDue)
    /\ UNCHANGED <<config, link, runs, char, worn, receiver, named>>

\* The player equips something else.
Wear(p, look) ==
  /\ worn[p] # look /\ Churn
  /\ worn' = [worn EXCEPT ![p] = look]
  /\ UNCHANGED <<config, link, runs, char, local, rev, pending, asked, receiver, net, named>>

\* What a game load leaves of the captures in flight.
Loaded(p, name, look) ==
  /\ char' = [char EXCEPT ![p] = name]
  /\ worn' = [worn EXCEPT ![p] = look]
  /\ asked' \in {asked, [asked EXCEPT ![p] = <<>>]}

\* Mutant: Reset restarts the revisions too.
LoadGameAnew(p, name, look) ==
  /\ link[p] # "off" /\ Churn
  /\ Loaded(p, name, look)
  /\ local' = [local EXCEPT ![p] = None]
  /\ rev' = [rev EXCEPT ![p] = 0]
  /\ pending' = [pending EXCEPT ![p] = FALSE]
  /\ UNCHANGED <<config, link, runs, receiver, net, named>>

\* The player loads a game, maybe of another character: Reset at kPreLoadGame.
\* SKSE sends that message from the call that loads, on the game thread, so no
\* tick and no capture comes between Reset and the character loaded.
LoadGame(p, name, look) ==
  /\ link[p] # "off" /\ Churn
  /\ Loaded(p, name, look)
  /\ local' = [local EXCEPT ![p] = None]
  /\ pending' = [pending EXCEPT ![p] = FALSE]
  /\ UNCHANGED <<config, link, runs, rev, receiver, net, named>>

-----------------------------------------------------------------------------
\* FindRemotePlayerProxy: the nearest proxy of each name, at one moment.
Nearest ==
  {best \in [Names -> Actors \cup {None}] :
     \A n \in Names : LET same == {a \in Actors : named[a] = n}
                      IN IF same = {} THEN best[n] = None ELSE best[n] \in same}

\* Mutant: the revision is not compared.
HandlePacketAnyRevision(m) ==
  \E best \in Nearest :
    snaps' = [snaps EXCEPT ![m.id] = [name |-> m.name, rev |-> m.rev,
                                      slots |-> m.slots, proxy |-> best[m.name]]]

\* HandlePacket: a snapshot of another character is dropped, an older revision ignored.
HandlePacket(m) ==
  \E best \in Nearest :
    LET known == snaps[m.id] # None /\ snaps[m.id].name = m.name IN
    snaps' = IF known /\ m.rev < snaps[m.id].rev THEN snaps
             ELSE [snaps EXCEPT ![m.id] = [name |-> m.name, rev |-> m.rev,
                                           slots |-> m.slots, proxy |-> best[m.name]]]

\* STR keeps a player's packets in order, UDP does not.
InOrder(m) == \A k \in Outgoing(m.id[1]) : k.id[2] > m.id[2] \/ (k.id = m.id /\ k.rev >= m.rev)

Receive(m) ==
  /\ link[Me] = "udp" \/ InOrder(m)
  /\ HandlePacket(m)
  /\ UNCHANGED <<config, sender, blocked, held, named>>

Deliver(m) == m \in net /\ Receive(m) /\ net' = net \ {m} /\ UNCHANGED churn

\* UDP only: a packet arrives and will arrive again.
DeliverTwice(m) == m \in net /\ link[Me] = "udp" /\ Churn /\ Receive(m) /\ UNCHANGED net

\* A packet is lost on its way, or STR refused to send it.
Lose(m) ==
  /\ m \in net /\ Churn
  /\ net' = net \ {m}
  /\ UNCHANGED <<config, sender, receiver, named>>


\* Tick: RefreshProxyMitigation.
Refresh ==
  /\ link[Me] # "off"
  /\ \E best \in Nearest :
       snaps' = [i \in Ids |-> IF snaps[i] = None THEN None
                               ELSE [snaps[i] EXCEPT !.proxy = best[snaps[i].name]]]
  /\ LET current == {snaps'[i].proxy : i \in {j \in Ids : snaps'[j] # None}} \ {None} IN
     /\ blocked' = IF config[Me].suppress THEN current ELSE {}
     /\ held' = (held \ (blocked \ blocked')) \cup (blocked' \ blocked)
  /\ UNCHANGED <<config, sender, net, named, churn>>

\* We load a game: Reset.
Reset ==
  /\ link[Me] # "off" /\ Churn
  /\ held' = held \ blocked
  /\ blocked' = {}
  /\ snaps' = [i \in Ids |-> None]
  /\ UNCHANGED <<config, sender, net, named>>

\* QueryRemoteSlot: the slots of a snapshot with this proxy, whichever is found.
Query(a) == {snaps[i].slots : i \in {j \in Ids : snaps[j] # None /\ snaps[j].proxy = a}}

\* STR makes the proxy of a player's character, or takes one out of the game.
Spawn(a, n) ==
  /\ named[a] = None /\ n \in {char[p] : p \in Players}
  /\ Churn
  /\ named' = [named EXCEPT ![a] = n]
  /\ UNCHANGED <<config, sender, receiver, net>>
Despawn(a) ==
  /\ named[a] # None /\ Churn
  /\ named' = [named EXCEPT ![a] = None]
  /\ UNCHANGED <<config, sender, receiver, net>>

Next ==
  \/ \E n \in Machines : Start(n)
  \/ \E p \in Players :
       \/ Quit(p) \/ Ask(p)
       \/ \E resendDue \in BOOLEAN : Captured(p, resendDue)
       \/ \E look \in Looks : Wear(p, look)
       \/ \E name \in Characters[p], look \in Looks : LoadGame(p, name, look)
  \/ \E m \in net : Deliver(m) \/ DeliverTwice(m) \/ Lose(m)
  \/ Refresh \/ Reset
  \/ \E a \in Actors : Despawn(a) \/ \E n \in Names : Spawn(a, n)

\* The timer goes on, captures end, every ResendIntervalMs one finds a resend
\* due, and what is not lost arrives.
Fairness ==
  /\ \A p \in Players : WF_vars(Ask(p)) /\ SF_vars(Captured(p, TRUE))
  /\ WF_vars(\E m \in net : Deliver(m))
  /\ WF_vars(Refresh)

Spec == Init /\ [][Next]_vars /\ Fairness

-----------------------------------------------------------------------------
\* Wherever a revision of an instance turns up, on its way or in a snapshot, it
\* stands for one state of one character: dropping packets by comparing
\* revisions (HandlePacket) loses nothing.
States ==
  net \cup {[id |-> i, name |-> snaps[i].name, rev |-> snaps[i].rev, slots |-> snaps[i].slots] :
              i \in {j \in Ids : snaps[j] # None}}
RevisionNamesState ==
  \A m, k \in States : m.id = k.id /\ m.rev = k.rev => m = k

\* A snapshot of the run a player is in is never ahead of that player, and one
\* with the player's revision holds what was sent last: nothing that loads,
\* overlapping captures or late packets leave behind passes for current.
NewestIsPresent ==
  \A p \in Players : link[p] # "off" /\ snaps[Id(p)] # None =>
    /\ snaps[Id(p)].rev <= rev[p]
    /\ snaps[Id(p)].rev = rev[p] /\ local[p] # None
         => snaps[Id(p)].slots = local[p] /\ snaps[Id(p)].name = char[p]

\* What is known of an instance goes back to an older revision only when a late
\* packet of another character is taken, and over STR, which keeps the order,
\* not even then, through losses, loads and resends.
SnapshotsAdvance ==
  [][\A i \in Ids :
       snaps[i] # None /\ snaps'[i] # None /\ snaps'[i].rev < snaps[i].rev
         => link[Me] = "udp" /\ snaps'[i].name # snaps[i].name]_vars

\* Machines on one transport hear each other.
Hears(p) == link[p] = link[Me] /\ link[Me] \in {"str", "udp"}
Proxies(p) == {a \in Actors : named[a] = char[p]}
Twins(p) == {i \in Ids \ {Id(p)} : snaps[i] # None /\ snaps[i].name = char[p]}

\* IED is told of a player's proxy what the player displays: whatever packets,
\* captures and loads did before.  A snapshot of the same character that an
\* earlier run of its game left behind is excepted: it answers as well.
AnswersRight ==
  \A p \in Players :
    <>[](Hears(p) /\ Cardinality(Proxies(p)) = 1 /\ Twins(p) = {}
           => \A a \in Proxies(p) : Query(a) = {worn[p]})


=============================================================================
