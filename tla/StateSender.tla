----------------------------- MODULE StateSender -----------------------------
(***************************************************************************)
(* The sending side of STRPMAdapter: Publish keeps the latest full state   *)
(* and tries to send it, RetryTick sends it again while the transport      *)
(* refuses it and, once it was taken, every heartbeat interval.            *)
(*                                                                         *)
(* Every operation runs on the game thread, one at a time (the retry       *)
(* thread only queues RetryTick), so each is one action.                   *)
(***************************************************************************)
EXTENDS Naturals

CONSTANTS
  Payloads,    \* encoded full states
  Oversize,    \* those longer than kMaxPayloadBytes
  Peers,       \* the other players
  Heartbeat,   \* kHeartbeatInterval, in retry intervals
  MaxPublish,  \* bound: states published
  MaxChurn,    \* bound: transport changes, joins, leaves and game loads
  None         \* no payload

ASSUME SenderAssumption ==
  /\ Oversize \subseteq Payloads
  /\ Heartbeat \in Nat \ {0}
  /\ MaxPublish \in Nat /\ MaxChurn \in Nat
  /\ None \notin Payloads

VARIABLES
  life,        \* "new", then "running" or "failed" by Start, "stopped" by Stop
  offered,     \* the payload last given to Publish since the last Reset
  latest,      \* _latestPayload, None when empty
  pending,     \* _pending
  haveSent,    \* _haveSuccessfulSend
  age,         \* retry intervals since _lastSuccessfulSend, up to Heartbeat
  taken,       \* the payload the transport last took
  published,   \* states published so far
  known,       \* _localConnectionID
  up,          \* whether the transport takes messages
  self,        \* our connection id, maybe another one after a reconnect, 0 at first
  joined,      \* the players now in the session
  got,         \* what each of them last received from us
  churn        \* changes of the session so far

outbox == <<offered, latest, pending, haveSent, age>>
session == <<up, self, joined, churn>>
vars == <<life, outbox, taken, published, known, session, got>>

TypeOK ==
  /\ life \in {"new", "running", "failed", "stopped"}
  /\ offered \in Payloads \cup {None}
  /\ latest \in (Payloads \ Oversize) \cup {None}
  /\ pending \in BOOLEAN /\ haveSent \in BOOLEAN
  /\ age \in 0..Heartbeat
  /\ taken \in (Payloads \ Oversize) \cup {None}
  /\ published \in 0..MaxPublish
  /\ known \in Nat /\ self \in Nat
  /\ up \in BOOLEAN
  /\ joined \subseteq Peers
  /\ got \in [Peers -> (Payloads \ Oversize) \cup {None}]
  /\ churn \in 0..MaxChurn

Init ==
  /\ life = "new"
  /\ offered = None /\ latest = None
  /\ pending = FALSE /\ haveSent = FALSE /\ age = 0
  /\ taken = None /\ published = 0
  /\ up = FALSE /\ joined = {} /\ churn = 0
  /\ known = 0 /\ self = 0
  /\ got = [p \in Peers |-> None]

Refused == ~(life = "running" /\ up)

\* The connection id we may know after TrySend asked for it, which it does
\* before it sends: without a transport the session may still have the id.
AskedIDs == IF life # "running" THEN {known} ELSE IF up THEN {self} ELSE {known, self}

\* Mutant: a state is no longer pending once it was tried.
TrySendOnce(m) ==
  /\ pending' = FALSE
  /\ known' \in AskedIDs
  /\ IF Refused
       THEN UNCHANGED <<haveSent, age, taken, got>>
       ELSE /\ haveSent' = TRUE /\ age' = 0
            /\ taken' = m
            /\ got' = [p \in Peers |-> IF p \in joined THEN m ELSE got[p]]

\* Mutant: the connection id is asked for by Start only.
TrySendAsBefore(m) ==
  /\ pending' = Refused
  /\ UNCHANGED known
  /\ IF Refused
       THEN UNCHANGED <<haveSent, age, taken, got>>
       ELSE /\ haveSent' = TRUE /\ age' = 0
            /\ taken' = m
            /\ got' = [p \in Peers |-> IF p \in joined THEN m ELSE got[p]]

\* TrySend of payload m, the latest, to all players; what it learns of our
\* connection id it keeps even when the transport then refuses the message.
TrySend(m) ==
  /\ pending' = Refused
  /\ known' \in AskedIDs
  /\ IF Refused
       THEN UNCHANGED <<haveSent, age, taken, got>>
       ELSE /\ haveSent' = TRUE /\ age' = 0
            /\ taken' = m
            /\ got' = [p \in Peers |-> IF p \in joined THEN m ELSE got[p]]

\* Mutant: Publish does not look at the size.
PublishAnySize(m) ==
  /\ life # "new"
  /\ offered' = m /\ latest' = m
  /\ TrySend(m)
  /\ UNCHANGED <<life, session>>

\* Publish, called by the local capture, which starts after the adapter did or
\* failed to: an oversize state is dropped, any other becomes the latest.
Publish(m) ==
  /\ life # "new"
  /\ offered' = m
  /\ IF m \in Oversize
       THEN UNCHANGED <<latest, pending, haveSent, age, taken, known, got>>
       ELSE latest' = m /\ TrySend(m)
  /\ UNCHANGED <<life, session>>

\* The local capture publishes some state.
StateChange(m) ==
  /\ published < MaxPublish /\ published' = published + 1
  /\ Publish(m)

\* Mutant: no heartbeat.
RetryPendingOnly ==
  /\ life = "running" /\ latest # None
  /\ pending
  /\ TrySend(latest)
  /\ UNCHANGED <<life, offered, latest, published, session>>

\* RetryTick: a pending state at once, a delivered one when it is old enough.
RetryTick ==
  /\ life = "running" /\ latest # None
  /\ pending \/ (haveSent /\ age = Heartbeat)
  /\ TrySend(latest)
  /\ UNCHANGED <<life, offered, latest, published, session>>

\* A retry interval passes.
Elapse ==
  /\ haveSent /\ age < Heartbeat
  /\ age' = age + 1
  /\ UNCHANGED <<life, offered, latest, pending, haveSent, taken, published, known, session, got>>

\* Mutant: Reset keeps _latestPayload.
ClearPending ==
  /\ offered' = None /\ UNCHANGED latest
  /\ pending' = FALSE /\ haveSent' = FALSE /\ age' = 0

ClearOutbox ==
  /\ offered' = None /\ latest' = None
  /\ pending' = FALSE /\ haveSent' = FALSE /\ age' = 0

\* Start, called once at kDataLoaded: the API may be missing and the channel
\* may be refused.
Start(ok) ==
  /\ life = "new"
  /\ life' = IF ok THEN "running" ELSE "failed"
  /\ known' \in (IF up THEN {self} ELSE {known, self}) \cup (IF ok THEN {} ELSE {known})
  /\ UNCHANGED <<outbox, taken, published, session, got>>

\* Reset at kPreLoadGame.
Reset ==
  /\ churn < MaxChurn /\ churn' = churn + 1
  /\ ClearOutbox
  /\ UNCHANGED <<life, taken, published, known, up, self, joined, got>>

Stop ==
  /\ life = "running" /\ life' = "stopped"
  /\ ClearOutbox
  /\ known' = 0
  /\ UNCHANGED <<taken, published, session, got>>

\* The session: the transport goes and comes back, with the same connection id
\* or another one, players join and leave.
Session ==
  /\ churn < MaxChurn /\ churn' = churn + 1
  /\ \/ /\ up' = ~up /\ UNCHANGED <<joined, got>>
        /\ self' \in IF up THEN {self} ELSE {self, self + 1} \ {0}
     \/ \E p \in Peers \ joined : joined' = joined \cup {p} /\ UNCHANGED <<up, self, got>>
     \/ \E p \in joined : /\ joined' = joined \ {p} /\ UNCHANGED <<up, self>>
                          /\ got' = [got EXCEPT ![p] = None]
  /\ UNCHANGED <<life, outbox, taken, published, known>>

Next ==
  \/ RetryTick \/ Elapse \/ Reset \/ Stop \/ Session
  \/ \E m \in Payloads : StateChange(m)
  \/ \E ok \in BOOLEAN : Start(ok)

\* The retry thread queues RetryTick every second and the clock goes on.
Fairness == WF_vars(RetryTick) /\ WF_vars(Elapse)

Spec == Init /\ [][Next]_vars /\ Fairness

-----------------------------------------------------------------------------
\* A state is counted as delivered only when the transport took that very
\* state, and then the heartbeat is armed: TrySend's two critical sections
\* against Publish, Reset and a transport that comes and goes.
DeliveredIsTaken == latest # None /\ ~pending => taken = latest /\ haveSent

\* README, "late-joining peers receive the current state": once the session is
\* stable every player in it holds the latest state, even one that joined
\* after the state was delivered, or while the transport was away.
PeersCatchUp ==
  \A p \in Peers :
    <>[](life = "running" /\ up /\ p \in joined /\ latest # None => got[p] = latest)

\* README: "the current full state is retransmitted every 10 seconds".  What a
\* retry or heartbeat would send is the state last published.
CurrentIsLatest == life = "running" /\ latest # None => latest = offered

\* After a reconnect OnMessage learns, by the next send or heartbeat, which id
\* is our own now: until then it takes for our own echo what comes from a peer
\* that was given our old id.
OwnIdKnown == <>[](life = "running" /\ up /\ latest # None => known = self)

=============================================================================
