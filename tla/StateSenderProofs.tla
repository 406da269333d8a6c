-------------------------- MODULE StateSenderProofs --------------------------
(* What StateSender guarantees for any payloads, peers and heartbeat.      *)
EXTENDS StateSender, TLAPS

USE SenderAssumption

LEMMA TypeInit == Init => TypeOK
<1> SUFFICES ASSUME Init PROVE TypeOK
  OBVIOUS
<1>1. pending \in BOOLEAN /\ haveSent \in BOOLEAN /\ up \in BOOLEAN
  BY DEF Init
<1>2. age \in 0..Heartbeat /\ published \in 0..MaxPublish /\ churn \in 0..MaxChurn
  BY DEF Init
<1>3. known \in Nat /\ self \in Nat
  BY DEF Init
<1> QED
  BY <1>1, <1>2, <1>3, Zenon DEF Init, TypeOK

\* TrySend of a payload that fits keeps the state well typed.
LEMMA TrySendType ==
  ASSUME TypeOK, NEW m \in Payloads \ Oversize, TrySend(m)
  PROVE  /\ pending' \in BOOLEAN /\ haveSent' \in BOOLEAN /\ age' \in 0..Heartbeat
         /\ known' \in Nat
         /\ taken' \in (Payloads \ Oversize) \cup {None}
         /\ got' \in [Peers -> (Payloads \ Oversize) \cup {None}]
<1>1. Refused \in BOOLEAN
  BY DEF Refused
<1>4. AskedIDs \subseteq Nat
  BY DEF AskedIDs, TypeOK
<1>2. CASE Refused
  BY <1>1, <1>2, <1>4 DEF TypeOK, TrySend
<1>3. CASE ~Refused
  BY <1>1, <1>3, <1>4 DEF TypeOK, TrySend
<1> QED
  BY <1>2, <1>3

LEMMA TypeStep == TypeOK /\ [Next]_vars => TypeOK'
<1> SUFFICES ASSUME TypeOK, [Next]_vars PROVE TypeOK'
  OBVIOUS
<1> USE DEF TypeOK, outbox, session
<1>1. CASE RetryTick
  BY <1>1, TrySendType DEF RetryTick
<1>2. CASE Elapse
  BY <1>2 DEF Elapse
<1>3. CASE Reset
  <2>1. pending' \in BOOLEAN /\ haveSent' \in BOOLEAN
    BY <1>3, Zenon DEF Reset, ClearOutbox
  <2> QED
    BY <1>3, <2>1 DEF Reset, ClearOutbox
<1>4. CASE Stop
  <2>1. pending' \in BOOLEAN /\ haveSent' \in BOOLEAN
    BY <1>4, Zenon DEF Stop, ClearOutbox
  <2> QED
    BY <1>4, <2>1 DEF Stop, ClearOutbox
<1>5. CASE Session
  <2>1. up' \in BOOLEAN
    BY <1>5, Zenon DEF Session
  <2>2. joined' \subseteq Peers /\ got' \in [Peers -> (Payloads \ Oversize) \cup {None}]
    BY <1>5 DEF Session
  <2>3. churn' \in 0..MaxChurn /\ self' \in Nat
    BY <1>5 DEF Session
  <2> QED
    BY <1>5, <2>1, <2>2, <2>3 DEF Session
<1>6. ASSUME NEW m \in Payloads, StateChange(m) PROVE TypeOK'
  <2>1. CASE m \in Oversize
    BY <1>6, <2>1 DEF StateChange, Publish
  <2>2. CASE m \notin Oversize
    BY <1>6, <2>2, TrySendType DEF StateChange, Publish
  <2> QED
    BY <2>1, <2>2
<1>7. ASSUME NEW ok \in BOOLEAN, Start(ok) PROVE TypeOK'
  BY <1>7 DEF Start
<1>8. CASE UNCHANGED vars
  BY <1>8 DEF vars
<1> QED
  BY <1>1, <1>2, <1>3, <1>4, <1>5, <1>6, <1>7, <1>8 DEF Next

\* The sending side is well typed; in particular no oversize payload is ever
\* kept, sent or received.
THEOREM SenderTypeCorrect == Spec => []TypeOK
BY TypeInit, TypeStep, PTL DEF Spec

LEMMA DeliveredStep == TypeOK /\ DeliveredIsTaken /\ [Next]_vars => DeliveredIsTaken'
<1> SUFFICES ASSUME TypeOK, DeliveredIsTaken, [Next]_vars PROVE DeliveredIsTaken'
  OBVIOUS
<1> USE DEF DeliveredIsTaken, outbox, session
<1>1. CASE RetryTick
  BY <1>1 DEF RetryTick, TrySend
<1>2. CASE Elapse \/ Session \/ \E ok \in BOOLEAN : Start(ok)
  BY <1>2 DEF Elapse, Session, Start
<1>3. CASE Reset \/ Stop
  BY <1>3 DEF Reset, Stop, ClearOutbox
<1>4. ASSUME NEW m \in Payloads, StateChange(m) PROVE DeliveredIsTaken'
  BY <1>4 DEF StateChange, Publish, TrySend
<1>5. CASE UNCHANGED vars
  BY <1>5 DEF vars
<1> QED
  BY <1>1, <1>2, <1>3, <1>4, <1>5 DEF Next

\* However publications, retries, resets and transport failures interleave, a
\* state that no longer waits was taken by the transport itself, and the
\* heartbeat will repeat it.
THEOREM DeliveredStatesWereTaken == Spec => []DeliveredIsTaken
<1>1. Init => DeliveredIsTaken
  BY DEF Init, DeliveredIsTaken
<1> QED
  BY <1>1, TypeInit, TypeStep, DeliveredStep, PTL DEF Spec
=============================================================================
