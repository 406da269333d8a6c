---------------------------- MODULE RemoteAvatars ----------------------------
(***************************************************************************)
(* What a player sees of the others, without the messages, mapping events  *)
(* and tasks that bring it about: senders go from state to state, and an   *)
(* avatar carries nothing, or a state that its sender has been in.         *)
(***************************************************************************)
EXTENDS Naturals

CONSTANTS
  Conns, Proxies,   \* the senders, and the avatars
  MaxVersion,       \* bound: states of one sender
  None

VARIABLES
  last,  \* the state each sender is in
  on     \* the sender and state an avatar carries

State(c, v) == [from |-> c, version |-> v]

Init ==
  /\ last = [c \in Conns |-> 0]
  /\ on = [p \in Proxies |-> None]

Send(c) ==
  /\ last[c] < MaxVersion
  /\ last' = [last EXCEPT ![c] = @ + 1]
  /\ UNCHANGED on

\* A state is put on an avatar: never one its sender has not been in, nor one
\* older than any avatar carries of that sender.
Put(p, c, v) ==
  /\ v <= last[c]
  /\ \A q \in Proxies : on[q] # None /\ on[q].from = c => on[q].version <= v
  /\ on' = [on EXCEPT ![p] = State(c, v)]
  /\ UNCHANGED last

\* Avatars lose what they carry, one or several at once.
Drop(P) ==
  /\ on' = [p \in Proxies |-> IF p \in P THEN None ELSE on[p]]
  /\ UNCHANGED last

Next ==
  \/ \E c \in Conns : Send(c)
  \/ \E p \in Proxies, c \in Conns, v \in 1..MaxVersion : Put(p, c, v)
  \/ \E P \in SUBSET Proxies : Drop(P)

Spec == Init /\ [][Next]_<<last, on>>
=============================================================================
