--------------------------- MODULE SharedDisplays ---------------------------
(***************************************************************************)
(* What a player shares with the others, without the captures, requests,   *)
(* retries and heartbeats that bring it about: a state of what is          *)
(* displayed becomes the current one, and a peer holds nothing or a state  *)
(* that was the latest at the time it was sent.                            *)
(***************************************************************************)
CONSTANTS
  Forms,     \* forms that can be displayed and have an identity
  States,    \* states of the player's displays
  Oversize,  \* those too long to be sent
  Peers,     \* the other players
  None

VARIABLES
  shown,    \* the forms the player displays
  current,  \* the state published last, None after a game load
  kept,     \* the last one of them that could be sent
  held      \* the state each peer holds

Listed(state) == {o.form : o \in state.objects}

Init ==
  /\ shown = {}
  /\ current = None /\ kept = None
  /\ held = [p \in Peers |-> None]

\* Some peers take a state.
Reach(P, state) == held' = [p \in Peers |-> IF p \in P THEN state ELSE held[p]]

\* Another state than the current one, which lists what is displayed now.
Renew ==
  /\ current' \in States /\ current' # current
  /\ Listed(current') = shown
  /\ UNCHANGED shown

Publish(P) ==
  /\ Renew
  /\ current' \notin Oversize
  /\ kept' = current'
  /\ Reach(P, current')

\* A state that cannot be sent leaves the one before it in use.
Withhold ==
  /\ Renew
  /\ current' \in Oversize
  /\ UNCHANGED <<kept, held>>

Repeat(P) ==
  /\ kept # None
  /\ Reach(P, kept)
  /\ UNCHANGED <<shown, current, kept>>

\* A game load ends what was published before it.
Load ==
  /\ current' = None /\ kept' = None
  /\ shown' \subseteq Forms
  /\ UNCHANGED held

Leave(p) ==
  /\ held' = [held EXCEPT ![p] = None]
  /\ UNCHANGED <<shown, current, kept>>

Change ==
  /\ shown' \subseteq Forms
  /\ UNCHANGED <<current, kept, held>>

Next ==
  \/ \E P \in SUBSET Peers : Publish(P) \/ Repeat(P)
  \/ Withhold \/ Load \/ Change
  \/ \E p \in Peers : Leave(p)

Spec == Init /\ [][Next]_<<shown, current, kept, held>>
=============================================================================
