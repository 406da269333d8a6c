---------------------------- MODULE LocalPipeline ----------------------------
(***************************************************************************)
(* The sending client as main.cpp wires it: LocalCaptureProbe's handler is *)
(* STRPMAdapter::Publish, run inside the completion that found the change; *)
(* kDataLoaded starts both and kPreLoadGame resets both.                   *)
(***************************************************************************)
EXTENDS LocalCapture

CONSTANTS Oversize, Peers, Heartbeat, MaxChurn

VARIABLES
  life, offered, latest, pending, haveSent, age, taken, published,
  known, up, self, joined, got, churn

Sender == INSTANCE StateSender WITH Payloads <- States, MaxPublish <- 0

capture == vars
sender == <<life, offered, latest, pending, haveSent, age, taken, published,
            known, up, self, joined, got, churn>>
pipeline == <<capture, sender>>

PipelineInit == Init /\ Sender!Init

\* Mutant: a changed state is dropped while the transport is away.
CaptureStepIfUp(step) ==
  /\ step
  /\ IF lastState' # lastState /\ up
       THEN Sender!Publish(lastState') /\ UNCHANGED published
       ELSE UNCHANGED sender

\* A step of the capture; a changed state is handed on within it.
CaptureStep(step) ==
  /\ step
  /\ IF lastState' # lastState
       THEN Sender!Publish(lastState') /\ UNCHANGED published
       ELSE UNCHANGED sender

PipelineTick == CaptureStep(StartCapture)
PipelineComplete == CaptureStep(Complete)

\* OnSKSEMessage: kDataLoaded, whether or not the transport is ready ...
DataLoaded(ok) == Start /\ Sender!Start(ok)

\* Mutant: kPreLoadGame resets the adapter only.
OnPreLoadGameHalf == Sender!Reset /\ UNCHANGED capture

\* ... and kPreLoadGame.
OnPreLoadGame == PreLoadGame /\ Sender!Reset

PipelineNext ==
  \/ PipelineTick \/ PipelineComplete \/ OnPreLoadGame
  \/ \E ok \in BOOLEAN : DataLoaded(ok)
  \/ (Change \/ Make3D) /\ UNCHANGED sender
  \/ \E r \in Reqs, s \in Slots : Answer(r, s) /\ UNCHANGED sender
  \/ (Sender!RetryTick \/ Sender!Elapse \/ Sender!Session) /\ UNCHANGED capture

PipelineFairness ==
  /\ WF_pipeline(PipelineTick) /\ WF_pipeline(PipelineComplete)
  /\ \A r \in Reqs, s \in Slots : WF_pipeline(Answer(r, s) /\ UNCHANGED sender)
  /\ WF_pipeline(Sender!RetryTick /\ UNCHANGED capture)
  /\ WF_pipeline(Sender!Elapse /\ UNCHANGED capture)

PipelineSpec == PipelineInit /\ [][PipelineNext]_pipeline /\ PipelineFairness

-----------------------------------------------------------------------------
\* The capture's idea of what was published and the sender's never part: a
\* state that the capture takes for published, and so never offers again, is
\* the one the sender was last given since the two resets.
HandedOver == lastState = offered

\* End to end on the sending side: once the player and the session are at
\* rest, every player in the session has received what the player displays, if
\* that fits a message, across game loads, refused calls, transport failures,
\* late joins and states on the way that did not fit.
PeersSeePlayer ==
  LET present == StateOf([s \in Slots |-> Identity(worn[s])])
  IN \A p \in Peers :
       <>[](life = "running" /\ up /\ p \in joined /\ present \notin Oversize
              => got[p] = present)

\* What peers are sent, without how: see SharedDisplays.
Shared == INSTANCE SharedDisplays WITH
  Forms <- Forms \ Dynamic, shown <- Displayed \ (Dynamic \cup {None}),
  current <- lastState, kept <- latest, held <- got

\* Captures, refused calls, retries, heartbeats and both resets come to this: a
\* state that is published lists what is displayed at that very moment, what is
\* sent again is the last one that fits a message, and no state published before
\* a game load is sent after it.  (A capture that began before the load may end
\* and publish after it: its slots are old then, its list of displays is not.)
SharesDisplays == Shared!Spec

=============================================================================
