-------------------------------- MODULE Wire --------------------------------
(***************************************************************************)
(* The sealed pipe between the app and each engine, as both sides use it:  *)
(* first in, first out in each direction while it is up, and everything    *)
(* still on it gone when it goes down.  The frames are those of a send:    *)
(* the app's utterance upwards, and ack, send-failed and the chat echo     *)
(* downwards.                                                              *)
(*                                                                         *)
(* How often the world interferes, whatever the kind, is bounded by        *)
(* MaxFaults; Faults says which kinds may happen at all.                   *)
(***************************************************************************)
EXTENDS Naturals, Sequences

CONSTANTS
    Msgs,       \* sends, each named by the cid it keeps through every retry
    Sessions,
    Engines,
    SessionOf,  \* [Msgs -> Sessions]
    EngineOf,   \* [Sessions -> Engines]
    Faults,     \* the kinds of interference allowed (see FaultKinds)
    MaxFaults,  \* bound: interferences per behaviour
    MaxTaps     \* bound: taps on a message, to retry or discard it

(* The kinds of interference.
     drop      the pipe closes, taking what is on it
     lose      a frame of a live pipe never arrives
     slow      the ack deadline passes while the answer is on its way
     age       a send waits for more than INTENT_STALE_MS
     tabdies   the app's page is killed and started again
     enginedies  the engine process is killed and started again
     refuse    the pane takes no delivery (a dialog, a dead pane ...)
     offline   a session's pane dies or comes back
     prune     a session leaves or rejoins the engine's registry          *)
FaultKinds == { "drop", "lose", "slow", "age", "tabdies",
                "enginedies", "refuse", "offline", "prune" }

ASSUME WireAssumption ==
    /\ SessionOf \in [Msgs -> Sessions]
    /\ EngineOf \in [Sessions -> Engines]
    /\ "none" \notin Msgs
    /\ Faults \subseteq FaultKinds
    /\ MaxFaults \in Nat
    /\ MaxTaps \in Nat

VARIABLES
    link,     \* [Engines -> LinkStates]: the connection manager's word
    up,       \* [Engines -> Seq(Msgs)]: utterances on their way
    down,     \* [Engines -> Seq(Frames)]: the engine's answers on theirs
    faults    \* interferences so far

wireVars == <<link, up, down, faults>>

\* "closing": the pipe is gone and the manager has not been told.
LinkStates == {"down", "sealed", "settled", "closing"}
Frames == [t : {"ack", "nack", "send-failed", "echo"}, cid : Msgs]

EngineOfMsg(m) == EngineOf[SessionOf[m]]

WireTypeOK ==
    /\ link \in [Engines -> LinkStates]
    /\ up \in [Engines -> Seq(Msgs)]
    /\ down \in [Engines -> Seq(Frames)]
    /\ faults \in Nat

WireInit ==
    /\ link = [e \in Engines |-> "down"]
    /\ up = [e \in Engines |-> <<>>]
    /\ down = [e \in Engines |-> <<>>]
    /\ faults = 0

Fault(kind) == /\ kind \in Faults
               /\ faults < MaxFaults
               /\ faults' = faults + 1

PipeUp(e) == link[e] \in {"sealed", "settled"}

\* A frame of the engine's, dropped when the socket it is meant for is gone.
Answer(e, open, t, m) ==
    down' = IF open THEN [down EXCEPT ![e] = Append(@, [t |-> t, cid |-> m])]
                    ELSE down

\* Mutant of Cut: the close leaves a state the manager does not know.
CutUnheard(e) ==
    /\ PipeUp(e)
    /\ link' = [link EXCEPT ![e] = "closed"]
    /\ up' = [up EXCEPT ![e] = <<>>]
    /\ down' = [down EXCEPT ![e] = <<>>]

\* The pipe closes, and the frames it still holds go with it.  A pipe that had
\* settled is believed in until its close is noted.
Cut(e) ==
    /\ PipeUp(e)
    /\ link' = [link EXCEPT ![e] = IF @ = "settled" THEN "closing" ELSE "down"]
    /\ up' = [up EXCEPT ![e] = <<>>]
    /\ down' = [down EXCEPT ![e] = <<>>]

\* The pipe still holds a frame about this send.
OnTheWire(m) ==
    LET e == EngineOfMsg(m) IN
    \/ \E i \in DOMAIN up[e] : up[e][i] = m
    \/ \E i \in DOMAIN down[e] : down[e][i].cid = m

\* One frame of a live pipe is lost.
LoseFrame(e) ==
    /\ Fault("lose")
    /\ \/ /\ up[e] # <<>>
          /\ up' = [up EXCEPT ![e] = Tail(@)]
          /\ UNCHANGED down
       \/ /\ down[e] # <<>>
          /\ down' = [down EXCEPT ![e] = Tail(@)]
          /\ UNCHANGED up
    /\ UNCHANGED link
=============================================================================
