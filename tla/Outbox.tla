------------------------------- MODULE Outbox -------------------------------
(***************************************************************************)
(* The app's half of a send, in the one tab that holds the drain lease:    *)
(* the durable intents (engine/intents.ts), the drain that writes them     *)
(* (engine/sync/drain.ts), the send bookkeeping with its ack deadlines     *)
(* (engine/store/sends.ts) and the frame handlers that settle or fail a    *)
(* send (engine/store/handlers/chat.ts).                                   *)
(*                                                                         *)
(* Rows are kept twice, as in the program: live in memory and on disk,     *)
(* where each write arrives later.  One iteration of the drain's loop is   *)
(* one action; kick only asks for it.                                      *)
(***************************************************************************)
EXTENDS Wire

CONSTANTS
    Files,   \* the sends that wait for their attachments' bytes
    MaxHeld  \* bound: frames the client holds for the next pipe

VARIABLES
    live,    \* [Msgs -> RowStates]: the intents in memory
    disk,    \* [Msgs -> RowStates]: the intents in IndexedDB
    fifo,    \* every intent written so far, in createdAt order
    old,     \* rows past INTENT_STALE_MS
    bubble,  \* [Msgs -> Bubbles]: the message as the thread shows it
    slot,    \* [Sessions -> Msgs or "none"]: drain.ts inflight
    acks,    \* messages with an ack deadline running
    kicked,  \* engines whose drain has been asked to run
    held,    \* [Engines -> Seq(Msgs)]: client.ts pending
    moving,  \* sends whose transfers have not finished
    tapped,  \* [Msgs -> Taps]: history: what the user last did with each
    taps,    \* retry and discard taps so far
    loads    \* history: times the page was loaded anew

outboxVars == <<live, disk, fifo, old, bubble, slot, acks, kicked, held,
                moving, tapped, taps, loads>>

\* "draft": the words are still in the composer's box, on disk with it.
RowStates == {"draft", "absent", "queued", "inflight", "failed"}
Bubbles == {"none", "sending", "sent", "delivered", "failed"}
Taps == {"none", "retried", "discarded"}

ASSUME OutboxAssumption == Files \subseteq Msgs /\ MaxHeld \in Nat

OutboxTypeOK ==
    /\ live \in [Msgs -> RowStates]
    /\ disk \in [Msgs -> RowStates]
    /\ fifo \in Seq(Msgs)
    /\ old \subseteq Msgs
    /\ bubble \in [Msgs -> Bubbles]
    /\ slot \in [Sessions -> Msgs \cup {"none"}]
    /\ acks \subseteq Msgs
    /\ kicked \subseteq Engines
    /\ held \in [Engines -> Seq(Msgs)]
    /\ moving \subseteq Msgs
    /\ tapped \in [Msgs -> Taps]
    /\ taps \in Nat
    /\ loads \in Nat

OutboxInit ==
    /\ live = [m \in Msgs |-> "draft"]
    /\ disk = [m \in Msgs |-> "draft"]
    /\ fifo = <<>>
    /\ old = {}
    /\ bubble = [m \in Msgs |-> "none"]
    /\ slot = [s \in Sessions |-> "none"]
    /\ acks = {}
    /\ kicked = {}
    /\ held = [e \in Engines |-> <<>>]
    /\ moving = Files
    /\ tapped = [m \in Msgs |-> "none"]
    /\ taps = 0
    /\ loads = 0

-----------------------------------------------------------------------------
(* Intents and the drain's bookkeeping. *)

Owed(row) == row \in {"queued", "inflight", "failed"}

\* createdAt order: a row written again goes to the back.
ToBack(m) ==
    LET k == CHOOSE i \in DOMAIN fifo : fifo[i] = m
    IN [i \in DOMAIN fifo |-> IF i = Len(fifo) THEN m
                             ELSE fifo[IF i < k THEN i ELSE i + 1]]

Before(m, n) == \E i, j \in DOMAIN fifo : i < j /\ fifo[i] = m /\ fifo[j] = n

Reachable(e) == link[e] \in {"settled", "closing"}

\* Mutant of Eligible: a session may have several sends in flight.
EligibleUnpaced(m) ==
    /\ live[m] = "queued"
    /\ m \in old \/ m \notin moving
    /\ ~ \E n \in Msgs : /\ live[n] = "queued"
                         /\ SessionOf[n] = SessionOf[m]
                         /\ Before(n, m)

\* nextEligible: the oldest queued send of a session with none in flight.  A
\* send whose bytes still move stalls its own session for the pass.
Eligible(m) ==
    /\ live[m] = "queued"
    /\ slot[SessionOf[m]] = "none"
    /\ m \in old \/ m \notin moving
    /\ ~ \E n \in Msgs : /\ live[n] = "queued"
                         /\ SessionOf[n] = SessionOf[m]
                         /\ Before(n, m)

\* releaseInflight: the slot is found by the id.
Released(m) == [s \in Sessions |-> IF slot[s] = m THEN "none" ELSE slot[s]]

Kick(e) == kicked' = kicked \cup {e}

\* settleSend -> drain.settled: the engine has it, the intent goes.
Settled(m) ==
    /\ live' = [live EXCEPT ![m] = "absent"]
    /\ slot' = Released(m)
    /\ acks' = acks \ {m}
    /\ Kick(EngineOfMsg(m))

\* Mutant of Failed: a refused row is deleted like a taken one.
FailedAway(m) == Settled(m)

\* failSend -> drain.fail: a row that is still held is failed and kept.
Failed(m) ==
    /\ live' = [live EXCEPT ![m] = IF Owed(@) THEN "failed" ELSE @]
    /\ slot' = Released(m)
    /\ acks' = acks \ {m}
    /\ Kick(EngineOfMsg(m))

-----------------------------------------------------------------------------
(* What the user does. *)

\* sendText: the bubble, the intent, the kick.
SendText(m) ==
    /\ live[m] = "draft"
    /\ \A i \in DOMAIN fifo : fifo[i] # m
    /\ bubble' = [bubble EXCEPT ![m] = "sending"]
    /\ live' = [live EXCEPT ![m] = "queued"]
    /\ fifo' = Append(fifo, m)
    /\ Kick(EngineOfMsg(m))
    /\ UNCHANGED <<wireVars, disk, old, slot, acks, held, moving, tapped, taps,
                   loads>>

\* retrySend: the row is renewed, or rebuilt when the ack had deleted it.
RetrySend(m) ==
    /\ bubble[m] = "failed"
    /\ taps < MaxTaps
    /\ taps' = taps + 1
    /\ tapped' = [tapped EXCEPT ![m] = "retried"]
    /\ bubble' = [bubble EXCEPT ![m] = "sending"]
    /\ live' = [live EXCEPT ![m] = "queued"]
    /\ fifo' = ToBack(m)
    /\ old' = old \ {m}
    /\ Kick(EngineOfMsg(m))
    /\ UNCHANGED <<wireVars, disk, slot, acks, held, moving, loads>>

\* discardSend, for a bubble the menu offers to delete.
DiscardSend(m) ==
    /\ bubble[m] \in {"sending", "failed"}
    /\ taps < MaxTaps
    /\ taps' = taps + 1
    /\ bubble' = [bubble EXCEPT ![m] = "none"]
    /\ tapped' = [tapped EXCEPT ![m] = "discarded"]
    /\ Settled(m)
    /\ UNCHANGED <<wireVars, disk, fifo, old, held, moving, loads>>

-----------------------------------------------------------------------------
(* The drain: one iteration of run's loop. *)

\* A send past INTENT_STALE_MS is failed, not written.  Its bubble is not told.
Expire(m) ==
    /\ m \in old
    /\ live' = [live EXCEPT ![m] = "failed"]
    /\ UNCHANGED <<wireVars, bubble, slot, acks, kicked, held>>

Painted(m) == [bubble EXCEPT ![m] = IF @ = "none" THEN @ ELSE "sending"]

\* writeAndArm on a sealed pipe: in flight until the engine answers.
Write(m, e) ==
    /\ m \notin old
    /\ link[e] = "settled"
    /\ live' = [live EXCEPT ![m] = "inflight"]
    /\ slot' = [slot EXCEPT ![SessionOf[m]] = m]
    /\ up' = [up EXCEPT ![e] = Append(@, m)]
    /\ acks' = acks \cup {m}
    /\ bubble' = Painted(m)
    /\ UNCHANGED <<link, down, faults, kicked, held>>

\* The pipe is gone already: the client keeps the frame, the drain keeps the row.
Hold(m, e) ==
    /\ m \notin old
    /\ link[e] = "closing"
    /\ Len(held[e]) < MaxHeld
    /\ held' = [held EXCEPT ![e] = Append(@, m)]
    /\ bubble' = Painted(m)
    /\ kicked' = kicked \ {e}
    /\ UNCHANGED <<wireVars, live, slot, acks>>

DrainSend(e) ==
    /\ e \in kicked
    /\ Reachable(e)
    /\ \E m \in Msgs : /\ EngineOfMsg(m) = e
                       /\ Eligible(m)
                       /\ Expire(m) \/ Write(m, e) \/ Hold(m, e)
    /\ UNCHANGED <<disk, fifo, old, moving, tapped, taps, loads>>

\* Nothing can go: the pass ends, and the next kick starts another.
DrainIdle(e) ==
    /\ e \in kicked
    /\ Reachable(e) => ~ \E m \in Msgs : EngineOfMsg(m) = e /\ Eligible(m)
    /\ kicked' = kicked \ {e}
    /\ UNCHANGED <<wireVars, live, disk, fifo, old, bubble, slot, acks, held,
                   moving, tapped, taps, loads>>

\* scheduleRetry's timer, while the engine still counts as reachable.
RetryTimer(e) ==
    /\ link[e] = "closing" /\ e \notin kicked
    /\ held[e] # <<>>
    /\ Kick(e)
    /\ UNCHANGED <<wireVars, live, disk, fifo, old, bubble, slot, acks, held,
                   moving, tapped, taps, loads>>

\* Mutant of AckTimeout: the deadline passes and nothing is owed again.
AckTimeoutQuiet(m) ==
    /\ m \in acks
    /\ IF OnTheWire(m) THEN Fault("slow") ELSE UNCHANGED faults
    /\ acks' = acks \ {m}
    /\ UNCHANGED <<link, up, down, live, disk, fifo, old, bubble, slot, kicked,
                   held, moving, tapped, taps, loads>>

\* The ack deadline: redeliver the same cid, if the bubble still waits.  It is
\* longer than the wire is slow, unless something interferes.
AckTimeout(m) ==
    /\ m \in acks
    /\ IF OnTheWire(m) THEN Fault("slow") ELSE UNCHANGED faults
    /\ acks' = acks \ {m}
    /\ IF bubble[m] = "sending"
       THEN /\ slot' = Released(m)
            /\ live' = [live EXCEPT ![m] = IF @ = "inflight" THEN "queued" ELSE @]
            /\ Kick(EngineOfMsg(m))
       ELSE UNCHANGED <<slot, live, kicked>>
    /\ UNCHANGED <<link, up, down, disk, fifo, old, bubble, held, moving, tapped,
                   taps, loads>>

\* The transfer worker's result.
TransferResult(m) ==
    /\ m \in moving /\ live[m] # "draft"
    /\ moving' = moving \ {m}
    /\ Kick(EngineOfMsg(m))
    /\ UNCHANGED <<wireVars, live, disk, fifo, old, bubble, slot, acks, held,
                   tapped, taps, loads>>

-----------------------------------------------------------------------------
(* The frames the engine answers with. *)

\* Mutant of OnAck: taken is shown as delivered.
OnAckDelivered(m) ==
    /\ bubble' = [bubble EXCEPT ![m] = IF @ = "sending" THEN "delivered" ELSE @]
    /\ Settled(m)

\* ack: taken.
OnAck(m) ==
    /\ bubble' = [bubble EXCEPT ![m] = IF @ = "sending" THEN "sent" ELSE @]
    /\ Settled(m)

\* nack and send-failed: refused, whatever the bubble said.
OnRefusal(m) ==
    /\ bubble' = [bubble EXCEPT ![m] = IF @ = "none" THEN @ ELSE "failed"]
    /\ Failed(m)

\* The engine's own row, live or on a page: delivered.
Adopt(m) ==
    /\ bubble' = [bubble EXCEPT ![m] = "delivered"]
    /\ Settled(m)

Receive(e) ==
    /\ down[e] # <<>>
    /\ down' = [down EXCEPT ![e] = Tail(@)]
    /\ LET f == Head(down[e]) IN
       \/ f.t = "ack" /\ OnAck(f.cid)
       \/ f.t \in {"nack", "send-failed"} /\ OnRefusal(f.cid)
       \/ f.t = "echo" /\ Adopt(f.cid)
    /\ UNCHANGED <<link, up, faults, disk, fifo, old, held, moving, tapped, taps,
                   loads>>

\* A page of the chat holds the message (an attach, history).  It comes on the
\* same pipe, behind what the engine had answered before.
AdmitRow(m) ==
    /\ link[EngineOfMsg(m)] = "settled"
    /\ down[EngineOfMsg(m)] = <<>>
    /\ bubble[m] # "delivered" \/ Owed(live[m])
    /\ Adopt(m)
    /\ UNCHANGED <<wireVars, disk, fifo, old, held, moving, tapped, taps, loads>>

-----------------------------------------------------------------------------
(* The connection's edges. *)

\* The handshake is done: what the client held back goes first.
Seal(e) ==
    /\ link[e] = "down"
    /\ link' = [link EXCEPT ![e] = "sealed"]
    /\ up' = [up EXCEPT ![e] = held[e]]
    /\ held' = [held EXCEPT ![e] = <<>>]
    /\ UNCHANGED <<down, faults, live, disk, fifo, old, bubble, slot, acks,
                   kicked, moving, tapped, taps, loads>>

\* onEdge: the settled edge kicks the drain.
Settle(e) ==
    /\ link[e] = "sealed"
    /\ link' = [link EXCEPT ![e] = "settled"]
    /\ Kick(e)
    /\ UNCHANGED <<up, down, faults, live, disk, fifo, old, bubble, slot, acks,
                   held, moving, tapped, taps, loads>>

\* Mutant of OwedAgain: the slots are freed and the rows forgotten in flight.
SlotsFreed(e) ==
    /\ slot' = [s \in Sessions |-> IF EngineOf[s] = e THEN "none" ELSE slot[s]]
    /\ UNCHANGED live

\* onDown: this engine's in-flight sends are owed again.
OwedAgain(e) ==
    /\ slot' = [s \in Sessions |-> IF EngineOf[s] = e THEN "none" ELSE slot[s]]
    /\ live' = [m \in Msgs |-> IF /\ EngineOfMsg(m) = e
                                  /\ slot[SessionOf[m]] = m
                                  /\ Owed(live[m])
                               THEN "queued" ELSE live[m]]

\* noteDown: onDown, and disarmAll, which stops every engine's ack deadlines.
NoteDown(e) ==
    /\ link[e] = "closing"
    /\ link' = [link EXCEPT ![e] = "down"]
    /\ OwedAgain(e)
    /\ acks' = {}
    /\ UNCHANGED <<up, down, faults, disk, fifo, old, bubble, kicked, held,
                   moving, tapped, taps, loads>>

-----------------------------------------------------------------------------
(* The disk and the page's death. *)

\* A row's latest write commits.  The composition goes in the same transaction.
\* Rows commit in any order: one whose attachments are still being stored waits
\* for them, and later rows do not wait for it.
Flush(m) ==
    /\ disk[m] # live[m]
    /\ disk' = [disk EXCEPT ![m] = live[m]]
    /\ UNCHANGED <<wireVars, live, fifo, old, bubble, slot, acks, kicked, held,
                   moving, tapped, taps, loads>>

\* hydrate: what was in flight on disk is owed from the start.  paintSend fails
\* a row past INTENT_STALE_MS, and paints a bubble for each.
Hydrated ==
    [m \in Msgs |-> IF disk[m] \in {"queued", "inflight"}
                    THEN IF m \in old THEN "failed" ELSE "queued"
                    ELSE disk[m]]

TabDies ==
    /\ Fault("tabdies")
    /\ live' = Hydrated
    /\ bubble' = [m \in Msgs |-> CASE Hydrated[m] = "queued" -> "sending"
                                   [] Hydrated[m] = "failed" -> "failed"
                                   [] OTHER -> "none"]
    /\ slot' = [s \in Sessions |-> "none"]
    /\ acks' = {}
    /\ kicked' = {}
    /\ held' = [e \in Engines |-> <<>>]
    /\ link' = [e \in Engines |-> "down"]
    /\ up' = [e \in Engines |-> <<>>]
    /\ down' = [e \in Engines |-> <<>>]
    /\ loads' = loads + 1
    /\ UNCHANGED <<disk, fifo, old, moving, tapped, taps>>

\* A send waits for over a day.
Age(m) ==
    /\ Fault("age")
    /\ live[m] = "queued" /\ m \notin old
    /\ old' = old \cup {m}
    /\ UNCHANGED <<link, up, down, live, disk, fifo, bubble, slot, acks, kicked,
                   held, moving, tapped, taps, loads>>
=============================================================================
