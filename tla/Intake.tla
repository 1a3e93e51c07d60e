------------------------------- MODULE Intake -------------------------------
(***************************************************************************)
(* The engine's half of a send (chat/deliver.ts): onUtterance answers the  *)
(* frame before any work, inOrder holds one chain of messages per session, *)
(* injectUserMessage types the head of a chain at the pane and commits it  *)
(* to the chat, and dropDead tells the socket the message came from.       *)
(*                                                                         *)
(* The pane is as its delivery guard promises: it takes a message or it    *)
(* refuses it untyped (PaneDelivery has the rest).                         *)
(***************************************************************************)
EXTENDS Wire

CONSTANT CidsKept   \* USER_CIDS_KEEP: committed cids a session remembers

VARIABLES
    status,   \* [Sessions -> Statuses]
    chain,    \* [Sessions -> Seq([id, open])]: utterQueue, and whether the
              \* socket the message came from is still there
    typed,    \* sessions whose chain's head is in the pane, not yet committed
    chat,     \* [Sessions -> Seq(Msgs)]: the user rows on disk
    promised, \* history: messages the engine has acked as taken
    reached   \* [Msgs -> Nat]: history: times the agent was given the message

intakeVars == <<status, chain, typed, chat, promised, reached>>

Statuses == {"live", "offline", "unknown"}

ASSUME IntakeAssumption == CidsKept \in Nat

IntakeTypeOK ==
    /\ status \in [Sessions -> Statuses]
    /\ chain \in [Sessions -> Seq([id : Msgs, open : BOOLEAN])]
    /\ typed \subseteq Sessions
    /\ chat \in [Sessions -> Seq(Msgs)]
    /\ promised \subseteq Msgs
    /\ reached \in [Msgs -> Nat]

IntakeInit ==
    /\ status = [s \in Sessions |-> "live"]
    /\ chain = [s \in Sessions |-> <<>>]
    /\ typed = {}
    /\ chat = [s \in Sessions |-> <<>>]
    /\ promised = {}
    /\ reached = [m \in Msgs |-> 0]

-----------------------------------------------------------------------------
\* cidsInFlight: acked, and not yet through the chain.
InChain(m) == \E i \in DOMAIN chain[SessionOf[m]] : chain[SessionOf[m]][i].id = m

\* Mutant of Remembered: the memory is one row short.
RememberedOneLess(m) ==
    LET rows == chat[SessionOf[m]] IN
    \E i \in DOMAIN rows : rows[i] = m /\ i + CidsKept > Len(rows) + 1

\* recentCids, rebuilt from the persisted chat when the engine starts.
Remembered(m) ==
    LET rows == chat[SessionOf[m]] IN
    \E i \in DOMAIN rows : rows[i] = m /\ i + CidsKept > Len(rows)

\* Mutant of Known: what a session has taken is remembered without its cid.
KnownSession(m) == chat[SessionOf[m]] # <<>> \/ chain[SessionOf[m]] # <<>>

Known(m) == Remembered(m) \/ InChain(m)

Committed(m) == \E i \in DOMAIN chat[SessionOf[m]] : chat[SessionOf[m]][i] = m

-----------------------------------------------------------------------------
\* onUtterance.  Its answers go to the socket the frame came on.
Take(e) ==
    /\ up[e] # <<>>
    /\ up' = [up EXCEPT ![e] = Tail(@)]
    /\ LET m == Head(up[e])
           s == SessionOf[m]
       IN \/ /\ status[s] = "unknown"
             /\ Answer(e, TRUE, "nack", m)
             /\ UNCHANGED <<chain, promised>>
          \/ /\ status[s] = "offline"
             /\ Answer(e, TRUE, "send-failed", m)
             /\ UNCHANGED <<chain, promised>>
          \/ /\ status[s] = "live"
             /\ Answer(e, TRUE, "ack", m)
             /\ promised' = promised \cup {m}
             /\ chain' = IF Known(m) THEN chain
                         ELSE [chain EXCEPT ![s] = Append(@, [id |-> m, open |-> TRUE])]
    /\ UNCHANGED <<link, faults, status, typed, chat, reached>>

\* Mutant of Dequeued: the head of a chain stays there.
StillQueued(s) == chain

Dequeued(s) == [chain EXCEPT ![s] = Tail(@)]

\* handleUtterance at its turn: the pane takes the head of the chain ...
TypeHead(s) ==
    /\ chain[s] # <<>> /\ s \notin typed
    /\ status[s] = "live"
    /\ reached' = [reached EXCEPT ![Head(chain[s]).id] = @ + 1]
    /\ typed' = typed \cup {s}
    /\ UNCHANGED <<wireVars, status, chain, chat, promised>>

\* ... or does not, and dropDead answers the socket the message came on.
DropHead(s) ==
    /\ chain[s] # <<>> /\ s \notin typed
    /\ \/ status[s] = "live" /\ Fault("refuse")
       \/ status[s] = "offline" /\ UNCHANGED faults
    /\ Answer(EngineOf[s], Head(chain[s]).open, "send-failed", Head(chain[s]).id)
    /\ chain' = Dequeued(s)
    /\ UNCHANGED <<link, up, status, typed, chat, promised, reached>>

\* The session left the registry meanwhile: the message is logged and dropped.
ForgetHead(s) ==
    /\ chain[s] # <<>> /\ s \notin typed
    /\ status[s] = "unknown"
    /\ chain' = Dequeued(s)
    /\ UNCHANGED <<wireVars, status, typed, chat, promised, reached>>

\* commitDelivery: the row is written, the cid remembered, the echo broadcast.
Commit(s) ==
    /\ s \in typed
    /\ typed' = typed \ {s}
    /\ chat' = [chat EXCEPT ![s] = Append(@, Head(chain[s]).id)]
    /\ chain' = Dequeued(s)
    /\ Answer(EngineOf[s], PipeUp(EngineOf[s]), "echo", Head(chain[s]).id)
    /\ UNCHANGED <<link, up, faults, status, promised, reached>>

\* A pane dies or comes back; a session leaves the registry or rejoins it.
SessionFlips(s) ==
    /\ \E other \in Statuses \ {status[s]} :
         /\ Fault(IF "unknown" \in {other, status[s]} THEN "prune" ELSE "offline")
         /\ status' = [status EXCEPT ![s] = other]
    /\ UNCHANGED <<link, up, down, chain, typed, chat, promised, reached>>

\* Messages whose socket went away with the pipe.
SocketsClosed(closed) ==
    chain' = [s \in Sessions |->
                IF EngineOf[s] \notin closed THEN chain[s]
                ELSE [i \in DOMAIN chain[s] |-> [chain[s][i] EXCEPT !.open = FALSE]]]

PipeDrops(e) ==
    /\ Fault("drop")
    /\ Cut(e)
    /\ SocketsClosed({e})
    /\ UNCHANGED <<status, typed, chat, promised, reached>>

\* Only the chat survives the process.
EngineDies(e) ==
    /\ Fault("enginedies")
    /\ IF PipeUp(e) THEN Cut(e) ELSE UNCHANGED <<link, up, down>>
    /\ chain' = [s \in Sessions |-> IF EngineOf[s] = e THEN <<>> ELSE chain[s]]
    /\ typed' = {s \in typed : EngineOf[s] # e}
    /\ UNCHANGED <<status, chat, promised, reached>>
=============================================================================
