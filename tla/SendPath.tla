------------------------------ MODULE SendPath ------------------------------
(***************************************************************************)
(* A message's whole way from the composer to the agent: the app's outbox  *)
(* and the engine's intake, joined by a pipe that fails.                   *)
(***************************************************************************)
EXTENDS Outbox, Intake

vars == <<wireVars, outboxVars, intakeVars>>

TypeOK == WireTypeOK /\ OutboxTypeOK /\ IntakeTypeOK

Init == WireInit /\ OutboxInit /\ IntakeInit

App ==
    /\ \/ \E m \in Msgs : \/ SendText(m) \/ RetrySend(m) \/ DiscardSend(m)
                          \/ AckTimeout(m) \/ TransferResult(m) \/ Flush(m)
                          \/ Age(m) \/ (Committed(m) /\ AdmitRow(m))
       \/ \E e \in Engines : \/ DrainSend(e) \/ DrainIdle(e) \/ RetryTimer(e)
                             \/ Receive(e) \/ Seal(e) \/ Settle(e) \/ NoteDown(e)
    /\ UNCHANGED intakeVars

Engine ==
    /\ \/ \E e \in Engines : Take(e)
       \/ \E s \in Sessions : \/ TypeHead(s) \/ DropHead(s) \/ ForgetHead(s)
                              \/ Commit(s) \/ SessionFlips(s)
    /\ UNCHANGED outboxVars

\* The page's sockets close with it.
PageDies ==
    /\ TabDies
    /\ SocketsClosed(Engines)
    /\ UNCHANGED <<status, typed, chat, promised, reached>>

Interference ==
    \/ \E e \in Engines : /\ PipeDrops(e) \/ EngineDies(e)
                          /\ UNCHANGED outboxVars
    \/ \E e \in Engines : LoseFrame(e) /\ UNCHANGED <<outboxVars, intakeVars>>
    \/ PageDies

Next == App \/ Engine \/ Interference

(* What the program goes on doing by itself: timers that are armed fire,   *)
(* queues are worked off, the manager redials for ever, IndexedDB commits. *)
(* Nobody is bound to tap, and nothing is bound to fail or to come back.   *)
Fairness ==
    /\ \A m \in Msgs : /\ WF_vars(AckTimeout(m) /\ UNCHANGED intakeVars)
                       /\ WF_vars(TransferResult(m) /\ UNCHANGED intakeVars)
                       /\ WF_vars(Flush(m) /\ UNCHANGED intakeVars)
    /\ \A e \in Engines :
         /\ WF_vars(DrainSend(e) /\ UNCHANGED intakeVars)
         /\ WF_vars(DrainIdle(e) /\ UNCHANGED intakeVars)
         /\ WF_vars((Seal(e) \/ Settle(e) \/ NoteDown(e)) /\ UNCHANGED intakeVars)
         /\ WF_vars(Receive(e) /\ UNCHANGED intakeVars)
         /\ WF_vars(Take(e) /\ UNCHANGED outboxVars)
    /\ \A s \in Sessions :
         WF_vars((TypeHead(s) \/ DropHead(s) \/ ForgetHead(s) \/ Commit(s))
                 /\ UNCHANGED outboxVars)

Spec == Init /\ [][Next]_vars /\ Fairness

\* What all of it promises, seen through the contract's eyes.
Contract == INSTANCE ChatContract WITH
    sent <- {fifo[i] : i \in DOMAIN fifo},
    taken <- promised,
    log <- chat,
    told <- bubble,
    page <- loads
-----------------------------------------------------------------------------
Sent(m) == \E i \in DOMAIN fifo : fifo[i] = m

(* The agent reads a message at most once, however often its frame is      *)
(* rewritten: after a lost ack, a lapsed deadline, a dropped pipe, a page  *)
(* reload or a retry tap.                                                  *)
AtMostOnce == \A m \in Msgs : reached[m] <= 1

(* One session takes its messages in the order they were sent              *)
(* (chat/deliver.ts:7-8).  A message the user touched again is excepted: a *)
(* retry is owed behind what was sent since, while an earlier frame of it  *)
(* may still arrive, and one discarded may come back with the page.        *)
InOrder ==
    \A s \in Sessions : \A i, j \in DOMAIN chat[s] :
        /\ i < j
        /\ tapped[chat[s][i]] = "none" /\ tapped[chat[s][j]] = "none"
        => Before(chat[s][i], chat[s][j])

(* A row in flight holds its session's slot and a slot holds a row in      *)
(* flight: a row without one would never be owed again, a slot without one *)
(* would stop its session's queue.                                         *)
InflightHoldsSlot ==
    \A m \in Msgs : live[m] = "inflight" <=> slot[SessionOf[m]] = m

(* Until the engine has answered that it took a message, the message is on *)
(* the app's disk, as a row or in the composer's box, unless discarded.    *)
KeptUntilTaken ==
    \A m \in Msgs \ promised : tapped[m] # "discarded" => disk[m] # "absent"

(* The honest checkmark: one tick only for a message the engine took, two  *)
(* only for one it has written to the chat.                                *)
HonestTicks ==
    \A m \in Msgs : /\ bubble[m] = "sent" => m \in promised
                    /\ bubble[m] = "delivered" => Committed(m)

(* A message painted as sent is on its way to the agent, or the refusal is *)
(* on its way to the app (docs/contracts/02-engine-app.md:7-8).            *)
SentIsOwed ==
    \A m \in Msgs :
        bubble[m] = "sent" => \/ InChain(m) \/ Committed(m) \/ Owed(live[m])
                              \/ OnTheWire(m)

(* A refused message is kept (store/handlers/chat.ts:113-114): what the    *)
(* user sent and did not discard is somewhere he can see it.               *)
NothingVanishes ==
    \A m \in Msgs :
        Sent(m) /\ tapped[m] # "discarded" => \/ bubble[m] # "none" \/ disk[m] # "absent"
                                    \/ InChain(m) \/ Committed(m)

(* Every message is accounted for, at every moment and for both sides:     *)
(* what a tick promises is on its way, and what was sent is somewhere.     *)
AllAccountedFor == SentIsOwed /\ NothingVanishes

(* The send path implements the chat's contract: every step of it is one   *)
(* step of ChatContract's or none.                                         *)
KeepsContract == Contract!Spec

(* A delivered message is not shown as refused (app/src/types.ts:1-6: only *)
(* sent is demoted, and failed is "refused or not delivered").             *)
DeliveredStays ==
    [][\A m \in Msgs : bubble[m] = "delivered" => bubble'[m] # "failed"]_vars

(* No message stays pending for ever: once the pipe stays up, every one    *)
(* gets its tick or its refusal.  A send that waited for more than a day   *)
(* is excepted: Expire drops its row without a word to its bubble.         *)
NobodyPendsForever ==
    \A m \in Msgs : bubble[m] = "sending" ~> bubble[m] # "sending" \/ m \in old
=============================================================================
