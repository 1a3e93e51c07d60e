------------------------- MODULE PaneDeliveryProofs -------------------------
(***************************************************************************)
(* What holds of the delivery guard for every set of messages and every    *)
(* bound: whatever the pane does, the types, and that an enter is never    *)
(* pressed on a dialog the guard could read on the screen; and, under what *)
(* the pane must be spared for it, that a delivered message was taken      *)
(* (Plain), that retries make no second copy (Kept), and that a harness    *)
(* without a parser is not answered by accident or left with residue       *)
(* (Foreign).  Every condition of the three is needed: without any one of  *)
(* them TLC finds the property violated.                                   *)
(***************************************************************************)
EXTENDS PaneDelivery, TLAPS

USE DeliveryAssumption

(* What the keyboard does to a screen leaves a screen: typing, an enter, a *)
(* submitted box.                                                          *)
LEMMA KeyboardType ==
    ASSUME NEW p \in Screens, NEW m \in Msgs
    PROVE  /\ Typed(p, m) \in Screens
           /\ Submitted(p) \in Screens
           /\ Entered(p) \subseteq Screens
<1>1. Typed(p, m) \in Screens
  <2>1. [p EXCEPT !.box[m] = @ + 1] \in Screens
    <3>1. [p.box EXCEPT ![m] = @ + 1] \in [Msgs -> Nat]
      BY DEF Screens
    <3>2. [p EXCEPT !.box = [p.box EXCEPT ![m] = @ + 1]] \in Screens
      BY <3>1 DEF Screens
    <3> QED BY <3>2 DEF Screens
  <2> QED BY <2>1 DEF Typed
<1>2. Submitted(p) \in Screens
  <2>1. [n \in Msgs |-> 0] \in [Msgs -> Nat]
    OBVIOUS
  <2>2. [n \in Msgs |-> p.turns[n] + p.box[n]] \in [Msgs -> Nat]
    BY DEF Screens
  <2> QED BY <2>1, <2>2 DEF Submitted, Screens
<1>3. [p EXCEPT !.modal = "none"] \in Screens
  BY DEF Screens, Modals
<1>4. Entered(p) \subseteq Screens
  BY <1>2, <1>3 DEF Entered
<1> QED BY <1>1, <1>2, <1>4

(* The blank screen and the screens the world makes are screens.           *)
LEMMA WorldScreens ==
    /\ Blank \in Screens
    /\ \A p \in Screens, d \in Modals :
         [p EXCEPT !.modal = d] \in Screens
    /\ \A p \in Screens :
         [p EXCEPT !.box = [m \in Msgs |-> 0], !.user = FALSE] \in Screens
    /\ \A p \in Screens : [p EXCEPT !.user = TRUE] \in Screens
    /\ \A p \in Screens :
         [p EXCEPT !.modal = "none", !.box = [m \in Msgs |-> 0],
                   !.user = FALSE] \in Screens
<1>1. [m \in Msgs |-> 0] \in [Msgs -> Nat]
  OBVIOUS
<1> QED BY <1>1 DEF Blank, Screens, Modals

(* A verdict on a message keeps the machine well typed.                    *)
LEMMA SettleType ==
    ASSUME TypeOK, NEW m \in Msgs, NEW v \in Verdicts, Settle(m, v)
    PROVE  /\ pc' \in States /\ cur' \in Msgs /\ look' \in Screens
           /\ told' \in [Msgs -> Verdicts]
  BY DEF TypeOK, Settle, States

Notes == [id : Msgs \cup {"none"}, fresh : BOOLEAN]

(* The notes the machine leaves are notes.                                 *)
LEMMA NoteType ==
    /\ NoNote \in Notes
    /\ \A m \in Msgs : [id |-> m, fresh |-> TRUE] \in Notes
    /\ \A n \in Notes : [n EXCEPT !.fresh = FALSE] \in Notes
  BY DEF NoNote, Notes

(* The initial states are well typed.                                      *)
LEMMA TypeInit == Init => TypeOK
<1> SUFFICES ASSUME Init PROVE TypeOK
  OBVIOUS
<1>1. note \in Notes
  BY NoteType DEF Init
<1>2. told \in [Msgs -> Verdicts] /\ attempts \in [Msgs -> Nat]
  BY DEF Init, Verdicts
<1>3. pane \in Screens /\ seen \in Screens /\ look \in Screens
  BY WorldScreens DEF Init
<1>4. queue \in Seq(Msgs) /\ pc \in States /\ cur \in Msgs /\ mischief \in Nat
  BY DEF Init, States
<1>5. late \subseteq Msgs /\ struck \subseteq {"unseen", "seen", "fooled"}
      /\ mixed \in BOOLEAN
  BY DEF Init
<1> QED BY <1>1, <1>2, <1>3, <1>4, <1>5 DEF TypeOK, Notes

(* Every action of the machine keeps the types.                            *)
LEMMA TypeMachine == TypeOK /\ Machine => TypeOK'
<1> SUFFICES ASSUME TypeOK, Machine PROVE TypeOK'
  OBVIOUS
<1> USE DEF TypeOK
<1>1. CASE TakeSlot
  <2>1. queue' \in Seq(Msgs) /\ Head(queue) \in Msgs
    BY <1>1 DEF TakeSlot
  <2>2. CASE Settle(Head(queue), "refused")
    BY <1>1, <2>1, <2>2, SettleType DEF TakeSlot, Verdicts
  <2>3. CASE pc' = "readPre" /\ cur' = Head(queue) /\ UNCHANGED <<look, told>>
    BY <1>1, <2>1, <2>3 DEF TakeSlot, States
  <2> QED BY <1>1, <2>2, <2>3 DEF TakeSlot
<1>2. CASE ReadPre
  <2>1. UNCHANGED <<pane, seen, queue, note, late, attempts, mischief, struck,
                    mixed>>
    BY <1>2 DEF ReadPre
  <2>2. \/ Settle(cur, "refused")
        \/ /\ pc' \in {"enter", "type", "typeGated"} /\ look' = seen
           /\ UNCHANGED <<cur, told>>
    BY <1>2 DEF ReadPre
  <2>3. CASE Settle(cur, "refused")
    BY <2>1, <2>3, SettleType DEF Verdicts
  <2> QED BY <2>1, <2>2, <2>3 DEF States
<1>3. CASE Type
  <2>1. pane' \in Screens
    BY <1>3, KeyboardType DEF Type
  <2>2. seen' \in Screens
    BY <1>3, <2>1 DEF Type, Shows
  <2>3. UNCHANGED <<queue, late, attempts, mischief, struck, mixed>>
    BY <1>3 DEF Type
  <2>4. \/ /\ note' = [id |-> cur, fresh |-> TRUE]
           /\ pc' \in {"echoGate", "enter"}
           /\ UNCHANGED <<cur, look, told>>
        \/ Settle(cur, "unsure") /\ UNCHANGED note
    BY <1>3 DEF Type
  <2>5. CASE Settle(cur, "unsure") /\ UNCHANGED note
    BY <2>1, <2>2, <2>3, <2>5, SettleType DEF Verdicts
  <2>6. CASE /\ note' = [id |-> cur, fresh |-> TRUE]
             /\ pc' \in {"echoGate", "enter"}
             /\ UNCHANGED <<cur, look, told>>
    <3>1. note' \in Notes
      BY <2>6, NoteType
    <3> QED BY <2>1, <2>2, <2>3, <2>6, <3>1 DEF Notes, States
  <2> QED BY <2>4, <2>5, <2>6
<1>4. CASE EchoGate \/ ReEcho
  <2>1. UNCHANGED <<pane, seen, queue, late, attempts, mischief, struck, mixed>>
    BY <1>4 DEF EchoGate, ReEcho
  <2>2. \/ /\ pc' \in {"enter", "reEcho"} /\ look' \in {seen, look}
           /\ UNCHANGED <<cur, told, note>>
        \/ note' = NoNote /\ Settle(cur, "refused")
    BY <1>4 DEF EchoGate, ReEcho, Swallowed, LookedAt
  <2>3. CASE note' = NoNote /\ Settle(cur, "refused")
    BY <2>1, <2>3, SettleType DEF Verdicts, NoNote
  <2> QED BY <2>1, <2>2, <2>3 DEF States
<1>5. CASE Enter
  <2>1. pane' \in Screens
    BY <1>5, KeyboardType DEF Enter
  <2>2. seen' \in Screens
    BY <1>5, <2>1 DEF Enter, Shows
  <2>3. UNCHANGED <<queue, note, late, attempts, mischief>>
    BY <1>5 DEF Enter
  <2>4. struck' \subseteq {"unseen", "seen", "fooled"} /\ mixed' \in BOOLEAN
    BY <1>5 DEF Enter, Cause
  <2>5. \/ pc' \in {"readPost", "enterAgain"} /\ UNCHANGED <<cur, look, told>>
        \/ Settle(cur, "unsure")
    BY <1>5 DEF Enter
  <2>6. CASE Settle(cur, "unsure")
    BY <2>1, <2>2, <2>3, <2>4, <2>6, SettleType DEF Verdicts
  <2> QED BY <2>1, <2>2, <2>3, <2>4, <2>5, <2>6 DEF States
<1>6. CASE ReadPost \/ RestrandCheck
  <2>1. UNCHANGED <<pane, seen, queue, late, attempts, mischief, struck, mixed>>
    BY <1>6 DEF ReadPost, RestrandCheck
  <2>2. \/ pc' = "restrandCheck" /\ UNCHANGED <<cur, look, told, note>>
        \/ /\ note' \in {NoNote, note}
           /\ \E v \in Verdicts : Settle(cur, v)
    BY <1>6 DEF ReadPost, RestrandCheck, Consumed, Stranded, Verdicts
  <2>3. CASE /\ note' \in {NoNote, note}
             /\ \E v \in Verdicts : Settle(cur, v)
    <3>1. note' \in Notes
      BY <2>3, NoteType DEF Notes
    <3>2. /\ pc' \in States /\ cur' \in Msgs /\ look' \in Screens
          /\ told' \in [Msgs -> Verdicts]
      BY <2>3, SettleType
    <3> QED BY <2>1, <3>1, <3>2 DEF Notes
  <2> QED BY <2>1, <2>2, <2>3 DEF States
<1> QED BY <1>1, <1>2, <1>3, <1>4, <1>5, <1>6 DEF Machine

(* Everything the pane and the engine's process may do keeps the types.    *)
LEMMA TypeWorld == TypeOK /\ World => TypeOK'
<1> SUFFICES ASSUME TypeOK, World PROVE TypeOK'
  OBVIOUS
<1> USE DEF TypeOK, Strike
<1>1. CASE OpenDialog
  <2>1. pane' \in Screens
    <3>1. PICK d \in {"chooser", "notice"} : pane' = [pane EXCEPT !.modal = d]
      BY <1>1 DEF OpenDialog
    <3>2. d \in Modals
      BY DEF Modals
    <3> QED BY <3>1, <3>2, WorldScreens
  <2>2. seen' \in Screens
    BY <1>1, <2>1 DEF OpenDialog, Shows
  <2> QED BY <1>1, <2>1, <2>2 DEF OpenDialog, machine
<1>2. CASE CloseDialog
  BY <1>2, WorldScreens DEF CloseDialog, Shows, machine, Modals
<1>3. CASE ClearBox
  <2>1. pane' \in Screens
    BY <1>3, WorldScreens DEF ClearBox
  <2>2. seen' \in Screens
    BY <1>3, <2>1 DEF ClearBox, Shows
  <2> QED BY <1>3, <2>1, <2>2 DEF ClearBox, machine
<1>4. CASE Scribble
  <2>1. pane' \in Screens
    BY <1>4, WorldScreens DEF Scribble
  <2> QED BY <1>4, <2>1 DEF Scribble, Shows, machine
<1>5. CASE HandEnter
  BY <1>5, KeyboardType DEF HandEnter, Shows, machine
<1>6. CASE Paint
  BY <1>6 DEF Paint, machine
<1>7. CASE \E m \in Msgs : DeadlinePasses(m)
  BY <1>7 DEF DeadlinePasses, machine
<1>8. CASE NoteExpires
  <2>1. note' \in Notes
    BY <1>8, NoteType DEF NoteExpires, Notes
  <2> QED BY <1>8, <2>1 DEF NoteExpires, Notes, machine
<1>9. CASE EngineRestarts
  BY <1>9 DEF EngineRestarts, NoNote, Verdicts, States
<1>10. CASE RestartPane
  <2>1. pane' \in Screens
    BY <1>10, WorldScreens DEF RestartPane
  <2>2. note' \in Notes
    BY <1>10, NoteType DEF RestartPane
  <2> QED BY <1>10, <2>1, <2>2 DEF RestartPane, Shows, Notes, machine
<1> QED BY <1>1, <1>2, <1>3, <1>4, <1>5, <1>6, <1>7, <1>8, <1>9, <1>10 DEF World

(* Every step keeps the types.                                             *)
LEMMA TypeStep == TypeOK /\ [Next]_vars => TypeOK'
<1> SUFFICES ASSUME TypeOK, [Next]_vars PROVE TypeOK'
  OBVIOUS
<1>1. CASE \E m \in Msgs : Deliver(m)
  BY <1>1 DEF Deliver, TypeOK, Verdicts, machine
<1>2. CASE UNCHANGED vars
  BY <1>2 DEF vars, machine, TypeOK
<1> QED BY <1>1, <1>2, TypeMachine, TypeWorld DEF Next

(* Type correctness of the delivery guard.                                 *)
THEOREM TypeCorrect == Spec => []TypeOK
  BY TypeInit, TypeStep, PTL DEF Spec

-----------------------------------------------------------------------------
(* The strengthening: whenever the machine is about to press enter, the    *)
(* screen it decided on either shows no dialog, or shows the text in its   *)
(* transcript, or cannot be expected to show it.                           *)
Vouched == look.modal = "none" \/ Said(look, cur) \/ cur \in Long

Watchful == /\ pc = "type" => look.modal = "none"
            /\ pc \in {"enter", "enterAgain"} => Vouched
            /\ NoBlindEnter

(* A screen that shows the text, or a box, shows no dialog over it.        *)
LEMMA VisibleVouches ==
    ASSUME NEW s, NEW m, TailVisible(s, m)
    PROVE  s.modal = "none" \/ Said(s, m)
  BY DEF TailVisible

(* Only a screen without a dialog is read as an input box.                 *)
LEMMA InputVouches ==
    ASSUME NEW s, s.modal \in Modals, "input" \in Reads(s)
    PROVE  s.modal = "none"
  BY DEF Reads, BoxKinds, Modals

(* Every step of the guard keeps it watchful.                              *)
LEMMA WatchfulStep == TypeOK /\ Watchful /\ [Next]_vars => Watchful'
<1> SUFFICES ASSUME TypeOK, Watchful, [Next]_vars PROVE Watchful'
  OBVIOUS
<1> USE DEF Watchful, NoBlindEnter
<1>1. ASSUME UNCHANGED <<machine, struck>> PROVE Watchful'
  BY <1>1 DEF machine, Vouched, Said
<1>2. ASSUME pc' \notin {"type", "enter", "enterAgain"}, UNCHANGED struck
      PROVE  Watchful'
  BY <1>2
<1>3. CASE ReadPre
  <2>1. UNCHANGED struck
    BY <1>3 DEF ReadPre
  <2>2. seen.modal \in Modals
    BY DEF TypeOK, Screens
  <2>3. CASE pc' = "enter"
    <3>1. look' = seen /\ cur' = cur
      BY <1>3, <2>3 DEF ReadPre, Settle
    <3>2. TailVisible(seen, cur) \/ "input" \in Reads(seen)
      BY <1>3, <2>3 DEF ReadPre, Settle
    <3>3. seen.modal = "none" \/ Said(seen, cur)
      BY <2>2, <3>2, VisibleVouches, InputVouches
    <3> QED BY <2>1, <2>3, <3>1, <3>3 DEF Vouched, Said
  <2>4. CASE pc' = "type"
    <3>0. PICK read \in Reads(seen) :
            /\ look' = seen
            /\ LET kind == IF CanParse \/ read = "unreadable" THEN read
                                                              ELSE "unknown"
               IN kind # "unknown" /\ ~RefusesDelivery(kind)
      BY <1>3, <2>4 DEF ReadPre, Settle
    <3>1. read \in {"chooser", "unknown", "input", "unreadable"}
      BY <2>2 DEF Reads, BoxKinds, Modals
    <3>2. look' = seen /\ "input" \in Reads(seen)
      BY <3>0, <3>1 DEF RefusesDelivery
    <3> QED BY <2>1, <2>2, <2>4, <3>2, InputVouches
  <2>5. pc' \in {"idle", "enter", "type", "typeGated"}
    BY <1>3 DEF ReadPre, Settle
  <2> QED BY <1>2, <2>1, <2>3, <2>4, <2>5
<1>4. CASE Type
  <2>1. UNCHANGED struck
    BY <1>4 DEF Type
  <2>2. CASE pc' = "enter"
    BY <1>4, <2>1, <2>2 DEF Type, Settle, Vouched, Said
  <2>3. pc' \in {"idle", "enter", "echoGate"}
    BY <1>4 DEF Type, Settle
  <2> QED BY <1>2, <2>1, <2>2, <2>3
<1>5. CASE EchoGate \/ ReEcho
  <2>1. UNCHANGED struck
    BY <1>5 DEF EchoGate, ReEcho
  <2>2. CASE pc' = "enter"
    <3>1. cur' = cur /\ (cur \in Long \/ (look' = seen /\ Echoed(seen, cur)))
      BY <1>5, <2>2 DEF EchoGate, ReEcho, Swallowed, Settle, EchoSeen, LookedAt
    <3>2. cur \in Long \/ (look' = seen /\ (seen.modal = "none" \/ Said(seen, cur)))
      BY <3>1, VisibleVouches DEF Echoed
    <3> QED BY <2>1, <2>2, <3>1, <3>2 DEF Vouched, Said
  <2>3. pc' \in {"idle", "enter", "reEcho"}
    BY <1>5 DEF EchoGate, ReEcho, Swallowed, Settle
  <2> QED BY <1>2, <2>1, <2>2, <2>3
<1>6. CASE Enter
  <2>1. pc \in {"enter", "enterAgain"}
    BY <1>6 DEF Enter
  <2>2. "seen" \notin Cause(pane, cur)
    BY <2>1 DEF Cause, Vouched
  <2>3. "seen" \notin struck'
    BY <1>6, <2>2 DEF Enter
  <2>4. CASE pc' = "enterAgain"
    BY <1>6, <2>1, <2>3, <2>4 DEF Enter, Settle, Vouched, Said
  <2>5. pc' \in {"readPost", "enterAgain", "idle"}
    BY <1>6 DEF Enter, Settle
  <2> QED BY <2>3, <2>4, <2>5
<1>7. CASE TakeSlot \/ ReadPost \/ RestrandCheck
  BY <1>2, <1>7 DEF TakeSlot, ReadPost, RestrandCheck, Consumed, Stranded, Settle
<1>8. CASE \E m \in Msgs : Deliver(m)
  BY <1>1, <1>8 DEF Deliver
<1>9. CASE World
  <2>1. CASE EngineRestarts
    BY <1>2, <2>1 DEF EngineRestarts
  <2>2. CASE World /\ ~EngineRestarts
    BY <1>1, <2>2 DEF World, OpenDialog, CloseDialog, ClearBox, Scribble,
       HandEnter, Paint, DeadlinePasses, NoteExpires, RestartPane
  <2> QED BY <1>9, <2>1, <2>2
<1>10. CASE UNCHANGED vars
  BY <1>1, <1>10 DEF vars
<1> QED BY <1>3, <1>4, <1>5, <1>6, <1>7, <1>8, <1>9, <1>10 DEF Next, Machine

(* The guard never presses enter on a dialog it could read: whatever the   *)
(* pane does between two awaits, an enter that answers one was decided on  *)
(* a screen that did not show it, or that showed the text already.         *)
THEOREM NeverBlind == Spec => []NoBlindEnter
<1>1. Init => Watchful
  BY DEF Init, Watchful, NoBlindEnter
<1>2. Watchful => NoBlindEnter
  BY DEF Watchful
<1> QED BY <1>1, <1>2, TypeInit, TypeStep, WatchfulStep, PTL DEF Spec

-----------------------------------------------------------------------------
(* Nobody stands in the queue twice: a message waiting for the keyboard or *)
(* holding it has no verdict, so it is not offered again meanwhile.        *)
InLine ==
    /\ \A i \in 1..Len(queue) : told[queue[i]] = "queued"
    /\ \A i, j \in 1..Len(queue) : queue[i] = queue[j] => i = j
    /\ pc # "idle" => /\ told[cur] = "queued"
                      /\ \A i \in 1..Len(queue) : queue[i] # cur

(* A message without a verdict pending is put last.                        *)
LEMMA InLineDeliver ==
    ASSUME TypeOK, InLine, NEW m \in Msgs, Deliver(m)
    PROVE  InLine'
<1>1. /\ told[m] # "queued"
      /\ told' = [told EXCEPT ![m] = "queued"]
      /\ queue' = Append(queue, m)
      /\ queue \in Seq(Msgs) /\ told \in [Msgs -> Verdicts]
      /\ pc' = pc /\ cur' = cur
  BY DEF Deliver, TypeOK, machine
<1>2. /\ Len(queue') = Len(queue) + 1
      /\ Len(queue) \in Nat
      /\ queue'[Len(queue) + 1] = m
      /\ \A i \in 1..Len(queue) : queue'[i] = queue[i] /\ queue[i] \in Msgs
  BY <1>1
<1>3. \A i \in 1..Len(queue) : queue[i] # m
  BY <1>1 DEF InLine
<1>4. \A i \in 1..Len(queue') : i \in 1..Len(queue) \/ i = Len(queue) + 1
  BY <1>2
<1>5. \A i \in 1..Len(queue') : told'[queue'[i]] = "queued"
  BY <1>1, <1>2, <1>3, <1>4 DEF InLine
<1>6. \A i, j \in 1..Len(queue') : queue'[i] = queue'[j] => i = j
  BY <1>2, <1>3, <1>4 DEF InLine
<1>7. ASSUME pc' # "idle" PROVE told'[cur'] = "queued" /\ cur # m
  BY <1>1, <1>7 DEF InLine, TypeOK
<1>8. ASSUME pc' # "idle", NEW i \in 1..Len(queue') PROVE queue'[i] # cur'
  BY <1>1, <1>2, <1>4, <1>7, <1>8 DEF InLine
<1> QED BY <1>5, <1>6, <1>7, <1>8 DEF InLine

(* The first in line leaves the line.                                      *)
LEMMA InLineTake == TypeOK /\ InLine /\ TakeSlot => InLine'
<1> SUFFICES ASSUME TypeOK, InLine, TakeSlot PROVE InLine'
  OBVIOUS
<1> DEFINE m == Head(queue)
<1>1. queue \in Seq(Msgs) /\ queue # <<>> /\ queue' = Tail(queue)
  BY DEF TakeSlot, TypeOK
<1>2. /\ Len(queue) \in Nat /\ Len(queue) >= 1 /\ m = queue[1] /\ m \in Msgs
      /\ Len(queue') = Len(queue) - 1
      /\ \A i \in 1..Len(queue') : /\ i + 1 \in 1..Len(queue)
                                   /\ queue'[i] = queue[i + 1]
                                   /\ queue[i + 1] \in Msgs
  BY <1>1
<1>3. told[m] = "queued"
  BY <1>2 DEF InLine
<1>4. \A i \in 1..Len(queue') : queue'[i] # m
  BY <1>2 DEF InLine
<1>5. \A i, j \in 1..Len(queue') : queue'[i] = queue'[j] => i = j
  BY <1>2 DEF InLine
<1>6. CASE Settle(m, "refused")
  <2>1. told' = [told EXCEPT ![m] = "refused"] /\ pc' = "idle"
    BY <1>6 DEF Settle
  <2>2. ASSUME NEW i \in 1..Len(queue') PROVE told'[queue'[i]] = "queued"
    <3>1. queue'[i] \in Msgs /\ queue'[i] # m /\ told[queue'[i]] = "queued"
      BY <1>2, <1>4 DEF InLine
    <3>2. told'[queue'[i]] = told[queue'[i]]
      BY <2>1, <3>1 DEF TypeOK
    <3> QED BY <3>1, <3>2
  <2> QED BY <1>5, <2>1, <2>2 DEF InLine
<1>7. CASE pc' = "readPre" /\ cur' = m /\ UNCHANGED told
  BY <1>2, <1>3, <1>4, <1>5, <1>7 DEF InLine
<1> QED BY <1>6, <1>7 DEF TakeSlot

(* The running message leaves the slot with its verdict, or stays.         *)
LEMMA InLineMachine ==
    ASSUME TypeOK, InLine, UNCHANGED queue, pc # "idle",
           \/ UNCHANGED <<cur, told>>
           \/ \E v \in Verdicts : Settle(cur, v)
    PROVE  InLine'
<1>1. CASE UNCHANGED <<cur, told>>
  BY <1>1 DEF InLine
<1>2. ASSUME NEW v \in Verdicts, Settle(cur, v) PROVE InLine'
  <2>1. pc' = "idle" /\ told' = [told EXCEPT ![cur] = v]
    BY <1>2 DEF Settle
  <2>2. \A i \in 1..Len(queue) : queue[i] \in Msgs /\ queue[i] # cur
    BY DEF InLine, TypeOK
  <2>3. \A i \in 1..Len(queue) : told'[queue[i]] = told[queue[i]]
    BY <2>1, <2>2 DEF TypeOK
  <2> QED BY <2>1, <2>3 DEF InLine
<1> QED BY <1>1, <1>2

(* What an await of the machine does to the caller: the slot is kept, or   *)
(* it is released with a verdict.                                          *)
LEMMA MachineSettles ==
    ASSUME Machine
    PROVE  \/ TakeSlot
           \/ /\ pc # "idle" /\ UNCHANGED queue
              /\ \/ UNCHANGED <<cur, told>>
                 \/ \E v \in Verdicts : Settle(cur, v)
<1> USE DEF Verdicts
<1>1. CASE ReadPre
  BY <1>1 DEF ReadPre
<1>2. CASE Type
  BY <1>2 DEF Type
<1>3. CASE EchoGate \/ ReEcho
  BY <1>3 DEF EchoGate, ReEcho, Swallowed
<1>4. CASE Enter
  BY <1>4 DEF Enter
<1>5. CASE ReadPost \/ RestrandCheck
  BY <1>5 DEF ReadPost, RestrandCheck, Consumed, Stranded
<1> QED BY <1>1, <1>2, <1>3, <1>4, <1>5 DEF Machine

(* A restart forgets the queue; the world does nothing else to it.         *)
LEMMA WorldSettles ==
    ASSUME World
    PROVE  \/ EngineRestarts
           \/ UNCHANGED <<queue, machine, told>>
<1>1. CASE OpenDialog \/ CloseDialog \/ ClearBox \/ Scribble \/ HandEnter
  BY <1>1 DEF OpenDialog, CloseDialog, ClearBox, Scribble, HandEnter, machine
<1>2. CASE Paint \/ (\E m \in Msgs : DeadlinePasses(m)) \/ NoteExpires \/ RestartPane
  BY <1>2 DEF Paint, DeadlinePasses, NoteExpires, RestartPane, machine
<1> QED BY <1>1, <1>2 DEF World

LEMMA InLineStep == TypeOK /\ InLine /\ [Next]_vars => InLine'
<1> SUFFICES ASSUME TypeOK, InLine, [Next]_vars PROVE InLine'
  OBVIOUS
<1>1. CASE \E m \in Msgs : Deliver(m)
  BY <1>1, InLineDeliver
<1>2. CASE Machine
  BY <1>2, MachineSettles, InLineTake, InLineMachine
<1>3. ASSUME UNCHANGED <<queue, machine, told>> PROVE InLine'
  BY <1>3 DEF InLine, machine
<1>4. CASE EngineRestarts
  BY <1>4 DEF EngineRestarts, InLine
<1>5. CASE World
  BY <1>3, <1>4, <1>5, WorldSettles
<1>6. CASE UNCHANGED vars
  BY <1>3, <1>6 DEF vars
<1> QED BY <1>1, <1>2, <1>5, <1>6 DEF Next

LEMMA InLineInit == Init => InLine
  BY DEF Init, InLine

-----------------------------------------------------------------------------
(* The keyboard, seen from one message: typing puts one copy in a box that *)
(* is open, an enter moves the box into the turns or closes a dialog.      *)
LEMMA Keys ==
    ASSUME NEW p \in Screens, NEW m \in Msgs
    PROVE  /\ Typed(p, m).modal = p.modal
           /\ Typed(p, m).user = p.user
           /\ Typed(p, m).turns = p.turns
           /\ Typed(p, m).box = IF p.modal = "none"
                                THEN [p.box EXCEPT ![m] = p.box[m] + 1]
                                ELSE p.box
           /\ Submitted(p).modal = p.modal
           /\ Submitted(p).user = FALSE
           /\ Submitted(p).box = [n \in Msgs |-> 0]
           /\ Submitted(p).turns = [n \in Msgs |-> p.turns[n] + p.box[n]]
<1>1. Typed(p, m) = IF p.modal = "none"
                    THEN [p EXCEPT !.box = [p.box EXCEPT ![m] = p.box[m] + 1]]
                    ELSE p
  BY DEF Typed, Screens
<1> QED BY <1>1 DEF Submitted, Screens

(* No text is lost from a screen q that follows a screen p.                *)
Keeps(p, q) == \A n \in Msgs : /\ q.turns[n] >= p.turns[n]
                               /\ q.turns[n] + q.box[n] >= p.turns[n] + p.box[n]

(* Neither typing nor an enter loses one, nor what opens or closes a       *)
(* dialog or writes into the box.                                          *)
LEMMA KeysKeep ==
    ASSUME NEW p \in Screens, NEW m \in Msgs
    PROVE  /\ Keeps(p, p)
           /\ Keeps(p, Typed(p, m))
           /\ Keeps(p, Submitted(p))
           /\ \A q \in Entered(p) : Keeps(p, q)
           /\ \A d : Keeps(p, [p EXCEPT !.modal = d])
           /\ Keeps(p, [p EXCEPT !.user = TRUE])
<1>1. ASSUME NEW q, q.turns = p.turns,
             \A n \in Msgs : q.box[n] \in Nat /\ q.box[n] >= p.box[n]
      PROVE  Keeps(p, q)
  <2> SUFFICES ASSUME NEW n \in Msgs
               PROVE  /\ q.turns[n] >= p.turns[n]
                      /\ q.turns[n] + q.box[n] >= p.turns[n] + p.box[n]
    BY DEF Keeps
  <2>1. p.box[n] \in Nat /\ p.turns[n] \in Nat
    BY DEF Screens
  <2> QED BY <1>1, <2>1
<1>2. ASSUME NEW n \in Msgs
      PROVE  /\ p.box[n] \in Nat /\ p.box[n] >= p.box[n]
             /\ Typed(p, m).box[n] \in Nat /\ Typed(p, m).box[n] >= p.box[n]
  <2>1. p.box \in [Msgs -> Nat] /\ p.box[n] \in Nat
    BY DEF Screens
  <2>2. Typed(p, m).box[n] = p.box[n] \/ Typed(p, m).box[n] = p.box[n] + 1
    <3>1. [p.box EXCEPT ![m] = p.box[m] + 1][n]
            = IF n = m THEN p.box[n] + 1 ELSE p.box[n]
      BY <2>1
    <3> QED BY <3>1, Keys
  <2> QED BY <2>1, <2>2
<1>3. Keeps(p, p) /\ Keeps(p, Typed(p, m))
  BY <1>1, <1>2, Keys
<1>4. Keeps(p, Submitted(p))
  <2> SUFFICES ASSUME NEW n \in Msgs
               PROVE  /\ Submitted(p).turns[n] >= p.turns[n]
                      /\ Submitted(p).turns[n] + Submitted(p).box[n]
                           >= p.turns[n] + p.box[n]
    BY DEF Keeps
  <2>1. p.box[n] \in Nat /\ p.turns[n] \in Nat
    BY DEF Screens
  <2>2. /\ Submitted(p).turns[n] = p.turns[n] + p.box[n]
        /\ Submitted(p).box[n] = 0
    BY Keys
  <2> QED BY <2>1, <2>2
<1>5. ASSUME NEW d
      PROVE  Keeps(p, [p EXCEPT !.modal = d]) /\ Keeps(p, [p EXCEPT !.user = TRUE])
  <2>1. /\ [p EXCEPT !.modal = d].turns = p.turns
        /\ [p EXCEPT !.modal = d].box = p.box
        /\ [p EXCEPT !.user = TRUE].turns = p.turns
        /\ [p EXCEPT !.user = TRUE].box = p.box
    BY DEF Screens
  <2> QED BY <1>1, <1>2, <2>1
<1>6. \A q \in Entered(p) : Keeps(p, q)
  BY <1>3, <1>4, <1>5 DEF Entered
<1> QED BY <1>3, <1>4, <1>5, <1>6

-----------------------------------------------------------------------------
(* A pane whose screen can be relied on: the harness has a parser, which   *)
(* knows the box whenever it is on screen, no two texts look alike, and    *)
(* while the engine is typing nobody opens a dialog or clears the box.     *)
(* Without any one of these a message can be reported that was not taken.  *)
Plain ==
    /\ CanParse
    /\ Long = {}
    /\ \A m, n \in Msgs : SameTail(m, n) => m = n
    /\ "slow" \notin Mischief
    /\ "clear" \notin Mischief
    /\ "race" \notin Mischief
    /\ "blind" \notin Mischief
    /\ "odd" \notin Mischief

Echoing == {"echoGate", "reEcho"}
Pressing == {"enter", "enterAgain", "readPost", "restrandCheck"}

(* The text was taken, or it is in a box that is open to be read.          *)
Landed(p, m) == \/ p.turns[m] > 0
                \/ p.modal = "none" /\ p.box[m] > 0

(* The strengthening: from the enter on the message has landed, so a box   *)
(* that shows no text has been submitted with it.  For a retry that only   *)
(* presses enter, this is what the note says.                              *)
Confirmed ==
    /\ seen = pane
    /\ note.id \in Msgs => IF pc \in Echoing THEN note.id = cur
                                             ELSE Copies(note.id) > 0
    /\ pc = "type" => pane.modal = "none"
    /\ pc \in Pressing => Landed(pane, cur)
    /\ DeliveredMeansTaken

(* A screen read in full shows the message when its box or its transcript  *)
(* does, and shows the box for what it is.                                 *)
LEMMA PlainReads ==
    ASSUME Plain, NEW p \in Screens, NEW m \in Msgs
    PROVE  /\ Reads(p) = {IF p.modal = "none" THEN "input"
                          ELSE IF p.modal = "chooser" THEN "chooser"
                          ELSE "unknown"}
           /\ Echoed(p, m) => Landed(p, m)
           /\ TailVisible(p, m) => Landed(p, m)
<1>1. p.modal \in {"none", "chooser", "notice"}
  BY DEF Screens, Modals
<1>2. Reads(p) = {IF p.modal = "none" THEN "input"
                  ELSE IF p.modal = "chooser" THEN "chooser" ELSE "unknown"}
  BY <1>1 DEF Reads, BoxKinds, Plain
<1>3. TailVisible(p, m) => Landed(p, m)
  BY DEF TailVisible, Said, Plain, SameTail, Landed
<1>4. Echoed(p, m) => Landed(p, m)
  BY <1>3 DEF Echoed, Plain
<1> QED BY <1>2, <1>3, <1>4

(* A verdict is true of the pane when "delivered" is given only to what    *)
(* was taken.                                                              *)
LEMMA VerdictTrue ==
    ASSUME TypeOK, DeliveredMeansTaken, pane' \in Screens, Keeps(pane, pane'),
           NEW c \in Msgs, NEW v \in Verdicts,
           \/ UNCHANGED told
           \/ told' = [told EXCEPT ![c] = v],
           v = "delivered" => pane'.turns[c] > 0
    PROVE  DeliveredMeansTaken'
<1> SUFFICES ASSUME NEW m \in Msgs, told'[m] = "delivered"
             PROVE  pane'.turns[m] > 0
  BY DEF DeliveredMeansTaken
<1>1. pane.turns[m] \in Nat /\ pane'.turns[m] \in Nat
  BY DEF TypeOK, Screens
<1>2. pane'.turns[m] >= pane.turns[m]
  BY DEF Keeps
<1>3. CASE told'[m] = told[m]
  BY <1>1, <1>2, <1>3 DEF DeliveredMeansTaken
<1>4. CASE m = c /\ v = "delivered"
  BY <1>4
<1> QED BY <1>3, <1>4 DEF TypeOK

(* What was in the pane still is.                                          *)
LEMMA CopiesKeep ==
    ASSUME TypeOK, pane' \in Screens, Keeps(pane, pane'),
           NEW m \in Msgs, Copies(m) > 0
    PROVE  Copies(m)' > 0
<1>1. /\ pane.turns[m] \in Nat /\ pane'.turns[m] \in Nat
      /\ pane.box[m] \in Nat /\ pane'.box[m] \in Nat
  BY DEF TypeOK, Screens
<1> QED BY <1>1 DEF Keeps, Copies

(* The machine's steps that only look: what is on screen is what is there. *)
LEMMA ConfirmedRead ==
    ASSUME Plain, TypeOK, Confirmed, ReadPre
    PROVE  Confirmed'
<1>1. UNCHANGED <<pane, seen, note>>
  BY DEF ReadPre
<1>2. seen = pane /\ pane \in Screens /\ cur \in Msgs /\ Keeps(pane, pane')
  BY <1>1, KeysKeep DEF Confirmed, TypeOK
<1>3. pc \notin Echoing /\ pc = "readPre"
  BY DEF ReadPre, Echoing
<1>4. PICK read : read = IF pane.modal = "none" THEN "input"
                         ELSE IF pane.modal = "chooser" THEN "chooser"
                         ELSE "unknown"
  OBVIOUS
<1>5. \/ Settle(cur, "refused")
      \/ /\ read = "input" /\ Believable /\ HasContent(pane)
         /\ pc' = "enter" /\ UNCHANGED <<cur, told>>
      \/ /\ read = "unknown" /\ pc' = "typeGated" /\ UNCHANGED <<cur, told>>
      \/ /\ read = "input" /\ pc' = "type" /\ UNCHANGED <<cur, told>>
  <2>1. Reads(seen) = {read}
    BY <1>2, <1>4, PlainReads
  <2> QED BY <1>2, <1>4, <2>1 DEF ReadPre, Plain, RefusesDelivery
<1>6. DeliveredMeansTaken'
  <2>1. DeliveredMeansTaken
    BY DEF Confirmed
  <2>2. UNCHANGED told \/ told' = [told EXCEPT ![cur] = "refused"]
    BY <1>5 DEF Settle
  <2>3. pane' \in Screens /\ "refused" \in Verdicts /\ "refused" # "delivered"
    BY <1>1, <1>2 DEF Verdicts
  <2> QED BY <1>2, <2>1, <2>2, <2>3, VerdictTrue
<1>7. pc' \notin Echoing /\ (pc' = "type" => pane.modal = "none")
  BY <1>4, <1>5 DEF Settle, Echoing
<1>8. pc' \in Pressing => Landed(pane', cur')
  <2> SUFFICES ASSUME pc' \in Pressing PROVE Landed(pane, cur)
    BY <1>1, <1>5 DEF Pressing, Settle
  <2>1. read = "input" /\ Believable
    BY <1>5 DEF Pressing, Settle
  <2>2. Copies(cur) > 0
    BY <1>2, <1>3, <2>1 DEF Confirmed, Believable
  <2>3. pane.box[cur] \in Nat /\ pane.turns[cur] \in Nat
    BY <1>2 DEF Screens
  <2> QED BY <1>4, <2>1, <2>2, <2>3 DEF Copies, Landed
<1>9. note'.id \in Msgs => Copies(note.id)' > 0
  BY <1>1, <1>3 DEF Confirmed, Copies
<1> QED BY <1>1, <1>2, <1>6, <1>7, <1>8, <1>9 DEF Confirmed

(* Typing into an open box lands; into a dialog it does not, and the echo  *)
(* is waited for.                                                          *)
LEMMA ConfirmedType ==
    ASSUME Plain, TypeOK, Confirmed, Type
    PROVE  Confirmed'
<1>1. pane \in Screens /\ cur \in Msgs /\ told \in [Msgs -> Verdicts]
  BY DEF TypeOK
<1>2. pc \in {"type", "typeGated"} /\ pc \notin Echoing
  BY DEF Type, Echoing
<1>3. pane' \in {pane, Typed(pane, cur)}
  BY DEF Type
<1>4. pane' \in Screens /\ Keeps(pane, pane')
  BY <1>1, <1>3, KeyboardType, KeysKeep
<1>5. seen' = pane'
  BY DEF Type, Shows, Plain
<1>6. DeliveredMeansTaken'
  <2>1. UNCHANGED told \/ told' = [told EXCEPT ![cur] = "unsure"]
    BY DEF Type, Settle
  <2>2. DeliveredMeansTaken /\ "unsure" \in Verdicts /\ "unsure" # "delivered"
    BY DEF Verdicts, Confirmed
  <2> QED BY <1>1, <1>4, <2>1, <2>2, VerdictTrue
<1>7. CASE pc' = "idle" /\ UNCHANGED note
  <2>1. PICK n : n = note.id
    OBVIOUS
  <2>2. n \in Msgs => Copies(n) > 0
    BY <1>2, <2>1 DEF Confirmed
  <2>3. n \in Msgs => Copies(n)' > 0
    BY <1>4, <2>2, CopiesKeep
  <2>4. note'.id \in Msgs => Copies(note.id)' > 0
    BY <1>7, <2>1, <2>3 DEF Copies
  <2> QED BY <1>5, <1>6, <1>7, <2>4 DEF Confirmed, Echoing, Pressing
<1>8. CASE /\ pane' = Typed(pane, cur)
           /\ note' = [id |-> cur, fresh |-> TRUE]
           /\ pc' = IF pc = "typeGated" THEN "echoGate" ELSE "enter"
           /\ UNCHANGED cur
  <2>1. CASE pc = "typeGated"
    BY <1>5, <1>6, <1>8, <2>1 DEF Confirmed, Echoing, Pressing
  <2>2. CASE pc = "type"
    <3>1. pane.modal = "none"
      BY <2>2 DEF Confirmed
    <3>2. pane.box \in [Msgs -> Nat] /\ pane.box[cur] \in Nat
          /\ pane.turns[cur] \in Nat
      BY <1>1 DEF Screens
    <3>3. pane'.box = [pane.box EXCEPT ![cur] = pane.box[cur] + 1]
      BY <1>1, <1>8, <3>1, Keys
    <3>4. /\ pane'.modal = "none" /\ pane'.box[cur] = pane.box[cur] + 1
          /\ pane'.turns[cur] = pane.turns[cur]
      BY <1>1, <1>8, <3>1, <3>2, <3>3, Keys
    <3>5. pane'.box[cur] > 0 /\ pane'.box[cur] + pane'.turns[cur] > 0
      BY <3>2, <3>4
    <3>6. Landed(pane', cur') /\ note'.id = cur /\ Copies(note.id)' > 0
      BY <1>8, <3>4, <3>5 DEF Landed, Copies
    <3>7. pc' = "enter"
      BY <1>8, <2>2
    <3> QED BY <1>5, <1>6, <3>6, <3>7 DEF Confirmed, Echoing, Pressing, Copies
  <2> QED BY <1>2, <2>1, <2>2
<1> QED BY <1>7, <1>8 DEF Type, Settle

(* The echo gate lets the enter through only on a text that landed.        *)
LEMMA ConfirmedEcho ==
    ASSUME Plain, TypeOK, Confirmed, EchoGate \/ ReEcho
    PROVE  Confirmed'
<1>1. UNCHANGED <<pane, seen>>
  BY DEF EchoGate, ReEcho
<1>2. seen = pane /\ pane \in Screens /\ cur \in Msgs /\ Keeps(pane, pane')
  BY <1>1, KeysKeep DEF Confirmed, TypeOK
<1>3. pc \in Echoing
  BY DEF EchoGate, ReEcho, Echoing
<1>4. \/ /\ Echoed(pane, cur) /\ pc' = "enter" /\ UNCHANGED <<cur, told, note>>
      \/ pc' = "reEcho" /\ UNCHANGED <<cur, told, note>>
      \/ note' = NoNote /\ Settle(cur, "refused")
  BY <1>2 DEF EchoGate, ReEcho, Swallowed, EchoSeen, Plain
<1>5. DeliveredMeansTaken'
  <2>1. UNCHANGED told \/ told' = [told EXCEPT ![cur] = "refused"]
    BY <1>4 DEF Settle
  <2>2. DeliveredMeansTaken /\ "refused" \in Verdicts /\ "refused" # "delivered"
        /\ pane' \in Screens
    BY <1>1, <1>2 DEF Verdicts, Confirmed
  <2> QED BY <1>2, <2>1, <2>2, VerdictTrue
<1>6. CASE Echoed(pane, cur) /\ pc' = "enter" /\ UNCHANGED <<cur, told, note>>
  <2>1. Landed(pane', cur')
    BY <1>1, <1>2, <1>6, PlainReads
  <2>2. pane.box[cur] \in Nat /\ pane.turns[cur] \in Nat
    BY <1>2 DEF Screens
  <2>3. Copies(cur) > 0
    BY <1>1, <1>6, <2>1, <2>2 DEF Landed, Copies
  <2>4. note'.id \in Msgs => Copies(note.id)' > 0
    BY <1>1, <1>3, <1>6, <2>3 DEF Confirmed, Copies
  <2> QED BY <1>1, <1>2, <1>5, <1>6, <2>1, <2>4 DEF Confirmed, Echoing, Pressing
<1>7. CASE pc' = "reEcho" /\ UNCHANGED <<cur, told, note>>
  BY <1>1, <1>2, <1>3, <1>5, <1>7 DEF Confirmed, Echoing, Pressing
<1>8. CASE note' = NoNote /\ Settle(cur, "refused")
  BY <1>1, <1>2, <1>5, <1>8 DEF Confirmed, Echoing, Pressing, NoNote, Settle
<1> QED BY <1>4, <1>6, <1>7, <1>8

(* What has landed stays landed: only an enter empties the box, and it     *)
(* takes the text.                                                         *)
LEMMA LandedKeeps ==
    ASSUME NEW p \in Screens, NEW m \in Msgs, Landed(p, m)
    PROVE  /\ Landed(Submitted(p), m)
           /\ \A q \in Entered(p) : Landed(q, m)
           /\ Landed([p EXCEPT !.modal = "none"], m)
           /\ Landed([p EXCEPT !.user = TRUE], m)
<1>1. p.box[m] \in Nat /\ p.turns[m] \in Nat
  BY DEF Screens
<1>2. Submitted(p).turns[m] = p.turns[m] + p.box[m]
  BY Keys
<1>3. Landed(Submitted(p), m)
  BY <1>1, <1>2 DEF Landed
<1>4. Landed([p EXCEPT !.modal = "none"], m)
  BY DEF Landed, Screens
<1>5. Landed([p EXCEPT !.user = TRUE], m)
  BY DEF Landed, Screens
<1> QED BY <1>3, <1>4, <1>5 DEF Entered

(* An enter takes what is in an open box, or leaves it there to be read.   *)
LEMMA ConfirmedEnter ==
    ASSUME Plain, TypeOK, Confirmed, Enter
    PROVE  Confirmed'
<1>1. pane \in Screens /\ cur \in Msgs /\ told \in [Msgs -> Verdicts]
  BY DEF TypeOK
<1>2. /\ pc \in {"enter", "enterAgain"} /\ pc \notin Echoing /\ pc \in Pressing
      /\ UNCHANGED note
  BY DEF Enter, Echoing, Pressing
<1>3. pane' = pane \/ pane' \in Entered(pane)
  BY DEF Enter
<1>4. pane' \in Screens /\ Keeps(pane, pane')
  BY <1>1, <1>3, KeyboardType, KeysKeep
<1>5. seen' = pane'
  BY DEF Enter, Shows, Plain
<1>6. Landed(pane', cur)
  BY <1>1, <1>2, <1>3, LandedKeeps DEF Confirmed
<1>7. \/ pc' \in {"readPost", "enterAgain"} /\ UNCHANGED <<cur, told>>
      \/ Settle(cur, "unsure")
  BY DEF Enter
<1>8. DeliveredMeansTaken'
  <2>1. UNCHANGED told \/ told' = [told EXCEPT ![cur] = "unsure"]
    BY <1>7 DEF Settle
  <2>2. DeliveredMeansTaken /\ "unsure" \in Verdicts /\ "unsure" # "delivered"
    BY DEF Verdicts, Confirmed
  <2> QED BY <1>1, <1>4, <2>1, <2>2, VerdictTrue
<1>9. note'.id \in Msgs => Copies(note.id)' > 0
  <2>1. PICK n : n = note.id
    OBVIOUS
  <2>2. n \in Msgs => Copies(n) > 0
    BY <1>2, <2>1 DEF Confirmed
  <2>3. n \in Msgs => Copies(n)' > 0
    BY <1>4, <2>2, CopiesKeep
  <2> QED BY <1>2, <2>1, <2>3 DEF Copies
<1>10. pc' \notin Echoing /\ pc' # "type" /\ cur' = cur
  BY <1>7 DEF Echoing, Settle
<1> QED BY <1>5, <1>6, <1>8, <1>9, <1>10 DEF Confirmed

(* A landed text is not in an empty box, and not under a dialog: success   *)
(* is reported past a read that shows it was taken.                        *)
LEMMA ConfirmedPost ==
    ASSUME Plain, TypeOK, Confirmed, ReadPost \/ RestrandCheck
    PROVE  Confirmed'
<1>1. UNCHANGED <<pane, seen>>
  BY DEF ReadPost, RestrandCheck
<1>2. seen = pane /\ pane \in Screens /\ cur \in Msgs /\ Keeps(pane, pane')
  BY <1>1, KeysKeep DEF Confirmed, TypeOK
<1>3. pc \in Pressing /\ pc \notin Echoing
  BY DEF ReadPost, RestrandCheck, Pressing, Echoing
<1>4. PICK read : read = IF pane.modal = "none" THEN "input"
                         ELSE IF pane.modal = "chooser" THEN "chooser"
                         ELSE "unknown"
  OBVIOUS
<1>5. \/ pc' = "restrandCheck" /\ UNCHANGED <<cur, told, note>>
      \/ /\ Settle(cur, "stranded") /\ UNCHANGED note
      \/ /\ ~Residue(read) /\ Settle(cur, "delivered") /\ note' = NoNote
  <2>1. Reads(seen) = {read}
    BY <1>2, <1>4, PlainReads
  <2>2. read # "unreadable"
    BY <1>4
  <2> QED BY <1>2, <2>1, <2>2 DEF ReadPost, RestrandCheck, Plain, Consumed, Stranded
<1>6. ~Residue(read) => pane.turns[cur] > 0
  <2>1. Landed(pane, cur)
    BY <1>3 DEF Confirmed
  <2>2. CASE pane.modal = "none" /\ pane.box[cur] > 0
    BY <1>2, <1>4, <2>2 DEF Residue, HasContent
  <2> QED BY <2>1, <2>2 DEF Landed
<1>7. DeliveredMeansTaken'
  <2>1. PICK v \in {"stranded", "delivered"} :
          /\ UNCHANGED told \/ told' = [told EXCEPT ![cur] = v]
          /\ v = "delivered" => pane'.turns[cur] > 0
    <3>1. CASE UNCHANGED told
      BY <3>1
    <3> QED BY <1>1, <1>5, <1>6, <3>1 DEF Settle
  <2>2. DeliveredMeansTaken /\ v \in Verdicts /\ pane' \in Screens
    BY <1>1, <1>2 DEF Verdicts, Confirmed
  <2> QED BY <1>2, <2>1, <2>2, VerdictTrue
<1>8. note'.id \in Msgs => Copies(note.id)' > 0
  BY <1>1, <1>3, <1>5 DEF Confirmed, Copies, NoNote
<1>9. cur' = cur /\ pc' \notin Echoing /\ pc' # "type"
  BY <1>5 DEF Settle, Echoing
<1> QED BY <1>1, <1>2, <1>3, <1>7, <1>8, <1>9 DEF Confirmed

(* Nothing the world may do to a plain pane loses a text: a dialog opens   *)
(* only between two deliveries, and a person's own enter submits the box.  *)
LEMMA ConfirmedWorld ==
    ASSUME Plain, TypeOK, Confirmed, World
    PROVE  Confirmed'
<1> USE DEF Strike
<1>0. pane \in Screens /\ seen = pane /\ cur \in Msgs
  BY DEF TypeOK, Confirmed
<1>1. ASSUME pane' \in Screens, Keeps(pane, pane'), seen' = pane',
             note'.id = note.id, UNCHANGED <<machine, told>>,
             pc # "idle" => /\ Landed(pane, cur) => Landed(pane', cur)
                            /\ pane.modal = "none" => pane'.modal = "none"
      PROVE  Confirmed'
  <2>1. PICK n : n = note.id
    OBVIOUS
  <2>2. n \in Msgs => (n = cur /\ pc \in Echoing) \/ Copies(n)' > 0
    BY <1>1, <2>1, CopiesKeep DEF Confirmed
  <2>3. note'.id \in Msgs => IF pc' \in Echoing THEN note'.id = cur'
                                                ELSE Copies(note.id)' > 0
    BY <1>1, <2>1, <2>2 DEF Confirmed, Copies, machine
  <2>4. DeliveredMeansTaken'
    BY <1>0, <1>1, VerdictTrue DEF Confirmed, Verdicts
  <2>5. pc' \in Pressing => Landed(pane', cur')
    BY <1>1 DEF Confirmed, Pressing, machine
  <2>6. pc' = "type" => pane'.modal = "none"
    BY <1>1 DEF Confirmed, machine
  <2> QED BY <1>1, <2>3, <2>4, <2>5, <2>6 DEF Confirmed
<1>2. CASE OpenDialog
  <2>1. PICK d \in Modals : pane' = [pane EXCEPT !.modal = d]
    BY <1>2 DEF OpenDialog, Modals
  <2>2. pc = "idle" /\ UNCHANGED <<machine, told, note>> /\ seen' = pane'
    BY <1>2 DEF OpenDialog, Plain, Shows
  <2> QED BY <1>0, <1>1, <2>1, <2>2, WorldScreens, KeysKeep
<1>3. CASE CloseDialog
  <2>1. pane' = [pane EXCEPT !.modal = "none"] /\ seen' = pane'
        /\ UNCHANGED <<machine, told, note>>
    BY <1>3 DEF CloseDialog, Plain, Shows
  <2>2. Keeps(pane, pane')
    BY <1>0, <2>1, KeysKeep
  <2>3. pane' \in Screens /\ pane'.modal = "none"
    BY <1>0, <2>1 DEF Modals, Screens
  <2> QED BY <1>0, <1>1, <2>1, <2>2, <2>3, LandedKeeps
<1>4. CASE ClearBox
  BY <1>4 DEF ClearBox, Plain
<1>5. CASE Scribble
  <2>1. pane' = [pane EXCEPT !.user = TRUE] /\ seen' = pane'
        /\ UNCHANGED <<machine, told, note>>
    BY <1>5 DEF Scribble, Plain, Shows
  <2>2. Keeps(pane, pane')
    BY <1>0, <2>1, KeysKeep
  <2>3. pane' \in Screens /\ pane'.modal = pane.modal
    BY <1>0, <2>1 DEF Screens
  <2> QED BY <1>0, <1>1, <2>1, <2>2, <2>3, LandedKeeps
<1>6. CASE HandEnter
  <2>1. pane' = Submitted(pane) /\ seen' = pane' /\ UNCHANGED <<machine, told, note>>
    BY <1>6 DEF HandEnter, Plain, Shows
  <2>2. pane' \in Screens /\ Keeps(pane, pane') /\ pane'.modal = pane.modal
    BY <1>0, <2>1, KeyboardType, Keys, KeysKeep
  <2> QED BY <1>0, <1>1, <2>1, <2>2, LandedKeeps
<1>7. CASE Paint
  BY <1>0, <1>7 DEF Paint
<1>8. CASE (\E m \in Msgs : DeadlinePasses(m)) \/ NoteExpires
  <2>1. UNCHANGED <<pane, seen, machine, told>> /\ note'.id = note.id
    BY <1>8 DEF DeadlinePasses, NoteExpires, TypeOK
  <2> QED BY <1>0, <1>1, <2>1, KeysKeep
<1>9. CASE EngineRestarts
  <2>1. \A m \in Msgs : told'[m] = "delivered" => told[m] = "delivered"
    BY <1>9 DEF EngineRestarts
  <2> QED BY <1>0, <1>9, <2>1 DEF EngineRestarts, Confirmed, DeliveredMeansTaken,
             Pressing, Echoing, NoNote
<1>10. CASE RestartPane
  <2>1. pc' = "idle" /\ note' = NoNote /\ seen' = pane' /\ UNCHANGED told
    BY <1>10 DEF RestartPane, Plain, Shows, machine
  <2>2. pane'.turns = pane.turns
    BY <1>0, <1>10 DEF RestartPane, Screens
  <2> QED BY <2>1, <2>2 DEF Confirmed, DeliveredMeansTaken, Pressing, Echoing, NoNote
<1> QED BY <1>2, <1>3, <1>4, <1>5, <1>6, <1>7, <1>8, <1>9, <1>10 DEF World

LEMMA ConfirmedStep ==
    ASSUME Plain, TypeOK, Confirmed, [Next]_vars
    PROVE  Confirmed'
<1>1. ASSUME UNCHANGED <<pane, seen, note>>, pc' \in {"idle", "readPre"}, pc = "idle",
             \A m \in Msgs : told'[m] = "delivered" => told[m] = "delivered"
      PROVE  Confirmed'
  BY <1>1 DEF Confirmed, DeliveredMeansTaken, Echoing, Pressing, Copies
<1>2. CASE TakeSlot
  <2>1. \A m \in Msgs : told'[m] = "delivered" => told[m] = "delivered"
    BY <1>2 DEF TakeSlot, Settle, TypeOK
  <2>2. UNCHANGED <<pane, seen, note>> /\ pc' \in {"idle", "readPre"} /\ pc = "idle"
    BY <1>2 DEF TakeSlot, Settle
  <2> QED BY <1>1, <2>1, <2>2
<1>3. CASE \E m \in Msgs : Deliver(m)
  <2>1. \A m \in Msgs : told'[m] = "delivered" => told[m] = "delivered"
    BY <1>3 DEF Deliver, TypeOK
  <2>2. UNCHANGED <<pane, seen, note, pc, cur>>
    BY <1>3 DEF Deliver, machine
  <2> QED BY <2>1, <2>2 DEF Confirmed, DeliveredMeansTaken, Copies
<1>4. CASE UNCHANGED vars
  BY <1>4 DEF vars, machine, Confirmed, DeliveredMeansTaken, Copies
<1> QED BY <1>2, <1>3, <1>4, ConfirmedRead, ConfirmedType, ConfirmedEcho,
           ConfirmedEnter, ConfirmedPost, ConfirmedWorld DEF Next, Machine

(* On a plain pane a message reported delivered was submitted, whatever    *)
(* dialogs stand between deliveries, whoever types or presses enter, and   *)
(* whether the multiplexer throws, the enter is eaten, a deadline passes,  *)
(* the note expires or the engine restarts.                                *)
THEOREM DeliveredWasTaken == Plain => (Spec => []DeliveredMeansTaken)
<1> SUFFICES ASSUME Plain PROVE Spec => []DeliveredMeansTaken
  OBVIOUS
<1>1. Init => Confirmed
  BY DEF Init, Confirmed, NoNote, Echoing, Pressing, DeliveredMeansTaken
<1>2. TypeOK /\ Confirmed /\ [Next]_vars => Confirmed'
  BY ConfirmedStep
<1>3. Confirmed => DeliveredMeansTaken
  BY DEF Confirmed
<1> QED BY <1>1, <1>2, <1>3, TypeInit, TypeStep, PTL DEF Spec

-----------------------------------------------------------------------------
(* A pane the engine has to itself, with one message to deliver: the       *)
(* harness reader knows the box and every dialog there is, nobody else     *)
(* types or presses enter, no keystroke call throws, and the note is kept. *)
(* Without any one of these a retry can leave a second copy.               *)
Kept ==
    /\ CanParse
    /\ \A m, n \in Msgs : m = n
    /\ "notice" \notin Mischief
    /\ "odd" \notin Mischief
    /\ "scribble" \notin Mischief
    /\ "hand" \notin Mischief
    /\ "throw" \notin Mischief
    /\ "ttl" \notin Mischief
    /\ "restart" \notin Mischief

(* The message will not be offered again.                                  *)
Given(m) == told[m] \in {"delivered", "unconfirmed"}

(* Only the parser's own kind of dialog, and only the engine's text.       *)
Legible(s) == ~s.user /\ s.modal # "notice"

Remembered(m) == note = [id |-> m, fresh |-> TRUE]

Unsent == {"idle", "readPre", "type"}
Sent == {"enter", "readPost", "restrandCheck"}

(* The strengthening: before the machine types, a copy in the box is       *)
(* remembered and on the screen, so the read finds it; while it presses    *)
(* enter the note stands, so a stranded attempt leaves it behind.          *)
Retried ==
    /\ Legible(pane) /\ Legible(seen)
    /\ pc \in Unsent \cup Sent
    /\ pc = "type" => \A m \in Msgs : pane.box[m] = 0
    /\ pc \in Sent => Remembered(cur)
    /\ NoDoubling
    /\ \A m \in Msgs : pc \in Unsent /\ ~Given(m) =>
         /\ pane.turns[m] = 0
         /\ pane.box[m] > 0 => Remembered(m) /\ seen.box[m] > 0

(* What a read of such a pane tells.                                       *)
LEMMA KeptReads ==
    ASSUME Kept, NEW s \in Screens, Legible(s), NEW read \in Reads(s)
    PROVE  /\ read \in {"chooser", "input", "unreadable"}
           /\ read = "input" => s.modal = "none"
  BY DEF Kept, Legible, Reads, BoxKinds, Screens, Modals

(* With one message there is one place a copy can be.                      *)
LEMMA Single ==
    ASSUME Kept, TypeOK, NEW m \in Msgs
    PROVE  m = cur /\ Msgs = {cur}
  BY DEF Kept, TypeOK

(* Nothing moves and the slot is released without the pane's being touched.*)
LEMMA RetriedQuiet ==
    ASSUME Kept, TypeOK, Retried, UNCHANGED <<pane, seen, note>>,
           pc \in Unsent, pc' \in {"idle", "readPre"},
           \A m \in Msgs : Given(m) => Given(m)'
    PROVE  Retried'
<1>1. pc' \in Unsent /\ pc' # "type" /\ pc' \notin Sent
  BY DEF Unsent, Sent
<1>2. \A m \in Msgs : ~Given(m)' => ~Given(m)
  OBVIOUS
<1> QED BY <1>1, <1>2 DEF Retried, NoDoubling, Copies, Remembered, Legible

LEMMA RetriedDeliver ==
    ASSUME Kept, TypeOK, InLine, Retried, NEW m \in Msgs, Deliver(m)
    PROVE  Retried'
<1>1. /\ ~Given(m) /\ told' = [told EXCEPT ![m] = "queued"]
      /\ UNCHANGED <<pane, seen, note, pc, cur>>
  BY DEF Deliver, Given, machine
<1>2. \A n \in Msgs : Given(n)' = Given(n)
  BY <1>1 DEF Given, TypeOK
<1> QED BY <1>1, <1>2 DEF Retried, NoDoubling, Copies, Remembered, Legible

LEMMA RetriedTake ==
    ASSUME Kept, TypeOK, InLine, Retried, TakeSlot
    PROVE  Retried'
<1>1. /\ pc = "idle" /\ pc' \in {"idle", "readPre"}
      /\ UNCHANGED <<pane, seen, note>>
  BY DEF TakeSlot, Settle
<1>2. PICK h : h = Head(queue)
  OBVIOUS
<1>3. h = queue[1] /\ 1 \in 1..Len(queue)
  BY <1>2 DEF TakeSlot, TypeOK
<1>4. told[h] = "queued"
  BY <1>3 DEF InLine
<1>5. UNCHANGED told \/ told' = [told EXCEPT ![h] = "refused"]
  BY <1>2 DEF TakeSlot, Settle
<1>6. \A m \in Msgs : Given(m) => Given(m)'
  BY <1>4, <1>5 DEF Given, TypeOK
<1> QED BY <1>1, <1>6, RetriedQuiet DEF Unsent

(* The read before typing finds the copy that is there.                    *)
LEMMA RetriedRead ==
    ASSUME Kept, TypeOK, InLine, Retried, ReadPre
    PROVE  Retried'
<1>1. pc = "readPre" /\ UNCHANGED <<pane, seen, note>>
  BY DEF ReadPre
<1>2. told[cur] = "queued" /\ ~Given(cur)
  BY <1>1 DEF InLine, Given
<1>3. PICK read \in Reads(seen) :
        \/ /\ RefusesDelivery(read) /\ Settle(cur, "refused")
        \/ /\ ~RefusesDelivery(read)
           /\ Believable /\ read = "input" /\ HasContent(seen)
           /\ pc' = "enter" /\ UNCHANGED <<cur, told>>
        \/ /\ ~(Believable /\ read = "input" /\ HasContent(seen))
           /\ Settle(cur, "refused")
        \/ /\ ~RefusesDelivery(read)
           /\ ~(Believable /\ read = "input" /\ HasContent(seen))
           /\ pc' = IF read = "unknown" THEN "typeGated" ELSE "type"
           /\ UNCHANGED <<cur, told>>
  BY DEF ReadPre, Kept
<1>4. seen \in Screens /\ Legible(seen) /\ pane \in Screens /\ cur \in Msgs
  BY DEF TypeOK, Retried
<1>5. read \in {"chooser", "input", "unreadable"}
  BY <1>3, <1>4, KeptReads
<1>6. CASE Settle(cur, "refused")
  <2>1. \A m \in Msgs : Given(m) => Given(m)'
    BY <1>2, <1>6 DEF Settle, Given, TypeOK
  <2> QED BY <1>1, <1>6, <2>1, RetriedQuiet DEF Settle, Unsent
<1>7. CASE Believable /\ pc' = "enter" /\ UNCHANGED <<cur, told>>
  <2>1. Remembered(cur)'
    BY <1>1, <1>7 DEF Believable, Remembered, TypeOK
  <2> QED BY <1>1, <1>7, <2>1 DEF Retried, Unsent, Sent, NoDoubling, Copies, Legible
<1>8. CASE /\ ~RefusesDelivery(read)
           /\ ~(Believable /\ read = "input" /\ HasContent(seen))
           /\ pc' = IF read = "unknown" THEN "typeGated" ELSE "type"
           /\ UNCHANGED <<cur, told>>
  <2>1. read = "input" /\ pc' = "type"
    BY <1>5, <1>8 DEF RefusesDelivery
  <2>2. ~(pane.box[cur] > 0)
    <3> SUFFICES ASSUME pane.box[cur] > 0 PROVE FALSE
      OBVIOUS
    <3>1. Remembered(cur) /\ seen.box[cur] > 0
      BY <1>1, <1>2, <1>4 DEF Retried, Unsent
    <3>2. Believable /\ HasContent(seen)
      BY <1>4, <3>1 DEF Remembered, Believable, HasContent
    <3> QED BY <1>8, <2>1, <3>2
  <2>3. ASSUME NEW m \in Msgs PROVE pane.box[m] = 0
    <3>1. m = cur /\ pane.box[cur] \in Nat
      BY <1>4, Single DEF Screens
    <3> QED BY <2>2, <3>1
  <2> QED BY <1>1, <1>8, <2>1, <2>3 DEF Retried, Unsent, Sent, NoDoubling, Copies,
             Legible, Given, Remembered
<1> QED BY <1>3, <1>6, <1>7, <1>8

(* Typing puts the one copy in an empty box, and the note with it.         *)
LEMMA RetriedType ==
    ASSUME Kept, TypeOK, InLine, Retried, Type
    PROVE  Retried'
<1>1. pc = "type" /\ pane \in Screens /\ cur \in Msgs /\ Legible(pane)
  BY DEF Type, Retried, TypeOK, Unsent, Sent
<1>2. /\ pane' = Typed(pane, cur)
      /\ note' = [id |-> cur, fresh |-> TRUE]
      /\ pc' = "enter"
      /\ UNCHANGED <<cur, told>>
      /\ seen' = seen \/ seen' = pane'
  BY <1>1 DEF Type, Kept, Shows
<1>3. told[cur] = "queued" /\ ~Given(cur)
  BY <1>1 DEF InLine, Given
<1>4. Legible(pane') /\ Legible(seen')
  <2>1. pane'.user = pane.user /\ pane'.modal = pane.modal
    BY <1>1, <1>2, Keys
  <2> QED BY <1>2, <2>1 DEF Retried, Legible
<1>5. pane.box[cur] = 0 /\ pane.turns[cur] = 0
  BY <1>1, <1>3 DEF Retried, Unsent
<1>6. ASSUME NEW m \in Msgs PROVE pane'.box[m] + pane'.turns[m] <= 1
  <2>1. m = cur /\ pane.box \in [Msgs -> Nat]
    BY <1>1, Single DEF Screens
  <2>2. pane'.turns = pane.turns
    BY <1>1, <1>2, Keys
  <2>3. pane'.box = pane.box \/ pane'.box = [pane.box EXCEPT ![cur] = pane.box[cur] + 1]
    BY <1>1, <1>2, Keys
  <2>4. pane'.box[cur] = 0 \/ pane'.box[cur] = 1
    BY <1>1, <1>5, <2>1, <2>3
  <2> QED BY <1>5, <2>1, <2>2, <2>4
<1> QED BY <1>2, <1>4, <1>6 DEF Retried, Unsent, Sent, NoDoubling, Copies, Remembered

(* An enter makes no copies.                                               *)
LEMMA RetriedEnter ==
    ASSUME Kept, TypeOK, InLine, Retried, Enter
    PROVE  Retried'
<1>1. pc = "enter" /\ pane \in Screens /\ cur \in Msgs /\ Legible(pane)
  BY DEF Enter, Retried, TypeOK, Unsent, Sent
<1>2. /\ pane' \in Entered(pane)
      /\ pc' = "readPost" /\ UNCHANGED <<cur, told, note>>
      /\ seen' = seen \/ seen' = pane'
  BY <1>1 DEF Enter, Kept, Shows
<1>3. pane' = pane \/ pane' = Submitted(pane) \/ pane' = [pane EXCEPT !.modal = "none"]
  BY <1>2 DEF Entered
<1>4. Legible(pane') /\ Legible(seen')
  <2>1. CASE pane' = Submitted(pane)
    <3>1. pane'.user = FALSE /\ pane'.modal = pane.modal
      BY <1>1, <2>1, Keys
    <3> QED BY <1>2, <3>1 DEF Retried, Legible
  <2>2. CASE pane' = pane \/ pane' = [pane EXCEPT !.modal = "none"]
    <3>1. pane'.user = pane.user /\ pane'.modal \in {pane.modal, "none"}
      BY <1>1, <2>2 DEF Screens
    <3> QED BY <1>2, <3>1 DEF Retried, Legible
  <2> QED BY <1>3, <2>1, <2>2
<1>5. ASSUME NEW m \in Msgs PROVE pane'.box[m] + pane'.turns[m] <= 1
  <2>1. pane.box[m] \in Nat /\ pane.turns[m] \in Nat /\ pane.box[m] + pane.turns[m] <= 1
    BY <1>1 DEF Retried, NoDoubling, Copies, Screens
  <2>2. CASE pane' = Submitted(pane)
    <3>1. pane'.box[m] = 0 /\ pane'.turns[m] = pane.turns[m] + pane.box[m]
      BY <1>1, <2>2, Keys
    <3> QED BY <2>1, <3>1
  <2>3. CASE pane' = pane \/ pane' = [pane EXCEPT !.modal = "none"]
    BY <1>1, <2>1, <2>3 DEF Screens
  <2> QED BY <1>3, <2>2, <2>3
<1>6. Remembered(cur)'
  BY <1>1, <1>2 DEF Retried, Sent, Remembered
<1> QED BY <1>2, <1>4, <1>5, <1>6 DEF Retried, Unsent, Sent, NoDoubling, Copies

(* A message is called stranded only off a settled screen that shows the   *)
(* copy, and the note is left standing.                                    *)
LEMMA RetriedPost ==
    ASSUME Kept, TypeOK, InLine, Retried, ReadPost \/ RestrandCheck
    PROVE  Retried'
<1>1. /\ pc \in {"readPost", "restrandCheck"} /\ pc \in Sent
      /\ UNCHANGED <<pane, seen>>
      /\ pane \in Screens /\ seen \in Screens /\ cur \in Msgs
  BY DEF ReadPost, RestrandCheck, Sent, TypeOK
<1>2. \/ pc' = "restrandCheck" /\ UNCHANGED <<cur, told, note>>
      \/ \E v \in {"unconfirmed", "delivered"} : Settle(cur, v)
      \/ /\ HasContent(seen) /\ seen = pane
         /\ Settle(cur, "stranded") /\ UNCHANGED note
  BY DEF ReadPost, RestrandCheck, Kept, Consumed, Stranded, Residue, Settled
<1>3. CASE pc' = "restrandCheck" /\ UNCHANGED <<cur, told, note>>
  BY <1>1, <1>3 DEF Retried, Unsent, Sent, NoDoubling, Copies, Legible, Remembered
<1>4. CASE \E v \in {"unconfirmed", "delivered"} : Settle(cur, v)
  <2>1. Given(cur)' /\ pc' = "idle" /\ cur' = cur
    BY <1>1, <1>4 DEF Settle, Given, TypeOK
  <2>2. \A m \in Msgs : Given(m)'
    BY <2>1, Single DEF Given
  <2> QED BY <1>1, <2>1, <2>2 DEF Retried, Unsent, Sent, NoDoubling, Copies, Legible
<1>5. CASE /\ HasContent(seen) /\ seen = pane
           /\ Settle(cur, "stranded") /\ UNCHANGED note
  <2>1. pc' = "idle" /\ cur' = cur
    BY <1>5 DEF Settle
  <2>2. Remembered(cur) /\ ~pane.user
    BY <1>1 DEF Retried, Legible
  <2>3. pane.box[cur] > 0 /\ seen.box[cur] > 0
    BY <1>1, <1>5, <2>2, Single DEF HasContent
  <2>4. pane.box[cur] \in Nat /\ pane.turns[cur] \in Nat
        /\ pane.box[cur] + pane.turns[cur] <= 1
    BY <1>1 DEF Retried, NoDoubling, Copies, Screens
  <2>5. pane.turns[cur] = 0
    BY <2>3, <2>4
  <2>6. \A m \in Msgs : pane'.turns[m] = 0 /\ Remembered(m)' /\ seen'.box[m] > 0
    BY <1>1, <1>5, <2>2, <2>3, <2>5, Single DEF Remembered
  <2> QED BY <1>1, <2>1, <2>6 DEF Retried, Unsent, Sent, NoDoubling, Copies, Legible
<1> QED BY <1>2, <1>3, <1>4, <1>5

(* The world of such a pane opens and closes dialogs, clears the box and   *)
(* lets the screen lag: none of it adds a copy or takes the note.          *)
LEMMA RetriedWorld ==
    ASSUME Kept, TypeOK, InLine, Retried, World
    PROVE  Retried'
<1> USE DEF Strike
<1>1. pane \in Screens /\ seen \in Screens /\ Legible(pane) /\ Legible(seen)
  BY DEF TypeOK, Retried
<1>2. ASSUME UNCHANGED <<machine, told, note>>,
             Legible(pane') /\ Legible(seen'),
             \A m \in Msgs : /\ pane'.turns[m] = pane.turns[m]
                             /\ pane'.box[m] = pane.box[m] \/ pane'.box[m] = 0,
             \A m \in Msgs : pane'.box[m] > 0 /\ seen.box[m] > 0 => seen'.box[m] > 0
      PROVE  Retried'
  <2>1. ASSUME NEW m \in Msgs PROVE pane'.box[m] + pane'.turns[m] <= 1
    <3>1. /\ pane.box[m] \in Nat /\ pane.turns[m] \in Nat
          /\ pane.box[m] + pane.turns[m] <= 1
      BY <1>1 DEF Retried, NoDoubling, Copies, Screens
    <3>2. pane'.box[m] = pane.box[m] \/ pane'.box[m] = 0
      BY <1>2
    <3>3. pane'.turns[m] = pane.turns[m]
      BY <1>2
    <3> QED BY <3>1, <3>2, <3>3
  <2>2. pc' = "type" => \A m \in Msgs : pane'.box[m] = 0
    BY <1>2 DEF Retried, machine
  <2>3. ASSUME NEW m \in Msgs, pc' \in Unsent, ~Given(m)'
        PROVE  /\ pane'.turns[m] = 0
               /\ pane'.box[m] > 0 => Remembered(m)' /\ seen'.box[m] > 0
    BY <1>2, <2>3 DEF Retried, machine, Given, Remembered
  <2>4. pc' \in Sent => Remembered(cur)'
    BY <1>2 DEF Retried, machine, Remembered
  <2>5. pc' \in Unsent \cup Sent
    BY <1>2 DEF Retried, machine
  <2>6. NoDoubling'
    BY <2>1 DEF NoDoubling, Copies
  <2> QED BY <1>2, <2>2, <2>3, <2>4, <2>5, <2>6 DEF Retried
<1>3. CASE OpenDialog
  <2>1. PICK d \in {"chooser", "notice"} :
           /\ (IF d = "chooser" THEN "dialog" ELSE "notice") \in Mischief
           /\ pane' = [pane EXCEPT !.modal = d]
    BY <1>3 DEF OpenDialog
  <2>2. d = "chooser"
    BY <2>1 DEF Kept
  <2>3. /\ pane'.modal = "chooser" /\ pane'.user = pane.user
        /\ pane'.box = pane.box /\ pane'.turns = pane.turns
    BY <1>1, <2>1, <2>2 DEF Screens
  <2>4. (seen' = seen \/ seen' = pane') /\ UNCHANGED <<machine, told, note>>
    BY <1>3 DEF OpenDialog, Shows
  <2> QED BY <1>1, <1>2, <2>3, <2>4 DEF Legible
<1>4. CASE CloseDialog
  <2>1. /\ pane'.modal = "none" /\ pane'.user = pane.user
        /\ pane'.box = pane.box /\ pane'.turns = pane.turns
    BY <1>1, <1>4 DEF CloseDialog, Screens
  <2>2. (seen' = seen \/ seen' = pane') /\ UNCHANGED <<machine, told, note>>
    BY <1>4 DEF CloseDialog, Shows
  <2> QED BY <1>1, <1>2, <2>1, <2>2 DEF Legible
<1>5. CASE ClearBox
  <2>1. /\ pane'.modal = pane.modal /\ pane'.user = FALSE
        /\ pane'.box = [m \in Msgs |-> 0] /\ pane'.turns = pane.turns
    BY <1>1, <1>5 DEF ClearBox, Screens
  <2>2. (seen' = seen \/ seen' = pane') /\ UNCHANGED <<machine, told, note>>
    BY <1>5 DEF ClearBox, Shows
  <2> QED BY <1>1, <1>2, <2>1, <2>2 DEF Legible
<1>6. CASE Paint
  <2>1. seen' = pane /\ UNCHANGED <<pane, machine, told, note>>
    BY <1>6 DEF Paint
  <2> QED BY <1>1, <1>2, <2>1
<1>7. CASE \E m \in Msgs : DeadlinePasses(m)
  <2>1. UNCHANGED <<pane, seen, machine, told, note>>
    BY <1>7 DEF DeadlinePasses
  <2> QED BY <1>1, <1>2, <2>1
<1>8. CASE Scribble \/ HandEnter \/ NoteExpires \/ EngineRestarts \/ RestartPane
  BY <1>8 DEF Scribble, HandEnter, NoteExpires, EngineRestarts, RestartPane, Kept
<1> QED BY <1>3, <1>4, <1>5, <1>6, <1>7, <1>8 DEF World

LEMMA RetriedStep ==
    ASSUME Kept, TypeOK, InLine, Retried, [Next]_vars
    PROVE  Retried'
<1>1. CASE UNCHANGED vars
  BY <1>1 DEF vars, machine, Retried, Legible, Given, Remembered, NoDoubling, Copies
<1>2. CASE EchoGate \/ ReEcho
  BY <1>2 DEF EchoGate, ReEcho, Retried, Unsent, Sent
<1> QED BY <1>1, <1>2, RetriedDeliver, RetriedTake, RetriedRead, RetriedType,
           RetriedEnter, RetriedPost, RetriedWorld DEF Next, Machine

(* However often one message is retried on such a pane, through dialogs    *)
(* that race it, a lagging screen, failed reads, eaten enters and expired  *)
(* deadlines, one copy of it is in the pane, and a copy left in the box is *)
(* known to the next attempt.                                              *)
THEOREM RetriesSafe == Kept => (Spec => []RetriesAreSafe)
<1> SUFFICES ASSUME Kept PROVE Spec => []RetriesAreSafe
  OBVIOUS
<1>1. Init => Retried
  BY DEF Init, Retried, Blank, Legible, Unsent, Sent, NoDoubling, Copies
<1>2. TypeOK /\ InLine /\ Retried /\ [Next]_vars => Retried'
  BY RetriedStep
<1>3. Retried => RetriesAreSafe
  BY DEF Retried, RetriesAreSafe, ResidueRemembered, Given, Unsent, Remembered
<1> QED BY <1>1, <1>2, <1>3, TypeInit, TypeStep, InLineInit, InLineStep, PTL DEF Spec

-----------------------------------------------------------------------------
(* A foreign pane: the harness has no parser, so every read that succeeds  *)
(* is of an unknown screen and the echo gate alone decides.  It is enough  *)
(* when no two texts look alike and, while the engine is typing, no dialog *)
(* opens, nobody else types, no keystroke is lost, no read fails and no    *)
(* deadline or restart cuts an attempt short; a person may still clear or  *)
(* submit the box, and the screen may lag.                                 *)
Foreign ==
    /\ ~CanParse
    /\ Long = {}
    /\ \A m, n \in Msgs : SameTail(m, n) => m = n
    /\ "race" \notin Mischief
    /\ "scribble" \notin Mischief
    /\ "eaten" \notin Mischief
    /\ "throw" \notin Mischief
    /\ "blind" \notin Mischief
    /\ "late" \notin Mischief
    /\ "restart" \notin Mischief

Before == {"idle", "readPre", "typeGated"}
Typing == {"echoGate", "reEcho", "enter"}

Absent(s, m) == s.box[m] = 0 /\ s.turns[m] = 0

(* A message that was not delivered is nowhere, unless it is the one being *)
(* delivered.                                                              *)
Away(m) == told[m] # "delivered" /\ (m = cur => pc \in Before)

(* The strengthening: the box holds at most one copy, of the message being *)
(* delivered; and a text that the screen can echo was typed into an open   *)
(* box, which nothing covers before the enter.                             *)
Gated ==
    /\ late = {} /\ struck = {} /\ ~mixed
    /\ ~pane.user
    /\ pc \in Before \cup Typing \cup {"readPost"}
    /\ pc \in Before => note = NoNote
    /\ \A m \in Msgs : pane.box[m] # 0 => pane.box[m] = 1 /\ m = cur /\ pc \in Typing
    /\ \A m \in Msgs : Away(m) => Absent(pane, m) /\ Absent(seen, m)
    /\ pc \in Echoing => \/ pane.modal = "none"
                         \/ Absent(pane, cur) /\ Absent(seen, cur)
    /\ pc = "enter" => pane.modal = "none"

(* Without a parser and without failed reads there is nothing to tell      *)
(* screens apart by but the text itself.                                   *)
LEMMA ForeignReads ==
    ASSUME Foreign, NEW s \in Screens, NEW m \in Msgs
    PROVE  /\ "unreadable" \notin Reads(s)
           /\ Reads(s) # {}
           /\ Echoed(s, m) => ~Absent(s, m)
           /\ ~Echoed(s, m) /\ s.modal = "none" => Absent(s, m)
<1>1. s.modal \in {"none", "chooser", "notice"}
  BY DEF Screens, Modals
<1>2. "unreadable" \notin Reads(s) /\ Reads(s) # {}
  BY <1>1 DEF Reads, BoxKinds, Foreign
<1>3. s.box[m] \in Nat /\ s.turns[m] \in Nat
  BY DEF Screens
<1>4. Echoed(s, m) => ~Absent(s, m)
  BY <1>3 DEF Echoed, TailVisible, Said, Absent, Foreign
<1>5. ~Echoed(s, m) /\ s.modal = "none" => Absent(s, m)
  BY <1>3 DEF Echoed, TailVisible, Said, Absent, SameTail
<1> QED BY <1>2, <1>4, <1>5

(* Nothing is typed yet, and the pane is not touched.                      *)
LEMMA GatedQuiet ==
    ASSUME Foreign, TypeOK, Gated, pc \in Before, pc' \in Before,
           UNCHANGED <<pane, seen, note, struck, mixed>>, late' = {},
           \A m \in Msgs : told'[m] # "delivered" => told[m] # "delivered"
    PROVE  Gated'
<1>1. \A m \in Msgs : pane.box[m] = 0
  BY DEF Gated, Before, Typing
<1>2. \A m \in Msgs : told'[m] # "delivered" => Absent(pane, m) /\ Absent(seen, m)
  BY DEF Gated, Away
<1>3. pc' \notin Echoing /\ pc' # "enter"
  BY DEF Before, Echoing
<1> QED BY <1>1, <1>2, <1>3 DEF Gated, Away, Absent

LEMMA GatedDeliver ==
    ASSUME Foreign, TypeOK, Gated, NEW m \in Msgs, Deliver(m)
    PROVE  Gated'
<1>1. /\ told[m] # "delivered" /\ told' = [told EXCEPT ![m] = "queued"]
      /\ UNCHANGED <<pane, seen, note, pc, cur, struck, mixed>>
      /\ late' = late \ {m}
  BY DEF Deliver, machine
<1>2. \A n \in Msgs : told'[n] # "delivered" => told[n] # "delivered"
  BY <1>1 DEF TypeOK
<1>3. \A n \in Msgs : Away(n)' => Away(n)
  BY <1>1, <1>2 DEF Away
<1> QED BY <1>1, <1>3 DEF Gated, Absent

LEMMA GatedTake ==
    ASSUME Foreign, TypeOK, InLine, Gated, TakeSlot
    PROVE  Gated'
<1>1. /\ pc = "idle" /\ pc' \in {"idle", "readPre"}
      /\ UNCHANGED <<pane, seen, note, late, struck, mixed>>
  BY DEF TakeSlot, Settle
<1>2. PICK h : h = Head(queue)
  OBVIOUS
<1>3. h = queue[1] /\ 1 \in 1..Len(queue)
  BY <1>2 DEF TakeSlot, TypeOK
<1>4. told[h] = "queued"
  BY <1>3 DEF InLine
<1>5. UNCHANGED told \/ told' = [told EXCEPT ![h] = "refused"]
  BY <1>2 DEF TakeSlot, Settle
<1>6. \A m \in Msgs : told'[m] # "delivered" => told[m] # "delivered"
  BY <1>4, <1>5 DEF TypeOK
<1>7. late' = {}
  BY <1>1 DEF Gated
<1> QED BY <1>1, <1>6, <1>7, GatedQuiet DEF Before

(* An attempt always types: no note is ever there to be believed.          *)
LEMMA GatedRead ==
    ASSUME Foreign, TypeOK, InLine, Gated, ReadPre
    PROVE  Gated'
<1>1. /\ pc = "readPre" /\ note = NoNote /\ cur \notin late /\ cur \in Msgs
      /\ seen \in Screens
  BY DEF ReadPre, Gated, Before, TypeOK
<1>2. ~Believable
  BY <1>1 DEF Believable, NoNote
<1>3. ASSUME NEW read \in Reads(seen)
      PROVE  (IF CanParse \/ read = "unreadable" THEN read ELSE "unknown") = "unknown"
  BY <1>1, ForeignReads DEF Foreign
<1>4. ~RefusesDelivery("unknown")
  BY DEF RefusesDelivery
<1>5. pc' = "typeGated" /\ UNCHANGED <<cur, told>>
  BY <1>1, <1>2, <1>3, <1>4 DEF ReadPre
<1>6. UNCHANGED <<pane, seen, note, late, struck, mixed>>
  BY DEF ReadPre
<1>7. late' = {}
  BY <1>6 DEF Gated
<1> QED BY <1>1, <1>5, <1>6, <1>7, GatedQuiet DEF Before

(* Text goes into an open box, or nowhere.                                 *)
LEMMA GatedType ==
    ASSUME Foreign, TypeOK, InLine, Gated, Type
    PROVE  Gated'
<1>1. /\ pc = "typeGated" /\ pane \in Screens /\ seen \in Screens /\ cur \in Msgs
      /\ pane.box \in [Msgs -> Nat]
  BY DEF Type, Gated, Before, Typing, TypeOK, Screens
<1>2. /\ pane' = Typed(pane, cur) /\ pc' = "echoGate"
      /\ UNCHANGED <<cur, told, late, struck, mixed>>
      /\ seen' = seen \/ seen' = pane'
  BY <1>1 DEF Type, Foreign, Shows
<1>3. told[cur] # "delivered" /\ Away(cur)
  BY <1>1 DEF InLine, Away, Before
<1>4. /\ \A m \in Msgs : pane.box[m] = 0
      /\ Absent(pane, cur) /\ Absent(seen, cur)
  BY <1>1, <1>3 DEF Gated, Typing
<1>5. /\ pane'.modal = pane.modal /\ pane'.user = pane.user
      /\ pane'.turns = pane.turns
      /\ pane'.box = IF pane.modal = "none"
                     THEN [pane.box EXCEPT ![cur] = pane.box[cur] + 1] ELSE pane.box
  BY <1>1, <1>2, Keys
<1>6. ASSUME NEW m \in Msgs PROVE pane'.box[m] = 0 \/ (pane'.box[m] = 1 /\ m = cur)
  BY <1>1, <1>4, <1>5
<1>7. ASSUME NEW m \in Msgs, Away(m)' PROVE Absent(pane', m) /\ Absent(seen', m)
  <2>1. m # cur /\ Away(m)
    BY <1>1, <1>2, <1>7 DEF Away, Before
  <2>2. pane'.box[m] = pane.box[m]
    BY <1>1, <1>5, <2>1
  <2>3. Absent(pane', m)
    BY <1>5, <2>1, <2>2 DEF Gated, Absent
  <2> QED BY <1>2, <2>1, <2>3 DEF Gated
<1>8. pane'.modal = "none" \/ (Absent(pane', cur') /\ Absent(seen', cur'))
  <2>1. CASE pane.modal # "none"
    <3>1. Absent(pane', cur)
      BY <1>4, <1>5, <2>1 DEF Absent
    <3> QED BY <1>2, <1>4, <3>1
  <2> QED BY <1>5, <2>1
<1>9. /\ pc' \in Typing /\ pc' \notin Before /\ pc' # "enter"
      /\ late' = {} /\ struck' = {} /\ ~mixed' /\ ~pane'.user
  BY <1>2, <1>5 DEF Gated, Typing, Before
<1> QED BY <1>2, <1>6, <1>7, <1>8, <1>9 DEF Gated

(* An echo lets the enter through to an open box only; a text that never   *)
(* showed is nowhere, so the refusal is true.                              *)
LEMMA GatedEcho ==
    ASSUME Foreign, TypeOK, InLine, Gated, EchoGate \/ ReEcho
    PROVE  Gated'
<1>1. /\ pc \in Echoing /\ pc \in Typing /\ pc \notin Before
      /\ pane \in Screens /\ seen \in Screens /\ cur \in Msgs
      /\ UNCHANGED <<pane, seen, late, struck, mixed>>
  BY DEF EchoGate, ReEcho, Echoing, Typing, Before, TypeOK
<1>2. LooksTwice(cur)
  BY DEF LooksTwice, Gated
<1>3. \/ Echoed(seen, cur) /\ pc' = "enter" /\ UNCHANGED <<cur, told, note>>
      \/ pc' = "reEcho" /\ UNCHANGED <<cur, told, note>>
      \/ ~Echoed(seen, cur) /\ seen = pane /\ Swallowed
  <2>1. \A read \in Reads(seen) : read # "unreadable"
    BY <1>1, ForeignReads
  <2> QED BY <1>2, <2>1 DEF EchoGate, ReEcho, Settled, EchoSeen
<1>4. ASSUME pc' \in {"enter", "reEcho"}, UNCHANGED <<cur, told, note>>,
             pc' = "enter" => pane.modal = "none"
      PROVE  Gated'
  <2>1. pc' \in Typing /\ pc' \notin Before
    BY <1>4 DEF Typing, Before
  <2>2. \A m \in Msgs : Away(m)' => Away(m)
    BY <1>4, <2>1 DEF Away
  <2>3. \A m \in Msgs : pane'.box[m] # 0 => pane'.box[m] = 1 /\ m = cur' /\ pc' \in Typing
    BY <1>1, <1>4, <2>1 DEF Gated
  <2>4. \A m \in Msgs : Away(m)' => Absent(pane', m) /\ Absent(seen', m)
    BY <1>1, <2>2 DEF Gated
  <2>5. pane'.modal = "none" \/ (Absent(pane', cur') /\ Absent(seen', cur'))
    BY <1>1, <1>4 DEF Gated
  <2> QED BY <1>1, <1>4, <2>1, <2>3, <2>4, <2>5 DEF Gated
<1>5. Echoed(seen, cur) => pane.modal = "none"
  BY <1>1, ForeignReads DEF Gated
<1>6. CASE ~Echoed(seen, cur) /\ seen = pane /\ Swallowed
  <2>1. /\ pc' = "idle" /\ note' = NoNote /\ cur' = cur
        /\ told' = [told EXCEPT ![cur] = "refused"]
    BY <1>6 DEF Swallowed, Settle
  <2>2. Absent(pane, cur) /\ Absent(seen, cur)
    BY <1>1, <1>6, ForeignReads DEF Gated
  <2>3. ASSUME NEW m \in Msgs PROVE pane'.box[m] = 0
    BY <1>1, <2>2 DEF Gated, Absent
  <2>4. ASSUME NEW m \in Msgs, Away(m)' PROVE Absent(pane', m) /\ Absent(seen', m)
    <3>1. CASE m = cur
      BY <1>1, <2>2, <3>1
    <3>2. CASE m # cur
      <4>1. Away(m)
        BY <2>1, <2>4, <3>2 DEF Away, TypeOK
      <4> QED BY <1>1, <4>1 DEF Gated
    <3> QED BY <3>1, <3>2
  <2>5. pc' \in Before /\ pc' \notin Echoing /\ pc' # "enter"
    BY <2>1 DEF Before, Echoing
  <2> QED BY <1>1, <2>1, <2>3, <2>4, <2>5 DEF Gated
<1> QED BY <1>3, <1>4, <1>5, <1>6

(* An enter with the text in an open box, and no other with it, makes one  *)
(* turn of it.                                                             *)
LEMMA GatedEnter ==
    ASSUME Foreign, TypeOK, InLine, Gated, Enter
    PROVE  Gated'
<1>1. /\ pc = "enter" /\ pane \in Screens /\ cur \in Msgs /\ pane.modal = "none"
      /\ ~pane.user
  BY DEF Enter, Gated, Before, Typing, TypeOK
<1>2. Entered(pane) = {Submitted(pane)} /\ Cause(pane, cur) = {}
  BY <1>1 DEF Entered, Cause, Foreign
<1>3. ~MoreThanOne(pane)
  BY <1>1 DEF MoreThanOne, Gated
<1>4. /\ pane' = Submitted(pane) /\ struck' = struck /\ mixed' = mixed
      /\ pc' = "readPost" /\ UNCHANGED <<cur, told, note, late>>
      /\ seen' = seen \/ seen' = pane'
  <2>1. PICK throws \in BOOLEAN, landed \in BOOLEAN :
           /\ throws => "throw" \in Mischief
           /\ ~throws => landed
           /\ pane' = IF landed THEN Submitted(pane) ELSE pane
           /\ struck' = IF landed THEN struck \cup {} ELSE struck
           /\ mixed' = (\/ mixed
                        \/ /\ landed /\ Submitted(pane) # pane /\ pane.modal = "none"
                           /\ MoreThanOne(pane))
           /\ \/ ~throws /\ pc' = "readPost" /\ UNCHANGED <<cur, look, told>>
              \/ throws
    BY <1>2 DEF Enter
  <2>2. ~throws /\ landed
    BY <2>1 DEF Foreign
  <2>3. mixed' = mixed
    BY <1>3, <2>1 DEF TypeOK
  <2>4. UNCHANGED <<note, late>> /\ (seen' = seen \/ seen' = pane')
    BY DEF Enter, Shows
  <2> QED BY <2>1, <2>2, <2>3, <2>4
<1>5. /\ pane'.user = FALSE
      /\ \A m \in Msgs : /\ pane'.box[m] = 0
                         /\ pane'.turns[m] = pane.turns[m] + pane.box[m]
  <2>1. /\ pane'.user = FALSE
        /\ pane'.box = [n \in Msgs |-> 0]
        /\ pane'.turns = [n \in Msgs |-> pane.turns[n] + pane.box[n]]
    BY <1>1, <1>4, Keys
  <2> QED BY <2>1
<1>6. ASSUME NEW m \in Msgs, Away(m)' PROVE Absent(pane', m) /\ Absent(seen', m)
  <2>1. Away(m)
    BY <1>4, <1>6 DEF Away, Before
  <2>2. Absent(pane, m) /\ Absent(seen, m)
    BY <2>1 DEF Gated
  <2>3. Absent(pane', m)
    BY <1>5, <2>2 DEF Absent
  <2> QED BY <1>4, <2>2, <2>3
<1>7. pc' \notin Before /\ pc' \notin Echoing /\ pc' # "enter"
  BY <1>4 DEF Before, Echoing
<1> QED BY <1>4, <1>5, <1>6, <1>7 DEF Gated

(* Without a parser what was entered is taken for delivered.               *)
LEMMA GatedPost ==
    ASSUME Foreign, TypeOK, InLine, Gated, ReadPost \/ RestrandCheck
    PROVE  Gated'
<1>1. pc = "readPost" /\ ReadPost /\ cur \in Msgs
  BY DEF ReadPost, RestrandCheck, Gated, Before, Typing, TypeOK
<1>2. /\ pc' = "idle" /\ note' = NoNote /\ cur' = cur
      /\ told' = [told EXCEPT ![cur] = "delivered"]
      /\ UNCHANGED <<pane, seen, late, struck, mixed>>
  BY <1>1 DEF ReadPost, Foreign, Consumed, Settle
<1>3. pc \notin Typing /\ pc \notin Before
  BY <1>1 DEF Typing, Before
<1>4. ASSUME NEW m \in Msgs, Away(m)' PROVE Absent(pane', m) /\ Absent(seen', m)
  <2>1. m # cur
    BY <1>1, <1>2, <1>4 DEF Away, TypeOK
  <2>2. Away(m)
    BY <1>2, <1>4, <2>1 DEF Away, TypeOK
  <2> QED BY <1>2, <2>2 DEF Gated
<1>5. pc' \in Before /\ pc' \notin Echoing /\ pc' # "enter"
  BY <1>2 DEF Before, Echoing
<1> QED BY <1>2, <1>3, <1>4, <1>5 DEF Gated

(* A dialog opens between deliveries only; a person's clearing or enter    *)
(* takes the one text the box may hold.                                    *)
LEMMA GatedWorld ==
    ASSUME Foreign, TypeOK, InLine, Gated, World
    PROVE  Gated'
<1> USE DEF Strike
<1>1. pane \in Screens /\ seen \in Screens /\ cur \in Msgs
  BY DEF TypeOK
<1>2. ASSUME UNCHANGED <<machine, told, late, struck, mixed>>,
             note' = note \/ pc \notin Before,
             ~pane'.user,
             pc # "idle" /\ pane.modal = "none" => pane'.modal = "none",
             \A m \in Msgs : pane'.box[m] = pane.box[m] \/ pane'.box[m] = 0,
             \A m \in Msgs : Absent(pane, m) => Absent(pane', m),
             seen' \in {seen, pane, pane'}
      PROVE  Gated'
  <2>1. \A m \in Msgs : pane'.box[m] # 0 => pane'.box[m] = 1 /\ m = cur' /\ pc' \in Typing
    BY <1>2 DEF Gated, machine
  <2>2. ASSUME NEW m \in Msgs, Away(m)' PROVE Absent(pane', m) /\ Absent(seen', m)
    <3>1. Away(m)
      BY <1>2, <2>2 DEF Away, machine
    <3> QED BY <1>2, <3>1 DEF Gated
  <2>3. pc' \in Echoing => \/ pane'.modal = "none"
                           \/ Absent(pane', cur') /\ Absent(seen', cur')
    BY <1>1, <1>2 DEF Gated, machine, Echoing
  <2>4. pc' = "enter" => pane'.modal = "none"
    BY <1>2 DEF Gated, machine
  <2> QED BY <1>2, <2>1, <2>2, <2>3, <2>4 DEF Gated, machine
<1>3. CASE OpenDialog
  <2>1. PICK d : pane' = [pane EXCEPT !.modal = d]
    BY <1>3 DEF OpenDialog
  <2>2. pane'.box = pane.box /\ pane'.turns = pane.turns /\ pane'.user = pane.user
    BY <1>1, <2>1 DEF Screens
  <2>3. /\ UNCHANGED <<machine, told, late, struck, mixed, note>> /\ pc = "idle"
        /\ seen' \in {seen, pane, pane'}
    BY <1>3 DEF OpenDialog, Foreign, Shows
  <2> QED BY <1>2, <2>2, <2>3 DEF Gated, Absent
<1>4. CASE CloseDialog
  <2>1. /\ pane'.box = pane.box /\ pane'.turns = pane.turns /\ pane'.user = pane.user
        /\ pane'.modal = "none"
    BY <1>1, <1>4 DEF CloseDialog, Screens
  <2>2. /\ UNCHANGED <<machine, told, late, struck, mixed, note>>
        /\ seen' \in {seen, pane, pane'}
    BY <1>4 DEF CloseDialog, Shows
  <2> QED BY <1>2, <2>1, <2>2 DEF Gated, Absent
<1>5. CASE ClearBox
  <2>1. /\ pane'.box = [m \in Msgs |-> 0] /\ pane'.turns = pane.turns
        /\ pane'.user = FALSE /\ pane'.modal = pane.modal
    BY <1>1, <1>5 DEF ClearBox, Screens
  <2>2. /\ UNCHANGED <<machine, told, late, struck, mixed, note>>
        /\ seen' \in {seen, pane, pane'}
    BY <1>5 DEF ClearBox, Shows
  <2> QED BY <1>2, <2>1, <2>2 DEF Absent
<1>6. CASE HandEnter
  <2>1. pane' = Submitted(pane)
    BY <1>6 DEF HandEnter
  <2>2. /\ pane'.user = FALSE /\ pane'.modal = pane.modal
        /\ pane'.box = [n \in Msgs |-> 0]
        /\ pane'.turns = [n \in Msgs |-> pane.turns[n] + pane.box[n]]
    BY <1>1, <2>1, Keys
  <2>3. /\ pane'.user = FALSE /\ pane'.modal = pane.modal
        /\ \A m \in Msgs : /\ pane'.box[m] = 0
                           /\ pane'.turns[m] = pane.turns[m] + pane.box[m]
    BY <2>2
  <2>4. /\ UNCHANGED <<machine, told, late, struck, mixed, note>>
        /\ seen' \in {seen, pane, pane'}
    BY <1>6 DEF HandEnter, Shows
  <2> QED BY <1>2, <2>3, <2>4 DEF Absent
<1>7. CASE Paint
  <2>1. seen' = pane /\ UNCHANGED <<pane, machine, told, late, struck, mixed, note>>
    BY <1>7 DEF Paint
  <2> QED BY <1>2, <2>1 DEF Gated
<1>8. CASE NoteExpires
  <2>1. /\ UNCHANGED <<pane, seen, machine, told, late, struck, mixed>>
        /\ note.fresh
    BY <1>8 DEF NoteExpires
  <2>2. pc \notin Before
    BY <2>1 DEF Gated, NoNote
  <2> QED BY <1>2, <2>1, <2>2 DEF Gated
<1>9. CASE Scribble \/ (\E m \in Msgs : DeadlinePasses(m)) \/ EngineRestarts
           \/ RestartPane
  BY <1>9 DEF Scribble, DeadlinePasses, EngineRestarts, RestartPane, Foreign
<1> QED BY <1>3, <1>4, <1>5, <1>6, <1>7, <1>8, <1>9 DEF World

LEMMA GatedStep ==
    ASSUME Foreign, TypeOK, InLine, Gated, [Next]_vars
    PROVE  Gated'
<1>1. CASE UNCHANGED vars
  BY <1>1 DEF vars, machine, Gated, Away, Absent
<1> QED BY <1>1, GatedDeliver, GatedTake, GatedRead, GatedType, GatedEcho,
           GatedEnter, GatedPost, GatedWorld DEF Next, Machine

LEMMA GatedInit == Init => Gated
  BY DEF Init, Gated, Blank, Absent, Before, Echoing

(* On a foreign pane no enter of the engine ever reaches a dialog.         *)
THEOREM DialogsUntouched == Foreign => (Spec => []NeverAnsweredByAccident)
<1> SUFFICES ASSUME Foreign PROVE Spec => []NeverAnsweredByAccident
  OBVIOUS
<1>1. TypeOK /\ InLine /\ Gated /\ [Next]_vars => Gated'
  BY GatedStep
<1>2. Gated => NeverAnsweredByAccident
  BY DEF Gated, NeverAnsweredByAccident
<1> QED BY <1>1, <1>2, GatedInit, TypeInit, TypeStep, InLineInit, InLineStep, PTL
       DEF Spec

(* Nor does it submit two texts as one turn, and a first attempt it        *)
(* refuses leaves no copy anywhere.                                        *)
THEOREM NothingStays == Foreign => (Spec => []NothingLeftBehind)
<1> SUFFICES ASSUME Foreign PROVE Spec => []NothingLeftBehind
  OBVIOUS
<1>1. TypeOK /\ InLine /\ Gated /\ [Next]_vars => Gated'
  BY GatedStep
<1>2. TypeOK /\ InLine /\ Gated => NothingLeftBehind
  <2> SUFFICES ASSUME TypeOK, InLine, Gated, NEW m \in Msgs, told[m] = "refused"
               PROVE  Copies(m) = 0 /\ ~mixed
    BY DEF NothingLeftBehind, NoMixedTurn, RefusalLeavesNothing, Gated
  <2>1. Away(m)
    BY DEF Away, InLine, Before
  <2> QED BY <2>1 DEF Gated, Absent, Copies
<1> QED BY <1>1, <1>2, GatedInit, TypeInit, TypeStep, InLineInit, InLineStep, PTL
       DEF Spec
=============================================================================
