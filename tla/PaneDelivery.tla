---------------------------- MODULE PaneDelivery ----------------------------
(***************************************************************************)
(* One terminal pane and the engine's delivery guard in front of it:       *)
(* runDeliveryMachine (chat/delivery-machine.ts) run inside the single     *)
(* keyboard queue (chat/pane-deliver.ts onPaneKeyboard), with the          *)
(* "unsubmitted" note that decides whether a retry types or only presses   *)
(* enter, and the caller's verdict on each message (chat/deliver.ts).      *)
(*                                                                         *)
(* The pane is a TUI the engine does not control: between any two awaits   *)
(* of the machine a dialog may open or close, a person may use the         *)
(* keyboard, the screen may lag behind the program, a key may be eaten.    *)
(* Which of these may happen is the constant Mischief; how often is        *)
(* MaxMischief.  The machine's reads, key presses and exits are one action *)
(* per await, because another action can run at every await.               *)
(***************************************************************************)
EXTENDS Naturals, Sequences

CONSTANTS
    Msgs,         \* delivery ids: a send's cid, an occurrence's id
    TailOf,       \* [Msgs -> tail class]: what tailVisible can tell apart
    Long,         \* the bodies past TAIL_MAX, echoed by any change of screen
    CanParse,     \* whether the harness reader has parseScreen
    Mischief,     \* what the world may do to the pane (see Kinds)
    MaxAttempts,  \* bound: deliveries asked for per message
    MaxMischief   \* bound: uncontrolled events per behaviour

(* The kinds of uncontrolled event.
     dialog  a chooser the parser recognises opens between two deliveries
     notice  a prompt or menu the parser does not recognise, likewise
     race    a dialog (of an enabled kind) opens during a delivery
     clear   the box is cleared by hand or by an interrupt
     scribble  a person types into the box
     hand    a person presses enter
     slow    the screen lags behind the program
     eaten   the enter is taken as part of the paste and submits nothing
     throw   the multiplexer rejects a keystroke call
     blind   a screen read fails or comes back truncated
     odd     the box is on screen in a shape the parser does not match
     late    the delivery deadline passes
     ttl     the note outlives its time to live
     restart the engine process restarts, or the pane's agent is restarted *)
Kinds == { "dialog", "notice", "race", "clear", "scribble", "hand", "slow",
           "eaten", "throw", "blind", "odd", "late", "ttl", "restart" }

Undated == [id |-> "none"]     \* mutant: a note without its time
NoNote == [id |-> "none", fresh |-> FALSE]

ASSUME DeliveryAssumption ==
    /\ "none" \notin Msgs
    /\ DOMAIN TailOf = Msgs
    /\ Long \subseteq Msgs
    /\ CanParse \in BOOLEAN
    /\ Mischief \subseteq Kinds
    /\ MaxAttempts \in Nat
    /\ MaxMischief \in Nat

VARIABLES
    pane,      \* what the TUI holds: dialog, input box, turns taken
    seen,      \* what its screen shows, which may be older
    queue,     \* deliverChain: attempts waiting for the keyboard
    pc,        \* the machine's state, "idle" when nobody has the slot
    cur,       \* the message of the running attempt
    look,      \* the screen the running attempt last acted on
    note,      \* unsubmitted.get(pane)
    late,      \* messages past deliverDeadlineMs
    told,      \* the verdict the caller has on each message
    attempts,  \* attempts started per message (bounds the model)
    mischief,  \* uncontrolled events so far (bounds the model)
    struck,    \* history: the dialogs our enter has answered, by cause
    mixed      \* history: a turn was submitted holding more than one text

machine == <<pc, cur, look>>
vars == <<pane, seen, queue, machine, note, late, told, attempts, mischief,
          struck, mixed>>

Modals == {"none", "chooser", "notice"}
Screens == [modal : Modals, box : [Msgs -> Nat], user : BOOLEAN,
            turns : [Msgs -> Nat]]
Verdicts == {"new", "queued", "refused", "stranded", "unsure", "lost",
             "delivered", "unconfirmed"}
States == {"idle", "readPre", "type", "typeGated", "echoGate", "reEcho",
           "enter", "enterAgain", "readPost", "restrandCheck"}

TypeOK ==
    /\ pane \in Screens
    /\ seen \in Screens
    /\ queue \in Seq(Msgs)
    /\ pc \in States
    /\ cur \in Msgs
    /\ look \in Screens
    /\ note \in [id : Msgs \cup {"none"}, fresh : BOOLEAN]
    /\ late \subseteq Msgs
    /\ told \in [Msgs -> Verdicts]
    /\ attempts \in [Msgs -> Nat]
    /\ mischief \in Nat
    /\ struck \subseteq {"unseen", "seen", "fooled"}
    /\ mixed \in BOOLEAN

Blank == [modal |-> "none", box |-> [m \in Msgs |-> 0], user |-> FALSE,
          turns |-> [m \in Msgs |-> 0]]

Init ==
    /\ pane = Blank
    /\ seen = Blank
    /\ queue = <<>>
    /\ pc = "idle"
    /\ cur \in Msgs
    /\ look = Blank
    /\ note = NoNote
    /\ late = {}
    /\ told = [m \in Msgs |-> "new"]
    /\ attempts = [m \in Msgs |-> 0]
    /\ mischief = 0
    /\ struck = {}
    /\ mixed = FALSE

-----------------------------------------------------------------------------
(* The screen, as the guard reads it. *)

HasContent(s) == s.user \/ \E m \in Msgs : s.box[m] > 0

SameTail(m, n) == TailOf[m] = TailOf[n]

\* The text is in the transcript part of the screen.
Said(s, m) == \E n \in Msgs : SameTail(m, n) /\ s.turns[n] > 0

\* tailVisible: a dialog hides the box, nothing hides the transcript.
TailVisible(s, m) ==
    \/ s.modal = "none" /\ \E n \in Msgs : SameTail(m, n) /\ s.box[n] > 0
    \/ Said(s, m)

\* The echo gate's predicate, against the screen read before typing.
EchoAssumed(s, m) == TRUE      \* mutant: the gate is skipped
Echoed(s, m) == TailVisible(s, m) \/ (m \in Long /\ s # look)

\* A read that failed shows no tail, but it differs from the screen before.
EchoSeen(read, m) == IF read = "unreadable" THEN m \in Long ELSE Echoed(seen, m)
LookedAt(read) == IF read = "unreadable" THEN look ELSE seen

\* classifyPaneBox: the verdicts a readable screen may get.
BoxKinds(s) ==
    CASE s.modal = "chooser" -> {"chooser"}
      [] s.modal = "notice"  -> {"unknown"}
      [] s.modal = "none"    -> {"input"} \cup
                                (IF "odd" \in Mischief THEN {"unknown"} ELSE {})

\* What a read returns: a verdict of the parser, or "unreadable".
Reads(s) == BoxKinds(s) \cup (IF "blind" \in Mischief THEN {"unreadable"} ELSE {})

\* The program changed: the screen follows at once unless it may be slow.
Shows(p) == seen' = IF "slow" \in Mischief THEN seen ELSE p

\* A second read waits longer than the screen ever lags (restrandSettleMs,
\* reEchoSettleMs).
NoWait == TRUE                 \* mutant: the second read comes at once
Settled == seen = pane

-----------------------------------------------------------------------------
(* The pane's keyboard. *)

Typed(p, m) ==
    IF p.modal = "none" THEN [p EXCEPT !.box[m] = @ + 1] ELSE p

Submitted(p) ==
    [p EXCEPT !.box = [m \in Msgs |-> 0],
              !.user = FALSE,
              !.turns = [m \in Msgs |-> p.turns[m] + p.box[m]]]

\* An enter answers the dialog that is open, else submits the box.
Entered(p) ==
    IF p.modal # "none" THEN {[p EXCEPT !.modal = "none"]}
    ELSE {Submitted(p)} \cup (IF "eaten" \in Mischief THEN {p} ELSE {})

MoreThanOne(p) ==
    \E m \in Msgs : /\ p.box[m] > 0
                    /\ \/ p.user
                       \/ p.box[m] > 1
                       \/ \E n \in Msgs \ {m} : p.box[n] > 0

\* Why an enter that meets a dialog was pressed.
Cause(p, m) ==
    IF p.modal = "none" THEN {}
    ELSE IF look.modal = "none" THEN {"unseen"}
    ELSE IF Said(look, m) \/ m \in Long THEN {"fooled"}
    ELSE {"seen"}

-----------------------------------------------------------------------------
(* The machine, one action per await. *)

\* The slot is released with a verdict for the running message.
Settle(m, verdict) ==
    /\ pc' = "idle"
    /\ told' = [told EXCEPT ![m] = verdict]
    /\ UNCHANGED <<cur, look>>

\* A message is handed to deliverToPane, for the first time or again: the app's
\* retry tap offers every failed row, whatever the engine knew of it.
Deliver(m) ==
    /\ told[m] \in {"new", "refused", "stranded", "unsure", "lost"}
    /\ attempts[m] < MaxAttempts
    /\ attempts' = [attempts EXCEPT ![m] = @ + 1]
    /\ told' = [told EXCEPT ![m] = "queued"]
    /\ queue' = Append(queue, m)
    /\ late' = late \ {m}
    /\ UNCHANGED <<pane, seen, machine, note, mischief, struck, mixed>>

\* gateDeadline1 and gateBlocked.  A session's status is refined elsewhere and
\* may say blocked or not, whatever is on screen.
TakeSlot ==
    /\ pc = "idle"
    /\ queue # <<>>
    /\ queue' = Tail(queue)
    /\ LET m == Head(queue) IN
       \/ /\ m \in late \/ ~CanParse
          /\ Settle(m, "refused")
       \/ /\ m \notin late
          /\ pc' = "readPre"
          /\ cur' = m
          /\ UNCHANGED <<look, told>>
    /\ UNCHANGED <<pane, seen, note, late, attempts, mischief, struck, mixed>>

Believable == note.id = cur /\ note.fresh

\* refusesDelivery.
RefusesTheUnread(kind) == kind = "unreadable"     \* mutant: choosers pass
RefusesDelivery(kind) == kind \in {"chooser", "unreadable"}

\* readPre, verdict, noteCheck, gateDeadline2: what follows from one read.
ReadPre ==
    /\ pc = "readPre"
    /\ \E read \in Reads(seen) :
         LET kind == IF CanParse \/ read = "unreadable" THEN read ELSE "unknown"
             stillThere == /\ Believable
                           /\ IF CanParse THEN kind = "input" /\ HasContent(seen)
                                          ELSE TailVisible(seen, cur)
         IN \/ /\ RefusesDelivery(kind)
               /\ Settle(cur, "refused")
            \/ /\ ~RefusesDelivery(kind) /\ stillThere
               /\ pc' = "enter" /\ look' = seen
               /\ UNCHANGED <<cur, told>>
            \/ /\ ~RefusesDelivery(kind) /\ ~stillThere /\ cur \in late
               /\ Settle(cur, "refused")
            \/ /\ ~RefusesDelivery(kind) /\ ~stillThere /\ cur \notin late
               /\ pc' = IF kind = "unknown" THEN "typeGated" ELSE "type"
               /\ look' = seen
               /\ UNCHANGED <<cur, told>>
    /\ UNCHANGED <<pane, seen, queue, note, late, attempts, mischief, struck,
                   mixed>>

\* sendText.  A dialog swallows the text.  A call that throws may have typed.
Type ==
    /\ pc \in {"type", "typeGated"}
    /\ \/ /\ pane' = Typed(pane, cur)
          /\ note' = [id |-> cur, fresh |-> TRUE]
          /\ pc' = IF pc = "typeGated" THEN "echoGate" ELSE "enter"
          /\ UNCHANGED <<cur, look, told>>
       \/ /\ "throw" \in Mischief
          /\ pane' \in {pane, Typed(pane, cur)}
          /\ Settle(cur, "unsure")
          /\ UNCHANGED note
    /\ Shows(pane')
    /\ UNCHANGED <<queue, late, attempts, mischief, struck, mixed>>

\* mutant: wait for the echo for as long as it takes
WaitForEcho == UNCHANGED <<machine, told, note>>
\* The pane took no text: the note would be a lie.
Swallowed == /\ note' = NoNote
             /\ Settle(cur, "refused")

LookOnce(m) == FALSE           \* mutant: no second read
LooksTwice(m) == m \notin late

\* echoGate: one read, a second one unless the message is out of time.
EchoGate ==
    /\ pc = "echoGate"
    /\ \E read \in Reads(seen) :
         LET echoed == EchoSeen(read, cur) IN
         \/ /\ echoed
            /\ pc' = "enter" /\ look' = LookedAt(read)
            /\ UNCHANGED <<cur, told, note>>
         \/ /\ ~echoed /\ LooksTwice(cur)
            /\ pc' = "reEcho"
            /\ UNCHANGED <<cur, look, told, note>>
         \/ /\ ~echoed /\ ~LooksTwice(cur)
            /\ Swallowed
    /\ UNCHANGED <<pane, seen, queue, late, attempts, mischief, struck, mixed>>

ReEcho ==
    /\ pc = "reEcho"
    /\ Settled
    /\ \E read \in Reads(seen) :
         LET echoed == EchoSeen(read, cur) IN
         \/ /\ echoed
            /\ pc' = "enter" /\ look' = LookedAt(read)
            /\ UNCHANGED <<cur, told, note>>
         \/ ~echoed /\ Swallowed
    /\ UNCHANGED <<pane, seen, queue, late, attempts, mischief, struck, mixed>>

\* sendKeys enter, pressed once more when the first call throws.
Enter ==
    /\ pc \in {"enter", "enterAgain"}
    /\ \E p \in Entered(pane), throws \in BOOLEAN, landed \in BOOLEAN :
         /\ throws => "throw" \in Mischief
         /\ ~throws => landed
         /\ pane' = IF landed THEN p ELSE pane
         /\ struck' = IF landed THEN struck \cup Cause(pane, cur) ELSE struck
         /\ mixed' = (\/ mixed
                      \/ /\ landed /\ p # pane /\ pane.modal = "none"
                         /\ MoreThanOne(pane))
         /\ \/ ~throws /\ pc' = "readPost" /\ UNCHANGED <<cur, look, told>>
            \/ throws /\ pc = "enter" /\ pc' = "enterAgain"
               /\ UNCHANGED <<cur, look, told>>
            \/ throws /\ pc = "enterAgain" /\ Settle(cur, "unsure")
    /\ Shows(pane')
    /\ UNCHANGED <<queue, note, late, attempts, mischief>>

Consumed == /\ note' = NoNote
            /\ Settle(cur, "delivered")

ForgetStranded == note' = NoNote /\ Settle(cur, "stranded")   \* mutant
\* The retry presses enter only.
Stranded == UNCHANGED note /\ Settle(cur, "stranded")

NoResidue(read) == FALSE       \* mutant: the screen is not read back
Residue(read) == read = "input" /\ HasContent(seen)

\* readPost and consumedForeign.
ReadPost ==
    /\ pc = "readPost"
    /\ \E read \in Reads(seen) :
         \/ /\ CanParse /\ Residue(read)
            /\ pc' = "restrandCheck"
            /\ UNCHANGED <<cur, look, told, note>>
         \/ /\ CanParse /\ read = "unreadable"
            /\ Settle(cur, "unconfirmed")
            /\ UNCHANGED note
         \/ /\ ~CanParse \/ (read # "unreadable" /\ ~Residue(read))
            /\ Consumed
    /\ UNCHANGED <<pane, seen, queue, late, attempts, mischief, struck, mixed>>

\* restrandCheck: any screen but a box with content counts as cleared.
RestrandCheck ==
    /\ pc = "restrandCheck"
    /\ Settled
    /\ \E read \in Reads(seen) :
         \/ Residue(read) /\ Stranded
         \/ ~Residue(read) /\ Consumed
    /\ UNCHANGED <<pane, seen, queue, late, attempts, mischief, struck, mixed>>

Machine == \/ TakeSlot \/ ReadPre \/ Type \/ EchoGate \/ ReEcho
           \/ Enter \/ ReadPost \/ RestrandCheck

-----------------------------------------------------------------------------
(* The world. *)

Strike(kind) == /\ kind \in Mischief
                /\ mischief < MaxMischief
                /\ mischief' = mischief + 1

OpenDialog ==
    \E d \in {"chooser", "notice"} :
        /\ Strike(IF d = "chooser" THEN "dialog" ELSE "notice")
        /\ pc = "idle" \/ "race" \in Mischief
        /\ pane.modal = "none"
        /\ pane' = [pane EXCEPT !.modal = d]
        /\ Shows(pane')
        /\ UNCHANGED <<queue, machine, note, late, told, attempts, struck, mixed>>

\* Answered in the terminal, from the app, or dismissed by a Stop, whose
\* interrupt key does not wait for the keyboard queue.
CloseDialog ==
    /\ pane.modal # "none"
    /\ pane' = [pane EXCEPT !.modal = "none"]
    /\ Shows(pane')
    /\ UNCHANGED <<queue, machine, note, late, told, attempts, mischief, struck,
                   mixed>>

ClearBox ==
    /\ Strike("clear")
    /\ pane.modal = "none" /\ HasContent(pane)
    /\ pane' = [pane EXCEPT !.box = [m \in Msgs |-> 0], !.user = FALSE]
    /\ Shows(pane')
    /\ UNCHANGED <<queue, machine, note, late, told, attempts, struck, mixed>>

Scribble ==
    /\ Strike("scribble")
    /\ pane.modal = "none" /\ ~pane.user
    /\ pane' = [pane EXCEPT !.user = TRUE]
    /\ Shows(pane')
    /\ UNCHANGED <<queue, machine, note, late, told, attempts, struck, mixed>>

\* A person's own enter, so what it mixes or answers is not the engine's doing.
HandEnter ==
    /\ Strike("hand")
    /\ pane.modal = "none" /\ HasContent(pane)
    /\ pane' = Submitted(pane)
    /\ Shows(pane')
    /\ UNCHANGED <<queue, machine, note, late, told, attempts, struck, mixed>>

Paint ==
    /\ seen # pane
    /\ seen' = pane
    /\ UNCHANGED <<pane, queue, machine, note, late, told, attempts, mischief,
                   struck, mixed>>

DeadlinePasses(m) ==
    /\ Strike("late")
    /\ told[m] = "queued" /\ m \notin late
    /\ late' = late \cup {m}
    /\ UNCHANGED <<pane, seen, queue, machine, note, told, attempts, struck, mixed>>

NoteExpires ==
    /\ Strike("ttl")
    /\ note.fresh
    /\ note' = [note EXCEPT !.fresh = FALSE]
    /\ UNCHANGED <<pane, seen, queue, machine, late, told, attempts, struck, mixed>>

\* The notes and both queues live in memory only.
EngineRestarts ==
    /\ Strike("restart")
    /\ queue' = <<>>
    /\ pc' = "idle"
    /\ note' = NoNote
    /\ told' = [m \in Msgs |-> IF told[m] = "queued" THEN "lost" ELSE told[m]]
    /\ UNCHANGED <<pane, seen, cur, look, late, attempts, struck, mixed>>

\* restartPane takes the keyboard, quits the agent and forgets the note.
RestartPane ==
    /\ Strike("restart")
    /\ pc = "idle"
    /\ pane' = [pane EXCEPT !.modal = "none", !.box = [m \in Msgs |-> 0],
                            !.user = FALSE]
    /\ note' = NoNote
    /\ Shows(pane')
    /\ UNCHANGED <<queue, machine, late, told, attempts, struck, mixed>>

World == \/ OpenDialog \/ CloseDialog \/ ClearBox \/ Scribble \/ HandEnter
         \/ Paint \/ (\E m \in Msgs : DeadlinePasses(m)) \/ NoteExpires
         \/ EngineRestarts \/ RestartPane

Next == (\E m \in Msgs : Deliver(m)) \/ Machine \/ World

\* Every await of the machine resolves or rejects, and a screen is painted in
\* the end; nothing else is bound to happen.
Fairness == WF_vars(Machine) /\ WF_vars(Paint)

Spec == Init /\ [][Next]_vars /\ Fairness
-----------------------------------------------------------------------------
Copies(m) == pane.box[m] + pane.turns[m]

(* A message is in the pane at most once, waiting in the box or taken as a *)
(* turn, however often it is retried.  This is what the unsubmitted note   *)
(* and the re-reads are for.                                               *)
NoDoubling == \A m \in Msgs : Copies(m) <= 1

(* A message the engine commits as delivered was submitted: the machine    *)
(* reports success only past a check that the keystrokes were consumed.    *)
DeliveredMeansTaken ==
    \A m \in Msgs : told[m] = "delivered" => pane.turns[m] > 0

(* When the keyboard is free, a text that still sits in the box although   *)
(* its message was not delivered is remembered by a note the retry will    *)
(* believe: the invariant the enter-only retry rests on.                   *)
ResidueRemembered ==
    \A m \in Msgs :
        /\ pc = "idle"
        /\ pane.box[m] > 0
        /\ told[m] \in {"queued", "refused", "stranded", "lost"}
        => note = [id |-> m, fresh |-> TRUE]

(* However often a message is retried, one copy of it is in the pane, and  *)
(* what is left in the box is known to the next attempt.                   *)
RetriesAreSafe == NoDoubling /\ ResidueRemembered

(* The machine never presses enter on a dialog that was on the screen it   *)
(* last looked at, unless the text was on that screen already, or is too   *)
(* long to be looked for, so that the echo gate had nothing to go by.      *)
NoBlindEnter == "seen" \notin struck

(* A pane showing a modal is never answered by accident                    *)
(* (docs/contracts/09-adapters.md:68): no enter of the engine ever reaches *)
(* a dialog.                                                               *)
NeverAnsweredByAccident == struck = {}

(* The agent never reads two texts as one turn.                            *)
NoMixedTurn == ~mixed

(* A refusal promises that nothing was submitted and that the text is in   *)
(* no box (PaneNotReady): a first attempt that is refused leaves no copy.  *)
RefusalLeavesNothing ==
    \A m \in Msgs : told[m] = "refused" /\ attempts[m] = 1 => Copies(m) = 0

(* No text stays behind to go with another: the agent never reads two      *)
(* texts as one turn, and a refusal left none in the box that could.       *)
NothingLeftBehind == NoMixedTurn /\ RefusalLeavesNothing

(* Nobody waits for the keyboard for ever: every message handed to the     *)
(* queue gets a verdict, whatever the pane does meanwhile.                 *)
EveryAttemptSettles ==
    \A m \in Msgs : told[m] = "queued" ~> told[m] # "queued"
=============================================================================
