----------------------------- MODULE Connection -----------------------------
(***************************************************************************)
(* Who dials an engine, and when.  The client (client.ts) makes the pipe    *)
(* and its sealed handshake; the connection manager (sync/connection.ts)    *)
(* says when the next dial goes, stops all dialing while the page is hidden *)
(* or the radio is off, and tells the rest of the app when an engine has    *)
(* settled and when it is gone.                                             *)
(*                                                                         *)
(* Waits are abstract: a timer is armed or not.  The count of attempts and  *)
(* the words of the status line are left out.                               *)
(***************************************************************************)
EXTENDS Naturals, FiniteSets

CONSTANTS
    Engines,
    Faults,     \* what may go wrong (see FaultKinds)
    MaxFaults,  \* bound: how many faults per behaviour
    MaxMoves    \* bound: how often the user hides the page, moves, pairs

\* The last two do not happen by themselves.  "lag": decrypting a frame may take
\* longer than the next handshake; "crossed": the user pairs the engine under
\* the sheet that says its identity has changed.
FaultKinds == {"down", "close", "mute", "late", "relay", "shake", "forget", "rebuild",
               "lag", "crossed"}

ASSUME ConnectionAssumption ==
    /\ Faults \subseteq FaultKinds
    /\ MaxFaults \in Nat
    /\ MaxMoves \in Nat

VARIABLES
    conn,       \* [Engines -> Conn]: the manager's record and the client
    world,      \* [Engines -> World]: the engine behind it
    hidden,     \* the manager's: the page is hidden,
    hideTimer,  \* and the 30 s of grace are not over
    online,     \* the manager's: what the radio said
    radio,      \* navigator.onLine
    faults,     \* faults so far
    moves       \* moves of the user so far

vars == <<conn, world, hidden, hideTimer, online, radio, faults, moves>>

Frames == {"host", "sessions"}
Up == {"draining", "live"}

\* call: the dial under way; "dead": its pipe closed before the hello, and it
\* waits for its deadline.  said: the last status the client emitted.  asks: the
\* sheet about a changed identity is open.  intent: a pairing accepts any.
\* fresh, told and swallowed are history: the frames handled on this pipe,
\* whether the last edge the subscribers heard was the connected one, and that
\* the user's word came while a dial was under way, and none has gone out since.
Conn == [st : {"idle", "dialing", "sealed", "down"} \cup Up, timer : BOOLEAN,
         seen : SUBSET Frames, owed : BOOLEAN,
         call : {"none", "relay", "shake", "dead"},
         pipe : {"none", "raw", "sealed"},
         said : {"connecting", "connected", "disconnected"},
         held : BOOLEAN, kick : BOOLEAN, demand : BOOLEAN,
         asks : BOOLEAN, intent : BOOLEAN, swallowed : BOOLEAN,
         fresh : SUBSET Frames, told : BOOLEAN]

\* reach: it answers; trusts: it knows the device, or will by the key it gets;
\* pinned: nothing the client has pinned contradicts its identity; mute: the pipe to it is half
\* open; late: frames of the last pipe that are still being decrypted; watched:
\* one of its chats is open, and its pipe is probed.
World == [reach : BOOLEAN, trusts : BOOLEAN, pinned : BOOLEAN, mute : BOOLEAN,
          late : SUBSET Frames, watched : BOOLEAN]

\* The variables hold what they should, and a client has one pipe at most: the
\* raw one of its handshake, or the sealed one when no dial is under way.
TypeOK ==
    /\ conn \in [Engines -> Conn]
    /\ \A e \in Engines : /\ conn[e].pipe = "raw" <=> conn[e].call = "shake"
                          /\ conn[e].pipe = "sealed" => conn[e].call = "none"
    /\ world \in [Engines -> World]
    /\ {hidden, hideTimer, online, radio} \subseteq BOOLEAN
    /\ faults \in 0 .. MaxFaults
    /\ moves \in 0 .. MaxMoves

\* start() and connect(): every client dials.
Init ==
    /\ conn = [e \in Engines |->
                 [st |-> "dialing", timer |-> FALSE, seen |-> {}, owed |-> FALSE,
                  call |-> "relay", pipe |-> "none", said |-> "connecting",
                  held |-> FALSE, kick |-> FALSE, demand |-> FALSE,
                  asks |-> FALSE, intent |-> FALSE, swallowed |-> FALSE,
                  fresh |-> {}, told |-> FALSE]]
    /\ world \in [Engines -> [reach : {TRUE}, trusts : {TRUE}, pinned : {TRUE},
                              mute : {FALSE}, late : {{}}, watched : BOOLEAN]]
    /\ hidden = FALSE
    /\ hideTimer = FALSE
    /\ online = TRUE
    /\ radio = TRUE
    /\ faults = 0
    /\ moves = 0

Strikes(fault) ==
    /\ fault \in Faults
    /\ faults < MaxFaults
    /\ faults' = faults + 1

Moves == moves < MaxMoves /\ moves' = moves + 1

-----------------------------------------------------------------------------
(* The manager's calls, each on the record of one engine. *)

CanDial == online /\ ~(hidden /\ ~hideTimer)

\* A dial the client decided on itself.
NoteDialing(C) ==
    IF C.st \in {"idle", "down"} THEN [C EXCEPT !.st = "dialing", !.timer = FALSE] ELSE C

\* Mutant of WasUp: an engine that still owes something is not taken for up.
WasLive(C) == C.st = "live"
WasUp(C) == C.st \in Up
\* The disconnected edge goes out if there was a connected one.
NoteDown(C) ==
    [C EXCEPT !.st = "down", !.seen = {}, !.timer = FALSE,
              !.told = @ /\ ~WasUp(C)]

\* Mutant of NoteSealed: what the last pipe said still counts.
NoteSealedKeeps(C) == [C EXCEPT !.st = "sealed", !.timer = FALSE]
NoteSealed(C) == [C EXCEPT !.st = "sealed", !.seen = {}, !.timer = FALSE]

\* reweigh()
Weighed(C) ==
    IF C.st \in Up THEN [C EXCEPT !.st = IF C.owed THEN "draining" ELSE "live"] ELSE C

\* maybeSettle(): both frames of the hello have landed.
Settles(C) ==
    IF C.st = "sealed" /\ C.seen = Frames
    THEN Weighed([C EXCEPT !.st = "live", !.told = TRUE]) ELSE C

\* Mutant of Schedule: a timer is armed although nobody is to dial.
ScheduleAlways(C) == [C EXCEPT !.st = "down", !.timer = TRUE]
\* Mutant of Schedule: the engine rests, with nobody to wake it.
ScheduleOnPoke(C) == [C EXCEPT !.st = "idle", !.timer = FALSE]
Schedule(C) == [C EXCEPT !.st = IF CanDial THEN "down" ELSE "idle", !.timer = CanDial]

Park(C) ==
    IF C.st \in {"dialing", "down"} THEN [C EXCEPT !.st = "idle", !.timer = FALSE] ELSE C

-----------------------------------------------------------------------------
(* The client. *)

\* emit('status') and wireLiveness(): only a change reaches the manager.
Says(C, word) ==
    LET D == [C EXCEPT !.said = word] IN
    IF C.said = word THEN C
    ELSE CASE word = "connecting" -> NoteDialing(D)
           [] word = "connected" -> NoteSealed(D)
           [] word = "disconnected" -> NoteDown(D)

\* scheduleReconnect(): a held client waits for the user.
Reconnects(C) == IF C.held THEN C ELSE Schedule(C)

\* dial()
Dials(C) ==
    IF C.held \/ C.call # "none" THEN C
    ELSE [Says(C, "connecting") EXCEPT !.call = "relay", !.swallowed = FALSE]

\* redialNow(), from the manager's dial(): a client that is held, dialing or
\* connected stays as it is, and the timer is gone all the same.
Redialed(C) ==
    LET D == [C EXCEPT !.timer = FALSE] IN
    IF D.held \/ D.pipe # "none" \/ D.call # "none" THEN D
    ELSE [Dials(D) EXCEPT !.st = "dialing"]

\* The disconnected word, and a dial to follow.
Drops(C) == Reconnects(Says(C, "disconnected"))

\* Mutant of Fails: the pipe of a handshake that failed stays.
FailsOpen(C) == Drops([C EXCEPT !.call = "none", !.demand = FALSE])
\* The dial is over, without a pipe.
Fails(C) == Drops([C EXCEPT !.call = "none", !.pipe = "none", !.demand = FALSE])

\* Mutant of Waits: a word that came while the client dialed is forgotten.
WaitsAlways(C) == [C EXCEPT !.held = TRUE, !.kick = FALSE]
\* retryAfterRekey(): the client waits for the user, unless he spoke meanwhile.
Waits(C) == [C EXCEPT !.held = ~C.kick, !.kick = FALSE]

RelayOpens(e) ==
    /\ conn[e].call = "relay" /\ world[e].reach
    /\ conn' = [conn EXCEPT ![e].call = "shake", ![e].pipe = "raw"]
    /\ UNCHANGED <<world, hidden, hideTimer, online, radio, faults, moves>>

RelayFails(e) ==
    /\ conn[e].call = "relay"
    /\ \/ ~world[e].reach /\ UNCHANGED faults
       \/ Strikes("relay")
    /\ conn' = [conn EXCEPT ![e] = Drops([@ EXCEPT !.call = "none"])]
    /\ UNCHANGED <<world, hidden, hideTimer, online, radio, moves>>

Answers(e) == conn[e].call = "shake" /\ world[e].reach /\ ~world[e].mute
Accepted(e) == world[e].pinned \/ conn[e].intent

\* sendPostHello(): a sealed pipe proves that the network is there.  Frames of
\* the last pipe have long been decrypted: that takes less than a handshake.
Seals(e) ==
    /\ Answers(e) /\ Accepted(e) /\ world[e].trusts
    /\ conn' = [conn EXCEPT ![e] =
                  Says([@ EXCEPT !.call = "none", !.pipe = "sealed", !.kick = FALSE,
                                 !.intent = FALSE, !.swallowed = FALSE, !.fresh = {}],
                       "connected")]
    /\ online' = TRUE
    /\ world' = [world EXCEPT ![e].late = IF "lag" \in Faults THEN @ ELSE {},
                              ![e].pinned = TRUE]
    /\ UNCHANGED <<hidden, hideTimer, radio, faults, moves>>

\* The engine does not know the device; its identity is pinned by then.
Refused(e) ==
    /\ Answers(e) /\ Accepted(e) /\ ~world[e].trusts
    /\ conn' = [conn EXCEPT ![e] = Fails(Waits(@))]
    /\ world' = [world EXCEPT ![e].pinned = TRUE]
    /\ UNCHANGED <<hidden, hideTimer, online, radio, faults, moves>>

\* The engine shows another identity than the pinned one: the sheet opens.
Impostor(e) ==
    /\ Answers(e) /\ ~Accepted(e)
    /\ conn' = [conn EXCEPT ![e] =
                  [Fails(Waits(conn[e])) EXCEPT !.asks = @ \/ ~conn[e].kick]]
    /\ UNCHANGED <<world, hidden, hideTimer, online, radio, faults, moves>>

\* The handshake fails or times out; the pipe closes unheard.
ShakeFails(e) ==
    /\ conn[e].call \in {"shake", "dead"}
    /\ \/ /\ conn[e].call = "dead" \/ world[e].mute \/ ~world[e].reach
          /\ UNCHANGED faults
       \/ conn[e].call = "shake" /\ Strikes("shake")
    /\ conn' = [conn EXCEPT ![e] = Fails(@)]
    /\ world' = [world EXCEPT ![e].mute = FALSE]
    /\ UNCHANGED <<hidden, hideTimer, online, radio, moves>>

\* onPipeClose(), which is heard once.  A handshake that has said hello throws
\* at once; one that has not waits for its deadline.
Closed(C) ==
    LET D == Drops([C EXCEPT !.pipe = "none", !.demand = FALSE])
    IN IF C.call = "shake" THEN {Fails(D), [D EXCEPT !.call = "dead"]} ELSE {D}

PipeCloses(e) ==
    /\ conn[e].pipe # "none"
    /\ \/ ~world[e].reach /\ UNCHANGED faults
       \/ Strikes("close")
    /\ \E C \in Closed(conn[e]) : conn' = [conn EXCEPT ![e] = C]
    /\ world' = [world EXCEPT ![e].mute = FALSE]
    /\ UNCHANGED <<hidden, hideTimer, online, radio, moves>>

\* presumeDead(): a ping had no pong in time.  Without an open chat only a
\* return to the page asks for one.
PresumeDead(e) ==
    /\ conn[e].pipe = "sealed" /\ world[e].mute
    /\ conn[e].demand \/ world[e].watched
    /\ conn' = [conn EXCEPT ![e] = Drops([@ EXCEPT !.pipe = "none", !.demand = FALSE])]
    /\ world' = [world EXCEPT ![e].mute = FALSE]
    /\ UNCHANGED <<hidden, hideTimer, online, radio, faults, moves>>

\* noteHost() and noteSessions()
Sees(C, f) == Settles([C EXCEPT !.seen = @ \cup {f}])

Frame(e) ==
    /\ conn[e].pipe = "sealed" /\ ~world[e].mute
    /\ \E f \in Frames \ conn[e].fresh :
         conn' = [conn EXCEPT ![e] = Sees([conn[e] EXCEPT !.fresh = @ \cup {f}], f)]
    /\ UNCHANGED <<world, hidden, hideTimer, online, radio, faults, moves>>

\* A frame of a pipe that has closed was still being decrypted.
LateFrame(e) ==
    /\ \E f \in world[e].late :
         /\ conn' = [conn EXCEPT ![e] = Sees(@, f)]
         /\ world' = [world EXCEPT ![e].late = @ \ {f}]
    /\ UNCHANGED <<hidden, hideTimer, online, radio, faults, moves>>

\* The pipe closes with frames in decryption.
ClosesBusy(e) ==
    /\ conn[e].pipe = "sealed"
    /\ Strikes("late")
    /\ \E C \in Closed(conn[e]) : conn' = [conn EXCEPT ![e] = C]
    /\ world' = [world EXCEPT ![e].mute = FALSE, ![e].late = Frames]
    /\ UNCHANGED <<hidden, hideTimer, online, radio, moves>>

\* The backoff timer.
Timer(e) ==
    /\ conn[e].timer
    /\ conn' = [conn EXCEPT ![e] = Redialed(@)]
    /\ UNCHANGED <<world, hidden, hideTimer, online, radio, faults, moves>>

\* noteQueued()
Queues(e) ==
    /\ conn' = [conn EXCEPT ![e] = Weighed([conn[e] EXCEPT !.owed = ~@])]
    /\ UNCHANGED <<world, hidden, hideTimer, online, radio, faults, moves>>

-----------------------------------------------------------------------------
(* The page, the radio, the user and the engines. *)

\* poke()
Poked(C) == IF C.st \in {"idle", "down"} THEN Redialed(C) ELSE C

Hide ==
    /\ ~hidden
    /\ Moves
    /\ hidden' = TRUE
    /\ hideTimer' = TRUE
    /\ UNCHANGED <<conn, world, online, radio, faults>>

HideStops ==
    /\ hideTimer
    /\ hideTimer' = FALSE
    /\ conn' = [e \in Engines |-> Park(conn[e])]
    /\ UNCHANGED <<world, hidden, online, radio, faults, moves>>

\* foregroundReturn(): what is down is dialed, what looks alive is asked.
Show ==
    /\ hidden
    /\ hidden' = FALSE
    /\ hideTimer' = FALSE
    /\ conn' = [e \in Engines |->
                  [Poked(conn[e]) EXCEPT !.demand =
                     @ \/ (conn[e].pipe = "sealed" /\ world[e].mute)]]
    /\ UNCHANGED <<world, online, radio, faults, moves>>

RadioOff ==
    /\ radio
    /\ Moves
    /\ radio' = FALSE
    /\ online' = FALSE
    /\ conn' = [e \in Engines |-> Park(conn[e])]
    /\ UNCHANGED <<world, hidden, hideTimer, faults>>

RadioOn ==
    /\ ~radio
    /\ radio' = TRUE
    /\ online' = TRUE
    /\ conn' = [e \in Engines |-> Poked(conn[e])]
    /\ UNCHANGED <<world, hidden, hideTimer, faults, moves>>

\* paired(): a pipe that is there is closed, else a dial goes out; one that is
\* under way swallows it.
Pairs(e) ==
    LET C == [conn[e] EXCEPT !.held = FALSE, !.kick = TRUE, !.intent = TRUE,
                             !.swallowed = @ \/ conn[e].call # "none"] IN
    /\ Moves
    /\ ~conn[e].asks \/ "crossed" \in Faults
    /\ \E D \in IF C.pipe # "none" THEN Closed(C) ELSE {Dials(C)} :
         conn' = [conn EXCEPT ![e] = D]
    /\ world' = [world EXCEPT ![e].trusts = TRUE,
                              ![e].mute = @ /\ C.pipe = "none"]
    /\ UNCHANGED <<hidden, hideTimer, online, radio, faults>>

\* trustEngine(), from the sheet: the pin goes, and a dial goes out, whether a
\* pipe is there or not.
Trusts(e) ==
    /\ conn[e].asks
    /\ Moves
    /\ conn' = [conn EXCEPT ![e] =
                  Dials([conn[e] EXCEPT !.asks = FALSE, !.held = FALSE, !.kick = TRUE,
                                        !.swallowed = @ \/ conn[e].call # "none"])]
    /\ world' = [world EXCEPT ![e].pinned = TRUE]
    /\ UNCHANGED <<hidden, hideTimer, online, radio, faults>>

\* The sheet is closed without a word: the client goes on waiting.
Cancels(e) ==
    /\ conn[e].asks
    /\ conn' = [conn EXCEPT ![e].asks = FALSE]
    /\ UNCHANGED <<world, hidden, hideTimer, online, radio, faults, moves>>

EngineChanges(e) ==
    /\ \/ /\ Strikes("down")
          /\ world' = [world EXCEPT ![e].reach = FALSE]
       \/ /\ Strikes("mute") /\ conn[e].pipe # "none"
          /\ world' = [world EXCEPT ![e].mute = TRUE]
       \/ /\ Strikes("forget")
          /\ world' = [world EXCEPT ![e].trusts = FALSE]
       \/ /\ Strikes("rebuild")
          /\ world' = [world EXCEPT ![e].trusts = FALSE, ![e].pinned = FALSE]
    /\ UNCHANGED <<conn, hidden, hideTimer, online, radio, moves>>

EngineReturns(e) ==
    /\ ~world[e].reach
    /\ world' = [world EXCEPT ![e].reach = TRUE]
    /\ UNCHANGED <<conn, hidden, hideTimer, online, radio, faults, moves>>

-----------------------------------------------------------------------------

Client(e) ==
    \/ RelayOpens(e) \/ RelayFails(e) \/ Seals(e) \/ Refused(e) \/ Impostor(e)
    \/ ShakeFails(e) \/ PipeCloses(e) \/ PresumeDead(e) \/ Frame(e) \/ LateFrame(e)
    \/ ClosesBusy(e)

Next ==
    \/ \E e \in Engines : \/ Client(e) \/ Timer(e) \/ Queues(e)
                          \/ Pairs(e) \/ Trusts(e) \/ Cancels(e)
                          \/ EngineChanges(e) \/ EngineReturns(e)
    \/ Hide \/ HideStops \/ Show \/ RadioOff \/ RadioOn

\* A dial ends one way or the other, a pipe delivers or closes, timers fire, an
\* engine that went away returns.  The user need do nothing.
Fairness ==
    /\ \A e \in Engines :
         /\ WF_vars(RelayOpens(e) \/ RelayFails(e))
         /\ WF_vars(Seals(e) \/ Refused(e) \/ Impostor(e) \/ ShakeFails(e))
         /\ WF_vars(PipeCloses(e) /\ ~world[e].reach)
         /\ WF_vars(PresumeDead(e))
         /\ WF_vars(Frame(e))
         /\ WF_vars(Timer(e))
         /\ WF_vars(EngineReturns(e))
    /\ WF_vars(HideStops)

Spec == Init /\ [][Next]_vars /\ Fairness

-----------------------------------------------------------------------------

\* The edges the rest of the app lives by tell the truth: an engine is settled
\* only on the host and sessions frames of the pipe it has now, never on those
\* of a pipe that is gone, and the last edge the subscribers heard says whether
\* it is up, however pipes close under dials and frames come late.
EdgesAreTrue ==
    \A e \in Engines :
       /\ conn[e].st \in Up => conn[e].pipe = "sealed" /\ conn[e].fresh = Frames
       /\ conn[e].told <=> conn[e].st \in Up

\* No timer is armed while the page is parked or the radio is off, and an armed
\* one belongs to an engine that is down: a dial that was under way when the
\* page was parked ends without arming one, and no status of the client leaves
\* one behind.
QuietWhenParked ==
    \A e \in Engines :
       /\ ~CanDial => ~conn[e].timer
       /\ conn[e].timer => conn[e].st = "down"

\* A visible page with the radio on gets its engine back: whatever happened
\* meanwhile, an engine that answers is dialed until it has settled or refuses
\* the client, and a client that was refused waits only for a word the user has
\* not given yet: one that came while the dial was under way is not lost with it.
Returns ==
    \A e \in Engines :
       []<>(\/ conn[e].st \in Up
            \/ hidden \/ ~radio \/ ~world[e].reach
            \/ conn[e].held /\ ~conn[e].swallowed
            \/ world[e].mute /\ ~world[e].watched)

\* Against docs/contracts/10-app-ui.md:86: the manager "pokes on visible /
\* online / intent / open-chat".
IntentDials ==
    [][\A e \in Engines :
         ~conn[e].owed /\ conn'[e].owed /\ ~conn[e].held /\ conn[e].call = "none"
           => conn'[e].st \notin {"idle", "down"}]_vars
=============================================================================
