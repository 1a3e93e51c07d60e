-------------------------- MODULE ConnectionProofs --------------------------
(***************************************************************************)
(* What holds of the connection manager for any number of engines, any     *)
(* faults and any moves of the user: the types, that its edges are true,   *)
(* and that no timer runs while dialing is stopped.  Two faults are left   *)
(* out: with either of them the edges are not true.                        *)
(***************************************************************************)
EXTENDS Connection, TLAPS

USE ConnectionAssumption

\* A frame is decrypted before the next handshake ends, and under the sheet about
\* a changed identity nobody pairs.
Orderly == "lag" \notin Faults /\ "crossed" \notin Faults

\* The record of an engine that is not settled.  tick says whether a timer may
\* be armed.
Rests(C, tick) ==
    /\ C.st \in {"idle", "dialing", "down"}
    /\ C.said # "connected"
    /\ C.told = FALSE
    /\ C.timer => tick /\ C.st = "down"

\* The record of one that has a sealed pipe: it settles on what this pipe said.
Holds(C) ==
    /\ C.st \in {"sealed", "draining", "live"}
    /\ C.said = "connected" /\ C.call = "none"
    /\ C.st = "sealed" => C.seen \subseteq C.fresh /\ C.told = FALSE
    /\ C.st # "sealed" => C.fresh = Frames /\ C.told = TRUE
    /\ C.timer = FALSE

\* A client has the raw pipe of its handshake or none, and under the sheet it
\* rests.
Coherent(C) ==
    /\ C.pipe = "raw" <=> C.call = "shake"
    /\ C.asks => C.held /\ C.pipe = "none" /\ C.call = "none"

Resting(C, tick) == C \in Conn /\ Rests(C, tick) /\ C.pipe # "sealed"
Sealed(C) == C \in Conn /\ Holds(C) /\ C.pipe = "sealed"

\* Of one engine.  Frames of the last pipe do not outlive the next handshake.
Right(C, W, tick) ==
    /\ W \in World
    /\ Coherent(C)
    /\ \/ Resting(C, tick)
       \/ Sealed(C) /\ W.late = {}

ConnectionInv ==
    /\ conn \in [Engines -> Conn]
    /\ world \in [Engines -> World]
    /\ {hidden, hideTimer, online, radio} \subseteq BOOLEAN
    /\ faults \in 0 .. MaxFaults
    /\ moves \in 0 .. MaxMoves
    /\ \A e \in Engines : Right(conn[e], world[e], CanDial)

-----------------------------------------------------------------------------
(* The manager's calls and the client's, on one record. *)

\* Whatever the pipe was, the disconnected word brings the record to rest
\* (liveness.ts, noteDown).
LEMMA DownRests ==
    ASSUME NEW C \in Conn, NEW tick \in BOOLEAN, Rests(C, tick) \/ Holds(C)
    PROVE  LET D == Says(C, "disconnected") IN
           /\ D \in Conn /\ Rests(D, tick)
           /\ D.pipe = C.pipe /\ D.call = C.call /\ D.held = C.held /\ D.asks = C.asks
<1>1. CASE C.said = "disconnected"
  BY <1>1 DEF Says, Rests, Holds
<1>2. CASE C.said # "disconnected"
  <2> DEFINE D == [C EXCEPT !.said = "disconnected"]
             F == [D EXCEPT !.st = "down", !.seen = {}, !.timer = FALSE,
                            !.told = @ /\ ~WasUp(D)]
  <2>1. Says(C, "disconnected") = F
    BY <1>2 DEF Says, NoteDown
  <2>2. D \in Conn
    BY DEF Conn
  <2>3. (D.told /\ ~WasUp(D)) = FALSE
    <3>1. C.told => WasUp(C)
      BY DEF Rests, Holds, WasUp, Up
    <3>2. D.told = C.told /\ (WasUp(D) <=> WasUp(C))
      BY DEF WasUp, Conn
    <3> QED BY <3>1, <3>2
  <2>4. F = [D EXCEPT !.st = "down", !.seen = {}, !.timer = FALSE, !.told = FALSE]
    BY <2>2, <2>3 DEF Conn
  <2>5. F \in Conn
    BY <2>3, <2>4 DEF Conn, Up
  <2>6. /\ F.st = "down" /\ F.timer = FALSE /\ F.told = FALSE
        /\ F.said = "disconnected"
        /\ F.pipe = C.pipe /\ F.call = C.call /\ F.held = C.held /\ F.asks = C.asks
    BY <2>4 DEF Conn
  <2> HIDE DEF F, D
  <2>7. Rests(F, tick)
    BY <2>6 DEF Rests
  <2> QED BY <2>1, <2>5, <2>6, <2>7
<1> QED BY <1>1, <1>2

\* schedule() arms a timer only where one may run.
LEMMA ReconnectRests ==
    ASSUME NEW C \in Conn, Rests(C, CanDial), CanDial \in BOOLEAN
    PROVE  LET D == Reconnects(C) IN
           /\ D \in Conn /\ Rests(D, CanDial)
           /\ D.pipe = C.pipe /\ D.call = C.call /\ D.held = C.held /\ D.asks = C.asks
<1>1. CASE C.held
  BY <1>1 DEF Reconnects
<1>2. CASE ~C.held
  <2> DEFINE D == [C EXCEPT !.st = IF CanDial THEN "down" ELSE "idle", !.timer = CanDial]
  <2>1. Reconnects(C) = D
    BY <1>2 DEF Reconnects, Schedule
  <2>2. D \in Conn
    BY DEF Conn
  <2>3. /\ Rests(D, CanDial)
        /\ D.pipe = C.pipe /\ D.call = C.call /\ D.held = C.held /\ D.asks = C.asks
    BY DEF Rests, Conn
  <2> QED BY <2>1, <2>2, <2>3
<1> QED BY <1>1, <1>2

\* The client's way down: the word, and a dial to follow.
LEMMA DropRests ==
    ASSUME NEW C \in Conn, Rests(C, CanDial) \/ Holds(C), CanDial \in BOOLEAN
    PROVE  LET D == Drops(C) IN
           /\ D \in Conn /\ Rests(D, CanDial)
           /\ D.pipe = C.pipe /\ D.call = C.call /\ D.held = C.held /\ D.asks = C.asks
<1> DEFINE D == Says(C, "disconnected")
<1>1. /\ D \in Conn /\ Rests(D, CanDial)
      /\ D.pipe = C.pipe /\ D.call = C.call /\ D.held = C.held /\ D.asks = C.asks
  BY DownRests
<1>2. Drops(C) = Reconnects(D)
  BY DEF Drops
<1> HIDE DEF D
<1> QED BY <1>1, <1>2, ReconnectRests

\* A dial that is over, a refused or a dead one, leaves the engine at rest.
LEMMA FailRests ==
    ASSUME NEW C \in Conn, Rests(C, CanDial) \/ Holds(C), CanDial \in BOOLEAN,
           C.asks => C.held
    PROVE  /\ Resting(Fails(C), CanDial) /\ Coherent(Fails(C))
           /\ Fails(C).pipe = "none" /\ Fails(C).call = "none"
           /\ Fails(C).asks = C.asks /\ Fails(C).held = C.held
<1> DEFINE B == [C EXCEPT !.call = "none", !.pipe = "none", !.demand = FALSE]
<1>1. B \in Conn /\ (Rests(B, CanDial) \/ Holds(B)) /\ B.pipe = "none" /\ B.call = "none"
      /\ B.asks = C.asks /\ B.held = C.held
  BY DEF Conn, Rests, Holds
<1>2. Fails(C) = Drops(B)
  BY DEF Fails
<1> HIDE DEF B
<1> QED BY <1>1, <1>2, DropRests DEF Resting, Coherent

\* So does a pipe that closes (onPipeClose).
LEMMA CloseRests ==
    ASSUME NEW C \in Conn, Rests(C, CanDial) \/ Holds(C), CanDial \in BOOLEAN, ~C.asks,
           NEW F \in Closed(C)
    PROVE  Resting(F, CanDial) /\ Coherent(F)
<1> DEFINE B == [C EXCEPT !.pipe = "none", !.demand = FALSE]
           D == Drops(B)
<1>1. B \in Conn /\ (Rests(B, CanDial) \/ Holds(B)) /\ B.pipe = "none" /\ B.call = C.call
      /\ ~B.asks
  BY DEF Conn, Rests, Holds
<1>3. D \in Conn /\ Rests(D, CanDial) /\ D.pipe = "none" /\ D.call = C.call /\ ~D.asks
  <2> HIDE DEF B
  <2> QED BY <1>1, DropRests
<1>4. Closed(C) = IF C.call = "shake" THEN {Fails(D), [D EXCEPT !.call = "dead"]} ELSE {D}
  BY DEF Closed
<1> HIDE DEF D
<1>5. CASE C.call # "shake"
  BY <1>3, <1>4, <1>5 DEF Resting, Coherent, Conn
<1>6. CASE C.call = "shake"
  <2>1. Resting(Fails(D), CanDial) /\ Coherent(Fails(D))
    BY <1>3, FailRests
  <2>2. [D EXCEPT !.call = "dead"] \in Conn
    BY <1>3 DEF Conn
  <2>3. Resting([D EXCEPT !.call = "dead"], CanDial) /\ Coherent([D EXCEPT !.call = "dead"])
    BY <1>3, <2>2 DEF Resting, Coherent, Rests, Conn
  <2> QED BY <1>4, <1>6, <2>1, <2>3
<1> QED BY <1>5, <1>6

\* A dial that goes out arms nothing (dial, noteDialing).
LEMMA DialRests ==
    ASSUME NEW C, NEW tick \in BOOLEAN, Resting(C, tick), Coherent(C), C.pipe = "none"
    PROVE  Resting(Dials(C), tick) /\ Coherent(Dials(C)) /\ Dials(C).pipe = "none"
<1>1. CASE C.held \/ C.call # "none"
  BY <1>1 DEF Dials
<1>2. CASE ~(C.held \/ C.call # "none")
  <2> DEFINE S == Says(C, "connecting")
  <2>1. S \in Conn /\ Rests(S, tick) /\ S.pipe = "none"
    <3> DEFINE D == [C EXCEPT !.said = "connecting"]
    <3>1. CASE C.said = "connecting"
      BY <3>1 DEF Says, Resting
    <3>2. CASE C.said # "connecting"
      <4>1. S = NoteDialing(D)
        BY <3>2 DEF Says
      <4>2. NoteDialing(D) = [D EXCEPT !.st = "dialing", !.timer = FALSE] \/ NoteDialing(D) = D
        BY DEF NoteDialing
      <4>3. D \in Conn /\ Rests(D, tick) /\ D.pipe = "none"
        BY DEF Resting, Rests, Conn
      <4>4. [D EXCEPT !.st = "dialing", !.timer = FALSE] \in Conn
        BY <4>3 DEF Conn
      <4>5. Rests([D EXCEPT !.st = "dialing", !.timer = FALSE], tick)
            /\ [D EXCEPT !.st = "dialing", !.timer = FALSE].pipe = "none"
        BY <4>3 DEF Rests, Conn
      <4> QED BY <4>1, <4>2, <4>3, <4>4, <4>5
    <3> QED BY <3>1, <3>2
  <2>2. Dials(C) = [S EXCEPT !.call = "relay", !.swallowed = FALSE]
    BY <1>2 DEF Dials
  <2>4. ~S.asks
    BY <1>2 DEF Resting, Coherent, Says, NoteDialing, NoteSealed, NoteDown, Conn
  <2> HIDE DEF S
  <2>3. [S EXCEPT !.call = "relay", !.swallowed = FALSE] \in Conn
    BY <2>1 DEF Conn
  <2> QED BY <2>1, <2>2, <2>3, <2>4 DEF Resting, Rests, Coherent, Conn
<1> QED BY <1>1, <1>2

\* redialNow() and poke(): the timer is gone, whether a dial went out or not.
LEMMA RedialRests ==
    ASSUME NEW C, NEW tick \in BOOLEAN, Resting(C, tick), Coherent(C)
    PROVE  Resting(Redialed(C), tick) /\ Coherent(Redialed(C))
<1> DEFINE D == [C EXCEPT !.timer = FALSE]
<1>1. D \in Conn /\ Resting(D, tick) /\ Coherent(D)
  BY DEF Resting, Rests, Coherent, Conn
<1>2. CASE D.held \/ D.pipe # "none" \/ D.call # "none"
  BY <1>1, <1>2 DEF Redialed
<1>3. CASE ~(D.held \/ D.pipe # "none" \/ D.call # "none")
  <2>1. Resting(Dials(D), tick) /\ Coherent(Dials(D)) /\ Dials(D).pipe = "none"
    BY <1>1, <1>3, DialRests
  <2>2. Redialed(C) = [Dials(D) EXCEPT !.st = "dialing"]
    BY <1>3 DEF Redialed
  <2>3. Dials(D).timer = FALSE
    BY <1>1, <1>3 DEF Dials, Says, NoteDialing, Conn
  <2> DEFINE S == Dials(D)
  <2> HIDE DEF S
  <2>4. [S EXCEPT !.st = "dialing"] \in Conn
    BY <2>1 DEF Resting, Conn, S
  <2> QED BY <2>1, <2>2, <2>3, <2>4 DEF Resting, Rests, Coherent, Conn, S
<1> QED BY <1>2, <1>3

\* park() leaves no timer.
LEMMA ParkRests ==
    ASSUME NEW C, NEW tick \in BOOLEAN, Resting(C, tick), Coherent(C)
    PROVE  Resting(Park(C), FALSE) /\ Coherent(Park(C))
<1>1. [C EXCEPT !.st = "idle", !.timer = FALSE] \in Conn
  BY DEF Resting, Conn
<1> QED BY <1>1 DEF Park, Resting, Rests, Coherent, Conn

LEMMA ParkHolds ==
    ASSUME NEW C, Sealed(C)
    PROVE  Park(C) = C /\ Poked(C) = C
  BY DEF Park, Poked, Sealed, Holds

\* What is owed does not make an engine settled (reweigh).
LEMMA WeighRight ==
    ASSUME NEW C, NEW tick \in BOOLEAN
    PROVE  /\ Resting(C, tick) => Weighed(C) = C
           /\ Sealed(C) /\ Coherent(C) => Sealed(Weighed(C)) /\ Coherent(Weighed(C))
<1>1. Resting(C, tick) => Weighed(C) = C
  BY DEF Resting, Rests, Weighed, Up
<1>2. ASSUME Sealed(C), Coherent(C) PROVE Sealed(Weighed(C)) /\ Coherent(Weighed(C))
  <2>1. \A w \in Up : [C EXCEPT !.st = w] \in Conn
    BY <1>2 DEF Sealed, Conn, Up
  <2>2. Weighed(C) = C \/ (C.st \in Up /\ \E w \in Up : Weighed(C) = [C EXCEPT !.st = w])
    BY DEF Weighed, Up
  <2> QED BY <1>2, <2>1, <2>2 DEF Sealed, Holds, Coherent, Conn, Up
<1> QED BY <1>1, <1>2

\* A frame settles an engine only when its pipe has said both (maybeSettle).
LEMMA SeesRests ==
    ASSUME NEW C, NEW tick \in BOOLEAN, Resting(C, tick), Coherent(C), NEW f \in Frames
    PROVE  Resting(Sees(C, f), tick) /\ Coherent(Sees(C, f))
<1> DEFINE D == [C EXCEPT !.seen = @ \cup {f}]
<1>1. D \in Conn
  BY DEF Resting, Conn
<1>2. D.st # "sealed" /\ Resting(D, tick) /\ Coherent(D)
  BY <1>1 DEF Resting, Rests, Coherent, Conn
<1>3. Sees(C, f) = D
  BY <1>2 DEF Sees, Settles
<1> QED BY <1>2, <1>3

LEMMA SeesHolds ==
    ASSUME NEW C, Sealed(C), Coherent(C), NEW f \in Frames \ C.fresh
    PROVE  LET D == Sees([C EXCEPT !.fresh = @ \cup {f}], f) IN Sealed(D) /\ Coherent(D)
<1> DEFINE D == [C EXCEPT !.fresh = @ \cup {f}, !.seen = @ \cup {f}]
           G == [D EXCEPT !.st = "live", !.told = TRUE]
<1>1. C.st = "sealed"
  BY DEF Sealed, Holds
<1>2. D \in Conn /\ G \in Conn
  BY DEF Sealed, Conn, Up
<1>3. D.st = "sealed" /\ Sealed(D) /\ Coherent(D) /\ Coherent(G)
  BY <1>1, <1>2 DEF Sealed, Holds, Coherent, Conn
<1>4. Sees([C EXCEPT !.fresh = @ \cup {f}], f) = Settles(D)
  BY DEF Sees, Sealed, Conn
<1>5. CASE D.seen = Frames
  <2>1. D.fresh = Frames
    BY <1>3, <1>5, <1>2 DEF Sealed, Holds, Conn
  <2>2. Sealed(G)
    BY <1>2, <1>3, <2>1 DEF Sealed, Holds, Conn
  <2>3. Settles(D) = Weighed(G)
    BY <1>3, <1>5 DEF Settles
  <2> QED BY <1>3, <1>4, <2>2, <2>3, WeighRight
<1>6. CASE D.seen # Frames
  BY <1>3, <1>4, <1>6 DEF Settles, Coherent, Sealed, Holds
<1> QED BY <1>5, <1>6

\* The sealed edge wipes what the last pipe said (noteSealed).
LEMMA SealHolds ==
    ASSUME NEW C, NEW tick \in BOOLEAN, Resting(C, tick), ~C.asks
    PROVE  LET D == Says([C EXCEPT !.call = "none", !.pipe = "sealed", !.kick = FALSE,
                                   !.intent = FALSE, !.swallowed = FALSE,
                                   !.fresh = {}], "connected")
           IN Sealed(D) /\ Coherent(D)
<1> DEFINE B == [C EXCEPT !.call = "none", !.pipe = "sealed", !.kick = FALSE,
                         !.intent = FALSE, !.swallowed = FALSE, !.fresh = {}]
           G == [B EXCEPT !.said = "connected"]
           D == [G EXCEPT !.st = "sealed", !.seen = {}, !.timer = FALSE]
<1>1. B \in Conn /\ B.said # "connected" /\ B.told = FALSE /\ B.call = "none"
      /\ B.pipe = "sealed" /\ B.fresh = {} /\ ~B.asks
  BY DEF Resting, Rests, Conn
<1>2. Says(B, "connected") = D
  BY <1>1 DEF Says, NoteSealed
<1> HIDE DEF B
<1>3. D \in Conn
  BY <1>1 DEF Conn
<1>4. Sealed(D) /\ Coherent(D)
  BY <1>1, <1>3 DEF Sealed, Holds, Coherent, Conn
<1> QED BY <1>2, <1>4 DEF B

-----------------------------------------------------------------------------
(* The invariant. *)

LEMMA ConnectionInit == Init => ConnectionInv
<1> SUFFICES ASSUME Init PROVE ConnectionInv
  OBVIOUS
<1>1. ASSUME NEW e \in Engines
      PROVE  /\ conn[e] \in Conn /\ world[e] \in World
             /\ Right(conn[e], world[e], CanDial)
  <2>1. conn[e] \in Conn /\ world[e] \in World
    BY DEF Init, Conn, World
  <2>2. Resting(conn[e], CanDial) /\ Coherent(conn[e])
    BY <2>1 DEF Init, Resting, Rests, Coherent
  <2> QED BY <2>1, <2>2 DEF Right
<1>2. conn \in [Engines -> Conn] /\ world \in [Engines -> World]
  BY <1>1 DEF Init
<1>3. /\ {hidden, hideTimer, online, radio} \subseteq BOOLEAN
      /\ faults \in 0 .. MaxFaults /\ moves \in 0 .. MaxMoves
  <2>1. faults = 0 /\ moves = 0 /\ MaxFaults \in Nat /\ MaxMoves \in Nat
    BY DEF Init
  <2>2. faults \in 0 .. MaxFaults /\ moves \in 0 .. MaxMoves
    BY <2>1
  <2>3. {hidden, hideTimer, online, radio} \subseteq BOOLEAN
    BY DEF Init
  <2> QED BY <2>2, <2>3
<1> QED BY <1>1, <1>2, <1>3 DEF ConnectionInv

\* A step that changes one engine's record, and its world, keeps the invariant
\* if it keeps that engine right.
LEMMA OneEngine ==
    ASSUME ConnectionInv, NEW e \in Engines, NEW C, NEW W,
           C \in Conn, Right(C, W, CanDial),
           conn' = [conn EXCEPT ![e] = C], world' = [world EXCEPT ![e] = W],
           hidden' = hidden, hideTimer' = hideTimer, radio' = radio,
           online' = online, faults' \in 0 .. MaxFaults, moves' \in 0 .. MaxMoves
    PROVE  ConnectionInv'
<1>1. CanDial' = CanDial
  BY DEF CanDial
<1>2. W \in World
  BY DEF Right
<1>3. conn' \in [Engines -> Conn] /\ world' \in [Engines -> World]
  BY <1>2 DEF ConnectionInv
<1>4. ASSUME NEW x \in Engines PROVE Right(conn'[x], world'[x], CanDial')
  <2>1. CASE x = e
    BY <1>1, <2>1 DEF ConnectionInv
  <2>2. CASE x # e
    BY <1>1, <2>2 DEF ConnectionInv
  <2> QED BY <2>1, <2>2
<1> QED BY <1>3, <1>4 DEF ConnectionInv

\* Where a timer may run it may go on running.
LEMMA RightWeaker ==
    ASSUME NEW C, NEW W, NEW s, NEW t, s => t, Right(C, W, s)
    PROVE  Right(C, W, t)
  BY DEF Right, Resting, Rests

\* A pipe that opens, fails, closes, or is presumed dead.
LEMMA PipeSteps ==
    ASSUME ConnectionInv, NEW e \in Engines,
           \/ RelayOpens(e) \/ RelayFails(e) \/ Refused(e) \/ Impostor(e) \/ ShakeFails(e)
           \/ PipeCloses(e) \/ PresumeDead(e) \/ ClosesBusy(e)
    PROVE  ConnectionInv'
<1> DEFINE C == conn[e]
           W == world[e]
<1>1. C \in Conn /\ W \in World /\ Right(C, W, CanDial) /\ CanDial \in BOOLEAN
  BY DEF ConnectionInv, CanDial
<1>2. world = [world EXCEPT ![e] = W]
  BY DEF ConnectionInv
<1>3. faults' \in 0 .. MaxFaults /\ moves' \in 0 .. MaxMoves
  BY DEF ConnectionInv, RelayOpens, RelayFails, Refused, Impostor, ShakeFails, PipeCloses,
         PresumeDead, ClosesBusy, Strikes
<1>4. Rests(C, CanDial) \/ Holds(C)
  BY <1>1 DEF Right, Resting, Sealed
<1>0. Coherent(C)
  BY <1>1 DEF Right
<1>5. \A D \in {[W EXCEPT !.mute = FALSE], [W EXCEPT !.mute = FALSE, !.late = Frames],
               [W EXCEPT !.pinned = TRUE]} :
         D \in World
  BY <1>1 DEF World
<1>6. \A D, V : Resting(D, CanDial) /\ Coherent(D) /\ V \in World
                  => D \in Conn /\ Right(D, V, CanDial)
  BY DEF Right, Resting
<1>7. CASE RelayOpens(e)
  <2> DEFINE D == [C EXCEPT !.call = "shake", !.pipe = "raw"]
  <2>1. Resting(C, CanDial)
    BY <1>1, <1>7 DEF RelayOpens, Right, Sealed, Holds
  <2>2. D \in Conn
    BY <1>1 DEF Conn
  <2>3. Resting(D, CanDial) /\ Coherent(D)
    BY <1>0, <1>7, <2>1, <2>2 DEF RelayOpens, Resting, Rests, Coherent, Conn
  <2>4. conn' = [conn EXCEPT ![e] = D]
    BY <1>7 DEF RelayOpens, ConnectionInv
  <2> HIDE DEF D, C, W
  <2> QED BY <1>1, <1>2, <1>3, <1>6, <1>7, <2>3, <2>4, OneEngine DEF RelayOpens
<1>8. CASE RelayFails(e)
  <2> DEFINE B == [C EXCEPT !.call = "none"]
  <2>1. /\ B \in Conn /\ (Rests(B, CanDial) \/ Holds(B))
        /\ B.call = "none" /\ B.pipe = "none" /\ ~B.asks
    BY <1>0, <1>1, <1>4, <1>8 DEF RelayFails, Right, Resting, Sealed, Rests, Holds, Coherent, Conn
  <2>2. conn' = [conn EXCEPT ![e] = Drops(B)]
    BY <1>8 DEF RelayFails
  <2> HIDE DEF B
  <2>3. Resting(Drops(B), CanDial) /\ Coherent(Drops(B))
    BY <1>1, <2>1, DropRests DEF Resting, Coherent
  <2> QED BY <1>1, <1>2, <1>3, <1>6, <1>8, <2>2, <2>3, OneEngine DEF RelayFails
<1>9. ASSUME NEW D, D = Waits(C), C.call = "shake"
      PROVE  /\ Resting(Fails(D), CanDial) /\ Coherent(Fails(D))
             /\ Fails(D).pipe = "none" /\ Fails(D).call = "none"
             /\ Fails(D).asks = FALSE /\ Fails(D).held = ~C.kick
  <2>1. D \in Conn /\ ~D.asks /\ D.held = ~C.kick
    BY <1>0, <1>1, <1>9 DEF Waits, Conn, Coherent
  <2>2. Rests(D, CanDial) \/ Holds(D)
    BY <1>1, <1>4, <1>9, <2>1 DEF Waits, Rests, Holds, Conn
  <2>3. D.asks = FALSE
    BY <2>1 DEF Conn
  <2> QED BY <1>1, <2>1, <2>2, <2>3, FailRests
<1>14. CASE Refused(e)
  <2>1. conn' = [conn EXCEPT ![e] = Fails(Waits(C))] /\ C.call = "shake"
    BY <1>14 DEF Refused, Answers
  <2>2. world' = [world EXCEPT ![e] = [W EXCEPT !.pinned = TRUE]]
    BY <1>14 DEF Refused
  <2> QED BY <1>3, <1>5, <1>6, <1>9, <1>14, <2>1, <2>2, OneEngine DEF Refused
<1>15. CASE Impostor(e)
  <2> DEFINE F == Fails(Waits(C))
             asked == F.asks \/ ~C.kick
             D == [F EXCEPT !.asks = asked]
  <2>1. conn' = [conn EXCEPT ![e] = D] /\ C.call = "shake"
    BY <1>15 DEF Impostor, Answers
  <2>2. /\ Resting(F, CanDial) /\ Coherent(F)
        /\ F.pipe = "none" /\ F.call = "none" /\ F.held = ~C.kick
        /\ F.asks = FALSE
    BY <1>9, <2>1
  <2>5. asked = ~C.kick
    BY <2>2
  <2> HIDE DEF F, asked
  <2>3. D \in Conn
    BY <1>1, <2>2, <2>5 DEF Resting, Conn
  <2>4. Resting(D, CanDial) /\ Coherent(D)
    BY <2>2, <2>3, <2>5 DEF Resting, Rests, Coherent, Conn
  <2> HIDE DEF D, C, W
  <2> QED BY <1>1, <1>2, <1>3, <1>6, <1>15, <2>1, <2>4, OneEngine DEF Impostor
<1>10. CASE ShakeFails(e)
  <2>1. Resting(Fails(C), CanDial) /\ Coherent(Fails(C))
    BY <1>0, <1>1, <1>4, FailRests DEF Coherent
  <2>2. world' = [world EXCEPT ![e] = [W EXCEPT !.mute = FALSE]]
    BY <1>10 DEF ShakeFails
  <2> QED BY <1>3, <1>5, <1>6, <1>10, <2>1, <2>2, OneEngine DEF ShakeFails
<1>11. CASE PipeCloses(e)
  <2>1. PICK D \in Closed(C) : conn' = [conn EXCEPT ![e] = D]
    BY <1>11 DEF PipeCloses
  <2>2. Resting(D, CanDial) /\ Coherent(D)
    BY <1>0, <1>1, <1>4, <1>11, <2>1, CloseRests DEF PipeCloses, Coherent
  <2>3. world' = [world EXCEPT ![e] = [W EXCEPT !.mute = FALSE]]
    BY <1>11 DEF PipeCloses
  <2> QED BY <1>3, <1>5, <1>6, <1>11, <2>1, <2>2, <2>3, OneEngine DEF PipeCloses
<1>12. CASE PresumeDead(e)
  <2> DEFINE B == [C EXCEPT !.pipe = "none", !.demand = FALSE]
  <2>1. /\ B \in Conn /\ (Rests(B, CanDial) \/ Holds(B))
        /\ B.call = "none" /\ B.pipe = "none" /\ ~B.asks
    BY <1>0, <1>1, <1>4, <1>12 DEF PresumeDead, Right, Resting, Sealed, Rests, Holds, Coherent, Conn
  <2>2. world' = [world EXCEPT ![e] = [W EXCEPT !.mute = FALSE]]
    BY <1>12 DEF PresumeDead
  <2>3. conn' = [conn EXCEPT ![e] = Drops(B)]
    BY <1>12 DEF PresumeDead
  <2> HIDE DEF B
  <2>4. Resting(Drops(B), CanDial) /\ Coherent(Drops(B))
    BY <1>1, <2>1, DropRests DEF Resting, Coherent
  <2> QED BY <1>3, <1>5, <1>6, <1>12, <2>2, <2>3, <2>4, OneEngine DEF PresumeDead
<1>13. CASE ClosesBusy(e)
  <2>1. PICK D \in Closed(C) : conn' = [conn EXCEPT ![e] = D]
    BY <1>13 DEF ClosesBusy
  <2>2. Resting(D, CanDial) /\ Coherent(D)
    BY <1>0, <1>1, <1>4, <1>13, <2>1, CloseRests DEF ClosesBusy, Coherent
  <2>3. world' = [world EXCEPT ![e] = [W EXCEPT !.mute = FALSE, !.late = Frames]]
    BY <1>13 DEF ClosesBusy, ConnectionInv
  <2> QED BY <1>3, <1>5, <1>6, <1>13, <2>1, <2>2, <2>3, OneEngine DEF ClosesBusy
<1> QED BY <1>7, <1>8, <1>10, <1>11, <1>12, <1>13, <1>14, <1>15

\* A pipe that is sealed settles on its own frames.
LEMMA SealSteps ==
    ASSUME Orderly, ConnectionInv, NEW e \in Engines, Seals(e)
    PROVE  ConnectionInv'
<1> DEFINE C == conn[e]
           W == [world[e] EXCEPT !.late = {}, !.pinned = TRUE]
           D == Says([C EXCEPT !.call = "none", !.pipe = "sealed", !.kick = FALSE,
                               !.intent = FALSE, !.swallowed = FALSE, !.fresh = {}], "connected")
<1>1. Right(C, world[e], CanDial) /\ W \in World
  BY DEF ConnectionInv, World
<1>2. Resting(C, CanDial) /\ ~C.asks
  BY <1>1 DEF Seals, Answers, Right, Sealed, Holds, Coherent
<1>3. Sealed(D) /\ Coherent(D)
  BY <1>2, SealHolds DEF CanDial
<1>4. W.late = {}
  BY DEF ConnectionInv, World
<1>5. conn' = [conn EXCEPT ![e] = D] /\ world' = [world EXCEPT ![e] = W]
  BY DEF Seals, Orderly
<1>6. D \in Conn
  BY <1>3 DEF Sealed
<1> HIDE DEF D, W
<1>7. Right(D, W, CanDial')
  BY <1>1, <1>3, <1>4 DEF Right
<1>8. CanDial => CanDial'
  BY DEF Seals, CanDial
<1>9. ASSUME NEW x \in Engines PROVE Right(conn'[x], world'[x], CanDial')
  <2>1. CASE x = e
    BY <1>5, <1>7, <2>1 DEF ConnectionInv
  <2>2. CASE x # e
    BY <1>5, <1>8, <2>2, RightWeaker DEF ConnectionInv
  <2> QED BY <2>1, <2>2
<1>10. conn' \in [Engines -> Conn] /\ world' \in [Engines -> World]
  BY <1>1, <1>5, <1>6 DEF ConnectionInv
<1> QED BY <1>9, <1>10 DEF ConnectionInv, Seals

LEMMA FrameSteps ==
    ASSUME ConnectionInv, NEW e \in Engines, Frame(e) \/ LateFrame(e) \/ Queues(e) \/ Timer(e)
    PROVE  ConnectionInv'
<1> DEFINE C == conn[e]
           W == world[e]
<1>1. C \in Conn /\ W \in World /\ Right(C, W, CanDial) /\ CanDial \in BOOLEAN
  BY DEF ConnectionInv, CanDial
<1>2. world = [world EXCEPT ![e] = W]
  BY DEF ConnectionInv
<1>3. faults' \in 0 .. MaxFaults /\ moves' \in 0 .. MaxMoves
  BY DEF ConnectionInv, Frame, LateFrame, Queues, Timer
<1>4. CASE Frame(e)
  <2>1. PICK f \in Frames \ C.fresh :
          conn' = [conn EXCEPT ![e] = Sees([C EXCEPT !.fresh = @ \cup {f}], f)]
    BY <1>4 DEF Frame
  <2> DEFINE D == Sees([C EXCEPT !.fresh = @ \cup {f}], f)
  <2>2. Sealed(C) /\ W.late = {}
    BY <1>1, <1>4 DEF Frame, Right, Resting
  <2>3. Sealed(D) /\ Coherent(D)
    BY <1>1, <2>2, SeesHolds DEF Right
  <2>4. D \in Conn /\ Right(D, W, CanDial)
    BY <1>1, <2>2, <2>3 DEF Right, Sealed
  <2> HIDE DEF D
  <2> QED BY <1>2, <1>3, <1>4, <2>1, <2>4, OneEngine DEF Frame, D
<1>5. CASE LateFrame(e)
  <2>1. PICK f \in W.late : /\ conn' = [conn EXCEPT ![e] = Sees(@, f)]
                             /\ world' = [world EXCEPT ![e].late = @ \ {f}]
    BY <1>5 DEF LateFrame
  <2> DEFINE D == Sees(C, f)
             V == [W EXCEPT !.late = @ \ {f}]
  <2>2. V \in World /\ f \in Frames
    BY <1>1 DEF World
  <2>3. Resting(C, CanDial) /\ Coherent(C)
    BY <1>1 DEF Right
  <2>4. Resting(D, CanDial) /\ Coherent(D)
    BY <1>1, <2>2, <2>3, SeesRests
  <2>5. D \in Conn /\ Right(D, V, CanDial)
    BY <2>2, <2>4 DEF Right, Resting
  <2>6. conn' = [conn EXCEPT ![e] = D] /\ world' = [world EXCEPT ![e] = V]
    BY <2>1
  <2> HIDE DEF D, V
  <2> QED BY <1>3, <1>5, <2>5, <2>6, OneEngine DEF LateFrame
<1>6. CASE Queues(e)
  <2> DEFINE B == [C EXCEPT !.owed = ~@]
             D == Weighed(B)
  <2>1. B \in Conn
    BY <1>1 DEF Conn
  <2>2. Right(B, W, CanDial)
    BY <1>1, <2>1 DEF Right, Coherent, Resting, Rests, Sealed, Holds, Conn
  <2>3. D \in Conn /\ Right(D, W, CanDial)
    <3> HIDE DEF B
    <3>1. CASE Resting(B, CanDial)
      BY <1>1, <2>1, <2>2, <3>1, WeighRight
    <3>2. CASE Sealed(B) /\ W.late = {}
      BY <1>1, <2>2, <3>2, WeighRight DEF Right, Sealed
    <3> QED BY <2>2, <3>1, <3>2 DEF Right
  <2>4. conn' = [conn EXCEPT ![e] = D]
    BY <1>6 DEF Queues
  <2> HIDE DEF D, B
  <2> QED BY <1>2, <1>3, <1>6, <2>3, <2>4, OneEngine DEF Queues
<1>7. CASE Timer(e)
  <2>1. Resting(C, CanDial) /\ Coherent(C)
    BY <1>1, <1>7 DEF Timer, Right, Sealed, Holds
  <2>2. Resting(Redialed(C), CanDial) /\ Coherent(Redialed(C))
    BY <1>1, <2>1, RedialRests
  <2>3. Redialed(C) \in Conn /\ Right(Redialed(C), W, CanDial)
    BY <1>1, <2>2 DEF Right, Resting
  <2> QED BY <1>2, <1>3, <1>7, <2>3, OneEngine DEF Timer
<1> QED BY <1>4, <1>5, <1>6, <1>7

\* What the user, the page and the engines do.
LEMMA WorldSteps ==
    ASSUME Orderly, ConnectionInv, NEW e \in Engines,
           Pairs(e) \/ Trusts(e) \/ Cancels(e) \/ EngineChanges(e) \/ EngineReturns(e)
    PROVE  ConnectionInv'
<1> DEFINE C == conn[e]
           W == world[e]
<1>1. C \in Conn /\ W \in World /\ Right(C, W, CanDial) /\ CanDial \in BOOLEAN
  BY DEF ConnectionInv, CanDial
<1>2. conn = [conn EXCEPT ![e] = C]
  BY DEF ConnectionInv
<1>3. faults' \in 0 .. MaxFaults /\ moves' \in 0 .. MaxMoves
  BY DEF ConnectionInv, Pairs, Trusts, Cancels, EngineChanges, EngineReturns, Strikes, Moves
<1>4. CASE Pairs(e)
  <2> DEFINE B == [C EXCEPT !.held = FALSE, !.kick = TRUE, !.intent = TRUE,
                            !.swallowed = @ \/ C.call # "none"]
             V == [W EXCEPT !.trusts = TRUE, !.mute = @ /\ B.pipe = "none"]
  <2>0. ~C.asks
    BY <1>4 DEF Pairs, Orderly
  <2>a. B \in Conn /\ B.asks = C.asks
    <3>1. (C.swallowed \/ C.call # "none") \in BOOLEAN
      OBVIOUS
    <3> QED BY <1>1, <3>1 DEF Conn
  <2>1. B \in Conn /\ Right(B, W, CanDial) /\ ~B.asks
    BY <1>1, <2>0, <2>a DEF Right, Coherent, Resting, Rests, Sealed, Holds, Conn
  <2>2. PICK D \in IF B.pipe # "none" THEN Closed(B) ELSE {Dials(B)} :
          conn' = [conn EXCEPT ![e] = D]
    BY <1>4 DEF Pairs
  <2>3. world' = [world EXCEPT ![e] = V]
    BY <1>4 DEF Pairs, ConnectionInv
  <2>4. V \in World
    <3>1. (W.mute /\ B.pipe = "none") \in BOOLEAN
      OBVIOUS
    <3> QED BY <1>1, <3>1 DEF World
  <2> HIDE DEF B, V
  <2>5. Resting(D, CanDial) /\ Coherent(D)
    <3>1. Rests(B, CanDial) \/ Holds(B)
      BY <2>1 DEF Right, Resting, Sealed
    <3>2. CASE B.pipe # "none"
      BY <1>1, <2>1, <2>2, <3>1, <3>2, CloseRests
    <3>3. CASE B.pipe = "none"
      <4>1. Resting(B, CanDial) /\ Coherent(B)
        BY <2>1, <3>3 DEF Right, Sealed
      <4> QED BY <1>1, <2>2, <3>3, <4>1, DialRests
    <3> QED BY <3>2, <3>3
  <2>6. D \in Conn /\ Right(D, V, CanDial)
    BY <2>4, <2>5 DEF Right, Resting
  <2> QED BY <1>3, <1>4, <2>2, <2>3, <2>6, OneEngine DEF Pairs
<1>8. CASE Trusts(e)
  <2> DEFINE B == [C EXCEPT !.asks = FALSE, !.held = FALSE, !.kick = TRUE,
                            !.swallowed = @ \/ C.call # "none"]
             V == [W EXCEPT !.pinned = TRUE]
  <2>1. C.asks /\ C.pipe = "none" /\ Resting(C, CanDial)
    BY <1>1, <1>8 DEF Trusts, Right, Coherent, Sealed
  <2>2. B \in Conn
    <3>1. (C.swallowed \/ C.call # "none") \in BOOLEAN
      OBVIOUS
    <3> QED BY <1>1, <3>1 DEF Conn
  <2>3. Resting(B, CanDial) /\ Coherent(B) /\ B.pipe = "none"
    BY <1>1, <2>1, <2>2 DEF Right, Resting, Rests, Coherent, Conn
  <2>4. conn' = [conn EXCEPT ![e] = Dials(B)]
    BY <1>8 DEF Trusts
  <2>8. world' = [world EXCEPT ![e] = V]
    BY <1>8 DEF Trusts
  <2>5. V \in World
    BY <1>1 DEF World
  <2> HIDE DEF B, V
  <2>6. Resting(Dials(B), CanDial) /\ Coherent(Dials(B))
    BY <1>1, <2>3, DialRests
  <2>7. Dials(B) \in Conn /\ Right(Dials(B), V, CanDial)
    BY <2>5, <2>6 DEF Right, Resting
  <2> QED BY <1>3, <1>8, <2>4, <2>7, <2>8, OneEngine DEF Trusts
<1>9. CASE Cancels(e)
  <2> DEFINE B == [C EXCEPT !.asks = FALSE]
  <2>1. B \in Conn
    BY <1>1 DEF Conn
  <2>2. Right(B, W, CanDial)
    BY <1>1, <2>1 DEF Right, Coherent, Resting, Rests, Sealed, Holds, Conn
  <2>3. conn' = [conn EXCEPT ![e] = B]
    BY <1>9 DEF Cancels
  <2>4. world' = [world EXCEPT ![e] = W]
    BY <1>9 DEF Cancels, ConnectionInv
  <2> HIDE DEF B
  <2> QED BY <1>3, <1>9, <2>1, <2>2, <2>3, <2>4, OneEngine DEF Cancels
<1>5. ASSUME NEW V \in World, V.late = W.late, world' = [world EXCEPT ![e] = V],
             UNCHANGED <<conn, hidden, hideTimer, online, radio>>
      PROVE  ConnectionInv'
  <2>1. Right(C, V, CanDial)
    BY <1>1, <1>5 DEF Right
  <2> HIDE DEF C
  <2> QED BY <1>1, <1>2, <1>3, <1>5, <2>1, OneEngine
<1>6. CASE EngineChanges(e)
  <2>1. \A V \in {[W EXCEPT !.reach = FALSE], [W EXCEPT !.mute = TRUE],
                  [W EXCEPT !.trusts = FALSE],
                  [W EXCEPT !.trusts = FALSE, !.pinned = FALSE]} : V \in World /\ V.late = W.late
    BY <1>1 DEF World
  <2> QED BY <1>5, <1>6, <2>1 DEF EngineChanges
<1>7. CASE EngineReturns(e)
  <2>1. [W EXCEPT !.reach = TRUE] \in World /\ [W EXCEPT !.reach = TRUE].late = W.late
    BY <1>1 DEF World
  <2> QED BY <1>5, <1>7, <2>1 DEF EngineReturns
<1> QED BY <1>4, <1>6, <1>7, <1>8, <1>9

\* The page parks every engine, or wakes every one.
LEMMA PageSteps ==
    ASSUME ConnectionInv, Hide \/ HideStops \/ Show \/ RadioOff \/ RadioOn
    PROVE  ConnectionInv'
<1> USE ConnectionAssumption
<1>0. /\ {hidden', hideTimer', online', radio'} \subseteq BOOLEAN
      /\ faults' = faults /\ world' = world
  BY DEF ConnectionInv, Hide, HideStops, Show, RadioOff, RadioOn
<1>m. moves' \in 0 .. MaxMoves
  <2>1. moves \in 0 .. MaxMoves
    BY DEF ConnectionInv
  <2>2. moves' = moves \/ (moves < MaxMoves /\ moves' = moves + 1)
    BY DEF Hide, HideStops, Show, RadioOff, RadioOn, Moves
  <2> QED BY <2>1, <2>2
<1>1. /\ {hidden', hideTimer', online', radio'} \subseteq BOOLEAN
      /\ faults' \in 0 .. MaxFaults /\ moves' \in 0 .. MaxMoves
      /\ world' = world
  BY <1>0, <1>m DEF ConnectionInv
<1>2. CanDial \in BOOLEAN /\ CanDial' \in BOOLEAN
  BY DEF CanDial
<1>3. \A e \in Engines : conn[e] \in Conn /\ Right(conn[e], world[e], CanDial)
  BY DEF ConnectionInv
<1>4. \A e \in Engines :
        /\ Park(conn[e]) \in Conn
        /\ Right(Park(conn[e]), world[e], CanDial')
  <2> TAKE e \in Engines
  <2>1. CASE Resting(conn[e], CanDial)
    <3>1. Resting(Park(conn[e]), FALSE) /\ Coherent(Park(conn[e]))
      BY <1>2, <1>3, <2>1, ParkRests DEF Right
    <3> QED BY <1>3, <3>1 DEF Right, Resting, Rests
  <2>2. CASE Sealed(conn[e]) /\ world[e].late = {}
    BY <1>3, <2>2, ParkHolds DEF Right
  <2> QED BY <1>3, <2>1, <2>2 DEF Right
<1>5. \A e \in Engines :
        /\ Poked(conn[e]) \in Conn
        /\ Right(Poked(conn[e]), world[e], CanDial)
  <2> TAKE e \in Engines
  <2>1. CASE Resting(conn[e], CanDial)
    <3>1. Resting(Redialed(conn[e]), CanDial) /\ Coherent(Redialed(conn[e]))
      BY <1>2, <1>3, <2>1, RedialRests DEF Right
    <3> QED BY <1>3, <3>1 DEF Poked, Right, Resting
  <2>2. CASE Sealed(conn[e]) /\ world[e].late = {}
    BY <1>3, <2>2, ParkHolds DEF Right
  <2> QED BY <1>3, <2>1, <2>2 DEF Right
<1>6. CASE Hide
  <2>1. CanDial => CanDial'
    BY <1>6 DEF Hide, CanDial
  <2>2. \A e \in Engines : Right(conn[e], world[e], CanDial')
    BY <1>3, <2>1, RightWeaker
  <2> QED BY <1>1, <1>6, <2>2 DEF Hide, ConnectionInv
<1>7. CASE HideStops \/ RadioOff
  <2>1. conn' = [e \in Engines |-> Park(conn[e])]
    BY <1>7 DEF HideStops, RadioOff
  <2> QED BY <1>1, <1>4, <2>1 DEF ConnectionInv
<1>8. CASE RadioOn
  <2>1. conn' = [e \in Engines |-> Poked(conn[e])] /\ (CanDial => CanDial')
    BY <1>8 DEF RadioOn, CanDial
  <2>2. \A e \in Engines : Right(Poked(conn[e]), world[e], CanDial')
    BY <1>5, <2>1, RightWeaker
  <2> QED BY <1>1, <1>5, <2>1, <2>2 DEF ConnectionInv
<1>9. CASE Show
  <2>1. CanDial => CanDial'
    BY <1>9 DEF Show, CanDial
  <2>2. ASSUME NEW e \in Engines
        PROVE  conn'[e] \in Conn /\ Right(conn'[e], world[e], CanDial')
    <3> DEFINE P == Poked(conn[e])
               asked == P.demand \/ (conn[e].pipe = "sealed" /\ world[e].mute)
    <3>1. P \in Conn /\ Right(P, world[e], CanDial')
      BY <1>5, <2>1, RightWeaker
    <3>2. conn'[e] = [P EXCEPT !.demand = asked]
      BY <1>9 DEF Show
    <3>3. asked \in BOOLEAN
      BY <3>1 DEF Conn
    <3> HIDE DEF P, asked
    <3>4. [P EXCEPT !.demand = asked] \in Conn
      BY <3>1, <3>3 DEF Conn
    <3>5. Right([P EXCEPT !.demand = asked], world[e], CanDial')
      BY <3>1, <3>4 DEF Right, Coherent, Resting, Rests, Sealed, Holds, Conn
    <3> QED BY <3>2, <3>4, <3>5
  <2>3. conn' \in [Engines -> Conn]
    BY <2>2, <1>9 DEF Show
  <2> QED BY <1>1, <2>2, <2>3 DEF ConnectionInv
<1> QED BY <1>6, <1>7, <1>8, <1>9

LEMMA ConnectionStep == Orderly /\ ConnectionInv /\ [Next]_vars => ConnectionInv'
<1> SUFFICES ASSUME Orderly, ConnectionInv, [Next]_vars PROVE ConnectionInv'
  OBVIOUS
<1>1. CASE UNCHANGED vars
  BY <1>1 DEF vars, ConnectionInv, CanDial
<1>2. ASSUME NEW e \in Engines,
             \/ Client(e) \/ Timer(e) \/ Queues(e) \/ Pairs(e) \/ Trusts(e) \/ Cancels(e)
             \/ EngineChanges(e) \/ EngineReturns(e)
      PROVE  ConnectionInv'
  BY <1>2, PipeSteps, SealSteps, FrameSteps, WorldSteps DEF Client
<1>3. CASE Hide \/ HideStops \/ Show \/ RadioOff \/ RadioOn
  BY <1>3, PageSteps
<1> QED BY <1>1, <1>2, <1>3 DEF Next

LEMMA ConnectionAlways == Orderly => (Spec => []ConnectionInv)
<1> SUFFICES ASSUME Orderly PROVE Spec => []ConnectionInv
  OBVIOUS
<1>1. Init => ConnectionInv
  BY ConnectionInit
<1>2. ConnectionInv /\ [Next]_vars => ConnectionInv'
  BY ConnectionStep
<1> QED BY <1>1, <1>2, PTL DEF Spec

\* For any engines, orderly faults and moves the variables hold what they should, and a
\* client has one pipe at most (client.ts: pipe, dialing).
THEOREM ConnectionTypes == Orderly => (Spec => []TypeOK)
<1> SUFFICES ASSUME Orderly PROVE Spec => []TypeOK
  OBVIOUS
<1>1. ConnectionInv => TypeOK
  BY DEF ConnectionInv, TypeOK, Right, Coherent, Resting, Rests, Sealed, Holds
<1> QED BY <1>1, ConnectionAlways, PTL

\* The connected edge stands exactly while the engine is settled, and it has
\* settled on both frames of the pipe it has (connection.ts: maybeSettle,
\* noteDown).
THEOREM EdgesTrue == Orderly => (Spec => []EdgesAreTrue)
<1> SUFFICES ASSUME Orderly PROVE Spec => []EdgesAreTrue
  OBVIOUS
<1>1. ASSUME ConnectionInv, NEW e \in Engines
      PROVE  /\ conn[e].st \in Up => conn[e].pipe = "sealed" /\ conn[e].fresh = Frames
             /\ conn[e].told <=> conn[e].st \in Up
  <2>1. conn[e] \in Conn /\ Right(conn[e], world[e], CanDial)
    BY <1>1 DEF ConnectionInv
  <2>2. CASE Resting(conn[e], CanDial)
    <3>1. conn[e].told = FALSE /\ conn[e].st \notin Up
      BY <2>1, <2>2 DEF Resting, Rests, Up, Conn
    <3> QED BY <3>1
  <2>3. CASE Sealed(conn[e])
    <3>1. /\ conn[e].st \in Up => conn[e].pipe = "sealed" /\ conn[e].fresh = Frames
          /\ conn[e].st \in Up => conn[e].told = TRUE
          /\ conn[e].st \notin Up => conn[e].told = FALSE
      BY <2>1, <2>3 DEF Sealed, Holds, Up, Conn
    <3> QED BY <3>1
  <2> QED BY <2>1, <2>2, <2>3 DEF Right
<1>2. ConnectionInv => EdgesAreTrue
  BY <1>1 DEF EdgesAreTrue
<1> QED BY <1>2, ConnectionAlways, PTL

\* No timer is armed while the page is parked or the radio is off
\* (connection.ts: canDial, schedule, park).
THEOREM Quiet == Orderly => (Spec => []QuietWhenParked)
<1> SUFFICES ASSUME Orderly PROVE Spec => []QuietWhenParked
  OBVIOUS
<1>1. ConnectionInv => QuietWhenParked
  BY DEF ConnectionInv, QuietWhenParked, Right, Resting, Rests, Sealed, Holds
<1> QED BY <1>1, ConnectionAlways, PTL
=============================================================================
