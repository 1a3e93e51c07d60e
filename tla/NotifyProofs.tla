---------------------------- MODULE NotifyProofs ----------------------------
(***************************************************************************)
(* What holds of the notices for every set of pages, any number of replies *)
(* and all that may go wrong at once: the types, and that the flag by      *)
(* which the engine remembers its banner agrees with the phone.            *)
(***************************************************************************)
EXTENDS Notify, TLAPS

USE NotifyAssumption, PresenceAssumption

-----------------------------------------------------------------------------
(* Presence. *)

Socks == {k \in [Clients -> Sock] : \A c \in Clients : ~k[c].up => k[c] = Gone}

(* Whatever the sockets are, what onPresenceChange leaves of the grace and *)
(* its timer is well typed: a grace that runs is timed.                    *)
LEMMA VerdictTypes ==
    ASSUME NEW k, NEW over, NEW v \in Verdicts(k, over)
    PROVE  /\ v.away \in BOOLEAN
           /\ v.timer \in {"none", "deadline"} \cup Clients
           /\ v.away => v.timer # "none"
           /\ v.timer = "deadline" => v.away
<1>1. Young(k) \subseteq Clients
  BY DEF Young
<1>2. \/ v = [away |-> FALSE, timer |-> "none", flush |-> FALSE]
      \/ \E c \in Young(k) : v = [away |-> FALSE, timer |-> c, flush |-> FALSE]
      \/ v = [away |-> FALSE, timer |-> "none", flush |-> TRUE]
      \/ \E t \in {"deadline"} \cup Young(k) :
            v = [away |-> TRUE, timer |-> t, flush |-> FALSE]
  BY DEF Verdicts
<1>3. \A c \in Young(k) : c # "none" /\ c # "deadline" /\ c \in Clients
  BY <1>1 DEF PresenceAssumption
<1>4. CASE \E c \in Young(k) : v = [away |-> FALSE, timer |-> c, flush |-> FALSE]
  BY <1>3, <1>4
<1>5. CASE \E t \in {"deadline"} \cup Young(k) :
              v = [away |-> TRUE, timer |-> t, flush |-> FALSE]
  BY <1>3, <1>5
<1>6. CASE v = [away |-> FALSE, timer |-> "none", flush |-> FALSE]
  BY <1>6
<1>7. CASE v = [away |-> FALSE, timer |-> "none", flush |-> TRUE]
  BY <1>7
<1> QED BY <1>2, <1>4, <1>5, <1>6, <1>7

(* What the engine may make of a socket is a socket.                       *)
LEMMA SockTypes ==
    ASSUME sock \in Socks, NEW c \in Clients
    PROVE  /\ [sock EXCEPT ![c] = Minted] \in Socks
           /\ [sock EXCEPT ![c] = Gone] \in Socks
           /\ \A k \in Sock : k.up => [sock EXCEPT ![c] = k] \in Socks
<1>1. Minted \in Sock /\ Gone \in Sock /\ Minted.up
  BY DEF Minted, Gone, Sock
<1> QED BY <1>1 DEF Socks

(* A frame leaves a socket that is up as one that is up.                   *)
LEMMA SpokenTypes ==
    ASSUME sock \in Socks, NEW c \in Clients, sock[c].up, NEW b \in BOOLEAN
    PROVE  \A k \in {Alive(c), Attached(c, b), Beaten(c, b)} : k \in Sock /\ k.up
<1>1. sock[c] \in Sock
  BY DEF Socks
<1>2. ((c \in Desktops /\ (b \/ sock[c].visible)) \/ sock[c].recent) \in BOOLEAN
  BY <1>1 DEF Sock
<1>3. Alive(c) \in Sock /\ Alive(c).up /\ Alive(c).recent = sock[c].recent
  BY <1>1 DEF Alive, Sock
<1>4. Attached(c, b) \in Sock /\ Attached(c, b).up
  BY <1>3 DEF Attached, Sock
<1>5. Beaten(c, b) \in Sock /\ Beaten(c, b).up
  BY <1>2, <1>3 DEF Beaten, Sock
<1> QED BY <1>3, <1>4, <1>5

-----------------------------------------------------------------------------
(* The types. *)

(* What bounds the numbers on their way, and what the windows look like:   *)
(* nothing under way is nothing, and the app server either shows or        *)
(* dismisses.                                                              *)
Sane ==
    /\ queue.new <= n /\ flight.what.new <= n /\ server.new <= n
    /\ \A w \in waits : w.r <= n
    /\ flight.at = "none" => flight.what = Nothing
    /\ flight.at # "none" => flight.what.new # 0 \/ flight.what.dis
    /\ server.dis => server.new = 0

TypeInv == TypeOK /\ Sane

(* The parts of the type invariant by who changes them.                    *)
AwayTyped == /\ away \in BOOLEAN
             /\ timer \in {"none", "deadline"} \cup Clients
             /\ away => timer # "none"
             /\ timer = "deadline" => away
QueueTyped == queue \in Window /\ queue.new <= n
WaitsTyped == waits \subseteq Waits /\ \A w \in waits : w.r <= n
FlightTyped ==
    /\ flight \in [at : {"none", "sent", "taken"}, what : Window]
    /\ flight.what.new <= n
    /\ flight.at = "none" => flight.what = Nothing
    /\ flight.at # "none" => flight.what.new # 0 \/ flight.what.dis
ServerTyped ==
    /\ server \in [pending : BOOLEAN, new : Marks, dis : BOOLEAN]
    /\ server.new <= n
    /\ server.dis => server.new = 0
PhoneTyped == banner \in 0 .. n /\ known \in 0 .. n /\ sights \subseteq 1 .. n
CountsTyped == faults \in 0 .. MaxFaults /\ moves \in 0 .. MaxMoves
HistoryTyped == slips \subseteq SlipKinds /\ felled \in BOOLEAN /\ clockless \subseteq Stops

LEMMA TypeParts ==
    TypeInv <=> /\ sock \in Socks /\ AwayTyped
                /\ page \in [Clients -> Page]
                /\ n \in Marks /\ chat \in Chat /\ ghost \in Chat
                /\ WaitsTyped /\ QueueTyped /\ FlightTyped /\ ServerTyped
                /\ PhoneTyped /\ CountsTyped /\ HistoryTyped
  BY DEF TypeInv, TypeOK, Sane, PresenceTypes, Socks, AwayTyped, QueueTyped,
         WaitsTyped, FlightTyped, ServerTyped, PhoneTyped, CountsTyped, HistoryTyped

(* The same of the next state.                                             *)
LEMMA TypePartsNext ==
    /\ sock' \in Socks /\ AwayTyped'
    /\ page' \in [Clients -> Page]
    /\ n' \in Marks /\ chat' \in Chat /\ ghost' \in Chat
    /\ WaitsTyped' /\ QueueTyped' /\ FlightTyped' /\ ServerTyped'
    /\ PhoneTyped' /\ CountsTyped' /\ HistoryTyped'
    => TypeInv'
  BY DEF TypeInv, TypeOK, Sane, PresenceTypes, Socks, AwayTyped, QueueTyped,
         WaitsTyped, FlightTyped, ServerTyped, PhoneTyped, CountsTyped, HistoryTyped

LEMMA MarksAreNumbers ==
    /\ \A r \in Marks : r \in Nat
    /\ \A r \in Replies : r \in Marks /\ r \in Nat /\ r # 0
  BY DEF Marks, Replies, NotifyAssumption

(* What reading and announcing make of a session is a session.             *)
LEMMA ChatTypes ==
    ASSUME NEW S \in Chat
    PROVE  /\ \A r \in Marks : Read(S, r) \in Chat
           /\ Fired(S) \in Chat /\ Buzzed(S) \in Chat
           /\ [S EXCEPT !.silent = FALSE] \in Chat
           /\ \A b \in BOOLEAN : [S EXCEPT !.notified = b] \in Chat
           /\ \A r \in Marks, f \in Marks :
                 [S EXCEPT !.heard = r, !.filed = f] \in Chat
<1>1. \A r \in Marks : Read(S, r) \in Chat
  <2> SUFFICES ASSUME NEW r \in Marks PROVE Read(S, r) \in Chat
    OBVIOUS
  <2>1. 0 \in Marks /\ (S.notified /\ r < n) \in BOOLEAN
    BY DEF Marks, Chat, NotifyAssumption
  <2> QED BY <2>1 DEF Read, Chat
<1> QED BY <1>1 DEF Fired, Buzzed, Chat

(* What is queued is a window, with nothing newer in it than N.           *)
LEMMA QueueTypes ==
    ASSUME NEW N \in Marks, queue \in Window, queue.new <= N
    PROVE  /\ \A r \in Marks, t \in {"unsaid", "no", "yes"} :
                 r <= N => /\ Announced(r, t) \in Window
                          /\ Announced(r, t).new <= N
                          /\ \A S : FireQueues(S, r) \in Window
                                   /\ FireQueues(S, r).new <= N
           /\ Withdrawn \in Window /\ Withdrawn.new <= N
           /\ Nothing \in Window /\ Nothing.new <= N
           /\ \A S, r : ReadQueues(S, r) \in Window /\ ReadQueues(S, r).new <= N
<1>1. 0 \in Marks /\ 0 <= N
  BY DEF Marks, NotifyAssumption
<1>2. \A r \in Marks, t \in {"unsaid", "no", "yes"} :
        r <= N => Announced(r, t) \in Window /\ Announced(r, t).new <= N
  BY DEF Announced, Window
<1>3. Nothing \in Window /\ Nothing.new <= N
  BY <1>1 DEF Nothing, Window
<1>4. Withdrawn \in Window /\ Withdrawn.new <= N
  BY <1>1 DEF Nothing, Window, Withdrawn
<1>5. \A S, r : ReadQueues(S, r) \in Window /\ ReadQueues(S, r).new <= N
  BY <1>4 DEF ReadQueues
<1>6. \A S : \A r \in Marks : r <= N => FireQueues(S, r) \in Window
                                    /\ FireQueues(S, r).new <= N
  BY <1>2 DEF FireQueues
<1> QED BY <1>2, <1>3, <1>4, <1>5, <1>6

(* onPresenceChange() keeps the types.                                     *)
LEMMA EvaluatesTypes ==
    ASSUME n \in Marks, chat \in Chat, QueueTyped, UNCHANGED n,
           NEW k \in Socks, NEW over, Evaluates(k, over)
    PROVE  sock' \in Socks /\ AwayTyped' /\ chat' \in Chat /\ QueueTyped'
<1>1. PICK v \in Verdicts(k, over) :
        /\ sock' = k /\ away' = v.away /\ timer' = v.timer
        /\ \/ chat' = Buzzed(chat) /\ queue' = Announced(n, "unsaid")
           \/ UNCHANGED <<chat, queue>>
  BY DEF Evaluates
<1>2. AwayTyped'
  BY <1>1, VerdictTypes DEF AwayTyped
<1>3. n <= n
  BY MarksAreNumbers
<1>4. CASE chat' = Buzzed(chat) /\ queue' = Announced(n, "unsaid")
  BY <1>1, <1>2, <1>3, <1>4, ChatTypes, QueueTypes DEF QueueTyped
<1>5. CASE UNCHANGED <<chat, queue>>
  BY <1>1, <1>2, <1>5 DEF QueueTyped
<1> QED BY <1>1, <1>4, <1>5

(* A slip that is noted is one of the kinds, and is not forgotten.         *)
LEMMA SlipsTypes ==
    ASSUME slips \subseteq SlipKinds, NEW k \in SlipKinds, NEW b, Slips(k, b)
    PROVE  /\ slips' \subseteq SlipKinds
           /\ slips' = {} => slips = {} /\ ~b
  BY DEF Slips

(* What a step leaves alone stays well typed, while the replies only grow. *)
LEMMA PartsStay ==
    ASSUME n \in Marks, n' \in Marks, n <= n'
    PROVE  /\ AwayTyped /\ UNCHANGED <<away, timer>> => AwayTyped'
           /\ QueueTyped /\ UNCHANGED queue => QueueTyped'
           /\ WaitsTyped /\ UNCHANGED waits => WaitsTyped'
           /\ FlightTyped /\ UNCHANGED flight => FlightTyped'
           /\ ServerTyped /\ UNCHANGED server => ServerTyped'
           /\ PhoneTyped /\ UNCHANGED <<banner, known, sights>> => PhoneTyped'
           /\ CountsTyped /\ UNCHANGED <<faults, moves>> => CountsTyped'
           /\ HistoryTyped /\ UNCHANGED <<slips, felled, clockless>> => HistoryTyped'
<1> USE MarksAreNumbers
<1>1. QueueTyped /\ UNCHANGED queue => QueueTyped'
  BY DEF QueueTyped, Window
<1>2. WaitsTyped /\ UNCHANGED waits => WaitsTyped'
  BY DEF WaitsTyped, Waits
<1>3. FlightTyped /\ UNCHANGED flight => FlightTyped'
  BY DEF FlightTyped, Window
<1>4. ServerTyped /\ UNCHANGED server => ServerTyped'
  BY DEF ServerTyped
<1>5. PhoneTyped /\ UNCHANGED <<banner, known, sights>> => PhoneTyped'
  BY DEF PhoneTyped
<1> QED BY <1>1, <1>2, <1>3, <1>4, <1>5 DEF AwayTyped, CountsTyped, HistoryTyped

(* A fault and a move of the user are within their bounds.                 *)
LEMMA BudgetTypes ==
    ASSUME CountsTyped
    PROVE  /\ \A f : Strikes(f) /\ UNCHANGED moves => CountsTyped'
           /\ Moves /\ UNCHANGED faults => CountsTyped'
  BY DEF CountsTyped, Strikes, Moves, NotifyAssumption

(* Who spoke is in the proofs that are waited for.                         *)
LEMMA WaitsTypes ==
    ASSUME WaitsTyped, NEW c \in Clients
    PROVE  \A W \in {{[w EXCEPT !.got = @ \cup {c}] : w \in waits},
                     {[w EXCEPT !.got = @ \ {c}] : w \in waits},
                     {[w EXCEPT !.old = TRUE] : w \in waits}} :
             W \subseteq Waits /\ \A w \in W : w.r <= n
<1>1. \A w \in waits : w \in Waits /\ w.r <= n
  BY DEF WaitsTyped
<1>2. \A w \in waits : /\ [w EXCEPT !.got = @ \cup {c}] \in Waits
                       /\ [w EXCEPT !.got = @ \ {c}] \in Waits
                       /\ [w EXCEPT !.old = TRUE] \in Waits
  BY <1>1 DEF Waits
<1>3. \A w \in waits : /\ [w EXCEPT !.got = @ \cup {c}].r <= n
                       /\ [w EXCEPT !.got = @ \ {c}].r <= n
                       /\ [w EXCEPT !.old = TRUE].r <= n
  BY <1>1 DEF Waits
<1> QED BY <1>2, <1>3

(* The agent's reply, and how a proof of life ends.                        *)
LEMMA TypeReplies ==
    ASSUME TypeInv, Reply \/ (\E w \in waits : Proven(w) \/ Unproven(w))
    PROVE  TypeInv'
<1> USE DEF presenceVars, counts, history
<1>0. /\ sock \in Socks /\ AwayTyped /\ page \in [Clients -> Page]
      /\ n \in Marks /\ chat \in Chat /\ ghost \in Chat
      /\ WaitsTyped /\ QueueTyped /\ FlightTyped /\ ServerTyped
      /\ PhoneTyped /\ CountsTyped /\ HistoryTyped
  BY TypeParts
<1>1. CASE Reply
  <2>1. n' \in Marks /\ n <= n' /\ n' \in Replies /\ n' = n + 1
    BY <1>0, <1>1 DEF Reply, Marks, Replies, NotifyAssumption
  <2>2. /\ UNCHANGED <<away, timer, page, ghost, flight, server, banner, sights,
                      counts, history>>
    BY <1>1 DEF Reply
  <2>5. \A x \in Marks : x <= n => x <= n'
    BY <1>0, <2>1, MarksAreNumbers
  <2>3. AwayTyped' /\ FlightTyped' /\ ServerTyped' /\ PhoneTyped' /\ CountsTyped'
        /\ HistoryTyped'
    BY <1>0, <2>1, <2>2, PartsStay
  <2>4. sock' \in Socks /\ chat' \in Chat /\ WaitsTyped' /\ QueueTyped'
    <3>1. CASE /\ chat' = Fired(chat) /\ queue' = FireQueues(chat, n + 1)
               /\ UNCHANGED <<sock, waits>>
      <4>1. queue \in Window /\ queue.new <= n'
        BY <1>0, <2>5 DEF QueueTyped, Window
      <4>2. n' <= n'
        BY <2>1, MarksAreNumbers
      <4>3. FireQueues(chat, n') \in Window /\ FireQueues(chat, n').new <= n'
        BY <2>1, <4>1, <4>2, QueueTypes, MarksAreNumbers
      <4> QED BY <1>0, <2>1, <3>1, <4>3, ChatTypes, PartsStay DEF QueueTyped
    <3>2. CASE /\ sock' = [c \in Clients |-> IF c \in Claimants(sock)
                                           THEN [sock[c] EXCEPT !.lively = FALSE]
                                           ELSE sock[c]]
               /\ waits' = waits \cup {[r |-> n + 1, old |-> FALSE, got |-> {}]}
               /\ UNCHANGED <<chat, queue>>
      <4>1. sock' \in Socks
        BY <1>0, <3>2 DEF Socks, Sock, Gone, Claimants
      <4> DEFINE new == [r |-> n', old |-> FALSE, got |-> {}]
      <4>2. new \in Waits /\ new.r = n'
        BY <2>1 DEF Waits
      <4>3. \A w \in waits : w \in Waits /\ w.r <= n'
        BY <1>0, <2>5, MarksAreNumbers DEF WaitsTyped, Waits
      <4>4. n' <= n'
        BY <2>1, MarksAreNumbers
      <4>5. WaitsTyped'
        <5>1. waits' = waits \cup {new}
          BY <2>1, <3>2
        <5> HIDE DEF new
        <5> QED BY <4>2, <4>3, <4>4, <5>1 DEF WaitsTyped
      <4>6. QueueTyped'
        BY <1>0, <2>1, <3>2, PartsStay
      <4> QED BY <1>0, <3>2, <4>1, <4>5, <4>6
    <3> QED BY <1>1, <3>1, <3>2 DEF Reply
  <2> QED BY <1>0, <2>1, <2>2, <2>3, <2>4, TypePartsNext
<1>2. ASSUME NEW w \in waits, Proven(w) \/ Unproven(w)
      PROVE  TypeInv'
  <2>1. w.r \in Marks /\ w.r <= n /\ waits' = waits \ {w}
    BY <1>0, <1>2, MarksAreNumbers DEF WaitsTyped, Waits, Proven, Unproven
  <2>2. /\ UNCHANGED <<presenceVars, page, n, flight, server, banner, sights, counts,
                       known, felled, clockless>>
    BY <1>2 DEF Proven, Unproven
  <2>3. n' \in Marks /\ n <= n'
    BY <1>0, <2>2, MarksAreNumbers
  <2>4. AwayTyped' /\ FlightTyped' /\ ServerTyped' /\ PhoneTyped' /\ CountsTyped'
    BY <1>0, <2>2, <2>3, PartsStay
  <2>5. WaitsTyped'
    BY <1>0, <2>1, <2>2 DEF WaitsTyped
  <2>6. HistoryTyped'
    <3>1. \E k \in {"stale", "partial"}, b \in BOOLEAN : Slips(k, b)
      BY <1>0, <1>2, <2>1 DEF Proven, Unproven, WaitsTyped, Waits, Chat
    <3> QED BY <1>0, <2>2, <3>1, SlipsTypes DEF HistoryTyped, SlipKinds
  <2>7. chat' \in Chat /\ ghost' \in Chat /\ QueueTyped'
    <3>1. \A S : /\ ReadQueues(S, w.r) \in Window /\ ReadQueues(S, w.r).new <= n
                /\ FireQueues(S, w.r) \in Window /\ FireQueues(S, w.r).new <= n
      BY <1>0, <2>1, QueueTypes DEF QueueTyped
    <3>2. \A S \in Chat : Read(S, w.r) \in Chat /\ Fired(S) \in Chat
      BY <2>1, ChatTypes
    <3>3. CASE Proven(w)
      BY <1>0, <2>2, <3>1, <3>2, <3>3 DEF Proven, QueueTyped
    <3>4. CASE Unproven(w)
      BY <1>0, <2>2, <3>1, <3>2, <3>4 DEF Unproven, Fires, QueueTyped
    <3> QED BY <1>2, <3>3, <3>4
  <2> QED BY <1>0, <2>2, <2>3, <2>4, <2>5, <2>6, <2>7, TypePartsNext
<1> QED BY <1>1, <1>2

(* What a timer, a window and the phone do.                                *)
LEMMA TypeWindows ==
    ASSUME TypeInv, Sweep \/ GraceTimer \/ Flush \/ Arrives \/ Fails \/ FlushOut
    PROVE  TypeInv'
<1> USE DEF presenceVars, counts, history, session, push
<1>0. /\ sock \in Socks /\ AwayTyped /\ page \in [Clients -> Page]
      /\ n \in Marks /\ chat \in Chat /\ ghost \in Chat
      /\ WaitsTyped /\ QueueTyped /\ FlightTyped /\ ServerTyped
      /\ PhoneTyped /\ CountsTyped /\ HistoryTyped
  BY TypeParts
<1>1. n' = n /\ n' \in Marks /\ n <= n'
  BY <1>0, MarksAreNumbers DEF Sweep, GraceTimer, Flush, Arrives, Fails, FlushOut
<1>2. queue \in Window /\ queue.new <= n
  BY <1>0 DEF QueueTyped
<1>3. flight.what \in Window /\ flight.what.new <= n
  BY <1>0 DEF FlightTyped
<1>4. Nothing \in Window /\ Nothing.new = 0 /\ 0 <= n
  BY <1>0, <1>2, MarksAreNumbers, QueueTypes DEF Nothing
<1>5. Landed \in [at : {"none", "sent", "taken"}, what : Window]
      /\ Landed.at = "none" /\ Landed.what = Nothing
  BY <1>4 DEF Landed
<1>6. CASE Sweep
  <2>1. QueueTyped' /\ chat' \in Chat
    BY <1>0, <1>1, <1>2, <1>6, QueueTypes, ChatTypes DEF Sweep, QueueTyped
  <2> QED BY <1>0, <1>1, <1>6, <2>1, PartsStay, TypePartsNext DEF Sweep
<1>7. CASE GraceTimer
  <2>1. sock' \in Socks /\ AwayTyped' /\ chat' \in Chat /\ QueueTyped'
    BY <1>0, <1>1, <1>7, EvaluatesTypes DEF GraceTimer
  <2> QED BY <1>0, <1>1, <1>7, <2>1, PartsStay, TypePartsNext DEF GraceTimer
<1>8. CASE Flush
  <2>1. QueueTyped'
    BY <1>1, <1>4, <1>8 DEF Flush, QueueTyped
  <2>2. FlightTyped'
    BY <1>1, <1>2, <1>8 DEF Flush, FlightTyped
  <2> QED BY <1>0, <1>1, <1>8, <2>1, <2>2, PartsStay, TypePartsNext DEF Flush
<1>9. CASE Arrives
  <2>1. ServerTyped'
    BY <1>1, <1>3, <1>4, <1>9, MarksAreNumbers DEF Arrives, Kept, ServerTyped, Window
  <2>2. FlightTyped'
    BY <1>0, <1>1, <1>4, <1>5, <1>9 DEF Arrives, FlightTyped
  <2>3. CountsTyped'
    BY <1>0, <1>1, <1>9, PartsStay, BudgetTypes DEF Arrives
  <2>4. HistoryTyped'
    BY <1>0, <1>9, <1>3, SlipsTypes DEF Arrives, HistoryTyped, SlipKinds, Window
  <2> QED BY <1>0, <1>1, <1>9, <2>1, <2>2, <2>3, <2>4, PartsStay, TypePartsNext DEF Arrives
<1>10. CASE Fails
  <2>1. Requeues(flight.what)
    BY <1>10 DEF Fails
  <2>2. FlightTyped'
    BY <1>1, <1>4, <1>5, <2>1 DEF Requeues, FlightTyped
  <2>3. QueueTyped'
    BY <1>1, <1>2, <1>3, <2>1 DEF Requeues, QueueTyped, Window
  <2>4. CountsTyped'
    BY <1>0, <1>1, <1>10, PartsStay, BudgetTypes DEF Fails
  <2>5. HistoryTyped'
    BY <1>0, <1>10, <2>1, SlipsTypes DEF Requeues, Fails, HistoryTyped, SlipKinds
  <2> QED BY <1>0, <1>1, <1>10, <2>2, <2>3, <2>4, <2>5, PartsStay, TypePartsNext DEF Fails
<1>11. CASE FlushOut
  <2>1. ServerTyped'
    <3>1. server' = [server EXCEPT !.new = 0, !.dis = FALSE] /\ 0 \in Marks
      BY <1>11 DEF FlushOut, Marks, NotifyAssumption
    <3> QED BY <1>0, <1>1, <1>4, <3>1 DEF ServerTyped
  <2>2. PhoneTyped'
    <3>1. /\ server.new \in Nat /\ server.new <= n /\ n \in Nat
          /\ banner' \in {server.new, 0} /\ known' \in {server.new, known}
          /\ sights' = sights
      BY <1>0, <1>11, MarksAreNumbers DEF FlushOut, ServerTyped
    <3> QED BY <1>0, <1>1, <3>1 DEF PhoneTyped
  <2>3. HistoryTyped'
    BY <1>0, <1>11 DEF FlushOut, HistoryTyped
  <2> QED BY <1>0, <1>1, <1>11, <2>1, <2>2, <2>3, PartsStay, TypePartsNext DEF FlushOut
<1> QED BY <1>6, <1>7, <1>8, <1>9, <1>10, <1>11

(* What a frame of a page leaves behind it.                                *)
LEMMA FrameTypes ==
    ASSUME TypeInv, NEW c \in Clients, NEW k \in Sock, k.up, NEW claims,
           Frame(c, k, claims)
    PROVE  /\ sock' \in Socks /\ AwayTyped' /\ WaitsTyped' /\ QueueTyped'
           /\ chat' \in Chat /\ ghost' \in Chat /\ FlightTyped'
           /\ n' = n /\ known' \in 0 .. n /\ HistoryTyped'
<1>0. /\ sock \in Socks /\ AwayTyped /\ chat \in Chat /\ ghost \in Chat
      /\ n \in Marks /\ WaitsTyped /\ QueueTyped /\ FlightTyped
      /\ PhoneTyped /\ HistoryTyped
  BY TypeParts
<1>1. n' = n /\ n' \in Marks /\ n <= n' /\ n \in 0 .. n
  BY <1>0, MarksAreNumbers DEF Frame
<1>2. sock' \in Socks
  BY <1>0, SockTypes DEF Frame
<1>3. WaitsTyped'
  BY <1>0, <1>1, WaitsTypes DEF Frame, WaitsTyped
<1>4. AwayTyped' /\ FlightTyped' /\ ghost' \in Chat
  BY <1>0, <1>1, PartsStay DEF Frame
<1>5. CASE /\ Cancels
           /\ known' = IF Looks(c)' THEN n ELSE known
           /\ clockless' \in {clockless, clockless \cup {"left"}}
           /\ \E b : Slips("standing", b)
  <2>1. Nothing \in Window /\ Nothing.new <= n
    BY <1>0, QueueTypes DEF QueueTyped
  <2>2. QueueTyped'
    BY <1>0, <1>1, <1>5, <2>1 DEF Cancels, QueueTyped, Window, Nothing
  <2>3. chat' \in Chat
    BY <1>0, <1>5, ChatTypes DEF Cancels
  <2>4. HistoryTyped'
    BY <1>0, <1>5, SlipsTypes DEF Frame, HistoryTyped, SlipKinds, Stops
  <2>5. known' \in 0 .. n
    BY <1>0, <1>1, <1>5 DEF PhoneTyped
  <2> QED BY <1>1, <1>2, <1>3, <1>4, <2>2, <2>3, <2>4, <2>5
<1>6. CASE UNCHANGED <<chat, queue, known, slips, clockless>>
  <2>1. QueueTyped'
    BY <1>0, <1>1, <1>6, PartsStay
  <2>2. chat' \in Chat /\ HistoryTyped' /\ known' \in 0 .. n
    BY <1>0, <1>6 DEF Frame, HistoryTyped, PhoneTyped
  <2> QED BY <1>1, <1>2, <1>3, <1>4, <2>1, <2>2
<1> QED BY <1>5, <1>6 DEF Frame

(* The pages and the user.                                                 *)
LEMMA TypePages ==
    ASSUME TypeInv, NEW c \in Clients,
           \/ Connects(c) \/ Disconnects(c) \/ Drops(c)
           \/ Pongs(c) \/ Attaches(c) \/ Beats(c) \/ Opens(c) \/ Closes(c) \/ Hides(c) \/ Shows(c)
           \/ GoesTo(c) \/ Freezes(c) \/ Sees(c) \/ Matures(c) \/ Lapses(c)
    PROVE  TypeInv'
<1> USE DEF presenceVars, counts, history, session, push
<1>0. /\ sock \in Socks /\ AwayTyped /\ page \in [Clients -> Page]
      /\ n \in Marks /\ chat \in Chat /\ ghost \in Chat
      /\ WaitsTyped /\ QueueTyped /\ FlightTyped /\ ServerTyped
      /\ PhoneTyped /\ CountsTyped /\ HistoryTyped
  BY TypeParts
<1>1. n \in Nat /\ n <= n /\ 0 <= n /\ n \in 0 .. n /\ 0 \in Marks
  BY <1>0, MarksAreNumbers DEF Marks, NotifyAssumption
<1>2. \A k \in Sock : sock[c] \in Sock /\ page[c] \in Page
  BY <1>0 DEF Socks
\* A page that connects, or whose socket is gone.
<1>3. ASSUME NEW k \in {Minted, Gone}, Evaluates([sock EXCEPT ![c] = k], FALSE),
             UNCHANGED <<page, n, ghost, flight, server, banner, sights, history>>,
             \/ UNCHANGED waits
             \/ waits' = {[w EXCEPT !.got = @ \ {c}] : w \in waits},
             CountsTyped'
      PROVE  TypeInv'
  <2>1. [sock EXCEPT ![c] = k] \in Socks
    BY <1>0, SockTypes
  <2>2. sock' \in Socks /\ AwayTyped' /\ chat' \in Chat /\ QueueTyped'
    BY <1>0, <1>3, <2>1, EvaluatesTypes
  <2>3. WaitsTyped'
    BY <1>0, <1>1, <1>3, WaitsTypes, PartsStay DEF WaitsTyped
  <2> QED BY <1>0, <1>1, <1>3, <2>2, <2>3, PartsStay, TypePartsNext
\* A page that says something.
<1>4. ASSUME NEW k \in Sock, k.up, NEW claims, Frame(c, k, claims),
             page' \in [Clients -> Page], CountsTyped',
             UNCHANGED <<server, banner, sights>>
      PROVE  TypeInv'
  <2>1. /\ sock' \in Socks /\ AwayTyped' /\ WaitsTyped' /\ QueueTyped'
        /\ chat' \in Chat /\ ghost' \in Chat /\ FlightTyped'
        /\ n' = n /\ known' \in 0 .. n /\ HistoryTyped'
    BY <1>4, FrameTypes
  <2>2. PhoneTyped'
    BY <1>0, <1>4, <2>1 DEF PhoneTyped
  <2>3. ServerTyped'
    BY <1>0, <1>1, <1>4, <2>1, PartsStay
  <2> QED BY <1>0, <1>4, <2>1, <2>2, <2>3, TypePartsNext
\* A page that says nothing.
<1>5. ASSUME Silently, page' \in [Clients -> Page], CountsTyped', UNCHANGED sights
      PROVE  TypeInv'
  BY <1>0, <1>1, <1>5, PartsStay, TypePartsNext DEF Silently
\* A page that opens the chat.
<1>6. ASSUME NEW there, Comes(c, there), page' \in [Clients -> Page], CountsTyped',
             UNCHANGED sights
      PROVE  TypeInv'
  <2>1. ServerTyped'
    <3>1. CASE UNCHANGED server
      BY <1>0, <1>1, <1>6, <3>1, PartsStay DEF Comes
    <3>2. CASE server' = [pending |-> FALSE, new |-> 0, dis |-> TRUE]
      BY <1>1, <1>6, <3>2 DEF Comes, ServerTyped
    <3> QED BY <1>6, <3>1, <3>2 DEF Comes
  <2>2. PhoneTyped'
    BY <1>0, <1>1, <1>6 DEF Comes, PhoneTyped
  <2>3. HistoryTyped'
    BY <1>0, <1>6 DEF Comes, HistoryTyped
  <2> QED BY <1>0, <1>1, <1>6, <2>1, <2>2, <2>3, PartsStay, TypePartsNext DEF Comes
<1>7. \A p \in Page : Turns(c, p) => /\ page' \in [Clients -> Page] /\ CountsTyped'
                                      /\ UNCHANGED sights
  BY <1>0, BudgetTypes DEF Turns
<1>8. CASE Connects(c) \/ Disconnects(c) \/ Drops(c)
  <2>1. CountsTyped'
    BY <1>0, <1>1, <1>8, BudgetTypes, PartsStay DEF Connects, Disconnects, Drops
  <2> QED BY <1>3, <1>8, <2>1 DEF Connects, Disconnects, Drops
<1>9. CASE Pongs(c) \/ Attaches(c) \/ Beats(c)
  <2>0. PICK b \in BOOLEAN :
          \E k \in {Alive(c), Attached(c, b), Beaten(c, b)}, claims \in BOOLEAN :
             Sends(c, k, claims)
    <3>1. page[c].chat \in BOOLEAN
      BY <1>0 DEF Page
    <3> QED BY <1>9, <3>1 DEF Pongs, Attaches, Beats
  <2>1. PICK k \in {Alive(c), Attached(c, b), Beaten(c, b)}, claims \in BOOLEAN :
          Sends(c, k, claims)
    BY <2>0
  <2>2. /\ sock[c].up /\ UNCHANGED <<page, server, banner, sights, counts>>
        /\ Frame(c, k, claims)
    BY <2>1 DEF Sends
  <2>3. CountsTyped'
    BY <1>0, <2>2 DEF CountsTyped
  <2>4. k \in Sock /\ k.up
    BY <1>0, <2>2, SpokenTypes
  <2> QED BY <1>0, <1>4, <2>2, <2>3, <2>4
<1>10. CASE Opens(c) \/ GoesTo(c)
  <2>1. PICK p \in Page, there \in BOOLEAN : Turns(c, p) /\ Comes(c, there)
    BY <1>0, <1>10 DEF Opens, GoesTo, Page
  <2> QED BY <1>6, <1>7, <2>1
<1>11. CASE Hides(c) \/ Shows(c)
  <2>1. PICK p \in Page : Turns(c, p)
    BY <1>0, <1>11 DEF Hides, Shows, Page
  <2>2. \/ Silently
        \/ \E v \in BOOLEAN : /\ sock[c].up
                              /\ Frame(c, Beaten(c, v), v)
                              /\ UNCHANGED <<server, banner>>
    BY <1>11 DEF Hides, Shows
  <2>3. sock[c].up => \A v \in BOOLEAN : Beaten(c, v) \in Sock /\ Beaten(c, v).up
    BY <1>0, SpokenTypes
  <2> QED BY <1>0, <1>4, <1>5, <1>7, <2>1, <2>2, <2>3
<1>12. CASE Closes(c)
  <2>1. PICK p \in Page : Turns(c, p)
    BY <1>12 DEF Closes, Page
  <2> QED BY <1>5, <1>7, <1>12, <2>1 DEF Closes
<1>13. CASE Freezes(c)
  <2>1. page' \in [Clients -> Page]
    BY <1>0, <1>13 DEF Freezes, Page
  <2>2. CountsTyped'
    BY <1>0, <1>13, BudgetTypes DEF Freezes
  <2> QED BY <1>5, <1>13, <2>1, <2>2 DEF Freezes, Silently
<1>14. CASE Sees(c)
  <2>1. PhoneTyped'
    <3>1. n \in 1 .. n
      <4>1. known \in Nat /\ chat.heard \in Nat
        BY <1>0, <1>1 DEF PhoneTyped, Chat, Marks
      <4>2. n > known \/ n > chat.heard
        BY <1>14 DEF Sees
      <4> QED BY <1>1, <4>1, <4>2
    <3> QED BY <1>0, <1>1, <1>14, <3>1 DEF Sees, PhoneTyped
  <2>2. HistoryTyped'
    BY <1>0, <1>14 DEF Sees, HistoryTyped
  <2> QED BY <1>0, <1>1, <1>14, <2>1, <2>2, PartsStay, TypePartsNext DEF Sees
<1>15. CASE Matures(c) \/ Lapses(c)
  <2>1. UNCHANGED <<away, timer>> /\ Outside
    BY <1>15 DEF Matures, Lapses, Settles, Forgotten, Overdue
  <2>2. sock' \in Socks
    <3>1. sock[c] \in Sock /\ (~sock[c].up => sock[c] = Gone)
      BY <1>0 DEF Socks
    <3>2. sock[c].up
      BY <1>15, <3>1 DEF Matures, Lapses, Settles, Forgotten, Overdue, Gone
    <3>3. \E k \in {[sock[c] EXCEPT !.settled = TRUE], [sock[c] EXCEPT !.lively = FALSE],
                   [sock[c] EXCEPT !.recent = FALSE]} : sock' = [sock EXCEPT ![c] = k]
      BY <1>15 DEF Matures, Lapses, Settles, Forgotten, Overdue
    <3>4. \A k \in {[sock[c] EXCEPT !.settled = TRUE], [sock[c] EXCEPT !.lively = FALSE],
                   [sock[c] EXCEPT !.recent = FALSE]} : k \in Sock /\ k.up
      BY <3>1, <3>2 DEF Sock
    <3>5. PICK k \in Sock : k.up /\ sock' = [sock EXCEPT ![c] = k]
      BY <3>3, <3>4
    <3> QED BY <1>0, <3>5, SockTypes
  <2> QED BY <1>0, <1>1, <2>1, <2>2, PartsStay, TypePartsNext DEF Outside
<1> QED BY <1>8, <1>9, <1>10, <1>11, <1>12, <1>13, <1>14, <1>15

(* Readings, marks, rebuilds, deaths and swipes.                           *)
LEMMA TypeRest ==
    ASSUME TypeInv,
           \/ \E r \in sights : Sighted(r)
           \/ ReadsAll \/ MarksUnread \/ Rebuild \/ Restart \/ Swipes
    PROVE  TypeInv'
<1> USE DEF presenceVars, counts, history, session, push
<1>0. /\ sock \in Socks /\ AwayTyped /\ page \in [Clients -> Page]
      /\ n \in Marks /\ chat \in Chat /\ ghost \in Chat
      /\ WaitsTyped /\ QueueTyped /\ FlightTyped /\ ServerTyped
      /\ PhoneTyped /\ CountsTyped /\ HistoryTyped
  BY TypeParts
<1>1. n \in Nat /\ n <= n /\ 0 <= n /\ n \in 0 .. n /\ 0 \in Marks
  BY <1>0, MarksAreNumbers DEF Marks, NotifyAssumption
<1>2. Nothing \in Window /\ Nothing.new <= n
      /\ \A S, r : ReadQueues(S, r) \in Window /\ ReadQueues(S, r).new <= n
  BY <1>0, QueueTypes DEF QueueTyped
<1>3. ASSUME NEW r \in sights, Sighted(r) PROVE TypeInv'
  <2>1. r \in Marks
    BY <1>0, <1>1 DEF PhoneTyped, Marks, NotifyAssumption
  <2>2. chat' \in Chat /\ QueueTyped'
    BY <1>0, <1>2, <1>3, <2>1, ChatTypes DEF Sighted, QueueTyped
  <2>3. PhoneTyped'
    BY <1>0, <1>3 DEF Sighted, PhoneTyped
  <2>4. HistoryTyped'
    <3>1. \E b : Slips("partial", b)
      BY <1>3 DEF Sighted
    <3> QED BY <1>0, <1>3, <3>1, SlipsTypes DEF Sighted, HistoryTyped, SlipKinds
  <2> QED BY <1>0, <1>1, <1>3, <2>2, <2>3, <2>4, PartsStay, TypePartsNext DEF Sighted
<1>4. CASE ReadsAll
  <2>1. chat' \in Chat /\ QueueTyped'
    BY <1>0, <1>2, <1>4, ChatTypes DEF ReadsAll, QueueTyped
  <2>2. CountsTyped'
    BY <1>0, <1>4, BudgetTypes DEF ReadsAll
  <2> QED BY <1>0, <1>1, <1>4, <2>1, <2>2, PartsStay, TypePartsNext DEF ReadsAll
<1>5. CASE MarksUnread
  <2>1. chat' \in Chat
    <3>1. PICK r \in 0 .. chat.heard - 1 :
            chat' = [chat EXCEPT !.heard = r, !.filed = n]
      BY <1>5 DEF MarksUnread
    <3>2. r \in Marks
      BY <1>0 DEF Chat, Marks, NotifyAssumption
    <3> QED BY <1>0, <3>1, <3>2, ChatTypes
  <2>2. CountsTyped'
    BY <1>0, <1>5, BudgetTypes DEF MarksUnread
  <2>3. PhoneTyped' /\ HistoryTyped'
    BY <1>0, <1>1, <1>5 DEF MarksUnread, PhoneTyped, HistoryTyped
  <2> QED BY <1>0, <1>1, <1>5, <2>1, <2>2, <2>3, PartsStay, TypePartsNext DEF MarksUnread
<1>6. CASE Rebuild
  <2>1. chat' \in Chat /\ ghost' \in Chat
    BY <1>0, <1>6, ChatTypes DEF Rebuild
  <2>2. CountsTyped'
    BY <1>0, <1>6, BudgetTypes DEF Rebuild
  <2>3. WaitsTyped'
    <3>1. \A w \in waits : [w EXCEPT !.old = TRUE] \in Waits
                           /\ [w EXCEPT !.old = TRUE].r <= n
      BY <1>0 DEF WaitsTyped, Waits
    <3>2. waits' = {[w EXCEPT !.old = TRUE] : w \in waits} /\ n' = n
      BY <1>6 DEF Rebuild
    <3> QED BY <3>1, <3>2 DEF WaitsTyped
  <2>4. HistoryTyped'
    BY <1>0, <1>6 DEF Rebuild, HistoryTyped, Stops
  <2> QED BY <1>0, <1>1, <1>6, <2>1, <2>2, <2>3, <2>4, PartsStay, TypePartsNext DEF Rebuild
<1>7. CASE Restart
  <2>1. sock' \in Socks /\ AwayTyped'
    BY <1>7 DEF Restart, Socks, Sock, Gone, AwayTyped
  <2>2. chat' \in Chat /\ CountsTyped'
    <3>1. 0 .. n \subseteq Marks
      BY <1>0 DEF Marks, NotifyAssumption
    <3>2. chat' \in Chat
      BY <1>7, <3>1 DEF Restart, Saved, Chat
    <3> QED BY <1>0, <1>7, <3>2, BudgetTypes DEF Restart
  <2>3. WaitsTyped' /\ QueueTyped' /\ FlightTyped'
    BY <1>2, <1>7 DEF Restart, WaitsTyped, QueueTyped, FlightTyped, Landed
  <2>4. HistoryTyped'
    BY <1>0, <1>7, SlipsTypes DEF Restart, HistoryTyped, SlipKinds
  <2>5. PhoneTyped'
    BY <1>0, <1>7 DEF Restart, PhoneTyped
  <2> QED BY <1>0, <1>1, <1>7, <2>1, <2>2, <2>3, <2>4, <2>5, PartsStay, TypePartsNext
         DEF Restart
<1>8. CASE Swipes
  <2>1. CountsTyped'
    BY <1>0, <1>8, BudgetTypes DEF Swipes
  <2>2. PhoneTyped' /\ HistoryTyped'
    BY <1>0, <1>1, <1>8 DEF Swipes, PhoneTyped, HistoryTyped
  <2> QED BY <1>0, <1>1, <1>8, <2>1, <2>2, PartsStay, TypePartsNext DEF Swipes
<1> QED BY <1>3, <1>4, <1>5, <1>6, <1>7, <1>8

(* The initial states are well typed.                                      *)
LEMMA TypeInit == Init => TypeInv
<1> SUFFICES ASSUME Init PROVE TypeInv
  OBVIOUS
<1>1. 0 \in Marks /\ 0 <= 0 /\ 0 \in 0 .. 0 /\ 0 \in 0 .. MaxFaults /\ 0 \in 0 .. MaxMoves
  BY DEF Marks, NotifyAssumption
<1>2. sock \in Socks /\ AwayTyped
  BY DEF Init, PresenceInit, Socks, Sock, Gone, AwayTyped
<1>3. page \in [Clients -> Page]
  BY DEF Init, Page
<1>4. n \in Marks /\ chat \in Chat /\ ghost \in Chat
  BY <1>1 DEF Init, Chat
<1>5. Nothing \in Window /\ Nothing.new <= 0
  BY <1>1 DEF Nothing, Window
<1>6. WaitsTyped /\ QueueTyped /\ FlightTyped
  BY <1>5 DEF Init, WaitsTyped, QueueTyped, FlightTyped
<1>7. ServerTyped /\ PhoneTyped /\ CountsTyped /\ HistoryTyped
  BY <1>1 DEF Init, ServerTyped, PhoneTyped, CountsTyped, HistoryTyped
<1> QED BY <1>2, <1>3, <1>4, <1>6, <1>7, TypeParts

(* Every step keeps the types.                                             *)
LEMMA TypeStep == TypeInv /\ [Next]_vars => TypeInv'
<1> SUFFICES ASSUME TypeInv, [Next]_vars PROVE TypeInv'
  OBVIOUS
<1>1. CASE UNCHANGED vars
  BY <1>1 DEF vars, presenceVars, session, push, counts, history, TypeInv, TypeOK,
     Sane, PresenceTypes
<1> QED BY <1>1, TypeReplies, TypeWindows, TypePages, TypeRest DEF Next

(* Type correctness of the notices: the grace is timed whenever it runs,   *)
(* and nothing under way is newer than the chat.                           *)
THEOREM NoticeTypes == Spec => []TypeOK
<1>1. TypeInv => TypeOK
  BY DEF TypeInv
<1> QED BY <1>1, TypeInit, TypeStep, PTL DEF Spec

-----------------------------------------------------------------------------
(* The flag and the phone.                                                  *)
(*                                                                         *)
(* Word travels from the queue to the phone, and a dismissal cuts off what *)
(* goes before it.  Promised: the newest word is a banner, or a banner     *)
(* that the user or the app took down since.  Recalled: it is a dismissal, *)
(* or there is no word at all.                                             *)
Promised ==
    \/ queue.new # 0
    \/ /\ ~queue.dis
       /\ \/ flight.what.new # 0
          \/ /\ ~flight.what.dis
             /\ server.new # 0 \/ felled \/ (~server.dis /\ banner # 0)
Recalled ==
    /\ queue.new = 0
    /\ \/ queue.dis
       \/ /\ flight.what.new = 0
          /\ \/ flight.what.dis
             \/ server.new = 0 /\ (server.dis \/ banner = 0)

(* What an unanswered window says has been done by the app server already. *)
Handed ==
    flight.at = "taken" =>
       IF flight.what.dis
       THEN flight.what.new = 0 /\ server.new = 0 /\ (server.dis \/ banner = 0)
       ELSE server.new # 0 \/ felled \/ (~server.dis /\ banner # 0)

FlagAgrees == IF chat.notified THEN Promised ELSE Recalled

\* The strengthening of the two properties of the flag.
Carried == slips # {} \/ (Handed /\ FlagAgrees)

(* The flag that agrees with the word under way is what the runs ask for.  *)
LEMMA CarriedMeans == Carried => FlagIsCarried /\ NoOrphanBanner
  BY DEF Carried, FlagAgrees, Promised, Recalled, FlagIsCarried, NoOrphanBanner

(* A step that leaves the flag and the windows alone, whatever else it     *)
(* does, keeps them in agreement.                                          *)
LEMMA AgreementStays ==
    ASSUME Carried, UNCHANGED <<queue, flight, server, banner, felled>>,
           chat'.notified = chat.notified, slips' = {} => slips = {}
    PROVE  Carried'
  BY DEF Carried, Handed, FlagAgrees, Promised, Recalled

(* Announcing: the flag is set, and the banner is the newest word.         *)
LEMMA Announcing ==
    ASSUME Carried, UNCHANGED <<flight, server, banner, felled>>, chat'.notified,
           queue'.new # 0, slips' = {} => slips = {}
    PROVE  Carried'
  BY DEF Carried, Handed, FlagAgrees, Promised

(* Reading the chat: its banner is called back along with the flag.        *)
LEMMA Reading ==
    ASSUME TypeInv, Carried, UNCHANGED <<n, flight, server, banner, felled>>,
           NEW r \in Marks, chat' = Read(chat, r), queue' = ReadQueues(chat, r),
           slips' = {} => slips = {}
    PROVE  Carried'
<1>1. chat \in Chat /\ n \in Nat /\ r \in Nat /\ chat.heard \in Nat
  BY TypeParts, MarksAreNumbers DEF Chat
<1>2. CASE r <= chat.heard
  BY <1>1, <1>2, AgreementStays DEF Read, ReadQueues
<1>3. CASE r > chat.heard /\ ~(chat.notified /\ r >= n)
  <2>1. queue' = queue /\ chat'.notified = (chat.notified /\ r < n)
    BY <1>1, <1>3 DEF Read, ReadQueues
  <2>2. chat'.notified = chat.notified
    BY <1>1, <1>3, <2>1 DEF Chat
  <2> QED BY <2>1, <2>2, AgreementStays
<1>4. CASE r > chat.heard /\ chat.notified /\ r >= n
  <2>1. queue' = Withdrawn /\ ~chat'.notified
    <3>1. ~(r <= chat.heard) /\ ~(r < n)
      BY <1>1, <1>4
    <3>2. queue' = Withdrawn
      BY <1>4 DEF ReadQueues
    <3>3. chat'.notified = (chat.notified /\ r < n)
      BY <3>1 DEF Read
    <3> QED BY <3>1, <3>2, <3>3
  <2>2. Withdrawn.new = 0 /\ Withdrawn.dis
    BY DEF Withdrawn, Nothing
  <2> QED BY <2>1, <2>2 DEF Carried, Handed, FlagAgrees, Recalled
<1>5. chat.notified \in BOOLEAN
  BY <1>1 DEF Chat
<1> QED BY <1>1, <1>2, <1>3, <1>4, <1>5

(* fire(): silent, or announced.                                           *)
LEMMA Firing ==
    ASSUME Carried, chat \in Chat, UNCHANGED <<flight, server, banner, felled>>,
           NEW r \in Replies, chat' = Fired(chat), queue' = FireQueues(chat, r),
           slips' = {} => slips = {}
    PROVE  Carried'
<1>1. r # 0
  BY MarksAreNumbers
<1>2. CASE Holds
  BY <1>2, AgreementStays DEF Fired, FireQueues, Chat
<1>3. CASE ~Holds
  <2>1. chat'.notified /\ queue'.new = r
    BY <1>3 DEF Fired, FireQueues, Announced, Chat
  <2> QED BY <1>1, <2>1, Announcing
<1> QED BY <1>2, <1>3

(* onPresenceChange(): nothing, or what is owed is announced.              *)
LEMMA Flushing ==
    ASSUME TypeInv, Carried, NEW k, NEW over, Evaluates(k, over),
           UNCHANGED <<flight, server, banner, felled, slips>>
    PROVE  Carried'
<1>1. chat \in Chat /\ n \in Nat /\ chat.heard \in Nat
  BY TypeParts, MarksAreNumbers DEF Chat
<1>2. \/ UNCHANGED <<chat, queue>>
      \/ Owed(chat) /\ chat' = Buzzed(chat) /\ queue' = Announced(n, "unsaid")
  BY DEF Evaluates
<1>3. Owed(chat) => n # 0
  BY <1>1 DEF Owed, Unread
<1>4. CASE UNCHANGED <<chat, queue>>
  BY <1>4, AgreementStays
<1>5. CASE Owed(chat) /\ chat' = Buzzed(chat) /\ queue' = Announced(n, "unsaid")
  <2>1. chat'.notified /\ queue'.new = n
    BY <1>1, <1>5 DEF Buzzed, Announced, Chat
  <2> QED BY <1>3, <1>5, <2>1, Announcing
<1> QED BY <1>2, <1>4, <1>5

(* cancelQueued(): the flag goes back to what holds of the phone, or that  *)
(* is a slip.                                                              *)
LEMMA Cancelling ==
    ASSUME TypeInv, Carried, Cancels, UNCHANGED <<flight, server, banner, felled>>,
           Slips("standing", (queue.standing = "yes") # Stands)
    PROVE  Carried'
<1>1. /\ chat \in Chat /\ queue'.new = 0 /\ queue'.dis = queue.dis
      /\ chat'.notified = (queue.standing = "yes")
  BY TypeParts DEF Cancels, Nothing, Chat
<1>2. slips' = {} => slips = {} /\ (queue.standing = "yes") = Stands
  BY DEF Slips
<1>3. server.dis => server.new = 0
  BY DEF TypeInv, Sane
<1>4. CASE queue.standing = "yes" /\ Stands
  BY <1>1, <1>2, <1>4 DEF Carried, Handed, FlagAgrees, Promised, Stands
<1>5. CASE queue.standing # "yes" /\ ~Stands
  BY <1>1, <1>2, <1>3, <1>5 DEF Carried, Handed, FlagAgrees, Recalled, Stands
<1>6. CASE (queue.standing = "yes") # Stands
  BY <1>2, <1>6 DEF Carried
<1> QED BY <1>4, <1>5, <1>6


(* A frame is silent about the windows, or cancels.                        *)
LEMMA Framing ==
    ASSUME TypeInv, Carried, NEW c, NEW k, NEW claims, Frame(c, k, claims),
           UNCHANGED <<server, banner>>
    PROVE  Carried'
<1>1. UNCHANGED <<flight, felled>>
  BY DEF Frame
<1>2. CASE claims /\ k.attached /\ queue.new # 0
  BY <1>1, <1>2, Cancelling DEF Frame
<1>3. CASE ~(claims /\ k.attached /\ queue.new # 0)
  BY <1>1, <1>3, AgreementStays DEF Frame
<1> QED BY <1>2, <1>3

(* What the agent, the proofs of life and the clocks do.                   *)
LEMMA CarriedReplies ==
    ASSUME TypeInv, Carried,
           Reply \/ Sweep \/ GraceTimer \/ \E w \in waits : Proven(w) \/ Unproven(w)
    PROVE  Carried'
<1>1. chat \in Chat /\ n \in Nat /\ waits \subseteq Waits
  BY TypeParts, MarksAreNumbers DEF WaitsTyped
<1>2. CASE Reply
  <2>1. UNCHANGED <<flight, server, banner, felled, slips>> /\ n + 1 \in Replies
    BY <1>1, <1>2 DEF Reply, history, Replies, NotifyAssumption
  <2>2. CASE UNCHANGED <<chat, queue>>
    BY <2>1, <2>2, AgreementStays
  <2>3. CASE chat' = Fired(chat) /\ queue' = FireQueues(chat, n + 1)
    BY <1>1, <2>1, <2>3, Firing
  <2> QED BY <1>2, <2>2, <2>3 DEF Reply
<1>3. CASE Sweep
  <2>1. UNCHANGED <<flight, server, banner, felled, slips>>
    BY <1>3 DEF Sweep, history
  <2>2. CASE Unread(chat)
    <3>1. chat' = Buzzed(chat) /\ queue' = Announced(n, "unsaid")
      BY <1>3, <2>2 DEF Sweep
    <3>2. chat'.notified /\ queue'.new = n
      BY <1>1, <3>1 DEF Buzzed, Announced, Chat
    <3>3. n # 0
      <4>1. chat.heard \in Nat
        BY <1>1, MarksAreNumbers DEF Chat
      <4> QED BY <1>1, <2>2, <4>1 DEF Unread
    <3> QED BY <2>1, <3>2, <3>3, Announcing
  <2>3. CASE ~Unread(chat)
    BY <1>1, <1>3, <2>1, <2>3, AgreementStays DEF Sweep, Chat
  <2> QED BY <2>2, <2>3
<1>4. CASE GraceTimer
  BY <1>4, Flushing DEF GraceTimer, history
<1>5. ASSUME NEW w \in waits, Proven(w) PROVE Carried'
  <2>1. UNCHANGED <<n, flight, server, banner, felled>>
    BY <1>5 DEF Proven
  <2>2. CASE w.old
    BY <1>5, <2>2 DEF Proven, Slips, Carried
  <2>3. CASE ~w.old
    <3>1. w.r \in Marks
      BY <1>1, <1>5, MarksAreNumbers DEF Waits, Replies, Marks
    <3>2. chat' = Read(chat, w.r) /\ queue' = ReadQueues(chat, w.r)
          /\ (slips' = {} => slips = {})
      BY <1>5, <2>3 DEF Proven, Slips
    <3> QED BY <2>1, <3>1, <3>2, Reading
  <2> QED BY <2>2, <2>3
<1>6. ASSUME NEW w \in waits, Unproven(w) PROVE Carried'
  <2>1. UNCHANGED <<flight, server, banner, felled>>
    BY <1>6 DEF Unproven
  <2>2. CASE w.old
    BY <1>6, <2>2 DEF Unproven, Slips, Carried
  <2>3. CASE ~w.old
    <3>1. w.r \in Replies
      BY <1>1, <1>6 DEF Waits
    <3>2. chat' = Fired(chat) /\ queue' = FireQueues(chat, w.r)
          /\ (slips' = {} => slips = {})
      BY <1>6, <2>3 DEF Unproven, Fires, Slips
    <3> QED BY <1>1, <2>1, <3>1, <3>2, Firing
  <2> QED BY <2>2, <2>3
<1> QED BY <1>2, <1>3, <1>4, <1>5, <1>6

(* What the windows do on their way.                                       *)
LEMMA CarriedWindows ==
    ASSUME TypeInv, Carried, Flush \/ Arrives \/ Fails \/ FlushOut
    PROVE  Carried'
<1>0. /\ chat' = chat
      /\ flight.at = "none" => flight.what = Nothing
      /\ flight.at # "none" => flight.what.new # 0 \/ flight.what.dis
      /\ server.dis => server.new = 0
      /\ flight \in [at : {"none", "sent", "taken"}, what : Window]
      /\ queue \in Window /\ server \in [pending : BOOLEAN, new : Marks, dis : BOOLEAN]
  BY TypeParts DEF FlightTyped, QueueTyped, ServerTyped, Flush, Arrives, Fails, FlushOut, session
<1>1. Nothing.new = 0 /\ Nothing.dis = FALSE /\ Landed.what = Nothing /\ Landed.at = "none"
  BY DEF Nothing, Landed
<1>2. CASE Flush
  <2>1. UNCHANGED <<server, banner, felled, slips>> /\ flight.what = Nothing
        /\ flight'.what = queue /\ queue' = Nothing /\ flight'.at = "sent"
    BY <1>0, <1>2 DEF Flush, history
  <2> QED BY <1>0, <1>1, <2>1 DEF Carried, Handed, FlagAgrees, Promised, Recalled
<1>3. CASE Arrives
  <2>1. /\ UNCHANGED <<queue, banner, felled>> /\ server' = Kept(flight.what)
        /\ slips' = {} => slips = {} /\ ~(flight.what.dis /\ flight.what.new # 0)
        /\ flight' = Landed \/ (flight'.at = "taken" /\ flight'.what = flight.what)
        /\ flight.what.new # 0 \/ flight.what.dis
    BY <1>0, <1>3 DEF Arrives, Slips
  <2>2. CASE flight.what.dis
    <3>1. server'.new = 0 /\ server'.dis
      BY <2>1, <2>2 DEF Kept
    <3> QED BY <1>0, <1>1, <2>1, <2>2, <3>1 DEF Carried, Handed, FlagAgrees, Promised, Recalled
  <2>3. CASE ~flight.what.dis
    <3>1. server'.new = flight.what.new /\ ~server'.dis /\ flight.what.new # 0
      BY <2>1, <2>3 DEF Kept
    <3> QED BY <1>0, <1>1, <2>1, <2>3, <3>1 DEF Carried, Handed, FlagAgrees, Promised, Recalled
  <2> QED BY <2>2, <2>3
<1>4. CASE Fails
  <2>1. /\ UNCHANGED <<server, banner, felled>> /\ flight' = Landed
        /\ slips' = {} => slips = {} /\ (flight.what.new = 0 \/ queue.new = 0)
        /\ queue'.new = IF flight.what.new # 0 /\ ~queue.dis
                        THEN flight.what.new ELSE queue.new
        /\ queue'.dis = (queue.dis \/ flight.what.dis)
    BY <1>0, <1>4 DEF Fails, Requeues, Slips
  <2> QED BY <1>0, <1>1, <2>1 DEF Carried, Handed, FlagAgrees, Promised, Recalled
<1>5. CASE FlushOut
  <2>1. /\ UNCHANGED <<queue, flight, slips>>
        /\ server'.new = 0 /\ ~server'.dis
        /\ banner' = IF server.new # 0 THEN server.new ELSE 0
        /\ felled' = (felled /\ server.new = 0)
        /\ server.new # 0 \/ server.dis
    BY <1>0, <1>5 DEF FlushOut
  <2> QED BY <1>0, <2>1 DEF Carried, Handed, FlagAgrees, Promised, Recalled
<1> QED BY <1>2, <1>3, <1>4, <1>5


(* What the pages and the user do.                                         *)
LEMMA CarriedPages ==
    ASSUME TypeInv, Carried, NEW c \in Clients,
           \/ Connects(c) \/ Disconnects(c) \/ Drops(c)
           \/ Pongs(c) \/ Attaches(c) \/ Beats(c) \/ Opens(c) \/ Closes(c) \/ Hides(c) \/ Shows(c)
           \/ GoesTo(c) \/ Freezes(c) \/ Sees(c) \/ Matures(c) \/ Lapses(c)
    PROVE  Carried'
<1>1. CASE Connects(c) \/ Disconnects(c) \/ Drops(c)
  <2>1. UNCHANGED <<flight, server, banner, felled, slips>>
    BY <1>1 DEF Connects, Disconnects, Drops, history
  <2>2. \E k : Evaluates(k, FALSE)
    BY <1>1 DEF Connects, Disconnects, Drops
  <2> QED BY <2>1, <2>2, Flushing
<1>2. CASE Pongs(c) \/ Attaches(c) \/ Beats(c)
  <2>1. PICK k, claims : Sends(c, k, claims)
    BY <1>2 DEF Pongs, Attaches, Beats
  <2> QED BY <2>1, Framing DEF Sends
<1>3. CASE Hides(c) \/ Shows(c)
  <2>1. \/ Frame(c, Beaten(c, FALSE), FALSE) /\ UNCHANGED <<server, banner>>
        \/ Frame(c, Beaten(c, TRUE), TRUE) /\ UNCHANGED <<server, banner>>
        \/ Silently
    BY <1>3 DEF Hides, Shows
  <2>2. CASE Silently
    BY <2>2, AgreementStays DEF Silently, session, push, history
  <2> QED BY <2>1, <2>2, Framing
<1>4. CASE Opens(c) \/ GoesTo(c)
  <2>1. PICK there : Comes(c, there)
    BY <1>4 DEF Opens, GoesTo
  <2>2. UNCHANGED <<chat, queue, flight, slips>>
    BY <2>1 DEF Comes, session
  <2>3. CASE UNCHANGED <<server, banner, felled>>
    BY <2>2, <2>3, AgreementStays
  <2>4. CASE /\ banner' = banner \/ banner' = 0
             /\ server' = server \/ server' = [pending |-> FALSE, new |-> 0, dis |-> TRUE]
             /\ felled' = (felled \/ banner' # banner \/ server' # server)
    <3>1. server' # server => server'.new = 0 /\ server'.dis
      BY <2>4
    <3> QED BY <2>2, <2>4, <3>1 DEF Carried, Handed, FlagAgrees, Promised, Recalled
  <2> QED BY <2>1, <2>3, <2>4 DEF Comes
<1>5. CASE Closes(c) \/ Freezes(c) \/ Sees(c) \/ Matures(c) \/ Lapses(c)
  <2>1. UNCHANGED <<chat, queue, flight, server, banner, felled, slips>>
    BY <1>5 DEF Closes, Silently, Freezes, Sees, Matures, Lapses, Outside, session, push,
       history
  <2> QED BY <2>1, AgreementStays
<1> QED BY <1>1, <1>2, <1>3, <1>4, <1>5

(* What reading the chat, the mux and the engine's own death do.           *)
LEMMA CarriedRest ==
    ASSUME TypeInv, Carried,
           \/ \E r \in sights : Sighted(r)
           \/ ReadsAll \/ MarksUnread \/ Rebuild \/ Restart \/ Swipes
    PROVE  Carried'
<1>1. /\ chat \in Chat /\ n \in Marks /\ sights \subseteq 1 .. n
      /\ flight \in [at : {"none", "sent", "taken"}, what : Window]
      /\ flight.at = "none" => flight.what = Nothing
  BY TypeParts DEF PhoneTyped, FlightTyped
<1>2. ASSUME NEW r \in sights, Sighted(r) PROVE Carried'
  <2>1. r \in Marks
    BY <1>1 DEF Marks, NotifyAssumption
  <2>2. UNCHANGED <<n, flight, server, banner, felled>> /\ (slips' = {} => slips = {})
    BY <1>2 DEF Sighted, Slips
  <2> QED BY <1>2, <2>1, <2>2, Reading DEF Sighted
<1>3. CASE ReadsAll
  <2>1. UNCHANGED <<n, flight, server, banner, felled, slips>>
    BY <1>3 DEF ReadsAll, history
  <2> QED BY <1>1, <1>3, <2>1, Reading DEF ReadsAll
<1>4. CASE MarksUnread
  <2>1. UNCHANGED <<queue, flight, server, banner, felled, slips>>
    BY <1>4 DEF MarksUnread, push
  <2>2. PICK r \in 0 .. chat.heard - 1 : chat' = [chat EXCEPT !.heard = r, !.filed = n]
    BY <1>4 DEF MarksUnread
  <2>3. chat'.notified = chat.notified
    BY <1>1, <2>2 DEF Chat
  <2> QED BY <2>1, <2>3, AgreementStays
<1>5. CASE Rebuild
  <2>1. UNCHANGED <<queue, flight, server, banner, felled, slips>>
        /\ chat'.notified = chat.notified
    BY <1>1, <1>5 DEF Rebuild, push, Chat
  <2> QED BY <2>1, AgreementStays
<1>6. CASE Restart
  <2>1. /\ UNCHANGED <<server, banner, felled>>
        /\ queue' = Nothing /\ flight' = Landed
        /\ slips' = {} => /\ slips = {} /\ queue = Nothing /\ flight.at # "sent"
                         /\ chat'.notified = chat.notified
    BY <1>1, <1>6 DEF Restart, Slips, Chat
  <2>2. Nothing.new = 0 /\ Nothing.dis = FALSE /\ Landed.what = Nothing /\ Landed.at = "none"
    BY DEF Nothing, Landed
  <2> QED BY <1>1, <2>1, <2>2 DEF Carried, Handed, FlagAgrees, Promised, Recalled
<1>7. CASE Swipes
  <2>1. UNCHANGED <<chat, queue, flight, server, slips>> /\ banner' = 0 /\ felled' = TRUE
    BY <1>7 DEF Swipes, session
  <2> QED BY <2>1 DEF Carried, Handed, FlagAgrees, Promised, Recalled
<1> QED BY <1>2, <1>3, <1>4, <1>5, <1>6, <1>7

(* The flag agrees with the word under way, initially and after each step. *)
LEMMA CarriedInit == Init => Carried
  BY DEF Init, Carried, Handed, FlagAgrees, Recalled, Nothing

LEMMA CarriedStep == TypeInv /\ Carried /\ [Next]_vars => Carried'
<1> SUFFICES ASSUME TypeInv, Carried, [Next]_vars PROVE Carried'
  OBVIOUS
<1>1. CASE UNCHANGED vars
  BY <1>1, AgreementStays DEF vars, session, push, history
<1> QED BY <1>1, CarriedReplies, CarriedWindows, CarriedPages, CarriedRest DEF Next

(* While the engine believes that a banner stands, one does or is under    *)
(* way, or the user has had it, unless the code slipped.                   *)
THEOREM FlagCarried == Spec => []FlagIsCarried
<1> QED BY TypeInit, TypeStep, CarriedInit, CarriedStep, CarriedMeans, PTL DEF Spec

(* And while it believes that none does, word to take it down is under way.*)
THEOREM NoOrphan == Spec => []NoOrphanBanner
<1> QED BY TypeInit, TypeStep, CarriedInit, CarriedStep, CarriedMeans, PTL DEF Spec
=============================================================================
