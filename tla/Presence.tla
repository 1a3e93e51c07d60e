------------------------------ MODULE Presence ------------------------------
(***************************************************************************)
(* Is he at the app?  What an engine knows of the pages that are connected  *)
(* to it (sessions/presence.ts), and the grace it waits out after the last  *)
(* of them has gone, before it owes him what it held back.                  *)
(*                                                                         *)
(* Time is abstract: a page has settled or not, is silent for longer than   *)
(* its own heartbeat or not, and a timer that is armed fires.               *)
(***************************************************************************)
EXTENDS Naturals

CONSTANTS
    Clients,    \* pages, each with one socket at a time
    Desktops    \* those on a laptop; the others are phones, and show banners

ASSUME PresenceAssumption ==
    /\ Desktops \subseteq Clients
    /\ Clients \cap {"none", "deadline"} = {}

VARIABLES
    sock,   \* [Clients -> Sock]: the sockets, as the engine has them
    away,   \* awaySince is set: the grace runs
    timer   \* graceTimer: "none", for the deadline, or for a page to settle

presenceVars == <<sock, away, timer>>

\* visible and attached: what the page said last.  settled: open for stableMs.
\* lively: a frame came since the last poke, and within a heartbeat.  recent:
\* a laptop that was visible within recentUseMs.
Sock == [up : BOOLEAN, visible : BOOLEAN, attached : BOOLEAN, settled : BOOLEAN,
         lively : BOOLEAN, recent : BOOLEAN]
Gone == [up |-> FALSE, visible |-> FALSE, attached |-> FALSE, settled |-> FALSE,
         lively |-> FALSE, recent |-> FALSE]
\* Until a page says otherwise, it is taken to be visible.
Minted == [Gone EXCEPT !.up = TRUE, !.visible = TRUE, !.lively = TRUE]

PresenceTypes ==
    /\ sock \in [Clients -> Sock]
    /\ away \in BOOLEAN
    /\ timer \in {"none", "deadline"} \cup Clients
    /\ \A c \in Clients : ~sock[c].up => sock[c] = Gone
    /\ away => timer # "none"
    /\ timer = "deadline" => away

PresenceInit ==
    /\ sock = [c \in Clients |-> Gone]
    /\ away = FALSE
    /\ timer = "none"

Present(k, c) == k[c].up /\ k[c].lively /\ k[c].visible
AppConnected(k) == \E c \in Clients : Present(k, c) /\ k[c].settled
RecentlyUsed(k) == \E c \in Clients : k[c].up /\ ~k[c].visible /\ k[c].recent

\* nextStableAt(): the pages one of which will be the first to count.
Young(k) == {c \in Clients : Present(k, c) /\ ~k[c].settled}

\* What onPresenceChange() may leave, given the sockets k: with no page that
\* counts, and none that soon may, the grace begins; it goes on while pages
\* come and go; over says that it has run out.
Verdicts(k, over) ==
    LET V(a, t, f) == [away |-> a, timer |-> t, flush |-> f] IN
    IF AppConnected(k) THEN {V(FALSE, "none", FALSE)}
    ELSE IF ~away /\ Young(k) # {} THEN {V(FALSE, c, FALSE) : c \in Young(k)}
    ELSE IF away /\ over THEN {V(FALSE, "none", TRUE)}
    ELSE {V(TRUE, t, FALSE) : t \in {"deadline"} \cup Young(k)}

SettlesAnyway(c) ==
    /\ ~sock[c].settled
    /\ sock' = [sock EXCEPT ![c].settled = TRUE]
    /\ UNCHANGED <<away, timer>>

\* Time: a page has been open for stableMs; a page that does not beat is
\* overdue; a laptop was last visible long ago.
Settles(c) ==
    /\ sock[c].up /\ ~sock[c].settled
    /\ sock' = [sock EXCEPT ![c].settled = TRUE]
    /\ UNCHANGED <<away, timer>>

Overdue(c) ==
    /\ sock[c].lively
    /\ sock' = [sock EXCEPT ![c].lively = FALSE]
    /\ UNCHANGED <<away, timer>>

Forgotten(c) ==
    /\ sock[c].recent /\ ~sock[c].visible
    /\ sock' = [sock EXCEPT ![c].recent = FALSE]
    /\ UNCHANGED <<away, timer>>

\* Any frame of c is a sign of life.  An attach says whether c has the chat
\* open; a beat, whether it shows, and no more.
Alive(c) == [sock[c] EXCEPT !.lively = TRUE]

Attached(c, there) == [Alive(c) EXCEPT !.attached = there]

Beaten(c, visible) ==
    [Alive(c) EXCEPT
        !.visible = visible,
        !.recent = (c \in Desktops /\ (visible \/ sock[c].visible)) \/ @]
=============================================================================
