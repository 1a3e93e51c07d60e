------------------------------- MODULE Notify -------------------------------
(***************************************************************************)
(* How a reply is announced.  The engine (chat/notify.ts) stays silent if   *)
(* somebody proves that he looks at the chat; holds a reply back while he   *)
(* is at the app, or has just left it; and queues a banner otherwise.  The  *)
(* queue goes out in windows to the app server (routes/push.ts), and from   *)
(* there in a window of its own to the phone.  Reading the chat anywhere    *)
(* (sessions/readstate.ts) takes the banner down.                           *)
(*                                                                         *)
(* There is one chat, and a phone that shows its banner.  The replies are   *)
(* numbered, and a number also stands for a place of the marker.            *)
(***************************************************************************)
EXTENDS Presence, FiniteSets

CONSTANTS
    Faults,      \* what may go wrong (see FaultKinds)
    MaxFaults,   \* bound: how many faults per behaviour
    MaxMoves,    \* bound: what the user does
    MaxReplies,  \* bound: replies of the agent
    MaxEvents    \* bound: faults, moves and replies together

\* freeze: a page stops running, and says nothing.  drop: a socket closes under
\* its page.  refuse: the app server does not take a window.  unsure: it does,
\* and its answer is lost.  rebuild: the mux reports, and the engine makes the
\* session anew.  restart: the engine does.  swipe: a banner is swiped away.
FaultKinds == {"freeze", "drop", "refuse", "unsure", "rebuild", "restart", "swipe"}

\* Where the code may lose an announcement, or leave one standing.  stale: who
\* waited for a proof, or for its end, held a session that a rebuild replaced.
\* partial: a reading up to one reply ends the clock of the ones behind it.
\* both: a window takes a banner and its dismissal along.  older: a window that
\* comes back overwrites the newer banner that is queued.  standing: a cancelled
\* banner puts the flag back to what does not hold.  restart: what is queued, or
\* held back, is in memory only, and what was saved may be older.
SlipKinds == {"stale", "partial", "both", "older", "standing", "restart"}

\* What may leave a reply without a clock or a banner: a rebuild, or the beat of
\* a page that has gone from the chat, and whose attach has not.
Stops == {"rebuild", "left"}

ASSUME NotifyAssumption ==
    /\ Faults \subseteq FaultKinds
    /\ MaxFaults \in Nat /\ MaxMoves \in Nat /\ MaxReplies \in Nat
    /\ MaxEvents \in Nat

VARIABLES
    page,     \* [Clients -> Page]: the pages, as they are
    n,        \* replies in the chat
    chat,     \* the session's marker, and what it knows of its banner
    ghost,    \* the session that a rebuild replaced, while somebody holds it
    waits,    \* proofs of life under way
    queue,    \* queuedNew and queuedDismiss
    flight,   \* the window that is on its way to the app server
    server,   \* the app server's pending, outNew and outDismiss
    banner,   \* on the phone: the reply whose text it shows, or 0
    sights,   \* sightings that have not reached the engine
    faults, moves,
    known,    \* history: the last reply that was on a screen, or in a banner
    slips,    \* history: of SlipKinds, where the code may lose an announcement
    felled,   \* history: the user or the app took a banner down, and none came since
    clockless \* history: of Stops, what took the clock of a reply nobody has seen

session == <<n, chat, ghost, waits>>
push == <<queue, flight, server, banner>>
counts == <<faults, moves>>
history == <<known, slips, felled, clockless>>
vars == <<presenceVars, page, session, push, sights, counts, history>>

Replies == 1 .. MaxReplies
Marks == 0 .. MaxReplies

\* hidden: out of sight, out of focus, or left alone for half an hour.
Page == [st : {"closed", "shown", "hidden"}, frozen : BOOLEAN, chat : BOOLEAN]
Chat == [heard : Marks, filed : Marks, notified : BOOLEAN, silent : BOOLEAN]
\* old: it holds the session that was replaced.  got: pages that sent a frame.
Waits == [r : Replies, old : BOOLEAN, got : SUBSET Clients]
\* 0 is no banner.  standing: one stood before the one that is queued; the
\* sweep and the flush do not say.
Window == [new : Marks, standing : {"unsaid", "no", "yes"}, dis : BOOLEAN]
Nothing == [new |-> 0, standing |-> "unsaid", dis |-> FALSE]

TypeOK ==
    /\ PresenceTypes
    /\ page \in [Clients -> Page]
    /\ n \in Marks
    /\ chat \in Chat /\ ghost \in Chat
    /\ waits \subseteq Waits
    /\ queue \in Window
    /\ flight \in [at : {"none", "sent", "taken"}, what : Window]
    /\ server \in [pending : BOOLEAN, new : Marks, dis : BOOLEAN]
    /\ banner \in 0 .. n /\ known \in 0 .. n
    /\ sights \subseteq 1 .. n
    /\ faults \in 0 .. MaxFaults /\ moves \in 0 .. MaxMoves
    /\ slips \subseteq SlipKinds /\ felled \in BOOLEAN /\ clockless \subseteq Stops

Init ==
    /\ PresenceInit
    /\ page = [c \in Clients |-> [st |-> "closed", frozen |-> FALSE, chat |-> FALSE]]
    /\ n = 0
    /\ chat = [heard |-> 0, filed |-> 0, notified |-> FALSE, silent |-> FALSE]
    /\ ghost = chat
    /\ waits = {}
    /\ queue = Nothing
    /\ flight = [at |-> "none", what |-> Nothing]
    /\ server = [pending |-> FALSE, new |-> 0, dis |-> FALSE]
    /\ banner = 0
    /\ sights = {}
    /\ faults = 0 /\ moves = 0
    /\ known = 0 /\ slips = {} /\ felled = FALSE /\ clockless = {}

Budget == faults + moves + n < MaxEvents
Strikes(f) == f \in Faults /\ faults < MaxFaults /\ Budget /\ faults' = faults + 1
Slips(k, b) == slips' = IF b THEN slips \cup {k} ELSE slips
Moves == moves < MaxMoves /\ Budget /\ moves' = moves + 1

-----------------------------------------------------------------------------
(* The marker and the queue.  S is a session, the live one or its ghost.     *)

Unread(S) == n > S.heard
FiledAndQuiet(S) == S.filed # 0 /\ n <= S.filed

\* queueNotify() and sendDismissal() on the queue.
Announced(r, standing) ==
    [new |-> r, dis |-> FALSE,
     standing |-> IF queue.standing # "unsaid" THEN queue.standing ELSE standing]
Withdrawn == [Nothing EXCEPT !.dis = TRUE]

\* markRead(): forward only; what was held back has been seen; the banner goes
\* once nothing is unread.
Read(S, r) ==
    IF r <= S.heard THEN S
    ELSE [heard |-> r, filed |-> 0, silent |-> FALSE,
          notified |-> S.notified /\ r < n]
NotTakenDown(S, r) == queue
ReadQueues(S, r) == IF r > S.heard /\ S.notified /\ r >= n THEN Withdrawn ELSE queue

\* fire(): held back while he is at the app, uses it, or has just left it.
Holds == AppConnected(sock) \/ RecentlyUsed(sock) \/ away
FiredUnclocked(S) == IF Holds THEN S ELSE [S EXCEPT !.silent = FALSE, !.notified = TRUE]
Fired(S) == IF Holds THEN [S EXCEPT !.silent = TRUE]
            ELSE [S EXCEPT !.silent = FALSE, !.notified = TRUE]
FireQueues(S, r) ==
    IF Holds THEN queue ELSE Announced(r, IF S.notified THEN "yes" ELSE "no")

\* flushUnread() and what the ceiling does: the newest reply is the banner's.
Owed(S) == ~S.notified /\ ~FiledAndQuiet(S) /\ Unread(S)
Buzzed(S) == [S EXCEPT !.silent = FALSE, !.notified = TRUE]

\* onPresenceChange(), with the sockets k.
Evaluates(k, over) ==
    \E v \in Verdicts(k, over) :
       /\ sock' = k
       /\ away' = v.away
       /\ timer' = v.timer
       /\ IF v.flush /\ Owed(chat)
          THEN chat' = Buzzed(chat) /\ queue' = Announced(n, "unsaid")
          ELSE UNCHANGED <<chat, queue>>

\* A banner is on its way to the phone, or there, and no dismissal behind it.
Stands ==
    /\ ~queue.dis
    /\ \/ flight.what.new # 0
       \/ (server.new # 0 \/ banner # 0) /\ ~flight.what.dis /\ ~server.dis

\* cancelQueued(): a visible page on the chat has what the banner would say.
Cancels == /\ queue' = [Nothing EXCEPT !.dis = queue.dis]
           /\ chat' = [chat EXCEPT !.notified = (queue.standing = "yes")]

-----------------------------------------------------------------------------
(* The agent, and the proof of life. *)

Claimants(k) == {c \in Clients : k[c].up /\ k[c].attached /\ k[c].visible}

Fires(w) ==
    IF w.old
    THEN /\ ghost' = Fired(ghost) /\ queue' = FireQueues(ghost, w.r)
         /\ UNCHANGED chat
    ELSE /\ chat' = Fired(chat) /\ queue' = FireQueues(chat, w.r)
         /\ UNCHANGED ghost

\* A reply.  Who claims to watch is asked for proof; a claim older than the
\* page's own heartbeat is none.
Reply ==
    /\ n < MaxReplies /\ Budget
    /\ n' = n + 1
    /\ \/ /\ \A c \in Claimants(sock) : ~sock[c].lively
          /\ chat' = Fired(chat)
          /\ queue' = FireQueues(chat, n + 1)
          /\ UNCHANGED <<sock, waits>>
       \/ /\ Claimants(sock) # {}
          /\ sock' = [c \in Clients |-> IF c \in Claimants(sock)
                                        THEN [sock[c] EXCEPT !.lively = FALSE]
                                        ELSE sock[c]]
          /\ waits' = waits \cup {[r |-> n + 1, old |-> FALSE, got |-> {}]}
          /\ UNCHANGED <<chat, queue>>
    /\ UNCHANGED <<away, timer, page, ghost, flight, server, banner, sights,
                   counts, history>>

\* A page that claims to watch has sent a frame since: the reply is read.
Proven(w) ==
    /\ w \in waits
    /\ w.got \cap Claimants(sock) # {}
    /\ waits' = waits \ {w}
    /\ LET S == IF w.old THEN ghost ELSE chat IN
       /\ queue' = ReadQueues(S, w.r)
       /\ IF w.old THEN ghost' = Read(S, w.r) /\ UNCHANGED chat
          ELSE chat' = Read(S, w.r) /\ UNCHANGED ghost
       /\ Slips(IF w.old THEN "stale" ELSE "partial", w.old \/ (w.r < n /\ S.silent))
    /\ UNCHANGED <<presenceVars, page, n, flight, server, banner, sights, counts,
                   known, felled, clockless>>

\* Nobody claims to watch any more, or the time for a proof is over.
Unproven(w) ==
    /\ w \in waits
    /\ w.got \cap Claimants(sock) = {}
    /\ waits' = waits \ {w}
    /\ Fires(w)
    /\ Slips("stale", w.old)
    /\ UNCHANGED <<presenceVars, page, n, flight, server, banner, sights, counts,
                   known, felled, clockless>>

\* sweepCeiling(): a reply held back for ten minutes is announced, whatever
\* presence says; while a banner stands the clock runs on.
Sweep ==
    /\ chat.silent /\ ~chat.notified
    /\ IF Unread(chat)
       THEN chat' = Buzzed(chat) /\ queue' = Announced(n, "unsaid")
       ELSE chat' = [chat EXCEPT !.silent = FALSE] /\ UNCHANGED queue
    /\ UNCHANGED <<presenceVars, page, n, ghost, waits, flight, server, banner,
                   sights, counts, history>>

GraceTimer ==
    /\ \/ timer = "deadline"
       \/ timer \in Clients /\ sock[timer].settled
    /\ Evaluates(sock, timer = "deadline")
    /\ UNCHANGED <<page, n, ghost, waits, flight, server, banner, sights, counts,
                   history>>

-----------------------------------------------------------------------------
(* The windows. *)

Landed == [at |-> "none", what |-> Nothing]

\* flushBatch(): the engine's, one at a time, for it gives up before the next.
Flush ==
    /\ flight.at = "none" /\ (queue.new # 0 \/ queue.dis)
    /\ flight' = [at |-> "sent", what |-> queue]
    /\ queue' = Nothing
    /\ UNCHANGED <<presenceVars, page, session, server, banner, sights, counts, history>>

\* The app server keeps the new banner, then drops what is dismissed.
Kept(w) ==
    IF w.dis THEN [pending |-> FALSE, new |-> 0, dis |-> TRUE]
    ELSE [pending |-> TRUE, new |-> w.new, dis |-> FALSE]

Abandons(w) == UNCHANGED <<queue, slips>> /\ flight' = Landed

\* requeue(): nothing of the window w is lost.
Requeues(w) ==
    /\ queue' = [new |-> IF w.new # 0 /\ ~queue.dis THEN w.new ELSE queue.new,
                 standing |-> IF w.new # 0 /\ ~queue.dis THEN w.standing ELSE queue.standing,
                 dis |-> queue.dis \/ w.dis]
    /\ Slips("older", w.new # 0 /\ queue.new # 0)
    /\ flight' = Landed

\* The window is taken, and the answer comes or is lost; or it is refused.
Arrives ==
    /\ flight.at = "sent"
    /\ server' = Kept(flight.what)
    /\ Slips("both", flight.what.dis /\ flight.what.new # 0)
    /\ \/ flight' = Landed /\ UNCHANGED faults
       \/ Strikes("unsure") /\ flight' = [flight EXCEPT !.at = "taken"]
    /\ UNCHANGED <<presenceVars, page, session, queue, banner, sights, moves, known,
                   felled, clockless>>

Fails ==
    /\ \/ flight.at = "sent" /\ Strikes("refuse")
       \/ flight.at = "taken" /\ UNCHANGED faults
    /\ Requeues(flight.what)
    /\ UNCHANGED <<presenceVars, page, session, server, banner, sights, moves, known,
                   felled, clockless>>

\* flushOut(): the app server's.  The phone dismisses, then shows.
FlushOut ==
    /\ server.new # 0 \/ server.dis
    /\ server' = [server EXCEPT !.new = 0, !.dis = FALSE]
    /\ banner' = IF server.new # 0 THEN server.new ELSE 0
    /\ known' = IF server.new > known THEN server.new ELSE known
    /\ felled' = (felled /\ server.new = 0)
    /\ UNCHANGED <<presenceVars, page, session, queue, flight, sights, counts, slips,
                   clockless>>

-----------------------------------------------------------------------------
(* The pages. *)

Runs(c) == page[c].st # "closed" /\ ~page[c].frozen
Looks(c) == Runs(c) /\ page[c].st = "shown" /\ page[c].chat

Connects(c) ==
    /\ Runs(c) /\ ~sock[c].up
    /\ Evaluates([sock EXCEPT ![c] = Minted], FALSE)
    /\ UNCHANGED <<page, n, ghost, waits, flight, server, banner, sights, counts, history>>

\* The engine learns that a socket is gone.
Disconnects(c) ==
    /\ sock[c].up
    /\ page[c].st = "closed" \/ page[c].frozen
    /\ Evaluates([sock EXCEPT ![c] = Gone], FALSE)
    /\ waits' = {[w EXCEPT !.got = @ \ {c}] : w \in waits}
    /\ UNCHANGED <<page, n, ghost, flight, server, banner, sights, counts, history>>

Drops(c) ==
    /\ Strikes("drop") /\ sock[c].up
    /\ Evaluates([sock EXCEPT ![c] = Gone], FALSE)
    /\ waits' = {[w EXCEPT !.got = @ \ {c}] : w \in waits}
    /\ UNCHANGED <<page, n, ghost, flight, server, banner, sights, moves, history>>

\* A frame of c, and what dispatchClientFrame() makes of it: a claim to be
\* visible cancels the banner that waits for its window.
Frame(c, k, claims) ==
    /\ sock' = [sock EXCEPT ![c] = k]
    /\ waits' = {[w EXCEPT !.got = @ \cup {c}] : w \in waits}
    /\ IF claims /\ k.attached /\ queue.new # 0
       THEN /\ Cancels
            /\ known' = IF Looks(c)' THEN n ELSE known
            /\ clockless' = IF Looks(c)' THEN clockless ELSE clockless \cup {"left"}
            /\ Slips("standing", (queue.standing = "yes") # Stands)
       ELSE UNCHANGED <<chat, queue, known, slips, clockless>>
    /\ UNCHANGED <<away, timer, n, ghost, flight, felled>>

\* A frame is sent for what it says that is new, or for what is made of it.
Sends(c, k, claims) ==
    /\ Runs(c) /\ sock[c].up
    /\ \/ k # sock[c]
       \/ \E w \in waits : c \notin w.got
       \/ claims /\ k.attached /\ queue.new # 0
    /\ UNCHANGED <<page, server, banner, sights, counts>>
    /\ Frame(c, k, claims)

Pongs(c) == Sends(c, Alive(c), FALSE)

\* The attach follows when the chat's rows have been read: until then the
\* engine has the page where it was.
Attaches(c) == Sends(c, Attached(c, page[c].chat), FALSE)

Beats(c) == page[c].st = "shown" /\ Sends(c, Beaten(c, TRUE), TRUE)

\* The user opens a page, brings one back, puts it down, closes it, or goes
\* to another chat.
Turns(c, p) ==
    /\ Moves
    /\ page' = [page EXCEPT ![c] = p]
    /\ UNCHANGED <<sights, faults>>

\* takeBannerDown(): who opens the chat clears the phone's own banner, and the
\* app server hears of it.  He has gone to look: he knows.
Comes(c, there) ==
    /\ IF there
       THEN /\ banner' = IF c \in Desktops THEN banner ELSE 0
            /\ server' = IF server.pending
                         THEN [pending |-> FALSE, new |-> 0, dis |-> TRUE] ELSE server
            /\ known' = n
            /\ felled' = (felled \/ banner' # banner \/ server' # server)
       ELSE UNCHANGED <<banner, server, known, felled>>
    /\ UNCHANGED <<presenceVars, session, queue, flight, slips, clockless>>

Silently == UNCHANGED <<presenceVars, session, push, history>>

Opens(c) ==
    /\ page[c].st = "closed"
    /\ \E b \in BOOLEAN : /\ Turns(c, [st |-> "shown", frozen |-> FALSE, chat |-> b])
                         /\ Comes(c, b)

GoesTo(c) ==
    /\ page[c].st = "shown" /\ Runs(c)
    /\ Turns(c, [page[c] EXCEPT !.chat = ~@])
    /\ Comes(c, ~page[c].chat)

Closes(c) ==
    /\ page[c].st # "closed"
    /\ Turns(c, [st |-> "closed", frozen |-> FALSE, chat |-> FALSE])
    /\ Silently

Hides(c) ==
    /\ page[c].st = "shown"
    /\ Turns(c, [page[c] EXCEPT !.st = "hidden"])
    /\ IF sock[c].up
       THEN Frame(c, Beaten(c, FALSE), FALSE) /\ UNCHANGED <<server, banner>>
       ELSE Silently

Shows(c) ==
    /\ page[c].st = "hidden"
    /\ Turns(c, [page[c] EXCEPT !.st = "shown", !.frozen = FALSE])
    /\ IF sock[c].up
       THEN Frame(c, Beaten(c, TRUE), TRUE) /\ UNCHANGED <<server, banner>>
       ELSE Silently

\* The page is put down and stops running, and says nothing.
Freezes(c) ==
    /\ Strikes("freeze")
    /\ page[c].st # "closed" /\ ~page[c].frozen
    /\ page' = [page EXCEPT ![c].st = "hidden", ![c].frozen = TRUE]
    /\ UNCHANGED <<presenceVars, session, push, sights, moves, history>>

\* What is on the screen has been seen; the engine hears of it when it can.
Sees(c) ==
    /\ Looks(c) /\ sock[c].up /\ sock[c].attached
    /\ n > known \/ n > chat.heard
    /\ n \notin sights
    /\ known' = n
    /\ sights' = sights \cup {n}
    /\ UNCHANGED <<presenceVars, page, session, push, counts, slips, felled, clockless>>

\* onHeard(): a sighting arrives, maybe late.
Sighted(r) ==
    /\ r \in sights
    /\ \E c \in Clients : Runs(c) /\ sock[c].up
    /\ sights' = sights \ {r}
    /\ chat' = Read(chat, r)
    /\ queue' = ReadQueues(chat, r)
    /\ Slips("partial", r > chat.heard /\ r < n /\ chat.silent)
    /\ UNCHANGED <<presenceVars, page, n, ghost, waits, flight, server, banner, counts,
                   known, felled, clockless>>

\* markAllRead(), or a message of his own: everything is read.
ReadsAll ==
    /\ Moves /\ Unread(chat)
    /\ chat' = Read(chat, n)
    /\ queue' = ReadQueues(chat, n)
    /\ UNCHANGED <<presenceVars, page, n, ghost, waits, flight, server, banner, sights,
                   faults, history>>

\* markUnread() and setHeardBack(): he puts the marker back himself.
MarksUnread ==
    /\ Moves
    /\ \E r \in 0 .. chat.heard - 1 : chat' = [chat EXCEPT !.heard = r, !.filed = n]
    /\ known' = n
    /\ UNCHANGED <<presenceVars, page, n, ghost, waits, push, sights, faults, slips,
                   felled, clockless>>

-----------------------------------------------------------------------------
(* The engine. *)

\* The mux reports: the session is made anew, without the clock.  Who waits
\* for a proof keeps the old one.  Bound: one old session at a time.
Rebuild ==
    /\ Strikes("rebuild")
    /\ \A w \in waits : ~w.old
    /\ ghost' = IF waits = {} THEN ghost ELSE chat
    /\ waits' = {[w EXCEPT !.old = TRUE] : w \in waits}
    /\ chat' = [chat EXCEPT !.silent = FALSE]
    /\ clockless' = IF chat.silent THEN clockless \cup {"rebuild"} ELSE clockless
    /\ UNCHANGED <<presenceVars, page, n, push, sights, moves, known, slips, felled>>

\* The engine dies and starts.  The marker and the flag are on disk, but a save
\* is put off for a moment: what is found may be older.
Saved == [heard : 0 .. n, filed : 0 .. n, notified : BOOLEAN, silent : {FALSE}]

Restart ==
    /\ Strikes("restart")
    /\ sock' = [c \in Clients |-> Gone] /\ away' = FALSE /\ timer' = "none"
    /\ chat' \in Saved
    /\ waits' = {}
    /\ queue' = Nothing
    /\ flight' = Landed
    /\ Slips("restart", \/ chat' # chat \/ Owed(chat) \/ waits # {}
                       \/ queue # Nothing \/ flight.at = "sent")
    /\ UNCHANGED <<page, n, ghost, server, banner, sights, moves, known, felled, clockless>>

Swipes ==
    /\ Strikes("swipe") /\ banner # 0
    /\ banner' = 0 /\ felled' = TRUE
    /\ UNCHANGED <<presenceVars, page, session, queue, flight, server, sights, moves,
                   known, slips, clockless>>

-----------------------------------------------------------------------------

Outside == UNCHANGED <<page, session, push, sights, counts, history>>
Matures(c) == Settles(c) /\ Outside
Lapses(c) == (Forgotten(c) \/ (page[c].st # "shown" /\ Overdue(c))) /\ Outside

Next ==
    \/ Reply \/ Sweep \/ GraceTimer
    \/ \E w \in waits : Proven(w) \/ Unproven(w)
    \/ Flush \/ Arrives \/ Fails \/ FlushOut
    \/ \E c \in Clients : \/ Connects(c) \/ Disconnects(c) \/ Drops(c)
                          \/ Pongs(c) \/ Attaches(c) \/ Beats(c) \/ Opens(c) \/ Closes(c) \/ Hides(c) \/ Shows(c)
                          \/ GoesTo(c) \/ Freezes(c) \/ Sees(c) \/ Matures(c) \/ Lapses(c)
    \/ \E r \in sights : Sighted(r)
    \/ ReadsAll \/ MarksUnread \/ Rebuild \/ Restart \/ Swipes

\* Timers fire, and windows go out and are answered.  The user need do nothing,
\* a socket may stay half open, and a sighting may never arrive.
Fairness ==
    /\ WF_vars(Sweep) /\ WF_vars(GraceTimer)
    /\ WF_vars(\E w \in waits : Proven(w) \/ Unproven(w))
    /\ WF_vars(Flush) /\ WF_vars(Arrives)
    /\ WF_vars(Fails /\ flight.at = "taken") /\ WF_vars(FlushOut)

Spec == Init /\ [][Next]_vars /\ Fairness

\* Constraint of the runs: nothing is promised from there on.
Undisturbed == slips = {}

-----------------------------------------------------------------------------

\* The flag tells the truth (the never-drop rule, lines 661 to 664): while the
\* engine believes that a banner stands, one does, or is on its way, or he has
\* seen the chat and word of it is.
FlagIsCarried ==
    slips # {} \/ (chat.notified =>
                  \/ queue.new # 0 \/ flight.what.new # 0 \/ server.new # 0
                  \/ banner # 0 \/ felled)

\* No banner is left standing on the phone: while the engine believes that none
\* does, word to take it down is on its way.
NoOrphanBanner ==
    slips # {} \/ (banner # 0 /\ ~chat.notified =>
                  queue.dis \/ flight.what.dis \/ server.dis)

\* A reply does not stay silent for ever: it is read, filed, seen, or a banner
\* stands; and where its clock was lost, a page is still connected.
EveryReplyIsTold ==
    \A r \in Replies :
       []<>(\/ n < r \/ chat.heard >= r \/ known >= r
            \/ banner # 0 \/ slips # {} \/ (felled /\ chat.notified)
            \/ clockless # {} /\ \E c \in Clients : sock[c].up)

\* The same with no exception for a rebuild: a message is announced within the
\* ceiling "of arriving, or it was read before then" (lines 750 and 751).
CeilingHolds ==
    \A r \in Replies :
       []<>(\/ n < r \/ chat.heard >= r \/ known >= r
            \/ banner # 0 \/ slips # {} \/ (felled /\ chat.notified)
            \/ "left" \in clockless /\ \E c \in Clients : sock[c].up)
=============================================================================
