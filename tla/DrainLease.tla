----------------------------- MODULE DrainLease -----------------------------
(***************************************************************************)
(* Which of an origin's tabs runs the drain (app engine/sync/lease.ts).    *)
(* With Web Locks the holder of the lock leads, and a follower that hears  *)
(* no beat of it on the BroadcastChannel takes the lock with steal; where  *)
(* the locks are missing the tabs elect over the channel alone.            *)
(*                                                                         *)
(* A tab runs its tasks one at a time: the answers of the browser's lock   *)
(* manager, frames of the channel, its timers.  The tasks of a frozen tab  *)
(* wait, and the wall clock does not.  Time passes in ticks; a running tab *)
(* is done with what is due before the next one.                           *)
(***************************************************************************)
EXTENDS Naturals, Sequences, FiniteSets

CONSTANTS
    Tabs,          \* the tabs, by their selfId
    HEARTBEAT_MS,  \* in ticks
    LEASE_TTL_MS,  \* in ticks
    Jitter,        \* what the random part of a delay may be, in ticks
    MaxMoves       \* bound: freezes and closes per behaviour

ASSUME LeaseAssumption ==
    /\ Tabs \subseteq Nat \ {0}
    /\ HEARTBEAT_MS \in Nat \ {0}
    /\ LEASE_TTL_MS \in Nat \ {0}
    /\ Jitter \subseteq Nat /\ Jitter # {}
    /\ MaxMoves \in Nat

VARIABLES
    locks,    \* whether the browser has Web Locks
    page,     \* [Tabs -> Pages]
    tab,      \* [Tabs -> Local]: the module's variables in each tab
    heard,    \* [Tabs -> SUBSET Tabs]: whose beats wait to be delivered
    lock,     \* the browser's lock manager (see Manager)
    moves,    \* freezes and closes so far
    rivalry   \* [Tabs -> Nat]: history: ticks for which the tab has been free to
              \* write beside one of a lower id, both running all along

vars == <<locks, page, tab, heard, lock, moves, rivalry>>

Pages == {"closed", "running", "frozen"}
Delays == {LEASE_TTL_MS + j : j \in Jitter}

(* A tab's state: leader; held, the generation it leads through, 0 for     *)
(* none; pending, its requests without an answer; timer, its claim or      *)
(* steal timer; beat, the time since lastBeatAt, counted while it leads.   *)
NoTimer == [on |-> FALSE, age |-> 0, delay |-> 0]
Follower == [leader |-> FALSE, held |-> 0, pending |-> 0, timer |-> NoTimer,
             beat |-> 0]
Local == [leader : BOOLEAN, held : Nat, pending : Nat,
          timer : [on : BOOLEAN, age : Nat, delay : Nat], beat : Nat]

(* The manager: the request that has the lock, the requests that wait, and *)
(* the answers each tab has not handled yet.                               *)
Nobody == [by |-> 0, gen |-> 0]
Requests == [by : Tabs, gen : Nat]
Answers == [t : {"granted", "broken", "released"}, gen : Nat]
Manager == [owner : Requests \cup {Nobody}, queue : Seq(Requests),
            events : [Tabs -> Seq(Answers)]]

TypeOK ==
    /\ locks \in BOOLEAN
    /\ page \in [Tabs -> Pages]
    /\ tab \in [Tabs -> Local]
    /\ heard \in [Tabs -> SUBSET Tabs]
    /\ lock \in Manager
    /\ moves \in Nat
    /\ rivalry \in [Tabs -> Nat]

Init ==
    /\ locks \in BOOLEAN
    /\ page = [t \in Tabs |-> "closed"]
    /\ tab = [t \in Tabs |-> Follower]
    /\ heard = [t \in Tabs |-> {}]
    /\ lock = [owner |-> Nobody, queue |-> <<>>,
               events |-> [t \in Tabs |-> <<>>]]
    /\ moves = 0
    /\ rivalry = [t \in Tabs |-> 0]

-----------------------------------------------------------------------------
(* The browser's lock manager: m is its state, r a request. *)

Tell(m, r, what) ==
    [m EXCEPT !.events[r.by] = Append(@, [t |-> what, gen |-> r.gen])]

\* The lock is free: the first request that waits has it.
Grant(m) ==
    IF m.queue = <<>> THEN m
    ELSE Tell([m EXCEPT !.owner = Head(m.queue), !.queue = Tail(m.queue)],
              Head(m.queue), "granted")

Queued(m, r) ==
    LET n == [m EXCEPT !.queue = Append(@, r)]
    IN IF m.owner = Nobody THEN Grant(n) ELSE n

Stolen(m, r) ==
    LET n == IF m.owner = Nobody THEN m ELSE Tell(m, m.owner, "broken")
    IN Tell([n EXCEPT !.owner = r], r, "granted")

\* The callback's promise has settled; a lock stolen since is not there to free.
Released(m, r) ==
    IF m.owner # r THEN m
    ELSE Tell(Grant([m EXCEPT !.owner = Nobody]), r, "released")

\* The requests but the one of t: a tab waits with one at most.
Without(q, t) ==
    IF \A i \in DOMAIN q : q[i].by # t THEN q
    ELSE LET k == CHOOSE i \in DOMAIN q : q[i].by = t
         IN [i \in 1..(Len(q) - 1) |-> IF i < k THEN q[i] ELSE q[i + 1]]

\* The browser frees what a page that goes away had.
Gone(m, t) ==
    LET n == [m EXCEPT !.queue = Without(@, t), !.events[t] = <<>>]
    IN IF m.owner.by # t THEN n ELSE Grant([n EXCEPT !.owner = Nobody])

-----------------------------------------------------------------------------
(* The parts of lease.ts.  s is a pair [me, m]: the tab's variables and the *)
(* manager, as one task changes them.                                      *)

Lapsed(me) == me.beat > LEASE_TTL_MS

Armed(d) == [on |-> TRUE, age |-> 0, delay |-> d]

\* Generations still spoken of; a new request takes another.
InUse(t, s) ==
    {s.me.held, s.m.owner.gen} \cup {s.m.queue[i].gen : i \in DOMAIN s.m.queue}
    \cup {s.m.events[t][i].gen : i \in DOMAIN s.m.events[t]}

NewGen(t, s) ==
    CHOOSE g \in 1..(Cardinality(InUse(t, s)) + 1) : g \notin InUse(t, s)

RequestLock(t, s, steal) ==
    LET r == [by |-> t, gen |-> NewGen(t, s)]
    IN IF ~steal /\ s.me.pending > 0 THEN s
       ELSE [me |-> [s.me EXCEPT !.pending = @ + 1],
             m |-> IF steal THEN Stolen(s.m, r) ELSE Queued(s.m, r)]

YieldTo(me) == [me EXCEPT !.leader = FALSE, !.beat = 0]

\* Mutant of HandBack: the lock is given back and the tab leads on.
HandBackLeading(t, s) ==
    [me |-> [s.me EXCEPT !.leader = TRUE],
     m |-> Released(s.m, [by |-> t, gen |-> s.me.held])]

HandBack(t, s) ==
    [me |-> [s.me EXCEPT !.held = 0],
     m |-> Released(s.m, [by |-> t, gen |-> s.me.held])]

Rearm(s, d) == [s EXCEPT !.me.timer = Armed(d)]

\* This tab led and was not running for longer than the TTL.
Lapse(t, s, d) ==
    LET down == [s EXCEPT !.me = [YieldTo(@) EXCEPT !.timer = NoTimer]]
    IN IF s.me.held = 0 THEN Rearm(down, d)
       ELSE Rearm(RequestLock(t, HandBack(t, down), FALSE), d)

\* onLockRequestDone, for a request this tab does not lead through.
RequestDone(t, s, d) ==
    IF s.me.leader \/ s.me.held # 0 THEN s
    ELSE Rearm(RequestLock(t, s, FALSE), d)

Become(me) == [me EXCEPT !.leader = TRUE, !.beat = 0, !.timer = NoTimer]

\* A frame reaches every other tab that is there.
Posted(t) ==
    heard' = [u \in Tabs |-> IF u # t /\ page[u] # "closed" THEN heard[u] \cup {t}
                                                           ELSE heard[u]]

Now(t) == [me |-> tab[t], m |-> lock]

Set(t, s) == /\ tab' = [tab EXCEPT ![t] = s.me]
             /\ lock' = s.m

-----------------------------------------------------------------------------
(* The tasks of a running tab. *)

\* start: queue for the lock, or listen before claiming.
Open(t) ==
    /\ page[t] = "closed"
    /\ page' = [page EXCEPT ![t] = "running"]
    /\ \E d \in Delays :
         Set(t, Rearm(IF locks THEN RequestLock(t, Now(t), FALSE) ELSE Now(t), d))
    /\ UNCHANGED <<locks, heard, moves, rivalry>>

\* The next answer of the lock manager, taken off the tab's queue.
Answered(t, what) ==
    /\ page[t] = "running"
    /\ lock.events[t] # <<>> /\ Head(lock.events[t]).t = what

Handled(t) == [Now(t) EXCEPT !.m.events[t] = Tail(@)]

\* Mutants of Counted: a grant is not counted as an answer, or counted twice.
NotCounted(s) == s
CountedAgain(s) == [s EXCEPT !.me.pending = @ - 2]
Counted(s) == [s EXCEPT !.me.pending = @ - 1]

\* The request's callback: lead through it, or give it straight back.
OnGranted(t) ==
    /\ Answered(t, "granted")
    /\ LET g == Head(lock.events[t]).gen
           s == Counted(Handled(t))
       IN \/ /\ tab[t].leader
             /\ Set(t, [s EXCEPT !.m = Released(s.m, [by |-> t, gen |-> g])])
             /\ UNCHANGED heard
          \/ /\ ~tab[t].leader
             /\ Set(t, [s EXCEPT !.me = [Become(s.me) EXCEPT !.held = g]])
             /\ Posted(t)
    /\ UNCHANGED <<locks, page, moves, rivalry>>

\* The request's promise is rejected: another tab has stolen the lock.
OnBroken(t) ==
    /\ Answered(t, "broken")
    /\ LET s == Handled(t) IN
       \E d \in Delays :
         Set(t, IF tab[t].held = Head(lock.events[t]).gen
                THEN Rearm(RequestLock(t, [s EXCEPT !.me = [YieldTo(@) EXCEPT !.held = 0]],
                                       FALSE), d)
                ELSE RequestDone(t, s, d))
    /\ UNCHANGED <<locks, page, heard, moves, rivalry>>

OnReleased(t) ==
    /\ Answered(t, "released")
    /\ \E d \in Delays : Set(t, RequestDone(t, Handled(t), d))
    /\ UNCHANGED <<locks, page, heard, moves, rivalry>>

\* Mutant of Outranks: of two claimants nobody steps back.
Unmoved(u, t) == FALSE
Outranks(u, t) == u < t

\* A beat of another tab.
OnFrame(t, u) ==
    /\ page[t] = "running"
    /\ u \in heard[t]
    /\ heard' = [heard EXCEPT ![t] = @ \ {u}]
    /\ \E d \in Delays :
         Set(t, CASE tab[t].held # 0 -> Now(t)
                  [] tab[t].held = 0 /\ tab[t].leader ->
                       IF Outranks(u, t)
                       THEN Rearm([Now(t) EXCEPT !.me = YieldTo(@)], d) ELSE Now(t)
                  [] OTHER -> Rearm(Now(t), d))
    /\ UNCHANGED <<locks, page, moves, rivalry>>

TimerDue(t) == tab[t].timer.on /\ tab[t].timer.age >= tab[t].timer.delay

\* The claim timer: silence for the TTL, this tab leads.
Claim(t) ==
    /\ ~locks
    /\ page[t] = "running" /\ TimerDue(t)
    /\ tab' = [tab EXCEPT ![t] = Become(@)]
    /\ Posted(t)
    /\ UNCHANGED <<locks, page, lock, moves, rivalry>>

\* Mutant of ListenAgain: a follower whose timer fired late gives up.
GiveUp(t, d) == Set(t, [Now(t) EXCEPT !.me.timer = NoTimer])
ListenAgain(t, d) == Set(t, Rearm(Now(t), d))

\* The steal timer: silence for the TTL, this tab takes the lock.  Fired late,
\* it was this tab that was not running: it listens for another round.
Steal(t) ==
    /\ locks
    /\ page[t] = "running" /\ TimerDue(t)
    /\ \E d \in Delays :
         IF tab[t].timer.age > tab[t].timer.delay + HEARTBEAT_MS
         THEN ListenAgain(t, d)
         ELSE Set(t, RequestLock(t, [Now(t) EXCEPT !.me.timer = NoTimer], TRUE))
    /\ UNCHANGED <<locks, page, heard, moves, rivalry>>

BeatDue(t) == tab[t].leader /\ tab[t].beat >= HEARTBEAT_MS

\* post, on its interval.
Beat(t) ==
    /\ page[t] = "running" /\ BeatDue(t)
    /\ \/ /\ ~Lapsed(tab[t])
          /\ tab' = [tab EXCEPT ![t].beat = 0]
          /\ Posted(t)
          /\ UNCHANGED lock
       \/ /\ Lapsed(tab[t])
          /\ \E d \in Delays : Set(t, Lapse(t, Now(t), d))
          /\ UNCHANGED heard
    /\ UNCHANGED <<locks, page, moves, rivalry>>

\* isLeader, which the drain asks before every write.
AskLeader(t) ==
    /\ page[t] = "running"
    /\ tab[t].leader /\ Lapsed(tab[t])
    /\ \E d \in Delays : Set(t, Lapse(t, Now(t), d))
    /\ UNCHANGED <<locks, page, heard, moves, rivalry>>

\* isLeader, as the drain would hear it now.
MayWrite(t) == page[t] = "running" /\ tab[t].leader /\ ~Lapsed(tab[t])

-----------------------------------------------------------------------------
(* The browser and the clock. *)

Move == moves < MaxMoves /\ moves' = moves + 1

Freeze(t) ==
    /\ Move
    /\ page[t] = "running"
    /\ page' = [page EXCEPT ![t] = "frozen"]
    /\ rivalry' = [u \in Tabs |-> 0]
    /\ UNCHANGED <<locks, tab, heard, lock>>

\* The frames sent meanwhile waited, or were dropped with the cached page.
Thaw(t) ==
    /\ page[t] = "frozen"
    /\ page' = [page EXCEPT ![t] = "running"]
    /\ heard' \in {heard, [heard EXCEPT ![t] = {}]}
    /\ UNCHANGED <<locks, tab, lock, moves, rivalry>>

Close(t) ==
    /\ Move
    /\ page[t] # "closed"
    /\ page' = [page EXCEPT ![t] = "closed"]
    /\ tab' = [tab EXCEPT ![t] = Follower]
    /\ heard' = [heard EXCEPT ![t] = {}]
    /\ lock' = Gone(lock, t)
    /\ UNCHANGED <<locks, rivalry>>

Busy(t) == /\ page[t] = "running"
           /\ \/ heard[t] # {} \/ lock.events[t] # <<>>
              \/ TimerDue(t) \/ BeatDue(t)

Rivalled(t) == MayWrite(t) /\ \E u \in Tabs : u < t /\ MayWrite(u)

\* Ages are counted up to where nothing distinguishes them any more.
UpTo(n, bound) == IF n < bound THEN n + 1 ELSE n

Tick ==
    /\ ~ \E t \in Tabs : Busy(t)
    /\ \E t \in Tabs : tab[t].leader \/ tab[t].timer.on
    /\ tab' = [t \in Tabs |->
         [tab[t] EXCEPT
            !.beat = IF tab[t].leader THEN UpTo(@, LEASE_TTL_MS + 1) ELSE @,
            !.timer.age = IF tab[t].timer.on
                          THEN UpTo(@, tab[t].timer.delay + HEARTBEAT_MS + 1) ELSE @]]
    /\ rivalry' = [t \in Tabs |->
         IF Rivalled(t) THEN UpTo(rivalry[t], HEARTBEAT_MS + 1) ELSE 0]
    /\ UNCHANGED <<locks, page, heard, lock, moves>>

Task(t) == \/ OnGranted(t) \/ OnBroken(t) \/ OnReleased(t)
           \/ (\E u \in Tabs : OnFrame(t, u))
           \/ Claim(t) \/ Steal(t) \/ Beat(t) \/ AskLeader(t)

World(t) == Open(t) \/ Freeze(t) \/ Thaw(t) \/ Close(t)

Next == Tick \/ \E t \in Tabs : Task(t) \/ World(t)

\* A running tab gets on with its tasks, and time passes.
Fairness == WF_vars(Tick) /\ \A t \in Tabs : WF_vars(Task(t))

Spec == Init /\ [][Next]_vars /\ Fairness
-----------------------------------------------------------------------------
(* Who leads through a lock has it, or will be told that it was stolen;    *)
(* and the lock stays with no tab that does not drain: its holder leads    *)
(* through it, or has the answer that will make it lead or hand it back    *)
(* (lease.ts:15-19).  So two tabs believe they lead only until the         *)
(* rejection of the one reaches it.                                        *)
LeaseMatchesLock ==
    \A t \in Tabs :
        /\ locks /\ tab[t].leader =>
             \/ lock.owner = [by |-> t, gen |-> tab[t].held]
             \/ \E i \in DOMAIN lock.events[t] :
                  lock.events[t][i] = [t |-> "broken", gen |-> tab[t].held]
        /\ lock.owner.by = t =>
             \/ tab[t].leader /\ tab[t].held = lock.owner.gen
             \/ \E i \in DOMAIN lock.events[t] :
                  lock.events[t][i] = [t |-> "granted", gen |-> lock.owner.gen]

Unanswered(t) ==
    Cardinality({i \in DOMAIN lock.queue : lock.queue[i].by = t})
      + Cardinality({i \in DOMAIN lock.events[t] : lock.events[t][i].t = "granted"})

(* pending is the number of requests without an answer (lease.ts:63-67):   *)
(* one too many and the tab never queues again, one too few and it queues  *)
(* twice and takes the lock back right after a steal.                      *)
PendingIsRight ==
    \A t \in Tabs : /\ tab[t].pending = Unanswered(t)
                    /\ Cardinality({i \in DOMAIN lock.queue : lock.queue[i].by = t}) <= 1

(* What a tab believes of the lock is so, of the one it holds and of the   *)
(* one it asked for, or a task that will put it right is on its way.       *)
LeaseIsRight == TypeOK /\ LeaseMatchesLock /\ PendingIsRight

(* Two tabs that go on running are never both free to write the wire for   *)
(* longer than a heartbeat, and with the locks not for one (lease.ts:5-26). *)
RivalsAreBrief ==
    \A t \in Tabs : rivalry[t] <= IF locks THEN 0 ELSE HEARTBEAT_MS

(* Whatever freezes or closes, one of the running tabs drains again in the *)
(* end: a frozen holder does not keep every tab from draining              *)
(* (lease.ts:12-17).                                                       *)
SomeoneDrains ==
    []<>((\E t \in Tabs : page[t] = "running") => \E t \in Tabs : MayWrite(t))
=============================================================================
