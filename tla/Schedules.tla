----------------------------- MODULE Schedules -----------------------------
(***************************************************************************)
(* The scheduled messages of plugins/crons/schedules.ts: engines of one    *)
(* host that share a lock and the file of schedules, the pass that one of  *)
(* them makes every tick, the claim of an occurrence before it is sent,    *)
(* and the retries of one that could not be.                               *)
(*                                                                         *)
(* The unit of time is the ticker's interval.  What an engine does between *)
(* two waits on the disk is one step; only a delivery, or an engine that   *)
(* is held up, takes time.  0 is the null of a cursor.                     *)
(***************************************************************************)
EXTENDS Naturals, FiniteSets

CONSTANTS
    Engines,    \* processes that may run on the host, one after the other
    Items,      \* schedules
    Due,        \* [Items -> SUBSET Nat]: when each comes round
    Inodes,     \* bound: so many inodes can be in use at once, 1 .. Inodes
    GRACE,      \* GRACE_MS: how long an occurrence is retried
    RETRY_MIN,  \* the first wait of the ladder
    RETRY_MAX,  \* RETRY_MAX_MS
    LOCK_BEAT,  \* LOCK_BEAT_MS
    LOCK_STALE, \* LOCK_STALE_MS
    Horizon,    \* bound: the clock stands still from here on
    Faults,     \* what may go wrong (see FaultKinds)
    MaxFaults,  \* bound: how many faults per behaviour
    MaxEdits    \* bound: how many changes by the user

\* early is a request that comes while an engine that has just taken the lock has
\* not read the file yet (the claim waits for its own file to be unlinked).
FaultKinds == {"die", "stop", "recycle", "hold", "busy", "refuse", "full",
               "early"}

ASSUME SchedulesAssumption ==
    /\ Engines \cap {"gone", "other", "nobody"} = {}
    /\ Items # {}
    /\ Due \in [Items -> SUBSET (1 .. Horizon)]
    /\ Inodes \in Nat \ {0}
    /\ {GRACE, RETRY_MIN, RETRY_MAX, LOCK_BEAT, LOCK_STALE} \subseteq Nat \ {0}
    /\ RETRY_MIN <= RETRY_MAX
    /\ RETRY_MAX <= 2 * RETRY_MIN
    /\ Horizon \in Nat
    /\ Faults \subseteq FaultKinds
    /\ MaxFaults \in Nat
    /\ MaxEdits \in Nat

VARIABLES
    now,     \* the clock
    lock,    \* the file at the lock's name, or NoLock
    file,    \* [Items -> Record]: the schedules on disk
    engine,  \* [Engines -> Local]
    pane,    \* [Items -> BOOLEAN]: whether the session can be typed into
    faults,  \* faults so far
    edits,   \* changes by the user so far
    sent,    \* history: [Items -> [occurrence -> Nat]]: messages that went out
    unwritten, \* history: occurrences that a retry has sent while the file
               \* still says that nothing was typed
    loose,   \* history: occurrences sent without the lock, or while unwritten
    overtaken, \* history: whether another engine's call has ever come between
               \* two that an engine makes one right after the other
    removed, \* history: schedules whose removal was answered with a yes
    waiting, \* history: [Items -> Nat]: time for which an undelivered
             \* occurrence could have gone out
    overlooked, \* history: [Items -> Nat]: ticks that found an occurrence due
               \* and an engine running, and left it unclaimed
    failed   \* history: schedules whose claim the disk did not take

history == <<sent, unwritten, loose, overtaken, removed, waiting, overlooked, failed>>
vars == <<now, lock, file, engine, pane, faults, edits, history>>

Times == 0 .. Horizon
Least(S) == CHOOSE t \in S : \A u \in S : t <= u
Greatest(S) == CHOOSE t \in S : \A u \in S : u <= t

(* A record's last fire.  retry says that it has a retryUntil, at is its   *)
(* retryAt.                                                                *)
Fires == [due : Times, out : {"none", "unknown", "undelivered", "delivered"},
          retry : BOOLEAN, at : Nat]
NoFire == [due |-> 0, out |-> "none", retry |-> FALSE, at |-> 0]
Records == [there : BOOLEAN, on : BOOLEAN, next : Times, last : Fires]
Absent == [there |-> FALSE, on |-> FALSE, next |-> 0, last |-> NoFire]

(* by is the pid inside: of a dead process "gone", and "other" where       *)
(* nobody can tell, be it recycled or unreadable.                          *)
NoLock == [ino |-> 0, by |-> "nobody", age |-> 0]
Locks == {NoLock} \cup [ino : 1 .. Inodes, by : Engines \cup {"gone", "other"},
                        age : 0 .. LOCK_STALE + 1]

Steps == {"idle", "link", "open", "look", "unlink", "read", "pass", "save",
          "rename", "deliver", "typed"}

(* ino is lockIno: an engine that has one believes it owns the lock.  file *)
(* is the number it linked, or looked at.  at is the time of its pass, todo *)
(* what is left of it, cur the schedule it is at, snap what a write puts   *)
(* in place.  A held engine is stopped, or deep in a slow delivery.        *)
Local == [up : {"off", "running", "held"}, mem : [Items -> Records],
          pc : Steps, ino : 0 .. Inodes, fresh : BOOLEAN,
          attempt : 0 .. 1, file : 0 .. Inodes, at : Times,
          todo : SUBSET Items, cur : Items, snap : [Items -> Records],
          ticked : BOOLEAN, beat : 0 .. LOCK_BEAT]

TypeOK ==
    /\ now \in Times
    /\ lock \in Locks
    /\ file \in [Items -> Records]
    /\ engine \in [Engines -> Local]
    /\ pane \in [Items -> BOOLEAN]
    /\ faults \in 0 .. MaxFaults
    /\ edits \in 0 .. MaxEdits
    /\ sent \in [Items -> [Times -> Nat]]
    /\ unwritten \subseteq Items \X Times
    /\ loose \subseteq Items \X Times
    /\ overtaken \in BOOLEAN
    /\ removed \subseteq Items
    /\ waiting \in [Items -> Nat]
    /\ overlooked \in [Items -> Nat]
    /\ failed \subseteq Items

NoMap == [x \in Items |-> Absent]
SomeItem == CHOOSE x \in Items : TRUE
Off == [up |-> "off", mem |-> NoMap, pc |-> "idle", ino |-> 0,
        fresh |-> FALSE, attempt |-> 0, file |-> 0, at |-> 0,
        todo |-> {}, cur |-> SomeItem, snap |-> NoMap, ticked |-> FALSE,
        beat |-> 0]

-----------------------------------------------------------------------------
(* What is due, and the ladder of retries. *)

\* nextCronAt: the first occurrence after t, or null.
NextAfter(x, t) ==
    LET later == {d \in Due[x] : d > t}
    IN IF later = {} THEN 0 ELSE Least(later)

Init ==
    /\ now = 0
    /\ lock = NoLock
    /\ file = [x \in Items |-> [there |-> TRUE, on |-> TRUE,
                                next |-> NextAfter(x, 0), last |-> NoFire]]
    /\ engine = [e \in Engines |-> Off]
    /\ pane \in [Items -> BOOLEAN]
    /\ faults = 0
    /\ edits = 0
    /\ sent = [x \in Items |-> [t \in Times |-> 0]]
    /\ unwritten = {}
    /\ loose = {}
    /\ overtaken = FALSE
    /\ removed = {}
    /\ waiting = [x \in Items |-> 0]
    /\ overlooked = [x \in Items |-> 0]
    /\ failed = {}

\* t is the time of the pass, which a slow delivery does not move.
IsDue(r, t) == r.on /\ r.next # 0 /\ r.next <= t
IsRetried(r, t) == r.last.out = "undelivered" /\ r.last.retry /\ r.last.at <= t

\* Mutant of Claimed: the cursor stays where it is until the message is out.
ClaimedLater(x, r, t) ==
    [r EXCEPT !.last = [NoFire EXCEPT !.due = r.next, !.out = "unknown"]]
\* fire(): the latest occurrence that has come round stands for all of them.
\* The cursor moves past it, and the record says that nobody knows.
Claimed(x, r, t) ==
    LET due == Greatest({d \in Due[x] \cup {r.next} : r.next <= d /\ d <= t})
    IN [r EXCEPT !.next = NextAfter(x, t),
                 !.last = [NoFire EXCEPT !.due = due, !.out = "unknown"]]

Deadline(r) == r.last.due + GRACE
Lesser(a, b) == IF a < b THEN a ELSE b

\* Mutant of RetryAt: one more attempt, at the end of the window.
RetryAtTheEnd(r, t) == Deadline(r)
\* nextTryAt, clamped to the end of the window: the wait doubles once.
RetryAt(r, t) ==
    Lesser(t + (IF r.last.out = "unknown" THEN RETRY_MIN ELSE RETRY_MAX),
           Deadline(r))

\* Mutant of KeepsTrying: whatever was not confirmed is tried again.
KeepsTryingUnsure(r, answer, t) == answer # "ok" /\ t < Deadline(r)
KeepsTrying(r, answer, t) == answer = "later" /\ t < Deadline(r)

\* What an attempt leaves in the record.
Judged(r, answer, t) ==
    [r EXCEPT !.last =
        [@ EXCEPT !.out = IF answer = "ok" THEN "delivered" ELSE "undelivered",
                  !.retry = KeepsTrying(r, answer, t),
                  !.at = IF KeepsTrying(r, answer, t) THEN RetryAt(r, t) ELSE 0]]

\* A failing retry with nothing new to say is not written.
Quiet(r, answer, t) == KeepsTrying(r, answer, t) /\ r.last.out = "undelivered"

\* What a write puts on disk: a schedule that was removed is in no file.
Written(mem) == [x \in Items |-> IF mem[x].there THEN mem[x] ELSE Absent]

-----------------------------------------------------------------------------
(* The lock.  At(e, p) is e's turn at p; Goes its state after.             *)

At(e, p) == engine[e].up = "running" /\ engine[e].pc = p
Goes(e, s) == engine' = [engine EXCEPT ![e] = s]

\* A file that is open somewhere keeps its number; which one is given out does
\* not matter, as they are only compared.
InUse == {lock.ino} \cup UNION {{engine[e].ino, engine[e].file} : e \in Engines}

\* Mutant of StillOurs: ownership is believed, not asked for.
Believed(s) == s.ino # 0
\* stillOurs(): the name still points at the file this process opened.
StillOurs(s) == s.ino # 0 /\ lock.ino = s.ino

\* The pass is over, or there is none.
Rests(s) == [s EXCEPT !.pc = "idle", !.attempt = 0, !.file = 0, !.at = 0,
                      !.todo = {}, !.cur = SomeItem, !.snap = NoMap,
                      !.mem = Written(@)]
\* The memory of a loser is read again before it is used.
Lost(s) == [Rests(s) EXCEPT !.ino = 0, !.fresh = FALSE, !.beat = 0]

\* Somebody else has the lock.  At its start an engine reads the file all the
\* same, to show what is in it.
Waived(s) == IF s.ticked THEN Rests(s) ELSE [Rests(s) EXCEPT !.pc = "read"]

\* A pass: over what is in memory as it begins.
Passes(s) == [s EXCEPT !.pc = "pass", !.at = now,
                       !.todo = {x \in Items : s.mem[x].there}]
\* The name is linked or opened: ours from now on, and what is in memory is old.
Owns(s, ino) == [s EXCEPT !.pc = "read", !.ino = ino, !.fresh = TRUE,
                          !.file = 0, !.attempt = 0, !.beat = 0]

\* A tick.  An engine that believes it owns the lock asks again.
Wake(e) ==
    LET s == [engine[e] EXCEPT !.ticked = TRUE] IN
    /\ At(e, "idle")
    /\ ~engine[e].ticked
    /\ s.ino # 0
    /\ Goes(e, IF ~StillOurs(s) THEN [Lost(s) EXCEPT !.pc = "link"]
               ELSE IF s.fresh THEN [s EXCEPT !.pc = "read"]
               ELSE Passes(s))
    /\ UNCHANGED <<now, lock, file, pane, faults, edits, history>>

\* The claim file has our pid in it before the name points at it.  For an
\* engine without the lock this is how a tick begins.
Link(e) ==
    LET s == engine[e] IN
    /\ \/ At(e, "link")
       \/ At(e, "idle") /\ ~s.ticked /\ s.ino = 0
    /\ IF lock = NoLock
       THEN /\ (1 .. Inodes) \ InUse # {}
            /\ LET i == Least((1 .. Inodes) \ InUse) IN
               /\ lock' = [ino |-> i, by |-> e, age |-> 0]
               /\ Goes(e, [s EXCEPT !.pc = "open", !.file = i,
                                    !.ticked = s.pc = "idle" \/ s.ticked])
       ELSE /\ Goes(e, [s EXCEPT !.pc = "look",
                                !.ticked = s.pc = "idle" \/ s.ticked])
            /\ UNCHANGED lock
    /\ UNCHANGED <<now, file, pane, faults, edits, history>>

\* What is opened is what the name points at by now.
Open(e) ==
    LET s == engine[e] IN
    /\ At(e, "open")
    /\ Goes(e, IF lock = NoLock THEN [s EXCEPT !.pc = "look", !.file = 0]
               ELSE Owns(s, lock.ino))
    /\ overtaken' = (overtaken \/ lock.ino # s.file)
    /\ UNCHANGED <<now, lock, file, pane, faults, edits,
                   sent, unwritten, loose, removed, waiting, overlooked, failed>>

\* isRunning(): the processes of the model are those that run here.
Running(pid) == pid = "other" \/ (pid \in Engines /\ engine[pid].up # "off")

\* Mutant of Dead: a pid that runs is the holder's, however old its stamp.
DeadByPid(l) == l = NoLock \/ ~Running(l.by)
Dead(l) == l = NoLock \/ ~Running(l.by) \/ l.age > LOCK_STALE

Look(e) ==
    LET s == engine[e] IN
    /\ At(e, "look")
    /\ Goes(e, IF lock.by = e THEN Owns(s, lock.ino)
               ELSE IF Dead(lock) THEN [s EXCEPT !.pc = "unlink",
                                                 !.file = lock.ino]
               ELSE Waived(s))
    /\ UNCHANGED <<now, lock, file, pane, faults, edits, history>>

\* Whatever the name points at by now goes.  A second go, and no third.
Unlink(e) ==
    LET s == engine[e] IN
    /\ At(e, "unlink")
    /\ lock' = NoLock
    /\ overtaken' = (overtaken \/ (lock # NoLock /\ lock.ino # s.file))
    /\ Goes(e, IF s.attempt = 0
               THEN [s EXCEPT !.pc = "link", !.attempt = 1, !.file = 0]
               ELSE Waived(s))
    /\ UNCHANGED <<now, file, pane, faults, edits, sent, unwritten, loose, removed, waiting, overlooked, failed>>

\* The file is read.  If that was a tick, its pass begins.
Read(e) ==
    LET s == [engine[e] EXCEPT !.mem = file, !.fresh = FALSE] IN
    /\ At(e, "read")
    /\ Goes(e, IF s.ticked THEN Passes(s) ELSE Rests(s))
    /\ UNCHANGED <<now, lock, file, pane, faults, edits, history>>

-----------------------------------------------------------------------------
(* The pass. *)

\* beat(): not before its time, only while the lock is ours, and through the
\* file this process opened.
BeatIsDue(s) == s.beat >= LOCK_BEAT
Stamps(e) ==
    lock' = IF BeatIsDue(engine[e]) /\ StillOurs(engine[e])
            THEN [lock EXCEPT !.by = e, !.age = 0] ELSE lock
Stamped(s) == IF BeatIsDue(s) THEN [s EXCEPT !.beat = 0] ELSE s
FoundOut(s) == s.ino = 0 \/ (BeatIsDue(s) /\ ~StillOurs(s))

\* To the next schedule, if there is one left.
Over(s) == IF s.todo = {} THEN Rests(s)
           ELSE [s EXCEPT !.pc = "pass", !.snap = NoMap, !.cur = SomeItem]

\* The rest of a schedule's turn: what has come round is claimed.
Onward(s) ==
    IF IsDue(s.mem[s.cur], s.at)
    THEN [s EXCEPT !.pc = "save", !.snap = NoMap,
                   !.mem[s.cur] = Claimed(s.cur, @, s.at)]
    ELSE Over(s)

\* The next of the list; of an empty one, the beat before it.  A retry comes
\* first.
Turn(e) ==
    LET s == engine[e] IN
    /\ At(e, "pass")
    /\ \/ /\ s.todo = {}
          /\ Stamps(e)
          /\ Goes(e, IF FoundOut(s) THEN Lost(s) ELSE Rests(Stamped(s)))
       \/ \E x \in s.todo :
            LET t == [Stamped(s) EXCEPT !.todo = @ \ {x}, !.cur = x] IN
            /\ Stamps(e)
            /\ Goes(e, IF FoundOut(s) THEN Lost(s)
                       ELSE IF IsRetried(s.mem[x], s.at)
                       THEN [t EXCEPT !.pc = "deliver"]
                       ELSE Onward(t))
    /\ UNCHANGED <<now, file, pane, faults, edits, history>>

\* writeOnce(): the lock is asked for on disk, just before the write.
Save(e) ==
    LET s == engine[e] IN
    /\ At(e, "save")
    /\ Goes(e, IF StillOurs(s)
               THEN [s EXCEPT !.pc = "rename", !.snap = Written(s.mem)]
               ELSE Lost(s))
    /\ UNCHANGED <<now, lock, file, pane, faults, edits, history>>

\* The disk takes nothing: the turn of this schedule is over, and what the
\* claim moved in memory stays moved.
SaveFails(e) ==
    LET s == engine[e] IN
    /\ At(e, "save")
    /\ StillOurs(s)
    /\ "full" \in Faults
    /\ faults < MaxFaults
    /\ faults' = faults + 1
    /\ failed' = IF s.mem[s.cur].last.out = "unknown" THEN failed \cup {s.cur}
                 ELSE failed
    /\ Goes(e, Over(s))
    /\ UNCHANGED <<now, lock, file, pane, edits, sent, unwritten, loose,
                   overtaken, removed, waiting, overlooked>>

Occurrence(s) == <<s.cur, s.mem[s.cur].last.due>>

Rename(e) ==
    LET s == engine[e] IN
    /\ At(e, "rename")
    /\ file' = s.snap
    /\ overtaken' = (overtaken \/ ~StillOurs(s))
    /\ unwritten' = IF s.mem[s.cur].last.out = "unknown" THEN unwritten
                    ELSE unwritten \ {Occurrence(s)}
    /\ Goes(e, IF s.mem[s.cur].last.out = "unknown"
               THEN [s EXCEPT !.pc = "deliver", !.snap = NoMap]
               ELSE Onward(s))
    /\ UNCHANGED <<now, lock, pane, faults, edits, sent, loose, removed, waiting, overlooked, failed>>

\* What follows an attempt: it counts only if the lock is still ours.
Attempted(s, answer) ==
    LET r == s.mem[s.cur]
        t == [s EXCEPT !.mem[s.cur] = Judged(r, answer, s.at)]
    IN IF ~StillOurs(s) THEN Lost(s)
       ELSE IF Quiet(r, answer, s.at) THEN Onward(t)
       ELSE [t EXCEPT !.pc = "save"]

\* deliver() without a word typed: the session is closed, or refuses for good.
DeliverNothing(e) ==
    /\ At(e, "deliver")
    /\ \/ /\ ~pane[engine[e].cur]
          /\ Goes(e, Attempted(engine[e], "later"))
          /\ UNCHANGED faults
       \/ /\ "refuse" \in Faults
          /\ faults < MaxFaults
          /\ faults' = faults + 1
          /\ Goes(e, Attempted(engine[e], "refused"))
    /\ UNCHANGED <<now, lock, file, pane, edits, history>>

\* The message goes out.
Deliver(e) ==
    LET s == engine[e]  o == Occurrence(s) IN
    /\ At(e, "deliver")
    /\ pane[s.cur]
    /\ sent' = [sent EXCEPT ![o[1]][o[2]] = @ + 1]
    /\ loose' = IF StillOurs(s) /\ o \notin unwritten THEN loose
                ELSE loose \cup {o}
    /\ unwritten' = IF s.mem[s.cur].last.out = "undelivered"
                    THEN unwritten \cup {o} ELSE unwritten
    /\ Goes(e, [s EXCEPT !.pc = "typed"])
    /\ UNCHANGED <<now, lock, file, pane, faults, edits,
                   overtaken, removed, waiting, overlooked, failed>>

\* deliver() answers.  One that cannot see whether the message was taken says
\* so, and asks for no retry.
Answer(e) ==
    /\ At(e, "typed")
    /\ \E answer \in {"ok", "unsure"} : Goes(e, Attempted(engine[e], answer))
    /\ UNCHANGED <<now, lock, file, pane, faults, edits, history>>

-----------------------------------------------------------------------------
(* Processes, users, panes and time. *)

\* load() claims the lock first and reads after.
Boot(e) ==
    /\ engine[e].up = "off"
    /\ Goes(e, [Off EXCEPT !.up = "running", !.pc = "link"])
    /\ UNCHANGED <<now, lock, file, pane, faults, edits, history>>

\* A hard kill.  The lock keeps a pid that is dead, or in time somebody else's.
Die(e) ==
    /\ engine[e].up # "off"
    /\ faults < MaxFaults
    /\ faults' = faults + 1
    /\ \E by \in {"gone", "other"} :
         /\ by = "gone" => "die" \in Faults
         /\ by = "other" => "recycle" \in Faults
         /\ lock' = IF lock.by = e THEN [lock EXCEPT !.by = by] ELSE lock
    /\ Goes(e, Off)
    /\ UNCHANGED <<now, file, pane, edits, history>>

\* The exit handler goes by the pid in the file.
Exit(e) ==
    /\ engine[e].up = "running"
    /\ "stop" \in Faults
    /\ faults < MaxFaults
    /\ faults' = faults + 1
    /\ lock' = IF engine[e].ino # 0 /\ lock.by = e THEN NoLock ELSE lock
    /\ Goes(e, Off)
    /\ UNCHANGED <<now, file, pane, edits, history>>

\* A lid closes, or a delivery takes minutes.
Hold(e) ==
    /\ engine[e].up = "running"
    /\ "hold" \in Faults
    /\ faults < MaxFaults
    /\ faults' = faults + 1
    /\ Goes(e, [engine[e] EXCEPT !.up = "held"])
    /\ UNCHANGED <<now, lock, file, pane, edits, history>>

Resume(e) ==
    /\ engine[e].up = "held"
    /\ Goes(e, [engine[e] EXCEPT !.up = "running"])
    /\ UNCHANGED <<now, lock, file, pane, faults, edits, history>>

PaneCloses(x) ==
    /\ pane[x]
    /\ "busy" \in Faults
    /\ faults < MaxFaults
    /\ faults' = faults + 1
    /\ pane' = [pane EXCEPT ![x] = FALSE]
    /\ waiting' = [waiting EXCEPT ![x] = 0]
    /\ UNCHANGED <<now, lock, file, engine, edits, sent, unwritten, loose,
                   overtaken, removed, overlooked, failed>>

PaneOpens(x) ==
    /\ ~pane[x]
    /\ pane' = [pane EXCEPT ![x] = TRUE]
    /\ UNCHANGED <<now, lock, file, engine, faults, edits, history>>

\* What an edit makes of a record: a flip of enabled recomputes the cursor.
Edited(x, r, op) ==
    CASE op = "remove" -> [r EXCEPT !.there = FALSE]
      [] op = "pause"  -> [r EXCEPT !.on = FALSE, !.next = 0]
      [] op = "resume" -> [r EXCEPT !.on = TRUE, !.next = NextAfter(x, now)]

\* A user's request to the engine that believes it holds the lock.  Its write
\* waits for one under way.  Refused, a removal is taken back; a change stays
\* in the memory that the engine will read again.  Memory that has just become
\* old is written all the same.
Edit(e, x, op) ==
    LET s == engine[e]
        t == [s EXCEPT !.mem[x] = Edited(x, @, op)]
    IN
    /\ \/ s.up = "running" /\ s.pc # "rename"
       \/ s.up = "held" /\ s.pc = "deliver"
    /\ s.ino # 0
    /\ s.fresh => "early" \in Faults
    /\ s.mem[x].there
    /\ edits < MaxEdits
    /\ edits' = edits + 1
    /\ IF StillOurs(s)
       THEN /\ Goes(e, t)
            /\ file' = Written(t.mem)
            /\ removed' = IF op = "remove" THEN removed \cup {x} ELSE removed
       ELSE /\ Goes(e, [(IF op = "remove" THEN s ELSE t)
                          EXCEPT !.ino = 0, !.fresh = FALSE])
            /\ UNCHANGED <<file, removed>>
    /\ UNCHANGED <<now, lock, pane, faults, sent, unwritten, loose, overtaken,
                   waiting, overlooked, failed>>

\* The owner is there, the session is there, and the message is not out.
Waits(x) ==
    /\ pane[x]
    /\ \E e \in Engines :
         LET s == engine[e] IN
         s.up = "running" /\ StillOurs(s) /\ ~s.fresh /\ s.mem[x].last.retry

\* The schedule has come round, and an engine has had its tick.
Overlooks(x) ==
    /\ file[x].there
    /\ IsDue(file[x], now)
    /\ \E e \in Engines : engine[e].up = "running"

\* The interval of the ticker: an engine that is not held up gets its pass done.
Tick ==
    /\ \A e \in Engines : engine[e].up = "running" =>
                             engine[e].pc = "idle" /\ engine[e].ticked
    /\ now' = Lesser(now + 1, Horizon)
    /\ lock' = IF lock = NoLock THEN lock
               ELSE [lock EXCEPT !.age = Lesser(@ + 1, LOCK_STALE + 1)]
    /\ engine' = [e \in Engines |->
                    [engine[e] EXCEPT !.ticked = FALSE,
                        !.beat = IF engine[e].ino = 0 THEN 0
                                 ELSE Lesser(@ + 1, LOCK_BEAT)]]
    /\ waiting' = [x \in Items |-> IF Waits(x) THEN waiting[x] + (now' - now)
                                              ELSE 0]
    /\ overlooked' = [x \in Items |-> IF Overlooks(x)
                                      THEN Lesser(overlooked[x] + 1, Horizon)
                                      ELSE 0]
    /\ UNCHANGED <<file, pane, faults, edits, sent, unwritten, loose, overtaken,
                   removed, failed>>

Moves(e) == \/ Wake(e) \/ Link(e) \/ Open(e) \/ Look(e) \/ Unlink(e)
             \/ Read(e) \/ Turn(e) \/ Save(e) \/ Rename(e)
             \/ DeliverNothing(e) \/ Deliver(e) \/ Answer(e)

Next ==
    \/ \E e \in Engines : \/ Moves(e) \/ SaveFails(e) \/ Boot(e) \/ Die(e)
                         \/ Exit(e) \/ Hold(e) \/ Resume(e)
    \/ \E x \in Items : PaneCloses(x) \/ PaneOpens(x)
    \/ \E e \in Engines, x \in Items, op \in {"remove", "pause", "resume"} :
         Edit(e, x, op)
    \/ Tick

\* What runs goes on, something starts an engine that is down, time passes.
Fairness ==
    /\ \A e \in Engines : WF_vars(Moves(e)) /\ WF_vars(Boot(e))
    /\ WF_vars(Tick)

Spec == Init /\ [][Next]_vars /\ Fairness
\* Constraint of the runs: nothing is promised from there on.
Undisturbed == ~overtaken

-----------------------------------------------------------------------------
(* Properties.  Where another engine's call came between two that an engine  *)
(* makes one right after the other, nothing is promised (lines 1117 to       *)
(* 1121).                                                                    *)

\* An occurrence is sent once, whatever dies, stops or is held up, and however
\* the lock changes hands.  Two cases are left out: the engine that sends it
\* has lost the lock meanwhile (lines 53 to 60), or a retry has sent it and
\* the file does not say so yet.
OncePerOccurrence ==
    overtaken \/ \A x \in Items : \A t \in Times :
                   sent[x][t] <= 1 \/ <<x, t>> \in loose

\* The same without the second exception: an occurrence is never sent twice by
\* engines that held the lock all along.
NeverTwice ==
    overtaken \/ \A x \in Items : \A t \in Times : sent[x][t] <= 1

\* A record on disk that promises another attempt is about a message that has
\* not gone out.
RetriesOnlyUnsent ==
    overtaken \/ \A x \in Items :
      LET o == <<x, file[x].last.due>> IN
      file[x].last.retry => \/ sent[x][o[2]] = 0
                            \/ o \in unwritten \cup loose

\* An occurrence is sent once, and not promised again.
SentOnce == OncePerOccurrence /\ RetriesOnlyUnsent

\* While an engine holds the lock and the session is open, a message that
\* could not be delivered goes out within the longest wait of the ladder.
PromptAfterFree == \A x \in Items : waiting[x] <= RETRY_MAX

\* Whatever became of the last holder, an occurrence that has come round is
\* claimed within the stale window of the last fault, if an engine runs and
\* the disk took every claim.
NotOverlooked ==
    overtaken \/ \A x \in Items \ failed :
                   overlooked[x] <= (LOCK_STALE + 1) * (1 + faults)

\* The same of a disk that did not: the log says that the schedule was left
\* where it was for this pass (lines 1508 to 1515), so a later pass finds it.
LeftWhereItWas ==
    overtaken \/ \A x \in Items :
                   overlooked[x] <= (LOCK_STALE + 1) * (1 + faults)

\* What is due is claimed in time, and what was refused is retried in time.
InTime == NotOverlooked /\ PromptAfterFree

\* A schedule whose removal was confirmed does not come back.
RemovedStaysRemoved == overtaken \/ \A x \in removed : ~file[x].there

\* No occurrence is sent after a later one of its schedule.
RunsInOrder ==
    [][\A x \in Items : \A t \in Times :
         sent'[x][t] > sent[x][t] =>
            \/ \A u \in Times : u > t => sent[x][u] = 0
            \/ overtaken \/ <<x, t>> \in loose']_vars
=============================================================================
