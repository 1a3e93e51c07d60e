------------------------------ MODULE Transfer ------------------------------
(***************************************************************************)
(* Files and recordings on their way to an engine: the app's worker        *)
(* (transfers/worker.ts) asks what the engine holds, puts the chunks that  *)
(* are missing, several at a time, and asks it to finish; the engine       *)
(* (routes/transfer.ts) keeps them in a directory per session and bytes,   *)
(* hands the whole to the route it fronts, and keeps that route's reply    *)
(* for whoever asks again.                                                 *)
(*                                                                         *)
(* A request is answered in one step, but for a finish: its handler waits  *)
(* for the disk and the fronted route, and meanwhile anything may happen.  *)
(* The bytes of a chunk are those of its number.                           *)
(***************************************************************************)
EXTENDS Naturals, FiniteSets

CONSTANTS
    Rows,       \* transfers, one per attachment or recording
    Cids,       \* the messages they belong to
    Dirs,       \* directories: pairs of session and bytes
    Cid,        \* [Rows -> Cids]
    Dir,        \* [Rows -> Dirs]: equal bytes of one session share one
    Chunks,     \* numbers of the chunks
    MAX_ACTIVE,
    MAX_OUTSTANDING,
    Faults,     \* what may go wrong (see FaultKinds)
    MaxFaults,  \* bound: how many faults per behaviour
    MaxEdits    \* bound: how many messages the user discards or sends again

FaultKinds == {"flap", "stall", "reload", "crash", "sweep", "evict", "refuse", "fail"}

ASSUME TransferAssumption ==
    /\ Cid \in [Rows -> Cids]
    /\ Dir \in [Rows -> Dirs]
    /\ "none" \notin Cids
    /\ Chunks \subseteq Nat
    /\ {MAX_ACTIVE, MAX_OUTSTANDING} \subseteq Nat \ {0}
    /\ Faults \subseteq FaultKinds
    /\ MaxFaults \in Nat
    /\ MaxEdits \in Nat

VARIABLES
    row,     \* [Rows -> Row]: the app's transfers
    pipe,    \* whether the app's engine is connected and settled
    wire,    \* requests not yet taken, and answers not yet read
    dir,     \* [Dirs -> Directory]: the engine's disk
    fin,     \* handlers of finish under way
    faults,  \* faults so far
    edits,   \* changes by the user so far
    minted,  \* history: [Dirs -> Nat]: uploads the fronted route has stored
    again,   \* history: directories whose bytes may rightly be stored again:
             \* two finishes overlapped, the engine died before it could keep
             \* the reply, or a kept reply was deleted
    stored,  \* history: [Dirs -> SUBSET Chunks]: chunks ever put
    refused  \* history: messages that were refused, or lost their bytes

history == <<minted, again, stored, refused>>
vars == <<row, pipe, wire, dir, fin, faults, edits, history>>

\* An upload is a number within its directory; 0 is none.
NoReply == [cid |-> "none", up |-> 0]
Directories == [meta : Cids \cup {"none"}, chunks : SUBSET Chunks,
                reply : [cid : Cids, up : Nat] \cup {NoReply}]
Empty == [meta |-> "none", chunks |-> {}, reply |-> NoReply]

Answers == [code : {"none", "ok", "404", "409", "500", "gone"},
            have : SUBSET Chunks, up : Nat]
Ans(code, have, up) == [code |-> code, have |-> have, up |-> up]
NoAns == Ans("none", {}, 0)
Requests == [r : Rows, op : {"begin", "get", "put", "finish", "delete"},
             n : Chunks \cup {0}, live : BOOLEAN, ans : Answers]
Asks(r, op, n) == [r |-> r, op |-> op, n |-> n, live |-> TRUE, ans |-> NoAns]

\* live: the app still waits for the reply.
Handlers == [r : Rows, cid : Cids, live : BOOLEAN, up : Nat,
             at : {"assemble", "route", "clean", "record"}]

\* id says that the engine's id is known; todo and out are the missing chunks
\* not sent and not answered, err the first error of the pass.
Row == [st : {"absent", "queued", "active", "done", "gone"}, id : BOOLEAN,
        acked : SUBSET Chunks, timer : BOOLEAN, res : Nat,
        pc : {"idle", "begin", "get", "put", "finish"}, rebegun : BOOLEAN,
        todo : SUBSET Chunks, out : SUBSET Chunks,
        err : {"none", "404", "500", "off"}]
Fresh == [st |-> "queued", id |-> FALSE, acked |-> {}, timer |-> FALSE,
          res |-> 0, pc |-> "idle", rebegun |-> FALSE, todo |-> {}, out |-> {},
          err |-> "none"]
Absent == [Fresh EXCEPT !.st = "absent"]

TypeOK ==
    /\ row \in [Rows -> Row]
    /\ pipe \in BOOLEAN
    /\ wire \subseteq Requests
    /\ dir \in [Dirs -> Directories]
    /\ fin \subseteq Handlers
    /\ faults \in 0 .. MaxFaults
    /\ edits \in 0 .. MaxEdits
    /\ minted \in [Dirs -> Nat]
    /\ again \subseteq Dirs
    /\ stored \in [Dirs -> SUBSET Chunks]
    /\ refused \subseteq Cids
    \* No attempt outlives its slot, and only a queued row waits.
    /\ \A r \in Rows :
         /\ row[r].st # "active" => row[r] = [Fresh EXCEPT
              !.st = row[r].st, !.id = row[r].id, !.acked = row[r].acked,
              !.timer = row[r].timer, !.res = row[r].res]
         /\ row[r].st = "active" => pipe
         /\ row[r].timer => row[r].st = "queued"

Init ==
    /\ row = [r \in Rows |-> Fresh]
    /\ pipe = FALSE
    /\ wire = {}
    /\ dir = [d \in Dirs |-> Empty]
    /\ fin = {}
    /\ faults = 0
    /\ edits = 0
    /\ minted = [d \in Dirs |-> 0]
    /\ again = {}
    /\ stored = [d \in Dirs |-> {}]
    /\ refused = {}

Strikes(fault) ==
    /\ fault \in Faults
    /\ faults < MaxFaults
    /\ faults' = faults + 1

-----------------------------------------------------------------------------
(* The engine. *)

\* What a begin, a get and a put report: everything, once it is finished.
Have(D) == IF D.reply # NoReply THEN Chunks ELSE D.chunks

\* Mutant of Begun: a kept reply is dropped whoever begins.
BegunAfresh(D, c) == [(IF D.reply # NoReply THEN Empty ELSE D) EXCEPT !.meta = c]
\* A reply kept for another message is dropped with all the rest; a meta that
\* is there stays.
Begun(D, c) ==
    LET E == IF D.reply # NoReply /\ D.reply.cid # c THEN Empty ELSE D
    IN [E EXCEPT !.meta = IF @ = "none" THEN c ELSE @]

\* The handler's reply: on the wire, if the app still waits for it.
Replies(q, ans) == (wire \ {q}) \cup (IF q.live THEN {[q EXCEPT !.ans = ans]} ELSE {})

Begin(q) ==
    LET d == Dir[q.r]
        D == Begun(dir[d], Cid[q.r])
    IN /\ q.op = "begin"
       /\ dir' = [dir EXCEPT ![d] = D]
       /\ wire' = Replies(q, Ans("ok", Have(D), 0))
       /\ UNCHANGED <<fin, again, stored>>

Get(q) ==
    LET D == dir[Dir[q.r]] IN
    /\ q.op = "get"
    /\ wire' = Replies(q, IF D.meta = "none" THEN Ans("404", {}, 0)
                          ELSE Ans("ok", Have(D), 0))
    /\ UNCHANGED <<dir, fin, again, stored>>

\* A late put to a finished transfer stores nothing.
Put(q) ==
    LET d == Dir[q.r]
        D == dir[d]
        E == IF D.meta = "none" \/ D.reply # NoReply THEN D
             ELSE [D EXCEPT !.chunks = @ \cup {q.n}]
    IN /\ q.op = "put"
       /\ dir' = [dir EXCEPT ![d] = E]
       /\ stored' = [stored EXCEPT ![d] = @ \cup E.chunks]
       /\ wire' = Replies(q, IF D.meta = "none" THEN Ans("404", {}, 0)
                             ELSE Ans("ok", Have(E), 0))
       /\ UNCHANGED <<fin, again>>

Delete(q) ==
    LET d == Dir[q.r] IN
    /\ q.op = "delete"
    /\ dir' = [dir EXCEPT ![d] = Empty]
    /\ again' = IF dir[d].reply # NoReply THEN again \cup {d} ELSE again
    /\ wire' = wire \ {q}
    /\ UNCHANGED <<fin, stored>>

\* Mutant of Kept: the reply is not looked up.
NotKept(D) == NoReply
\* readFinished()
Kept(D) == D.reply

Finish(q) ==
    LET d == Dir[q.r]
        D == dir[d]
    IN /\ q.op = "finish"
       /\ IF D.meta = "none" \/ Kept(D) # NoReply \/ D.chunks # Chunks
          THEN /\ wire' = Replies(q, IF D.meta = "none" THEN Ans("404", {}, 0)
                                     ELSE IF Kept(D) # NoReply
                                     THEN Ans("ok", {}, Kept(D).up)
                                     ELSE Ans("409", {}, 0))
               /\ UNCHANGED <<fin, again>>
          ELSE /\ fin' = fin \cup {[r |-> q.r, cid |-> D.meta, live |-> q.live,
                                    up |-> 0, at |-> "assemble"]}
               /\ again' = IF \E h \in fin : Dir[h.r] = d THEN again \cup {d}
                           ELSE again
               /\ wire' = wire \ {q}
       /\ UNCHANGED <<dir, stored>>

Take(q) ==
    /\ q.ans = NoAns
    /\ Begin(q) \/ Get(q) \/ Put(q) \/ Delete(q) \/ Finish(q)
    /\ UNCHANGED <<row, pipe, faults, edits, minted, refused>>

\* A handler goes on, or ends with an answer.
Proceeds(h, g) == fin' = (fin \ {h}) \cup {g} /\ UNCHANGED wire
Ends(h, ans) ==
    /\ fin' = fin \ {h}
    /\ wire' = IF h.live THEN wire \cup {[Asks(h.r, "finish", 0) EXCEPT !.ans = ans]}
               ELSE wire

\* A chunk that is gone by now fails the assembly.
Assemble(h) ==
    /\ h.at = "assemble"
    /\ IF dir[Dir[h.r]].chunks = Chunks THEN Proceeds(h, [h EXCEPT !.at = "route"])
       ELSE Ends(h, Ans("500", {}, 0))
    /\ UNCHANGED <<row, pipe, dir, faults, edits, history>>

\* The fronted route mints a new upload on every call.
Route(h) ==
    LET d == Dir[h.r] IN
    /\ h.at = "route"
    /\ minted' = [minted EXCEPT ![d] = @ + 1]
    /\ Proceeds(h, [h EXCEPT !.at = "clean", !.up = minted'[d]])
    /\ UNCHANGED <<row, pipe, dir, faults, edits, again, stored, refused>>

\* It refuses for good, or fails this time.  The chunks stay.
RouteRefuses(h) ==
    /\ h.at = "route"
    /\ \/ /\ Strikes("refuse")
          /\ Ends(h, Ans("gone", {}, 0))
          /\ refused' = refused \cup {Cid[h.r]}
       \/ /\ Strikes("fail")
          /\ Ends(h, Ans("500", {}, 0))
          /\ UNCHANGED refused
    /\ UNCHANGED <<row, pipe, dir, edits, minted, again, stored>>

\* The chunks go before the reply is kept.
Clean(h) ==
    /\ h.at = "clean"
    /\ dir' = [dir EXCEPT ![Dir[h.r]].chunks = {}]
    /\ Proceeds(h, [h EXCEPT !.at = "record"])
    /\ UNCHANGED <<row, pipe, faults, edits, history>>

Record(h) ==
    /\ h.at = "record"
    /\ dir' = [dir EXCEPT ![Dir[h.r]].reply = [cid |-> h.cid, up |-> h.up]]
    /\ Ends(h, Ans("ok", {}, h.up))
    /\ UNCHANGED <<row, pipe, faults, edits, history>>

\* The sweeper: any directory is old enough once.
Sweep(d) ==
    /\ Strikes("sweep")
    /\ dir' = [dir EXCEPT ![d] = Empty]
    /\ again' = IF dir[d].reply # NoReply THEN again \cup {d} ELSE again
    /\ UNCHANGED <<row, pipe, wire, fin, edits, minted, stored, refused>>

-----------------------------------------------------------------------------
(* The app. *)

Active == {r \in Rows : row[r].st = "active"}
\* The attempt ends; what the engine is known to hold stays.
Idle(R) == [R EXCEPT !.pc = "idle", !.rebegun = FALSE, !.todo = {}, !.out = {},
                     !.err = "none"]
Queued(R) == [Idle(R) EXCEPT !.st = "queued"]
\* scheduleRetry()
Waits(R) == [Queued(R) EXCEPT !.timer = TRUE]
\* forgetId()
Forgets(R) == [R EXCEPT !.id = FALSE, !.acked = {}]

\* A request of the app is abandoned: one the engine has not taken it still
\* takes, and no answer is read.
Cut(Q) == (wire \ Q) \cup {[q EXCEPT !.live = FALSE] : q \in {x \in Q : x.ans = NoAns}}
Abandon(H) == (fin \ H) \cup {[h EXCEPT !.live = FALSE] : h \in H}
Of(r) == {q \in wire : q.r = r /\ q.live}
Finishing(r) == {h \in fin : h.r = r /\ h.live}

Asking(R, op) == [R EXCEPT !.st = "active", !.pc = op]

\* pump() and runTransfer(): the first request of a pass.
Start(r) ==
    LET op == IF row[r].id THEN "get" ELSE "begin" IN
    /\ row[r].st = "queued" /\ ~row[r].timer
    /\ pipe
    /\ Cardinality(Active) < MAX_ACTIVE
    /\ row' = [row EXCEPT ![r] = Asking(@, op)]
    /\ wire' = wire \cup {Asks(r, op, 0)}
    /\ UNCHANGED <<pipe, dir, fin, faults, edits, history>>

\* finishGone(): the queued rest of the message has nothing to go for.
Goes(r) ==
    row' = [x \in Rows |->
              IF x = r \/ (Cid[x] = Cid[r] /\ row[x].st = "queued")
              THEN [Idle(row[x]) EXCEPT !.st = "gone", !.timer = FALSE]
              ELSE row[x]]

\* The parked bytes are no longer in the vault.
Evicted(r) ==
    /\ row[r].st = "queued" /\ ~row[r].timer
    /\ pipe
    /\ Cardinality(Active) < MAX_ACTIVE
    /\ Strikes("evict")
    /\ Goes(r)
    /\ refused' = refused \cup {Cid[r]}
    /\ UNCHANGED <<pipe, wire, dir, fin, edits, minted, again, stored>>

\* A 404 for an id once known: begin again, once per attempt.
Rebegins(R) == R.id /\ ~R.rebegun

\* Mutant of Refusal: an engine that lost the chunks has refused them.
RefusalAnd404(code) == code \in {"gone", "404"}
Refusal(code) == code = "gone"

\* The pass throws; rest is the wire without the answer.
Throws(r, code, rest) ==
    IF code = "404" /\ Rebegins(row[r])
    THEN /\ row' = [row EXCEPT ![r] =
                      [Asking(Forgets(Idle(@)), "begin") EXCEPT !.rebegun = TRUE]]
         /\ wire' = rest \cup {Asks(r, "begin", 0)}
    ELSE /\ wire' = rest
         /\ IF Refusal(code) THEN Goes(r)
            ELSE row' = [row EXCEPT ![r] = Waits(IF code = "404" THEN Forgets(@) ELSE @)]

\* The answer to a begin or a get: what the engine holds.
Learn(q) ==
    LET r == q.r IN
    /\ q.op \in {"begin", "get"}
    /\ IF q.ans.code = "ok"
       THEN /\ row' = [row EXCEPT ![r] =
                         [@ EXCEPT !.id = TRUE, !.acked = q.ans.have,
                                   !.pc = "put", !.todo = Chunks \ q.ans.have]]
            /\ wire' = wire \ {q}
       ELSE Throws(r, q.ans.code, wire \ {q})

\* Missing chunks go out in order, so many at a time.
SendPut(r) ==
    /\ row[r].pc = "put"
    /\ Cardinality(row[r].out) < MAX_OUTSTANDING
    /\ \E n \in row[r].todo :
         /\ \A m \in row[r].todo : n <= m
         /\ row' = [row EXCEPT ![r] = [row[r] EXCEPT !.todo = @ \ {n}, !.out = @ \cup {n}]]
         /\ wire' = wire \cup {Asks(r, "put", n)}
    /\ UNCHANGED <<pipe, dir, fin, faults, edits, history>>

\* The first error is kept for the end of the pass.
Failed(R, n, code) ==
    [R EXCEPT !.out = @ \ {n}, !.err = IF @ = "none" THEN code ELSE @]

\* Mutant of Acked: the chunk counts as stored whatever the answer.
AckedAnyway(R, q) == R.acked \cup q.ans.have \cup {q.n}
\* unionSorted(): no put that failed takes a chunk away.
Acked(R, q) == IF q.ans.code = "ok" THEN R.acked \cup q.ans.have ELSE R.acked

ReadPut(q) ==
    /\ q.op = "put"
    /\ LET R == row[q.r]
           S == IF q.ans.code = "ok" THEN [R EXCEPT !.out = @ \ {q.n}]
                ELSE Failed(R, q.n, q.ans.code)
       IN row' = [row EXCEPT ![q.r] = [S EXCEPT !.acked = Acked(R, q)]]
    /\ wire' = wire \ {q}

\* All puts are answered: the pass throws, or asks for the finish.
PutsDone(r) ==
    /\ row[r].pc = "put" /\ row[r].todo = {} /\ row[r].out = {}
    /\ IF row[r].err # "none" THEN Throws(r, row[r].err, wire)
       ELSE /\ row' = [row EXCEPT ![r] = Asking(@, "finish")]
            /\ wire' = wire \cup {Asks(r, "finish", 0)}
    /\ UNCHANGED <<pipe, dir, fin, faults, edits, history>>

ReadFinish(q) ==
    /\ q.op = "finish"
    /\ IF q.ans.code = "ok"
       THEN /\ row' = [row EXCEPT ![q.r] =
                         [Idle(@) EXCEPT !.st = "done", !.res = q.ans.up]]
            /\ wire' = wire \ {q}
       ELSE Throws(q.r, q.ans.code, wire \ {q})

ReadAnswer(q) ==
    /\ q.live /\ q.ans # NoAns
    /\ Learn(q) \/ ReadPut(q) \/ ReadFinish(q)
    /\ UNCHANGED <<pipe, dir, fin, faults, edits, history>>

Timer(r) ==
    /\ row[r].timer
    /\ row' = [row EXCEPT ![r].timer = FALSE]
    /\ UNCHANGED <<pipe, wire, dir, fin, faults, edits, history>>

\* deadlineStep(): one request, or one finish, had no answer in time.
Deadline(r) ==
    /\ Strikes("stall")
    /\ \/ \E q \in Of(r) :
            IF q.op = "put"
            THEN /\ row' = [row EXCEPT ![r] = Failed(@, q.n, "500")]
                 /\ wire' = Cut({q})
            ELSE Throws(r, "500", Cut({q}))
       \/ Finishing(r) # {} /\ Throws(r, "500", wire)
    /\ fin' = Abandon(Finishing(r))
    /\ UNCHANGED <<pipe, dir, edits, history>>

\* The connected edge outruns every timer.
Connect ==
    /\ ~pipe
    /\ pipe' = TRUE
    /\ row' = [r \in Rows |-> [row[r] EXCEPT !.timer = @ /\ row[r].st # "queued"]]
    /\ UNCHANGED <<wire, dir, fin, faults, edits, history>>

\* Mutant of Parked: a failed chunk's 404 is looked at only after the reconnect.
ParkedAsIs(R) == IF R.st # "active" THEN R ELSE [R EXCEPT !.st = "queued"]
\* The disconnected edge aborts every request: a row waits for the next edge,
\* with what it knows but for a chunk that was answered by a 404.
Parked(R) ==
    IF R.st # "active" THEN R
    ELSE Queued(IF R.err = "404" THEN Forgets(R) ELSE R)
Drops ==
    /\ pipe' = FALSE
    /\ wire' = {}

Disconnect ==
    /\ pipe
    /\ Strikes("flap")
    /\ Drops
    /\ row' = [r \in Rows |-> Parked(row[r])]
    /\ fin' = Abandon(fin)
    /\ UNCHANGED <<dir, edits, history>>

\* The app is loaded again: its rows are on disk, its timers are not.
Reload ==
    /\ Strikes("reload")
    /\ Drops
    /\ row' = [r \in Rows |->
                 [IF row[r].st = "active" THEN Queued(row[r]) ELSE row[r]
                    EXCEPT !.timer = FALSE]]
    /\ fin' = Abandon(fin)
    /\ UNCHANGED <<dir, edits, history>>

\* The engine dies: the chunks a handler was deleting are partly gone, and a
\* reply it had not kept is lost.
Crash ==
    LET Torn == {Dir[h.r] : h \in {x \in fin : x.at = "clean"}}
        Lost == {Dir[h.r] : h \in {x \in fin : x.at \in {"clean", "record"}}}
    IN /\ Strikes("crash")
       /\ Drops
       /\ row' = [r \in Rows |-> Parked(row[r])]
       /\ fin' = {}
       /\ \E left \in [Dirs -> SUBSET Chunks] :
            /\ \A d \in Dirs : IF d \in Torn THEN left[d] \subseteq dir[d].chunks
                               ELSE left[d] = dir[d].chunks
            /\ dir' = [d \in Dirs |-> [dir[d] EXCEPT !.chunks = left[d]]]
       /\ again' = again \cup Lost
       /\ UNCHANGED <<edits, minted, stored, refused>>

\* cancel(): the message is discarded, and with it all its transfers.
Cancel(c) ==
    LET mine == {r \in Rows : Cid[r] = c}
        begun == {r \in mine : row[r].st \in {"queued", "active"} /\ row[r].id /\ pipe}
    IN /\ edits < MaxEdits
       /\ edits' = edits + 1
       /\ \E r \in mine : row[r].st # "absent"
       /\ row' = [r \in Rows |-> IF r \in mine THEN Absent ELSE row[r]]
       /\ wire' = Cut(UNION {Of(r) : r \in mine})
                    \cup {[Asks(r, "delete", 0) EXCEPT !.live = FALSE] : r \in begun}
       /\ fin' = Abandon(UNION {Finishing(r) : r \in mine})
       /\ UNCHANGED <<pipe, dir, faults, history>>

\* enqueue(): the message is sent again; only what is gone is new.
Resend(c) ==
    /\ edits < MaxEdits
    /\ edits' = edits + 1
    /\ \E r \in Rows : Cid[r] = c /\ row[r].st = "gone"
    /\ row' = [r \in Rows |-> IF Cid[r] = c /\ row[r].st = "gone" THEN Fresh ELSE row[r]]
    /\ UNCHANGED <<pipe, wire, dir, fin, faults, history>>

-----------------------------------------------------------------------------

Handles(h) == Assemble(h) \/ Route(h) \/ RouteRefuses(h) \/ Clean(h) \/ Record(h)
Drives(r) == Start(r) \/ SendPut(r) \/ PutsDone(r) \/ Timer(r)

Next ==
    \/ \E q \in wire : Take(q) \/ ReadAnswer(q)
    \/ \E h \in fin : Handles(h)
    \/ \E r \in Rows : Drives(r) \/ Evicted(r) \/ Deadline(r)
    \/ Connect \/ Disconnect \/ Reload \/ Crash
    \/ \E d \in Dirs : Sweep(d)
    \/ \E c \in Cids : Cancel(c) \/ Resend(c)

\* The engine answers, its handlers end, timers fire, the pipe comes back.
Fairness ==
    /\ WF_vars(\E q \in wire : Take(q))
    /\ WF_vars(\E q \in wire : ReadAnswer(q))
    /\ WF_vars(\E h \in fin : Handles(h))
    /\ \A r \in Rows : WF_vars(Drives(r))
    /\ WF_vars(Connect)

Spec == Init /\ [][Next]_vars /\ Fairness

-----------------------------------------------------------------------------

\* One upload for the attachment of a message, however often the pipe drops,
\* the app is loaded again or a finish is repeated: the fronted route has
\* stored the bytes of one message once, but for the cases the engine cannot
\* tell apart (two finishes at once, a reply it lost or was told to drop).
OneUpload ==
    \A d \in Dirs :
       (\A r, s \in Rows : Dir[r] = d /\ Dir[s] = d => Cid[r] = Cid[s])
         => minted[d] <= 1 \/ d \in again

\* The progress a row shows is no more than the engine has stored: chunks whose
\* put was lost, refused or never sent are not in acked, and only a row with
\* all of them stored and minted by the route is done.
AckedWasStored ==
    \A r \in Rows :
       /\ row[r].acked \subseteq stored[Dir[r]]
       /\ row[r].st = "done" => row[r].res \in 1 .. minted[Dir[r]]

\* Nothing but a refusal by the fronted route, or the loss of the local bytes,
\* ends a transfer in vain: an engine that lost the chunks (swept, a fresh
\* disk) gets them again.
NothingGivenUp == \A r \in Rows : row[r].st = "gone" => Cid[r] \in refused

\* A pending transfer is not forgotten: no drop, reload, restart, lost reply or
\* sweep leaves a row queued with nobody to wake it, or active with no answer
\* to come.
TransferEnds ==
    \A r \in Rows :
       row[r].st \in {"queued", "active"} ~> row[r].st \in {"done", "gone", "absent"}

\* Against transfer.ts:305-307: a finish repeated after a lost reply or a reload
\* converges "on ONE msgId instead of two clips".
OneClip == \A d \in Dirs : minted[d] <= 1

\* Against transfer.ts:209-212: the same bytes in a second message "must get
\* its own upload, not the first message's cached msgId".
OwnUpload ==
    \A r, s \in Rows :
       /\ row[r].st = "done" /\ row[s].st = "done"
       /\ Dir[r] = Dir[s] /\ Cid[r] # Cid[s]
       => row[r].res # row[s].res
=============================================================================
