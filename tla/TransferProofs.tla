--------------------------- MODULE TransferProofs ---------------------------
(***************************************************************************)
(* What holds of the transfers for any number of rows, chunks, slots and   *)
(* requests out, and for all faults at once: the types, that what a row    *)
(* shows was stored, that nothing but a refusal gives a message up, and    *)
(* that the fronted route stores the bytes of a message once.              *)
(***************************************************************************)
EXTENDS Transfer, TLAPS

USE TransferAssumption

-----------------------------------------------------------------------------
(* Rows. *)

\* The attempt of a row: none; chunks are out in their phase only, and none is
\* both to be sent and out.
Still(R) == /\ R.pc = "idle" /\ ~R.rebegun
            /\ R.todo = {} /\ R.out = {} /\ R.err = "none"
Fits == {R \in Row : /\ R.st # "active" => Still(R)
                     /\ R.timer => R.st = "queued"
                     /\ R.todo \cap R.out = {}
                     /\ R.pc # "put" => R.out = {}}

(* A row that fits is what TypeOK asks of it.                              *)
LEMMA FitsMeans ==
    ASSUME NEW R \in Row, R.st # "active"
    PROVE  Still(R) <=> R = [Fresh EXCEPT !.st = R.st, !.id = R.id,
                               !.acked = R.acked, !.timer = R.timer, !.res = R.res]
<1> DEFINE F == [Fresh EXCEPT !.st = R.st, !.id = R.id, !.acked = R.acked,
                              !.timer = R.timer, !.res = R.res]
<1>1. /\ F \in Row
      /\ F.st = R.st /\ F.id = R.id /\ F.acked = R.acked /\ F.timer = R.timer
      /\ F.res = R.res /\ F.pc = "idle" /\ F.rebegun = FALSE /\ F.todo = {}
      /\ F.out = {} /\ F.err = "none"
  BY DEF Fresh, Row
<1> HIDE DEF F
<1>2. \A S \in Row : S = [st |-> S.st, id |-> S.id, acked |-> S.acked,
                         timer |-> S.timer, res |-> S.res, pc |-> S.pc,
                         rebegun |-> S.rebegun, todo |-> S.todo, out |-> S.out,
                         err |-> S.err]
  BY DEF Row
<1>3. R.rebegun \in BOOLEAN
  BY DEF Row
<1>4. ASSUME Still(R) PROVE R = F
  BY <1>1, <1>2, <1>3, <1>4 DEF Still
<1>5. ASSUME R = F PROVE Still(R)
  BY <1>1, <1>5 DEF Still
<1> QED BY <1>4, <1>5 DEF F

(* What ends an attempt leaves a row that fits, and what it had of its own.*)
LEMMA EndsFit ==
    ASSUME NEW R \in Row, NEW st \in {"absent", "queued", "done", "gone"}
    PROVE  /\ [Idle(R) EXCEPT !.st = st, !.timer = FALSE] \in Fits
           /\ ~R.timer => [Idle(R) EXCEPT !.st = st] \in Fits
           /\ Idle(R) \in Row /\ Still(Idle(R)) /\ Idle(R).st = R.st
           /\ Idle(R).id = R.id /\ Idle(R).acked = R.acked
           /\ Idle(R).res = R.res /\ Idle(R).timer = R.timer
  BY DEF Row, Fits, Still, Idle

LEMMA QueuedFits ==
    ASSUME NEW R \in Row
    PROVE  /\ Queued(R) \in Fits /\ Queued(R).st = "queued" /\ Queued(R).acked = R.acked
           /\ Waits(R) \in Fits /\ Waits(R).st = "queued" /\ Waits(R).acked = R.acked
           /\ [Queued(R) EXCEPT !.timer = FALSE] \in Fits
  BY DEF Row, Fits, Still, Idle, Queued, Waits

LEMMA ForgetsFits ==
    ASSUME NEW R \in Row
    PROVE  /\ Forgets(R) \in Row /\ Forgets(R).acked = {}
           /\ Forgets(R).st = R.st /\ Forgets(R).timer = R.timer
  BY DEF Row, Forgets

(* What begins an attempt, or a request of it, leaves a row that fits.     *)
LEMMA AskingFits ==
    ASSUME NEW R \in Fits, NEW op \in {"begin", "get", "finish"},
           ~R.timer, R.out = {}
    PROVE  /\ Asking(R, op) \in Fits
           /\ Asking(R, op).st = "active" /\ Asking(R, op).pc = op
           /\ Asking(R, op).acked = R.acked
  BY DEF Row, Fits, Asking

(* The first and the last of a transfer's states.                          *)
LEMMA FreshFits == /\ Fresh \in Fits /\ Fresh.st = "queued" /\ Fresh.acked = {}
                   /\ Absent \in Fits /\ Absent.st = "absent" /\ Absent.acked = {}
  BY DEF Fresh, Absent, Fits, Row, Still

(* A failed chunk is out no more.                                          *)
LEMMA FailedFits ==
    ASSUME NEW R \in Fits, R.st = "active", R.pc = "put", NEW n,
           NEW code \in {"none", "404", "500"}
    PROVE  /\ Failed(R, n, code) \in Fits /\ Failed(R, n, code).st = "active"
           /\ Failed(R, n, code).pc = "put" /\ Failed(R, n, code).out = R.out \ {n}
           /\ Failed(R, n, code).acked = R.acked /\ Failed(R, n, code).timer = R.timer
  BY DEF Fits, Row, Failed

(* The disconnected edge leaves no attempt.                                *)
LEMMA ParkedFits ==
    ASSUME NEW R \in Fits
    PROVE  /\ Parked(R) \in Fits /\ Parked(R).st # "active"
           /\ Parked(R).acked \subseteq R.acked
           /\ R.st # "active" => Parked(R) = R
           /\ R.st = "active" => Parked(R).st = "queued"
<1>1. R \in Row
  BY DEF Fits
<1>2. CASE R.st # "active"
  BY <1>2 DEF Parked
<1>3. CASE R.st = "active" /\ R.err = "404"
  BY <1>1, <1>3, ForgetsFits, QueuedFits DEF Parked
<1>4. CASE R.st = "active" /\ R.err # "404"
  BY <1>1, <1>4, QueuedFits DEF Parked
<1> QED BY <1>2, <1>3, <1>4


-----------------------------------------------------------------------------
(* The inductive invariant. *)

\* Whoever waits for an answer waits for one, and its request is the row's: a
\* chunk that is out, or the only request of its kind.
Attended(r) ==
    /\ \A q \in Of(r) : /\ row[r].st = "active" /\ row[r].pc = q.op /\ q.op # "delete"
                        /\ IF q.op = "put" THEN q.n \in row[r].out ELSE q.n = 0
    /\ \A h \in Finishing(r) : row[r].st = "active" /\ row[r].pc = "finish"
    /\ \A q, p \in Of(r) : q.n = p.n => q = p
    /\ \A h, g \in Finishing(r) : h = g
    /\ Of(r) = {} \/ Finishing(r) = {}

\* A put is of a chunk, and an answer tells of the engine what was so when it
\* was given.
Told(q) ==
    /\ q.op = "put" => q.n \in Chunks
    /\ q.ans # NoAns => q.live
    /\ q.op # "finish" => /\ q.ans.code \in {"none", "ok", "404"}
                          /\ q.ans.have \subseteq stored[Dir[q.r]]
    /\ q.op = "finish" /\ q.ans.code = "ok" => q.ans.up \in 1 .. minted[Dir[q.r]]
    /\ q.ans.code = "gone" => Cid[q.r] \in refused

\* A handler that has assembled had all the chunks, and what it keeps was minted.
Held(h) ==
    /\ h.at # "assemble" => Chunks \subseteq stored[Dir[h.r]]
    /\ h.at \in {"clean", "record"} => h.up \in 1 .. minted[Dir[h.r]]

\* A directory holds what was put, and a reply that was minted of all of it.
Whole(d) ==
    /\ dir[d].chunks \subseteq stored[d]
    /\ dir[d].reply # NoReply => /\ Chunks \subseteq stored[d]
                                 /\ dir[d].reply.up \in 1 .. minted[d]

\* The messages that a directory, its reply and its handlers name are those of
\* rows that use it.
Users(d) == {Cid[r] : r \in {x \in Rows : Dir[x] = d}}
Named(d) ==
    /\ dir[d].meta \in Users(d) \cup {"none"}
    /\ dir[d].reply # NoReply => dir[d].reply.cid \in Users(d)
    /\ \A h \in fin : Dir[h.r] = d => h.cid \in Users(d)

\* One handler at a time, and one upload: minted by the handler, or kept.
Minting(h) == h.at \in {"clean", "record"}
Once(d) ==
    /\ \A h, g \in fin : Dir[h.r] = d /\ Dir[g.r] = d => h = g
    /\ \A h \in fin : Dir[h.r] = d => /\ dir[d].reply = NoReply
                                      /\ minted[d] = IF Minting(h) THEN 1 ELSE 0
    /\ (\A h \in fin : Dir[h.r] # d) => minted[d] = IF dir[d].reply = NoReply THEN 0 ELSE 1
Sole(d) == \A r, s \in Rows : Dir[r] = d /\ Dir[s] = d => Cid[r] = Cid[s]

RowsHold == /\ row \in [Rows -> Fits]
            /\ \A r \in Rows : row[r].st = "active" => pipe
            /\ AckedWasStored /\ NothingGivenUp
WireHolds == wire \subseteq Requests /\ \A q \in wire : Told(q)
FinHolds == fin \subseteq Handlers /\ \A h \in fin : Held(h)
DiskHolds == dir \in [Dirs -> Directories] /\ \A d \in Dirs : Whole(d) /\ Named(d)
UploadsHold == \A d \in Dirs : Sole(d) => d \in again \/ Once(d)
RestTyped == /\ pipe \in BOOLEAN
             /\ faults \in 0 .. MaxFaults /\ edits \in 0 .. MaxEdits
             /\ minted \in [Dirs -> Nat] /\ again \subseteq Dirs
             /\ stored \in [Dirs -> SUBSET Chunks] /\ refused \subseteq Cids

TransferInv == /\ RestTyped /\ RowsHold /\ WireHolds /\ FinHolds /\ DiskHolds
               /\ \A r \in Rows : Attended(r)
               /\ UploadsHold

(* The invariant is strong enough.                                         *)
LEMMA InvMeans ==
    TransferInv => TypeOK /\ AckedWasStored /\ NothingGivenUp /\ OneUpload
<1> SUFFICES ASSUME TransferInv
             PROVE  TypeOK /\ AckedWasStored /\ NothingGivenUp /\ OneUpload
  OBVIOUS
<1>1. \A r \in Rows : row[r] \in Fits
  BY DEF TransferInv, RowsHold
<1>2. ASSUME NEW r \in Rows
      PROVE  /\ row[r] \in Row
             /\ row[r].st # "active" => row[r] = [Fresh EXCEPT
                  !.st = row[r].st, !.id = row[r].id, !.acked = row[r].acked,
                  !.timer = row[r].timer, !.res = row[r].res]
             /\ row[r].timer => row[r].st = "queued"
  BY <1>1, FitsMeans DEF Fits
<1>3. row \in [Rows -> Row]
  BY <1>2 DEF TransferInv, RowsHold
<1>4. TypeOK
  BY <1>2, <1>3 DEF TransferInv, RowsHold, RestTyped, WireHolds, FinHolds, DiskHolds, TypeOK
<1>5. ASSUME NEW d \in Dirs, Sole(d), d \notin again PROVE minted[d] <= 1
  <2>1. Once(d)
    BY <1>5 DEF TransferInv, UploadsHold
  <2> QED BY <2>1 DEF Once
<1>6. OneUpload
  BY <1>5 DEF OneUpload, Sole
<1> QED BY <1>4, <1>6 DEF TransferInv, RowsHold

-----------------------------------------------------------------------------
(* What stays as it is. *)

\* The histories only grow.
Grows == /\ \A d \in Dirs : stored[d] \subseteq stored'[d] /\ minted[d] <= minted'[d]
         /\ refused \subseteq refused'

LEMMA DirsOfRows == \A r \in Rows : Dir[r] \in Dirs /\ Cid[r] \in Cids
  OBVIOUS

LEMMA ToldStays ==
    ASSUME RestTyped, RestTyped', Grows, NEW q \in Requests, Told(q)
    PROVE  Told(q)'
<1>1. q.r \in Rows /\ Dir[q.r] \in Dirs
  BY DirsOfRows DEF Requests
<1>2. minted[Dir[q.r]] \in Nat /\ minted'[Dir[q.r]] \in Nat
      /\ minted[Dir[q.r]] <= minted'[Dir[q.r]]
      /\ stored[Dir[q.r]] \subseteq stored'[Dir[q.r]]
  BY <1>1 DEF RestTyped, Grows
<1>3. q.ans.up \in 1 .. minted[Dir[q.r]] => q.ans.up \in 1 .. minted'[Dir[q.r]]
  BY <1>2
<1> QED BY <1>2, <1>3 DEF Told, Grows

LEMMA HeldStays ==
    ASSUME RestTyped, RestTyped', Grows, NEW h \in Handlers, Held(h)
    PROVE  Held(h)'
<1>1. h.r \in Rows /\ Dir[h.r] \in Dirs
  BY DirsOfRows DEF Handlers
<1>2. minted[Dir[h.r]] \in Nat /\ minted'[Dir[h.r]] \in Nat
      /\ minted[Dir[h.r]] <= minted'[Dir[h.r]]
      /\ stored[Dir[h.r]] \subseteq stored'[Dir[h.r]]
  BY <1>1 DEF RestTyped, Grows
<1>3. h.up \in 1 .. minted[Dir[h.r]] => h.up \in 1 .. minted'[Dir[h.r]]
  BY <1>2
<1> QED BY <1>2, <1>3 DEF Held

LEMMA WholeStays ==
    ASSUME RestTyped, RestTyped', Grows, NEW d \in Dirs, Whole(d), dir'[d] = dir[d]
    PROVE  Whole(d)'
<1>1. minted[d] \in Nat /\ minted'[d] \in Nat /\ minted[d] <= minted'[d]
      /\ stored[d] \subseteq stored'[d]
  BY DEF RestTyped, Grows
<1>2. dir[d].reply.up \in 1 .. minted[d] => dir[d].reply.up \in 1 .. minted'[d]
  BY <1>1
<1> QED BY <1>1, <1>2 DEF Whole

LEMMA AttendedStays ==
    ASSUME NEW x, Attended(x), row'[x] = row[x], Of(x)' \subseteq Of(x),
           Finishing(x)' \subseteq Finishing(x)
    PROVE  Attended(x)'
  BY DEF Attended

LEMMA Unattended ==
    ASSUME NEW x, Of(x)' = {}, Finishing(x)' = {}
    PROVE  Attended(x)'
  BY DEF Attended

LEMMA OnceStays ==
    ASSUME NEW d, Once(d), dir'[d].reply = dir[d].reply, minted'[d] = minted[d],
           \A h \in fin' : Dir[h.r] = d => h \in fin,
           \A h \in fin : Dir[h.r] = d => h \in fin'
    PROVE  Once(d)'
  BY DEF Once

(* The rows are left alone: what they show stays true.                     *)
LEMMA RowsStay ==
    ASSUME RestTyped, RestTyped', Grows, RowsHold, UNCHANGED <<row, pipe>>
    PROVE  RowsHold'
<1>1. ASSUME NEW r \in Rows
      PROVE  /\ row[r].acked \subseteq stored'[Dir[r]]
             /\ row[r].st = "done" => row[r].res \in 1 .. minted'[Dir[r]]
             /\ row[r].st = "gone" => Cid[r] \in refused'
  <2>1. minted[Dir[r]] \in Nat /\ minted'[Dir[r]] \in Nat
        /\ minted[Dir[r]] <= minted'[Dir[r]] /\ stored[Dir[r]] \subseteq stored'[Dir[r]]
    BY DirsOfRows DEF RestTyped, Grows
  <2>2. row[r].res \in 1 .. minted[Dir[r]] => row[r].res \in 1 .. minted'[Dir[r]]
    BY <2>1
  <2>3. /\ row[r].acked \subseteq stored[Dir[r]]
        /\ row[r].st = "done" => row[r].res \in 1 .. minted[Dir[r]]
        /\ row[r].st = "gone" => Cid[r] \in refused
    BY DEF RowsHold, AckedWasStored, NothingGivenUp
  <2> QED BY <2>1, <2>2, <2>3 DEF Grows
<1> QED BY <1>1 DEF RowsHold, AckedWasStored, NothingGivenUp


-----------------------------------------------------------------------------
(* The engine takes a request. *)

(* The reply takes the place of the request: what it tells is so, and who  *)
(* waits, waits for it.                                                    *)
LEMMA Replying ==
    ASSUME TransferInv, RestTyped', Grows, NEW q \in wire, NEW a \in Answers,
           q.live => Told([q EXCEPT !.ans = a])',
           wire' = Replies(q, a), UNCHANGED <<row, fin>>
    PROVE  WireHolds' /\ \A r \in Rows : Attended(r)'
<1> DEFINE p == [q EXCEPT !.ans = a]
<1>1. p \in Requests /\ p.live = q.live /\ p.r = q.r /\ p.op = q.op /\ p.n = q.n
  BY DEF TransferInv, WireHolds, Requests
<1>2. wire' \subseteq (wire \ {q}) \cup (IF q.live THEN {p} ELSE {})
  BY DEF Replies
<1>3. Told(p)' \/ ~q.live
  OBVIOUS
<1> HIDE DEF p
<1>4. ASSUME NEW x \in wire' PROVE x \in Requests /\ Told(x)'
  <2>1. CASE x = p /\ q.live
    BY <1>1, <1>3, <2>1
  <2>2. CASE x \in wire
    BY <2>2, ToldStays DEF TransferInv, WireHolds
  <2> QED BY <1>2, <2>1, <2>2
<1>5. ASSUME NEW r \in Rows PROVE Attended(r)'
  <2>1. Attended(r) /\ Finishing(r)' = Finishing(r)
    BY DEF TransferInv, Finishing
  <2>2. CASE q.r = r /\ q.live
    <3>1. q \in Of(r) /\ Of(r)' \subseteq (Of(r) \ {q}) \cup {p}
      BY <1>1, <1>2, <2>2 DEF Of
    <3> QED BY <1>1, <2>1, <3>1 DEF Attended
  <2>3. CASE ~(q.r = r /\ q.live)
    <3>1. Of(r)' \subseteq Of(r)
      BY <1>1, <1>2, <2>3 DEF Of
    <3> QED BY <2>1, <3>1, AttendedStays
  <2> QED BY <2>2, <2>3
<1> QED BY <1>4, <1>5 DEF WireHolds

(* What a request is about.                                                *)
LEMMA RequestTypes ==
    ASSUME TransferInv, NEW q \in wire
    PROVE  /\ q \in Requests /\ q.r \in Rows /\ Told(q)
           /\ Dir[q.r] \in Dirs /\ Cid[q.r] \in Cids /\ Cid[q.r] \in Users(Dir[q.r])
           /\ q.live \in BOOLEAN /\ q.n \in Chunks \cup {0}
           /\ dir[Dir[q.r]] \in Directories /\ Whole(Dir[q.r]) /\ Named(Dir[q.r])
           /\ dir[Dir[q.r]].chunks \subseteq Chunks
           /\ stored[Dir[q.r]] \subseteq Chunks
           /\ Have(dir[Dir[q.r]]) \subseteq stored[Dir[q.r]]
<1>1. q \in Requests /\ q.r \in Rows /\ Told(q) /\ q.live \in BOOLEAN /\ q.n \in Chunks \cup {0}
  BY DEF TransferInv, WireHolds, Requests
<1>2. Dir[q.r] \in Dirs /\ Cid[q.r] \in Cids /\ Cid[q.r] \in Users(Dir[q.r])
  BY <1>1, DirsOfRows DEF Users
<1>3. dir[Dir[q.r]] \in Directories /\ Whole(Dir[q.r]) /\ Named(Dir[q.r])
      /\ stored[Dir[q.r]] \subseteq Chunks
  BY <1>2 DEF TransferInv, DiskHolds, RestTyped
<1>4. dir[Dir[q.r]].chunks \subseteq Chunks
  BY <1>3 DEF Directories
<1>5. Have(dir[Dir[q.r]]) \subseteq stored[Dir[q.r]]
  BY <1>3 DEF Have, Whole
<1> QED BY <1>1, <1>2, <1>3, <1>4, <1>5

(* A request that changes one directory leaves the others alone.           *)
LEMMA DiskStays ==
    ASSUME TransferInv, RestTyped', Grows, NEW d \in Dirs, NEW D \in Directories,
           dir' = [dir EXCEPT ![d] = D], UNCHANGED <<fin, minted>>,
           D.chunks \subseteq stored'[d],
           D.reply # NoReply => Whole(d) /\ dir[d].reply = D.reply,
           D.meta \in Users(d) \cup {"none"},
           again \subseteq again',
           Sole(d) => d \in again' \/ D.reply = dir[d].reply
    PROVE  DiskHolds' /\ UploadsHold' /\ FinHolds'
<1>1. \A e \in Dirs : dir'[e] = IF e = d THEN D ELSE dir[e]
  BY DEF TransferInv, DiskHolds
<1>2. dir' \in [Dirs -> Directories]
  BY DEF TransferInv, DiskHolds
<1>3. ASSUME NEW e \in Dirs PROVE Whole(e)' /\ Named(e)'
  <2>1. Whole(e) /\ Named(e) /\ minted[e] \in Nat
    BY DEF TransferInv, DiskHolds, RestTyped
  <2>2. CASE e # d
    BY <1>1, <2>1, <2>2, WholeStays DEF TransferInv, Named
  <2>3. CASE e = d
    <3>1. stored[e] \subseteq stored'[e] /\ minted'[e] = minted[e] /\ dir'[e] = D
      BY <1>1, <2>3 DEF Grows
    <3> QED BY <2>1, <2>3, <3>1 DEF Whole, Named
  <2> QED BY <2>2, <2>3
<1>4. ASSUME NEW e \in Dirs, Sole(e) PROVE e \in again' \/ Once(e)'
  <2>1. e \in again \/ Once(e)
    BY <1>4 DEF TransferInv, UploadsHold
  <2>2. e \in again' \/ dir'[e].reply = dir[e].reply
    BY <1>1, <1>4
  <2> QED BY <2>1, <2>2, OnceStays
<1>5. FinHolds'
  BY HeldStays DEF TransferInv, FinHolds
<1> QED BY <1>2, <1>3, <1>4, <1>5 DEF DiskHolds, UploadsHold


(* Answers. *)
LEMMA AnsTypes ==
    ASSUME NEW code \in {"none", "ok", "404", "409", "500", "gone"},
           NEW have \in SUBSET Chunks, NEW up \in Nat
    PROVE  /\ Ans(code, have, up) \in Answers
           /\ Ans(code, have, up).code = code /\ Ans(code, have, up).have = have
           /\ Ans(code, have, up).up = up
           /\ code # "none" => Ans(code, have, up) # NoAns
  BY DEF Ans, Answers, NoAns

(* An answer about what a directory holds is so, if it does.               *)
LEMMA Telling ==
    ASSUME NEW q \in Requests, Told(q), q.live, q.op \in {"begin", "get", "put"},
           NEW a \in Answers, a.code \in {"ok", "404"}, a.have \subseteq stored'[Dir[q.r]]
    PROVE  Told([q EXCEPT !.ans = a])'
<1> DEFINE p == [q EXCEPT !.ans = a]
<1>1. p.live /\ p.r = q.r /\ p.op = q.op /\ p.n = q.n /\ p.ans = a
  BY DEF Requests
<1> HIDE DEF p
<1>2. Told(p)'
  BY <1>1 DEF Told
<1> QED BY <1>2 DEF p

\* What taking the request q keeps, but for the wire and the disk.
Taking(q) == q \in wire /\ q.ans = NoAns
             /\ UNCHANGED <<row, pipe, faults, edits, minted, refused>>

LEMMA BeginKeeps ==
    ASSUME TransferInv, NEW q, Taking(q), Begin(q)
    PROVE  TransferInv'
<1> DEFINE d == Dir[q.r]
           D == Begun(dir[d], Cid[q.r])
<1>1. /\ q \in wire /\ q.ans = NoAns
      /\ UNCHANGED <<row, pipe, faults, edits, minted, refused, fin, again, stored>>
      /\ dir' = [dir EXCEPT ![d] = D]
      /\ wire' = Replies(q, Ans("ok", Have(D), 0)) /\ q.op = "begin"
  BY DEF Taking, Begin
<1>2. RestTyped' /\ Grows
  BY <1>1 DEF TransferInv, RestTyped, Grows
<1>3. /\ q \in Requests /\ d \in Dirs /\ Cid[q.r] \in Cids /\ Cid[q.r] \in Users(d)
      /\ dir[d] \in Directories /\ Whole(d) /\ Named(d) /\ stored[d] \subseteq Chunks
  BY <1>1, RequestTypes
<1> HIDE DEF d
<1>4. /\ D \in Directories /\ D.chunks \subseteq dir[d].chunks
      /\ D.meta \in {dir[d].meta, Cid[q.r]} /\ D.meta \in Cids
      /\ \/ D.reply = dir[d].reply
         \/ D.reply = NoReply /\ dir[d].reply # NoReply /\ dir[d].reply.cid # Cid[q.r]
  BY <1>3 DEF Begun, Directories, Empty
<1> HIDE DEF D
<1>5. ASSUME Sole(d) PROVE D.reply = dir[d].reply
  <2>1. \A c \in Users(d) : c = Cid[q.r]
    BY <1>3, <1>5 DEF Sole, Users
  <2> QED BY <1>3, <1>4, <2>1 DEF Named
<1>6. D.chunks \subseteq stored'[d] /\ Have(D) \subseteq stored[d] /\ Have(D) \subseteq Chunks
  BY <1>1, <1>3, <1>4 DEF Whole, Have
<1>7. DiskHolds' /\ UploadsHold' /\ FinHolds'
  BY <1>1, <1>2, <1>3, <1>4, <1>5, <1>6, DiskStays DEF Named
<1>8. PICK a \in Answers :
        a = Ans("ok", Have(D), 0) /\ a.code = "ok" /\ a.have = Have(D)
  BY <1>6, AnsTypes
<1>9. q.live => Told([q EXCEPT !.ans = a])'
  <2>1. Told(q)
    BY <1>1, RequestTypes
  <2> QED BY <1>1, <1>3, <1>6, <1>8, <2>1, Telling DEF d
<1>10. WireHolds' /\ \A r \in Rows : Attended(r)'
  BY <1>1, <1>2, <1>8, <1>9, Replying
<1>11. RowsHold'
  BY <1>1, <1>2, RowsStay DEF TransferInv
<1> QED BY <1>2, <1>7, <1>10, <1>11 DEF TransferInv

LEMMA GetKeeps ==
    ASSUME TransferInv, NEW q, Taking(q), Get(q)
    PROVE  TransferInv'
<1> DEFINE D == dir[Dir[q.r]]
           A == IF D.meta = "none" THEN Ans("404", {}, 0) ELSE Ans("ok", Have(D), 0)
<1>1. /\ q \in wire /\ q.ans = NoAns /\ q.op = "get" /\ wire' = Replies(q, A)
      /\ UNCHANGED <<row, pipe, faults, edits, minted, refused, fin, again, stored, dir>>
  BY DEF Taking, Get
<1>2. RestTyped' /\ Grows
  BY <1>1 DEF TransferInv, RestTyped, Grows
<1>3. Have(D) \subseteq stored[Dir[q.r]] /\ Have(D) \subseteq Chunks /\ q \in Requests
  BY <1>1, RequestTypes
<1> HIDE DEF D
<1>4. PICK a \in Answers :
        a = A /\ a.code \in {"ok", "404"} /\ a.have \subseteq stored'[Dir[q.r]]
  BY <1>1, <1>3, AnsTypes
<1> HIDE DEF A
<1>5. DiskHolds' /\ UploadsHold' /\ FinHolds'
  BY <1>1, <1>2, HeldStays, WholeStays, OnceStays DEF TransferInv, DiskHolds, UploadsHold,
     FinHolds, Named
<1>6. WireHolds' /\ \A r \in Rows : Attended(r)'
  <2>1. q.live => Told([q EXCEPT !.ans = a])'
    BY <1>1, <1>3, <1>4, RequestTypes, Telling
  <2> QED BY <1>1, <1>2, <1>4, <2>1, Replying
<1>7. RowsHold'
  BY <1>1, <1>2, RowsStay DEF TransferInv
<1> QED BY <1>2, <1>5, <1>6, <1>7 DEF TransferInv

LEMMA PutKeeps ==
    ASSUME TransferInv, NEW q, Taking(q), Put(q)
    PROVE  TransferInv'
<1> DEFINE d == Dir[q.r]
           D == dir[d]
           E == IF D.meta = "none" \/ D.reply # NoReply THEN D
                ELSE [D EXCEPT !.chunks = @ \cup {q.n}]
           A == IF D.meta = "none" THEN Ans("404", {}, 0) ELSE Ans("ok", Have(E), 0)
<1>1. /\ q \in wire /\ q.ans = NoAns /\ q.op = "put" /\ wire' = Replies(q, A)
      /\ UNCHANGED <<row, pipe, faults, edits, minted, refused, fin, again>>
      /\ dir' = [dir EXCEPT ![d] = E]
      /\ stored' = [stored EXCEPT ![d] = @ \cup E.chunks]
  BY DEF Taking, Put
<1>2. /\ q \in Requests /\ d \in Dirs /\ D \in Directories /\ Whole(d) /\ Named(d)
      /\ stored[d] \subseteq Chunks /\ D.chunks \subseteq Chunks
      /\ Have(D) \subseteq stored[d] /\ q.n \in Chunks
  <2>1. Told(q)
    BY <1>1, RequestTypes
  <2> QED BY <1>1, <2>1, RequestTypes DEF Told
<1>3. /\ E \in Directories /\ E.meta = D.meta /\ E.reply = D.reply
      /\ E.chunks \subseteq Chunks
  BY <1>2 DEF Directories
<1> HIDE DEF E
<1>4. stored' \in [Dirs -> SUBSET Chunks] /\ stored'[d] = stored[d] \cup E.chunks
      /\ \A e \in Dirs : stored[e] \subseteq stored'[e]
  BY <1>1, <1>2, <1>3 DEF TransferInv, RestTyped
<1>5. RestTyped' /\ Grows
  BY <1>1, <1>4 DEF TransferInv, RestTyped, Grows
<1>6. DiskHolds' /\ UploadsHold' /\ FinHolds'
  BY <1>1, <1>2, <1>3, <1>4, <1>5, DiskStays DEF Named
<1>7. Have(E) \subseteq stored'[d] /\ Have(E) \subseteq Chunks
  BY <1>2, <1>3, <1>4 DEF Have, Whole
<1>8. PICK a \in Answers :
        a = A /\ a.code \in {"ok", "404"} /\ a.have \subseteq stored'[Dir[q.r]]
  BY <1>2, <1>7, AnsTypes
<1> HIDE DEF A
<1>9. WireHolds' /\ \A r \in Rows : Attended(r)'
  <2>1. q.live => Told([q EXCEPT !.ans = a])'
    BY <1>1, <1>2, <1>8, RequestTypes, Telling
  <2> QED BY <1>1, <1>5, <1>8, <2>1, Replying
<1>10. RowsHold'
  BY <1>1, <1>5, RowsStay DEF TransferInv
<1> QED BY <1>5, <1>6, <1>9, <1>10 DEF TransferInv


(* Requests that go, or are of nobody who waits, change nothing.           *)
LEMMA WireShrinks ==
    ASSUME TransferInv, RestTyped', Grows, wire' \subseteq wire
    PROVE  WireHolds'
  BY ToldStays DEF TransferInv, WireHolds

LEMMA DeleteKeeps ==
    ASSUME TransferInv, NEW q, Taking(q), Delete(q)
    PROVE  TransferInv'
<1> DEFINE d == Dir[q.r]
<1>1. /\ q \in wire
      /\ UNCHANGED <<row, pipe, faults, edits, minted, refused, fin, stored>>
      /\ dir' = [dir EXCEPT ![d] = Empty] /\ wire' = wire \ {q}
      /\ again' = IF dir[d].reply # NoReply THEN again \cup {d} ELSE again
  BY DEF Taking, Delete
<1>2. d \in Dirs /\ Empty \in Directories /\ Empty.chunks = {} /\ Empty.reply = NoReply
      /\ Empty.meta = "none"
  BY <1>1, RequestTypes DEF Empty, Directories
<1>3. RestTyped' /\ Grows
  BY <1>1, <1>2 DEF TransferInv, RestTyped, Grows
<1>4. DiskHolds' /\ UploadsHold' /\ FinHolds'
  BY <1>1, <1>2, <1>3, DiskStays
<1>5. ASSUME NEW r \in Rows PROVE Attended(r)'
  BY <1>1, AttendedStays DEF TransferInv, Of, Finishing
<1> QED BY <1>1, <1>3, <1>4, <1>5, WireShrinks, RowsStay DEF TransferInv

(* What is under way in a directory does not say what it holds.            *)
LEMMA DirectoriesStay ==
    ASSUME TransferInv, RestTyped', Grows, UNCHANGED dir,
           \A h \in fin' : h.cid \in Users(Dir[h.r])
    PROVE  DiskHolds'
  BY WholeStays DEF TransferInv, DiskHolds, Named

LEMMA FinishKeeps ==
    ASSUME TransferInv, NEW q, Taking(q), Finish(q)
    PROVE  TransferInv'
<1> DEFINE d == Dir[q.r]
           D == dir[d]
           A == IF D.meta = "none" THEN Ans("404", {}, 0)
                ELSE IF Kept(D) # NoReply THEN Ans("ok", {}, Kept(D).up)
                ELSE Ans("409", {}, 0)
           g == [r |-> q.r, cid |-> D.meta, live |-> q.live, up |-> 0, at |-> "assemble"]
<1>1. /\ q \in wire /\ q.ans = NoAns /\ q.op = "finish"
      /\ UNCHANGED <<row, pipe, faults, edits, minted, refused, dir, stored>>
  BY DEF Taking, Finish
<1>2. /\ q \in Requests /\ q.r \in Rows /\ d \in Dirs /\ D \in Directories
      /\ Whole(d) /\ Named(d) /\ q.live \in BOOLEAN /\ Told(q)
  BY <1>1, RequestTypes
<1>3. CASE D.meta = "none" \/ Kept(D) # NoReply \/ D.chunks # Chunks
  <2>1. wire' = Replies(q, A) /\ UNCHANGED <<fin, again>>
    BY <1>3 DEF Finish
  <2>2. RestTyped' /\ Grows
    BY <1>1, <2>1 DEF TransferInv, RestTyped, Grows
  <2>3. Kept(D) # NoReply => D.reply.up \in 1 .. minted[d] /\ D.reply.up \in Nat
    BY <1>2 DEF Whole, Kept, TransferInv, RestTyped
  <2>4. PICK a \in Answers :
          /\ a = A /\ a.code \in {"404", "409", "ok"}
          /\ a.code = "ok" => a.up \in 1 .. minted'[d]
    <3>1. CASE Kept(D) # NoReply /\ D.meta # "none"
      BY <1>1, <2>3, <3>1, AnsTypes DEF Kept
    <3>2. CASE ~(Kept(D) # NoReply /\ D.meta # "none")
      BY <3>2, AnsTypes
    <3> QED BY <3>1, <3>2
  <2> HIDE DEF A
  <2>5. q.live => Told([q EXCEPT !.ans = a])'
    <3> DEFINE p == [q EXCEPT !.ans = a]
    <3>1. p.live = q.live /\ p.r = q.r /\ p.op = q.op /\ p.n = q.n /\ p.ans = a
      BY <1>2 DEF Requests
    <3> HIDE DEF p
    <3>2. q.live => Told(p)'
      BY <1>1, <1>2, <2>4, <3>1 DEF Told
    <3> QED BY <3>2 DEF p
  <2>6. WireHolds' /\ \A r \in Rows : Attended(r)'
    BY <1>1, <2>1, <2>2, <2>4, <2>5, Replying
  <2>7. DiskHolds' /\ UploadsHold' /\ FinHolds'
    BY <1>1, <2>1, <2>2, HeldStays, WholeStays, OnceStays DEF TransferInv, DiskHolds,
       UploadsHold, FinHolds, Named
  <2> QED BY <1>1, <2>2, <2>6, <2>7, RowsStay DEF TransferInv
<1>4. CASE ~(D.meta = "none" \/ Kept(D) # NoReply \/ D.chunks # Chunks)
  <2>1. /\ fin' = fin \cup {g} /\ wire' = wire \ {q}
        /\ again' = IF \E h \in fin : Dir[h.r] = d THEN again \cup {d} ELSE again
    BY <1>4 DEF Finish
  <2>2. RestTyped' /\ Grows
    BY <1>1, <1>2, <2>1 DEF TransferInv, RestTyped, Grows
  <2>3. g \in Handlers /\ g.r = q.r /\ g.live = q.live /\ g.at = "assemble" /\ g.cid = D.meta
    BY <1>2, <1>4 DEF Handlers, Directories
  <2> HIDE DEF g
  <2>4. FinHolds'
    BY <2>1, <2>2, <2>3, HeldStays DEF TransferInv, FinHolds, Held
  <2>5. DiskHolds'
    <3>1. \A h \in fin' : h.cid \in Users(Dir[h.r])
      BY <1>2, <1>4, <2>1, <2>3, DirsOfRows DEF TransferInv, FinHolds, DiskHolds, Named, Handlers
    <3> QED BY <1>1, <2>2, <3>1, DirectoriesStay
  <2>6. ASSUME NEW e \in Dirs, Sole(e) PROVE e \in again' \/ Once(e)'
    <3>1. e \in again \/ Once(e)
      BY <2>6 DEF TransferInv, UploadsHold
    <3>2. CASE e # d
      BY <1>1, <2>1, <2>3, <3>1, <3>2, OnceStays
    <3>3. CASE e = d /\ ~\E h \in fin : Dir[h.r] = d
      BY <1>1, <1>4, <2>1, <2>3, <3>1, <3>3 DEF Once, Kept, Minting
    <3> QED BY <2>1, <3>2, <3>3
  <2>7. ASSUME NEW r \in Rows PROVE Attended(r)'
    <3>1. Attended(r)
      BY DEF TransferInv
    <3>2. CASE q.r = r /\ q.live
      <4>1. q \in Of(r) /\ Finishing(r) = {} /\ row[r].st = "active" /\ row[r].pc = "finish"
        BY <1>1, <3>1, <3>2 DEF Of, Attended
      <4>2. Of(r) = {q}
        BY <1>1, <3>1, <4>1 DEF Attended
      <4>3. Of(r)' = {} /\ Finishing(r)' = {g}
        BY <2>1, <2>3, <3>2, <4>1, <4>2 DEF Of, Finishing
      <4> QED BY <1>1, <4>1, <4>3 DEF Attended
    <3>3. CASE ~(q.r = r /\ q.live)
      BY <1>1, <2>1, <2>3, <3>1, <3>3, AttendedStays DEF Of, Finishing
    <3> QED BY <3>2, <3>3
  <2> QED BY <1>1, <2>1, <2>2, <2>4, <2>5, <2>6, <2>7, WireShrinks, RowsStay
          DEF TransferInv, UploadsHold
<1> QED BY <1>3, <1>4

LEMMA TakeKeeps == ASSUME TransferInv, NEW q \in wire, Take(q) PROVE TransferInv'
  BY BeginKeeps, GetKeeps, PutKeeps, DeleteKeeps, FinishKeeps DEF Take, Taking


-----------------------------------------------------------------------------
(* The handlers of finish. *)

LEMMA HandlerTypes ==
    ASSUME TransferInv, NEW h \in fin
    PROVE  /\ h \in Handlers /\ h.r \in Rows /\ h.cid \in Cids /\ h.live \in BOOLEAN
           /\ h.up \in Nat /\ Held(h)
           /\ Dir[h.r] \in Dirs /\ Cid[h.r] \in Cids
           /\ dir[Dir[h.r]] \in Directories /\ Whole(Dir[h.r]) /\ Named(Dir[h.r])
           /\ h.cid \in Users(Dir[h.r]) /\ minted[Dir[h.r]] \in Nat
<1>1. h \in Handlers /\ h.r \in Rows /\ Held(h)
  BY DEF TransferInv, FinHolds, Handlers
<1> QED BY <1>1, DirsOfRows DEF Handlers, TransferInv, DiskHolds, Named, RestTyped

(* A handler goes on as it was: who waits for it, waits for it.            *)
LEMMA Proceeding ==
    ASSUME TransferInv, RestTyped', Grows, NEW h \in fin, NEW g \in Handlers,
           Proceeds(h, g), g.r = h.r, g.live = h.live, Held(g)', UNCHANGED row
    PROVE  WireHolds' /\ FinHolds' /\ \A r \in Rows : Attended(r)'
<1>1. fin' = (fin \ {h}) \cup {g} /\ UNCHANGED wire
  BY DEF Proceeds
<1>2. FinHolds'
  BY <1>1, HeldStays DEF TransferInv, FinHolds
<1>3. ASSUME NEW r \in Rows PROVE Attended(r)'
  <2>1. Attended(r) /\ Of(r)' = Of(r)
    BY <1>1 DEF TransferInv, Of
  <2>2. CASE h.r = r /\ h.live
    <3>1. h \in Finishing(r) /\ Finishing(r)' = (Finishing(r) \ {h}) \cup {g}
      BY <1>1, <2>2 DEF Finishing
    <3> QED BY <2>1, <3>1 DEF Attended
  <2>3. CASE ~(h.r = r /\ h.live)
    BY <1>1, <2>1, <2>3, AttendedStays DEF Finishing
  <2> QED BY <2>2, <2>3
<1> QED BY <1>1, <1>2, <1>3, WireShrinks

(* A handler ends: who waits for it is answered.                           *)
LEMMA Ending ==
    ASSUME TransferInv, RestTyped', Grows, NEW h \in fin, NEW a \in Answers,
           Ends(h, a), a.code = "ok" => a.up \in 1 .. minted'[Dir[h.r]],
           a.code = "gone" => Cid[h.r] \in refused', UNCHANGED row
    PROVE  WireHolds' /\ FinHolds' /\ \A r \in Rows : Attended(r)'
<1>1. PICK p : p = [Asks(h.r, "finish", 0) EXCEPT !.ans = a]
  OBVIOUS
<1>2. h \in Handlers /\ h.r \in Rows
  BY HandlerTypes
<1>3. /\ p \in Requests /\ p.r = h.r /\ p.op = "finish" /\ p.n = 0 /\ p.live = TRUE
      /\ p.ans = a
  BY <1>1, <1>2 DEF Asks, Requests, NoAns, Ans
<1>4. fin' = fin \ {h} /\ wire' = IF h.live THEN wire \cup {p} ELSE wire
  BY <1>1 DEF Ends
<1>5. Told(p)'
  BY <1>3 DEF Told
<1>6. WireHolds'
  BY <1>3, <1>4, <1>5, ToldStays DEF TransferInv, WireHolds
<1>7. FinHolds'
  BY <1>4, HeldStays DEF TransferInv, FinHolds
<1>8. ASSUME NEW r \in Rows PROVE Attended(r)'
  <2>1. Attended(r)
    BY DEF TransferInv
  <2>2. CASE h.r = r /\ h.live
    <3>1. h \in Finishing(r) /\ Of(r) = {} /\ row[r].st = "active" /\ row[r].pc = "finish"
      BY <2>1, <2>2 DEF Finishing, Attended
    <3>2. Finishing(r)' = {} /\ Of(r)' = {p}
      BY <1>3, <1>4, <2>1, <2>2, <3>1 DEF Of, Finishing, Attended
    <3> QED BY <1>3, <3>1, <3>2 DEF Attended
  <2>3. CASE ~(h.r = r /\ h.live)
    BY <1>3, <1>4, <2>1, <2>3, AttendedStays DEF Of, Finishing
  <2> QED BY <2>2, <2>3
<1> QED BY <1>6, <1>7, <1>8

(* What a handler that ends without an upload leaves.                      *)
LEMMA GivesUp ==
    ASSUME TransferInv, NEW h \in fin, h.at \in {"assemble", "route"}, NEW a \in Answers,
           Ends(h, a), a.code \in {"500", "gone"},
           a.code = "gone" => Cid[h.r] \in refused',
           UNCHANGED <<row, pipe, dir, edits, minted, again, stored>>,
           faults' \in 0 .. MaxFaults, refused \subseteq refused', refused' \subseteq Cids
    PROVE  TransferInv'
<1>1. RestTyped' /\ Grows
  BY DEF TransferInv, RestTyped, Grows
<1>2. WireHolds' /\ FinHolds' /\ \A r \in Rows : Attended(r)'
  BY <1>1, Ending
<1>3. fin' = fin \ {h}
  BY DEF Ends
<1>4. DiskHolds'
  BY <1>1, <1>3, HandlerTypes, DirectoriesStay
<1>5. ASSUME NEW d \in Dirs, Sole(d) PROVE d \in again' \/ Once(d)'
  <2>1. d \in again \/ Once(d)
    BY <1>5 DEF TransferInv, UploadsHold
  <2>2. CASE Once(d) /\ Dir[h.r] = d
    BY <1>3, <2>2 DEF Once, Minting
  <2>3. CASE Once(d) /\ Dir[h.r] # d
    BY <1>3, <2>3, OnceStays
  <2> QED BY <2>1, <2>2, <2>3
<1> QED BY <1>1, <1>2, <1>4, <1>5, RowsStay DEF TransferInv, UploadsHold

LEMMA StrikesTypes ==
    ASSUME RestTyped, NEW f, Strikes(f)
    PROVE  faults' \in 0 .. MaxFaults
  BY DEF RestTyped, Strikes

LEMMA AssembleKeeps ==
    ASSUME TransferInv, NEW h \in fin, Assemble(h)
    PROVE  TransferInv'
<1>1. /\ h \in Handlers /\ Held(h) /\ Dir[h.r] \in Dirs /\ Whole(Dir[h.r])
      /\ h.at = "assemble"
      /\ UNCHANGED <<row, pipe, dir, faults, edits, minted, again, stored, refused>>
  BY HandlerTypes DEF Assemble, history
<1>2. RestTyped' /\ Grows
  BY <1>1 DEF TransferInv, RestTyped, Grows
<1>3. CASE dir[Dir[h.r]].chunks = Chunks
  <2>1. PICK g : g = [h EXCEPT !.at = "route"]
    OBVIOUS
  <2>2. /\ g \in Handlers /\ g.r = h.r /\ g.live = h.live /\ g.at = "route" /\ g.cid = h.cid
    BY <1>1, <2>1 DEF Handlers
  <2>3. Proceeds(h, g)
    BY <1>3, <2>1 DEF Assemble
  <2>4. Held(g)'
    BY <1>1, <1>3, <2>2 DEF Held, Whole
  <2>5. WireHolds' /\ FinHolds' /\ \A r \in Rows : Attended(r)'
    BY <1>1, <1>2, <2>2, <2>3, <2>4, Proceeding
  <2>6. fin' = (fin \ {h}) \cup {g}
    BY <2>3 DEF Proceeds
  <2>7. DiskHolds'
    BY <1>1, <1>2, <2>2, <2>6, HandlerTypes, DirectoriesStay
  <2>8. ASSUME NEW d \in Dirs, Sole(d) PROVE d \in again' \/ Once(d)'
    <3>1. d \in again \/ Once(d)
      BY <2>8 DEF TransferInv, UploadsHold
    <3>2. CASE Once(d) /\ Dir[h.r] = d
      BY <1>1, <2>2, <2>6, <3>2 DEF Once, Minting
    <3>3. CASE Once(d) /\ Dir[h.r] # d
      BY <1>1, <2>2, <2>6, <3>3, OnceStays
    <3> QED BY <1>1, <3>1, <3>2, <3>3
  <2> QED BY <1>1, <1>2, <2>5, <2>7, <2>8, RowsStay DEF TransferInv, UploadsHold
<1>4. CASE dir[Dir[h.r]].chunks # Chunks
  <2>1. PICK a \in Answers : a = Ans("500", {}, 0) /\ a.code = "500"
    BY AnsTypes
  <2>2. Ends(h, a)
    BY <1>4, <2>1 DEF Assemble
  <2>3. faults' \in 0 .. MaxFaults /\ refused' \subseteq Cids
    BY <1>2 DEF RestTyped
  <2> QED BY <1>1, <2>1, <2>2, <2>3, GivesUp
<1> QED BY <1>3, <1>4

LEMMA RouteKeeps ==
    ASSUME TransferInv, NEW h \in fin, Route(h)
    PROVE  TransferInv'
<1> DEFINE e == Dir[h.r]
<1>1. /\ h \in Handlers /\ Held(h) /\ e \in Dirs /\ minted[e] \in Nat
      /\ h.at = "route" /\ minted' = [minted EXCEPT ![e] = @ + 1]
      /\ UNCHANGED <<row, pipe, dir, faults, edits, again, stored, refused>>
  BY HandlerTypes DEF Route
<1>2. /\ minted'[e] = minted[e] + 1 /\ \A d \in Dirs : d # e => minted'[d] = minted[d]
      /\ minted' \in [Dirs -> Nat] /\ \A d \in Dirs : minted[d] <= minted'[d]
  BY <1>1 DEF TransferInv, RestTyped
<1>3. RestTyped' /\ Grows
  BY <1>1, <1>2 DEF TransferInv, RestTyped, Grows
<1>4. PICK g : g = [h EXCEPT !.at = "clean", !.up = minted'[e]]
  OBVIOUS
<1>5. /\ g \in Handlers /\ g.r = h.r /\ g.live = h.live /\ g.at = "clean" /\ g.cid = h.cid
      /\ g.up = minted[e] + 1
  BY <1>1, <1>2, <1>4 DEF Handlers
<1>6. Proceeds(h, g)
  BY <1>4 DEF Route
<1>7. Held(g)'
  BY <1>1, <1>2, <1>5 DEF Held
<1>8. WireHolds' /\ FinHolds' /\ \A r \in Rows : Attended(r)'
  BY <1>1, <1>3, <1>5, <1>6, <1>7, Proceeding
<1>9. fin' = (fin \ {h}) \cup {g}
  BY <1>6 DEF Proceeds
<1>10. DiskHolds'
  BY <1>1, <1>3, <1>5, <1>9, HandlerTypes, DirectoriesStay
<1>11. ASSUME NEW d \in Dirs, Sole(d) PROVE d \in again' \/ Once(d)'
  <2>1. d \in again \/ Once(d)
    BY <1>11 DEF TransferInv, UploadsHold
  <2>2. CASE Once(d) /\ e = d
    BY <1>1, <1>2, <1>5, <1>9, <2>2 DEF Once, Minting
  <2>3. CASE Once(d) /\ e # d
    BY <1>1, <1>2, <1>5, <1>9, <2>3, OnceStays
  <2> QED BY <1>1, <2>1, <2>2, <2>3
<1> QED BY <1>1, <1>3, <1>8, <1>10, <1>11, RowsStay DEF TransferInv, UploadsHold

LEMMA RefusesKeeps ==
    ASSUME TransferInv, NEW h \in fin, RouteRefuses(h)
    PROVE  TransferInv'
<1>1. /\ h.at = "route" /\ UNCHANGED <<row, pipe, dir, edits, minted, again, stored>>
      /\ Cid[h.r] \in Cids /\ refused \subseteq Cids /\ faults' \in 0 .. MaxFaults
  BY HandlerTypes, StrikesTypes DEF RouteRefuses, TransferInv, RestTyped
<1>2. CASE Ends(h, Ans("gone", {}, 0)) /\ refused' = refused \cup {Cid[h.r]}
  <2>1. PICK a \in Answers : a = Ans("gone", {}, 0) /\ a.code = "gone"
    BY AnsTypes
  <2> QED BY <1>1, <1>2, <2>1, GivesUp
<1>3. CASE Ends(h, Ans("500", {}, 0)) /\ refused' = refused
  <2>1. PICK a \in Answers : a = Ans("500", {}, 0) /\ a.code = "500"
    BY AnsTypes
  <2> QED BY <1>1, <1>3, <2>1, GivesUp
<1> QED BY <1>2, <1>3 DEF RouteRefuses

LEMMA CleanKeeps ==
    ASSUME TransferInv, NEW h \in fin, Clean(h)
    PROVE  TransferInv'
<1> DEFINE e == Dir[h.r]
<1>1. /\ h \in Handlers /\ Held(h) /\ e \in Dirs /\ minted[e] \in Nat
      /\ h.at = "clean" /\ dir' = [dir EXCEPT ![e].chunks = {}]
      /\ UNCHANGED <<row, pipe, faults, edits, minted, again, stored, refused>>
  BY HandlerTypes DEF Clean, history
<1>2. RestTyped' /\ Grows
  BY <1>1 DEF TransferInv, RestTyped, Grows
<1>3. PICK g : g = [h EXCEPT !.at = "record"]
  OBVIOUS
<1>4. /\ g \in Handlers /\ g.r = h.r /\ g.live = h.live /\ g.at = "record" /\ g.cid = h.cid
      /\ g.up = h.up
  BY <1>1, <1>3 DEF Handlers
<1>5. Proceeds(h, g)
  BY <1>3 DEF Clean
<1>6. Held(g)'
  BY <1>1, <1>4 DEF Held
<1>7. WireHolds' /\ FinHolds' /\ \A r \in Rows : Attended(r)'
  BY <1>1, <1>2, <1>4, <1>5, <1>6, Proceeding
<1>8. fin' = (fin \ {h}) \cup {g}
  BY <1>5 DEF Proceeds
<1>9. /\ dir' \in [Dirs -> Directories]
      /\ \A d \in Dirs : /\ dir'[d].meta = dir[d].meta /\ dir'[d].reply = dir[d].reply
                         /\ dir'[d].chunks \subseteq dir[d].chunks
  <2>1. \A d \in Dirs : dir[d] \in Directories
    BY DEF TransferInv, DiskHolds
  <2> QED BY <1>1, <2>1 DEF Directories, TransferInv, DiskHolds
<1>10. ASSUME NEW d \in Dirs PROVE Whole(d)' /\ Named(d)'
  <2>1. Whole(d) /\ Named(d)
    BY DEF TransferInv, DiskHolds
  <2>2. Whole(d)'
    BY <1>1, <1>9, <2>1 DEF Whole
  <2>3. Named(d)'
    BY <1>1, <1>4, <1>8, <1>9, <2>1 DEF Named
  <2> QED BY <2>2, <2>3
<1>11. ASSUME NEW d \in Dirs, Sole(d) PROVE d \in again' \/ Once(d)'
  <2>1. d \in again \/ Once(d)
    BY <1>11 DEF TransferInv, UploadsHold
  <2>2. CASE Once(d) /\ e = d
    BY <1>1, <1>4, <1>8, <1>9, <2>2 DEF Once, Minting
  <2>3. CASE Once(d) /\ e # d
    BY <1>1, <1>4, <1>8, <1>9, <2>3, OnceStays
  <2> QED BY <1>1, <2>1, <2>2, <2>3
<1> QED BY <1>1, <1>2, <1>7, <1>9, <1>10, <1>11, RowsStay DEF TransferInv, UploadsHold, DiskHolds

LEMMA RecordKeeps ==
    ASSUME TransferInv, NEW h \in fin, Record(h)
    PROVE  TransferInv'
<1> DEFINE e == Dir[h.r]
<1>1. /\ h \in Handlers /\ Held(h) /\ e \in Dirs /\ minted[e] \in Nat /\ h.cid \in Cids
      /\ h.up \in Nat /\ h.cid \in Users(e) /\ Ends(h, Ans("ok", {}, h.up))
      /\ h.at = "record" /\ dir' = [dir EXCEPT ![e].reply = [cid |-> h.cid, up |-> h.up]]
      /\ UNCHANGED <<row, pipe, faults, edits, minted, again, stored, refused>>
  BY HandlerTypes DEF Record, history
<1>2. RestTyped' /\ Grows
  BY <1>1 DEF TransferInv, RestTyped, Grows
<1>3. PICK a \in Answers : a = Ans("ok", {}, h.up) /\ a.code = "ok" /\ a.up = h.up
  BY <1>1, AnsTypes
<1>4. h.up \in 1 .. minted[e] /\ Chunks \subseteq stored[e]
  BY <1>1 DEF Held
<1>5. WireHolds' /\ FinHolds' /\ \A r \in Rows : Attended(r)'
  BY <1>1, <1>2, <1>3, <1>4, Ending
<1>6. fin' = fin \ {h}
  BY <1>1 DEF Ends
<1>7. PICK reply : reply = [cid |-> h.cid, up |-> h.up]
  OBVIOUS
<1>8. reply \in [cid : Cids, up : Nat] /\ reply.cid = h.cid /\ reply.up = h.up
      /\ reply # NoReply
  BY <1>1, <1>7 DEF NoReply
<1>9. /\ dir' \in [Dirs -> Directories]
      /\ \A d \in Dirs : /\ dir'[d].meta = dir[d].meta /\ dir'[d].chunks = dir[d].chunks
                         /\ dir'[d].reply = IF d = e THEN reply ELSE dir[d].reply
  <2>1. \A d \in Dirs : dir[d] \in Directories
    BY DEF TransferInv, DiskHolds
  <2> QED BY <1>1, <1>7, <1>8, <2>1 DEF Directories, TransferInv, DiskHolds
<1>10. ASSUME NEW d \in Dirs PROVE Whole(d)' /\ Named(d)'
  <2>1. Whole(d) /\ Named(d)
    BY DEF TransferInv, DiskHolds
  <2>2. Whole(d)'
    BY <1>1, <1>4, <1>8, <1>9, <2>1 DEF Whole
  <2>3. Named(d)'
    BY <1>1, <1>6, <1>8, <1>9, <2>1 DEF Named
  <2> QED BY <2>2, <2>3
<1>11. ASSUME NEW d \in Dirs, Sole(d) PROVE d \in again' \/ Once(d)'
  <2>1. d \in again \/ Once(d)
    BY <1>11 DEF TransferInv, UploadsHold
  <2>2. CASE Once(d) /\ e = d
    BY <1>1, <1>6, <1>8, <1>9, <2>2 DEF Once, Minting
  <2>3. CASE Once(d) /\ e # d
    BY <1>1, <1>6, <1>9, <2>3, OnceStays
  <2> QED BY <1>1, <2>1, <2>2, <2>3
<1> QED BY <1>1, <1>2, <1>5, <1>9, <1>10, <1>11, RowsStay DEF TransferInv, UploadsHold, DiskHolds

LEMMA HandlesKeep == ASSUME TransferInv, NEW h \in fin, Handles(h) PROVE TransferInv'
  BY AssembleKeeps, RouteKeeps, RefusesKeeps, CleanKeeps, RecordKeeps DEF Handles


LEMMA SweepKeeps ==
    ASSUME TransferInv, NEW d \in Dirs, Sweep(d)
    PROVE  TransferInv'
<1>1. /\ UNCHANGED <<row, pipe, wire, fin, edits, minted, stored, refused>>
      /\ dir' = [dir EXCEPT ![d] = Empty] /\ faults' \in 0 .. MaxFaults
      /\ again' = IF dir[d].reply # NoReply THEN again \cup {d} ELSE again
  BY StrikesTypes DEF Sweep, TransferInv
<1>2. Empty \in Directories /\ Empty.chunks = {} /\ Empty.reply = NoReply /\ Empty.meta = "none"
  BY DEF Empty, Directories
<1>3. RestTyped' /\ Grows
  BY <1>1 DEF TransferInv, RestTyped, Grows
<1>4. DiskHolds' /\ UploadsHold' /\ FinHolds'
  BY <1>1, <1>2, <1>3, DiskStays
<1>5. ASSUME NEW r \in Rows PROVE Attended(r)'
  BY <1>1, AttendedStays DEF TransferInv, Of, Finishing
<1> QED BY <1>1, <1>3, <1>4, <1>5, WireShrinks, RowsStay DEF TransferInv

-----------------------------------------------------------------------------
(* The app: what its steps leave of the engine, the wire and the rows. *)

(* A handler that nobody waits for any more is the same handler.           *)
LEMMA Abandoned ==
    ASSUME NEW H, H \subseteq fin, fin \subseteq Handlers
    PROVE  /\ \A g \in Abandon(H) : \E h \in fin :
                /\ g = IF h \in H THEN [h EXCEPT !.live = FALSE] ELSE h
                /\ g \in Handlers /\ g.r = h.r /\ g.cid = h.cid /\ g.up = h.up
                /\ g.at = h.at /\ (g.live => g = h /\ h \notin H)
           /\ \A h \in fin : \E g \in Abandon(H) : g.r = h.r
           /\ \A x : {g \in Abandon(H) : g.r = x /\ g.live} \subseteq Finishing(x) \ H
<1>1. ASSUME NEW h \in fin
      PROVE  LET g == [h EXCEPT !.live = FALSE] IN
             /\ g \in Handlers /\ g.r = h.r /\ g.cid = h.cid /\ g.up = h.up
             /\ g.at = h.at /\ ~g.live
  BY DEF Handlers
<1>2. \A g \in Abandon(H) : \E h \in fin :
         /\ g = IF h \in H THEN [h EXCEPT !.live = FALSE] ELSE h
         /\ g \in Handlers /\ g.r = h.r /\ g.cid = h.cid /\ g.up = h.up
         /\ g.at = h.at /\ (g.live => g = h /\ h \notin H)
  <2> SUFFICES ASSUME NEW g \in Abandon(H)
               PROVE  \E h \in fin :
                        /\ g = IF h \in H THEN [h EXCEPT !.live = FALSE] ELSE h
                        /\ g \in Handlers /\ g.r = h.r /\ g.cid = h.cid /\ g.up = h.up
                        /\ g.at = h.at /\ (g.live => g = h /\ h \notin H)
    OBVIOUS
  <2>1. CASE g \in fin \ H
    BY <2>1
  <2>2. CASE \E h \in H : g = [h EXCEPT !.live = FALSE]
    BY <1>1, <2>2
  <2> QED BY <2>1, <2>2 DEF Abandon
<1>3. ASSUME NEW h \in fin PROVE \E g \in Abandon(H) : g.r = h.r
  <2>1. CASE h \in H
    BY <1>1, <2>1 DEF Abandon
  <2>2. CASE h \notin H
    BY <2>2 DEF Abandon
  <2> QED BY <2>1, <2>2
<1>4. \A x : {g \in Abandon(H) : g.r = x /\ g.live} \subseteq Finishing(x) \ H
  BY <1>2 DEF Finishing
<1> QED BY <1>2, <1>3, <1>4

LEMMA NoneAbandoned == Abandon({}) = fin
  BY DEF Abandon

(* The engine goes on, whoever waits.                                      *)
LEMMA EngineStays ==
    ASSUME TransferInv, RestTyped', Grows, NEW H \in SUBSET fin, fin' = Abandon(H),
           UNCHANGED <<dir, minted, again>>
    PROVE  /\ FinHolds' /\ DiskHolds' /\ UploadsHold'
           /\ \A x : Finishing(x)' \subseteq Finishing(x) \ H
<1>1. fin \subseteq Handlers
  BY DEF TransferInv, FinHolds
<1>2. FinHolds'
  <2>1. ASSUME NEW g \in fin' PROVE g \in Handlers /\ Held(g)'
    <3>1. PICK h \in fin : g \in Handlers /\ g.r = h.r /\ g.cid = h.cid /\ g.up = h.up
                           /\ g.at = h.at
      BY <1>1, <2>1, Abandoned
    <3>2. Held(g)
      BY <3>1 DEF TransferInv, FinHolds, Held
    <3> QED BY <3>1, <3>2, HeldStays DEF TransferInv
  <2> QED BY <2>1 DEF FinHolds
<1>3. DiskHolds'
  <2>1. ASSUME NEW g \in fin' PROVE g.cid \in Users(Dir[g.r])
    <3>1. PICK h \in fin : g.r = h.r /\ g.cid = h.cid
      BY <1>1, <2>1, Abandoned
    <3> QED BY <3>1, HandlerTypes
  <2> QED BY <2>1, DirectoriesStay
<1>4. ASSUME NEW d \in Dirs, Sole(d) PROVE d \in again' \/ Once(d)'
  <2>1. d \in again \/ Once(d)
    BY <1>4 DEF TransferInv, UploadsHold
  <2>2. ASSUME Once(d) PROVE Once(d)'
    <3>1. ASSUME NEW x \in fin', NEW y \in fin', Dir[x.r] = d, Dir[y.r] = d PROVE x = y
      <4>1. PICK h \in fin : x.r = h.r /\ x = IF h \in H THEN [h EXCEPT !.live = FALSE] ELSE h
        BY <1>1, Abandoned
      <4>2. PICK g \in fin : y.r = g.r /\ y = IF g \in H THEN [g EXCEPT !.live = FALSE] ELSE g
        BY <1>1, Abandoned
      <4>3. h = g
        BY <2>2, <3>1, <4>1, <4>2 DEF Once
      <4> QED BY <4>1, <4>2, <4>3
    <3>2. ASSUME NEW x \in fin', Dir[x.r] = d
          PROVE  dir[d].reply = NoReply /\ minted[d] = IF Minting(x) THEN 1 ELSE 0
      <4>1. PICK h \in fin : x.r = h.r /\ x.at = h.at
        BY <1>1, Abandoned
      <4> QED BY <2>2, <3>2, <4>1 DEF Once, Minting
    <3>3. ASSUME \A x \in fin' : Dir[x.r] # d
          PROVE  minted[d] = IF dir[d].reply = NoReply THEN 0 ELSE 1
      <4>1. \A h \in fin : Dir[h.r] # d
        BY <1>1, <3>3, Abandoned
      <4> QED BY <2>2, <4>1 DEF Once
    <3> QED BY <3>1, <3>2, <3>3 DEF Once, Minting
  <2> QED BY <2>1, <2>2
<1>5. \A x : Finishing(x)' \subseteq Finishing(x) \ H
  BY <1>1, Abandoned DEF Finishing
<1> QED BY <1>2, <1>3, <1>4, <1>5 DEF UploadsHold

\* The wire holds W, of which what is live was there.
Loose(W) == \A x \in W : x \in Requests /\ Told(x) /\ (x.live => x \in wire)

(* A request that is cut is taken, if at all, for nobody.                  *)
LEMMA Cutting ==
    ASSUME TransferInv, NEW Q \in SUBSET wire
    PROVE  Loose(Cut(Q)) /\ \A x \in Cut(Q) : x.live => x \notin Q
<1>1. ASSUME NEW q \in Q, q.ans = NoAns
      PROVE  LET p == [q EXCEPT !.live = FALSE] IN p \in Requests /\ Told(p) /\ ~p.live
  <2> DEFINE p == [q EXCEPT !.live = FALSE]
  <2>1. p \in Requests /\ p.ans = q.ans /\ p.r = q.r /\ p.op = q.op /\ p.n = q.n /\ ~p.live
    BY <1>1 DEF TransferInv, WireHolds, Requests
  <2>2. Told(q)
    BY DEF TransferInv, WireHolds
  <2> HIDE DEF p
  <2>3. Told(p)
    BY <1>1, <2>1, <2>2 DEF Told
  <2> QED BY <2>1, <2>3 DEF p
<1>2. \A x \in wire : x \in Requests /\ Told(x)
  BY DEF TransferInv, WireHolds
<1> QED BY <1>1, <1>2 DEF Loose, Cut

LEMMA WireIsLoose == TransferInv => \A W \in SUBSET wire : Loose(W)
  BY DEF TransferInv, WireHolds, Loose

(* The wire after a step of the app.                                       *)
LEMMA WireLoosens ==
    ASSUME RestTyped, RestTyped', Grows, NEW W, Loose(W), wire' = W
    PROVE  /\ WireHolds'
           /\ \A x : Of(x)' \subseteq Of(x)
<1>1. \A x \in W : x \in Requests /\ Told(x)'
  BY ToldStays DEF Loose
<1> QED BY <1>1 DEF WireHolds, Loose, Of

LEMMA WireAsks ==
    ASSUME RestTyped, RestTyped', Grows, NEW W, Loose(W), NEW r \in Rows,
           NEW op \in {"begin", "get", "put", "finish"}, NEW n \in Chunks \cup {0},
           op = "put" => n \in Chunks, wire' = W \cup {Asks(r, op, n)}
    PROVE  /\ WireHolds'
           /\ \A x : x # r => Of(x)' \subseteq Of(x)
           /\ Of(r)' \subseteq (Of(r) \cap W) \cup {Asks(r, op, n)}
           /\ Asks(r, op, n).r = r /\ Asks(r, op, n).op = op /\ Asks(r, op, n).n = n
<1>1. PICK p : p = Asks(r, op, n)
  OBVIOUS
<1>2. /\ p \in Requests /\ p.r = r /\ p.op = op /\ p.n = n /\ p.ans = NoAns /\ p.live = TRUE
      /\ NoAns.code = "none" /\ NoAns.have = {}
  BY <1>1 DEF Asks, Requests, NoAns, Ans, Answers
<1>3. Told(p)'
  BY <1>2 DEF Told
<1>4. \A x \in W : x \in Requests /\ Told(x)'
  BY ToldStays DEF Loose
<1>5. wire' = W \cup {p}
  BY <1>1
<1>6. WireHolds'
  BY <1>2, <1>3, <1>4, <1>5 DEF WireHolds
<1>7. (\A x : x # r => Of(x)' \subseteq Of(x)) /\ Of(r)' \subseteq (Of(r) \cap W) \cup {p}
  BY <1>2, <1>5 DEF Of, Loose
<1> QED BY <1>1, <1>2, <1>6, <1>7


\* What the row r shows, as R, of the engine.
Shows(R, r) ==
    /\ R.acked \subseteq stored[Dir[r]]
    /\ R.st = "done" => R.res \in 1 .. minted[Dir[r]]
    /\ R.st = "gone" => Cid[r] \in refused
    /\ R.st = "active" => pipe

LEMMA RowTypes ==
    ASSUME TransferInv, NEW r \in Rows
    PROVE  /\ row[r] \in Fits /\ row[r] \in Row /\ Shows(row[r], r) /\ Attended(r)
           /\ row[r].st # "active" => Of(r) = {} /\ Finishing(r) = {} /\ row[r].pc = "idle"
           /\ row[r].timer => row[r].st = "queued"
           /\ Dir[r] \in Dirs /\ Cid[r] \in Cids
<1>1. row[r] \in Fits /\ Attended(r) /\ Shows(row[r], r)
  BY DEF TransferInv, RowsHold, AckedWasStored, NothingGivenUp, Shows
<1>2. row[r] \in Row /\ (row[r].timer => row[r].st = "queued")
      /\ (row[r].st # "active" => row[r].pc = "idle")
  BY <1>1 DEF Fits, Still
<1>3. row[r].st # "active" => Of(r) = {} /\ Finishing(r) = {}
  BY <1>1 DEF Attended
<1> QED BY <1>1, <1>2, <1>3, DirsOfRows

LEMMA RowsShow ==
    ASSUME row' \in [Rows -> Fits], \A r \in Rows : Shows(row[r], r)'
    PROVE  RowsHold'
  BY DEF RowsHold, AckedWasStored, NothingGivenUp, Shows

\* A step of the app about one row, which it leaves as R.
Sets(r, R) == row' = [row EXCEPT ![r] = R]

LEMMA OneRow ==
    ASSUME TransferInv, RestTyped', UNCHANGED <<pipe, minted, stored>>, refused \subseteq refused',
           NEW r \in Rows, NEW R \in Fits, Sets(r, R), Shows(R, r)'
    PROVE  RowsHold' /\ row'[r] = R /\ \A x \in Rows : x # r => row'[x] = row[x]
<1>1. row \in [Rows -> Fits]
  BY DEF TransferInv, RowsHold
<1>2. /\ row' \in [Rows -> Fits] /\ row'[r] = R
      /\ \A x \in Rows : x # r => row'[x] = row[x]
  BY <1>1 DEF Sets
<1>3. ASSUME NEW x \in Rows, x # r PROVE Shows(row[x], x)'
  <2>1. Shows(row[x], x) /\ row'[x] = row[x]
    BY <1>2, <1>3, RowTypes
  <2> QED BY <2>1 DEF Shows
<1>4. Shows(row[r], r)'
  BY <1>2 DEF Shows
<1> QED BY <1>2, <1>3, <1>4, RowsShow

(* The other rows are attended as before.                                  *)
LEMMA OthersAttended ==
    ASSUME TransferInv, NEW r, NEW x \in Rows, row'[x] = row[x],
           Of(x)' \subseteq Of(x), Finishing(x)' \subseteq Finishing(x)
    PROVE  Attended(x)'
  BY RowTypes, AttendedStays

(* The message of r is gone, and with it what waits of it.                 *)
LEMMA GoesKeep ==
    ASSUME TransferInv, RestTyped', UNCHANGED <<pipe, minted, stored>>,
           refused \subseteq refused', NEW r \in Rows, Cid[r] \in refused', Goes(r),
           \A x \in Rows : Of(x)' \subseteq Of(x) /\ Finishing(x)' \subseteq Finishing(x),
           Of(r)' = {}, Finishing(r)' = {}
    PROVE  RowsHold' /\ \A x \in Rows : Attended(x)'
<1> DEFINE going == {x \in Rows : x = r \/ (Cid[x] = Cid[r] /\ row[x].st = "queued")}
<1>1. /\ row' = [x \in Rows |-> IF x \in going
                                THEN [Idle(row[x]) EXCEPT !.st = "gone", !.timer = FALSE]
                                ELSE row[x]]
  BY DEF Goes
<1>2. ASSUME NEW x \in going
      PROVE  row'[x] \in Fits /\ Shows(row[x], x)' /\ Attended(x)'
  <2>1. /\ x \in Rows /\ row[x] \in Row /\ Shows(row[x], x)
        /\ row'[x] = [Idle(row[x]) EXCEPT !.st = "gone", !.timer = FALSE]
    BY <1>1, RowTypes
  <2>2. row'[x] \in Fits
    BY <2>1, EndsFit
  <2>3. row'[x].st = "gone" /\ row'[x].acked = row[x].acked
    BY <2>1 DEF Idle, Row
  <2>4. Shows(row[x], x)'
    BY <2>1, <2>3 DEF Shows
  <2>5. Of(x)' = {} /\ Finishing(x)' = {}
    BY <2>1, RowTypes
  <2> QED BY <2>2, <2>4, <2>5, Unattended
<1>3. ASSUME NEW x \in Rows, x \notin going
      PROVE  row'[x] \in Fits /\ Shows(row[x], x)' /\ Attended(x)'
  <2>1. row'[x] = row[x] /\ row[x] \in Fits /\ Shows(row[x], x)
    BY <1>1, <1>3, RowTypes
  <2>2. Shows(row[x], x)'
    BY <2>1 DEF Shows
  <2> QED BY <2>1, <2>2, OthersAttended
<1>4. row' \in [Rows -> Fits]
  BY <1>1, <1>2, <1>3
<1> QED BY <1>2, <1>3, <1>4, RowsShow

(* A pass that throws begins again, waits, or is given up.                 *)
LEMMA ThrowsKeep ==
    ASSUME TransferInv, RestTyped', UNCHANGED <<pipe, minted, stored, refused>>,
           NEW r \in Rows, row[r].st = "active",
           NEW code, code = "gone" => Cid[r] \in refused,
           NEW rest, Loose(rest), \A x \in rest : x.live => x.r # r,
           Throws(r, code, rest),
           \A x \in Rows : Finishing(x)' \subseteq Finishing(x), Finishing(r)' = {}
    PROVE  RowsHold' /\ WireHolds' /\ \A x \in Rows : Attended(x)'
<1>0. Grows /\ RestTyped
  BY DEF Grows, TransferInv, RestTyped
<1>1. /\ row[r] \in Row /\ row[r] \in Fits /\ ~row[r].timer /\ Shows(row[r], r)
      /\ Idle(row[r]) \in Row /\ Still(Idle(row[r])) /\ Idle(row[r]).st = "active"
      /\ Idle(row[r]).timer = FALSE
  <2>1. row[r] \in Row /\ row[r] \in Fits /\ ~row[r].timer /\ Shows(row[r], r)
    BY RowTypes
  <2>2. row[r].timer = FALSE
    BY <2>1 DEF Row
  <2>3. "gone" \in {"absent", "queued", "done", "gone"}
    OBVIOUS
  <2> QED BY <2>1, <2>2, <2>3, EndsFit
<1>2. CASE code = "404" /\ Rebegins(row[r])
  <2>0. PICK R : R = [Asking(Forgets(Idle(row[r])), "begin") EXCEPT !.rebegun = TRUE]
    OBVIOUS
  <2>1. Sets(r, R) /\ wire' = rest \cup {Asks(r, "begin", 0)}
    BY <1>2, <2>0 DEF Throws, Sets
  <2>2. /\ R \in Fits /\ R.st = "active" /\ R.acked = {} /\ R.pc = "begin"
    BY <1>1, <2>0 DEF Asking, Forgets, Fits, Still, Row
  <2>3. Shows(R, r)'
    BY <1>1, <2>2 DEF Shows
  <2>4. RowsHold' /\ row'[r] = R /\ \A x \in Rows : x # r => row'[x] = row[x]
    BY <2>1, <2>2, <2>3, OneRow
  <2>5. /\ WireHolds'
        /\ \A x : x # r => Of(x)' \subseteq Of(x)
        /\ Of(r)' \subseteq (Of(r) \cap rest) \cup {Asks(r, "begin", 0)}
        /\ Asks(r, "begin", 0).op = "begin" /\ Asks(r, "begin", 0).n = 0
    BY <1>0, <2>1, WireAsks
  <2>6. Of(r)' \subseteq {Asks(r, "begin", 0)}
    BY <2>5 DEF Of
  <2>7. Attended(r)'
    BY <2>2, <2>4, <2>5, <2>6 DEF Attended
  <2>8. ASSUME NEW x \in Rows, x # r PROVE Attended(x)'
    BY <2>4, <2>5, <2>8, OthersAttended
  <2> QED BY <2>4, <2>5, <2>7, <2>8
<1>3. CASE ~(code = "404" /\ Rebegins(row[r]))
  <2>1. wire' = rest /\ IF Refusal(code) THEN Goes(r)
                        ELSE Sets(r, Waits(IF code = "404" THEN Forgets(row[r]) ELSE row[r]))
    BY <1>3 DEF Throws, Sets
  <2>2. WireHolds' /\ \A x : Of(x)' \subseteq Of(x)
    BY <1>0, <2>1, WireLoosens
  <2>3. Of(r)' = {}
    BY <2>1 DEF Of
  <2>4. CASE Refusal(code)
    BY <2>1, <2>2, <2>3, <2>4, GoesKeep DEF Refusal
  <2>5. CASE ~Refusal(code)
    <3>1. PICK R : R = Waits(IF code = "404" THEN Forgets(row[r]) ELSE row[r])
      OBVIOUS
    <3>2. R \in Fits /\ R.st = "queued" /\ R.acked \subseteq row[r].acked
      <4>1. CASE code = "404"
        BY <1>1, <3>1, <4>1, ForgetsFits, QueuedFits
      <4>2. CASE code # "404"
        BY <1>1, <3>1, <4>2, QueuedFits
      <4> QED BY <4>1, <4>2
    <3>3. Shows(R, r)'
      BY <1>1, <3>2 DEF Shows
    <3>4. RowsHold' /\ \A x \in Rows : x # r => row'[x] = row[x]
      BY <2>1, <2>5, <3>1, <3>2, <3>3, OneRow
    <3>5. ASSUME NEW x \in Rows PROVE Attended(x)'
      BY <2>2, <2>3, <3>4, Unattended, OthersAttended
    <3> QED BY <2>2, <3>4, <3>5
  <2> QED BY <2>2, <2>4, <2>5
<1> QED BY <1>2, <1>3


-----------------------------------------------------------------------------
(* The app: its steps. *)

(* A step of the app that the engine does not notice.                      *)
LEMMA EngineSilent ==
    ASSUME TransferInv, UNCHANGED <<dir, fin, minted, again, stored>>,
           refused \subseteq refused', refused' \subseteq Cids,
           faults' \in 0 .. MaxFaults, edits' \in 0 .. MaxEdits, pipe' \in BOOLEAN
    PROVE  /\ RestTyped' /\ Grows /\ FinHolds' /\ DiskHolds' /\ UploadsHold'
           /\ \A x : Finishing(x)' = Finishing(x)
<1>1. RestTyped' /\ Grows
  BY DEF TransferInv, RestTyped, Grows
<1>2. FinHolds' /\ DiskHolds' /\ UploadsHold'
  <2>1. {} \in SUBSET fin /\ fin' = Abandon({})
    BY NoneAbandoned
  <2> QED BY <1>1, <2>1, EngineStays
<1>3. \A x : Finishing(x)' = Finishing(x)
  BY DEF Finishing
<1> QED BY <1>1, <1>2, <1>3

LEMMA Counted == TransferInv => /\ faults \in 0 .. MaxFaults /\ edits \in 0 .. MaxEdits
                                /\ pipe \in BOOLEAN /\ refused \subseteq Cids
  BY DEF TransferInv, RestTyped

LEMMA StartKeeps ==
    ASSUME TransferInv, NEW r \in Rows, Start(r)
    PROVE  TransferInv'
<1>1. PICK op \in {"begin", "get"} :
        Sets(r, Asking(row[r], op)) /\ wire' = wire \cup {Asks(r, op, 0)}
  BY DEF Start, Sets
<1>2. /\ UNCHANGED <<pipe, dir, fin, faults, edits, minted, again, stored, refused>>
      /\ row[r].st = "queued" /\ ~row[r].timer /\ pipe
  BY DEF Start, history
<1>3. /\ RestTyped' /\ Grows /\ FinHolds' /\ DiskHolds' /\ UploadsHold'
      /\ \A x : Finishing(x)' = Finishing(x)
  BY <1>2, EngineSilent, Counted
<1>4. row[r] \in Fits /\ Shows(row[r], r) /\ Of(r) = {} /\ Finishing(r) = {}
  BY <1>2, RowTypes
<1>5. PICK R : R = Asking(row[r], op)
  OBVIOUS
<1>6. R \in Fits /\ R.st = "active" /\ R.pc = op /\ R.acked = row[r].acked
  <2>1. row[r].out = {}
    BY <1>2, <1>4 DEF Fits, Still
  <2> QED BY <1>2, <1>4, <1>5, <2>1, AskingFits
<1>7. Shows(R, r)'
  BY <1>2, <1>4, <1>6 DEF Shows
<1>8. RowsHold' /\ row'[r] = R /\ \A x \in Rows : x # r => row'[x] = row[x]
  BY <1>1, <1>2, <1>3, <1>5, <1>6, <1>7, OneRow
<1>9. /\ WireHolds'
      /\ \A x : x # r => Of(x)' \subseteq Of(x)
      /\ Of(r)' \subseteq (Of(r) \cap wire) \cup {Asks(r, op, 0)}
      /\ Asks(r, op, 0).op = op /\ Asks(r, op, 0).n = 0
  <2>1. PICK W \in SUBSET wire : W = wire
    OBVIOUS
  <2>2. Loose(W) /\ RestTyped
    BY WireIsLoose DEF TransferInv
  <2> QED BY <1>1, <1>3, <2>1, <2>2, WireAsks
<1>10. Attended(r)'
  BY <1>3, <1>4, <1>6, <1>8, <1>9 DEF Attended
<1>11. ASSUME NEW x \in Rows, x # r PROVE Attended(x)'
  BY <1>3, <1>8, <1>9, <1>11, OthersAttended
<1> QED BY <1>3, <1>8, <1>9, <1>10, <1>11 DEF TransferInv

LEMMA EvictedKeeps ==
    ASSUME TransferInv, NEW r \in Rows, Evicted(r)
    PROVE  TransferInv'
<1>1. /\ UNCHANGED <<pipe, wire, dir, fin, edits, minted, again, stored>>
      /\ row[r].st = "queued" /\ refused' = refused \cup {Cid[r]} /\ Goes(r)
      /\ faults' \in 0 .. MaxFaults
  BY StrikesTypes DEF Evicted, TransferInv
<1>2. Of(r) = {} /\ Finishing(r) = {} /\ Cid[r] \in Cids
  BY <1>1, RowTypes
<1>3. /\ RestTyped' /\ Grows /\ FinHolds' /\ DiskHolds' /\ UploadsHold'
      /\ \A x : Finishing(x)' = Finishing(x)
  BY <1>1, <1>2, EngineSilent, Counted
<1>4. \A x : Of(x)' = Of(x)
  BY <1>1 DEF Of
<1>5. RowsHold' /\ \A x \in Rows : Attended(x)'
  BY <1>1, <1>2, <1>3, <1>4, GoesKeep
<1> QED BY <1>1, <1>3, <1>5, WireShrinks DEF TransferInv

(* An answer that is read is of a row that waits for it.                   *)
LEMMA AnswerTypes ==
    ASSUME TransferInv, NEW q \in wire, q.live
    PROVE  /\ q \in Requests /\ q.r \in Rows /\ Told(q) /\ q \in Of(q.r)
           /\ row[q.r].st = "active" /\ row[q.r].pc = q.op
           /\ row[q.r] \in Fits /\ row[q.r] \in Row /\ ~row[q.r].timer
           /\ Shows(row[q.r], q.r) /\ pipe
           /\ q.op # "put" => /\ \A x \in Of(q.r) : x = q
                              /\ \A x \in wire \ {q} : x.live => x.r # q.r
           /\ Finishing(q.r) = {}
<1>1. q \in Requests /\ q.r \in Rows /\ Told(q) /\ q \in Of(q.r)
  BY RequestTypes DEF Of
<1>2. /\ row[q.r] \in Fits /\ row[q.r] \in Row /\ Shows(row[q.r], q.r) /\ Attended(q.r)
      /\ row[q.r].timer => row[q.r].st = "queued"
  BY <1>1, RowTypes
<1>3. row[q.r].st = "active" /\ row[q.r].pc = q.op /\ Finishing(q.r) = {}
  BY <1>1, <1>2 DEF Attended
<1>4. q.op # "put" => \A x \in Of(q.r) : x = q
  BY <1>1, <1>2, <1>3 DEF Attended
<1> QED BY <1>1, <1>2, <1>3, <1>4 DEF Of, Shows

\* What reading the answer q keeps, but for the rows and the wire.
Reading(q) == q \in wire /\ q.live /\ q.ans # NoAns
              /\ UNCHANGED <<pipe, dir, fin, faults, edits, history>>

(* A pass that throws on its answer.                                       *)
LEMMA ReadThrows ==
    ASSUME TransferInv, NEW q, Reading(q), q.op # "put", Throws(q.r, q.ans.code, wire \ {q})
    PROVE  TransferInv'
<1>1. /\ q \in wire /\ q.live
      /\ UNCHANGED <<pipe, dir, fin, faults, edits, minted, again, stored, refused>>
  BY DEF Reading, history
<1>2. /\ RestTyped' /\ Grows /\ FinHolds' /\ DiskHolds' /\ UploadsHold'
      /\ \A x : Finishing(x)' = Finishing(x)
  BY <1>1, EngineSilent, Counted
<1>3. PICK W \in SUBSET wire : W = wire \ {q}
  OBVIOUS
<1>4. Loose(W)
  BY WireIsLoose
<1>5. PICK r \in Rows : r = q.r
  BY <1>1, AnswerTypes
<1>6. row[r].st = "active" /\ (\A x \in W : x.live => x.r # r) /\ Finishing(r) = {}
  BY <1>1, <1>3, <1>5, AnswerTypes
<1>7. q.ans.code = "gone" => Cid[r] \in refused
  BY <1>1, <1>5, AnswerTypes DEF Told
<1>8. Throws(r, q.ans.code, W)
  BY <1>3, <1>5
<1>9. RowsHold' /\ WireHolds' /\ \A x \in Rows : Attended(x)'
  BY <1>1, <1>2, <1>4, <1>6, <1>7, <1>8, ThrowsKeep
<1> QED BY <1>2, <1>9 DEF TransferInv

LEMMA LearnKeeps ==
    ASSUME TransferInv, NEW q, Reading(q), Learn(q)
    PROVE  TransferInv'
<1>1. /\ q \in wire /\ q.live /\ q.op \in {"begin", "get"}
      /\ UNCHANGED <<pipe, dir, fin, faults, edits, minted, again, stored, refused>>
  BY DEF Reading, history, Learn
<1>2. CASE q.ans.code # "ok"
  BY <1>1, <1>2, ReadThrows DEF Learn
<1>3. CASE q.ans.code = "ok"
  <2>1. /\ RestTyped' /\ Grows /\ FinHolds' /\ DiskHolds' /\ UploadsHold'
        /\ \A x : Finishing(x)' = Finishing(x)
    BY <1>1, EngineSilent, Counted
  <2>2. PICK r \in Rows : r = q.r
    BY <1>1, AnswerTypes
  <2>3. PICK R : R = [row[r] EXCEPT !.id = TRUE, !.acked = q.ans.have, !.pc = "put",
                                    !.todo = Chunks \ q.ans.have]
    OBVIOUS
  <2>4. Sets(r, R) /\ wire' = wire \ {q}
    BY <1>3, <2>2, <2>3 DEF Learn, Sets
  <2>5. /\ row[r] \in Fits /\ row[r].st = "active" /\ row[r].pc # "put" /\ pipe
        /\ q.ans.have \subseteq stored[Dir[r]] /\ q.ans.have \subseteq Chunks
        /\ Finishing(r) = {} /\ \A x \in wire \ {q} : x.live => x.r # r
    BY <1>1, <2>2, AnswerTypes DEF Told, Requests, Answers
  <2>6. row[r].out = {}
    BY <2>5 DEF Fits
  <2>7. R \in Fits /\ R.st = "active" /\ R.acked = q.ans.have
    BY <2>3, <2>5, <2>6 DEF Fits, Row
  <2>8. Shows(R, r)'
    BY <1>1, <2>5, <2>7 DEF Shows
  <2>9. RowsHold' /\ \A x \in Rows : x # r => row'[x] = row[x]
    BY <1>1, <2>1, <2>4, <2>7, <2>8, OneRow
  <2>10. Of(r)' = {} /\ \A x : Of(x)' \subseteq Of(x)
    BY <2>4, <2>5 DEF Of
  <2>11. ASSUME NEW x \in Rows PROVE Attended(x)'
    BY <2>1, <2>5, <2>9, <2>10, Unattended, OthersAttended
  <2> QED BY <2>1, <2>4, <2>9, <2>11, WireShrinks DEF TransferInv
<1> QED BY <1>2, <1>3


LEMMA SendPutKeeps ==
    ASSUME TransferInv, NEW r \in Rows, SendPut(r)
    PROVE  TransferInv'
<1>1. /\ UNCHANGED <<pipe, dir, fin, faults, edits, minted, again, stored, refused>>
      /\ row[r].pc = "put"
  BY DEF SendPut, history
<1>2. PICK n \in row[r].todo :
        /\ \A m \in row[r].todo : n <= m
        /\ row' = [row EXCEPT ![r] = [row[r] EXCEPT !.todo = @ \ {n}, !.out = @ \cup {n}]]
        /\ wire' = wire \cup {Asks(r, "put", n)}
  BY DEF SendPut
<1>3. /\ RestTyped' /\ Grows /\ FinHolds' /\ DiskHolds' /\ UploadsHold'
      /\ \A x : Finishing(x)' = Finishing(x)
  BY <1>1, EngineSilent, Counted
<1>4. /\ row[r] \in Fits /\ row[r] \in Row /\ Shows(row[r], r) /\ Attended(r)
      /\ row[r].st = "active" /\ n \in Chunks
  BY <1>1, RowTypes DEF Row
<1>5. PICK R : R = [row[r] EXCEPT !.todo = @ \ {n}, !.out = @ \cup {n}]
  OBVIOUS
<1>6. /\ R \in Fits /\ R.st = "active" /\ R.pc = "put" /\ R.acked = row[r].acked
      /\ R.out = row[r].out \cup {n} /\ n \notin row[r].out
  BY <1>1, <1>4, <1>5 DEF Fits, Row
<1>7. Shows(R, r)'
  BY <1>1, <1>4, <1>6 DEF Shows
<1>8. RowsHold' /\ row'[r] = R /\ \A x \in Rows : x # r => row'[x] = row[x]
  <2>1. Sets(r, R)
    BY <1>2, <1>5 DEF Sets
  <2> QED BY <1>1, <1>3, <1>6, <1>7, <2>1, OneRow
<1>9. /\ WireHolds'
      /\ \A x : x # r => Of(x)' \subseteq Of(x)
      /\ Of(r)' \subseteq (Of(r) \cap wire) \cup {Asks(r, "put", n)}
      /\ Asks(r, "put", n).op = "put" /\ Asks(r, "put", n).n = n
  <2>1. PICK W \in SUBSET wire : W = wire
    OBVIOUS
  <2>2. Loose(W) /\ RestTyped
    BY WireIsLoose DEF TransferInv
  <2> QED BY <1>2, <1>3, <1>4, <2>1, <2>2, WireAsks
<1>10. Attended(r)'
  <2>1. PICK p : p = Asks(r, "put", n)
    OBVIOUS
  <2>2. Of(r)' \subseteq Of(r) \cup {p} /\ p.op = "put" /\ p.n = n
    BY <1>9, <2>1
  <2>3. \A q \in Of(r) : q.op = "put" /\ q.n \in row[r].out
    BY <1>1, <1>4 DEF Attended
  <2>4. Finishing(r) = {} /\ \A q, q2 \in Of(r) : q.n = q2.n => q = q2
    BY <1>1, <1>4 DEF Attended
  <2> QED BY <1>3, <1>6, <1>8, <2>2, <2>3, <2>4 DEF Attended
<1>11. ASSUME NEW x \in Rows, x # r PROVE Attended(x)'
  BY <1>3, <1>8, <1>9, <1>11, OthersAttended
<1> QED BY <1>3, <1>8, <1>9, <1>10, <1>11 DEF TransferInv

(* The chunk n of r is out no more, and nobody waits for its answer.       *)
LEMMA ChunkSettles ==
    ASSUME TransferInv, RestTyped', UNCHANGED <<pipe, minted, stored, refused>>,
           NEW q \in wire, q.live, q.op = "put", NEW R \in Fits, Sets(q.r, R),
           R.st = "active", R.pc = "put", R.out = row[q.r].out \ {q.n},
           R.acked \subseteq stored[Dir[q.r]],
           NEW W, Loose(W), q \notin W, wire' = W,
           \A x \in Rows : Finishing(x)' \subseteq Finishing(x)
    PROVE  RowsHold' /\ WireHolds' /\ \A x \in Rows : Attended(x)'
<1>1. PICK r \in Rows : r = q.r
  BY AnswerTypes
<1>2. Grows /\ RestTyped
  BY DEF Grows, TransferInv, RestTyped
<1>3. /\ Shows(row[r], r) /\ q \in Of(r) /\ row[r].st = "active" /\ row[r].pc = "put"
      /\ Attended(r) /\ Finishing(r) = {}
  BY <1>1, AnswerTypes, RowTypes
<1>4. Shows(R, r)'
  BY <1>1, <1>3 DEF Shows
<1>5. RowsHold' /\ row'[r] = R /\ \A x \in Rows : x # r => row'[x] = row[x]
  BY <1>1, <1>4, OneRow
<1>6. WireHolds' /\ \A x : Of(x)' \subseteq Of(x)
  BY <1>2, WireLoosens
<1>7. Of(r)' \subseteq Of(r) \ {q} /\ Finishing(r)' = {}
  BY <1>3, <1>6 DEF Of
<1>8. Attended(r)'
  BY <1>1, <1>3, <1>5, <1>7 DEF Attended
<1>9. ASSUME NEW x \in Rows, x # r PROVE Attended(x)'
  BY <1>5, <1>6, <1>9, OthersAttended
<1> QED BY <1>5, <1>6, <1>8, <1>9

LEMMA ReadPutKeeps ==
    ASSUME TransferInv, NEW q, Reading(q), ReadPut(q)
    PROVE  TransferInv'
<1>1. /\ q \in wire /\ q.live /\ q.op = "put" /\ wire' = wire \ {q}
      /\ UNCHANGED <<pipe, dir, fin, faults, edits, minted, again, stored, refused>>
  BY DEF Reading, history, ReadPut
<1>2. /\ RestTyped' /\ Grows /\ FinHolds' /\ DiskHolds' /\ UploadsHold'
      /\ \A x : Finishing(x)' = Finishing(x)
  BY <1>1, EngineSilent, Counted
<1>3. PICK r \in Rows : r = q.r
  BY <1>1, AnswerTypes
<1>4. /\ row[r] \in Fits /\ row[r] \in Row /\ row[r].st = "active" /\ row[r].pc = "put"
      /\ Shows(row[r], r)
      /\ q.ans.have \subseteq stored[Dir[r]] /\ q.ans.have \subseteq Chunks
      /\ q.ans.code \in {"none", "ok", "404"} /\ q.n \in Chunks
  BY <1>1, <1>3, AnswerTypes DEF Told, Requests, Answers
<1>5. PICK S : S = IF q.ans.code = "ok" THEN [row[r] EXCEPT !.out = @ \ {q.n}]
                   ELSE Failed(row[r], q.n, q.ans.code)
  OBVIOUS
<1>6. PICK R : R = [S EXCEPT !.acked = Acked(row[r], q)]
  OBVIOUS
<1>7. Sets(r, R)
  BY <1>3, <1>5, <1>6 DEF ReadPut, Sets
<1>8. /\ S \in Fits /\ S.st = "active" /\ S.pc = "put" /\ S.out = row[r].out \ {q.n}
  <2>1. CASE q.ans.code = "ok"
    BY <1>4, <1>5, <2>1 DEF Fits, Row
  <2>2. CASE q.ans.code # "ok"
    BY <1>4, <1>5, <2>2, FailedFits
  <2> QED BY <2>1, <2>2
<1>9. Acked(row[r], q) \subseteq stored[Dir[r]] /\ Acked(row[r], q) \subseteq Chunks
  BY <1>4 DEF Acked, Shows, Row
<1>10. /\ R \in Fits /\ R.st = "active" /\ R.pc = "put" /\ R.out = row[r].out \ {q.n}
       /\ R.acked \subseteq stored[Dir[r]]
  BY <1>6, <1>8, <1>9 DEF Fits, Row
<1>11. PICK W \in SUBSET wire : W = wire \ {q}
  OBVIOUS
<1>12. RowsHold' /\ WireHolds' /\ \A x \in Rows : Attended(x)'
  BY <1>1, <1>2, <1>3, <1>7, <1>10, <1>11, WireIsLoose, ChunkSettles
<1> QED BY <1>2, <1>12 DEF TransferInv

LEMMA PutsDoneKeeps ==
    ASSUME TransferInv, NEW r \in Rows, PutsDone(r)
    PROVE  TransferInv'
<1>1. /\ UNCHANGED <<pipe, dir, fin, faults, edits, minted, again, stored, refused>>
      /\ row[r].pc = "put" /\ row[r].out = {}
  BY DEF PutsDone, history
<1>2. /\ RestTyped' /\ Grows /\ FinHolds' /\ DiskHolds' /\ UploadsHold'
      /\ \A x : Finishing(x)' = Finishing(x)
  BY <1>1, EngineSilent, Counted
<1>3. /\ row[r] \in Fits /\ row[r] \in Row /\ Shows(row[r], r) /\ Attended(r)
      /\ row[r].st = "active" /\ ~row[r].timer
  BY <1>1, RowTypes
<1>4. Of(r) = {} /\ Finishing(r) = {}
  BY <1>1, <1>3 DEF Attended
<1>5. PICK W \in SUBSET wire : W = wire
  OBVIOUS
<1>6. Loose(W) /\ RestTyped /\ \A x \in W : x.live => x.r # r
  BY <1>4, <1>5, WireIsLoose DEF TransferInv, Of
<1>7. CASE row[r].err # "none"
  <2>1. PICK code : code = row[r].err
    OBVIOUS
  <2>2. code # "gone" /\ Throws(r, code, W)
    BY <1>3, <1>5, <1>7, <2>1 DEF Row, PutsDone
  <2>3. RowsHold' /\ WireHolds' /\ \A x \in Rows : Attended(x)'
    BY <1>1, <1>2, <1>3, <1>4, <1>6, <2>2, ThrowsKeep
  <2> QED BY <1>2, <2>3 DEF TransferInv
<1>8. CASE row[r].err = "none"
  <2>1. PICK R : R = Asking(row[r], "finish")
    OBVIOUS
  <2>2. Sets(r, R) /\ wire' = W \cup {Asks(r, "finish", 0)}
    BY <1>5, <1>8, <2>1 DEF PutsDone, Sets
  <2>3. R \in Fits /\ R.st = "active" /\ R.pc = "finish" /\ R.acked = row[r].acked
    BY <1>1, <1>3, <2>1, AskingFits
  <2>4. Shows(R, r)'
    BY <1>1, <1>3, <2>3 DEF Shows
  <2>5. RowsHold' /\ row'[r] = R /\ \A x \in Rows : x # r => row'[x] = row[x]
    BY <1>1, <1>2, <2>2, <2>3, <2>4, OneRow
  <2>6. /\ WireHolds'
        /\ \A x : x # r => Of(x)' \subseteq Of(x)
        /\ Of(r)' \subseteq (Of(r) \cap W) \cup {Asks(r, "finish", 0)}
        /\ Asks(r, "finish", 0).op = "finish" /\ Asks(r, "finish", 0).n = 0
    BY <1>2, <1>6, <2>2, WireAsks
  <2>7. Attended(r)'
    BY <1>2, <1>4, <2>3, <2>5, <2>6 DEF Attended
  <2>8. ASSUME NEW x \in Rows, x # r PROVE Attended(x)'
    BY <1>2, <2>5, <2>6, <2>8, OthersAttended
  <2> QED BY <1>2, <2>5, <2>6, <2>7, <2>8 DEF TransferInv
<1> QED BY <1>7, <1>8


LEMMA ReadFinishKeeps ==
    ASSUME TransferInv, NEW q, Reading(q), ReadFinish(q)
    PROVE  TransferInv'
<1>1. /\ q \in wire /\ q.live /\ q.op = "finish"
      /\ UNCHANGED <<pipe, dir, fin, faults, edits, minted, again, stored, refused>>
  BY DEF Reading, history, ReadFinish
<1>2. CASE q.ans.code # "ok"
  BY <1>1, <1>2, ReadThrows DEF ReadFinish
<1>3. CASE q.ans.code = "ok"
  <2>1. /\ RestTyped' /\ Grows /\ FinHolds' /\ DiskHolds' /\ UploadsHold'
        /\ \A x : Finishing(x)' = Finishing(x)
    BY <1>1, EngineSilent, Counted
  <2>2. PICK r \in Rows : r = q.r
    BY <1>1, AnswerTypes
  <2>3. PICK R : R = [Idle(row[r]) EXCEPT !.st = "done", !.res = q.ans.up]
    OBVIOUS
  <2>4. Sets(r, R) /\ wire' = wire \ {q}
    BY <1>3, <2>2, <2>3 DEF ReadFinish, Sets
  <2>5. /\ row[r] \in Fits /\ row[r] \in Row /\ row[r].st = "active" /\ ~row[r].timer
        /\ Shows(row[r], r) /\ q.ans.up \in 1 .. minted[Dir[r]] /\ minted[Dir[r]] \in Nat
        /\ Finishing(r) = {} /\ \A x \in wire \ {q} : x.live => x.r # r
    BY <1>1, <1>3, <2>2, AnswerTypes, RequestTypes DEF Told, TransferInv, RestTyped
  <2>6. q.ans.up \in Nat /\ "done" \in {"absent", "queued", "done", "gone"}
    BY <2>5
  <2>7. R \in Fits /\ R.st = "done" /\ R.acked = row[r].acked /\ R.res = q.ans.up
    <3>1. PICK S : S = [Idle(row[r]) EXCEPT !.st = "done"]
      OBVIOUS
    <3>2. S \in Fits /\ S.st = "done" /\ S.acked = row[r].acked
      BY <2>5, <2>6, <3>1, EndsFit DEF Row
    <3>3. R = [S EXCEPT !.res = q.ans.up]
      BY <2>3, <3>1
    <3> QED BY <2>6, <3>2, <3>3 DEF Fits, Row, Still
  <2>8. Shows(R, r)'
    BY <1>1, <2>5, <2>7 DEF Shows
  <2>9. RowsHold' /\ \A x \in Rows : x # r => row'[x] = row[x]
    BY <1>1, <2>1, <2>4, <2>7, <2>8, OneRow
  <2>10. Of(r)' = {} /\ \A x : Of(x)' \subseteq Of(x)
    BY <2>4, <2>5 DEF Of
  <2>11. ASSUME NEW x \in Rows PROVE Attended(x)'
    BY <2>1, <2>5, <2>9, <2>10, Unattended, OthersAttended
  <2> QED BY <2>1, <2>4, <2>9, <2>11, WireShrinks DEF TransferInv
<1> QED BY <1>2, <1>3

LEMMA ReadKeeps == ASSUME TransferInv, NEW q \in wire, ReadAnswer(q) PROVE TransferInv'
  BY LearnKeeps, ReadPutKeeps, ReadFinishKeeps DEF ReadAnswer, Reading

LEMMA TimerKeeps ==
    ASSUME TransferInv, NEW r \in Rows, Timer(r)
    PROVE  TransferInv'
<1>1. /\ UNCHANGED <<pipe, wire, dir, fin, faults, edits, minted, again, stored, refused>>
      /\ row[r].timer /\ row' = [row EXCEPT ![r].timer = FALSE]
  BY DEF Timer, history
<1>2. /\ RestTyped' /\ Grows /\ FinHolds' /\ DiskHolds' /\ UploadsHold'
      /\ \A x : Finishing(x)' = Finishing(x)
  BY <1>1, EngineSilent, Counted
<1>3. PICK R : R = [row[r] EXCEPT !.timer = FALSE]
  OBVIOUS
<1>4. /\ row[r] \in Fits /\ row[r] \in Row /\ Shows(row[r], r) /\ row[r].st = "queued"
      /\ Of(r) = {} /\ Finishing(r) = {}
  BY <1>1, RowTypes
<1>5. R \in Fits /\ R.st = "queued" /\ R.acked = row[r].acked
  BY <1>3, <1>4 DEF Fits, Row, Still
<1>6. Shows(R, r)'
  BY <1>1, <1>4, <1>5 DEF Shows
<1>7. RowsHold' /\ \A x \in Rows : x # r => row'[x] = row[x]
  BY <1>1, <1>2, <1>3, <1>5, <1>6, OneRow DEF Sets
<1>8. \A x : Of(x)' = Of(x)
  BY <1>1 DEF Of
<1>9. ASSUME NEW x \in Rows PROVE Attended(x)'
  BY <1>2, <1>4, <1>7, <1>8, Unattended, OthersAttended
<1> QED BY <1>1, <1>2, <1>7, <1>9, WireShrinks DEF TransferInv

LEMMA DeadlineKeeps ==
    ASSUME TransferInv, NEW r \in Rows, Deadline(r)
    PROVE  TransferInv'
<1>1. /\ UNCHANGED <<pipe, dir, edits, minted, again, stored, refused>>
      /\ fin' = Abandon(Finishing(r)) /\ faults' \in 0 .. MaxFaults
  BY StrikesTypes DEF Deadline, history, TransferInv
<1>2. RestTyped' /\ Grows
  BY <1>1 DEF TransferInv, RestTyped, Grows
<1>3. PICK H \in SUBSET fin : H = Finishing(r)
  BY DEF Finishing
<1>4. /\ FinHolds' /\ DiskHolds' /\ UploadsHold'
      /\ \A x : Finishing(x)' \subseteq Finishing(x) \ H
  BY <1>1, <1>2, <1>3, EngineStays
<1>5. Finishing(r)' = {} /\ \A x \in Rows : Finishing(x)' \subseteq Finishing(x)
  BY <1>3, <1>4
<1>6. ASSUME NEW q \in Of(r), q.op = "put", row' = [row EXCEPT ![r] = Failed(@, q.n, "500")],
             wire' = Cut({q})
      PROVE  TransferInv'
  <2>1. q \in wire /\ q.live /\ q.r = r
    BY DEF Of
  <2>2. row[r] \in Fits /\ row[r].st = "active" /\ row[r].pc = "put" /\ Shows(row[r], r)
    BY <1>6, <2>1, AnswerTypes
  <2>3. PICK R : R = Failed(row[r], q.n, "500")
    OBVIOUS
  <2>4. /\ R \in Fits /\ R.st = "active" /\ R.pc = "put" /\ R.out = row[r].out \ {q.n}
        /\ R.acked = row[r].acked
    BY <2>2, <2>3, FailedFits
  <2>5. PICK W : W = Cut({q})
    OBVIOUS
  <2>6. Loose(W) /\ q \notin W
    <3>1. {q} \in SUBSET wire
      BY <2>1
    <3>2. Loose(Cut({q})) /\ \A x \in Cut({q}) : x.live => x \notin {q}
      BY <3>1, Cutting
    <3> QED BY <2>1, <2>5, <3>2
  <2>7. RowsHold' /\ WireHolds' /\ \A x \in Rows : Attended(x)'
    <3>1. Sets(q.r, R)
      BY <1>6, <2>1, <2>3 DEF Sets
    <3>2. R.acked \subseteq stored[Dir[q.r]]
      BY <2>1, <2>2, <2>4 DEF Shows
    <3> QED BY <1>1, <1>2, <1>5, <1>6, <2>1, <2>4, <2>5, <2>6, <3>1, <3>2, ChunkSettles
  <2> QED BY <1>2, <1>4, <2>7 DEF TransferInv
<1>7. ASSUME NEW q \in Of(r), q.op # "put", Throws(r, "500", Cut({q})) PROVE TransferInv'
  <2>1. q \in wire /\ q.live /\ q.r = r
    BY DEF Of
  <2>2. PICK W : W = Cut({q})
    OBVIOUS
  <2>3. Loose(W) /\ \A x \in W : x.live => x \in wire /\ x # q
    <3>1. {q} \in SUBSET wire
      BY <2>1
    <3>2. Loose(Cut({q})) /\ \A x \in Cut({q}) : x.live => x \notin {q}
      BY <3>1, Cutting
    <3> QED BY <2>2, <3>2 DEF Loose
  <2>4. row[r].st = "active" /\ \A x \in wire \ {q} : x.live => x.r # r
    BY <1>7, <2>1, AnswerTypes
  <2>5. RowsHold' /\ WireHolds' /\ \A x \in Rows : Attended(x)'
    BY <1>1, <1>2, <1>5, <1>7, <2>2, <2>3, <2>4, ThrowsKeep
  <2> QED BY <1>2, <1>4, <2>5 DEF TransferInv
<1>8. ASSUME Finishing(r) # {}, Throws(r, "500", wire) PROVE TransferInv'
  <2>1. PICK W \in SUBSET wire : W = wire
    OBVIOUS
  <2>2. Attended(r)
    BY RowTypes
  <2>3. row[r].st = "active" /\ Of(r) = {}
    BY <1>8, <2>2 DEF Attended
  <2>4. Loose(W) /\ \A x \in W : x.live => x.r # r
    BY <2>1, <2>3, WireIsLoose DEF Of
  <2>5. RowsHold' /\ WireHolds' /\ \A x \in Rows : Attended(x)'
    BY <1>1, <1>2, <1>5, <1>8, <2>1, <2>3, <2>4, ThrowsKeep
  <2> QED BY <1>2, <1>4, <2>5 DEF TransferInv
<1> QED BY <1>6, <1>7, <1>8 DEF Deadline

LEMMA ConnectKeeps == ASSUME TransferInv, Connect PROVE TransferInv'
<1>1. /\ UNCHANGED <<wire, dir, fin, faults, edits, minted, again, stored, refused>>
      /\ pipe' = TRUE
      /\ row' = [r \in Rows |-> [row[r] EXCEPT !.timer = @ /\ row[r].st # "queued"]]
  BY DEF Connect, history
<1>2. /\ RestTyped' /\ Grows /\ FinHolds' /\ DiskHolds' /\ UploadsHold'
      /\ \A x : Finishing(x)' = Finishing(x)
  BY <1>1, EngineSilent, Counted
<1>3. ASSUME NEW r \in Rows
      PROVE  /\ row'[r] \in Fits /\ Shows(row[r], r)'
             /\ row'[r].st = row[r].st /\ row'[r].pc = row[r].pc /\ row'[r].out = row[r].out
  <2>1. row[r] \in Fits /\ row[r] \in Row /\ Shows(row[r], r)
    BY RowTypes
  <2>2. row'[r] = [row[r] EXCEPT !.timer = row[r].timer /\ row[r].st # "queued"]
    BY <1>1
  <2>3. row[r].timer \in BOOLEAN /\ ~(row[r].timer /\ row[r].st # "queued")
    BY <2>1 DEF Fits, Row
  <2>4. row'[r] = [row[r] EXCEPT !.timer = FALSE]
    BY <2>2, <2>3
  <2>5. /\ row'[r] \in Fits /\ row'[r].st = row[r].st /\ row'[r].pc = row[r].pc
        /\ row'[r].out = row[r].out /\ row'[r].acked = row[r].acked /\ row'[r].res = row[r].res
    BY <2>1, <2>4 DEF Fits, Row, Still
  <2>6. Shows(row[r], r)'
    BY <1>1, <2>1, <2>5 DEF Shows
  <2> QED BY <2>5, <2>6
<1>4. RowsHold'
  <2>1. row' \in [Rows -> Fits]
    BY <1>1, <1>3
  <2> QED BY <1>3, <2>1, RowsShow
<1>5. ASSUME NEW r \in Rows PROVE Attended(r)'
  <2>1. Attended(r) /\ Of(r)' = Of(r) /\ Finishing(r)' = Finishing(r)
    BY <1>1, <1>2, RowTypes DEF Of
  <2> QED BY <1>3, <2>1 DEF Attended
<1> QED BY <1>1, <1>2, <1>4, <1>5, WireShrinks DEF TransferInv


(* The pipe goes down, and every row is as it may be without one.          *)
LEMMA Dropping ==
    ASSUME TransferInv, RestTyped', Drops, UNCHANGED <<minted, stored, refused>>,
           row' \in [Rows -> Fits],
           \A r \in Rows : /\ row'[r].st # "active" /\ row'[r].acked \subseteq row[r].acked
                           /\ row'[r].st \in {"done", "gone"} => /\ row'[r].st = row[r].st
                                                                 /\ row'[r].res = row[r].res,
           \A r \in Rows : Finishing(r)' = {}
    PROVE  RowsHold' /\ WireHolds' /\ \A r \in Rows : Attended(r)'
<1>1. ASSUME NEW r \in Rows PROVE Shows(row[r], r)'
  BY RowTypes DEF Shows
<1>2. wire' = {} /\ \A r \in Rows : Of(r)' = {}
  BY DEF Drops, Of
<1>3. WireHolds'
  BY <1>2 DEF WireHolds
<1> QED BY <1>1, <1>2, <1>3, RowsShow, Unattended

(* Nobody waits for a handler after all of them are abandoned.             *)
LEMMA AllAbandoned ==
    ASSUME TransferInv, RestTyped', Grows, fin' = Abandon(fin),
           UNCHANGED <<dir, minted, again>>
    PROVE  FinHolds' /\ DiskHolds' /\ UploadsHold' /\ \A r \in Rows : Finishing(r)' = {}
<1>1. PICK H \in SUBSET fin : H = fin
  OBVIOUS
<1>2. /\ FinHolds' /\ DiskHolds' /\ UploadsHold'
      /\ \A x : Finishing(x)' \subseteq Finishing(x) \ H
  BY <1>1, EngineStays
<1>3. \A x : Finishing(x) \subseteq fin
  BY DEF Finishing
<1> QED BY <1>1, <1>2, <1>3

LEMMA DisconnectKeeps == ASSUME TransferInv, Disconnect PROVE TransferInv'
<1>1. /\ UNCHANGED <<dir, edits, minted, again, stored, refused>> /\ Drops
      /\ row' = [r \in Rows |-> Parked(row[r])] /\ fin' = Abandon(fin)
      /\ faults' \in 0 .. MaxFaults
  BY StrikesTypes DEF Disconnect, history, TransferInv
<1>2. RestTyped' /\ Grows
  <2>1. pipe' \in BOOLEAN
    BY <1>1 DEF Drops
  <2> QED BY <1>1, <2>1 DEF TransferInv, RestTyped, Grows
<1>3. FinHolds' /\ DiskHolds' /\ UploadsHold' /\ \A r \in Rows : Finishing(r)' = {}
  BY <1>1, <1>2, AllAbandoned
<1>4. \A r \in Rows : /\ row'[r] \in Fits /\ row'[r].st # "active"
                      /\ row'[r].acked \subseteq row[r].acked
                      /\ row'[r].st \in {"done", "gone"} => row'[r] = row[r]
  BY <1>1, RowTypes, ParkedFits
<1>5. row' \in [Rows -> Fits]
  BY <1>1, <1>4
<1>6. RowsHold' /\ WireHolds' /\ \A r \in Rows : Attended(r)'
  BY <1>1, <1>2, <1>3, <1>4, <1>5, Dropping
<1> QED BY <1>2, <1>3, <1>6 DEF TransferInv

LEMMA ReloadKeeps == ASSUME TransferInv, Reload PROVE TransferInv'
<1>1. /\ UNCHANGED <<dir, edits, minted, again, stored, refused>> /\ Drops
      /\ row' = [r \in Rows |-> [IF row[r].st = "active" THEN Queued(row[r]) ELSE row[r]
                                   EXCEPT !.timer = FALSE]]
      /\ fin' = Abandon(fin) /\ faults' \in 0 .. MaxFaults
  BY StrikesTypes DEF Reload, history, TransferInv
<1>2. RestTyped' /\ Grows
  <2>1. pipe' \in BOOLEAN
    BY <1>1 DEF Drops
  <2> QED BY <1>1, <2>1 DEF TransferInv, RestTyped, Grows
<1>3. FinHolds' /\ DiskHolds' /\ UploadsHold' /\ \A r \in Rows : Finishing(r)' = {}
  BY <1>1, <1>2, AllAbandoned
<1>4. ASSUME NEW r \in Rows
      PROVE  /\ row'[r] \in Fits /\ row'[r].st # "active" /\ row'[r].acked \subseteq row[r].acked
             /\ row'[r].st \in {"done", "gone"} => /\ row'[r].st = row[r].st
                                                   /\ row'[r].res = row[r].res
  <2>1. row[r] \in Fits /\ row[r] \in Row
    BY RowTypes
  <2>2. CASE row[r].st = "active"
    <3>1. row'[r] = [Queued(row[r]) EXCEPT !.timer = FALSE]
      BY <1>1, <2>2
    <3>2. row'[r].st = "queued" /\ row'[r].acked = row[r].acked
      BY <2>1, <3>1 DEF Queued, Idle, Row
    <3> QED BY <2>1, <3>1, <3>2, QueuedFits
  <2>3. CASE row[r].st # "active"
    <3>1. row'[r] = [row[r] EXCEPT !.timer = FALSE]
      BY <1>1, <2>3
    <3> QED BY <2>1, <2>3, <3>1 DEF Fits, Row, Still
  <2> QED BY <2>2, <2>3
<1>5. row' \in [Rows -> Fits]
  BY <1>1, <1>4
<1>6. RowsHold' /\ WireHolds' /\ \A r \in Rows : Attended(r)'
  BY <1>1, <1>2, <1>3, <1>4, <1>5, Dropping
<1> QED BY <1>2, <1>3, <1>6 DEF TransferInv

LEMMA CrashKeeps == ASSUME TransferInv, Crash PROVE TransferInv'
<1> DEFINE Torn == {Dir[h.r] : h \in {x \in fin : x.at = "clean"}}
           Lost == {Dir[h.r] : h \in {x \in fin : Minting(x)}}
<1>1. /\ UNCHANGED <<edits, minted, stored, refused>> /\ Drops
      /\ row' = [r \in Rows |-> Parked(row[r])] /\ fin' = {}
      /\ again' = again \cup Lost /\ faults' \in 0 .. MaxFaults
  BY StrikesTypes DEF Crash, TransferInv, Minting
<1>2. PICK left \in [Dirs -> SUBSET Chunks] :
        /\ \A d \in Dirs : IF d \in Torn THEN left[d] \subseteq dir[d].chunks
                           ELSE left[d] = dir[d].chunks
        /\ dir' = [d \in Dirs |-> [dir[d] EXCEPT !.chunks = left[d]]]
  BY DEF Crash
<1>3. Lost \subseteq Dirs
  BY HandlerTypes
<1>4. RestTyped' /\ Grows
  <2>1. pipe' \in BOOLEAN
    BY <1>1 DEF Drops
  <2>2. again' \subseteq Dirs
    BY <1>1, <1>3 DEF TransferInv, RestTyped
  <2> QED BY <1>1, <2>1, <2>2 DEF TransferInv, RestTyped, Grows
<1>5. FinHolds' /\ \A r \in Rows : Finishing(r)' = {}
  BY <1>1 DEF FinHolds, Finishing
<1>6. \A r \in Rows : /\ row'[r] \in Fits /\ row'[r].st # "active"
                      /\ row'[r].acked \subseteq row[r].acked
                      /\ row'[r].st \in {"done", "gone"} => row'[r] = row[r]
  BY <1>1, RowTypes, ParkedFits
<1>7. row' \in [Rows -> Fits]
  BY <1>1, <1>6
<1>8. RowsHold' /\ WireHolds' /\ \A r \in Rows : Attended(r)'
  BY <1>1, <1>4, <1>5, <1>6, <1>7, Dropping
<1>9. ASSUME NEW d \in Dirs
      PROVE  /\ dir'[d] \in Directories /\ dir'[d].meta = dir[d].meta
             /\ dir'[d].reply = dir[d].reply /\ dir'[d].chunks \subseteq dir[d].chunks
  <2>1. dir[d] \in Directories /\ left[d] \subseteq dir[d].chunks /\ left[d] \in SUBSET Chunks
    BY <1>2 DEF TransferInv, DiskHolds
  <2> QED BY <1>2, <2>1 DEF Directories
<1>10. DiskHolds'
  <2>1. ASSUME NEW d \in Dirs PROVE Whole(d)' /\ Named(d)'
    <3>1. Whole(d) /\ Named(d)
      BY DEF TransferInv, DiskHolds
    <3>2. Whole(d)'
      BY <1>1, <1>9, <3>1 DEF Whole
    <3>3. Named(d)'
      BY <1>1, <1>9, <3>1 DEF Named
    <3> QED BY <3>2, <3>3
  <2>2. dir' \in [Dirs -> Directories]
    BY <1>2, <1>9
  <2> QED BY <2>1, <2>2 DEF DiskHolds
<1>11. ASSUME NEW d \in Dirs, Sole(d) PROVE d \in again' \/ Once(d)'
  <2>1. d \in again \/ Once(d)
    BY <1>11 DEF TransferInv, UploadsHold
  <2>2. CASE Once(d) /\ d \notin Lost
    <3>1. \A h \in fin : Dir[h.r] = d => ~Minting(h)
      BY <2>2
    <3>2. minted[d] = IF dir[d].reply = NoReply THEN 0 ELSE 1
      BY <2>2, <3>1 DEF Once
    <3>3. minted'[d] = minted[d] /\ dir'[d].reply = dir[d].reply /\ fin' = {}
      BY <1>1, <1>9
    <3> QED BY <3>2, <3>3 DEF Once
  <2> QED BY <1>1, <2>1, <2>2
<1> QED BY <1>4, <1>5, <1>8, <1>10, <1>11 DEF TransferInv, UploadsHold

LEMMA CancelKeeps == ASSUME TransferInv, NEW c \in Cids, Cancel(c) PROVE TransferInv'
<1> DEFINE mine == {r \in Rows : Cid[r] = c}
           begun == {r \in mine : row[r].st \in {"queued", "active"} /\ row[r].id /\ pipe}
           mQ == UNION {Of(r) : r \in mine}
           mH == UNION {Finishing(r) : r \in mine}
           deletes == {[Asks(r, "delete", 0) EXCEPT !.live = FALSE] : r \in begun}
<1>1. /\ UNCHANGED <<pipe, dir, faults, minted, again, stored, refused>>
      /\ edits' \in 0 .. MaxEdits
      /\ row' = [r \in Rows |-> IF r \in mine THEN Absent ELSE row[r]]
      /\ wire' = Cut(mQ) \cup deletes /\ fin' = Abandon(mH)
  BY DEF Cancel, history, TransferInv, RestTyped
<1>2. RestTyped' /\ Grows
  BY <1>1 DEF TransferInv, RestTyped, Grows
<1>3. PICK H \in SUBSET fin : H = mH
  BY DEF Finishing
<1>4. PICK Q \in SUBSET wire : Q = mQ
  BY DEF Of
<1>5. /\ FinHolds' /\ DiskHolds' /\ UploadsHold'
      /\ \A x : Finishing(x)' \subseteq Finishing(x) \ H
  BY <1>1, <1>2, <1>3, EngineStays
<1>6. ASSUME NEW x \in deletes PROVE x \in Requests /\ Told(x) /\ ~x.live
  <2>1. PICK r \in begun : x = [Asks(r, "delete", 0) EXCEPT !.live = FALSE]
    BY <1>6
  <2>2. /\ x \in Requests /\ x.r = r /\ x.op = "delete" /\ x.ans = NoAns /\ x.live = FALSE
        /\ NoAns.code = "none" /\ NoAns.have = {}
    BY <2>1 DEF Asks, Requests, NoAns, Ans, Answers
  <2>3. Told(x)
    BY <2>2 DEF Told
  <2> QED BY <2>2, <2>3
<1>7. PICK W : W = Cut(Q) \cup deletes
  OBVIOUS
<1>8. Loose(W) /\ \A x \in W : x.live => x \notin Q
  <2>1. Loose(Cut(Q)) /\ \A x \in Cut(Q) : x.live => x \notin Q
    BY Cutting
  <2> HIDE DEF deletes
  <2> QED BY <1>6, <1>7, <2>1 DEF Loose
<1>9. WireHolds' /\ \A x : Of(x)' \subseteq Of(x)
  BY <1>1, <1>2, <1>4, <1>7, <1>8, WireLoosens DEF TransferInv
<1>10. ASSUME NEW r \in mine PROVE Of(r)' = {} /\ Finishing(r)' = {}
  <2>1. Of(r) \subseteq Q /\ Finishing(r) \subseteq H
    BY <1>3, <1>4
  <2>2. Of(r)' \subseteq Of(r) /\ \A x \in Of(r)' : x \notin Q
    BY <1>1, <1>4, <1>7, <1>8, <1>9 DEF Of
  <2> QED BY <1>5, <2>1, <2>2
<1>11. ASSUME NEW r \in Rows PROVE row'[r] \in Fits /\ Shows(row[r], r)' /\ Attended(r)'
  <2>1. row[r] \in Fits /\ Shows(row[r], r)
    BY RowTypes
  <2>2. CASE r \in mine
    <3>1. row'[r] = Absent
      BY <1>1, <2>2
    <3> QED BY <1>10, <2>2, <3>1, FreshFits, Unattended DEF Shows
  <2>3. CASE r \notin mine
    <3>1. row'[r] = row[r]
      BY <1>1, <2>3
    <3>2. Shows(row[r], r)'
      BY <1>1, <2>1, <3>1 DEF Shows
    <3> QED BY <1>5, <1>9, <2>1, <3>1, <3>2, OthersAttended
  <2> QED BY <2>2, <2>3
<1>12. row' \in [Rows -> Fits]
  BY <1>1, <1>11
<1> QED BY <1>2, <1>5, <1>9, <1>11, <1>12, RowsShow DEF TransferInv

LEMMA ResendKeeps == ASSUME TransferInv, NEW c \in Cids, Resend(c) PROVE TransferInv'
<1>1. /\ UNCHANGED <<pipe, wire, dir, fin, faults, minted, again, stored, refused>>
      /\ edits' \in 0 .. MaxEdits
      /\ row' = [r \in Rows |-> IF Cid[r] = c /\ row[r].st = "gone" THEN Fresh ELSE row[r]]
  BY DEF Resend, history, TransferInv, RestTyped
<1>2. /\ RestTyped' /\ Grows /\ FinHolds' /\ DiskHolds' /\ UploadsHold'
      /\ \A x : Finishing(x)' = Finishing(x)
  BY <1>1, EngineSilent, Counted
<1>3. \A x : Of(x)' = Of(x)
  BY <1>1 DEF Of
<1>4. ASSUME NEW r \in Rows PROVE row'[r] \in Fits /\ Shows(row[r], r)' /\ Attended(r)'
  <2>1. row[r] \in Fits /\ Shows(row[r], r)
    BY RowTypes
  <2>2. CASE Cid[r] = c /\ row[r].st = "gone"
    <3>1. row'[r] = Fresh /\ Of(r)' = {} /\ Finishing(r)' = {}
      BY <1>1, <1>2, <1>3, <2>2, RowTypes
    <3> QED BY <3>1, FreshFits, Unattended DEF Shows
  <2>3. CASE ~(Cid[r] = c /\ row[r].st = "gone")
    <3>1. row'[r] = row[r]
      BY <1>1, <2>3
    <3>2. Shows(row[r], r)'
      BY <1>1, <2>1, <3>1 DEF Shows
    <3> QED BY <1>2, <1>3, <2>1, <3>1, <3>2, OthersAttended
  <2> QED BY <2>2, <2>3
<1>5. row' \in [Rows -> Fits]
  BY <1>1, <1>4
<1> QED BY <1>1, <1>2, <1>4, <1>5, RowsShow, WireShrinks DEF TransferInv

-----------------------------------------------------------------------------
(* The theorems. *)

LEMMA TransferInit == Init => TransferInv
<1> SUFFICES ASSUME Init PROVE TransferInv
  OBVIOUS
<1>1. RestTyped
  <2>1. 0 \in 0 .. MaxFaults /\ 0 \in 0 .. MaxEdits
    OBVIOUS
  <2> QED BY <2>1 DEF Init, RestTyped
<1>2. RowsHold
  BY FreshFits DEF Init, RowsHold, AckedWasStored, NothingGivenUp
<1>3. WireHolds /\ FinHolds /\ \A r \in Rows : Attended(r)
  BY DEF Init, WireHolds, FinHolds, Attended, Of, Finishing
<1>4. DiskHolds
  <2>1. Empty \in Directories /\ Empty.meta = "none" /\ Empty.reply = NoReply /\ Empty.chunks = {}
    BY DEF Empty, Directories
  <2> QED BY <2>1 DEF Init, DiskHolds, Whole, Named
<1>5. UploadsHold
  BY DEF Init, UploadsHold, Once, Empty
<1> QED BY <1>1, <1>2, <1>3, <1>4, <1>5 DEF TransferInv

LEMMA TransferStep == TransferInv /\ [Next]_vars => TransferInv'
<1> SUFFICES ASSUME TransferInv, [Next]_vars PROVE TransferInv'
  OBVIOUS
<1>1. CASE UNCHANGED vars
  <2>1. UNCHANGED <<row, pipe, wire, dir, fin, faults, edits, minted, again, stored, refused>>
    BY <1>1 DEF vars, history
  <2>2. /\ RestTyped' /\ Grows /\ FinHolds' /\ DiskHolds' /\ UploadsHold'
        /\ \A x : Finishing(x)' = Finishing(x)
    BY <2>1, EngineSilent, Counted
  <2>3. ASSUME NEW r \in Rows PROVE Attended(r)'
    BY <2>1, <2>2, AttendedStays DEF TransferInv, Of
  <2> QED BY <2>1, <2>2, <2>3, RowsStay, WireShrinks DEF TransferInv
<1>2. ASSUME NEW r \in Rows, Drives(r) \/ Evicted(r) \/ Deadline(r) PROVE TransferInv'
  BY <1>2, StartKeeps, SendPutKeeps, PutsDoneKeeps, TimerKeeps, EvictedKeeps, DeadlineKeeps
     DEF Drives
<1>3. CASE Connect \/ Disconnect \/ Reload \/ Crash
  BY <1>3, ConnectKeeps, DisconnectKeeps, ReloadKeeps, CrashKeeps
<1> QED BY <1>1, <1>2, <1>3, TakeKeeps, ReadKeeps, HandlesKeep, SweepKeeps, CancelKeeps,
           ResendKeeps DEF Next

(* Type correctness of the transfers: no attempt outlives its slot, and    *)
(* only a queued row waits for a timer.                                    *)
THEOREM TransferTypes == Spec => []TypeOK
<1> QED BY TransferInit, TransferStep, InvMeans, PTL DEF Spec

(* What a row shows of the engine was stored there, and what a row that is *)
(* done names was minted by the fronted route, whatever was dropped,       *)
(* repeated, torn, swept or crossed on the way.                            *)
THEOREM AckedIsStored == Spec => []AckedWasStored
<1> QED BY TransferInit, TransferStep, InvMeans, PTL DEF Spec

(* Only a refusal by the route, or lost local bytes, end a transfer in     *)
(* vain.                                                                   *)
THEOREM OnlyRefused == Spec => []NothingGivenUp
<1> QED BY TransferInit, TransferStep, InvMeans, PTL DEF Spec

(* The fronted route stores the bytes of one message once, but for the     *)
(* cases the engine cannot tell apart.                                     *)
THEOREM StoredOnce == Spec => []OneUpload
<1> QED BY TransferInit, TransferStep, InvMeans, PTL DEF Spec
=============================================================================
